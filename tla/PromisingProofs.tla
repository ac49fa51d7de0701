-------------------------- MODULE PromisingProofs --------------------------
(***************************************************************************)
(* Proofs about promises and tasks, for any set of tasks and promises: no  *)
(* cycle of blocked tasks, no lost wake-up, one result for each promise, a *)
(* first alarm that is real, a first cycle that ends with a failure, and   *)
(* all of it when it is small.                                             *)
(***************************************************************************)
EXTENDS Promising, FiniteSetTheorems, TLAPS

\* What one task may do, one disjunct for each action.
Act(t) ==
    \/ \E p \in Promise : \/ NewPromise(t, p) \/ Resolve(t, p) \/ Get(t, p)
                          \/ Delegate(t, p) \/ Abandon(t, p)
    \/ \E new \in Task : \E S \in SUBSET owned[t] : AsyncTask(t, new, S)
    \/ \E o \in Once, p \in Promise, new \in Task : DoFirst(t, o, p, new)
    \/ Launch(t) \/ End(t) \/ Ended(t)
    \/ Load(t) \/ Awaits(t) \/ Confirm(t) \/ ForceFailure(t) \/ FailuresForced(t)
    \/ Join(t) \/ Wake(t) \/ Return(t)

LEMMA NextIsAct ==
  ASSUME TypeOK, Next
  PROVE  \E t \in Task : Act(t)
<1>1. PICK t \in Task : Machinery(t) \/ Call(t)
  BY DEF Next
<1>2. CASE Machinery(t)
  BY <1>2 DEF Machinery, Search, Act
<1>3. CASE \E o \in Once : Do(t, o)
  <2>1. PICK o \in Once : Do(t, o)
    BY <1>3
  <2>2. once[o] \in Promise /\ Get(t, once[o])
    BY <2>1 DEF Do, TypeOK
  <2> QED
    BY <2>2 DEF Act
<1>4. CASE Call(t) /\ ~\E o \in Once : Do(t, o)
  BY <1>4 DEF Call, Act
<1> QED
  BY <1>1, <1>2, <1>3, <1>4

-----------------------------------------------------------------------------
(* Type correctness                                                        *)

LEMMA OnCycleType ==
  ASSUME TypeOK, NEW a \in [Task -> Promise \cup {NoPromise}]
  PROVE  OnCycle(a) \subseteq Promise
  BY DEF OnCycle, CyclicIf

LEMMA InitType == Init => TypeOK
  BY TaskAssumption DEF Init, TypeOK, PC, Getting, Result, NilNotFollowed

LEMMA CollectType ==
  ASSUME NEW s \in Seq(Promise), NEW p \in Promise
  PROVE  /\ Collect(s, p) \in Seq(Promise)
         /\ s = <<>> => Collect(s, p) = <<p>>
         /\ s # <<>> => Collect(s, p) # <<>> /\ Collect(s, p)[1] = s[1]
<1>1. CASE s = <<>>
  <2>1. ~\E i \in DOMAIN s : s[i] = p
    BY <1>1
  <2>2. Append(s, p) = <<p>>
    BY <1>1
  <2> QED
    BY <1>1, <2>1, <2>2 DEF Collect
<1>2. CASE s # <<>> /\ Collect(s, p) = Append(s, p)
  BY <1>2
<1>3. CASE s # <<>> /\ Collect(s, p) = s
  BY <1>3
<1> QED
  BY <1>1, <1>2, <1>3 DEF Collect

LEMMA TypeStep ==
  ASSUME TypeOK, NEW t \in Task, Act(t)
  PROVE  TypeOK'
<1> USE DEF At, Goto, promiseVars, taskVars, searchVars, asyncVars, count,
            PC, Getting, Result
<1>1. CASE \E p \in Promise : NewPromise(t, p)
  <2>1. NilNotFollowed'
    BY <1>1 DEF NewPromise, Make, TypeOK, NilNotFollowed
  <2> QED
    BY <1>1, <2>1 DEF NewPromise, Make, TypeOK
<1>2. CASE \E p \in Promise : Resolve(t, p)
  <2>1. NilNotFollowed'
    BY <1>2 DEF Resolve, resolvePromise, SetResult, TypeOK, NilNotFollowed
  <2> QED
    BY <1>2, <2>1 DEF Resolve, resolvePromise, SetResult, TypeOK
<1>3. CASE \E p \in Promise : Abandon(t, p)
  <2>1. NilNotFollowed'
    BY <1>3 DEF Abandon, resolvePromise, SetResult, TypeOK, NilNotFollowed
  <2> QED
    BY <1>3, <2>1 DEF Abandon, resolvePromise, SetResult, TypeOK
<1>4. CASE \E p \in Promise : Get(t, p)
  <2>1. PICK p \in Promise : Get(t, p)
    BY <1>4
  <2>2. awaiting' \in [Task -> Promise \cup {NoPromise}] /\ pc' \in [Task -> PC]
    BY <2>1 DEF Get, TypeOK
  <2>3. OnCycle(awaiting') \subseteq Promise
    BY <2>2, OnCycleType
  <2>6. doomed' \subseteq Promise
    BY <2>1, <2>3 DEF Get, TypeOK
  <2>7. gets' \in Nat
    BY <2>1 DEF Get, TypeOK
  <2>4. NilNotFollowed'
    BY <2>1 DEF Get, StartPass, TypeOK, NilNotFollowed
  <2>5. /\ checkP' \in [Task -> Promise \cup {NoPromise}]
        /\ collecting' \in [Task -> BOOLEAN]
        /\ affected' \in [Task -> Seq(Promise)]
    BY <2>1 DEF Get, StartPass, TypeOK
  <2> QED
    BY <2>1, <2>2, <2>4, <2>5, <2>6, <2>7 DEF Get, TypeOK
<1>5. CASE \E p \in Promise : Delegate(t, p)
  <2>1. PICK p \in Promise : Delegate(t, p)
    BY <1>5
  <2>2. child[t] \in Task
    BY <2>1 DEF Delegate, TypeOK, NilNotFollowed
  <2>3. NilNotFollowed'
    BY <2>1 DEF Delegate, TypeOK, NilNotFollowed
  <2>4. responsible' \in [Promise -> Task \cup {NoTask}]
    BY <2>1, <2>2 DEF Delegate, TypeOK
  <2>5. owned' \in [Task -> SUBSET Promise]
    <3> DEFINE left == [owned EXCEPT ![t] = @ \ {p}]
    <3>1. left \in [Task -> SUBSET Promise]
      BY DEF TypeOK
    <3>2. owned' = [left EXCEPT ![child[t]] = @ \cup {p}]
      BY <2>1 DEF Delegate
    <3> QED
      BY <3>1, <3>2
  <2>6. handing' \in [Task -> SUBSET Promise]
    BY <2>1 DEF Delegate, TypeOK
  <2>7. UNCHANGED <<made, result, waiting, awaiting, once, pc, searchVars, child,
                    onceP, count>>
    BY <2>1 DEF Delegate
  <2> QED
    BY <2>3, <2>4, <2>5, <2>6, <2>7 DEF TypeOK
<1>6. CASE \E new \in Task : \E S \in SUBSET owned[t] : AsyncTask(t, new, S)
  <2>1. NilNotFollowed'
    BY <1>6 DEF AsyncTask, TypeOK, NilNotFollowed
  <2> QED
    BY <1>6, <2>1 DEF AsyncTask, TypeOK
<1>7. CASE \E o \in Once, p \in Promise, new \in Task : DoFirst(t, o, p, new)
  <2>1. NilNotFollowed'
    BY <1>7 DEF DoFirst, Make, TypeOK, NilNotFollowed
  <2> QED
    BY <1>7, <2>1 DEF DoFirst, Make, TypeOK
<1>8. CASE Launch(t)
  <2>1. NilNotFollowed'
    BY <1>8 DEF Launch, TypeOK, NilNotFollowed
  <2> QED
    BY <1>8, <2>1 DEF Launch, TypeOK
<1>9. CASE End(t)
  <2>1. NilNotFollowed'
    BY <1>9 DEF End, TypeOK, NilNotFollowed
  <2> QED
    BY <1>9, <2>1 DEF End, TypeOK
<1>10. CASE Ended(t)
  <2>1. NilNotFollowed'
    BY <1>10 DEF Ended, TypeOK, NilNotFollowed
  <2> QED
    BY <1>10, <2>1 DEF Ended, TypeOK
<1>11. CASE Load(t)
  <2>1. checkP[t] \in Promise /\ awaiting[t] \in Promise
    BY <1>11 DEF Load, TypeOK, NilNotFollowed
  <2>2. Collect(affected[t], checkP[t]) \in Seq(Promise)
    BY <2>1, CollectType DEF TypeOK
  <2>3. NilNotFollowed'
    BY <1>11, <2>1 DEF Load, StartPass, EndOfPass, TypeOK, NilNotFollowed
  <2>4. /\ pc' \in [Task -> PC]
        /\ checkT' \in [Task -> Task \cup {NoTask}]
    BY <1>11, <2>1 DEF Load, EndOfPass, TypeOK
  <2>5. checkP' \in [Task -> Promise \cup {NoPromise}] /\ collecting' \in [Task -> BOOLEAN]
    BY <1>11, <2>1 DEF Load, StartPass, TypeOK
  <2>7. affected' \in [Task -> Seq(Promise)]
    <3>1. CASE affected' = [affected EXCEPT ![t] = <<>>]
      BY <3>1 DEF TypeOK
    <3>2. CASE affected' = [affected EXCEPT ![t] = IF collecting[t]
                              THEN Collect(@, checkP[t]) ELSE @]
      BY <2>2, <3>2 DEF TypeOK
    <3> QED
      BY <1>11, <3>1, <3>2 DEF Load, StartPass
  <2>6. UNCHANGED <<promiseVars, taskVars, once, nextP, asyncVars, count>>
    BY <1>11 DEF Load
  <2> QED
    BY <2>3, <2>4, <2>5, <2>6, <2>7 DEF TypeOK
<1>12. CASE Awaits(t)
  <2>1. NilNotFollowed'
    BY <1>12 DEF Awaits, EndOfPass, TypeOK, NilNotFollowed
  <2>2. nextP' \in [Task -> Promise \cup {NoPromise}]
    BY <1>12 DEF Awaits, TypeOK, NilNotFollowed
  <2>3. pc' \in [Task -> PC]
    BY <1>12 DEF Awaits, EndOfPass, TypeOK
  <2> QED
    BY <1>12, <2>1, <2>2, <2>3 DEF Awaits, EndOfPass, TypeOK
<1>13. CASE Confirm(t)
  <2>1. NilNotFollowed'
    BY <1>13 DEF Confirm, EndOfPass, TypeOK, NilNotFollowed
  <2> QED
    BY <1>13, <2>1 DEF Confirm, EndOfPass, TypeOK
<1>14. CASE ForceFailure(t)
  <2>1. NilNotFollowed'
    BY <1>14 DEF ForceFailure, SetResult, TypeOK, NilNotFollowed
  <2> QED
    BY <1>14, <2>1 DEF ForceFailure, SetResult, TypeOK
<1>15. CASE FailuresForced(t)
  <2>1. NilNotFollowed'
    BY <1>15 DEF FailuresForced, TypeOK, NilNotFollowed
  <2> QED
    BY <1>15, <2>1 DEF FailuresForced, TypeOK
<1>16. CASE Wake(t)
  <2>1. NilNotFollowed'
    BY <1>16 DEF Wake, TypeOK, NilNotFollowed
  <2> QED
    BY <1>16, <2>1 DEF Wake, TypeOK
<1>17. CASE Join(t)
  <2>1. NilNotFollowed'
    BY <1>17 DEF Join, EndSearch, TypeOK, NilNotFollowed
  <2>2. CASE result[awaiting[t]] # "none"
    BY <1>17, <2>1, <2>2 DEF Join, EndSearch, TypeOK
  <2>3. CASE result[awaiting[t]] = "none"
    <3>1. waiting' = [waiting EXCEPT ![awaiting[t]] = @ \cup {t}]
      BY <1>17, <2>3 DEF Join
    <3>2. waiting' \in [Promise -> SUBSET Task]
      BY <3>1 DEF TypeOK
    <3> QED
      BY <1>17, <2>1, <2>3, <3>2 DEF Join, EndSearch, TypeOK
  <2> QED
    BY <2>2, <2>3
<1>18. CASE Return(t)
  <2>1. NilNotFollowed'
    BY <1>18 DEF Return, TypeOK, NilNotFollowed
  <2> QED
    BY <1>18, <2>1 DEF Return, TypeOK
<1> QED
  BY <1>1, <1>2, <1>3, <1>4, <1>5, <1>6, <1>7, <1>8, <1>9,
     <1>10, <1>11, <1>12, <1>13, <1>14, <1>15, <1>16, <1>17, <1>18 DEF Act

LEMMA TypeStutter ==
  ASSUME TypeOK, UNCHANGED vars
  PROVE  TypeOK'
  BY DEF vars, promiseVars, taskVars, searchVars, asyncVars, count, TypeOK,
         NilNotFollowed

\* Every variable keeps its type and a search follows no nil pointer
\* (checkT.awaiting, checkP.responsible), whatever the tasks do.
THEOREM TypeCorrect == Spec => []TypeOK
<1>1. TypeOK /\ [Next]_vars => TypeOK'
  BY NextIsAct, TypeStep, TypeStutter
<1> QED
  BY InitType, <1>1, PTL DEF Spec

-----------------------------------------------------------------------------
(* No cycle of blocked tasks                                               *)

Searching == {"load", "awaits", "confirm"}

\* What the steps of AsyncTask and of the getter leave to rely on: a getter
\* announces what it awaits, a new task does nothing before it is launched,
\* and the second pass starts at the promise asked for.
Announced(t) == awaiting[t] # NoPromise <=> pc[t] \in Getting

Newborn(t) ==
    child[t] \in Task => /\ pc[t] = "delegating" /\ pc[child[t]] = "unborn"
                         /\ \A u \in Task : child[u] = child[t] => u = t

SecondPass(t) ==
    collecting[t] /\ pc[t] \in Searching =>
        \/ affected[t] = <<>> /\ pc[t] = "load" /\ checkP[t] = awaiting[t]
        \/ affected[t] # <<>> /\ affected[t][1] = awaiting[t]

Control == \A t \in Task : Announced(t) /\ Newborn(t) /\ SecondPass(t)

\* The search of t stays among the tasks of S, or has seen that they are a
\* cycle and is about to fail the promise that t awaits.
Sees(t, S) ==
    \/ /\ pc[t] \in Searching
       /\ \E u \in S : checkP[t] = awaiting[u]
       /\ pc[t] \in {"awaits", "confirm"} => checkT[t] = responsible[checkP[t]]
       /\ pc[t] = "confirm" => nextP[t] = awaiting[checkT[t]]
    \/ pc[t] = "fail" /\ affected[t] # <<>> /\ affected[t][1] = awaiting[t]

CycleSeen ==
    \A S \in SUBSET Task : S # {} /\ Cyclic(S) => \E t \in S : Sees(t, S)

LEMMA AnnouncedStep ==
  ASSUME TypeOK, Control, NEW t \in Task, Act(t), NEW u \in Task
  PROVE  Announced(u)'
<1> USE DEF At, Goto, promiseVars, taskVars, searchVars, asyncVars, count,
            PC, Getting
<1>1. CASE \E p \in Promise : NewPromise(t, p)
  BY <1>1 DEF NewPromise, Make, TypeOK, NilNotFollowed, Control, Announced, Newborn
<1>2. CASE \E p \in Promise : Resolve(t, p) \/ Abandon(t, p)
  BY <1>2 DEF Resolve, Abandon, resolvePromise, SetResult, TypeOK, NilNotFollowed, Control, Announced, Newborn
<1>3. CASE \E p \in Promise : Get(t, p)
  BY <1>3, TaskAssumption DEF Get, TypeOK, Control, Announced
<1>4. CASE \E p \in Promise : Delegate(t, p)
  BY <1>4 DEF Delegate, TypeOK, NilNotFollowed, Control, Announced, Newborn
<1>5. CASE \E new \in Task : \E S \in SUBSET owned[t] : AsyncTask(t, new, S)
  BY <1>5 DEF AsyncTask, TypeOK, NilNotFollowed, Control, Announced, Newborn
<1>6. CASE \E o \in Once, p \in Promise, new \in Task : DoFirst(t, o, p, new)
  BY <1>6 DEF DoFirst, Make, TypeOK, NilNotFollowed, Control, Announced, Newborn
<1>7. CASE Launch(t)
  <2>1. child[t] \in Task /\ pc[t] = "delegating" /\ pc[child[t]] = "unborn"
    BY <1>7 DEF Launch, TypeOK, NilNotFollowed, Control, Newborn
  <2>2. UNCHANGED awaiting
    BY <1>7 DEF Launch
  <2>3. PICK l \in {"running", "once"} :
          pc' = [pc EXCEPT ![t] = l, ![child[t]] = "running"]
    BY <1>7 DEF Launch
  <2>4. CASE u = child[t]
    BY <2>1, <2>2, <2>3, <2>4 DEF TypeOK, Control, Announced
  <2>5. CASE u # child[t]
    BY <2>1, <2>2, <2>3, <2>5 DEF TypeOK, Control, Announced
  <2> QED
    BY <2>4, <2>5
<1>8. CASE End(t)
  BY <1>8 DEF End, TypeOK, Control, Announced
<1>16. CASE Ended(t)
  BY <1>16 DEF Ended, TypeOK, Control, Announced
<1>9. CASE Load(t)
  BY <1>9 DEF Load, StartPass, EndOfPass, TypeOK, NilNotFollowed, Control, Announced, Newborn
<1>10. CASE Awaits(t)
  BY <1>10 DEF Awaits, EndOfPass, TypeOK, NilNotFollowed, Control, Announced, Newborn
<1>11. CASE Confirm(t)
  BY <1>11 DEF Confirm, EndOfPass, TypeOK, NilNotFollowed, Control, Announced, Newborn
<1>12. CASE ForceFailure(t)
  BY <1>12 DEF ForceFailure, TypeOK, NilNotFollowed, Control, Announced, Newborn
<1>13. CASE FailuresForced(t)
  BY <1>13 DEF FailuresForced, TypeOK, Control, Announced
<1>17. CASE Wake(t)
  BY <1>17 DEF Wake, TypeOK, Control, Announced
<1>14. CASE Join(t)
  <2>1. UNCHANGED awaiting /\ pc[t] = "join"
    BY <1>14 DEF Join
  <2>2. pc' = [pc EXCEPT ![t] = "blocked"] \/ pc' = [pc EXCEPT ![t] = "return"]
    BY <1>14 DEF Join
  <2> QED
    BY <2>1, <2>2 DEF TypeOK, Control, Announced
<1>15. CASE Return(t)
  BY <1>15 DEF Return, TypeOK, NilNotFollowed, Control, Announced, Newborn
<1> QED
  BY <1>1, <1>2, <1>3, <1>4, <1>5, <1>6, <1>7, <1>8, <1>9,
     <1>10, <1>11, <1>12, <1>13, <1>14, <1>15, <1>16, <1>17 DEF Act

LEMMA NewbornStep ==
  ASSUME TypeOK, Control, NEW t \in Task, Act(t), NEW u \in Task
  PROVE  Newborn(u)'
<1> USE DEF At, Goto, promiseVars, taskVars, searchVars, asyncVars, count,
            PC, Getting
<1>1. CASE \E p \in Promise : NewPromise(t, p)
  BY <1>1 DEF NewPromise, Make, TypeOK, NilNotFollowed, Control, Newborn
<1>2. CASE \E p \in Promise : Resolve(t, p) \/ Abandon(t, p)
  BY <1>2 DEF Resolve, Abandon, resolvePromise, SetResult, TypeOK, NilNotFollowed, Control, Newborn
<1>3. CASE \E p \in Promise : Get(t, p)
  BY <1>3 DEF Get, StartPass, TypeOK, NilNotFollowed, Control, Newborn
<1>4. CASE \E p \in Promise : Delegate(t, p)
  BY <1>4 DEF Delegate, TypeOK, NilNotFollowed, Control, Newborn
<1>5. CASE \E new \in Task : \E S \in SUBSET owned[t] : AsyncTask(t, new, S)
  BY <1>5 DEF AsyncTask, TypeOK, NilNotFollowed, Control, Newborn
<1>6. CASE \E o \in Once, p \in Promise, new \in Task : DoFirst(t, o, p, new)
  BY <1>6 DEF DoFirst, Make, TypeOK, NilNotFollowed, Control, Newborn
<1>7. CASE Launch(t)
  BY <1>7 DEF Launch, TypeOK, NilNotFollowed, Control, Newborn
<1>8. CASE End(t) \/ Ended(t)
  BY <1>8 DEF End, Ended, TypeOK, NilNotFollowed, Control, Newborn
<1>9. CASE Load(t)
  BY <1>9 DEF Load, StartPass, EndOfPass, TypeOK, NilNotFollowed, Control, Newborn
<1>10. CASE Awaits(t)
  BY <1>10 DEF Awaits, EndOfPass, TypeOK, NilNotFollowed, Control, Newborn
<1>11. CASE Confirm(t)
  BY <1>11 DEF Confirm, EndOfPass, TypeOK, NilNotFollowed, Control, Newborn
<1>12. CASE ForceFailure(t)
  BY <1>12 DEF ForceFailure, TypeOK, NilNotFollowed, Control, Newborn
<1>13. CASE FailuresForced(t) \/ Wake(t)
  BY <1>13 DEF FailuresForced, Wake, TypeOK, NilNotFollowed, Control, Newborn
<1>14. CASE Join(t)
  BY <1>14 DEF Join, EndSearch, TypeOK, NilNotFollowed, Control, Newborn
<1>15. CASE Return(t)
  BY <1>15 DEF Return, TypeOK, NilNotFollowed, Control, Newborn
<1> QED
  BY <1>1, <1>2, <1>3, <1>4, <1>5, <1>6, <1>7, <1>8, <1>9,
     <1>10, <1>11, <1>12, <1>13, <1>14, <1>15 DEF Act

LEMMA SecondPassStep ==
  ASSUME TypeOK, Control, NEW t \in Task, Act(t), NEW u \in Task
  PROVE  SecondPass(u)'
<1> USE DEF At, Goto, promiseVars, taskVars, searchVars, asyncVars, count,
            PC, Getting
<1>1. CASE \E p \in Promise : NewPromise(t, p)
  BY <1>1 DEF NewPromise, Make, TypeOK, NilNotFollowed, Control, SecondPass, Searching, Announced
<1>2. CASE \E p \in Promise : Resolve(t, p) \/ Abandon(t, p)
  BY <1>2 DEF Resolve, Abandon, resolvePromise, SetResult, TypeOK, NilNotFollowed, Control, SecondPass, Searching, Announced
<1>3. CASE \E p \in Promise : Get(t, p)
  BY <1>3 DEF Get, StartPass, TypeOK, NilNotFollowed, Control, SecondPass, Searching, Announced
<1>4. CASE \E p \in Promise : Delegate(t, p)
  BY <1>4 DEF Delegate, TypeOK, NilNotFollowed, Control, SecondPass, Searching, Announced
<1>5. CASE \E new \in Task : \E S \in SUBSET owned[t] : AsyncTask(t, new, S)
  BY <1>5 DEF AsyncTask, TypeOK, NilNotFollowed, Control, SecondPass, Searching, Announced
<1>6. CASE \E o \in Once, p \in Promise, new \in Task : DoFirst(t, o, p, new)
  BY <1>6 DEF DoFirst, Make, TypeOK, NilNotFollowed, Control, SecondPass, Searching, Announced
<1>7. CASE Launch(t)
  BY <1>7 DEF Launch, TypeOK, NilNotFollowed, Control, SecondPass, Searching, Announced
<1>8. CASE End(t) \/ Ended(t)
  BY <1>8 DEF End, Ended, TypeOK, NilNotFollowed, Control, SecondPass, Searching, Announced
<1>9. CASE Load(t)
  <2>1. CASE u # t
    BY <1>9, <2>1 DEF Load, StartPass, TypeOK, Control, SecondPass
  <2>2. CASE u = t /\ responsible[checkP[t]] = t /\ ~collecting[t]
    BY <1>9, <2>2 DEF Load, StartPass, TypeOK, SecondPass
  <2>3. CASE u = t /\ ~(responsible[checkP[t]] = t /\ ~collecting[t])
    <3>1. checkP[t] \in Promise /\ affected[t] \in Seq(Promise)
      BY <1>9 DEF Load, TypeOK, NilNotFollowed
    <3>2. /\ UNCHANGED <<collecting, awaiting>>
          /\ collecting[t] => affected'[t] = Collect(affected[t], checkP[t])
      BY <1>9, <2>3 DEF Load, TypeOK
    <3>3. collecting[t] => \/ affected[t] = <<>> /\ checkP[t] = awaiting[t]
                           \/ affected[t] # <<>> /\ affected[t][1] = awaiting[t]
      BY <1>9 DEF Load, Control, SecondPass, Searching
    <3>4. collecting[t] => affected'[t] # <<>> /\ affected'[t][1] = awaiting[t]
      <4> DEFINE s == Collect(affected[t], checkP[t])
      <4>1. CASE affected[t] = <<>>
        <5>1. s = <<checkP[t]>>
          BY <3>1, <4>1, CollectType
        <5> QED
          BY <3>2, <3>3, <4>1, <5>1
      <4>2. CASE affected[t] # <<>>
        <5>1. s # <<>> /\ s[1] = affected[t][1]
          BY <3>1, <4>2, CollectType
        <5> QED
          BY <3>2, <3>3, <4>2, <5>1
      <4> QED
        BY <4>1, <4>2
    <3> QED
      BY <2>3, <3>2, <3>4 DEF SecondPass
  <2> QED
    BY <2>1, <2>2, <2>3
<1>10. CASE Awaits(t)
  BY <1>10 DEF Awaits, EndOfPass, TypeOK, NilNotFollowed, Control, SecondPass, Searching, Announced
<1>11. CASE Confirm(t)
  BY <1>11 DEF Confirm, EndOfPass, TypeOK, NilNotFollowed, Control, SecondPass, Searching, Announced
<1>12. CASE ForceFailure(t)
  BY <1>12 DEF ForceFailure, TypeOK, NilNotFollowed, Control, SecondPass, Searching, Announced
<1>13. CASE FailuresForced(t) \/ Wake(t)
  BY <1>13 DEF FailuresForced, Wake, TypeOK, NilNotFollowed, Control, SecondPass, Searching, Announced
<1>14. CASE Join(t)
  BY <1>14 DEF Join, EndSearch, TypeOK, NilNotFollowed, Control, SecondPass, Searching, Announced
<1>15. CASE Return(t)
  BY <1>15 DEF Return, TypeOK, NilNotFollowed, Control, SecondPass, Searching, Announced
<1> QED
  BY <1>1, <1>2, <1>3, <1>4, <1>5, <1>6, <1>7, <1>8, <1>9,
     <1>10, <1>11, <1>12, <1>13, <1>14, <1>15 DEF Act

LEMMA ControlInv == Spec => []Control
<1>1. Init => Control
  BY TaskAssumption DEF Init, Control, Announced, Newborn, SecondPass, Getting
<1>2. TypeOK /\ Control /\ [Next]_vars => Control'
  <2>1. ASSUME TypeOK, Control, Next PROVE Control'
    BY <2>1, NextIsAct, AnnouncedStep, NewbornStep, SecondPassStep DEF Control
  <2>2. ASSUME Control, UNCHANGED vars PROVE Control'
    BY <2>2 DEF vars, taskVars, searchVars, asyncVars, Control, Announced, Newborn, SecondPass
  <2> QED
    BY <2>1, <2>2
<1> QED
  BY <1>1, <1>2, TypeCorrect, PTL DEF Spec

\* What S is waiting for is what it was waiting for before the step.
SameCycle(S) ==
    \A u \in S : /\ awaiting'[u] = awaiting[u]
                 /\ responsible'[awaiting[u]] = responsible[awaiting[u]]
                 /\ result'[awaiting[u]] = "none" => result[awaiting[u]] = "none"

\* The search of w makes no step.
SearchKept(w) ==
    /\ pc'[w] = pc[w] /\ affected'[w] = affected[w] /\ collecting'[w] = collecting[w]
    /\ checkP'[w] = checkP[w] /\ checkT'[w] = checkT[w] /\ nextP'[w] = nextP[w]

LEMMA CycleBefore ==
  ASSUME NEW S \in SUBSET Task, Cyclic(S)', SameCycle(S)
  PROVE  Cyclic(S)
  BY DEF Cyclic, CyclicIf, SameCycle

LEMMA SeesKept ==
  ASSUME NEW S \in SUBSET Task, Cyclic(S), SameCycle(S), NEW w \in S,
         Sees(w, S), SearchKept(w)
  PROVE  Sees(w, S)'
<1>1. CASE pc[w] = "fail" /\ affected[w] # <<>> /\ affected[w][1] = awaiting[w]
  BY <1>1 DEF Sees, SameCycle, SearchKept
<1>2. CASE pc[w] \in Searching
  <2>1. PICK u \in S : checkP[w] = awaiting[u]
    BY <1>2 DEF Sees, Searching
  <2>2. responsible[checkP[w]] \in S /\ responsible'[checkP[w]] = responsible[checkP[w]]
    BY <2>1 DEF Cyclic, CyclicIf, SameCycle
  <2>3. checkP'[w] = awaiting'[u]
    BY <2>1 DEF SameCycle, SearchKept
  <2>4. pc[w] \in {"awaits", "confirm"} => checkT[w] = responsible[checkP[w]]
    BY <1>2 DEF Sees, Searching
  <2>5. pc[w] = "confirm" => nextP[w] = awaiting[checkT[w]]
    BY <1>2 DEF Sees, Searching
  <2>6. pc'[w] \in {"awaits", "confirm"} => checkT'[w] = responsible'[checkP'[w]]
    BY <2>2, <2>4 DEF SearchKept
  <2>7. pc'[w] = "confirm" => nextP'[w] = awaiting'[checkT'[w]]
    BY <2>2, <2>4, <2>5 DEF SameCycle, SearchKept
  <2>8. pc'[w] \in Searching
    BY <1>2 DEF SearchKept
  <2> QED
    BY <2>3, <2>6, <2>7, <2>8 DEF Sees
<1> QED
  BY <1>1, <1>2 DEF Sees

\* No step of another task moves a search.
LEMMA OthersSearch ==
  ASSUME TypeOK, Control, NEW t \in Task, Act(t), NEW w \in Task, w # t,
         pc[w] # "unborn"
  PROVE  SearchKept(w)
<1> USE DEF At, Goto, promiseVars, taskVars, searchVars, asyncVars, count
<1>1. CASE \E p \in Promise : NewPromise(t, p)
  BY <1>1 DEF NewPromise, Make, TypeOK, SearchKept
<1>2. CASE \E p \in Promise : Resolve(t, p) \/ Abandon(t, p)
  BY <1>2 DEF Resolve, Abandon, resolvePromise, SetResult, TypeOK, SearchKept
<1>3. CASE \E p \in Promise : Get(t, p)
  BY <1>3 DEF Get, StartPass, TypeOK, SearchKept
<1>4. CASE \E p \in Promise : Delegate(t, p)
  BY <1>4 DEF Delegate, TypeOK, SearchKept
<1>5. CASE \E new \in Task : \E S \in SUBSET owned[t] : AsyncTask(t, new, S)
  BY <1>5 DEF AsyncTask, TypeOK, SearchKept
<1>6. CASE \E o \in Once, p \in Promise, new \in Task : DoFirst(t, o, p, new)
  BY <1>6 DEF DoFirst, Make, TypeOK, SearchKept
<1>7. CASE Launch(t)
  BY <1>7 DEF Launch, TypeOK, SearchKept, NilNotFollowed, Control, Newborn
<1>8. CASE End(t) \/ Ended(t)
  BY <1>8 DEF End, Ended, TypeOK, SearchKept
<1>9. CASE Load(t)
  BY <1>9 DEF Load, StartPass, TypeOK, SearchKept
<1>10. CASE Awaits(t) \/ Confirm(t)
  BY <1>10 DEF Awaits, Confirm, TypeOK, SearchKept
<1>11. CASE ForceFailure(t)
  BY <1>11 DEF ForceFailure, SetResult, TypeOK, SearchKept
<1>12. CASE FailuresForced(t) \/ Wake(t)
  BY <1>12 DEF FailuresForced, Wake, TypeOK, SearchKept
<1>13. CASE Join(t)
  BY <1>13 DEF Join, EndSearch, TypeOK, SearchKept
<1>14. CASE Return(t)
  BY <1>14 DEF Return, TypeOK, SearchKept
<1> QED
  BY <1>1, <1>2, <1>3, <1>4, <1>5, <1>6, <1>7, <1>8, <1>9,
     <1>10, <1>11, <1>12, <1>13, <1>14 DEF Act

\* A step that leaves S a cycle has only the announcement of one of its tasks
\* to change it: who becomes responsible does not wait, who is woken leaves,
\* and a promise with a result is no longer waited for.
LEMMA CycleKept ==
  ASSUME TypeOK, Control, NEW t \in Task, Act(t),
         NEW S \in SUBSET Task, Cyclic(S)',
         ~(t \in S /\ \E p \in Promise : Get(t, p))
  PROVE  SameCycle(S)
<1> USE DEF At, Goto, promiseVars, taskVars, searchVars, asyncVars, count
<1>1. \A u \in S : /\ awaiting'[u] # NoPromise
                   /\ responsible'[awaiting'[u]] \in S
                   /\ result'[awaiting'[u]] = "none"
  BY DEF Cyclic, CyclicIf
<1>2. ASSUME NEW u \in Task, pc[u] \notin Getting, UNCHANGED awaiting
      PROVE  u \notin S
  BY <1>1, <1>2 DEF Control, Announced
<1>3. ASSUME NEW p \in Promise, NEW r \in (Task \cup {NoTask}) \ S, UNCHANGED awaiting,
             responsible' = [responsible EXCEPT ![p] = r],
             \A q \in Promise : q # p => result'[q] = result[q]
      PROVE  SameCycle(S)
  <2>1. ASSUME NEW u \in S
        PROVE  awaiting[u] # p /\ awaiting[u] \in Promise
    BY <1>1, <1>3, <2>1 DEF TypeOK
  <2> QED
    BY <1>3, <2>1 DEF SameCycle, TypeOK
<1>4. NoTask \notin S
  BY TaskAssumption
<1>5. CASE \E p \in Promise : NewPromise(t, p)
  BY <1>2, <1>3, <1>5 DEF NewPromise, Make, Getting
<1>6. CASE \E p \in Promise : Resolve(t, p) \/ Abandon(t, p)
  <2>1. PICK p \in Promise, r \in Result : resolvePromise(t, p, r)
    BY <1>6 DEF Resolve, Abandon, Result
  <2>2. UNCHANGED awaiting /\ responsible' = [responsible EXCEPT ![p] = NoTask]
    BY <2>1 DEF resolvePromise
  <2>3. \A q \in Promise : q # p => result'[q] = result[q]
    BY <2>1 DEF resolvePromise, SetResult, TypeOK
  <2> QED
    BY <1>3, <1>4, <2>2, <2>3
<1>7. CASE \E p \in Promise : Get(t, p)
  BY <1>7 DEF Get, SameCycle, TypeOK
<1>8. CASE \E p \in Promise : Delegate(t, p)
  <2>1. child[t] \in Task /\ pc[child[t]] = "unborn"
    BY <1>8 DEF Delegate, TypeOK, NilNotFollowed, Control, Newborn
  <2>2. UNCHANGED <<awaiting, result>>
    BY <1>8 DEF Delegate
  <2>3. child[t] \notin S
    BY <1>2, <2>1, <2>2 DEF Getting
  <2> QED
    BY <1>3, <1>8, <2>1, <2>2, <2>3 DEF Delegate
<1>9. CASE \E o \in Once, p \in Promise, new \in Task : DoFirst(t, o, p, new)
  BY <1>2, <1>3, <1>9 DEF DoFirst, Make, Getting
<1>10. CASE ForceFailure(t)
  <2>1. affected[t][1] \in Promise
    BY <1>10 DEF ForceFailure, TypeOK
  <2>2. UNCHANGED <<awaiting, responsible>>
    BY <1>10 DEF ForceFailure
  <2>3. result' = [result EXCEPT ![affected[t][1]] =
                     IF @ = "none" THEN "selfDependent" ELSE @]
    BY <1>10 DEF ForceFailure, SetResult
  <2>4. \A q \in Promise : result'[q] = "none" => result[q] = "none"
    BY <2>1, <2>3 DEF TypeOK
  <2> QED
    BY <1>1, <2>2, <2>4 DEF SameCycle, TypeOK
<1>11. CASE Return(t)
  <2>1. t \notin S
    BY <1>1, <1>11 DEF Return, TypeOK
  <2> QED
    BY <1>11, <2>1 DEF Return, SameCycle, TypeOK
<1>12. CASE UNCHANGED <<awaiting, responsible, result>>
  BY <1>12 DEF SameCycle
<1>13. CASE \/ \E new \in Task : \E R \in SUBSET owned[t] : AsyncTask(t, new, R)
            \/ Launch(t) \/ End(t) \/ Ended(t) \/ Load(t) \/ Awaits(t) \/ Confirm(t)
            \/ FailuresForced(t) \/ Join(t) \/ Wake(t)
  BY <1>12, <1>13 DEF AsyncTask, Launch, End, Ended, Load, Awaits, Confirm,
                      FailuresForced, Join, Wake
<1> QED
  BY <1>5, <1>6, <1>7, <1>8, <1>9, <1>10, <1>11, <1>13 DEF Act

\* The search of a task of the cycle goes on inside the cycle, and ends in its
\* failure.
LEMMA SearchStep ==
  ASSUME TypeOK, Control, NEW t \in Task, Act(t),
         NEW S \in SUBSET Task, t \in S, Cyclic(S), Cyclic(S)', SameCycle(S),
         Sees(t, S), ~\E p \in Promise : Get(t, p)
  PROVE  Sees(t, S)'
<1> USE DEF At, Goto, promiseVars, taskVars, searchVars, asyncVars, count
<1>1. pc[t] \in Searching \cup {"fail"}
  BY DEF Sees
<1>2. CASE Load(t)
  <2>1. PICK u \in S : checkP[t] = awaiting[u]
    BY <1>2 DEF Load, Sees, Searching
  <2>2. responsible[checkP[t]] \in S /\ checkP[t] \in Promise /\ awaiting[t] \in Promise
    BY <2>1, <1>2 DEF Cyclic, CyclicIf, Load, TypeOK, NilNotFollowed, Getting
  <2>3. UNCHANGED <<awaiting, responsible>> /\ checkT'[t] = responsible[checkP[t]]
    BY <1>2 DEF Load, TypeOK
  <2>4. CASE responsible[checkP[t]] # t
    <3>1. pc'[t] = "awaits" /\ checkP' = checkP
      BY <1>2, <2>2, <2>4, TaskAssumption DEF Load, TypeOK
    <3> QED
      BY <2>1, <2>3, <3>1 DEF Sees, Searching
  <2>5. CASE responsible[checkP[t]] = t /\ ~collecting[t]
    <3>1. pc'[t] = "load" /\ checkP'[t] = awaiting[t]
      BY <1>2, <2>5 DEF Load, StartPass, TypeOK
    <3> QED
      BY <2>3, <3>1 DEF Sees, Searching
  <2>6. CASE responsible[checkP[t]] = t /\ collecting[t]
    <3>1. pc'[t] = "fail" /\ affected'[t] = Collect(affected[t], checkP[t])
      BY <1>2, <2>6 DEF Load, TypeOK
    <3>2. \/ affected[t] = <<>> /\ checkP[t] = awaiting[t]
          \/ affected[t] # <<>> /\ affected[t][1] = awaiting[t]
      BY <1>2, <2>6 DEF Load, Control, SecondPass, Searching
    <3>3. affected[t] \in Seq(Promise)
      BY DEF TypeOK
    <3>4. affected'[t] # <<>> /\ affected'[t][1] = awaiting[t]
      <4>1. CASE affected[t] = <<>>
        <5>1. affected'[t] = <<checkP[t]>>
          BY <2>2, <3>1, <3>3, <4>1, CollectType
        <5> QED
          BY <3>2, <4>1, <5>1
      <4>2. CASE affected[t] # <<>>
        BY <2>2, <3>1, <3>2, <3>3, <4>2, CollectType
      <4> QED
        BY <4>1, <4>2
    <3> QED
      BY <2>3, <3>1, <3>4 DEF Sees
  <2> QED
    BY <2>4, <2>5, <2>6
<1>3. CASE Awaits(t)
  <2>1. PICK u \in S : checkP[t] = awaiting[u] /\ checkT[t] = responsible[checkP[t]]
    BY <1>3 DEF Awaits, Sees, Searching
  <2>2. awaiting[checkT[t]] # NoPromise
    BY <2>1 DEF Cyclic, CyclicIf
  <2>3. /\ pc'[t] = "confirm" /\ nextP'[t] = awaiting[checkT[t]]
        /\ UNCHANGED <<awaiting, responsible, checkP, checkT>>
    BY <1>3, <2>2 DEF Awaits, TypeOK
  <2> QED
    BY <2>1, <2>3 DEF Sees, Searching
<1>4. CASE Confirm(t)
  <2>1. PICK u \in S : /\ checkP[t] = awaiting[u] /\ checkT[t] = responsible[checkP[t]]
                       /\ nextP[t] = awaiting[checkT[t]]
    BY <1>4 DEF Confirm, Sees, Searching
  <2>2. checkT[t] \in S
    BY <2>1 DEF Cyclic, CyclicIf
  <2>3. pc'[t] = "load" /\ checkP'[t] = awaiting[checkT[t]] /\ UNCHANGED awaiting
    BY <1>4, <2>1 DEF Confirm, TypeOK
  <2> QED
    BY <2>2, <2>3 DEF Sees, Searching
<1>5. CASE ForceFailure(t)
  <2>1. affected[t][1] = awaiting[t] /\ awaiting[t] \in Promise
    BY <1>5 DEF ForceFailure, Sees, Searching, TypeOK, NilNotFollowed, Getting
  <2>2. result'[awaiting[t]] # "none"
    BY <1>5, <2>1 DEF ForceFailure, SetResult, TypeOK
  <2> QED
    BY <2>2 DEF Cyclic, CyclicIf, SameCycle
<1>6. CASE FailuresForced(t)
  BY <1>6 DEF FailuresForced, Sees, Searching
<1> QED
  BY <1>1, <1>2, <1>3, <1>4, <1>5, <1>6
  DEF Act, Searching, NewPromise, Resolve, Abandon, Delegate, AsyncTask, DoFirst,
      Launch, End, Ended, Join, Wake, Return

LEMMA CycleSeenStep ==
  ASSUME TypeOK, Control, CycleSeen, NEW t \in Task, Act(t)
  PROVE  CycleSeen'
<1> SUFFICES ASSUME NEW S \in SUBSET Task, S # {}, Cyclic(S)'
             PROVE  \E w \in S : Sees(w, S)'
  BY DEF CycleSeen
<1>1. CASE t \in S /\ \E p \in Promise : Get(t, p)
  <2>1. PICK p \in Promise : Get(t, p)
    BY <1>1
  <2>2. pc'[t] = "load" /\ checkP'[t] = p /\ awaiting'[t] = p
    BY <2>1 DEF Get, StartPass, Goto, TypeOK
  <2> QED
    BY <1>1, <2>2 DEF Sees, Searching
<1>2. CASE ~(t \in S /\ \E p \in Promise : Get(t, p))
  <2>1. SameCycle(S)
    BY <1>2, CycleKept
  <2>2. Cyclic(S)
    BY <2>1, CycleBefore
  <2>3. PICK w \in S : Sees(w, S)
    BY <2>2 DEF CycleSeen
  <2>4. CASE w = t
    BY <1>2, <2>1, <2>2, <2>3, <2>4, SearchStep
  <2>5. CASE w # t
    <3>1. pc[w] # "unborn"
      BY <2>3 DEF Sees, Searching
    <3>2. SearchKept(w)
      BY <2>5, <3>1, OthersSearch
    <3> QED
      BY <2>1, <2>2, <2>3, <3>2, SeesKept
  <2> QED
    BY <2>4, <2>5
<1> QED
  BY <1>1, <1>2

LEMMA CycleSeenInv == Spec => []CycleSeen
<1>1. Init => CycleSeen
  BY DEF Init, CycleSeen, Cyclic, CyclicIf
<1>2. TypeOK /\ Control /\ CycleSeen /\ [Next]_vars => CycleSeen'
  <2>1. ASSUME TypeOK, Control, CycleSeen, Next PROVE CycleSeen'
    BY <2>1, NextIsAct, CycleSeenStep
  <2>2. ASSUME CycleSeen, UNCHANGED vars PROVE CycleSeen'
    BY <2>2 DEF vars, promiseVars, taskVars, searchVars, CycleSeen, Cyclic, CyclicIf, Sees
  <2> QED
    BY <2>1, <2>2
<1> QED
  BY <1>1, <1>2, TypeCorrect, ControlInv, PTL DEF Spec

\* Tasks that are blocked are never a cycle: as long as a cycle stands, the
\* search of one of its tasks goes on or is about to fail it (the claim of the
\* comment "without creating a deadlock" in the getter).
THEOREM DeadlockFree == Spec => []NoDeadlock
<1>1. CycleSeen => NoDeadlock
  BY DEF CycleSeen, NoDeadlock, Sees, Searching, At
<1> QED
  BY <1>1, CycleSeenInv, PTL

-----------------------------------------------------------------------------
(* Results                                                                 *)

\* A promise that some task is responsible for belongs to that task alone, and
\* has at most a result that was forced.
Owns(t, p) ==
    /\ p \in owned[t] => responsible[p] = t
    /\ p \in handing[t] => pc[t] = "delegating" /\ p \in owned[t]

Unresolved(p) ==
    /\ responsible[p] # NoTask => p \in made
    /\ responsible[p] # NoTask \/ p \notin made => result[p] \in {"none", "selfDependent"}

Ownership ==
    /\ \A t \in Task, p \in Promise : Owns(t, p)
    /\ \A p \in Promise : Unresolved(p)

\* A task in a list waits for a result, and a task that waits is in the list
\* of its promise or will find the result.
Listed(t) ==
    /\ \A p \in Promise : t \in waiting[p] => result[p] = "none"
    /\ pc[t] = "blocked" => t \in waiting[awaiting[t]] \/ result[awaiting[t]] # "none"
    /\ pc[t] = "return" => result[awaiting[t]] # "none"

Waits == \A t \in Task : Listed(t)

LEMMA OwnsStep ==
  ASSUME TypeOK, Control, Ownership, NEW t \in Task, Act(t), NEW u \in Task, NEW q \in Promise
  PROVE  Owns(u, q)'
<1> USE DEF At, Goto, promiseVars, taskVars, searchVars, asyncVars, count
<1>1. CASE \E p \in Promise : NewPromise(t, p)
  BY <1>1 DEF NewPromise, Make, TypeOK, NilNotFollowed, Control, Newborn, Ownership, Owns, Unresolved
<1>2. CASE \E p \in Promise : Resolve(t, p)
  BY <1>2 DEF Resolve, resolvePromise, SetResult, TypeOK, NilNotFollowed, Control, Newborn, Ownership, Owns, Unresolved
<1>3. CASE \E p \in Promise : Abandon(t, p)
  BY <1>3 DEF Abandon, resolvePromise, SetResult, TypeOK, NilNotFollowed, Control, Newborn, Ownership, Owns, Unresolved
<1>4. CASE \E p \in Promise : Get(t, p)
  BY <1>4 DEF Get, StartPass, TypeOK, NilNotFollowed, Control, Newborn, Ownership, Owns, Unresolved
<1>5. CASE \E p \in Promise : Delegate(t, p)
  BY <1>5 DEF Delegate, TypeOK, NilNotFollowed, Control, Newborn, Ownership, Owns, Unresolved
<1>6. CASE \E new \in Task : \E S \in SUBSET owned[t] : AsyncTask(t, new, S)
  BY <1>6 DEF AsyncTask, TypeOK, NilNotFollowed, Control, Newborn, Ownership, Owns, Unresolved
<1>7. CASE \E o \in Once, p \in Promise, new \in Task : DoFirst(t, o, p, new)
  <2>1. PICK o \in Once, p \in Promise, new \in Task : DoFirst(t, o, p, new)
    BY <1>7
  <2>5. /\ p \notin made /\ pc'[t] = "delegating"
        /\ responsible' = [responsible EXCEPT ![p] = t]
        /\ owned' = [owned EXCEPT ![t] = @ \cup {p}]
        /\ handing' = [handing EXCEPT ![t] = {p}]
    BY <2>1 DEF DoFirst, Make, TypeOK
  <2>2. u # t => pc'[u] = pc[u]
    BY <1>7 DEF DoFirst, TypeOK
  <2>3. responsible[p] = NoTask
    BY <2>5 DEF Ownership, Unresolved
  <2>4. p \notin owned[u]
    BY <2>3, TaskAssumption DEF Ownership, Owns
  <2> QED
    BY <2>2, <2>4, <2>5 DEF TypeOK, Ownership, Owns
<1>8. CASE Launch(t)
  BY <1>8 DEF Launch, TypeOK, NilNotFollowed, Control, Newborn, Ownership, Owns, Unresolved
<1>9. CASE End(t) \/ Ended(t)
  BY <1>9 DEF End, Ended, TypeOK, NilNotFollowed, Control, Newborn, Ownership, Owns, Unresolved
<1>10. CASE Load(t)
  BY <1>10 DEF Load, TypeOK, NilNotFollowed, Control, Newborn, Ownership, Owns, Unresolved
<1>11. CASE Awaits(t)
  BY <1>11 DEF Awaits, TypeOK, NilNotFollowed, Control, Newborn, Ownership, Owns, Unresolved
<1>12. CASE Confirm(t)
  BY <1>12 DEF Confirm, TypeOK, NilNotFollowed, Control, Newborn, Ownership, Owns, Unresolved
<1>13. CASE ForceFailure(t)
  BY <1>13 DEF ForceFailure, SetResult, TypeOK, NilNotFollowed, Control, Newborn, Ownership, Owns, Unresolved
<1>14. CASE FailuresForced(t) \/ Wake(t)
  BY <1>14 DEF FailuresForced, Wake, TypeOK, NilNotFollowed, Control, Newborn, Ownership, Owns, Unresolved
<1>15. CASE Join(t)
  BY <1>15 DEF Join, TypeOK, NilNotFollowed, Control, Newborn, Ownership, Owns, Unresolved
<1>16. CASE Return(t)
  BY <1>16 DEF Return, TypeOK, NilNotFollowed, Control, Newborn, Ownership, Owns, Unresolved
<1> QED
  BY <1>1, <1>2, <1>3, <1>4, <1>5, <1>6, <1>7, <1>8, <1>9,
     <1>10, <1>11, <1>12, <1>13, <1>14, <1>15, <1>16 DEF Act

LEMMA UnresolvedStep ==
  ASSUME TypeOK, Ownership, NEW t \in Task, Act(t), NEW q \in Promise
  PROVE  Unresolved(q)'
<1> USE DEF At, Goto, promiseVars, taskVars, searchVars, asyncVars, count
<1>1. CASE \E p \in Promise : NewPromise(t, p)
  BY <1>1 DEF NewPromise, Make, TypeOK, NilNotFollowed, Ownership, Owns, Unresolved, Result
<1>2. CASE \E p \in Promise : Resolve(t, p)
  <2>1. PICK p \in Promise, x \in Result :
          responsible[p] = t /\ resolvePromise(t, p, x)
    BY <1>2 DEF Resolve, Result
  <2>2. responsible' = [responsible EXCEPT ![p] = NoTask] /\ UNCHANGED made
    BY <2>1 DEF resolvePromise
  <2>3. q # p => result'[q] = result[q]
    BY <2>1 DEF resolvePromise, SetResult, TypeOK
  <2>4. p \in made
    BY <2>1, TaskAssumption DEF Ownership, Unresolved
  <2> QED
    BY <2>2, <2>3, <2>4 DEF TypeOK, Ownership, Unresolved
<1>3. CASE \E p \in Promise : Abandon(t, p)
  <2>1. PICK p \in Promise, x \in Result :
          responsible[p] = t /\ resolvePromise(t, p, x)
    BY <1>3 DEF Abandon, Result, Ownership, Owns
  <2>2. responsible' = [responsible EXCEPT ![p] = NoTask] /\ UNCHANGED made
    BY <2>1 DEF resolvePromise
  <2>3. q # p => result'[q] = result[q]
    BY <2>1 DEF resolvePromise, SetResult, TypeOK
  <2>4. p \in made
    BY <2>1, TaskAssumption DEF Ownership, Unresolved
  <2> QED
    BY <2>2, <2>3, <2>4 DEF TypeOK, Ownership, Unresolved
<1>4. CASE \E p \in Promise : Get(t, p)
  BY <1>4 DEF Get, StartPass, TypeOK, NilNotFollowed, Ownership, Owns, Unresolved, Result
<1>5. CASE \E p \in Promise : Delegate(t, p)
  <2>1. PICK p \in Promise : /\ responsible[p] = t
                             /\ responsible' = [responsible EXCEPT ![p] = child[t]]
    BY <1>5 DEF Delegate, Ownership, Owns
  <2>2. p \in made /\ result[p] \in {"none", "selfDependent"}
    BY <2>1, TaskAssumption DEF Ownership, Unresolved
  <2>3. UNCHANGED <<made, result>>
    BY <1>5 DEF Delegate
  <2> QED
    BY <2>1, <2>2, <2>3 DEF TypeOK, Ownership, Unresolved
<1>6. CASE \E new \in Task : \E S \in SUBSET owned[t] : AsyncTask(t, new, S)
  BY <1>6 DEF AsyncTask, TypeOK, NilNotFollowed, Ownership, Owns, Unresolved, Result
<1>7. CASE \E o \in Once, p \in Promise, new \in Task : DoFirst(t, o, p, new)
  BY <1>7 DEF DoFirst, Make, TypeOK, NilNotFollowed, Ownership, Owns, Unresolved, Result
<1>8. CASE Launch(t)
  BY <1>8 DEF Launch, TypeOK, NilNotFollowed, Ownership, Owns, Unresolved, Result
<1>9. CASE End(t) \/ Ended(t)
  BY <1>9 DEF End, Ended, TypeOK, NilNotFollowed, Ownership, Owns, Unresolved, Result
<1>10. CASE Load(t)
  BY <1>10 DEF Load, TypeOK, NilNotFollowed, Ownership, Owns, Unresolved, Result
<1>11. CASE Awaits(t)
  BY <1>11 DEF Awaits, TypeOK, NilNotFollowed, Ownership, Owns, Unresolved, Result
<1>12. CASE Confirm(t)
  BY <1>12 DEF Confirm, TypeOK, NilNotFollowed, Ownership, Owns, Unresolved, Result
<1>13. CASE ForceFailure(t)
  BY <1>13 DEF ForceFailure, SetResult, TypeOK, NilNotFollowed, Ownership, Owns, Unresolved, Result
<1>14. CASE FailuresForced(t) \/ Wake(t)
  BY <1>14 DEF FailuresForced, Wake, TypeOK, NilNotFollowed, Ownership, Owns, Unresolved, Result
<1>15. CASE Join(t)
  BY <1>15 DEF Join, TypeOK, NilNotFollowed, Ownership, Owns, Unresolved, Result
<1>16. CASE Return(t)
  BY <1>16 DEF Return, TypeOK, NilNotFollowed, Ownership, Owns, Unresolved, Result
<1> QED
  BY <1>1, <1>2, <1>3, <1>4, <1>5, <1>6, <1>7, <1>8, <1>9,
     <1>10, <1>11, <1>12, <1>13, <1>14, <1>15, <1>16 DEF Act

LEMMA ListedStep ==
  ASSUME TypeOK, Waits, NEW t \in Task, Act(t), NEW u \in Task
  PROVE  Listed(u)'
<1> USE DEF At, Goto, promiseVars, taskVars, searchVars, asyncVars, count
<1>1. CASE \E p \in Promise : NewPromise(t, p)
  BY <1>1 DEF NewPromise, Make, TypeOK, NilNotFollowed, Getting, Waits, Listed
<1>2. CASE \E p \in Promise : Resolve(t, p)
  BY <1>2 DEF Resolve, resolvePromise, SetResult, TypeOK, NilNotFollowed, Getting, Waits, Listed
<1>3. CASE \E p \in Promise : Abandon(t, p)
  BY <1>3 DEF Abandon, resolvePromise, SetResult, TypeOK, NilNotFollowed, Getting, Waits, Listed
<1>4. CASE \E p \in Promise : Get(t, p)
  BY <1>4 DEF Get, StartPass, TypeOK, NilNotFollowed, Getting, Waits, Listed
<1>5. CASE \E p \in Promise : Delegate(t, p)
  BY <1>5 DEF Delegate, TypeOK, NilNotFollowed, Getting, Waits, Listed
<1>6. CASE \E new \in Task : \E S \in SUBSET owned[t] : AsyncTask(t, new, S)
  BY <1>6 DEF AsyncTask, TypeOK, NilNotFollowed, Getting, Waits, Listed
<1>7. CASE \E o \in Once, p \in Promise, new \in Task : DoFirst(t, o, p, new)
  BY <1>7 DEF DoFirst, Make, TypeOK, NilNotFollowed, Getting, Waits, Listed
<1>8. CASE Launch(t)
  BY <1>8 DEF Launch, TypeOK, NilNotFollowed, Getting, Waits, Listed
<1>9. CASE End(t) \/ Ended(t)
  BY <1>9 DEF End, Ended, TypeOK, NilNotFollowed, Getting, Waits, Listed
<1>10. CASE Load(t)
  <2>1. /\ UNCHANGED <<awaiting, waiting, result>>
        /\ pc' = [pc EXCEPT ![t] = pc'[t]] /\ pc'[t] \notin {"blocked", "return"}
    BY <1>10 DEF Load, EndOfPass, TypeOK
  <2> QED
    BY <2>1 DEF TypeOK, Waits, Listed
<1>11. CASE Awaits(t)
  <2>1. /\ UNCHANGED <<awaiting, waiting, result>>
        /\ pc' = [pc EXCEPT ![t] = pc'[t]] /\ pc'[t] \notin {"blocked", "return"}
    BY <1>11 DEF Awaits, EndOfPass, TypeOK
  <2> QED
    BY <2>1 DEF TypeOK, Waits, Listed
<1>12. CASE Confirm(t)
  <2>1. /\ UNCHANGED <<awaiting, waiting, result>>
        /\ pc' = [pc EXCEPT ![t] = pc'[t]] /\ pc'[t] \notin {"blocked", "return"}
    BY <1>12 DEF Confirm, EndOfPass, TypeOK
  <2> QED
    BY <2>1 DEF TypeOK, Waits, Listed
<1>13. CASE ForceFailure(t)
  BY <1>13 DEF ForceFailure, SetResult, TypeOK, NilNotFollowed, Getting, Waits, Listed
<1>14. CASE FailuresForced(t) \/ Wake(t)
  BY <1>14 DEF FailuresForced, Wake, TypeOK, NilNotFollowed, Getting, Waits, Listed
<1>15. CASE Join(t)
  <2>1. CASE result[awaiting[t]] # "none"
    BY <1>15, <2>1 DEF Join, TypeOK, Waits, Listed
  <2>2. CASE result[awaiting[t]] = "none"
    <3>1. awaiting[t] \in Promise
      BY <1>15 DEF Join, TypeOK, NilNotFollowed, Getting
    <3>2. /\ UNCHANGED <<awaiting, result>> /\ pc' = [pc EXCEPT ![t] = "blocked"]
          /\ waiting' = [waiting EXCEPT ![awaiting[t]] = @ \cup {t}]
      BY <1>15, <2>2 DEF Join
    <3>3. \A p \in Promise : u \in waiting'[p] => result'[p] = "none"
      BY <2>2, <3>1, <3>2 DEF TypeOK, Waits, Listed
    <3>4. \A p \in Promise : waiting[p] \subseteq waiting'[p]
      BY <3>2 DEF TypeOK
    <3>5. CASE u = t
      BY <3>1, <3>2, <3>3, <3>5 DEF TypeOK, Listed
    <3>6. CASE u # t
      <4>1. pc'[u] = pc[u] /\ (pc[u] = "blocked" => awaiting[u] \in Promise)
        BY <3>2, <3>6 DEF TypeOK, NilNotFollowed, Getting
      <4> QED
        BY <3>2, <3>3, <3>4, <4>1 DEF Waits, Listed
    <3> QED
      BY <3>5, <3>6
  <2> QED
    BY <2>1, <2>2
<1>16. CASE Return(t)
  BY <1>16 DEF Return, TypeOK, NilNotFollowed, Getting, Waits, Listed
<1> QED
  BY <1>1, <1>2, <1>3, <1>4, <1>5, <1>6, <1>7, <1>8, <1>9,
     <1>10, <1>11, <1>12, <1>13, <1>14, <1>15, <1>16 DEF Act

LEMMA OwnershipInv == Spec => []Ownership
<1>1. Init => Ownership
  BY DEF Init, Ownership, Owns, Unresolved
<1>2. TypeOK /\ Control /\ Ownership /\ [Next]_vars => Ownership'
  <2>1. ASSUME TypeOK, Control, Ownership, Next PROVE Ownership'
    BY <2>1, NextIsAct, OwnsStep, UnresolvedStep DEF Ownership
  <2>2. ASSUME Ownership, UNCHANGED vars PROVE Ownership'
    BY <2>2 DEF vars, promiseVars, taskVars, asyncVars, Ownership, Owns, Unresolved
  <2> QED
    BY <2>1, <2>2
<1> QED
  BY <1>1, <1>2, TypeCorrect, ControlInv, PTL DEF Spec

LEMMA WaitsInv == Spec => []Waits
<1>1. Init => Waits
  BY DEF Init, Waits, Listed
<1>2. TypeOK /\ Waits /\ [Next]_vars => Waits'
  <2>1. ASSUME TypeOK, Waits, Next PROVE Waits'
    BY <2>1, NextIsAct, ListedStep DEF Waits
  <2>2. ASSUME Waits, UNCHANGED vars PROVE Waits'
    BY <2>2 DEF vars, promiseVars, taskVars, Waits, Listed
  <2> QED
    BY <2>1, <2>2
<1> QED
  BY <1>1, <1>2, TypeCorrect, PTL DEF Spec

\* No wake-up is lost between the check of the result and the entry into the
\* list, and a getter that returns has a result (the panic in the getter is
\* out of reach).
THEOREM NoWakeUpLost == Spec => []WokenWithResult
<1>1. Waits => WokenWithResult
  BY DEF Waits, Listed, WokenWithResult, At
<1> QED
  BY <1>1, WaitsInv, PTL

\* A step replaces no result.
LEMMA FirstResultStays ==
  ASSUME TypeOK, NEW t \in Task, Act(t), NEW p \in Promise, result[p] # "none"
  PROVE  result'[p] = result[p]
<1> USE DEF promiseVars
<1>1. CASE \E q \in Promise : Resolve(t, q) \/ Abandon(t, q)
  BY <1>1 DEF Resolve, Abandon, resolvePromise, SetResult, TypeOK
<1>2. CASE ForceFailure(t)
  BY <1>2 DEF ForceFailure, SetResult, TypeOK
<1>3. CASE UNCHANGED result
  BY <1>3
<1> QED
  BY <1>1, <1>2, <1>3
  DEF Act, NewPromise, Make, Get, Delegate, AsyncTask, DoFirst, Launch, End, Ended,
      Load, Awaits, Confirm, FailuresForced, Join, Wake, Return

\* All getters of a promise see the same result, and the panic "promise
\* resolved more than once" is out of reach of tasks that resolve what they are
\* responsible for.
THEOREM OneResult == Spec => ResolvedOnce
<1> DEFINE Kept(p) == /\ result[p] # "none" => result'[p] = result[p]
                      /\ responsible[p] # NoTask => result[p] \in {"none", "selfDependent"}
<1>1. TypeOK /\ Ownership /\ [Next]_vars => [\A p \in Promise : Kept(p)]_vars
  BY NextIsAct, FirstResultStays DEF Ownership, Unresolved
<1> QED
  BY <1>1, TypeCorrect, OwnershipInv, PTL DEF Spec, ResolvedOnce

-----------------------------------------------------------------------------
(* The first alarm is real                                                 *)

NoneForced == \A p \in Promise : result[p] # "selfDependent"

\* Whom the tasks of S wait for is in S.
Closed(S) ==
    \A u \in S : awaiting[u] # NoPromise /\ responsible[awaiting[u]] # NoTask
                     => responsible[awaiting[u]] \in S

\* The first pass of a search has not left the tasks that t depends on: what it
\* looks at is awaited by one of them, or has its result.
OnTrack(t) ==
    pc[t] \in Searching /\ ~collecting[t] =>
        /\ result[checkP[t]] = "none" =>
              \A S \in SUBSET Task : t \in S /\ Closed(S) =>
                  \E v \in S : awaiting[v] = checkP[t]
        /\ pc[t] = "confirm" /\ result[nextP[t]] = "none" =>
              awaiting[checkT[t]] = nextP[t]

Tracks == NoneForced => \A t \in Task : OnTrack(t)

\* A set that is closed after a step was so before, but for tasks that await
\* nothing: they may have lost or handed over a promise.
LEMMA ClosedBefore ==
  ASSUME TypeOK, Control, Ownership, Waits, NoneForced, NEW t \in Task, Act(t),
         NEW S \in SUBSET Task, Closed(S)'
  PROVE  \E R \in SUBSET Task : /\ S \subseteq R /\ Closed(R)
                                /\ \A v \in R \ S : awaiting[v] = NoPromise
<1> USE DEF At, Goto, promiseVars, taskVars, searchVars, asyncVars, count
<1>a. ASSUME UNCHANGED <<awaiting, responsible>> PROVE Closed(S)
  BY <1>a DEF Closed
<1>b. ASSUME NEW p \in Promise, NEW r \in Task \cup {NoTask}, UNCHANGED awaiting,
             awaiting[t] = NoPromise, responsible[p] = t,
             responsible' = [responsible EXCEPT ![p] = r]
      PROVE  Closed(S \cup {t})
  <2>1. ASSUME NEW u \in S, awaiting[u] # NoPromise, responsible[awaiting[u]] # NoTask
        PROVE  responsible[awaiting[u]] \in S \cup {t}
    <3>1. awaiting[u] \in Promise /\ awaiting'[u] = awaiting[u]
      BY <1>b, <2>1 DEF TypeOK
    <3>2. CASE awaiting[u] = p
      BY <1>b, <3>2
    <3>3. CASE awaiting[u] # p
      <4>1. responsible'[awaiting[u]] = responsible[awaiting[u]]
        BY <1>b, <3>1, <3>3 DEF TypeOK
      <4> QED
        BY <2>1, <3>1, <4>1 DEF Closed
    <3> QED
      BY <3>2, <3>3
  <2> QED
    BY <1>b, <2>1 DEF Closed
<1>c. ASSUME NEW p \in Promise, p \notin made, UNCHANGED awaiting,
             responsible' = [responsible EXCEPT ![p] = t]
      PROVE  Closed(S)
  <2>1. responsible[p] = NoTask
    BY <1>c DEF Ownership, Unresolved
  <2>2. ASSUME NEW u \in S, awaiting[u] # NoPromise, responsible[awaiting[u]] # NoTask
        PROVE  responsible[awaiting[u]] \in S
    <3>1. awaiting[u] \in Promise /\ awaiting'[u] = awaiting[u] /\ awaiting[u] # p
      BY <1>c, <2>1, <2>2 DEF TypeOK
    <3>2. responsible'[awaiting[u]] = responsible[awaiting[u]]
      BY <1>c, <3>1 DEF TypeOK
    <3> QED
      BY <2>2, <3>1, <3>2 DEF Closed
  <2> QED
    BY <2>2 DEF Closed
<1>1. CASE \E p \in Promise : NewPromise(t, p)
  BY <1>1, <1>c DEF NewPromise, Make
<1>2. CASE \E o \in Once, p \in Promise, new \in Task : DoFirst(t, o, p, new)
  BY <1>2, <1>c DEF DoFirst, Make
<1>3. CASE \E p \in Promise : Resolve(t, p) \/ Abandon(t, p)
  <2>1. PICK p \in Promise : Resolve(t, p) \/ Abandon(t, p)
    BY <1>3
  <2>2. awaiting[t] = NoPromise
    BY <2>1 DEF Resolve, Abandon, Control, Announced, Getting
  <2>3. responsible[p] = t
    BY <2>1 DEF Resolve, Abandon, Ownership, Owns
  <2>4. UNCHANGED awaiting /\ responsible' = [responsible EXCEPT ![p] = NoTask]
    BY <2>1 DEF Resolve, Abandon, resolvePromise
  <2>5. Closed(S \cup {t})
    BY <1>b, <2>2, <2>3, <2>4
  <2> QED
    BY <2>2, <2>5
<1>4. CASE \E p \in Promise : Delegate(t, p)
  <2>1. PICK p \in Promise : Delegate(t, p)
    BY <1>4
  <2>2. awaiting[t] = NoPromise
    BY <2>1 DEF Delegate, Control, Announced, Getting
  <2>3. responsible[p] = t /\ child[t] \in Task
    BY <2>1 DEF Delegate, Ownership, Owns, TypeOK, NilNotFollowed
  <2>4. UNCHANGED awaiting /\ responsible' = [responsible EXCEPT ![p] = child[t]]
    BY <2>1 DEF Delegate
  <2>5. Closed(S \cup {t})
    BY <1>b, <2>2, <2>3, <2>4
  <2> QED
    BY <2>2, <2>5
<1>5. CASE \E p \in Promise : Get(t, p)
  <2>1. awaiting[t] = NoPromise /\ UNCHANGED responsible
    BY <1>5 DEF Get, Control, Announced, Getting
  <2>2. \A u \in Task : u # t => awaiting'[u] = awaiting[u]
    BY <1>5 DEF Get, TypeOK
  <2>3. Closed(S)
    BY <2>1, <2>2 DEF Closed
  <2> QED
    BY <2>3
<1>6. CASE Return(t)
  <2>1. /\ awaiting' = [awaiting EXCEPT ![t] = NoPromise] /\ UNCHANGED responsible
        /\ awaiting[t] \in Promise /\ result[awaiting[t]] # "none"
    BY <1>6 DEF Return, Waits, Listed, TypeOK, NilNotFollowed, Getting
  <2>2. responsible[awaiting[t]] = NoTask
    BY <2>1 DEF Ownership, Unresolved, NoneForced
  <2>3. \A u \in Task : u # t => awaiting'[u] = awaiting[u]
    BY <2>1 DEF TypeOK
  <2>4. Closed(S)
    BY <2>1, <2>2, <2>3 DEF Closed
  <2> QED
    BY <2>4
<1>7. CASE UNCHANGED <<awaiting, responsible>>
  BY <1>7, <1>a
<1> QED
  BY <1>1, <1>2, <1>3, <1>4, <1>5, <1>6, <1>7
  DEF Act, AsyncTask, Launch, End, Ended, Load, Awaits, Confirm, ForceFailure,
      FailuresForced, Join, Wake

\* A task leaves only with a result.
LEMMA AwaitedKept ==
  ASSUME TypeOK, Control, Waits, NEW t \in Task, Act(t), NEW v \in Task,
         awaiting[v] \in Promise, result[awaiting[v]] = "none"
  PROVE  awaiting'[v] = awaiting[v]
<1> USE DEF At, Goto, promiseVars, taskVars, searchVars, asyncVars, count
<1>1. CASE \E p \in Promise : Get(t, p)
  <2>1. awaiting[t] = NoPromise
    BY <1>1 DEF Get, Control, Announced, Getting
  <2> QED
    BY <1>1, <2>1, TaskAssumption DEF Get, TypeOK
<1>2. CASE Return(t)
  BY <1>2 DEF Return, Waits, Listed, TypeOK
<1>3. CASE UNCHANGED awaiting
  BY <1>3
<1> QED
  BY <1>1, <1>2, <1>3
  DEF Act, NewPromise, Make, Resolve, Abandon, resolvePromise, Delegate, AsyncTask,
      DoFirst, Launch, End, Ended, Load, Awaits, Confirm, ForceFailure,
      FailuresForced, Join, Wake

\* What the search of a task finds to be awaited is still awaited.
LEMMA StillAwaited ==
  ASSUME TypeOK, Control, Ownership, Waits, NoneForced, NEW t \in Task, Act(t),
         NEW s \in Task, NEW q \in Promise, result'[q] = "none",
         result[q] = "none" =>
            \A S \in SUBSET Task : s \in S /\ Closed(S) => \E v \in S : awaiting[v] = q,
         NEW S \in SUBSET Task, s \in S, Closed(S)'
  PROVE  \E v \in S : awaiting'[v] = q
<1>1. result[q] = "none"
  BY FirstResultStays
<1>2. PICK R \in SUBSET Task : /\ S \subseteq R /\ Closed(R)
                               /\ \A v \in R \ S : awaiting[v] = NoPromise
  BY ClosedBefore
<1>3. PICK v \in R : awaiting[v] = q
  BY <1>1, <1>2
<1>4. v \in S
  BY <1>2, <1>3, TaskAssumption
<1> QED
  BY <1>1, <1>3, <1>4, AwaitedKept

LEMMA OnTrackOthers ==
  ASSUME TypeOK, Control, Ownership, Waits, NoneForced, NEW t \in Task, Act(t),
         NEW s \in Task, s # t, OnTrack(s)
  PROVE  OnTrack(s)'
<1> SUFFICES ASSUME pc'[s] \in Searching, ~collecting'[s]
             PROVE  /\ result'[checkP'[s]] = "none" =>
                          \A S \in SUBSET Task : s \in S /\ Closed(S)' =>
                              \E v \in S : awaiting'[v] = checkP'[s]
                    /\ pc'[s] = "confirm" /\ result'[nextP'[s]] = "none" =>
                          awaiting'[checkT'[s]] = nextP'[s]
  BY DEF OnTrack
<1>1. pc[s] # "unborn" /\ SearchKept(s)
  <2>1. CASE pc[s] = "unborn"
    <3>1. Launch(t) => pc'[s] \notin Searching
      BY <2>1 DEF Launch, TypeOK, NilNotFollowed, Control, Newborn, Searching, At
    <3> QED
      BY <2>1, <3>1 DEF Act, NewPromise, Make, Resolve, Abandon, resolvePromise,
         Delegate, AsyncTask, DoFirst, End, Ended, Get, Load, Awaits, Confirm,
         ForceFailure, FailuresForced, Join, Wake, Return, Goto, TypeOK, Searching
  <2> QED
    BY <2>1, OthersSearch
<1>2. checkP[s] \in Promise /\ (pc[s] = "confirm" => checkT[s] \in Task /\ nextP[s] \in Promise)
  BY <1>1 DEF SearchKept, TypeOK, NilNotFollowed, Searching
<1>3. /\ result[checkP[s]] = "none" =>
            \A S \in SUBSET Task : s \in S /\ Closed(S) =>
                \E v \in S : awaiting[v] = checkP[s]
      /\ pc[s] = "confirm" /\ result[nextP[s]] = "none" =>
            awaiting[checkT[s]] = nextP[s]
  BY <1>1 DEF OnTrack, SearchKept
<1>4. ASSUME result'[checkP[s]] = "none", NEW S \in SUBSET Task, s \in S, Closed(S)'
      PROVE  \E v \in S : awaiting'[v] = checkP[s]
  BY <1>2, <1>3, <1>4, StillAwaited
<1>5. ASSUME pc[s] = "confirm", result'[nextP[s]] = "none"
      PROVE  awaiting'[checkT[s]] = nextP[s]
  <2>1. result[nextP[s]] = "none"
    BY <1>2, <1>5, FirstResultStays
  <2> QED
    BY <1>2, <1>3, <1>5, <2>1, AwaitedKept
<1> QED
  BY <1>1, <1>4, <1>5 DEF SearchKept

LEMMA OnTrackOwn ==
  ASSUME TypeOK, Control, Ownership, NoneForced, NEW t \in Task, Act(t), OnTrack(t)
  PROVE  OnTrack(t)'
<1> USE DEF At, Goto, promiseVars, taskVars, searchVars, asyncVars, count
<1>1. CASE \E p \in Promise : Get(t, p)
  <2>1. PICK p \in Promise : Get(t, p)
    BY <1>1
  <2>2. pc'[t] = "load" /\ checkP'[t] = p /\ awaiting'[t] = p
    BY <2>1 DEF Get, StartPass, TypeOK
  <2> QED
    BY <2>2 DEF OnTrack
<1>2. CASE Load(t)
  <2>1. CASE collecting'[t]
    BY <2>1 DEF OnTrack
  <2>2. CASE ~collecting'[t]
    <3>1. UNCHANGED <<awaiting, responsible, result, checkP, collecting>> /\ pc'[t] # "confirm"
      BY <1>2, <2>2 DEF Load, StartPass, EndOfPass, TypeOK
    <3>2. pc[t] \in Searching /\ ~collecting[t]
      BY <1>2, <2>2, <3>1 DEF Load, Searching
    <3> QED
      BY <3>1, <3>2 DEF OnTrack, Closed
  <2> QED
    BY <2>1, <2>2
<1>3. CASE Awaits(t)
  <2>1. UNCHANGED <<awaiting, responsible, result, checkP, checkT, collecting>>
    BY <1>3 DEF Awaits
  <2>2. nextP'[t] = awaiting[checkT[t]]
    BY <1>3 DEF Awaits, TypeOK
  <2>3. pc[t] \in Searching
    BY <1>3 DEF Awaits, Searching
  <2> QED
    BY <2>1, <2>2, <2>3 DEF OnTrack, Closed
<1>4. CASE Confirm(t)
  <2>1. UNCHANGED <<awaiting, responsible, result, collecting>> /\ pc[t] = "confirm"
    BY <1>4 DEF Confirm
  <2>2. CASE responsible[checkP[t]] = checkT[t]
    <3>1. checkP'[t] = nextP[t] /\ pc'[t] = "load"
      BY <1>4, <2>2 DEF Confirm, TypeOK
    <3>2. ASSUME ~collecting[t], result[nextP[t]] = "none",
                 NEW S \in SUBSET Task, t \in S, Closed(S)
          PROVE  \E v \in S : awaiting[v] = nextP[t]
      <4>1. checkP[t] \in Promise /\ checkT[t] \in Task
        BY <2>1 DEF TypeOK, NilNotFollowed
      <4>2. responsible[checkP[t]] # NoTask /\ result[checkP[t]] = "none"
        BY <2>2, <4>1, TaskAssumption DEF Ownership, Unresolved, NoneForced
      <4>3. PICK v \in S : awaiting[v] = checkP[t]
        BY <2>1, <3>2, <4>2 DEF OnTrack, Searching
      <4>4. checkT[t] \in S
        BY <2>2, <3>2, <4>1, <4>2, <4>3, TaskAssumption DEF Closed
      <4>5. awaiting[checkT[t]] = nextP[t]
        BY <2>1, <3>2 DEF OnTrack, Searching
      <4> QED
        BY <4>4, <4>5
    <3> QED
      BY <2>1, <3>1, <3>2 DEF OnTrack, Closed
  <2>3. CASE responsible[checkP[t]] # checkT[t]
    <3>1. pc'[t] \notin Searching
      BY <1>4, <2>3 DEF Confirm, EndOfPass, TypeOK, Searching
    <3> QED
      BY <3>1 DEF OnTrack
  <2> QED
    BY <2>2, <2>3
<1>5. CASE Join(t)
  <2>1. pc'[t] \notin Searching
    BY <1>5 DEF Join, TypeOK, Searching
  <2> QED
    BY <2>1 DEF OnTrack
<1>6. CASE Launch(t)
  <2>1. child[t] # t
    BY <1>6 DEF Launch, TypeOK, NilNotFollowed, Control, Newborn
  <2>2. pc'[t] \notin Searching
    BY <1>6, <2>1 DEF Launch, TypeOK, NilNotFollowed, Searching
  <2> QED
    BY <2>2 DEF OnTrack
<1>7. CASE UNCHANGED pc /\ pc[t] \notin Searching
  BY <1>7 DEF OnTrack
<1>8. CASE pc' = [pc EXCEPT ![t] = pc'[t]] /\ pc'[t] \notin Searching
  BY <1>8 DEF OnTrack
<1>9. CASE \/ \E p \in Promise : NewPromise(t, p) \/ Resolve(t, p)
                                 \/ Delegate(t, p) \/ Abandon(t, p)
           \/ ForceFailure(t)
  BY <1>7, <1>9 DEF NewPromise, Resolve, Delegate, Abandon, resolvePromise,
     ForceFailure, Searching
<1>10. CASE \/ \E new \in Task : \E S \in SUBSET owned[t] : AsyncTask(t, new, S)
            \/ \E o \in Once, p \in Promise, new \in Task : DoFirst(t, o, p, new)
            \/ End(t) \/ Ended(t) \/ FailuresForced(t) \/ Wake(t) \/ Return(t)
  BY <1>8, <1>10 DEF AsyncTask, DoFirst, End, Ended, FailuresForced, Wake, Return,
     TypeOK, Searching
<1> QED
  BY <1>1, <1>2, <1>3, <1>4, <1>5, <1>6, <1>9, <1>10 DEF Act

LEMMA TracksInv == Spec => []Tracks
<1>1. Init => Tracks
  BY DEF Init, Tracks, OnTrack, Searching
<1>2. TypeOK /\ Control /\ Ownership /\ Waits /\ Tracks /\ [Next]_vars => Tracks'
  <2>1. ASSUME TypeOK, Control, Ownership, Waits, Tracks, Next PROVE Tracks'
    <3>1. PICK t \in Task : Act(t)
      BY <2>1, NextIsAct
    <3>2. SUFFICES ASSUME NoneForced', NEW s \in Task PROVE OnTrack(s)'
      BY DEF Tracks
    <3>3. NoneForced
      BY <2>1, <3>1, <3>2, FirstResultStays DEF NoneForced
    <3>4. OnTrack(s)
      BY <2>1, <3>3 DEF Tracks
    <3> QED
      BY <2>1, <3>1, <3>3, <3>4, OnTrackOthers, OnTrackOwn
  <2>2. ASSUME Tracks, UNCHANGED vars PROVE Tracks'
    BY <2>2 DEF vars, promiseVars, taskVars, searchVars, Tracks, NoneForced, OnTrack, Closed
  <2> QED
    BY <2>1, <2>2
<1> QED
  BY <1>1, <1>2, TypeCorrect, ControlInv, OwnershipInv, WaitsInv, PTL DEF Spec

\* A getter reports a self-dependency only if its task depends on itself, as
\* long as no promise has been failed for one before: whatever changes hands or
\* gets its result during the first pass, what the pass has reached is awaited by
\* a task that the getter depends on.
THEOREM FirstAlarmReal == Spec => FirstAlarmIsReal
<1>1. ASSUME TypeOK, Ownership, Tracks, NEW t \in Task, Alarm(t), NoneForced
      PROVE  DependsOnItself(t)
  <2>1. /\ pc[t] = "load" /\ ~collecting[t] /\ checkP[t] \in Promise
        /\ awaiting[t] \in Promise
    BY <1>1 DEF Alarm, Load, At, TypeOK, NilNotFollowed, Getting
  <2>2. responsible[checkP[t]] = t
    BY <1>1, <2>1 DEF Alarm, Load, TypeOK
  <2>3. result[checkP[t]] = "none"
    BY <1>1, <2>1, <2>2, TaskAssumption DEF Ownership, Unresolved, NoneForced
  <2>4. SUFFICES ASSUME NEW S \in SUBSET Task, responsible[awaiting[t]] \in S, Closed(S),
                        t \notin S
                 PROVE  FALSE
    BY DEF DependsOnItself, Closed
  <2>5. Closed(S \cup {t})
    BY <2>4 DEF Closed
  <2>6. PICK v \in S \cup {t} : awaiting[v] = checkP[t]
    BY <1>1, <2>1, <2>3, <2>5 DEF Tracks, OnTrack, Searching
  <2>7. v \in S => responsible[checkP[t]] \in S
    BY <2>1, <2>2, <2>4, <2>6, TaskAssumption DEF Closed
  <2> QED
    BY <2>2, <2>4, <2>6, <2>7
<1>2. TypeOK /\ Ownership /\ Tracks /\ [Next]_vars =>
        [\A t \in Task :
           Alarm(t) /\ (\A p \in Promise : result[p] # "selfDependent")
              => DependsOnItself(t)]_vars
  BY <1>1 DEF NoneForced
<1> QED
  BY <1>2, TypeCorrect, OwnershipInv, TracksInv, PTL DEF Spec, FirstAlarmIsReal

-----------------------------------------------------------------------------
(* How the first cycle ends                                                *)

\* As long as none of its promises has a result, the tasks of the first cycle
\* wait for one another.
CycleStands ==
    (\A p \in doomed : result[p] = "none") =>
        \A p \in doomed : responsible[p] \in Task /\ awaiting[responsible[p]] \in doomed

\* A cycle has, with a promise, the one that its responsible task awaits.
LEMMA OnCycleStands ==
  ASSUME NEW a, NEW p \in OnCycle(a)
  PROVE  responsible[p] \in Task /\ a[responsible[p]] \in OnCycle(a)
<1>1. PICK S \in SUBSET Task :
        /\ CyclicIf(a, S) /\ \A R \in SUBSET S : CyclicIf(a, R) => R \in {{}, S}
        /\ \E t \in S : p = a[t]
  BY DEF OnCycle
<1>2. responsible[p] \in S
  BY <1>1 DEF CyclicIf
<1> QED
  BY <1>1, <1>2 DEF OnCycle

LEMMA CycleStandsStep ==
  ASSUME TypeOK, Control, Ownership, Waits, CycleStands, NEW t \in Task, Act(t)
  PROVE  CycleStands'
<1> USE DEF At, Goto, promiseVars, taskVars, searchVars, asyncVars, count
<1>1. CASE \E p \in Promise : Get(t, p)
  <2>1. PICK p \in Promise : Get(t, p)
    BY <1>1
  <2>2. UNCHANGED <<responsible, result>> /\ awaiting[t] = NoPromise
    BY <2>1 DEF Get, Control, Announced, Getting
  <2>3. CASE doomed = {}
    BY <2>1, <2>2, <2>3, OnCycleStands DEF Get, CycleStands
  <2>4. CASE doomed # {}
    <3>1. UNCHANGED doomed
      BY <2>1, <2>4 DEF Get
    <3>2. \A u \in Task : awaiting[u] \in doomed => awaiting'[u] = awaiting[u]
      BY <2>1, <2>2, TaskAssumption DEF Get, TypeOK
    <3> QED
      BY <2>2, <3>1, <3>2 DEF CycleStands
  <2> QED
    BY <2>3, <2>4
<1>2. CASE ~\E p \in Promise : Get(t, p)
  <2>1. UNCHANGED doomed /\ doomed \subseteq Promise
    BY <1>2 DEF Act, NewPromise, Make, Resolve, Abandon, resolvePromise, Delegate,
       AsyncTask, DoFirst, Launch, End, Ended, Load, Awaits, Confirm, ForceFailure,
       FailuresForced, Join, Wake, Return, TypeOK
  <2>2. SUFFICES ASSUME \A p \in doomed : result'[p] = "none", NEW p \in doomed
                 PROVE  responsible'[p] \in Task /\ awaiting'[responsible'[p]] \in doomed
    BY <2>1 DEF CycleStands
  <2>3. \A q \in doomed : result[q] = "none"
    BY <2>1, <2>2, FirstResultStays
  <2>4. responsible[p] \in Task /\ awaiting[responsible[p]] \in doomed
    BY <2>3 DEF CycleStands
  <2>5. awaiting'[responsible[p]] = awaiting[responsible[p]]
    BY <2>1, <2>3, <2>4, AwaitedKept
  <2>6. responsible'[p] = responsible[p]
    <3>1. CASE \E q \in Promise : NewPromise(t, q)
      BY <2>4, <3>1, TaskAssumption DEF NewPromise, Make, TypeOK, Ownership, Unresolved
    <3>2. CASE \E o \in Once, q \in Promise, new \in Task : DoFirst(t, o, q, new)
      BY <2>4, <3>2, TaskAssumption DEF DoFirst, Make, TypeOK, Ownership, Unresolved
    <3>3. CASE \E q \in Promise : Resolve(t, q) \/ Abandon(t, q) \/ Delegate(t, q)
      <4>1. awaiting[t] = NoPromise
        BY <3>3 DEF Resolve, Abandon, Delegate, Control, Announced, Getting
      <4>2. responsible[p] # t
        BY <2>1, <2>4, <4>1, TaskAssumption
      <4>3. CASE \E q \in Promise : Delegate(t, q)
        <5>1. PICK q \in Promise : /\ responsible[q] = t
                                   /\ responsible' = [responsible EXCEPT ![q] = child[t]]
          BY <4>3 DEF Delegate, Ownership, Owns
        <5> QED
          BY <2>1, <4>2, <5>1 DEF TypeOK
      <4>4. CASE \E q \in Promise : Resolve(t, q) \/ Abandon(t, q)
        <5>1. PICK q \in Promise : /\ responsible[q] = t
                                   /\ responsible' = [responsible EXCEPT ![q] = NoTask]
          BY <4>4 DEF Resolve, Abandon, resolvePromise, Ownership, Owns
        <5> QED
          BY <2>1, <4>2, <5>1 DEF TypeOK
      <4> QED
        BY <3>3, <4>3, <4>4
    <3>4. CASE UNCHANGED responsible
      BY <3>4
    <3> QED
      BY <1>2, <3>1, <3>2, <3>3, <3>4
      DEF Act, AsyncTask, Launch, End, Ended, Load, Awaits, Confirm, ForceFailure,
          FailuresForced, Join, Wake, Return
  <2> QED
    BY <2>4, <2>5, <2>6
<1> QED
  BY <1>1, <1>2

LEMMA CycleStandsInv == Spec => []CycleStands
<1>1. Init => CycleStands
  BY DEF Init, CycleStands
<1>2. TypeOK /\ Control /\ Ownership /\ Waits /\ CycleStands /\ [Next]_vars => CycleStands'
  <2>1. ASSUME TypeOK, Control, Ownership, Waits, CycleStands, Next PROVE CycleStands'
    BY <2>1, NextIsAct, CycleStandsStep
  <2>2. ASSUME CycleStands, UNCHANGED vars PROVE CycleStands'
    BY <2>2 DEF vars, promiseVars, taskVars, count, CycleStands
  <2> QED
    BY <2>1, <2>2
<1> QED
  BY <1>1, <1>2, TypeCorrect, ControlInv, OwnershipInv, WaitsInv, PTL DEF Spec

\* The first promise of the first cycle to get a result is failed for the cycle,
\* however many tasks the cycle has: no task of it gets to resolve its promise
\* before (that none does afterwards is what long cycles do not keep).
CycleEndsByFailure ==
    [][\A p \in doomed :
         (\A q \in doomed : result[q] = "none") /\ result'[p] # "none"
            => result'[p] = "selfDependent"]_vars

THEOREM FirstOfCycleFails == Spec => CycleEndsByFailure
<1>1. ASSUME TypeOK, Control, Ownership, CycleStands, NEW t \in Task, Act(t), NEW p \in doomed,
             \A q \in doomed : result[q] = "none", result'[p] # "none"
      PROVE  result'[p] = "selfDependent"
  <2> USE DEF At, promiseVars
  <2>1. p \in Promise /\ responsible[p] \in Task /\ awaiting[responsible[p]] \in Promise
    BY <1>1 DEF CycleStands, TypeOK
  <2>2. CASE \E q \in Promise : Resolve(t, q) \/ Abandon(t, q)
    <3>1. PICK q \in Promise : Resolve(t, q) \/ Abandon(t, q)
      BY <2>2
    <3>2. responsible[q] = t /\ awaiting[t] = NoPromise
      BY <1>1, <3>1 DEF Resolve, Abandon, Ownership, Owns, Control, Announced, Getting
    <3>3. q # p
      BY <2>1, <3>2, TaskAssumption
    <3>4. result'[p] = result[p]
      BY <1>1, <2>1, <3>1, <3>3 DEF Resolve, Abandon, resolvePromise, SetResult, TypeOK
    <3> QED
      BY <1>1, <3>4
  <2>3. CASE ForceFailure(t)
    <3>1. affected[t] \in Seq(Promise) /\ affected[t] # <<>>
      BY <1>1, <2>3 DEF ForceFailure, TypeOK
    <3>2. Head(affected[t]) \in Promise
      BY <3>1
    <3>3. result' = [result EXCEPT ![Head(affected[t])] =
                       IF @ = "none" THEN "selfDependent" ELSE @]
      BY <2>3 DEF ForceFailure, SetResult
    <3> QED
      BY <1>1, <2>1, <3>2, <3>3 DEF TypeOK
  <2>4. CASE UNCHANGED result
    BY <1>1, <2>4
  <2> QED
    BY <1>1, <2>2, <2>3, <2>4
    DEF Act, NewPromise, Make, Get, Delegate, AsyncTask, DoFirst, Launch, End, Ended,
        Load, Awaits, Confirm, FailuresForced, Join, Wake, Return
<1>2. TypeOK /\ Control /\ Ownership /\ CycleStands /\ [Next]_vars =>
        [\A p \in doomed :
           (\A q \in doomed : result[q] = "none") /\ result'[p] # "none"
              => result'[p] = "selfDependent"]_vars
  BY <1>1, NextIsAct
<1> QED
  BY <1>2, TypeCorrect, ControlInv, OwnershipInv, CycleStandsInv, PTL DEF Spec, CycleEndsByFailure

-----------------------------------------------------------------------------
(* Small cycles fail as one                                                *)

\* Before the first cycle nothing has been failed for one, no search is in its
\* second pass and no tasks wait for one another.
Calm ==
    doomed = {} =>
        /\ NoneForced
        /\ \A t \in Task : ~collecting[t] /\ pc[t] # "fail"
        /\ \A S \in SUBSET Task : Cyclic(S) => S = {}

\* The first alarm shows a cycle.
LEMMA AlarmCycle ==
  ASSUME TypeOK, Ownership, Tracks, NoneForced, NEW t \in Task,
         pc[t] = "load", ~collecting[t], responsible[checkP[t]] = t
  PROVE  \E S \in SUBSET Task : S # {} /\ Cyclic(S)
<1> DEFINE B == {v \in Task : \A S \in SUBSET Task : v \in S /\ Closed(S) => t \in S}
<1>1. checkP[t] \in Promise /\ awaiting[t] \in Promise
  BY DEF TypeOK, NilNotFollowed, Getting
<1>2. \A S \in SUBSET Task : t \in S /\ Closed(S) => \E v \in S : awaiting[v] = checkP[t]
  <2>1. result[checkP[t]] = "none"
    BY <1>1, TaskAssumption DEF Ownership, Unresolved, NoneForced
  <2> QED
    BY <2>1 DEF Tracks, OnTrack, Searching
<1>3. ASSUME NEW v \in B
      PROVE  awaiting[v] # NoPromise /\ responsible[awaiting[v]] # NoTask
  <2>1. SUFFICES ASSUME awaiting[v] = NoPromise \/ responsible[awaiting[v]] = NoTask
                 PROVE  FALSE
    OBVIOUS
  <2>2. Closed({v})
    BY <2>1 DEF Closed
  <2>3. v = t
    BY <2>2
  <2>4. awaiting[t] = checkP[t]
    BY <1>2, <2>2, <2>3
  <2> QED
    BY <1>1, <2>1, <2>3, <2>4, TaskAssumption
<1>4. ASSUME NEW v \in B
      PROVE  responsible[awaiting[v]] \in B
  <2>1. awaiting[v] \in Promise /\ responsible[awaiting[v]] \in Task
    BY <1>3 DEF TypeOK
  <2>2. SUFFICES ASSUME NEW S \in SUBSET Task, responsible[awaiting[v]] \in S, Closed(S)
                 PROVE  t \in S
    BY <2>1
  <2>3. Closed(S \cup {v})
    BY <2>2 DEF Closed
  <2>4. t \in S \cup {v}
    BY <2>3
  <2>5. CASE v = t
    <3>1. PICK w \in S \cup {t} : awaiting[w] = checkP[t]
      BY <1>2, <2>3, <2>5
    <3>2. w \in S => t \in S
      BY <1>1, <2>2, <3>1, TaskAssumption DEF Closed
    <3> QED
      BY <2>2, <2>5, <3>1, <3>2
  <2> QED
    BY <2>4, <2>5
<1>5. Cyclic(B)
  <2>1. ASSUME NEW v \in B PROVE result[awaiting[v]] = "none"
    BY <1>3 DEF TypeOK, Ownership, Unresolved, NoneForced
  <2> QED
    BY <1>3, <1>4, <2>1 DEF Cyclic, CyclicIf
<1> QED
  BY <1>5

\* When all cycles go through t they have one in common, the first cycle.
LEMMA OneCycle ==
  ASSUME NEW a, NEW t \in Task,
         \A S \in SUBSET Task : CyclicIf(a, S) /\ S # {} => t \in S,
         NEW S0 \in SUBSET Task, CyclicIf(a, S0), S0 # {}
  PROVE  \E M \in SUBSET Task :
            /\ t \in M /\ CyclicIf(a, M)
            /\ \A S \in SUBSET Task : CyclicIf(a, S) /\ S # {} => M \subseteq S
            /\ OnCycle(a) = {a[u] : u \in M}
<1> DEFINE M == {u \in Task : \A S \in SUBSET Task : CyclicIf(a, S) /\ S # {} => u \in S}
<1>1. t \in M
  OBVIOUS
<1>2. CyclicIf(a, M)
  <2>1. M \subseteq S0
    OBVIOUS
  <2>2. ASSUME NEW u \in M PROVE responsible[a[u]] \in M
    <3>1. responsible[a[u]] \in S0
      BY <2>1, <2>2 DEF CyclicIf
    <3>2. ASSUME NEW S \in SUBSET Task, CyclicIf(a, S), S # {}
          PROVE  responsible[a[u]] \in S
      BY <2>2, <3>2 DEF CyclicIf
    <3> QED
      BY <3>1, <3>2
  <2> QED
    BY <2>1, <2>2 DEF CyclicIf
<1>3. \A S \in SUBSET Task : CyclicIf(a, S) /\ S # {} => M \subseteq S
  OBVIOUS
<1> HIDE DEF M
<1>4. M \in SUBSET Task
  BY DEF M
<1>5. ASSUME NEW S \in SUBSET Task, CyclicIf(a, S), S # {},
             \A R \in SUBSET S : CyclicIf(a, R) => R \in {{}, S}
      PROVE  S = M
  BY <1>1, <1>2, <1>3, <1>5
<1>6. \A R \in SUBSET M : CyclicIf(a, R) => R \in {{}, M}
  BY <1>3, <1>4
<1>7. OnCycle(a) \subseteq {a[u] : u \in M}
  BY <1>5 DEF OnCycle
<1>8. {a[u] : u \in M} \subseteq OnCycle(a)
  BY <1>2, <1>4, <1>6 DEF OnCycle
<1> QED
  BY <1>1, <1>2, <1>3, <1>4, <1>7, <1>8

\* A cycle that a step closes is closed by the announcement of one task.
LEMMA ClosedByGet ==
  ASSUME TypeOK, Control, Calm, doomed = {}, NEW t \in Task, Act(t),
         NEW S \in SUBSET Task, S # {}, Cyclic(S)'
  PROVE  t \in S /\ \E p \in Promise : Get(t, p)
<1>1. SUFFICES ASSUME ~(t \in S /\ \E p \in Promise : Get(t, p)) PROVE FALSE
  OBVIOUS
<1>2. SameCycle(S)
  BY <1>1, CycleKept
<1> QED
  BY <1>2, CycleBefore DEF Calm

\* The announcement that closes the first cycle is recorded.
LEMMA CycleRecorded ==
  ASSUME TypeOK, Control, Calm, doomed = {}, NEW t \in Task, Act(t),
         NEW S0 \in SUBSET Task, S0 # {}, Cyclic(S0)'
  PROVE  \E M \in SUBSET Task :
            /\ t \in M /\ Cyclic(M)'
            /\ \A S \in SUBSET Task : Cyclic(S)' /\ S # {} => M \subseteq S
            /\ doomed' = {awaiting'[u] : u \in M}
            /\ UNCHANGED <<responsible, result, collecting>>
            /\ \A s \in Task : pc'[s] # "fail"
<1>1. PICK p \in Promise : Get(t, p)
  BY ClosedByGet
<1>2. UNCHANGED <<responsible, result>> /\ doomed' = OnCycle(awaiting')
  BY <1>1 DEF Get, promiseVars
<1>3. \A S : Cyclic(S)' <=> CyclicIf(awaiting', S)
  BY <1>2 DEF Cyclic, CyclicIf
<1>4. PICK M \in SUBSET Task :
        /\ t \in M /\ CyclicIf(awaiting', M)
        /\ \A S \in SUBSET Task : CyclicIf(awaiting', S) /\ S # {} => M \subseteq S
        /\ OnCycle(awaiting') = {awaiting'[u] : u \in M}
  BY <1>3, ClosedByGet, OneCycle
<1>5. collecting' = collecting
  BY <1>1 DEF Get, StartPass, Calm, TypeOK
<1>6. \A s \in Task : pc'[s] # "fail"
  BY <1>1 DEF Get, Goto, Calm, TypeOK
<1> QED
  BY <1>2, <1>3, <1>4, <1>5, <1>6

LEMMA CalmStep ==
  ASSUME TypeOK, Control, Ownership, Tracks, Calm, NEW t \in Task, Act(t)
  PROVE  Calm'
<1> USE DEF At, Goto, promiseVars, taskVars, searchVars, asyncVars, count
<1>1. SUFFICES ASSUME doomed' = {}
               PROVE  /\ NoneForced'
                      /\ \A s \in Task : ~collecting'[s] /\ pc'[s] # "fail"
                      /\ \A S \in SUBSET Task : Cyclic(S)' => S = {}
  BY DEF Calm
<1>2. doomed = {}
  BY <1>1 DEF Act, NewPromise, Make, Resolve, Abandon, resolvePromise, Get, Delegate,
     AsyncTask, DoFirst, Launch, End, Ended, Load, Awaits, Confirm, ForceFailure,
     FailuresForced, Join, Wake, Return
<1>3. /\ NoneForced /\ \A s \in Task : ~collecting[s] /\ pc[s] # "fail"
      /\ \A S \in SUBSET Task : Cyclic(S) => S = {}
  BY <1>2 DEF Calm
<1>4. \A S \in SUBSET Task : Cyclic(S)' => S = {}
  BY <1>1, <1>2, CycleRecorded
<1>5. NoneForced'
  <2>1. CASE \E p \in Promise : Resolve(t, p) \/ Abandon(t, p)
    BY <1>3, <2>1 DEF Resolve, Abandon, resolvePromise, SetResult, TypeOK, NoneForced
  <2>2. CASE UNCHANGED result
    BY <1>3, <2>2 DEF NoneForced
  <2> QED
    BY <1>3, <2>1, <2>2
    DEF Act, NewPromise, Make, Get, Delegate, AsyncTask, DoFirst, Launch, End, Ended,
        Load, Awaits, Confirm, ForceFailure, FailuresForced, Join, Wake, Return
<1>6. ASSUME NEW s \in Task PROVE ~collecting'[s] /\ pc'[s] # "fail"
  <2>1. CASE Load(t)
    <3>1. responsible[checkP[t]] # t
      BY <1>3, <2>1, AlarmCycle DEF Load
    <3> QED
      BY <1>3, <2>1, <3>1 DEF Load, EndOfPass, TypeOK
  <2>2. CASE Awaits(t) \/ Confirm(t)
    BY <1>3, <2>2 DEF Awaits, Confirm, EndOfPass, TypeOK
  <2>3. CASE \E p \in Promise : Get(t, p)
    BY <1>3, <2>3 DEF Get, StartPass, TypeOK
  <2>4. CASE Join(t)
    <3>1. collecting' = [collecting EXCEPT ![t] = FALSE]
      BY <2>4 DEF Join, EndSearch
    <3>2. pc' = [pc EXCEPT ![t] = "return"] \/ pc' = [pc EXCEPT ![t] = "blocked"]
      BY <2>4 DEF Join
    <3> QED
      BY <1>3, <3>1, <3>2 DEF TypeOK
  <2>5. CASE Launch(t)
    <3>1. UNCHANGED collecting /\ child[t] \in Task
      BY <2>5 DEF Launch, TypeOK, NilNotFollowed
    <3>2. PICK l \in {"running", "once"} :
            pc' = [pc EXCEPT ![t] = l, ![child[t]] = "running"]
      BY <2>5 DEF Launch
    <3> QED
      BY <1>3, <3>1, <3>2 DEF TypeOK
  <2>6. CASE \/ \E p \in Promise : \/ NewPromise(t, p) \/ Resolve(t, p)
                                   \/ Delegate(t, p) \/ Abandon(t, p)
             \/ ForceFailure(t)
    BY <1>3, <2>6 DEF NewPromise, Resolve, Delegate, Abandon, resolvePromise, ForceFailure
  <2>7. CASE \/ \E new \in Task : \E S \in SUBSET owned[t] : AsyncTask(t, new, S)
             \/ \E o \in Once, p \in Promise, new \in Task : DoFirst(t, o, p, new)
             \/ End(t) \/ Ended(t) \/ FailuresForced(t) \/ Wake(t) \/ Return(t)
    BY <1>3, <2>7 DEF AsyncTask, DoFirst, End, Ended, FailuresForced, Wake, Return, TypeOK
  <2> QED
    BY <2>1, <2>2, <2>3, <2>4, <2>5, <2>6, <2>7 DEF Act
<1> QED
  BY <1>4, <1>5, <1>6

LEMMA CalmInv == Spec => []Calm
<1>1. Init => Calm
  BY DEF Init, Calm, NoneForced, Cyclic, CyclicIf
<1>2. TypeOK /\ Control /\ Ownership /\ Tracks /\ Calm /\ [Next]_vars => Calm'
  <2>1. ASSUME TypeOK, Control, Ownership, Tracks, Calm, Next PROVE Calm'
    BY <2>1, NextIsAct, CalmStep
  <2>2. ASSUME Calm, UNCHANGED vars PROVE Calm'
    BY <2>2 DEF vars, promiseVars, taskVars, searchVars, count, Calm, NoneForced,
       Cyclic, CyclicIf
  <2> QED
    BY <2>1, <2>2
<1> QED
  BY <1>1, <1>2, TypeCorrect, ControlInv, OwnershipInv, TracksInv, PTL DEF Spec

\* The promise that the task responsible for p awaits.
Succ(p) == awaiting[responsible[p]]

InRing(s) == \E q \in doomed : responsible[q] = s

Holds(s, p) == \E i \in DOMAIN s : s[i] = p

\* At most three promises.
Few == \E a, b, c : doomed \subseteq {a, b, c}

\* All promises of the cycle but one have their result.
Loose ==
    \A p, q \in doomed : result[p] = "none" /\ result[q] = "none" => p = q

\* The cycle stands, and no part of it is a cycle of its own.
Intact == \A p \in doomed : responsible[p] \in Task /\ Succ(p) \in doomed

Minimal ==
    \A X \in SUBSET doomed : X # {} /\ (\A p \in X : Succ(p) \in X) => X = doomed

\* What s has collected is in the order of the cycle, from what s awaits: each
\* promise stands behind the one whose task awaits it, or that one has failed.
InOrder(s) ==
    \A i \in DOMAIN affected[s] : \A x \in doomed :
        Succ(x) = affected[s][i] =>
            \/ affected[s][i] = awaiting[s]
            \/ result[x] # "none"
            \/ \E j \in DOMAIN affected[s] : j < i /\ affected[s][j] = x

\* A second pass that has met the cycle stays on it ...
Following(s) ==
    /\ (\E x \in doomed : Holds(affected[s], x)) => checkP[s] \in doomed
    /\ checkP[s] \in doomed /\ pc[s] \in {"awaits", "confirm"} =>
          checkT[s] = responsible[checkP[s]] /\ Holds(affected[s], checkP[s])
    /\ checkP[s] \in doomed /\ pc[s] = "confirm" => nextP[s] = Succ(checkP[s])

\* ... and the pass of one of its own tasks leaves out none of its promises.
Gathered(s) ==
    /\ \A x \in doomed : Holds(affected[s], x) =>
          x = checkP[s] \/ Succ(x) = checkP[s] \/ Holds(affected[s], Succ(x))
    /\ \/ checkP[s] = awaiting[s]
       \/ \A x \in doomed : Succ(x) = checkP[s] => Holds(affected[s], x)
    /\ InOrder(s)

Collects(s) ==
    collecting[s] /\ pc[s] \in Searching =>
        Following(s) /\ (InRing(s) => Gathered(s))

\* What is left to fail is all that is left of the cycle.
Fails(s) ==
    pc[s] = "fail" =>
        /\ (\E x \in doomed : Holds(affected[s], x)) => InRing(s)
        /\ InRing(s) =>
              /\ \A x \in doomed : result[x] = "none" => Holds(affected[s], x)
              /\ InOrder(s)

Exact == \A s \in Task : Collects(s) /\ Fails(s)

\* A promise of the cycle without a result is awaited by a task of the cycle
\* for which it stands, until that task is the one that fails it.
Pending(p) ==
    result[p] = "none" =>
        /\ responsible[p] \in Task /\ Succ(p) \in doomed
        /\ result[Succ(p)] # "none" =>
              pc[responsible[p]] = "fail" /\ Holds(affected[responsible[p]], p)

Ring ==
    Few => /\ \A p \in doomed : Pending(p)
           /\ CycleFailsAsOne
           /\ Loose \/ (Intact /\ Minimal /\ Exact)

\* In a small cycle no two tasks await the same promise.
LEMMA SuccInjective ==
  ASSUME Few, Intact, Minimal, NEW p \in doomed, NEW q \in doomed, Succ(p) = Succ(q)
  PROVE  p = q
<1> DEFINE Image == {Succ(x) : x \in doomed}
<1>1. Image = doomed
  <2>1. Image \subseteq doomed
    BY DEF Intact
  <2>2. \A x \in Image : Succ(x) \in Image
    BY <2>1
  <2> QED
    BY <2>1, <2>2 DEF Minimal
<1>2. PICK a, b, c : doomed \subseteq {a, b, c}
  BY DEF Few
<1>3. ASSUME p # q PROVE FALSE
  <2>1. PICK x \in doomed : Succ(x) = p
    BY <1>1
  <2>2. PICK y \in doomed : Succ(y) = q
    BY <1>1
  <2>3. \A z \in doomed : \E w \in doomed : Succ(w) = z
    BY <1>1
  <2> HIDE DEF Succ
  <2> QED
    BY <1>2, <1>3, <2>3
<1> QED
  BY <1>3

\* The announcement that closes the cycle finds all of it in place.
LEMMA RingBegins ==
  ASSUME TypeOK, Control, Calm, doomed = {}, doomed' # {}, NEW t \in Task, Act(t)
  PROVE  Ring'
<1>1. PICK p \in Promise : Get(t, p)
  BY DEF Act, NewPromise, Make, Resolve, Abandon, resolvePromise, Delegate,
     AsyncTask, DoFirst, Launch, End, Ended, Load, Awaits, Confirm, ForceFailure,
     FailuresForced, Join, Wake, Return, count
<1>2. PICK S0 \in SUBSET Task : S0 # {} /\ Cyclic(S0)'
  <2>1. doomed' = OnCycle(awaiting') /\ UNCHANGED <<responsible, result>>
    BY <1>1 DEF Get, promiseVars
  <2>2. PICK S0 \in SUBSET Task : S0 # {} /\ CyclicIf(awaiting', S0)
    BY <2>1 DEF OnCycle
  <2> QED
    BY <2>1, <2>2 DEF Cyclic, CyclicIf
<1>3. PICK M \in SUBSET Task :
        /\ t \in M /\ Cyclic(M)'
        /\ \A S \in SUBSET Task : Cyclic(S)' /\ S # {} => M \subseteq S
        /\ doomed' = {awaiting'[u] : u \in M}
        /\ UNCHANGED <<responsible, result, collecting>>
        /\ \A s \in Task : pc'[s] # "fail"
  BY <1>2, CycleRecorded
<1>4. \A u \in M : /\ result'[awaiting'[u]] = "none"
                   /\ responsible'[awaiting'[u]] \in M
  BY <1>3 DEF Cyclic, CyclicIf
<1>5. Intact'
  BY <1>3, <1>4 DEF Intact, Succ
<1>6. \A p1 \in doomed' : result'[p1] = "none"
  BY <1>3, <1>4
<1>7. (\A p1 \in doomed : Pending(p1))' /\ CycleFailsAsOne'
  BY <1>5, <1>6 DEF Intact, Pending, CycleFailsAsOne
<1>8. Minimal'
  <2>1. SUFFICES ASSUME NEW X \in SUBSET doomed', X # {},
                        \A x \in X : awaiting'[responsible'[x]] \in X
                 PROVE  X = doomed'
    BY DEF Minimal, Succ
  <2>2. PICK S \in SUBSET M : S = {v \in M : awaiting'[v] \in X}
    OBVIOUS
  <2>3. ASSUME NEW v \in S
        PROVE  /\ awaiting'[v] # NoPromise /\ result'[awaiting'[v]] = "none"
               /\ responsible'[awaiting'[v]] \in S
    <3>1. awaiting'[v] \in X
      BY <2>2
    <3>2. awaiting'[responsible'[awaiting'[v]]] \in X
      BY <2>1, <3>1
    <3>3. v \in M /\ awaiting'[v] # NoPromise
      BY <1>3 DEF Cyclic, CyclicIf
    <3> QED
      BY <1>4, <2>2, <3>2, <3>3
  <2>4. S # {}
    BY <1>3, <2>1, <2>2
  <2>5. Cyclic(S)'
    BY <2>3 DEF Cyclic, CyclicIf
  <2>6. M \subseteq S
    BY <1>3, <2>4, <2>5
  <2> QED
    BY <1>3, <2>1, <2>2, <2>6
<1>9. Exact'
  BY <1>3 DEF Exact, Collects, Fails, Calm
<1> QED
  BY <1>5, <1>7, <1>8, <1>9 DEF Ring

\* The cycle does not change in the step.
Frozen ==
    /\ doomed' = doomed /\ doomed \subseteq Promise
    /\ \A p \in doomed : /\ responsible[p] \in Task /\ responsible'[p] = responsible[p]
                         /\ Succ(p) \in doomed /\ Succ(p)' = Succ(p)
    /\ \A p \in doomed : result[p] # "none" => result'[p] # "none"

\* The first cycle stays the one that is recorded.
LEMMA DoomedKept ==
  ASSUME TypeOK, NEW t \in Task, Act(t), doomed # {}
  PROVE  doomed' = doomed
  BY DEF Act, NewPromise, Make, Resolve, Abandon, resolvePromise, Get, Delegate,
     AsyncTask, DoFirst, Launch, End, Ended, Load, Awaits, Confirm, ForceFailure,
     FailuresForced, Join, Wake, Return, count

\* A promise whose task awaits something stays the responsibility of that task.
LEMMA ResponsibleKept ==
  ASSUME TypeOK, Control, Ownership, NEW t \in Task, Act(t), NEW p \in Promise,
         responsible[p] \in Task, awaiting[responsible[p]] \in Promise
  PROVE  responsible'[p] = responsible[p]
<1> USE DEF At, promiseVars
<1>1. CASE \E q \in Promise : NewPromise(t, q)
  BY <1>1, TaskAssumption DEF NewPromise, Make, TypeOK, Ownership, Unresolved
<1>2. CASE \E o \in Once, q \in Promise, new \in Task : DoFirst(t, o, q, new)
  BY <1>2, TaskAssumption DEF DoFirst, Make, TypeOK, Ownership, Unresolved
<1>3. CASE \E q \in Promise : Resolve(t, q) \/ Abandon(t, q) \/ Delegate(t, q)
  <2>1. responsible[p] # t
    BY <1>3, TaskAssumption DEF Resolve, Abandon, Delegate, Control, Announced, Getting
  <2>2. PICK q \in Promise, r \in Task \cup {NoTask} :
          responsible[q] = t /\ responsible' = [responsible EXCEPT ![q] = r]
    BY <1>3 DEF Resolve, Abandon, resolvePromise, Delegate, Ownership, Owns,
       TypeOK, NilNotFollowed
  <2> QED
    BY <2>1, <2>2 DEF TypeOK
<1>4. CASE UNCHANGED responsible
  BY <1>4
<1> QED
  BY <1>1, <1>2, <1>3, <1>4
  DEF Act, Get, AsyncTask, Launch, End, Ended, Load, Awaits, Confirm, ForceFailure,
      FailuresForced, Join, Wake, Return

\* A task that is failing promises goes on awaiting.
LEMMA FailingStays ==
  ASSUME TypeOK, Control, NEW t \in Task, Act(t), NEW v \in Task, pc[v] = "fail"
  PROVE  awaiting'[v] = awaiting[v]
<1>1. CASE \E p \in Promise : Get(t, p)
  BY <1>1 DEF Get, At, TypeOK
<1>2. CASE Return(t)
  BY <1>2 DEF Return, At, TypeOK
<1> QED
  BY <1>1, <1>2
  DEF Act, NewPromise, Make, Resolve, Abandon, resolvePromise, Delegate, AsyncTask,
      DoFirst, Launch, End, Ended, Load, Awaits, Confirm, ForceFailure,
      FailuresForced, Join, Wake, taskVars

\* As long as two promises of a small cycle are without a result, it stands.
LEMMA CycleFrozen ==
  ASSUME TypeOK, Control, Ownership, Waits, Few, Intact, Minimal, doomed # {},
         \A p \in doomed : Pending(p), NEW t \in Task, Act(t), ~Loose'
  PROVE  Frozen
<1>1. doomed' = doomed /\ doomed \subseteq Promise
  BY DoomedKept DEF TypeOK
<1>2. \A p \in doomed : result[p] # "none" => result'[p] # "none"
  BY <1>1, FirstResultStays
<1>3. PICK x, y \in doomed : result[x] = "none" /\ result[y] = "none" /\ x # y
  BY <1>1, <1>2 DEF Loose
<1>4. ASSUME NEW p \in doomed
      PROVE  responsible[p] \in Task /\ Succ(p) \in doomed /\ responsible'[p] = responsible[p]
  <2>1. responsible[p] \in Task /\ Succ(p) \in doomed
    BY DEF Intact
  <2> QED
    BY <1>1, <2>1, ResponsibleKept DEF Succ
<1>5. ASSUME NEW p \in doomed
      PROVE  awaiting'[responsible[p]] = awaiting[responsible[p]]
  <2>1. CASE result[Succ(p)] = "none"
    BY <1>1, <1>4, <2>1, AwaitedKept DEF Succ
  <2>2. CASE result[Succ(p)] # "none" /\ result[p] = "none"
    <3>1. pc[responsible[p]] = "fail"
      BY <2>2 DEF Pending
    <3> QED
      BY <1>4, <3>1, FailingStays
  <2>3. CASE result[Succ(p)] # "none" /\ result[p] # "none"
    <3>1. PICK a, b, c : doomed \subseteq {a, b, c}
      BY DEF Few
    <3>2. p = Succ(p)
      BY <1>3, <1>4, <2>3, <3>1
    <3>3. {p} = doomed
      BY <3>2 DEF Minimal
    <3> QED
      BY <1>3, <3>3
  <2> QED
    BY <2>1, <2>2, <2>3
<1> QED
  BY <1>1, <1>2, <1>4, <1>5 DEF Frozen, Succ

\* The promises of the cycle get only the result that is forced.
LEMMA OnlyForced ==
  ASSUME TypeOK, Control, Ownership, NEW t \in Task, Act(t),
         NEW p \in doomed, Pending(p), result[p] = "none", result'[p] # "none"
  PROVE  /\ ForceFailure(t) /\ Head(affected[t]) = p
         /\ result'[p] = "selfDependent"
<1> USE DEF At
<1>1. p \in Promise /\ responsible[p] \in Task /\ awaiting[responsible[p]] \in Promise
  BY DEF Pending, Succ, TypeOK
<1>2. ASSUME NEW q \in Promise, Resolve(t, q) \/ Abandon(t, q)
      PROVE  FALSE
  <2>1. responsible[q] = t /\ awaiting[t] = NoPromise
    BY <1>2 DEF Resolve, Abandon, Ownership, Owns, Control, Announced, Getting
  <2>2. q # p
    BY <1>1, <2>1, TaskAssumption
  <2>3. result'[p] = result[p]
    BY <1>1, <1>2, <2>2 DEF Resolve, Abandon, resolvePromise, SetResult, TypeOK
  <2> QED
    BY <2>3
<1>3. ForceFailure(t)
  BY <1>2 DEF Act, NewPromise, Make, Get, Delegate, AsyncTask, DoFirst, Launch, End, Ended,
     Load, Awaits, Confirm, FailuresForced, Join, Wake, Return, promiseVars
<1>4. affected[t] \in Seq(Promise) /\ affected[t] # <<>>
  BY <1>3 DEF ForceFailure, TypeOK
<1>5. Head(affected[t]) \in Promise
  BY <1>4
<1>6. result' = [result EXCEPT ![Head(affected[t])] = IF @ = "none" THEN "selfDependent" ELSE @]
  BY <1>3 DEF ForceFailure, SetResult
<1> QED
  BY <1>1, <1>3, <1>5, <1>6 DEF TypeOK

\* Failing a promise leaves the rest of the list.
LEMMA FailureTail ==
  ASSUME TypeOK, NEW t \in Task, ForceFailure(t)
  PROVE  /\ pc[t] = "fail" /\ pc' = pc /\ awaiting' = awaiting
         /\ affected[t] \in Seq(Promise) /\ affected[t] # <<>>
         /\ affected'[t] = Tail(affected[t]) /\ collecting' = collecting
         /\ Head(affected[t]) = affected[t][1] /\ affected[t][1] \in Promise
         /\ result'[affected[t][1]] # "none"
         /\ 1 \in DOMAIN affected[t]
         /\ \A i \in DOMAIN affected'[t] :
               i + 1 \in DOMAIN affected[t] /\ affected'[t][i] = affected[t][i + 1]
         /\ \A i \in DOMAIN affected[t] :
               i # 1 => i - 1 \in DOMAIN affected'[t] /\ affected'[t][i - 1] = affected[t][i]
<1>1. /\ pc[t] = "fail" /\ pc' = pc /\ awaiting' = awaiting
      /\ affected[t] \in Seq(Promise) /\ affected[t] # <<>>
      /\ affected'[t] = Tail(affected[t]) /\ collecting' = collecting
  BY DEF ForceFailure, At, TypeOK, taskVars
<1>2. /\ Head(affected[t]) = affected[t][1] /\ affected[t][1] \in Promise
      /\ 1 \in DOMAIN affected[t]
  BY <1>1
<1>3. result'[affected[t][1]] # "none"
  BY <1>2 DEF ForceFailure, SetResult, TypeOK
<1>4. \A i \in DOMAIN affected'[t] :
         i + 1 \in DOMAIN affected[t] /\ affected'[t][i] = affected[t][i + 1]
  BY <1>1
<1>5. \A i \in DOMAIN affected[t] :
         i # 1 => i - 1 \in DOMAIN affected'[t] /\ affected'[t][i - 1] = affected[t][i]
  BY <1>1
<1> QED
  BY <1>1, <1>2, <1>3, <1>4, <1>5

\* What a promise of the cycle waits for gets a result only from its own task,
\* which has the promise itself in its list.
LEMMA FailedBehind ==
  ASSUME TypeOK, Control, Ownership, Few, \A q \in doomed : Pending(q),
         Loose \/ (Intact /\ Minimal /\ Exact), NEW t \in Task, Act(t),
         NEW p \in doomed, result'[p] = "none", result[p] = "none",
         result[Succ(p)] = "none", result'[Succ(p)] # "none"
  PROVE  t = responsible[p] /\ ForceFailure(t) /\ Holds(affected[t], p)
<1>1. Succ(p) \in doomed
  BY DEF Pending
<1>2. ForceFailure(t) /\ affected[t][1] = Succ(p)
  BY <1>1, OnlyForced, FailureTail
<1>3. ~Loose
  BY <1>1 DEF Loose
<1>4. Intact /\ Minimal /\ Fails(t) /\ pc[t] = "fail" /\ 1 \in DOMAIN affected[t]
  BY <1>2, <1>3, FailureTail DEF Exact
<1>5. InRing(t)
  BY <1>1, <1>2, <1>4 DEF Fails, Holds
<1>6. InOrder(t) /\ Holds(affected[t], p)
  BY <1>4, <1>5 DEF Fails
<1>7. Succ(p) = awaiting[t]
  <2>1. affected[t] \in Seq(Promise)
    BY DEF TypeOK
  <2>2. ~\E j \in DOMAIN affected[t] : j < 1 /\ affected[t][j] = p
    BY <2>1
  <2> QED
    BY <1>2, <1>4, <1>6, <2>2 DEF InOrder
<1>8. PICK q \in doomed : responsible[q] = t
  BY <1>5 DEF InRing
<1>9. Succ(q) = Succ(p)
  BY <1>7, <1>8 DEF Succ
<1> QED
  BY <1>2, <1>4, <1>6, <1>8, <1>9, SuccInjective

LEMMA PendingStep ==
  ASSUME TypeOK, Control, Ownership, Waits, Few, doomed # {}, \A q \in doomed : Pending(q),
         Loose \/ (Intact /\ Minimal /\ Exact), NEW t \in Task, Act(t), NEW p \in doomed
  PROVE  Pending(p)'
<1>1. doomed' = doomed /\ p \in Promise
  BY DoomedKept DEF TypeOK
<1>2. SUFFICES ASSUME result'[p] = "none"
               PROVE  /\ responsible'[p] \in Task /\ awaiting'[responsible'[p]] \in doomed
                      /\ result'[awaiting'[responsible'[p]]] # "none" =>
                            /\ pc'[responsible'[p]] = "fail"
                            /\ Holds(affected'[responsible'[p]], p)
  BY <1>1 DEF Pending, Succ
<1>3. result[p] = "none"
  BY <1>1, <1>2, FirstResultStays
<1> DEFINE r == responsible[p]
<1>4. /\ r \in Task /\ awaiting[r] \in doomed /\ awaiting[r] \in Promise
      /\ result[awaiting[r]] # "none" => pc[r] = "fail" /\ Holds(affected[r], p)
  BY <1>3 DEF Pending, Succ, TypeOK
<1>5. responsible'[p] = r
  BY <1>1, <1>4, ResponsibleKept
<1>6. awaiting'[r] = awaiting[r]
  BY <1>4, AwaitedKept, FailingStays
<1>7. ASSUME pc[r] = "fail", Holds(affected[r], p)
      PROVE  pc'[r] = "fail" /\ Holds(affected'[r], p)
  <2>1. CASE t # r
    BY <1>4, <1>7, <2>1, OthersSearch DEF SearchKept
  <2>2. CASE ForceFailure(t) /\ t = r
    <3>1. PICK i \in DOMAIN affected[t] : affected[t][i] = p
      BY <1>7, <2>2 DEF Holds
    <3>2. i # 1
      BY <1>2, <2>2, <3>1, FailureTail
    <3> QED
      BY <1>7, <2>2, <3>1, <3>2, FailureTail DEF Holds
  <2>3. CASE t = r /\ ~ForceFailure(t)
    <3>1. affected[t] # <<>> /\ pc[t] = "fail"
      BY <1>7, <2>3 DEF Holds
    <3> QED
      BY <2>3, <3>1 DEF Act, NewPromise, Resolve, Abandon, Get, Delegate, AsyncTask,
         DoFirst, Launch, End, Ended, Load, Awaits, Confirm, FailuresForced, Join,
         Wake, Return, At
  <2> QED
    BY <2>1, <2>2, <2>3
<1>8. ASSUME result'[awaiting[r]] # "none"
      PROVE  pc'[r] = "fail" /\ Holds(affected'[r], p)
  <2>1. CASE result[awaiting[r]] # "none"
    BY <1>4, <1>7, <2>1
  <2>2. CASE result[awaiting[r]] = "none"
    <3>1. t = r /\ ForceFailure(t) /\ Holds(affected[t], p)
      BY <1>2, <1>3, <1>8, <2>2, FailedBehind DEF Succ
    <3> QED
      BY <1>7, <3>1, FailureTail
  <2> QED
    BY <2>1, <2>2
<1> QED
  BY <1>4, <1>5, <1>6, <1>8

\* A frozen cycle keeps its tasks and what they await.
LEMMA RingFrozen ==
  ASSUME Frozen, NEW s \in Task
  PROVE  /\ InRing(s)' <=> InRing(s)
         /\ InRing(s) => awaiting'[s] = awaiting[s] /\ awaiting[s] \in doomed
<1>1. InRing(s)' <=> InRing(s)
  BY DEF Frozen, InRing
<1>2. ASSUME InRing(s)
      PROVE  awaiting'[s] = awaiting[s] /\ awaiting[s] \in doomed
  <2>1. PICK q \in doomed : responsible[q] = s
    BY <1>2 DEF InRing
  <2> QED
    BY <2>1 DEF Frozen, Succ
<1> QED
  BY <1>1, <1>2

\* A list that a step leaves alone stays in the order of the cycle.
LEMMA InOrderKept ==
  ASSUME Frozen, NEW s \in Task, InRing(s), InOrder(s), affected'[s] = affected[s]
  PROVE  InOrder(s)'
  BY RingFrozen DEF InOrder, Frozen

\* A search that makes no step stays exact.
LEMMA ExactKept ==
  ASSUME TypeOK, Frozen, NEW s \in Task, Collects(s), Fails(s), SearchKept(s)
  PROVE  Collects(s)' /\ Fails(s)'
<1>1. Collects(s)'
  <2>1. SUFFICES ASSUME collecting[s], pc[s] \in Searching
                 PROVE  Following(s)' /\ (InRing(s)' => Gathered(s)')
    BY DEF Collects, SearchKept
  <2>2. Following(s) /\ (InRing(s) => Gathered(s))
    BY <2>1 DEF Collects
  <2>3. Following(s)'
    <3>1. (\E x \in doomed' : Holds(affected'[s], x)) => checkP'[s] \in doomed'
      BY <2>2 DEF Following, SearchKept, Frozen
    <3>2. checkP'[s] \in doomed' /\ pc'[s] \in {"awaits", "confirm"} =>
            checkT'[s] = responsible'[checkP'[s]] /\ Holds(affected'[s], checkP'[s])
      BY <2>2 DEF Following, SearchKept, Frozen
    <3>3. checkP'[s] \in doomed' /\ pc'[s] = "confirm" =>
            nextP'[s] = awaiting'[responsible'[checkP'[s]]]
      BY <2>2 DEF Following, SearchKept, Frozen, Succ
    <3> QED
      BY <3>1, <3>2, <3>3 DEF Following, Succ
  <2>4. ASSUME InRing(s)' PROVE Gathered(s)'
    <3>1. InRing(s) /\ awaiting'[s] = awaiting[s]
      BY <2>4, RingFrozen
    <3>2. InOrder(s)'
      BY <2>2, <3>1, InOrderKept DEF Gathered, SearchKept
    <3> QED
      BY <2>2, <3>1, <3>2 DEF Gathered, SearchKept, Frozen
  <2> QED
    BY <2>3, <2>4
<1>2. Fails(s)'
  <2>1. SUFFICES ASSUME pc[s] = "fail"
                 PROVE  /\ (\E x \in doomed' : Holds(affected'[s], x)) => InRing(s)'
                        /\ InRing(s)' =>
                             /\ \A x \in doomed' : result'[x] = "none" => Holds(affected'[s], x)
                             /\ InOrder(s)'
    BY DEF Fails, SearchKept
  <2>2. (\E x \in doomed' : Holds(affected'[s], x)) => InRing(s)'
    BY <2>1, RingFrozen DEF Fails, SearchKept, Frozen
  <2>3. ASSUME InRing(s)'
        PROVE  /\ \A x \in doomed' : result'[x] = "none" => Holds(affected'[s], x)
               /\ InOrder(s)'
    <3>1. InRing(s) /\ InOrder(s) /\ \A x \in doomed : result[x] = "none" => Holds(affected[s], x)
      BY <2>1, <2>3, RingFrozen DEF Fails
    <3> QED
      BY <3>1, InOrderKept DEF SearchKept, Frozen
  <2> QED
    BY <2>2, <2>3
<1> QED
  BY <1>1, <1>2

LEMMA ExactOthers ==
  ASSUME TypeOK, Control, Frozen, NEW t \in Task, Act(t), NEW s \in Task, s # t,
         Collects(s), Fails(s)
  PROVE  Collects(s)' /\ Fails(s)'
<1>1. CASE pc[s] = "unborn"
  <2>1. Launch(t) => pc'[s] \notin Searching \cup {"fail"}
    BY <1>1 DEF Launch, TypeOK, NilNotFollowed, Control, Newborn, Searching, At
  <2>2. pc'[s] \notin Searching \cup {"fail"}
    BY <1>1, <2>1 DEF Act, NewPromise, Make, Resolve, Abandon, resolvePromise,
       Delegate, AsyncTask, DoFirst, End, Ended, Get, Load, Awaits, Confirm,
       ForceFailure, FailuresForced, Join, Wake, Return, Goto, TypeOK, Searching
  <2> QED
    BY <2>2 DEF Collects, Fails
<1>2. CASE pc[s] # "unborn"
  BY <1>2, OthersSearch, ExactKept
<1> QED
  BY <1>1, <1>2

\* Collecting a promise adds it at the end, unless it is there.
LEMMA CollectHolds ==
  ASSUME NEW s \in Seq(Promise), NEW p \in Promise
  PROVE  /\ \A x : Holds(Collect(s, p), x) <=> Holds(s, x) \/ x = p
         /\ \A i \in DOMAIN s : i \in DOMAIN Collect(s, p) /\ Collect(s, p)[i] = s[i]
         /\ \A i \in DOMAIN Collect(s, p) : i \notin DOMAIN s =>
               Collect(s, p)[i] = p /\ \A j \in DOMAIN s : j < i
<1>1. CASE Collect(s, p) = s /\ Holds(s, p)
  BY <1>1
<1>2. CASE Collect(s, p) = Append(s, p)
  <2>1. /\ Append(s, p) \in Seq(Promise) /\ Len(Append(s, p)) = Len(s) + 1
        /\ \A i \in 1 .. Len(s) : Append(s, p)[i] = s[i]
        /\ Append(s, p)[Len(s) + 1] = p
    OBVIOUS
  <2>2. DOMAIN s = 1 .. Len(s) /\ DOMAIN Append(s, p) = 1 .. Len(s) + 1
    BY <2>1
  <2>3. Len(s) \in Nat
    OBVIOUS
  <2>4. \A i \in DOMAIN Append(s, p) : i \notin DOMAIN s => i = Len(s) + 1
    BY <2>2, <2>3
  <2>5. \A x : Holds(Append(s, p), x) <=> Holds(s, x) \/ x = p
    BY <2>1, <2>2, <2>3, <2>4 DEF Holds
  <2>6. \A j \in DOMAIN s : j \in DOMAIN Append(s, p) /\ j < Len(s) + 1
    BY <2>2, <2>3
  <2> QED
    BY <1>2, <2>1, <2>2, <2>4, <2>5, <2>6
<1> QED
  BY <1>1, <1>2 DEF Collect, Holds

\* The second pass of a task of the cycle is on the cycle.
LEMMA OnTheCycle ==
  ASSUME TypeOK, Control, Frozen, NEW t \in Task, collecting[t], pc[t] \in Searching,
         Following(t), InRing(t)
  PROVE  /\ checkP[t] \in doomed /\ awaiting[t] \in doomed
         /\ (affected[t] = <<>> /\ checkP[t] = awaiting[t]) \/ Holds(affected[t], awaiting[t])
<1>1. awaiting[t] \in doomed
  BY RingFrozen
<1>2. (affected[t] = <<>> /\ checkP[t] = awaiting[t]) \/ Holds(affected[t], awaiting[t])
  <2>1. CASE affected[t] # <<>> /\ affected[t][1] = awaiting[t]
    <3>1. affected[t] \in Seq(Promise)
      BY DEF TypeOK
    <3>2. 1 \in DOMAIN affected[t]
      BY <2>1, <3>1
    <3> QED
      BY <2>1, <3>2 DEF Holds
  <2> QED
    BY <2>1 DEF Control, SecondPass
<1> QED
  BY <1>1, <1>2 DEF Following

\* Exact is about searches in their second pass and tasks that fail promises.
LEMMA ExactElsewhere ==
  ASSUME NEW s \in Task, pc'[s] # "fail", pc'[s] \notin Searching \/ ~collecting'[s]
  PROVE  Collects(s)' /\ Fails(s)'
  BY DEF Collects, Fails

\* The second pass has come back to t: it has collected the whole cycle.
LEMMA WholeCycle ==
  ASSUME Intact, Minimal, NEW t \in Task, Gathered(t), NEW p \in doomed, NEW l, p = checkP[t],
         \A x : Holds(l, x) <=> Holds(affected[t], x) \/ x = p, Holds(l, Succ(p))
  PROVE  \A x \in doomed : Holds(l, x)
<1> DEFINE X == {x \in doomed : Holds(l, x)}
<1>1. \A x \in X : Succ(x) \in X
  BY DEF Gathered, Intact
<1>2. p \in X
  OBVIOUS
<1>3. X = doomed
  BY <1>1, <1>2 DEF Minimal
<1> QED
  BY <1>3

LEMMA LoadExact ==
  ASSUME TypeOK, Control, Intact, Minimal, Frozen, NEW t \in Task, Load(t), Collects(t)
  PROVE  Collects(t)' /\ Fails(t)'
<1> USE DEF At, Goto, taskVars, promiseVars, count
<1>1. /\ pc[t] = "load" /\ checkP[t] \in Promise /\ awaiting[t] \in Promise
      /\ affected[t] \in Seq(Promise)
      /\ UNCHANGED <<awaiting, responsible, result, doomed>>
  BY DEF Load, TypeOK, NilNotFollowed, Getting
<1>2. CASE ~collecting[t] /\ ~collecting'[t]
  <2>1. pc'[t] # "fail"
    BY <1>2 DEF Load, EndOfPass, TypeOK
  <2> QED
    BY <1>2, <2>1, ExactElsewhere
<1>3. CASE ~collecting[t] /\ collecting'[t]
  <2>1. pc'[t] = "load" /\ checkP'[t] = awaiting[t] /\ affected'[t] = <<>>
    BY <1>3 DEF Load, StartPass, TypeOK
  <2>2. ~\E x : Holds(affected'[t], x)
    BY <2>1 DEF Holds
  <2>3. Following(t)'
    BY <2>1, <2>2 DEF Following
  <2>4. Gathered(t)'
    BY <1>1, <2>1, <2>2 DEF Gathered, InOrder
  <2> QED
    BY <2>1, <2>3, <2>4 DEF Collects, Fails
<1>4. CASE collecting[t]
  <2> DEFINE p == checkP[t]  r == responsible[checkP[t]]
  <2>1. /\ affected'[t] = Collect(affected[t], p) /\ checkP'[t] = p /\ checkT'[t] = r
        /\ collecting'[t]
        /\ pc'[t] = IF r = t \/ r = NoTask THEN "fail" ELSE "awaits"
    BY <1>4, TaskAssumption DEF Load, EndOfPass, TypeOK
  <2>2. /\ \A x : Holds(affected'[t], x) <=> Holds(affected[t], x) \/ x = p
        /\ \A i \in DOMAIN affected[t] :
              i \in DOMAIN affected'[t] /\ affected'[t][i] = affected[t][i]
        /\ \A i \in DOMAIN affected'[t] : i \notin DOMAIN affected[t] =>
              affected'[t][i] = p /\ \A j \in DOMAIN affected[t] : j < i
    BY <1>1, <2>1, CollectHolds
  <2>3. Following(t) /\ (InRing(t) => Gathered(t))
    BY <1>1, <1>4 DEF Collects, Searching
  <2>4. (\E x \in doomed : Holds(affected'[t], x)) => p \in doomed
    BY <2>2, <2>3 DEF Following
  <2>5. p \in doomed => r \in Task /\ r # NoTask
    BY TaskAssumption DEF Intact
  <2>6. ASSUME InRing(t)
        PROVE  p \in doomed /\ Holds(affected'[t], awaiting[t])
    BY <1>1, <1>4, <2>2, <2>3, <2>6, OnTheCycle DEF Searching
  <2>7. ASSUME InRing(t)
        PROVE  InOrder(t)'
    <3>1. Gathered(t)
      BY <2>3, <2>7
    <3>2. SUFFICES ASSUME NEW i \in DOMAIN affected'[t], NEW x \in doomed,
                          Succ(x) = affected'[t][i], affected'[t][i] # awaiting[t],
                          result[x] = "none"
                   PROVE  \E j \in DOMAIN affected'[t] : j < i /\ affected'[t][j] = x
      BY <1>1 DEF InOrder, Succ
    <3>3. CASE i \in DOMAIN affected[t]
      <4>1. PICK j \in DOMAIN affected[t] : j < i /\ affected[t][j] = x
        BY <2>2, <3>1, <3>2, <3>3 DEF Gathered, InOrder
      <4> QED
        BY <2>2, <4>1
    <3>4. CASE i \notin DOMAIN affected[t]
      <4>1. affected'[t][i] = p
        BY <2>2, <3>4
      <4>2. Holds(affected[t], x)
        BY <3>1, <3>2, <4>1 DEF Gathered
      <4>3. PICK j \in DOMAIN affected[t] : affected[t][j] = x
        BY <4>2 DEF Holds
      <4> QED
        BY <2>2, <3>4, <4>3
    <3> QED
      BY <3>3, <3>4
  <2>8. InRing(t)' <=> InRing(t)
    BY RingFrozen
  <2>9. CASE r = t
    <3>1. ASSUME InRing(t)
          PROVE  \A x \in doomed : Holds(affected'[t], x)
      <4>1. Succ(p) = awaiting[t]
        BY <2>9 DEF Succ
      <4> QED
        BY <2>2, <2>3, <2>6, <3>1, <4>1, WholeCycle
    <3>2. (\E x \in doomed : Holds(affected'[t], x)) => InRing(t)
      BY <2>4, <2>9 DEF InRing
    <3>3. Fails(t)'
      BY <1>1, <2>7, <2>8, <3>1, <3>2 DEF Fails
    <3> QED
      BY <2>1, <2>9, <3>3 DEF Collects, Searching
  <2>10. CASE r = NoTask
    <3>1. ~InRing(t) /\ ~\E x \in doomed : Holds(affected'[t], x)
      BY <2>4, <2>5, <2>6, <2>10
    <3>2. Fails(t)'
      BY <1>1, <2>8, <3>1 DEF Fails
    <3> QED
      BY <2>1, <2>10, <3>2 DEF Collects, Searching
  <2>11. CASE r # t /\ r # NoTask
    <3>1. pc'[t] = "awaits"
      BY <2>1, <2>11
    <3>2. Following(t)'
      BY <1>1, <2>1, <2>2, <2>4, <3>1 DEF Following
    <3>3. ASSUME InRing(t)
          PROVE  Gathered(t)'
      <4>1. Gathered(t) /\ InOrder(t)'
        BY <2>3, <2>7, <3>3
      <4>2. \A x \in doomed : Holds(affected'[t], x) =>
               x = p \/ Succ(x) = p \/ Holds(affected'[t], Succ(x))
        BY <2>2, <4>1 DEF Gathered
      <4>3. p = awaiting[t] \/ \A x \in doomed : Succ(x) = p => Holds(affected'[t], x)
        BY <2>2, <4>1 DEF Gathered
      <4> QED
        BY <1>1, <2>1, <4>1, <4>2, <4>3 DEF Gathered, Succ
    <3> QED
      BY <2>8, <3>1, <3>2, <3>3 DEF Collects, Fails
  <2> QED
    BY <2>9, <2>10, <2>11
<1> QED
  BY <1>2, <1>3, <1>4

LEMMA AwaitsExact ==
  ASSUME TypeOK, Control, Intact, Frozen, NEW t \in Task, Awaits(t), Collects(t)
  PROVE  Collects(t)' /\ Fails(t)'
<1> USE DEF At, Goto, taskVars, promiseVars, count
<1>1. /\ pc[t] = "awaits" /\ nextP'[t] = awaiting[checkT[t]]
      /\ UNCHANGED <<awaiting, responsible, result, doomed, checkP, checkT,
                     collecting, affected>>
      /\ pc'[t] = IF awaiting[checkT[t]] = NoPromise THEN EndOfPass(t) ELSE "confirm"
  BY DEF Awaits, TypeOK
<1>2. CASE ~collecting[t]
  BY <1>1, <1>2, ExactElsewhere DEF EndOfPass
<1>3. CASE collecting[t]
  <2>1. Following(t) /\ (InRing(t) => Gathered(t))
    BY <1>1, <1>3 DEF Collects, Searching
  <2>2. InRing(t)' <=> InRing(t)
    BY RingFrozen
  <2>3. CASE awaiting[checkT[t]] = NoPromise
    <3>1. checkP[t] \notin doomed
      BY <1>1, <2>1, <2>3, TaskAssumption DEF Following, Intact, Succ, TypeOK
    <3>2. (~\E x \in doomed : Holds(affected[t], x)) /\ ~InRing(t)
      BY <1>1, <1>3, <2>1, <3>1, OnTheCycle DEF Following, Searching
    <3>3. pc'[t] = "fail"
      BY <1>1, <1>3, <2>3 DEF EndOfPass
    <3>4. Fails(t)'
      BY <1>1, <2>2, <3>2 DEF Fails
    <3> QED
      BY <3>3, <3>4 DEF Collects, Searching
  <2>4. CASE awaiting[checkT[t]] # NoPromise
    <3>1. pc'[t] = "confirm"
      BY <1>1, <2>4
    <3>2. Following(t)'
      BY <1>1, <2>1, <3>1 DEF Following, Succ
    <3>3. Gathered(t) => Gathered(t)'
      BY <1>1 DEF Gathered, InOrder, Succ
    <3> QED
      BY <2>1, <2>2, <3>1, <3>2, <3>3 DEF Collects, Fails
  <2> QED
    BY <2>3, <2>4
<1> QED
  BY <1>2, <1>3

LEMMA ConfirmExact ==
  ASSUME TypeOK, Control, Few, Intact, Minimal, Frozen, NEW t \in Task, Confirm(t), Collects(t)
  PROVE  Collects(t)' /\ Fails(t)'
<1> USE DEF At, Goto, taskVars, promiseVars, count
<1> DEFINE same == responsible[checkP[t]] = checkT[t]
<1>1. /\ pc[t] = "confirm"
      /\ UNCHANGED <<awaiting, responsible, result, doomed, collecting, affected>>
      /\ same => pc'[t] = "load" /\ checkP'[t] = nextP[t]
      /\ ~same => pc'[t] = EndOfPass(t)
  BY DEF Confirm, TypeOK
<1>2. CASE ~collecting[t]
  BY <1>1, <1>2, ExactElsewhere DEF EndOfPass
<1>3. CASE collecting[t]
  <2>1. Following(t) /\ (InRing(t) => Gathered(t))
    BY <1>1, <1>3 DEF Collects, Searching
  <2>2. InRing(t)' <=> InRing(t)
    BY RingFrozen
  <2>3. InRing(t) => checkP[t] \in doomed
    BY <1>1, <1>3, <2>1, OnTheCycle DEF Searching
  <2>4. CASE ~same
    <3>1. (~\E x \in doomed : Holds(affected[t], x)) /\ ~InRing(t)
      BY <1>1, <2>1, <2>3, <2>4 DEF Following
    <3>2. pc'[t] = "fail"
      BY <1>1, <1>3, <2>4 DEF EndOfPass
    <3>3. Fails(t)'
      BY <1>1, <2>2, <3>1 DEF Fails
    <3> QED
      BY <3>2, <3>3 DEF Collects, Searching
  <2>5. CASE same
    <3>1. pc'[t] = "load" /\ checkP'[t] = nextP[t]
      BY <1>1, <2>5
    <3>2. checkP[t] \in doomed =>
            /\ nextP[t] = Succ(checkP[t]) /\ Succ(checkP[t]) \in doomed
            /\ Holds(affected[t], checkP[t])
      BY <1>1, <2>1 DEF Following, Intact
    <3>3. Following(t)'
      BY <1>1, <2>1, <3>1, <3>2 DEF Following
    <3>4. ASSUME InRing(t)
          PROVE  Gathered(t)'
      <4>1. Gathered(t) /\ checkP[t] \in doomed
        BY <2>1, <2>3, <3>4
      <4>2. \A x \in doomed : Holds(affected[t], x) =>
               Succ(x) = nextP[t] \/ Holds(affected[t], Succ(x))
        BY <3>2, <4>1 DEF Gathered
      <4>3. \A x \in doomed : Succ(x) = nextP[t] => Holds(affected[t], x)
        BY <3>2, <4>1, SuccInjective
      <4>4. InOrder(t)'
        BY <1>1, <4>1 DEF Gathered, InOrder, Succ
      <4> QED
        BY <1>1, <3>1, <4>2, <4>3, <4>4 DEF Gathered, Succ
    <3> QED
      BY <2>2, <3>1, <3>3, <3>4 DEF Collects, Fails
  <2> QED
    BY <2>4, <2>5
<1> QED
  BY <1>2, <1>3

LEMMA FailureExact ==
  ASSUME TypeOK, Frozen, NEW t \in Task, ForceFailure(t), Fails(t)
  PROVE  Collects(t)' /\ Fails(t)'
<1> DEFINE s == affected[t]
<1>1. /\ pc[t] = "fail" /\ pc' = pc
      /\ result'[s[1]] # "none"
      /\ \A i \in DOMAIN affected'[t] : i + 1 \in DOMAIN s /\ affected'[t][i] = s[i + 1]
      /\ \A i \in DOMAIN s : i # 1 => i - 1 \in DOMAIN affected'[t] /\ affected'[t][i - 1] = s[i]
      /\ \A i \in DOMAIN s \cup DOMAIN affected'[t] : i \in Nat
  <2>1. \A i \in DOMAIN s \cup DOMAIN affected'[t] : i \in Nat
    <3>1. s \in Seq(Promise) /\ s # <<>> /\ affected'[t] = Tail(s)
      BY FailureTail
    <3>2. Tail(s) \in Seq(Promise)
      BY <3>1
    <3> QED
      BY <3>1, <3>2
  <2> QED
    BY <2>1, FailureTail
<1>2. \A x : Holds(affected'[t], x) => Holds(s, x)
  BY <1>1 DEF Holds
<1>3. \A x : Holds(s, x) /\ x # s[1] => Holds(affected'[t], x)
  BY <1>1 DEF Holds
<1>4. InRing(t)' <=> InRing(t)
  BY RingFrozen
<1>5. ASSUME InRing(t)
      PROVE  /\ \A x \in doomed : result'[x] = "none" => Holds(affected'[t], x)
             /\ InOrder(t)'
  <2>1. InOrder(t) /\ \A x \in doomed : result[x] = "none" => Holds(s, x)
    BY <1>1, <1>5 DEF Fails
  <2>2. \A x \in doomed : result'[x] = "none" => Holds(affected'[t], x)
    BY <1>1, <1>3, <2>1 DEF Frozen
  <2>3. awaiting'[t] = awaiting[t]
    BY <1>5, RingFrozen
  <2>4. ASSUME NEW i \in DOMAIN affected'[t], NEW x \in doomed,
               Succ(x) = s[i + 1], s[i + 1] # awaiting[t], result'[x] = "none"
        PROVE  \E j \in DOMAIN affected'[t] : j < i /\ affected'[t][j] = x
    <3>1. PICK j \in DOMAIN s : j < i + 1 /\ s[j] = x
      BY <1>1, <2>1, <2>4 DEF InOrder, Frozen
    <3>2. j # 1
      BY <1>1, <2>4, <3>1
    <3>3. j - 1 \in DOMAIN affected'[t] /\ affected'[t][j - 1] = x
      BY <1>1, <3>1, <3>2
    <3>4. j - 1 < i
      BY <1>1, <3>1
    <3> QED
      BY <3>3, <3>4
  <2>5. InOrder(t)'
    BY <1>1, <2>3, <2>4 DEF InOrder, Frozen
  <2> QED
    BY <2>2, <2>5
<1>6. Fails(t)'
  BY <1>1, <1>2, <1>4, <1>5 DEF Fails, Frozen
<1> QED
  BY <1>1, <1>6 DEF Collects, Searching

LEMMA ExactOwn ==
  ASSUME TypeOK, Control, Few, Intact, Minimal, Frozen, NEW t \in Task, Act(t),
         Collects(t), Fails(t)
  PROVE  Collects(t)' /\ Fails(t)'
<1> USE DEF At, Goto, promiseVars, taskVars, searchVars, asyncVars, count
<1>1. CASE Load(t)
  BY <1>1, LoadExact
<1>2. CASE Awaits(t)
  BY <1>2, AwaitsExact
<1>3. CASE Confirm(t)
  BY <1>3, ConfirmExact
<1>4. CASE ForceFailure(t)
  BY <1>4, FailureExact
<1>5. CASE \E p \in Promise : Get(t, p)
  <2>1. pc'[t] = "load" /\ ~collecting'[t]
    BY <1>5 DEF Get, StartPass, TypeOK
  <2> QED
    BY <2>1, ExactElsewhere
<1>6. CASE Launch(t)
  <2>1. child[t] # t
    BY <1>6 DEF Launch, TypeOK, NilNotFollowed, Control, Newborn
  <2>2. pc'[t] \notin Searching \cup {"fail"}
    BY <1>6, <2>1 DEF Launch, TypeOK, NilNotFollowed, Searching
  <2> QED
    BY <2>2, ExactElsewhere
<1>7. CASE Join(t)
  <2>1. pc'[t] \notin Searching \cup {"fail"}
    BY <1>7 DEF Join, TypeOK, Searching
  <2> QED
    BY <2>1, ExactElsewhere
<1>8. CASE \E p \in Promise : NewPromise(t, p) \/ Resolve(t, p)
                              \/ Delegate(t, p) \/ Abandon(t, p)
  <2>1. pc' = pc /\ pc[t] \notin Searching \cup {"fail"}
    BY <1>8 DEF NewPromise, Resolve, Delegate, Abandon, resolvePromise, Searching
  <2> QED
    BY <2>1, ExactElsewhere
<1>9. CASE \/ \E new \in Task : \E S \in SUBSET owned[t] : AsyncTask(t, new, S)
           \/ \E o \in Once, p \in Promise, new \in Task : DoFirst(t, o, p, new)
           \/ End(t) \/ Ended(t) \/ FailuresForced(t) \/ Wake(t) \/ Return(t)
  <2>1. pc'[t] \notin Searching \cup {"fail"}
    BY <1>9 DEF AsyncTask, DoFirst, End, Ended, FailuresForced, Wake, Return,
       TypeOK, Searching
  <2> QED
    BY <2>1, ExactElsewhere
<1> QED
  BY <1>1, <1>2, <1>3, <1>4, <1>5, <1>6, <1>7, <1>8, <1>9 DEF Act

\* A small cycle is failed as one, from the step that closes it on.
LEMMA RingStep ==
  ASSUME TypeOK, Control, Ownership, Waits, Calm, Ring, NEW t \in Task, Act(t)
  PROVE  Ring'
<1>1. CASE doomed' = {}
  BY <1>1 DEF Ring, CycleFailsAsOne, Loose
<1>2. CASE doomed = {} /\ doomed' # {}
  BY <1>2, RingBegins
<1>3. CASE doomed # {}
  <2>1. doomed' = doomed /\ doomed \subseteq Promise
    BY <1>3, DoomedKept DEF TypeOK
  <2>2. SUFFICES ASSUME Few
                 PROVE  /\ (\A p \in doomed : Pending(p))'
                        /\ CycleFailsAsOne'
                        /\ Loose' \/ (Intact' /\ Minimal' /\ Exact')
    BY <2>1 DEF Ring, Few
  <2>3. /\ \A p \in doomed : Pending(p)
        /\ CycleFailsAsOne
        /\ Loose \/ (Intact /\ Minimal /\ Exact)
    BY <2>2 DEF Ring
  <2>4. \A p \in doomed : Pending(p)'
    BY <1>3, <2>2, <2>3, PendingStep
  <2>5. CycleFailsAsOne'
    <3>1. ASSUME NEW p \in doomed
          PROVE  result'[p] \in {"none", "selfDependent"}
      <4>1. CASE result[p] # "none"
        BY <2>1, <2>3, <4>1, FirstResultStays DEF CycleFailsAsOne
      <4>2. CASE result[p] = "none"
        BY <2>3, <4>2, OnlyForced
      <4> QED
        BY <4>1, <4>2
    <3> QED
      BY <2>1, <3>1 DEF CycleFailsAsOne
  <2>6. ASSUME ~Loose'
        PROVE  Intact' /\ Minimal' /\ Exact'
    <3>1. ~Loose
      BY <2>1, <2>6, FirstResultStays DEF Loose
    <3>2. Intact /\ Minimal /\ Exact
      BY <2>3, <3>1
    <3>3. Frozen
      BY <1>3, <2>2, <2>3, <2>6, <3>2, CycleFrozen
    <3>4. Intact' /\ Minimal'
      BY <3>2, <3>3 DEF Intact, Minimal, Frozen
    <3>5. ASSUME NEW s \in Task PROVE Collects(s)' /\ Fails(s)'
      BY <2>2, <3>2, <3>3, ExactOwn, ExactOthers DEF Exact
    <3> QED
      BY <3>4, <3>5 DEF Exact
  <2> QED
    BY <2>1, <2>4, <2>5, <2>6
<1> QED
  BY <1>1, <1>2, <1>3

LEMMA RingInv == Spec => []Ring
<1>1. Init => Ring
  BY DEF Init, Ring, CycleFailsAsOne, Loose
<1>2. TypeOK /\ Control /\ Ownership /\ Waits /\ Calm /\ Ring /\ [Next]_vars => Ring'
  <2>1. ASSUME TypeOK, Control, Ownership, Waits, Calm, Ring, Next PROVE Ring'
    BY <2>1, NextIsAct, RingStep
  <2>2. ASSUME Ring, UNCHANGED vars PROVE Ring'
    BY <2>2 DEF vars, promiseVars, taskVars, searchVars, count, Ring, Few, Pending,
       CycleFailsAsOne, Loose, Intact, Minimal, Exact, Collects, Fails, Following,
       Gathered, InOrder, InRing, Holds, Succ
  <2> QED
    BY <2>1, <2>2
<1> QED
  BY <1>1, <1>2, TypeCorrect, ControlInv, OwnershipInv, WaitsInv, CalmInv, PTL DEF Spec

\* The promises of the first cycle are among those that have been made, which
\* are finitely many.
Counted == IsFiniteSet(made) /\ doomed \subseteq made

LEMMA CountedStep ==
  ASSUME TypeOK, Ownership, Counted, NEW t \in Task, Act(t)
  PROVE  Counted'
<1>1. CASE \E p \in Promise : Get(t, p)
  <2>1. PICK p \in Promise : Get(t, p)
    BY <1>1
  <2>2. UNCHANGED made /\ (doomed' = doomed \/ doomed' = OnCycle(awaiting'))
    BY <2>1 DEF Get, promiseVars
  <2>3. awaiting' \in [Task -> Promise \cup {NoPromise}]
    BY <2>1 DEF Get, TypeOK
  <2>4. ASSUME NEW q \in OnCycle(awaiting')
        PROVE  q \in made
    <3>1. q \in Promise /\ responsible[q] \in Task
      BY <2>3, OnCycleType, OnCycleStands
    <3> QED
      BY <3>1, TaskAssumption DEF Ownership, Unresolved
  <2> QED
    BY <2>2, <2>4 DEF Counted
<1>2. CASE ~\E p \in Promise : Get(t, p)
  <2>1. UNCHANGED doomed /\ (made' = made \/ \E p \in Promise : made' = made \cup {p})
    BY <1>2 DEF Act, NewPromise, Make, Resolve, Abandon, resolvePromise, Delegate,
       AsyncTask, DoFirst, Launch, End, Ended, Load, Awaits, Confirm, ForceFailure,
       FailuresForced, Join, Wake, Return, promiseVars, count
  <2> QED
    BY <2>1, FS_AddElement DEF Counted
<1> QED
  BY <1>1, <1>2

LEMMA CountedInv == Spec => []Counted
<1>1. Init => Counted
  BY FS_EmptySet DEF Init, Counted
<1>2. TypeOK /\ Ownership /\ Counted /\ [Next]_vars => Counted'
  <2>1. ASSUME TypeOK, Ownership, Counted, Next PROVE Counted'
    BY <2>1, NextIsAct, CountedStep
  <2>2. ASSUME Counted, UNCHANGED vars PROVE Counted'
    BY <2>2 DEF vars, promiseVars, count, Counted
  <2> QED
    BY <2>1, <2>2
<1> QED
  BY <1>1, <1>2, TypeCorrect, OwnershipInv, PTL DEF Spec

\* A finite set is one of fewer elements, if it is not empty, and an element.
LEMMA OneLess ==
  ASSUME NEW S, IsFiniteSet(S)
  PROVE  \E x, R : /\ IsFiniteSet(R) /\ S \subseteq R \cup {x}
                   /\ R = {} \/ Cardinality(R) = Cardinality(S) - 1
<1>1. CASE S = {}
  BY <1>1
<1>2. CASE S # {}
  <2>1. PICK x \in S : TRUE
    BY <1>2
  <2>2. IsFiniteSet(S \ {x}) /\ Cardinality(S \ {x}) = Cardinality(S) - 1
    BY FS_RemoveElement
  <2> QED
    BY <2>2
<1> QED
  BY <1>1, <1>2

LEMMA SmallIsFew ==
  ASSUME Counted, SmallCycle
  PROVE  Few
<1>1. IsFiniteSet(doomed) /\ Cardinality(doomed) <= 3
  BY FS_Subset DEF Counted, SmallCycle
<1>2. PICK a, A : /\ IsFiniteSet(A) /\ doomed \subseteq A \cup {a}
                  /\ A = {} \/ Cardinality(A) = Cardinality(doomed) - 1
  BY <1>1, OneLess
<1>3. PICK b, B : /\ IsFiniteSet(B) /\ A \subseteq B \cup {b}
                  /\ B = {} \/ Cardinality(B) = Cardinality(A) - 1
  BY <1>2, OneLess
<1>4. PICK c, C : /\ IsFiniteSet(C) /\ B \subseteq C \cup {c}
                  /\ C = {} \/ Cardinality(C) = Cardinality(B) - 1
  BY <1>3, OneLess
<1>5. A = {} \/ B = {} \/ C = {}
  <2>1. Cardinality(C) \in Nat /\ (Cardinality(C) = 0 => C = {})
    BY <1>4, FS_EmptySet, FS_CardinalityType
  <2>2. Cardinality(doomed) \in Nat
    BY <1>1, FS_CardinalityType
  <2> QED
    BY <1>1, <1>2, <1>3, <1>4, <2>1, <2>2
<1>6. doomed \subseteq {a, b, c}
  BY <1>2, <1>3, <1>4, <1>5
<1> QED
  BY <1>6 DEF Few

\* All promises of a first cycle of at most three get the forced result and no
\* other, although its tasks are woken one by one and may then go on to resolve
\* theirs (the comment on resolvePromiseInternalFailure; a cycle of four is the
\* counterexample of a run).
THEOREM SmallCycleFailed == Spec => []SmallCycleFailsAsOne
<1>1. Ring /\ Counted => SmallCycleFailsAsOne
  BY SmallIsFew DEF Ring, SmallCycleFailsAsOne
<1> QED
  BY <1>1, RingInv, CountedInv, PTL
=============================================================================
