----------------------------- MODULE Promising -----------------------------
(***************************************************************************)
(* Package promising: tasks that wait for promises, each promise with one  *)
(* task responsible for resolving it.  A getter looks for a cycle before   *)
(* it waits: without any lock it follows, from the promise, the task that  *)
(* is responsible, the promise that this task is awaiting, and so on.      *)
(* One action per atomic load of that search, and one per critical section *)
(* of waitingMu.                                                           *)
(***************************************************************************)
EXTENDS Naturals, Sequences, FiniteSets

CONSTANTS
    Task, Promise,
    Once,         \* the values of type Once
    Main,         \* the task of MainTask
    NoTask, NoPromise,
    MaxGet        \* bound: calls of getters, those at the end of Do apart

ASSUME TaskAssumption == /\ Main \in Task
                         /\ NoTask \notin Task /\ NoPromise \notin Promise
                         /\ MaxGet \in Nat

-----------------------------------------------------------------------------
VARIABLES
    \* fields of promise, and the promises made so far
    made, responsible, result, waiting,
    \* fields of task
    awaiting, owned,
    \* the promise behind each Once
    once,
    \* the point each task has reached
    pc,
    \* the getter's search: its cursor, the pass it is in (the second one
    \* collects the promises of the cycle), what it has collected
    checkP, checkT, nextP, collecting, affected,
    \* AsyncTask: the new task, the promises to hand to it, and for Once the
    \* promise to wait for afterwards
    child, handing, onceP,
    \* bookkeeping: the calls of getters, the promises of the first cycle
    gets, doomed

promiseVars == <<made, responsible, result, waiting>>
taskVars    == <<awaiting, owned>>
searchVars  == <<checkP, checkT, nextP, collecting, affected>>
asyncVars   == <<child, handing, onceP>>
count       == <<gets, doomed>>
vars == <<promiseVars, taskVars, once, pc, searchVars, asyncVars, count>>

Getting == {"load", "awaits", "confirm", "fail", "join", "blocked", "return"}

PC == {"unborn", "running", "delegating", "once", "ending", "ended"} \cup Getting

Result == {"none", "value", "unresolved", "selfDependent"}

\* The pointers that the next step of a task follows are not nil.
NilNotFollowed ==
    \A t \in Task :
        /\ pc[t] \in Getting => awaiting[t] \in Promise
        /\ pc[t] \in {"load", "awaits", "confirm"} => checkP[t] \in Promise
        /\ pc[t] \in {"awaits", "confirm"} => checkT[t] \in Task
        /\ pc[t] = "confirm" => nextP[t] \in Promise
        /\ pc[t] = "delegating" => child[t] \in Task
        /\ pc[t] = "once" => onceP[t] \in Promise

TypeOK ==
    /\ made \subseteq Promise
    /\ responsible \in [Promise -> Task \cup {NoTask}]
    /\ result \in [Promise -> Result]
    /\ waiting \in [Promise -> SUBSET Task]
    /\ awaiting \in [Task -> Promise \cup {NoPromise}]
    /\ owned \in [Task -> SUBSET Promise]
    /\ once \in [Once -> Promise \cup {NoPromise}]
    /\ pc \in [Task -> PC]
    /\ checkP \in [Task -> Promise \cup {NoPromise}]
    /\ checkT \in [Task -> Task \cup {NoTask}]
    /\ nextP \in [Task -> Promise \cup {NoPromise}]
    /\ collecting \in [Task -> BOOLEAN]
    /\ affected \in [Task -> Seq(Promise)]
    /\ child \in [Task -> Task \cup {NoTask}]
    /\ handing \in [Task -> SUBSET Promise]
    /\ onceP \in [Task -> Promise \cup {NoPromise}]
    /\ NilNotFollowed
    /\ gets \in Nat /\ doomed \subseteq Promise

Init ==
    /\ made = {}
    /\ responsible = [p \in Promise |-> NoTask]
    /\ result = [p \in Promise |-> "none"]
    /\ waiting = [p \in Promise |-> {}]
    /\ awaiting = [t \in Task |-> NoPromise]
    /\ owned = [t \in Task |-> {}]
    /\ once = [o \in Once |-> NoPromise]
    /\ pc = [t \in Task |-> IF t = Main THEN "running" ELSE "unborn"]
    /\ checkP = [t \in Task |-> NoPromise]
    /\ checkT = [t \in Task |-> NoTask]
    /\ nextP = [t \in Task |-> NoPromise]
    /\ collecting = [t \in Task |-> FALSE]
    /\ affected = [t \in Task |-> <<>>]
    /\ child = [t \in Task |-> NoTask]
    /\ handing = [t \in Task |-> {}]
    /\ onceP = [t \in Task |-> NoPromise]
    /\ gets = 0 /\ doomed = {}

-----------------------------------------------------------------------------
At(t, l)   == pc[t] = l
Goto(t, l) == pc' = [pc EXCEPT ![t] = l]

\* NewPromise, when t calls it.
Make(t, p) ==
    /\ p \notin made
    /\ made' = made \cup {p}
    /\ responsible' = [responsible EXCEPT ![p] = t]
    /\ owned' = [owned EXCEPT ![t] = @ \cup {p}]
    /\ UNCHANGED <<result, waiting>>

NewPromise(t, p) ==
    /\ At(t, "running")
    /\ Make(t, p)
    /\ UNCHANGED <<awaiting, once, pc, searchVars, asyncVars, count>>

\* The first result stays; whoever waits is woken by it.
SetResult(p, r) ==
    /\ result' = [result EXCEPT ![p] = IF @ = "none" THEN r ELSE @]
    /\ waiting' = [waiting EXCEPT ![p] = {}]

\* Mutant: a result that the machinery has forced is replaced.
resolvePromiseAnyway(t, p, r) ==
    /\ responsible' = [responsible EXCEPT ![p] = NoTask]
    /\ owned' = [owned EXCEPT ![t] = @ \ {p}]
    /\ result' = [result EXCEPT ![p] = r]
    /\ waiting' = [waiting EXCEPT ![p] = {}]
    /\ UNCHANGED <<made, awaiting, once, searchVars, asyncVars, count>>

resolvePromise(t, p, r) ==
    /\ responsible' = [responsible EXCEPT ![p] = NoTask]
    /\ owned' = [owned EXCEPT ![t] = @ \ {p}]
    /\ SetResult(p, r)
    /\ UNCHANGED <<made, awaiting, once, searchVars, asyncVars, count>>

Resolve(t, p) ==
    /\ At(t, "running") /\ responsible[p] = t
    /\ resolvePromise(t, p, "value")
    /\ UNCHANGED pc

-----------------------------------------------------------------------------
(* AsyncTask and Once                                                      *)

AsyncTask(t, new, S) ==
    /\ At(t, "running") /\ At(new, "unborn") /\ \A u \in Task : child[u] # new
    /\ S \subseteq owned[t]
    /\ child' = [child EXCEPT ![t] = new]
    /\ handing' = [handing EXCEPT ![t] = S]
    /\ onceP' = [onceP EXCEPT ![t] = NoPromise]
    /\ Goto(t, "delegating")
    /\ UNCHANGED <<promiseVars, taskVars, once, searchVars, count>>

\* The first call of Do: the promise is known to other callers before the
\* new task is responsible for it.
DoFirst(t, o, p, new) ==
    /\ At(t, "running") /\ At(new, "unborn") /\ \A u \in Task : child[u] # new
    /\ once[o] = NoPromise
    /\ Make(t, p)
    /\ once' = [once EXCEPT ![o] = p]
    /\ child' = [child EXCEPT ![t] = new]
    /\ handing' = [handing EXCEPT ![t] = {p}]
    /\ onceP' = [onceP EXCEPT ![t] = p]
    /\ Goto(t, "delegating")
    /\ UNCHANGED <<awaiting, searchVars, count>>

\* One promise of the container changes hands.
Delegate(t, p) ==
    /\ At(t, "delegating") /\ p \in handing[t]
    /\ handing' = [handing EXCEPT ![t] = @ \ {p}]
    /\ owned' = [owned EXCEPT ![t] = @ \ {p}, ![child[t]] = @ \cup {p}]
    /\ responsible' = [responsible EXCEPT ![p] = child[t]]
    /\ UNCHANGED <<made, result, waiting, awaiting, once, pc, searchVars, child, onceP, count>>

\* The goroutine of the new task; its creator goes on.
Launch(t) ==
    /\ At(t, "delegating") /\ handing[t] = {}
    /\ pc' = [pc EXCEPT ![t] = IF onceP[t] = NoPromise THEN "running" ELSE "once",
                        ![child[t]] = "running"]
    /\ child' = [child EXCEPT ![t] = NoTask]
    /\ UNCHANGED <<promiseVars, taskVars, once, searchVars, handing, onceP, count>>

\* The function of the task has returned: what it leaves unresolved fails.
End(t) ==
    /\ At(t, "running")
    /\ Goto(t, "ending")
    /\ UNCHANGED <<promiseVars, taskVars, once, searchVars, asyncVars, count>>

Abandon(t, p) ==
    /\ At(t, "ending") /\ p \in owned[t]
    /\ resolvePromise(t, p, "unresolved")
    /\ UNCHANGED pc

\* Mutant: a task ends without failing what it has left unresolved.
EndedAnyway(t) ==
    /\ At(t, "ending")
    /\ Goto(t, "ended")
    /\ UNCHANGED <<promiseVars, taskVars, once, searchVars, asyncVars, count>>

Ended(t) ==
    /\ At(t, "ending") /\ owned[t] = {}
    /\ Goto(t, "ended")
    /\ UNCHANGED <<promiseVars, taskVars, once, searchVars, asyncVars, count>>

-----------------------------------------------------------------------------
(* The getter                                                              *)

\* The local variables of the search are gone when it is over.
EndSearch(t) ==
    /\ checkP' = [checkP EXCEPT ![t] = NoPromise]
    /\ checkT' = [checkT EXCEPT ![t] = NoTask]
    /\ collecting' = [collecting EXCEPT ![t] = FALSE]
    /\ UNCHANGED <<nextP, affected>>

\* A pass of the search starts at the promise that t wants.
StartPass(t, p, second) ==
    /\ checkP' = [checkP EXCEPT ![t] = p]
    /\ collecting' = [collecting EXCEPT ![t] = second]
    /\ affected' = [affected EXCEPT ![t] = <<>>]

\* The tasks of S wait for one another, when a is what they await: each for a
\* promise without a result that another one of them is responsible for.
CyclicIf(a, S) == \A t \in S : /\ a[t] # NoPromise
                               /\ result[a[t]] = "none"
                               /\ responsible[a[t]] \in S

\* t is one of a chain of tasks that leads back to it.
OnCycle(a) == {a[t] : t \in UNION {S \in SUBSET Task :
                  CyclicIf(a, S) /\ \A R \in SUBSET S : CyclicIf(a, R) => R \in {{}, S}}}

\* t announces what it awaits before it searches.
Get(t, p) ==
    /\ \/ At(t, "running") /\ p \in made /\ gets < MaxGet /\ gets' = gets + 1
       \/ At(t, "once") /\ p = onceP[t] /\ UNCHANGED gets
    /\ awaiting' = [awaiting EXCEPT ![t] = p]
    /\ StartPass(t, p, FALSE)
    /\ Goto(t, "load")
    /\ doomed' = IF doomed = {} THEN OnCycle(awaiting') ELSE doomed
    /\ UNCHANGED <<promiseVars, owned, once, checkT, nextP, asyncVars>>

\* A later call of Do.
Do(t, o) ==
    /\ At(t, "running") /\ once[o] # NoPromise
    /\ Get(t, once[o])

\* The search ends: the first pass has found nothing, or the second one has
\* collected what there is to fail.
EndOfPass(t) == IF collecting[t] THEN "fail" ELSE "join"

Collect(s, p) == IF \E i \in DOMAIN s : s[i] = p THEN s ELSE Append(s, p)

\* checkT = checkP.responsible.Load()
Load(t) ==
    LET r     == responsible[checkP[t]]
        found == r = t
    IN
    /\ At(t, "load")
    /\ checkT' = [checkT EXCEPT ![t] = r]
    /\ IF found /\ ~collecting[t]
       THEN StartPass(t, awaiting[t], TRUE)
       ELSE /\ affected' = [affected EXCEPT ![t] =
                              IF collecting[t] THEN Collect(@, checkP[t]) ELSE @]
            /\ UNCHANGED <<checkP, collecting>>
    /\ Goto(t, IF found THEN (IF collecting[t] THEN "fail" ELSE "load")
               ELSE IF r = NoTask THEN EndOfPass(t) ELSE "awaits")
    /\ UNCHANGED <<promiseVars, taskVars, once, nextP, asyncVars, count>>

\* Mutant: a task that awaits nothing does not end the search.
AwaitsUnchecked(t) ==
    /\ At(t, "awaits")
    /\ nextP' = [nextP EXCEPT ![t] = awaiting[checkT[t]]]
    /\ Goto(t, "confirm")
    /\ UNCHANGED <<promiseVars, taskVars, once, checkP, checkT, collecting,
                   affected, asyncVars, count>>

\* nextCheckP := checkT.awaiting.Load()
Awaits(t) ==
    LET next == awaiting[checkT[t]] IN
    /\ At(t, "awaits")
    /\ nextP' = [nextP EXCEPT ![t] = next]
    /\ Goto(t, IF next = NoPromise THEN EndOfPass(t) ELSE "confirm")
    /\ UNCHANGED <<promiseVars, taskVars, once, checkP, checkT, collecting,
                   affected, asyncVars, count>>

\* Mutant: only the task that is directly responsible is looked at.
ConfirmOneHop(t) ==
    /\ At(t, "confirm")
    /\ nextP' = [nextP EXCEPT ![t] = NoPromise]
    /\ Goto(t, EndOfPass(t))
    /\ UNCHANGED <<promiseVars, taskVars, once, checkP, checkT, collecting,
                   affected, asyncVars, count>>

\* Mutant: the search goes on although the responsibility has changed.
ConfirmSkipped(t) ==
    /\ At(t, "confirm")
    /\ nextP' = [nextP EXCEPT ![t] = NoPromise]
    /\ checkP' = [checkP EXCEPT ![t] = nextP[t]]
    /\ Goto(t, "load")
    /\ UNCHANGED <<promiseVars, taskVars, once, checkT, collecting,
                   affected, asyncVars, count>>

\* checkP.responsible.Load() != checkT ends the search.
Confirm(t) ==
    LET same == responsible[checkP[t]] = checkT[t] IN
    /\ At(t, "confirm")
    /\ nextP' = [nextP EXCEPT ![t] = NoPromise]
    /\ checkP' = [checkP EXCEPT ![t] = IF same THEN nextP[t] ELSE @]
    /\ Goto(t, IF same THEN "load" ELSE EndOfPass(t))
    /\ UNCHANGED <<promiseVars, taskVars, once, checkT, collecting,
                   affected, asyncVars, count>>

\* Mutant: the promises of the cycle fail in the opposite order.
ForceFailureBackwards(t) ==
    LET s == affected[t] IN
    /\ At(t, "fail") /\ s # <<>>
    /\ SetResult(s[Len(s)], "selfDependent")
    /\ affected' = [affected EXCEPT ![t] = SubSeq(s, 1, Len(s) - 1)]
    /\ UNCHANGED <<made, responsible, taskVars, once, pc, checkP, checkT, nextP,
                   collecting, asyncVars, count>>

\* Mutant: only the promise asked for fails.
ForceFailureOfFirst(t) ==
    /\ At(t, "fail") /\ affected[t] # <<>>
    /\ SetResult(Head(affected[t]), "selfDependent")
    /\ affected' = [affected EXCEPT ![t] = <<>>]
    /\ UNCHANGED <<made, responsible, taskVars, once, pc, checkP, checkT, nextP,
                   collecting, asyncVars, count>>

\* resolvePromiseInternalFailure of the next promise of the cycle.
ForceFailure(t) ==
    /\ At(t, "fail") /\ affected[t] # <<>>
    /\ SetResult(Head(affected[t]), "selfDependent")
    /\ affected' = [affected EXCEPT ![t] = Tail(@)]
    /\ UNCHANGED <<made, responsible, taskVars, once, pc, checkP, checkT, nextP,
                   collecting, asyncVars, count>>

FailuresForced(t) ==
    /\ At(t, "fail") /\ affected[t] = <<>>
    /\ Goto(t, "join")
    /\ UNCHANGED <<promiseVars, taskVars, once, searchVars, asyncVars, count>>

\* Mutant: the result is not looked at again under waitingMu.
JoinUnchecked(t) ==
    /\ At(t, "join")
    /\ Goto(t, "blocked")
    /\ waiting' = [waiting EXCEPT ![awaiting[t]] = @ \cup {t}]
    /\ EndSearch(t)
    /\ UNCHANGED <<made, responsible, result, taskVars, once, asyncVars, count>>

\* Under waitingMu: the result is there, or t is added to those who wait.
Join(t) ==
    LET p == awaiting[t] IN
    /\ At(t, "join")
    /\ IF result[p] # "none"
       THEN Goto(t, "return") /\ UNCHANGED waiting
       ELSE Goto(t, "blocked") /\ waiting' = [waiting EXCEPT ![p] = @ \cup {t}]
    /\ EndSearch(t)
    /\ UNCHANGED <<made, responsible, result, taskVars, once, asyncVars, count>>

\* The channel of t has been closed.
Wake(t) ==
    /\ At(t, "blocked") /\ t \notin waiting[awaiting[t]]
    /\ Goto(t, "return")
    /\ UNCHANGED <<promiseVars, taskVars, once, searchVars, asyncVars, count>>

Return(t) ==
    /\ At(t, "return")
    /\ awaiting' = [awaiting EXCEPT ![t] = NoPromise]
    /\ Goto(t, "running")
    /\ UNCHANGED <<promiseVars, owned, once, searchVars, asyncVars, count>>

-----------------------------------------------------------------------------
Search(t) == Load(t) \/ Awaits(t) \/ Confirm(t)

\* What the package does for t once it has been called.
Machinery(t) ==
    \/ \E p \in Promise : Delegate(t, p) \/ Abandon(t, p)
    \/ Launch(t) \/ Ended(t)
    \/ (At(t, "once") /\ \E p \in Promise : Get(t, p))
    \/ Search(t) \/ ForceFailure(t) \/ FailuresForced(t)
    \/ Join(t) \/ Wake(t) \/ Return(t)

\* What the function of task t may call.
Call(t) ==
    \/ \E p \in Promise : NewPromise(t, p) \/ Resolve(t, p) \/ Get(t, p)
    \/ \E new \in Task : \E S \in SUBSET owned[t] : AsyncTask(t, new, S)
    \/ \E o \in Once, p \in Promise, new \in Task : DoFirst(t, o, p, new)
    \/ \E o \in Once : Do(t, o)
    \/ End(t)

Next == \E t \in Task : Machinery(t) \/ Call(t)

Spec == Init /\ [][Next]_vars

\* Goroutines are scheduled, and the function of a task that has nothing left
\* to call returns: the calls are bounded.
FairSpec == Spec /\ \A t \in Task : WF_vars(Machinery(t) \/ End(t))

-----------------------------------------------------------------------------
(* Properties                                                              *)

Cyclic(S) == CyclicIf(awaiting, S)

\* The tasks that wait are never a cycle, whatever the searches of several
\* getters, delegations and failures did at the same time.
NoDeadlock ==
    \A S \in SUBSET {t \in Task : At(t, "blocked")} : Cyclic(S) => S = {}

\* No wake-up is lost: a task is in the list of a promise only while there is
\* no result, and the getter that returns has one (the panic "promise signaled
\* resolved but has no result").
WokenWithResult ==
    \A t \in Task :
        /\ \A p \in Promise : t \in waiting[p] => result[p] = "none"
        /\ At(t, "return") => result[awaiting[t]] # "none"

\* Every getter of a promise returns the same result, and a task that is still
\* responsible finds none, or one that was forced (the panic "promise resolved
\* more than once").
ResolvedOnce ==
    [][\A p \in Promise :
         /\ result[p] # "none" => result'[p] = result[p]
         /\ responsible[p] # NoTask => result[p] \in {"none", "selfDependent"}]_vars

\* Tasks that are reached from t by what they await.
DependsOnItself(t) ==
    \A S \in SUBSET Task :
        /\ responsible[awaiting[t]] \in S
        /\ \A u \in S : awaiting[u] # NoPromise /\ responsible[awaiting[u]] # NoTask
                            => responsible[awaiting[u]] \in S
        => t \in S

Alarm(t) == Load(t) /\ ~collecting[t] /\ collecting'[t]

\* The search reports a cycle only when there is one, as long as no promise
\* has been failed for a cycle before: a promise that was is still someone's
\* responsibility, and whoever reads it looks as if it were waiting.
FirstAlarmIsReal ==
    [][\A t \in Task :
         Alarm(t) /\ (\A p \in Promise : result[p] # "selfDependent")
            => DependsOnItself(t)]_vars

\* All promises of the first cycle fail: none of them gets another result, although
\* its tasks are woken one by one and may then resolve their own promise (the
\* comment on resolvePromiseInternalFailure).
CycleFailsAsOne == \A p \in doomed : result[p] \in {"none", "selfDependent"}

\* The code keeps this for cycles of three promises at most: in a longer one a
\* second pass that ends early leaves a promise to the task responsible for it.
SmallCycle == Cardinality(doomed) <= 3

SmallCycleFailsAsOne == SmallCycle => CycleFailsAsOne

\* And they do fail.
SmallCycleFails ==
    \A p \in Promise : p \in doomed /\ SmallCycle ~> result[p] = "selfDependent"

\* Every getter returns when the tasks do.
GetReturns == \A t \in Task : pc[t] \in Getting ~> pc[t] \notin Getting

=============================================================================
