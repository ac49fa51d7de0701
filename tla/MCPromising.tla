---------------------------- MODULE MCPromising ----------------------------
(* Instances of Promising for TLC.                                         *)
EXTENDS Promising, TLC

CONSTANTS t1, t2, t3, p1, p2, p3, o1

\* The tasks other than Main are interchangeable, and so are the promises.
Symmetry == Permutations(Task \ {Main}) \cup Permutations(Promise)

-----------------------------------------------------------------------------
(* Tasks that do no more than wait for one another in a ring.  Tasks and   *)
(* promises are the numbers 1..N, and Main is 1: it makes the promises,    *)
(* keeps the first one and starts a task for each of the others.  Every    *)
(* task gets the promise of the next one and resolves its own.             *)

N == Cardinality(Task)

RingSetup ==
    \/ \E p \in Promise : made = 1..(p - 1) /\ NewPromise(Main, p)
    \/ \E t \in Task : /\ made = Promise /\ owned[Main] = {1} \cup t..N
                       /\ AsyncTask(Main, t, {t})

RingCall(t) ==
    \/ \A u \in Task : ~At(u, "unborn") /\ Get(t, (t % N) + 1)
    \/ Resolve(t, t)
    \/ owned[t] = {} /\ End(t)

RingNext == RingSetup \/ \E t \in Task : Machinery(t) \/ RingCall(t)

RingSpec == Init /\ [][RingNext]_vars
=============================================================================
