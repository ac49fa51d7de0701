------------------------ MODULE RemoteStateProofs ------------------------
(***************************************************************************)
(* Proofs about commands that share a workspace in Consul, for any number  *)
(* of them, of chunks and of calls: what the link names can be read, what  *)
(* a command has persisted is what it wrote, and the snapshots in the      *)
(* store are those of SnapshotStore, with growing serials.                 *)
(*                                                                         *)
(* All but the types is proved where answers and locks are lost only while *)
(* a snapshot exists and is not deleted, and no command persists before it *)
(* has a state.                                                            *)
(***************************************************************************)
EXTENDS RemoteState, TLAPS

\* The circumstances the run of RemoteState.tla checks: over a connection that
\* loses answers or locks, a snapshot exists from the start and stays; a command
\* has a state before it persists.
Trusted == ~setup.early /\ (setup.lossy => setup.exists /\ ~setup.deleted)

-----------------------------------------------------------------------------
(* The inductive invariant                                                 *)

\* What the point a command has reached says about its variables.
Control ==
    /\ link.chunked => link.body # Nil
    /\ \A p \in Proc :
        /\ pc[p] \in {"check", "putChunk", "store", "clean"} => call[p] = "persist"
        /\ pc[p] \in {"get", "getChunk"} => call[p] \in {"refresh", "persist"}
        /\ call[p] = "persist" => setup.early \/ mem[p].state # Nil
        /\ call[p] = "persisted" => At(p, "idle")
        /\ pc[p] \in {"getChunk", "clean"} => hash[p] # Nil
        /\ At(p, "start") => read[p] = Nil

\* A command at work, and one that has refreshed.
Active(p) == pc[p] \notin {"start", "done"}

Known(p) == pc[p] \in {"idle", "check", "putChunk", "store", "clean"}
            \/ (pc[p] \in {"get", "getChunk"} /\ call[p] = "persist")

Writing(p) == pc[p] \in {"check", "putChunk", "store", "clean"}

\* One command at a time works, or there always is a snapshot.
Sharing ==
    /\ ~setup.early
    /\ \/ ~setup.lossy /\ \A p, q \in Proc : Active(p) /\ Active(q) => p = q
       \/ setup.lossy /\ ~setup.deleted /\ link.body # Nil

\* The index tells whether the link is still the one a command knows.
IndexAt(p) ==
    /\ modifyIndex[p] <= index
    /\ Known(p) /\ read[p] = Nil => link.body = Nil
    /\ Known(p) /\ read[p] # Nil =>
        /\ modifyIndex[p] > 0
        /\ modifyIndex[p] = index => link.body = IF At(p, "clean") THEN mem[p] ELSE read[p]
    /\ At(p, "getChunk") =>
        /\ call[p] = "refresh" /\ modifyIndex[p] > 0
        /\ modifyIndex[p] = index => link.body = hash[p]

Indexes == (link.body # Nil => index > 0) /\ \A p \in Proc : IndexAt(p)

\* Of the lineage that was read, with a serial as great, or greater when it is
\* about to be put.
Succeeds(p) ==
    /\ mem[p].lineage = read[p].lineage
    /\ IF Writing(p) THEN mem[p].serial > read[p].serial
                     ELSE mem[p].serial >= read[p].serial

\* What a command writes is what the caller has last handed to it; it succeeds
\* what was read, unless it has been imported unchecked.
ContinuesAt(p) ==
    /\ Known(p) => mem[p].state = written[p]
    /\ At(p, "get") /\ call[p] = "persist" => read[p] = Nil
    /\ At(p, "clean") => read[p] # Nil
    /\ Known(p) /\ read[p] # Nil =>
        /\ mem[p].state # Nil
        /\ unchecked[p] \/ Succeeds(p)

Continues == \A p \in Proc : ContinuesAt(p)

\* All serials have grown so far, and still will when p stores.
Rises(p) == rising /\ (link.body = Nil \/ mem[p].serial > link.body.serial)

\* The chunks of what is about to be linked are there; what is cleaned up has
\* been replaced for good.  Where a serial goes back, neither is certain.
ChunksAt(p) ==
    /\ At(p, "putChunk") /\ Stores(p) /\ Rises(p) =>
        \A k \in 1..(n[p] - 1) : <<mem[p], k>> \in chunks
    /\ At(p, "store") /\ Stores(p) /\ Rises(p) /\ mem[p].state \in Large =>
        ChunksOf(mem[p]) \subseteq chunks
    /\ pc[p] \in {"putChunk", "store"} /\ Stores(p) => hash[p] \in {Nil, link.body}
    /\ At(p, "clean") /\ link.body # Nil /\ rising => link.body.serial > hash[p].serial

Chunks == ChunksIntact /\ \A p \in Proc : ChunksAt(p)

IInv == /\ TypeOK /\ Control /\ Sharing /\ Indexes /\ Continues /\ Chunks
        /\ PersistedIsWritten

-----------------------------------------------------------------------------
(* Type correctness                                                        *)

\* What a manager puts is a snapshot, the one it has when there is a state.
LEMMA BodyIsSnapshot ==
  ASSUME TypeOK, NEW p \in Proc
  PROVE  /\ Body(p) \in Snapshot /\ Body(p) # Nil
         /\ mem[p].state # Nil => Body(p) = mem[p]
<1>1. mem[p] \in [lineage : Nat, serial : Nat, state : State \cup {Nil}]
  BY DEF TypeOK
<1>2. CASE mem[p].state = Nil
  <2>1. Body(p) = [mem[p] EXCEPT !.state = Empty] /\ Empty \in State
    BY <1>2, DataAssumption DEF Body
  <2>2. Body(p) \in Snapshot
    BY <1>1, <2>1 DEF Snapshot
  <2> QED
    BY <1>2, <2>2, DataAssumption
<1>3. CASE mem[p].state # Nil
  <2>1. Body(p) = mem[p] /\ Body(p) \in Snapshot
    BY <1>1, <1>3 DEF Body, Snapshot
  <2> QED
    BY <2>1, DataAssumption
<1> QED
  BY <1>2, <1>3

\* The initial states have the types and the control part of the invariant.
LEMMA InitType == Init => TypeOK /\ Control
<1> SUFFICES ASSUME Init
             PROVE  TypeOK /\ Control
  OBVIOUS
<1>1. link \in [body : Snapshot \cup {Nil}, chunked : BOOLEAN] /\ (link.chunked => link.body # Nil)
  <2>1. CASE setup.exists
    <3>1. PICK s \in State : link = Link([lineage |-> 1, serial |-> 1, state |-> s])
      BY <2>1 DEF Init
    <3>2. [lineage |-> 1, serial |-> 1, state |-> s] \in Snapshot
      BY <3>1 DEF Snapshot
    <3> QED
      BY <3>1, <3>2, DataAssumption DEF Link
  <2>2. CASE ~setup.exists
    <3>1. link = [body |-> Nil, chunked |-> FALSE]
      BY <2>2 DEF Init, NoLink
    <3> QED
      BY <3>1
  <2> QED
    BY <2>1, <2>2
<1>2. chunks \subseteq Snapshot \X (1..Chunk)
  BY <1>1 DEF Init, ChunksOf
<1> QED
  BY <1>1, <1>2, BoundAssumption DEF Init, TypeOK, Control, NoFile

\* What refreshState may leave behind.
LEMMA RefreshedType ==
  ASSUME TypeOK, Control, NEW p \in Proc, NEW f \in Snapshot \cup {Nil}, Refreshed(p, f),
         call[p] \in {"refresh", "persist"}
  PROVE  \E m \in [lineage : Nat, serial : Nat, state : State \cup {Nil}] :
            /\ mem' = [mem EXCEPT ![p] = m]
            /\ read' = [read EXCEPT ![p] = f]
            /\ nextLineage' \in Nat
            /\ f = Nil => m.state = mem[p].state
            /\ f # Nil /\ call[p] = "refresh" => m = f
            /\ unchecked' = [unchecked EXCEPT ![p] = FALSE]
            /\ IF call[p] = "persist"
               THEN /\ pc' = [pc EXCEPT ![p] = "check"]
                    /\ setup.early \/ m.state # Nil
                    /\ UNCHANGED <<call, written>>
               ELSE /\ pc' = [pc EXCEPT ![p] = "idle"]
                    /\ call' = [call EXCEPT ![p] = "none"]
                    /\ written' = [written EXCEPT ![p] = m.state]
<1> DEFINE m == IF f = Nil THEN [mem[p] EXCEPT !.lineage = 0, !.serial = 0] ELSE f
           new == call[p] = "persist" /\ m.lineage = 0
           result == IF new THEN [m EXCEPT !.lineage = nextLineage, !.serial = @ + 1] ELSE m
<1>1. mem[p] \in [lineage : Nat, serial : Nat, state : State \cup {Nil}]
  BY DEF TypeOK
<1>2. m \in [lineage : Nat, serial : Nat, state : State \cup {Nil}]
  BY <1>1 DEF Snapshot
<1>3. call[p] = "persist" => setup.early \/ m.state # Nil
  BY <1>1, DataAssumption DEF Snapshot, Control
<1>4. nextLineage \in Nat
  BY DEF TypeOK
<1>5. result \in [lineage : Nat, serial : Nat, state : State \cup {Nil}]
  <2> HIDE DEF m, new
  <2>1. CASE new
    <3>1. [m EXCEPT !.lineage = nextLineage]
             \in [lineage : Nat, serial : Nat, state : State \cup {Nil}]
      BY <1>2, <1>4
    <3>2. result = [[m EXCEPT !.lineage = nextLineage] EXCEPT !.serial = m.serial + 1]
      BY <1>2, <2>1
    <3>3. m.serial + 1 \in Nat
      BY <1>2
    <3> QED
      BY <3>1, <3>2, <3>3
  <2>2. CASE ~new
    BY <1>2, <2>2
  <2> QED
    BY <2>1, <2>2
<1>6. result.state = m.state
  BY <1>2
<1>7. /\ mem' = [mem EXCEPT ![p] = result]
      /\ read' = [read EXCEPT ![p] = f]
      /\ nextLineage' = nextLineage + (IF new THEN 1 ELSE 0)
      /\ unchecked' = [unchecked EXCEPT ![p] = FALSE]
      /\ IF call[p] = "persist"
         THEN Goto(p, "check") /\ UNCHANGED <<call, written>>
         ELSE /\ Return(p, "none", "idle")
              /\ written' = [written EXCEPT ![p] = mem'[p].state]
  BY DEF Refreshed
<1>8. mem'[p] = result
  BY <1>7 DEF TypeOK
<1>10. f = Nil => m.state = mem[p].state
  BY <1>1
<1>11. f # Nil /\ call[p] = "refresh" => result = f
  OBVIOUS
<1> HIDE DEF m, new, result
<1>9. nextLineage' \in Nat
  BY <1>4, <1>7
<1> QED
  BY <1>3, <1>5, <1>6, <1>7, <1>8, <1>9, <1>10, <1>11 DEF Goto, Return

\* Every step keeps the types and what the point of a command says.
LEMMA TypeStep == TypeOK /\ Control /\ [Next]_vars => TypeOK' /\ Control'
<1> SUFFICES ASSUME TypeOK, Control, [Next]_vars
             PROVE  TypeOK' /\ Control'
  OBVIOUS
<1> USE DataAssumption, BoundAssumption DEF TypeOK, Control, At, consul
<1>1. CASE DeleteWorkspace
  BY <1>1 DEF DeleteWorkspace, NoLink
<1>2. ASSUME NEW p \in Proc, Begin(p)
      PROVE  TypeOK' /\ Control'
  BY <1>2 DEF Begin, Return, Goto
<1>3. ASSUME NEW p \in Proc, Exit(p)
      PROVE  TypeOK' /\ Control'
  <2>1. NoFile \in [lineage : Nat, serial : Nat, state : State \cup {Nil}]
    BY DEF NoFile
  <2> QED
    BY <1>3, <2>1 DEF Exit, Return, Goto
<1>4. ASSUME NEW p \in Proc, RefreshState(p)
      PROVE  TypeOK' /\ Control'
  BY <1>4 DEF RefreshState, Call, Return, Goto
<1>5. ASSUME NEW p \in Proc, GetLink(p)
      PROVE  TypeOK' /\ Control'
  <2>1. modifyIndex' \in [Proc -> Nat]
    BY <1>5 DEF GetLink
  <2>2. CASE link.chunked
    <3>1. /\ hash' = [hash EXCEPT ![p] = link.body]
          /\ n' = [n EXCEPT ![p] = 1]
          /\ pc' = [pc EXCEPT ![p] = "getChunk"]
          /\ UNCHANGED <<setup, link, index, chunks, mem, read, call, nextLineage,
                         calls, written, unchecked, rising>>
      BY <1>5, <2>2 DEF GetLink, Goto
    <3>2. TypeOK'
      BY <2>1, <3>1
    <3>3. Control'
      BY <1>5, <2>2, <3>1 DEF GetLink
    <3> QED
      BY <3>2, <3>3
  <2>3. CASE ~link.chunked
    <3>1. Refreshed(p, link.body) /\ call[p] \in {"refresh", "persist"}
      BY <1>5, <2>3 DEF GetLink
    <3>2. PICK m \in [lineage : Nat, serial : Nat, state : State \cup {Nil}] :
            /\ mem' = [mem EXCEPT ![p] = m]
            /\ read' = [read EXCEPT ![p] = link.body]
            /\ nextLineage' \in Nat
            /\ unchecked' = [unchecked EXCEPT ![p] = FALSE]
            /\ IF call[p] = "persist"
               THEN /\ pc' = [pc EXCEPT ![p] = "check"]
                    /\ setup.early \/ m.state # Nil
                    /\ UNCHANGED <<call, written>>
               ELSE /\ pc' = [pc EXCEPT ![p] = "idle"]
                    /\ call' = [call EXCEPT ![p] = "none"]
                    /\ written' = [written EXCEPT ![p] = m.state]
      BY <3>1, RefreshedType
    <3>3. UNCHANGED <<setup, link, index, chunks, calls, hash, n, rising>>
      BY <1>5, <2>3 DEF GetLink
    <3>4. TypeOK'
      <4>1. /\ mem' \in [Proc -> [lineage : Nat, serial : Nat, state : State \cup {Nil}]]
            /\ read' \in [Proc -> Snapshot \cup {Nil}]
        BY <3>2
      <4>2. /\ pc' \in [Proc -> {"start", "get", "getChunk", "idle", "check", "putChunk",
                                 "store", "clean", "failed", "done"}]
            /\ call' \in [Proc -> {"none", "refresh", "persist", "persisted", "error"}]
            /\ written' \in [Proc -> State \cup {Nil}]
        <5>1. CASE call[p] = "persist"
          BY <3>2, <5>1
        <5>2. CASE call[p] # "persist"
          <6>1. m.state \in State \cup {Nil}
            OBVIOUS
          <6>2. /\ pc' = [pc EXCEPT ![p] = "idle"]
                /\ call' = [call EXCEPT ![p] = "none"]
                /\ written' = [written EXCEPT ![p] = m.state]
            BY <3>2, <5>2
          <6> QED
            BY <6>1, <6>2
        <5> QED
          BY <5>1, <5>2
      <4> QED
        BY <2>1, <3>2, <3>3, <4>1, <4>2
    <3>5. Control'
      BY <1>5, <3>2, <3>3 DEF GetLink
    <3> QED
      BY <3>4, <3>5
  <2> QED
    BY <2>2, <2>3
<1>6. ASSUME NEW p \in Proc, GetChunk(p)
      PROVE  TypeOK' /\ Control'
  <2>1. CASE Refreshed(p, hash[p]) /\ UNCHANGED n
    <3>1. hash[p] \in Snapshot /\ call[p] \in {"refresh", "persist"}
      BY <1>6 DEF GetChunk
    <3>2. PICK m \in [lineage : Nat, serial : Nat, state : State \cup {Nil}] :
            /\ mem' = [mem EXCEPT ![p] = m]
            /\ read' = [read EXCEPT ![p] = hash[p]]
            /\ nextLineage' \in Nat
            /\ unchecked' = [unchecked EXCEPT ![p] = FALSE]
            /\ IF call[p] = "persist"
               THEN /\ pc' = [pc EXCEPT ![p] = "check"]
                    /\ setup.early \/ m.state # Nil
                    /\ UNCHANGED <<call, written>>
               ELSE /\ pc' = [pc EXCEPT ![p] = "idle"]
                    /\ call' = [call EXCEPT ![p] = "none"]
                    /\ written' = [written EXCEPT ![p] = m.state]
      BY <2>1, <3>1, RefreshedType
    <3>3. UNCHANGED <<setup, link, index, chunks, calls, hash, n, modifyIndex, rising>>
      BY <1>6, <2>1 DEF GetChunk
    <3>4. TypeOK'
      <4>1. /\ mem' \in [Proc -> [lineage : Nat, serial : Nat, state : State \cup {Nil}]]
            /\ read' \in [Proc -> Snapshot \cup {Nil}]
        BY <3>1, <3>2
      <4>2. /\ pc' \in [Proc -> {"start", "get", "getChunk", "idle", "check", "putChunk",
                                 "store", "clean", "failed", "done"}]
            /\ call' \in [Proc -> {"none", "refresh", "persist", "persisted", "error"}]
            /\ written' \in [Proc -> State \cup {Nil}]
        <5>1. CASE call[p] = "persist"
          BY <3>2, <5>1
        <5>2. CASE call[p] # "persist"
          <6>1. m.state \in State \cup {Nil}
            OBVIOUS
          <6>2. /\ pc' = [pc EXCEPT ![p] = "idle"]
                /\ call' = [call EXCEPT ![p] = "none"]
                /\ written' = [written EXCEPT ![p] = m.state]
            BY <3>2, <5>2
          <6> QED
            BY <6>1, <6>2
        <5> QED
          BY <5>1, <5>2
      <4> QED
        BY <3>2, <3>3, <4>1, <4>2
    <3>5. Control'
      BY <1>6, <3>2, <3>3 DEF GetChunk
    <3> QED
      BY <3>4, <3>5
  <2>2. CASE Fails(p) /\ UNCHANGED <<n, mem, read, nextLineage, written, unchecked>>
    BY <1>6, <2>2 DEF GetChunk, Fails, Return, Goto
  <2>3. CASE n[p] < Chunk /\ n' = [n EXCEPT ![p] = @ + 1]
             /\ UNCHANGED <<pc, call, mem, read, nextLineage, written, unchecked>>
    BY <1>6, <2>3 DEF GetChunk
  <2> QED
    BY <1>6, <2>1, <2>2, <2>3 DEF GetChunk
<1>7. ASSUME NEW p \in Proc, RequestFails(p)
      PROVE  TypeOK' /\ Control'
  BY <1>7 DEF RequestFails, Fails, Return, Goto
<1>8. ASSUME NEW p \in Proc, Persists(p)
      PROVE  TypeOK' /\ Control'
  <2>1. mem' \in [Proc -> [lineage : Nat, serial : Nat, state : State \cup {Nil}]]
        /\ mem'[p].state = mem[p].state /\ \A q \in Proc \ {p} : mem'[q] = mem[q]
    <3>1. mem[p] \in [lineage : Nat, serial : Nat, state : State \cup {Nil}]
      OBVIOUS
    <3>2. \/ mem' = mem
          \/ mem' = [mem EXCEPT ![p].serial = @ + 1]
      BY <1>8 DEF Persists, PersistState
    <3> QED
      BY <3>1, <3>2
  <2>2. /\ \/ pc' = [pc EXCEPT ![p] = "get"] /\ call' = [call EXCEPT ![p] = "persist"]
           \/ pc' = [pc EXCEPT ![p] = "idle"] /\ call' = [call EXCEPT ![p] = "persisted"]
           \/ pc' = [pc EXCEPT ![p] = "check"] /\ call' = [call EXCEPT ![p] = "persist"]
        /\ setup.early \/ mem[p].state # Nil
        /\ calls' \in [Proc -> Nat]
        /\ UNCHANGED <<setup, link, index, chunks, read, modifyIndex, hash, n, nextLineage,
                       written, unchecked, rising>>
    BY <1>8 DEF Persists, PersistState, Call, Return, Goto
  <2>3. pc' \in [Proc -> {"start", "get", "getChunk", "idle", "check", "putChunk", "store",
                         "clean", "failed", "done"}]
        /\ call' \in [Proc -> {"none", "refresh", "persist", "persisted", "error"}]
    BY <2>2
  <2>4. TypeOK'
    BY <2>1, <2>2, <2>3
  <2>5. Control'
    BY <2>1, <2>2
  <2> QED
    BY <2>4, <2>5
<1>9. ASSUME NEW p \in Proc, ChunkedMode(p)
      PROVE  TypeOK' /\ Control'
  BY <1>9 DEF ChunkedMode, Goto
<1>10. ASSUME NEW p \in Proc, PutChunk(p)
       PROVE  TypeOK' /\ Control'
  <2>1. Body(p) \in Snapshot
    BY BodyIsSnapshot
  <2>2. chunks' \subseteq Snapshot \X (1..Chunk)
    BY <1>10, <2>1 DEF PutChunk
  <2>3. /\ At(p, "putChunk")
        /\ n' = n \/ (n[p] < Chunk /\ n' = [n EXCEPT ![p] = n[p] + 1])
        /\ pc' = pc \/ pc' = [pc EXCEPT ![p] = "store"]
        /\ UNCHANGED <<setup, link, index, mem, read, modifyIndex, hash, call, nextLineage,
                       calls, written, unchecked, rising>>
    BY <1>10 DEF PutChunk, Goto
  <2>4. n' \in [Proc -> 1..Chunk]
    BY <2>3
  <2>5. TypeOK'
    BY <2>2, <2>3, <2>4
  <2>6. Control'
    BY <2>3
  <2> QED
    BY <2>5, <2>6
<1>11. ASSUME NEW p \in Proc, Store(p) \/ StoreAnswerLost(p)
       PROVE  TypeOK' /\ Control'
  <2>1. /\ Body(p) \in Snapshot /\ Body(p) # Nil
        /\ mem[p].state # Nil => Body(p) = mem[p]
    BY BodyIsSnapshot
  <2>2. /\ link' \in [body : Snapshot \cup {Nil}, chunked : BOOLEAN] /\ link'.body # Nil
        /\ index' \in Nat /\ rising' \in BOOLEAN
    <3>1. (Body(p).state \in Large) \in BOOLEAN
      OBVIOUS
    <3>2. /\ link' = [body |-> Body(p), chunked |-> Body(p).state \in Large]
          /\ index' = index + 1
          /\ rising' = (rising /\ (link.body = Nil \/ Body(p).serial > link.body.serial))
      BY <1>11 DEF Store, StoreAnswerLost, Replace, Link
    <3>3. rising' \in BOOLEAN
      BY <3>2, Zenon
    <3> QED
      BY <2>1, <3>1, <3>2, <3>3
  <2>3. CASE StoreAnswerLost(p)
    BY <2>2, <2>3 DEF StoreAnswerLost, Fails, Return, Goto
  <2>4. CASE Store(p)
    <3>1. CASE hash[p] = Nil
      <4>1. /\ modifyIndex' = [modifyIndex EXCEPT ![p] = index']
            /\ read' = [read EXCEPT ![p] = IF mem[p].state = Nil THEN Nil ELSE mem[p]]
            /\ unchecked' = [unchecked EXCEPT ![p] = FALSE]
            /\ pc' = [pc EXCEPT ![p] = "idle"]
            /\ call' = [call EXCEPT ![p] = "persisted"]
            /\ UNCHANGED <<setup, chunks, mem, hash, n, nextLineage, calls, written>>
        BY <2>4, <3>1 DEF Store, Persisted, Return, Goto
      <4>2. TypeOK'
        BY <2>1, <2>2, <4>1
      <4>3. Control'
        BY <2>1, <2>2, <4>1
      <4> QED
        BY <4>2, <4>3
    <3>2. CASE hash[p] # Nil
      BY <2>2, <2>4, <3>2 DEF Store, Goto
    <3> QED
      BY <3>1, <3>2
  <2> QED
    BY <1>11, <2>3, <2>4
<1>12. ASSUME NEW p \in Proc, CASFails(p)
       PROVE  TypeOK' /\ Control'
  BY <1>12 DEF CASFails, Fails, Return, Goto
<1>13. ASSUME NEW p \in Proc, CleanupOldChunks(p)
       PROVE  TypeOK' /\ Control'
  <2>1. mem[p].state # Nil => mem[p] \in Snapshot
    BY BodyIsSnapshot
  <2>2. chunks' \subseteq chunks
    BY <1>13 DEF CleanupOldChunks
  <2> QED
    BY <1>13, <2>1, <2>2 DEF CleanupOldChunks, Persisted, Return, Goto
<1>14. ASSUME NEW p \in Proc, NEW s \in State, WriteState(p, s)
       PROVE  TypeOK' /\ Control'
  <2>1. mem' \in [Proc -> [lineage : Nat, serial : Nat, state : State \cup {Nil}]]
        /\ mem'[p].state = s /\ \A q \in Proc \ {p} : mem'[q] = mem[q]
    <3>1. mem[p] \in [lineage : Nat, serial : Nat, state : State \cup {Nil}]
      OBVIOUS
    <3>2. [mem[p] EXCEPT !.state = s] \in [lineage : Nat, serial : Nat, state : State \cup {Nil}]
      BY <3>1
    <3>3. mem' = [mem EXCEPT ![p] = [mem[p] EXCEPT !.state = s]]
      BY <1>14 DEF WriteState
    <3>4. [mem[p] EXCEPT !.state = s].state = s
      BY <3>1
    <3> HIDE DEF TypeOK, Control
    <3>5. mem \in [Proc -> [lineage : Nat, serial : Nat, state : State \cup {Nil}]]
      BY DEF TypeOK
    <3> QED
      BY <3>2, <3>3, <3>4, <3>5
  <2> QED
    BY <1>14, <2>1 DEF WriteState, Call, Return, Goto
<1>15. ASSUME NEW p \in Proc, NEW f \in Files, NEW force \in BOOLEAN,
             WriteStateForMigration(p, f, force)
       PROVE  TypeOK' /\ Control'
  <2>1. f \in [lineage : Nat, serial : Nat, state : State] /\ f.state # Nil
    BY DEF Snapshot
  <2>2. mem' \in [Proc -> [lineage : Nat, serial : Nat, state : State \cup {Nil}]]
        /\ mem'[p] = f /\ \A q \in Proc \ {p} : mem'[q] = mem[q]
    BY <1>15, <2>1 DEF WriteStateForMigration
  <2>3. unchecked' \in [Proc -> BOOLEAN]
    <3>1. (unchecked[p] \/ force \/ ~Comparable(f, mem[p])) \in BOOLEAN
      BY Zenon
    <3> QED
      BY <1>15, <3>1 DEF WriteStateForMigration
  <2> QED
    BY <1>15, <2>1, <2>2, <2>3 DEF WriteStateForMigration, Call, Return, Goto
<1>16. CASE UNCHANGED vars
  BY <1>16 DEF vars
<1> HIDE DEF TypeOK, Control
<1> QED
  BY <1>1, <1>2, <1>3, <1>4, <1>5, <1>6, <1>7, <1>8, <1>9, <1>10, <1>11, <1>12,
     <1>13, <1>14, <1>15, <1>16 DEF Next

-----------------------------------------------------------------------------
(* What the steps with a case distinction do to the command p              *)

\* A refresh has read the snapshot f, or found none.
Learns(p, f) ==
    /\ f \in Snapshot /\ f # Nil /\ call[p] = "refresh"
    /\ mem' = [mem EXCEPT ![p] = f]
    /\ read' = [read EXCEPT ![p] = f]
    /\ written' = [written EXCEPT ![p] = f.state]
    /\ unchecked' = [unchecked EXCEPT ![p] = FALSE]
    /\ pc' = [pc EXCEPT ![p] = "idle"]
    /\ call' = [call EXCEPT ![p] = "none"]

LearnsNothing(p) ==
    /\ link.body = Nil
    /\ read' = [read EXCEPT ![p] = Nil]
    /\ unchecked' = [unchecked EXCEPT ![p] = FALSE]
    /\ \E m \in [lineage : Nat, serial : Nat, state : State \cup {Nil}] :
        /\ mem' = [mem EXCEPT ![p] = m]
        /\ \/ /\ call[p] = "persist" /\ m.state = mem[p].state /\ m.state # Nil
              /\ pc' = [pc EXCEPT ![p] = "check"]
              /\ UNCHANGED <<call, written>>
           \/ /\ call[p] = "refresh"
              /\ pc' = [pc EXCEPT ![p] = "idle"]
              /\ call' = [call EXCEPT ![p] = "none"]
              /\ written' = [written EXCEPT ![p] = m.state]

GoesForChunks(p) ==
    /\ link.body # Nil /\ call[p] = "refresh"
    /\ modifyIndex' = [modifyIndex EXCEPT ![p] = index]
    /\ hash' = [hash EXCEPT ![p] = link.body]
    /\ pc' = [pc EXCEPT ![p] = "getChunk"]
    /\ UNCHANGED <<mem, read, call, written, unchecked>>

LinkRead(p) ==
    /\ At(p, "get")
    /\ UNCHANGED <<setup, link, index, chunks, rising>>
    /\ \/ GoesForChunks(p)
       \/ /\ Learns(p, link.body)
          /\ modifyIndex' = [modifyIndex EXCEPT ![p] = index] /\ UNCHANGED <<hash, n>>
       \/ LearnsNothing(p) /\ UNCHANGED <<modifyIndex, hash, n>>

ChunkRead(p) ==
    /\ At(p, "getChunk") /\ call[p] = "refresh"
    /\ UNCHANGED <<setup, link, index, chunks, modifyIndex, hash, rising>>
    /\ \/ Learns(p, hash[p]) /\ UNCHANGED n
       \/ Return(p, "error", "failed") /\ UNCHANGED <<mem, read, written, unchecked, n>>
       \/ UNCHANGED <<pc, call, mem, read, written, unchecked>>

PersistBegins(p) ==
    /\ At(p, "idle") /\ mem[p].state # Nil
    /\ UNCHANGED <<setup, link, index, chunks, read, modifyIndex, hash, n, written,
                   unchecked, rising>>
    /\ \/ read[p] = Nil /\ Return(p, "persist", "get") /\ UNCHANGED mem
       \/ read[p] # Nil /\ mem[p] = read[p] /\ Return(p, "persisted", "idle") /\ UNCHANGED mem
       \/ /\ read[p] # Nil /\ Return(p, "persist", "check")
          /\ mem' = [mem EXCEPT ![p] = [mem[p] EXCEPT !.serial = mem[p].serial + 1]]

\* Consul accepts what p puts, which replaces the snapshot p has read.
Replaces(p) ==
    /\ read[p] = link.body
    /\ mem[p] \in Snapshot /\ mem[p] # Nil /\ mem[p].state # Nil /\ Body(p) = mem[p]
    /\ hash[p] \in {Nil, link.body}
    /\ link.body # Nil /\ ~unchecked[p] => /\ mem[p].lineage = link.body.lineage
                                           /\ mem[p].serial > link.body.serial

\* Reading the link: its chunks come next, or a refresh has its snapshot.
LEMMA GetLinkEffect ==
  ASSUME IInv, NEW p \in Proc, GetLink(p)
  PROVE  LinkRead(p)
<1> USE DEF IInv, At, LinkRead
<1>1. call[p] \in {"refresh", "persist"} /\ (call[p] = "persist" => link.body = Nil)
  BY DEF GetLink, Control, Indexes, IndexAt, Continues, ContinuesAt, Known
<1>2. link.chunked => link.body # Nil
  BY DEF Control
<1>3. CASE link.chunked
  <2>1. link # NoLink
    BY <1>3 DEF NoLink
  <2> QED
    BY <1>1, <1>2, <1>3, <2>1 DEF GetLink, GoesForChunks, Goto, consul
<1>4. CASE ~link.chunked
  <2>1. link.body \in Snapshot \cup {Nil} /\ Refreshed(p, link.body)
    BY <1>4 DEF GetLink, TypeOK
  <2>2. PICK m \in [lineage : Nat, serial : Nat, state : State \cup {Nil}] :
            /\ mem' = [mem EXCEPT ![p] = m]
            /\ read' = [read EXCEPT ![p] = link.body]
            /\ link.body = Nil => m.state = mem[p].state
            /\ link.body # Nil /\ call[p] = "refresh" => m = link.body
            /\ unchecked' = [unchecked EXCEPT ![p] = FALSE]
            /\ IF call[p] = "persist"
               THEN /\ pc' = [pc EXCEPT ![p] = "check"]
                    /\ setup.early \/ m.state # Nil
                    /\ UNCHANGED <<call, written>>
               ELSE /\ pc' = [pc EXCEPT ![p] = "idle"]
                    /\ call' = [call EXCEPT ![p] = "none"]
                    /\ written' = [written EXCEPT ![p] = m.state]
    BY <1>1, <2>1, RefreshedType
  <2>3. link = NoLink <=> link.body = Nil
    <3>1. link \in [body : Snapshot \cup {Nil}, chunked : BOOLEAN]
      BY DEF TypeOK
    <3> QED
      BY <1>4, <3>1 DEF NoLink
  <2>4. /\ modifyIndex' = [modifyIndex EXCEPT ![p] = IF link.body = Nil THEN @ ELSE index]
        /\ UNCHANGED <<setup, link, index, chunks, hash, n, rising>>
    BY <1>4, <2>3 DEF GetLink, consul
  <2>5. CASE link.body = Nil
    <3>1. modifyIndex' = modifyIndex
      BY <2>4, <2>5 DEF TypeOK
    <3> QED
      BY <1>1, <2>2, <2>4, <2>5, <3>1 DEF GetLink, LearnsNothing, Sharing
  <2>6. CASE link.body # Nil
    BY <1>1, <2>1, <2>2, <2>4, <2>6 DEF GetLink, Learns
  <2> QED
    BY <2>5, <2>6
<1> QED
  BY <1>3, <1>4

\* Reading a chunk: only the last one lets the refresh finish.
LEMMA GetChunkEffect ==
  ASSUME IInv, NEW p \in Proc, GetChunk(p)
  PROVE  ChunkRead(p)
<1> USE DEF IInv, At, ChunkRead
<1>1. At(p, "getChunk") /\ call[p] = "refresh" /\ hash[p] \in Snapshot /\ hash[p] # Nil
  BY DEF GetChunk, Indexes, IndexAt, Control, TypeOK
<1>2. UNCHANGED <<setup, link, index, chunks, modifyIndex, hash, rising>>
  BY DEF GetChunk, consul
<1>3. CASE Refreshed(p, hash[p]) /\ UNCHANGED n
  <2>2. PICK m \in [lineage : Nat, serial : Nat, state : State \cup {Nil}] :
            /\ mem' = [mem EXCEPT ![p] = m]
            /\ read' = [read EXCEPT ![p] = hash[p]]
            /\ hash[p] # Nil /\ call[p] = "refresh" => m = hash[p]
            /\ unchecked' = [unchecked EXCEPT ![p] = FALSE]
            /\ IF call[p] = "persist"
               THEN /\ pc' = [pc EXCEPT ![p] = "check"]
                    /\ setup.early \/ m.state # Nil
                    /\ UNCHANGED <<call, written>>
               ELSE /\ pc' = [pc EXCEPT ![p] = "idle"]
                    /\ call' = [call EXCEPT ![p] = "none"]
                    /\ written' = [written EXCEPT ![p] = m.state]
    BY <1>1, <1>3, RefreshedType
  <2> QED
    BY <1>1, <1>2, <1>3, <2>2 DEF Learns
<1>4. CASE ~(Refreshed(p, hash[p]) /\ UNCHANGED n)
  BY <1>1, <1>2, <1>4 DEF GetChunk, Fails, Return, Goto
<1> QED
  BY <1>3, <1>4

\* A command that persists has a state to put.
LEMMA BodyIsMem ==
  ASSUME IInv, NEW p \in Proc, call[p] = "persist"
  PROVE  mem[p].state # Nil /\ mem[p] \in Snapshot /\ mem[p] # Nil /\ Body(p) = mem[p]
<1>1. mem[p].state # Nil
  BY DEF IInv, Control, Sharing
<1> QED
  BY <1>1, BodyIsSnapshot DEF IInv

\* Who stores has read what it replaces.
LEMMA StoreKnows ==
  ASSUME IInv, NEW p \in Proc, At(p, "store"), Stores(p)
  PROVE  Replaces(p)
<1>1. mem[p] \in Snapshot /\ mem[p] # Nil /\ mem[p].state # Nil /\ Body(p) = mem[p]
  BY BodyIsMem DEF IInv, Control, At
<1>2. read[p] = link.body
  BY DEF IInv, TypeOK, Indexes, IndexAt, Known, At, Stores
<1> QED
  BY <1>1, <1>2 DEF IInv, Continues, ContinuesAt, Succeeds, Chunks, ChunksAt, Known,
     Writing, At, Replaces

\* PersistState without a refresh: there is nothing to do, or the serial grows.
LEMMA PersistStateEffect ==
  ASSUME IInv, NEW p \in Proc, Persists(p)
  PROVE  PersistBegins(p)
  BY DEF Persists, PersistState, Call, consul, PersistBegins, IInv, Sharing

\* After a refresh a command continues what it has just read.
LEMMA LearnsContinues ==
  ASSUME IInv, NEW p \in Proc, NEW f \in Snapshot, Learns(p, f)
  PROVE  Continues'
<1> USE DataAssumption DEF IInv, TypeOK, Known, Writing, At
<1>1. f.state # Nil /\ f.serial \in Nat
  BY DEF Snapshot
<1>2. ContinuesAt(p)'
  BY <1>1 DEF Learns, ContinuesAt, Succeeds
<1>3. ASSUME NEW q \in Proc, q # p
      PROVE  ContinuesAt(q)'
  BY <1>3 DEF Learns, Continues, ContinuesAt, Succeeds
<1> QED
  BY <1>2, <1>3 DEF Continues

\* One command at a time stays at work, or the snapshot stays.
LEMMA SharingStep == IInv /\ TypeOK' /\ [Next]_vars => Sharing'
<1> SUFFICES ASSUME IInv, TypeOK', [Next]_vars
             PROVE  Sharing'
  OBVIOUS
<1> USE DataAssumption DEF TypeOK, Known, Active, Writing, At, consul
<1>1. CASE DeleteWorkspace
  BY <1>1 DEF IInv, Sharing, DeleteWorkspace, NoLink
<1>2. ASSUME NEW p \in Proc, Begin(p)
      PROVE  Sharing'
  BY <1>2 DEF IInv, Sharing, Begin, Return, Goto
<1>3. ASSUME NEW p \in Proc, Exit(p)
      PROVE  Sharing'
  BY <1>3 DEF IInv, Sharing, Exit, Return, Goto, NoFile
<1>4. ASSUME NEW p \in Proc, RefreshState(p)
      PROVE  Sharing'
  BY <1>4 DEF IInv, Sharing, RefreshState, Call, Return, Goto
<1>5. ASSUME NEW p \in Proc, GetLink(p)
      PROVE  Sharing'
  <2>1. LinkRead(p)
    BY <1>5, GetLinkEffect
  <2>2. /\ pc[p] \notin {"start", "done"} /\ pc'[p] \notin {"start", "done"}
        /\ \A q \in Proc \ {p} : pc'[q] = pc[q]
        /\ UNCHANGED <<setup, link>>
    BY <2>1 DEF IInv, LinkRead, GoesForChunks, Learns, LearnsNothing
  <2> QED
    BY <2>2 DEF IInv, Sharing
<1>6. ASSUME NEW p \in Proc, GetChunk(p)
      PROVE  Sharing'
  <2>1. ChunkRead(p)
    BY <1>6, GetChunkEffect
  <2> QED
    BY <1>6, <2>1 DEF IInv, Sharing, ChunkRead, Learns, Return, Goto
<1>7. ASSUME NEW p \in Proc, RequestFails(p)
      PROVE  Sharing'
  BY <1>7 DEF IInv, Sharing, RequestFails, Fails, Return, Goto
<1>8. ASSUME NEW p \in Proc, Persists(p)
      PROVE  Sharing'
  <2>1. PersistBegins(p)
    BY <1>8, PersistStateEffect
  <2> QED
    BY <1>8, <2>1 DEF IInv, Sharing, PersistBegins, Return, Goto
<1>9. ASSUME NEW p \in Proc, ChunkedMode(p)
      PROVE  Sharing'
  BY <1>9 DEF IInv, Sharing, ChunkedMode, Goto
<1>10. ASSUME NEW p \in Proc, PutChunk(p)
      PROVE  Sharing'
  BY <1>10 DEF IInv, Sharing, PutChunk, Goto
<1>11. ASSUME NEW p \in Proc, Store(p)
      PROVE  Sharing'
  <2>1. Replaces(p)
    BY <1>11, StoreKnows DEF Store
  <2>2. /\ pc[p] \notin {"start", "done"} /\ pc'[p] \notin {"start", "done"}
        /\ \A q \in Proc \ {p} : pc'[q] = pc[q]
        /\ link'.body # Nil /\ UNCHANGED setup
    BY <1>11, <2>1 DEF IInv, Replaces, Store, Replace, Link, Persisted, Return, Goto
  <2> QED
    BY <2>2 DEF IInv, Sharing
<1>12. ASSUME NEW p \in Proc, StoreAnswerLost(p)
      PROVE  Sharing'
  <2>1. Replaces(p)
    BY <1>12, StoreKnows DEF StoreAnswerLost
  <2> QED
    BY <1>12, <2>1 DEF IInv, Sharing, Replaces, StoreAnswerLost, Replace, Link, Fails,
       Return, Goto
<1>13. ASSUME NEW p \in Proc, CASFails(p)
      PROVE  Sharing'
  BY <1>13 DEF IInv, Sharing, CASFails, Fails, Return, Goto
<1>14. ASSUME NEW p \in Proc, CleanupOldChunks(p)
      PROVE  Sharing'
  <2>1. mem[p] # Nil /\ mem[p].state # Nil /\ Body(p) = mem[p]
    BY <1>14, BodyIsMem DEF IInv, Control, CleanupOldChunks
  <2> QED
    BY <1>14, <2>1 DEF IInv, Sharing, CleanupOldChunks, Persisted, Return, Goto
<1>15. ASSUME NEW p \in Proc, NEW s \in State, WriteState(p, s)
      PROVE  Sharing'
  BY <1>15 DEF IInv, Sharing, WriteState, Call, Return, Goto
<1>16. ASSUME NEW p \in Proc, NEW f \in Files, NEW force \in BOOLEAN,
             WriteStateForMigration(p, f, force)
      PROVE  Sharing'
  BY <1>16 DEF IInv, Sharing, WriteStateForMigration, CheckValidImport, Call,
     Return, Goto
<1>17. CASE UNCHANGED vars
  BY <1>17 DEF IInv, Sharing, vars
<1> QED
  BY <1>1, <1>2, <1>3, <1>4, <1>5, <1>6, <1>7, <1>8, <1>9, <1>10, <1>11, <1>12,
     <1>13, <1>14, <1>15, <1>16, <1>17 DEF Next

\* Only a step that changes the link changes the index, and then it makes the
\* index every other command has read obsolete.
LEMMA IndexesStep == IInv /\ TypeOK' /\ [Next]_vars => Indexes'
<1> SUFFICES ASSUME IInv, TypeOK', [Next]_vars
             PROVE  Indexes'
  OBVIOUS
<1> USE DataAssumption DEF TypeOK, Known, Active, Writing, At, consul
<1>1. CASE DeleteWorkspace
  BY <1>1 DEF IInv, Control, Sharing, Indexes, IndexAt, Continues, ContinuesAt,
     DeleteWorkspace, NoLink
<1>2. ASSUME NEW p \in Proc, Begin(p)
      PROVE  Indexes'
  <2>2. IndexAt(p)'
    BY <1>2 DEF IInv, Control, Sharing, Indexes, IndexAt, Continues, ContinuesAt,
       Begin, Return, Goto
  <2>3. ASSUME NEW q \in Proc, q # p
        PROVE  IndexAt(q)'
    BY <1>2, <2>3 DEF IInv, Control, Sharing, Indexes, IndexAt, Continues,
       ContinuesAt, Begin, Return, Goto
  <2>4. link'.body # Nil => index' > 0
    BY <1>2 DEF IInv, Control, Sharing, Indexes, IndexAt, Continues, ContinuesAt,
       Begin, Return, Goto
  <2> QED
    BY <2>2, <2>3, <2>4 DEF Indexes
<1>3. ASSUME NEW p \in Proc, Exit(p)
      PROVE  Indexes'
  <2>2. IndexAt(p)'
    BY <1>3 DEF IInv, Control, Sharing, Indexes, IndexAt, Continues, ContinuesAt,
       Exit, Return, Goto, NoFile
  <2>3. ASSUME NEW q \in Proc, q # p
        PROVE  IndexAt(q)'
    BY <1>3, <2>3 DEF IInv, Control, Sharing, Indexes, IndexAt, Continues,
       ContinuesAt, Exit, Return, Goto, NoFile
  <2>4. link'.body # Nil => index' > 0
    BY <1>3 DEF IInv, Control, Sharing, Indexes, IndexAt, Continues, ContinuesAt,
       Exit, Return, Goto, NoFile
  <2> QED
    BY <2>2, <2>3, <2>4 DEF Indexes
<1>4. ASSUME NEW p \in Proc, RefreshState(p)
      PROVE  Indexes'
  <2>2. IndexAt(p)'
    BY <1>4 DEF IInv, Control, Sharing, Indexes, IndexAt, Continues, ContinuesAt,
       RefreshState, Call, Return, Goto
  <2>3. ASSUME NEW q \in Proc, q # p
        PROVE  IndexAt(q)'
    BY <1>4, <2>3 DEF IInv, Control, Sharing, Indexes, IndexAt, Continues,
       ContinuesAt, RefreshState, Call, Return, Goto
  <2>4. link'.body # Nil => index' > 0
    BY <1>4 DEF IInv, Control, Sharing, Indexes, IndexAt, Continues, ContinuesAt,
       RefreshState, Call, Return, Goto
  <2> QED
    BY <2>2, <2>3, <2>4 DEF Indexes
<1>5. ASSUME NEW p \in Proc, GetLink(p)
      PROVE  Indexes'
  <2>1. LinkRead(p)
    BY <1>5, GetLinkEffect
  <2>2. IndexAt(p)'
    BY <1>5, <2>1 DEF IInv, Control, Sharing, Indexes, IndexAt, Continues,
       ContinuesAt, LinkRead, GoesForChunks, Learns, LearnsNothing
  <2>3. ASSUME NEW q \in Proc, q # p
        PROVE  IndexAt(q)'
    BY <1>5, <2>1, <2>3 DEF IInv, Control, Sharing, Indexes, IndexAt, Continues,
       ContinuesAt, LinkRead, GoesForChunks, Learns, LearnsNothing
  <2>4. link'.body # Nil => index' > 0
    BY <1>5, <2>1 DEF IInv, Control, Sharing, Indexes, IndexAt, Continues,
       ContinuesAt, LinkRead, GoesForChunks, Learns, LearnsNothing
  <2> QED
    BY <2>2, <2>3, <2>4 DEF Indexes
<1>6. ASSUME NEW p \in Proc, GetChunk(p)
      PROVE  Indexes'
  <2>1. ChunkRead(p)
    BY <1>6, GetChunkEffect
  <2>2. IndexAt(p)'
    BY <1>6, <2>1 DEF IInv, Control, Sharing, Indexes, IndexAt, Continues,
       ContinuesAt, ChunkRead, Learns, Return, Goto
  <2>3. ASSUME NEW q \in Proc, q # p
        PROVE  IndexAt(q)'
    BY <1>6, <2>1, <2>3 DEF IInv, Control, Sharing, Indexes, IndexAt, Continues,
       ContinuesAt, ChunkRead, Learns, Return, Goto
  <2>4. link'.body # Nil => index' > 0
    BY <1>6, <2>1 DEF IInv, Control, Sharing, Indexes, IndexAt, Continues,
       ContinuesAt, ChunkRead, Learns, Return, Goto
  <2> QED
    BY <2>2, <2>3, <2>4 DEF Indexes
<1>7. ASSUME NEW p \in Proc, RequestFails(p)
      PROVE  Indexes'
  <2>2. IndexAt(p)'
    BY <1>7 DEF IInv, Control, Sharing, Indexes, IndexAt, Continues, ContinuesAt,
       RequestFails, Fails, Return, Goto
  <2>3. ASSUME NEW q \in Proc, q # p
        PROVE  IndexAt(q)'
    BY <1>7, <2>3 DEF IInv, Control, Sharing, Indexes, IndexAt, Continues,
       ContinuesAt, RequestFails, Fails, Return, Goto
  <2>4. link'.body # Nil => index' > 0
    BY <1>7 DEF IInv, Control, Sharing, Indexes, IndexAt, Continues, ContinuesAt,
       RequestFails, Fails, Return, Goto
  <2> QED
    BY <2>2, <2>3, <2>4 DEF Indexes
<1>8. ASSUME NEW p \in Proc, Persists(p)
      PROVE  Indexes'
  <2>1. PersistBegins(p)
    BY <1>8, PersistStateEffect
  <2>2. IndexAt(p)'
    BY <1>8, <2>1 DEF IInv, Control, Sharing, Indexes, IndexAt, Continues,
       ContinuesAt, PersistBegins, Return, Goto
  <2>3. ASSUME NEW q \in Proc, q # p
        PROVE  IndexAt(q)'
    BY <1>8, <2>1, <2>3 DEF IInv, Control, Sharing, Indexes, IndexAt, Continues,
       ContinuesAt, PersistBegins, Return, Goto
  <2>4. link'.body # Nil => index' > 0
    BY <1>8, <2>1 DEF IInv, Control, Sharing, Indexes, IndexAt, Continues,
       ContinuesAt, PersistBegins, Return, Goto
  <2> QED
    BY <2>2, <2>3, <2>4 DEF Indexes
<1>9. ASSUME NEW p \in Proc, ChunkedMode(p)
      PROVE  Indexes'
  <2>2. IndexAt(p)'
    BY <1>9 DEF IInv, Control, Sharing, Indexes, IndexAt, Continues, ContinuesAt,
       ChunkedMode, Goto
  <2>3. ASSUME NEW q \in Proc, q # p
        PROVE  IndexAt(q)'
    BY <1>9, <2>3 DEF IInv, Control, Sharing, Indexes, IndexAt, Continues,
       ContinuesAt, ChunkedMode, Goto
  <2>4. link'.body # Nil => index' > 0
    BY <1>9 DEF IInv, Control, Sharing, Indexes, IndexAt, Continues, ContinuesAt,
       ChunkedMode, Goto
  <2> QED
    BY <2>2, <2>3, <2>4 DEF Indexes
<1>10. ASSUME NEW p \in Proc, PutChunk(p)
      PROVE  Indexes'
  <2>2. IndexAt(p)'
    BY <1>10 DEF IInv, Control, Sharing, Indexes, IndexAt, Continues, ContinuesAt,
       PutChunk, Goto
  <2>3. ASSUME NEW q \in Proc, q # p
        PROVE  IndexAt(q)'
    BY <1>10, <2>3 DEF IInv, Control, Sharing, Indexes, IndexAt, Continues,
       ContinuesAt, PutChunk, Goto
  <2>4. link'.body # Nil => index' > 0
    BY <1>10 DEF IInv, Control, Sharing, Indexes, IndexAt, Continues, ContinuesAt,
       PutChunk, Goto
  <2> QED
    BY <2>2, <2>3, <2>4 DEF Indexes
<1>11. ASSUME NEW p \in Proc, Store(p)
      PROVE  Indexes'
  <2>1. Replaces(p)
    BY <1>11, StoreKnows DEF Store
  <2>2. IndexAt(p)'
    BY <1>11, <2>1 DEF IInv, Control, Indexes, IndexAt, Replaces, Store, Replace, Link,
       Persisted,
         Return, Goto
  <2>3. ASSUME NEW q \in Proc, q # p
        PROVE  IndexAt(q)'
    <3>1. /\ pc'[q] = pc[q] /\ call'[q] = call[q] /\ read'[q] = read[q]
          /\ modifyIndex'[q] = modifyIndex[q] /\ hash'[q] = hash[q] /\ mem'[q] = mem[q]
          /\ index' = index + 1
      BY <1>11, <2>3 DEF IInv, Store, Replace, Persisted, Return, Goto
    <3>2. modifyIndex'[q] < index'
      BY <3>1 DEF IInv, Indexes, IndexAt
    <3>3. Active(q) => link.body # Nil
      BY <1>11, <2>3 DEF IInv, Sharing, Store
    <3>4. Known(q) => read[q] # Nil
      BY <3>3 DEF IInv, Indexes, IndexAt
    <3> QED
      BY <3>1, <3>2, <3>4 DEF IInv, Indexes, IndexAt
  <2>4. index' > 0
    BY <1>11 DEF IInv, Store, Replace
  <2> QED
    BY <2>2, <2>3, <2>4 DEF Indexes
<1>12. ASSUME NEW p \in Proc, StoreAnswerLost(p)
      PROVE  Indexes'
  <2>1. Replaces(p)
    BY <1>12, StoreKnows DEF StoreAnswerLost
  <2>2. IndexAt(p)'
    BY <1>12, <2>1 DEF IInv, Control, Sharing, Indexes, IndexAt, Continues,
       ContinuesAt, Replaces, StoreAnswerLost, Replace, Link, Fails, Return, Goto
  <2>3. ASSUME NEW q \in Proc, q # p
        PROVE  IndexAt(q)'
    BY <1>12, <2>1, <2>3 DEF IInv, Control, Sharing, Indexes, IndexAt, Continues,
       ContinuesAt, Replaces, StoreAnswerLost, Replace, Link, Fails, Return, Goto
  <2>4. link'.body # Nil => index' > 0
    BY <1>12, <2>1 DEF IInv, Control, Sharing, Indexes, IndexAt, Continues,
       ContinuesAt, Replaces, StoreAnswerLost, Replace, Link, Fails, Return, Goto
  <2> QED
    BY <2>2, <2>3, <2>4 DEF Indexes
<1>13. ASSUME NEW p \in Proc, CASFails(p)
      PROVE  Indexes'
  <2>2. IndexAt(p)'
    BY <1>13 DEF IInv, Control, Sharing, Indexes, IndexAt, Continues, ContinuesAt,
       CASFails, Fails, Return, Goto
  <2>3. ASSUME NEW q \in Proc, q # p
        PROVE  IndexAt(q)'
    BY <1>13, <2>3 DEF IInv, Control, Sharing, Indexes, IndexAt, Continues,
       ContinuesAt, CASFails, Fails, Return, Goto
  <2>4. link'.body # Nil => index' > 0
    BY <1>13 DEF IInv, Control, Sharing, Indexes, IndexAt, Continues, ContinuesAt,
       CASFails, Fails, Return, Goto
  <2> QED
    BY <2>2, <2>3, <2>4 DEF Indexes
<1>14. ASSUME NEW p \in Proc, CleanupOldChunks(p)
      PROVE  Indexes'
  <2>1. mem[p] # Nil /\ mem[p].state # Nil /\ Body(p) = mem[p]
    BY <1>14, BodyIsMem DEF IInv, Control, CleanupOldChunks
  <2>2. IndexAt(p)'
    BY <1>14, <2>1 DEF IInv, Control, Sharing, Indexes, IndexAt, Continues,
       ContinuesAt, CleanupOldChunks, Persisted, Return, Goto
  <2>3. ASSUME NEW q \in Proc, q # p
        PROVE  IndexAt(q)'
    BY <1>14, <2>1, <2>3 DEF IInv, Control, Sharing, Indexes, IndexAt, Continues,
       ContinuesAt, CleanupOldChunks, Persisted, Return, Goto
  <2>4. link'.body # Nil => index' > 0
    BY <1>14, <2>1 DEF IInv, Control, Sharing, Indexes, IndexAt, Continues,
       ContinuesAt, CleanupOldChunks, Persisted, Return, Goto
  <2> QED
    BY <2>2, <2>3, <2>4 DEF Indexes
<1>15. ASSUME NEW p \in Proc, NEW s \in State, WriteState(p, s)
      PROVE  Indexes'
  <2>2. IndexAt(p)'
    BY <1>15 DEF IInv, Control, Sharing, Indexes, IndexAt, Continues, ContinuesAt,
       WriteState, Call, Return, Goto
  <2>3. ASSUME NEW q \in Proc, q # p
        PROVE  IndexAt(q)'
    BY <1>15, <2>3 DEF IInv, Control, Sharing, Indexes, IndexAt, Continues,
       ContinuesAt, WriteState, Call, Return, Goto
  <2>4. link'.body # Nil => index' > 0
    BY <1>15 DEF IInv, Control, Sharing, Indexes, IndexAt, Continues, ContinuesAt,
       WriteState, Call, Return, Goto
  <2> QED
    BY <2>2, <2>3, <2>4 DEF Indexes
<1>16. ASSUME NEW p \in Proc, NEW f \in Files, NEW force \in BOOLEAN,
             WriteStateForMigration(p, f, force)
      PROVE  Indexes'
  <2>2. IndexAt(p)'
    BY <1>16 DEF IInv, Control, Sharing, Indexes, IndexAt, Continues, ContinuesAt,
       WriteStateForMigration, CheckValidImport, Call, Return, Goto
  <2>3. ASSUME NEW q \in Proc, q # p
        PROVE  IndexAt(q)'
    BY <1>16, <2>3 DEF IInv, Control, Sharing, Indexes, IndexAt, Continues,
       ContinuesAt, WriteStateForMigration, CheckValidImport, Call, Return, Goto
  <2>4. link'.body # Nil => index' > 0
    BY <1>16 DEF IInv, Control, Sharing, Indexes, IndexAt, Continues, ContinuesAt,
       WriteStateForMigration, CheckValidImport, Call, Return, Goto
  <2> QED
    BY <2>2, <2>3, <2>4 DEF Indexes
<1>17. CASE UNCHANGED vars
  BY <1>17 DEF IInv, Control, Sharing, Indexes, IndexAt, Continues, ContinuesAt,
     vars
<1> QED
  BY <1>1, <1>2, <1>3, <1>4, <1>5, <1>6, <1>7, <1>8, <1>9, <1>10, <1>11, <1>12,
     <1>13, <1>14, <1>15, <1>16, <1>17 DEF Next

\* A write continues the lineage; a serial only grows from what was read.
LEMMA ContinuesStep == IInv /\ TypeOK' /\ [Next]_vars => Continues'
<1> SUFFICES ASSUME IInv, TypeOK', [Next]_vars
             PROVE  Continues'
  OBVIOUS
<1>a. TypeOK
  BY DEF IInv
<1>b. \A q \in Proc : /\ mem[q].serial \in Nat /\ mem'[q].serial \in Nat
                      /\ read[q] # Nil => read[q].serial \in Nat
  BY <1>a DEF TypeOK, Snapshot
<1> USE <1>b
<1> USE DataAssumption DEF TypeOK, Known, Active, Writing, At, consul
<1>1. CASE DeleteWorkspace
  BY <1>1 DEF IInv, Control, Sharing, Indexes, IndexAt, Continues, ContinuesAt, Succeeds,
     DeleteWorkspace, NoLink
<1>2. ASSUME NEW p \in Proc, Begin(p)
      PROVE  Continues'
  <2>2. ContinuesAt(p)'
    BY <1>2 DEF IInv, Control, Sharing, Indexes, IndexAt, Continues, ContinuesAt, Succeeds,
       Begin, Return, Goto
  <2>3. ASSUME NEW q \in Proc, q # p
        PROVE  ContinuesAt(q)'
    BY <1>2, <2>3 DEF IInv, Control, Sharing, Indexes, IndexAt, Continues,
       ContinuesAt, Succeeds, Begin, Return, Goto
  <2> QED
    BY <2>2, <2>3 DEF Continues
<1>3. ASSUME NEW p \in Proc, Exit(p)
      PROVE  Continues'
  <2>2. ContinuesAt(p)'
    BY <1>3 DEF IInv, Control, Sharing, Indexes, IndexAt, Continues, ContinuesAt, Succeeds,
       Exit, Return, Goto, NoFile
  <2>3. ASSUME NEW q \in Proc, q # p
        PROVE  ContinuesAt(q)'
    BY <1>3, <2>3 DEF IInv, Control, Sharing, Indexes, IndexAt, Continues,
       ContinuesAt, Succeeds, Exit, Return, Goto, NoFile
  <2> QED
    BY <2>2, <2>3 DEF Continues
<1>4. ASSUME NEW p \in Proc, RefreshState(p)
      PROVE  Continues'
  <2>2. ContinuesAt(p)'
    BY <1>4 DEF IInv, Control, Sharing, Indexes, IndexAt, Continues, ContinuesAt, Succeeds,
       RefreshState, Call, Return, Goto
  <2>3. ASSUME NEW q \in Proc, q # p
        PROVE  ContinuesAt(q)'
    BY <1>4, <2>3 DEF IInv, Control, Sharing, Indexes, IndexAt, Continues,
       ContinuesAt, Succeeds, RefreshState, Call, Return, Goto
  <2> QED
    BY <2>2, <2>3 DEF Continues
<1>5. ASSUME NEW p \in Proc, GetLink(p)
      PROVE  Continues'
  <2>1. LinkRead(p)
    BY <1>5, GetLinkEffect
  <2>2. CASE GoesForChunks(p)
    BY <2>1, <2>2 DEF IInv, Continues, ContinuesAt, Succeeds, LinkRead, GoesForChunks
  <2>3. CASE Learns(p, link.body)
    <3>1. link.body \in Snapshot
      BY <2>3 DEF Learns
    <3> QED
      BY <2>3, <3>1, LearnsContinues
  <2>4. CASE LearnsNothing(p)
    <3>1. ContinuesAt(p)'
      BY <2>1, <2>4 DEF IInv, Continues, ContinuesAt, Succeeds, LinkRead, LearnsNothing
    <3>2. ASSUME NEW q \in Proc, q # p
          PROVE  ContinuesAt(q)'
      BY <2>1, <2>4, <3>2 DEF IInv, Continues, ContinuesAt, Succeeds, LinkRead, LearnsNothing
    <3> QED
      BY <3>1, <3>2 DEF Continues
  <2> QED
    BY <2>1, <2>2, <2>3, <2>4 DEF LinkRead
<1>6. ASSUME NEW p \in Proc, GetChunk(p)
      PROVE  Continues'
  <2>1. ChunkRead(p)
    BY <1>6, GetChunkEffect
  <2>2. CASE Learns(p, hash[p])
    <3>1. hash[p] \in Snapshot
      BY <2>2 DEF Learns
    <3> QED
      BY <2>2, <3>1, LearnsContinues
  <2>3. CASE ~Learns(p, hash[p])
    BY <2>1, <2>3 DEF IInv, Continues, ContinuesAt, Succeeds, ChunkRead, Return, Goto
  <2> QED
    BY <2>2, <2>3
<1>7. ASSUME NEW p \in Proc, RequestFails(p)
      PROVE  Continues'
  <2>2. ContinuesAt(p)'
    BY <1>7 DEF IInv, Control, Sharing, Indexes, IndexAt, Continues, ContinuesAt, Succeeds,
       RequestFails, Fails, Return, Goto
  <2>3. ASSUME NEW q \in Proc, q # p
        PROVE  ContinuesAt(q)'
    BY <1>7, <2>3 DEF IInv, Control, Sharing, Indexes, IndexAt, Continues,
       ContinuesAt, Succeeds, RequestFails, Fails, Return, Goto
  <2> QED
    BY <2>2, <2>3 DEF Continues
<1>8. ASSUME NEW p \in Proc, Persists(p)
      PROVE  Continues'
  <2>1. PersistBegins(p)
    BY <1>8, PersistStateEffect
  <2>2. ContinuesAt(p)'
    BY <1>8, <2>1 DEF IInv, Control, Sharing, Indexes, IndexAt, Continues,
       ContinuesAt, Succeeds, PersistBegins, Return, Goto
  <2>3. ASSUME NEW q \in Proc, q # p
        PROVE  ContinuesAt(q)'
    BY <1>8, <2>1, <2>3 DEF IInv, Control, Sharing, Indexes, IndexAt, Continues,
       ContinuesAt, Succeeds, PersistBegins, Return, Goto
  <2> QED
    BY <2>2, <2>3 DEF Continues
<1>9. ASSUME NEW p \in Proc, ChunkedMode(p)
      PROVE  Continues'
  <2>2. ContinuesAt(p)'
    BY <1>9 DEF IInv, Control, Sharing, Indexes, IndexAt, Continues, ContinuesAt, Succeeds,
       ChunkedMode, Goto
  <2>3. ASSUME NEW q \in Proc, q # p
        PROVE  ContinuesAt(q)'
    BY <1>9, <2>3 DEF IInv, Control, Sharing, Indexes, IndexAt, Continues,
       ContinuesAt, Succeeds, ChunkedMode, Goto
  <2> QED
    BY <2>2, <2>3 DEF Continues
<1>10. ASSUME NEW p \in Proc, PutChunk(p)
      PROVE  Continues'
  <2>2. ContinuesAt(p)'
    BY <1>10 DEF IInv, Control, Sharing, Indexes, IndexAt, Continues, ContinuesAt, Succeeds,
       PutChunk, Goto
  <2>3. ASSUME NEW q \in Proc, q # p
        PROVE  ContinuesAt(q)'
    BY <1>10, <2>3 DEF IInv, Control, Sharing, Indexes, IndexAt, Continues,
       ContinuesAt, Succeeds, PutChunk, Goto
  <2> QED
    BY <2>2, <2>3 DEF Continues
<1>11. ASSUME NEW p \in Proc, Store(p)
      PROVE  Continues'
  <2>1. Replaces(p)
    BY <1>11, StoreKnows DEF Store
  <2>2. ContinuesAt(p)'
    BY <1>11, <2>1 DEF IInv, Control, Sharing, Indexes, IndexAt, Continues,
       ContinuesAt, Succeeds, Replaces, Store, Replace, Link, Persisted, Return, Goto
  <2>3. ASSUME NEW q \in Proc, q # p
        PROVE  ContinuesAt(q)'
    BY <1>11, <2>1, <2>3 DEF IInv, Control, Sharing, Indexes, IndexAt, Continues,
       ContinuesAt, Succeeds, Replaces, Store, Replace, Link, Persisted, Return, Goto
  <2> QED
    BY <2>2, <2>3 DEF Continues
<1>12. ASSUME NEW p \in Proc, StoreAnswerLost(p)
      PROVE  Continues'
  <2>1. Replaces(p)
    BY <1>12, StoreKnows DEF StoreAnswerLost
  <2>2. ContinuesAt(p)'
    BY <1>12, <2>1 DEF IInv, Control, Sharing, Indexes, IndexAt, Continues,
       ContinuesAt, Succeeds, Replaces, StoreAnswerLost, Replace, Link, Fails, Return, Goto
  <2>3. ASSUME NEW q \in Proc, q # p
        PROVE  ContinuesAt(q)'
    BY <1>12, <2>1, <2>3 DEF IInv, Control, Sharing, Indexes, IndexAt, Continues,
       ContinuesAt, Succeeds, Replaces, StoreAnswerLost, Replace, Link, Fails, Return, Goto
  <2> QED
    BY <2>2, <2>3 DEF Continues
<1>13. ASSUME NEW p \in Proc, CASFails(p)
      PROVE  Continues'
  <2>2. ContinuesAt(p)'
    BY <1>13 DEF IInv, Control, Sharing, Indexes, IndexAt, Continues, ContinuesAt, Succeeds,
       CASFails, Fails, Return, Goto
  <2>3. ASSUME NEW q \in Proc, q # p
        PROVE  ContinuesAt(q)'
    BY <1>13, <2>3 DEF IInv, Control, Sharing, Indexes, IndexAt, Continues,
       ContinuesAt, Succeeds, CASFails, Fails, Return, Goto
  <2> QED
    BY <2>2, <2>3 DEF Continues
<1>14. ASSUME NEW p \in Proc, CleanupOldChunks(p)
      PROVE  Continues'
  <2>1. mem[p] # Nil /\ mem[p].state # Nil /\ Body(p) = mem[p]
    BY <1>14, BodyIsMem DEF IInv, Control, CleanupOldChunks
  <2>2. ContinuesAt(p)'
    BY <1>14, <2>1 DEF IInv, Control, Sharing, Indexes, IndexAt, Continues,
       ContinuesAt, Succeeds, CleanupOldChunks, Persisted, Return, Goto
  <2>3. ASSUME NEW q \in Proc, q # p
        PROVE  ContinuesAt(q)'
    BY <1>14, <2>1, <2>3 DEF IInv, Control, Sharing, Indexes, IndexAt, Continues,
       ContinuesAt, Succeeds, CleanupOldChunks, Persisted, Return, Goto
  <2> QED
    BY <2>2, <2>3 DEF Continues
<1>15. ASSUME NEW p \in Proc, NEW s \in State, WriteState(p, s)
      PROVE  Continues'
  <2>1. /\ mem' = [mem EXCEPT ![p].state = s] /\ written' = [written EXCEPT ![p] = s]
        /\ pc' = [pc EXCEPT ![p] = "idle"] /\ call' = [call EXCEPT ![p] = "none"]
        /\ At(p, "idle") /\ UNCHANGED <<read, unchecked>> /\ s # Nil
    BY <1>15 DEF WriteState, Call, Return, Goto
  <2>2. ContinuesAt(p)'
    <3>1. /\ mem'[p] = [mem[p] EXCEPT !.state = s] /\ written'[p] = s
          /\ pc'[p] = "idle" /\ call'[p] = "none" /\ read'[p] = read[p] /\ pc[p] = "idle"
          /\ unchecked'[p] = unchecked[p]
      BY <2>1
    <3>2. /\ mem'[p].state = s /\ mem'[p].lineage = mem[p].lineage
          /\ mem'[p].serial = mem[p].serial
      BY <3>1
    <3>3. ContinuesAt(p)
      BY DEF IInv, Continues
    <3> QED
      BY <2>1, <3>1, <3>2, <3>3 DEF ContinuesAt, Succeeds
  <2>3. ASSUME NEW q \in Proc, q # p
        PROVE  ContinuesAt(q)'
    BY <1>15, <2>3 DEF IInv, Control, Sharing, Indexes, IndexAt, Continues,
       ContinuesAt, Succeeds, WriteState, Call, Return, Goto
  <2> QED
    BY <2>2, <2>3 DEF Continues
<1>16. ASSUME NEW p \in Proc, NEW f \in Files, NEW force \in BOOLEAN,
             WriteStateForMigration(p, f, force)
      PROVE  Continues'
  <2>1. /\ mem' = [mem EXCEPT ![p] = f] /\ written' = [written EXCEPT ![p] = f.state]
        /\ pc' = [pc EXCEPT ![p] = "idle"] /\ call' = [call EXCEPT ![p] = "none"]
        /\ At(p, "idle") /\ UNCHANGED read
        /\ \A q \in Proc \ {p} : unchecked'[q] = unchecked[q]
    BY <1>16 DEF WriteStateForMigration, Call, Return, Goto
  <2>2. f.serial \in Nat /\ f.state # Nil
    BY DEF Snapshot
  <2>3. ~unchecked'[p] => /\ ~unchecked[p]
                          /\ f.lineage = mem[p].lineage /\ f.serial >= mem[p].serial
    <3>1. /\ force \/ CheckValidImport(f, mem[p])
          /\ unchecked'[p] = (unchecked[p] \/ force \/ ~Comparable(f, mem[p]))
      BY <1>16 DEF WriteStateForMigration
    <3>2. mem[p].serial \in Nat
      BY <1>a
    <3>3. ~unchecked'[p] => ~unchecked[p] /\ ~force /\ Comparable(f, mem[p])
      BY <3>1, Zenon
    <3>4. ASSUME ~unchecked'[p]
          PROVE  f.lineage = mem[p].lineage /\ f.serial >= mem[p].serial
      BY <2>2, <3>1, <3>2, <3>3, <3>4 DEF CheckValidImport
    <3> QED
      BY <3>3, <3>4
  <2>4. ContinuesAt(p)'
    <3>1. /\ mem'[p] = f /\ written'[p] = f.state /\ pc'[p] = "idle" /\ call'[p] = "none"
          /\ read'[p] = read[p] /\ pc[p] = "idle"
      BY <2>1
    <3>2. ContinuesAt(p)
      BY DEF IInv, Continues
    <3>3. ASSUME read[p] # Nil, ~unchecked'[p]
          PROVE  f.lineage = read[p].lineage /\ f.serial >= read[p].serial
      <4>1. mem[p].lineage = read[p].lineage /\ mem[p].serial >= read[p].serial
        BY <2>3, <3>1, <3>2, <3>3 DEF ContinuesAt, Succeeds
      <4>2. p \in Proc /\ read[p] # Nil
        BY <3>3
      <4>3. mem[p].serial \in Nat /\ read[p].serial \in Nat
        BY <1>b, <4>2
      <4> QED
        BY <2>2, <2>3, <3>3, <4>1, <4>3
    <3> QED
      BY <2>2, <3>1, <3>2, <3>3 DEF ContinuesAt, Succeeds
  <2>5. ASSUME NEW q \in Proc, q # p
        PROVE  ContinuesAt(q)'
    BY <2>1, <2>5 DEF IInv, Continues, ContinuesAt, Succeeds
  <2> QED
    BY <2>4, <2>5 DEF Continues
<1>17. CASE UNCHANGED vars
  BY <1>17 DEF IInv, Control, Sharing, Indexes, IndexAt, Continues, ContinuesAt, Succeeds,
     vars
<1> QED
  BY <1>1, <1>2, <1>3, <1>4, <1>5, <1>6, <1>7, <1>8, <1>9, <1>10, <1>11, <1>12,
     <1>13, <1>14, <1>15, <1>16, <1>17 DEF Next

\* Success is reported only for what was put, or for what is stored already.
LEMMA PersistedStep == IInv /\ TypeOK' /\ [Next]_vars => PersistedIsWritten'
<1> SUFFICES ASSUME IInv, TypeOK', [Next]_vars
             PROVE  PersistedIsWritten'
  OBVIOUS
<1> USE DataAssumption DEF TypeOK, Known, Active, Writing, At, consul
<1>1. CASE DeleteWorkspace
  BY <1>1 DEF IInv, Control, Sharing, PersistedIsWritten, Continues, ContinuesAt,
     DeleteWorkspace, NoLink
<1>2. ASSUME NEW p \in Proc, Begin(p)
      PROVE  PersistedIsWritten'
  BY <1>2 DEF IInv, Control, Sharing, PersistedIsWritten, Continues, ContinuesAt,
     Begin, Return, Goto
<1>3. ASSUME NEW p \in Proc, Exit(p)
      PROVE  PersistedIsWritten'
  BY <1>3 DEF IInv, Control, Sharing, PersistedIsWritten, Continues, ContinuesAt,
     Exit, Return, Goto, NoFile
<1>4. ASSUME NEW p \in Proc, RefreshState(p)
      PROVE  PersistedIsWritten'
  BY <1>4 DEF IInv, Control, Sharing, PersistedIsWritten, Continues, ContinuesAt,
     RefreshState, Call, Return, Goto
<1>5. ASSUME NEW p \in Proc, GetLink(p)
      PROVE  PersistedIsWritten'
  <2>1. LinkRead(p)
    BY <1>5, GetLinkEffect
  <2> QED
    BY <1>5, <2>1 DEF IInv, Control, Sharing, PersistedIsWritten, Continues,
       ContinuesAt, LinkRead, GoesForChunks, Learns, LearnsNothing
<1>6. ASSUME NEW p \in Proc, GetChunk(p)
      PROVE  PersistedIsWritten'
  <2>1. ChunkRead(p)
    BY <1>6, GetChunkEffect
  <2> QED
    BY <1>6, <2>1 DEF IInv, Control, Sharing, PersistedIsWritten, Continues,
       ContinuesAt, ChunkRead, Learns, Return, Goto
<1>7. ASSUME NEW p \in Proc, RequestFails(p)
      PROVE  PersistedIsWritten'
  BY <1>7 DEF IInv, Control, Sharing, PersistedIsWritten, Continues, ContinuesAt,
     RequestFails, Fails, Return, Goto
<1>8. ASSUME NEW p \in Proc, Persists(p)
      PROVE  PersistedIsWritten'
  <2>1. PersistBegins(p)
    BY <1>8, PersistStateEffect
  <2> QED
    BY <1>8, <2>1 DEF IInv, Control, Sharing, PersistedIsWritten, Continues,
       ContinuesAt, PersistBegins, Return, Goto
<1>9. ASSUME NEW p \in Proc, ChunkedMode(p)
      PROVE  PersistedIsWritten'
  BY <1>9 DEF IInv, Control, Sharing, PersistedIsWritten, Continues, ContinuesAt,
     ChunkedMode, Goto
<1>10. ASSUME NEW p \in Proc, PutChunk(p)
      PROVE  PersistedIsWritten'
  BY <1>10 DEF IInv, Control, Sharing, PersistedIsWritten, Continues, ContinuesAt,
     PutChunk, Goto
<1>11. ASSUME NEW p \in Proc, Store(p)
      PROVE  PersistedIsWritten'
  <2>1. Replaces(p)
    BY <1>11, StoreKnows DEF Store
  <2> QED
    BY <1>11, <2>1 DEF IInv, Control, Sharing, PersistedIsWritten, Continues,
       ContinuesAt, Replaces, Store, Replace, Link, Persisted, Return, Goto
<1>12. ASSUME NEW p \in Proc, StoreAnswerLost(p)
      PROVE  PersistedIsWritten'
  <2>1. Replaces(p)
    BY <1>12, StoreKnows DEF StoreAnswerLost
  <2> QED
    BY <1>12, <2>1 DEF IInv, Control, Sharing, PersistedIsWritten, Continues,
       ContinuesAt, Replaces, StoreAnswerLost, Replace, Link, Fails, Return, Goto
<1>13. ASSUME NEW p \in Proc, CASFails(p)
      PROVE  PersistedIsWritten'
  BY <1>13 DEF IInv, Control, Sharing, PersistedIsWritten, Continues, ContinuesAt,
     CASFails, Fails, Return, Goto
<1>14. ASSUME NEW p \in Proc, CleanupOldChunks(p)
      PROVE  PersistedIsWritten'
  <2>1. mem[p] # Nil /\ mem[p].state # Nil /\ Body(p) = mem[p]
    BY <1>14, BodyIsMem DEF IInv, Control, CleanupOldChunks
  <2> QED
    BY <1>14, <2>1 DEF IInv, Control, Sharing, PersistedIsWritten, Continues,
       ContinuesAt, CleanupOldChunks, Persisted, Return, Goto
<1>15. ASSUME NEW p \in Proc, NEW s \in State, WriteState(p, s)
      PROVE  PersistedIsWritten'
  BY <1>15 DEF IInv, Control, Sharing, PersistedIsWritten, Continues, ContinuesAt,
     WriteState, Call, Return, Goto
<1>16. ASSUME NEW p \in Proc, NEW f \in Files, NEW force \in BOOLEAN,
             WriteStateForMigration(p, f, force)
      PROVE  PersistedIsWritten'
  BY <1>16 DEF IInv, Control, Sharing, PersistedIsWritten, Continues, ContinuesAt,
     WriteStateForMigration, CheckValidImport, Call, Return, Goto
<1>17. CASE UNCHANGED vars
  BY <1>17 DEF IInv, Control, Sharing, PersistedIsWritten, Continues, ContinuesAt,
     vars
<1> QED
  BY <1>1, <1>2, <1>3, <1>4, <1>5, <1>6, <1>7, <1>8, <1>9, <1>10, <1>11, <1>12,
     <1>13, <1>14, <1>15, <1>16, <1>17 DEF Next

-----------------------------------------------------------------------------
(* Chunks                                                                  *)

Same(q) ==
    /\ pc'[q] = pc[q] /\ mem'[q] = mem[q] /\ modifyIndex'[q] = modifyIndex[q]
    /\ hash'[q] = hash[q] /\ n'[q] = n[q]

\* The chunks of two snapshots have no key in common.
LEMMA Apart ==
  ASSUME NEW a, NEW b, a # b
  PROVE  ChunksOf(a) \cap ChunksOf(b) = {}
  BY DEF ChunksOf

\* More chunks under the same link do no harm to a command that does not move.
LEMMA ChunksFrame ==
  ASSUME IInv, UNCHANGED <<link, index, rising>>, chunks \subseteq chunks', NEW q \in Proc, Same(q)
  PROVE  ChunksAt(q)'
<1>1. Stores(q)' = Stores(q) /\ Rises(q)' = Rises(q)
  BY DEF Stores, Rises, Same
<1> QED
  BY <1>1 DEF IInv, Chunks, ChunksAt, Same, At

\* The step of a command that is neither about to put chunks nor to link them.
LEMMA ChunksAway ==
  ASSUME IInv, UNCHANGED <<link, index, chunks, rising>>, NEW p \in Proc,
         pc'[p] \notin {"putChunk", "store", "clean"},
         \A q \in Proc \ {p} : Same(q)
  PROVE  Chunks'
<1>1. ChunksIntact'
  BY DEF IInv, Chunks, ChunksIntact, ChunksOf
<1>2. ChunksAt(p)'
  BY DEF ChunksAt, At
<1>3. \A q \in Proc \ {p} : ChunksAt(q)'
  BY ChunksFrame
<1> QED
  BY <1>1, <1>2, <1>3 DEF Chunks

\* A step that changes the index: only a command that has found no snapshot
\* can still store.
LEMMA OtherIndex ==
  ASSUME IInv, NEW q \in Proc, index' = index + 1, modifyIndex'[q] = modifyIndex[q],
         Stores(q)', pc[q] \in {"putChunk", "store"}
  PROVE  link.body = Nil /\ Stores(q) /\ (rising => Rises(q))
<1>1. modifyIndex[q] <= index /\ index \in Nat /\ modifyIndex[q] \in Nat
  BY DEF IInv, Indexes, IndexAt, TypeOK
<1>2. modifyIndex[q] = 0
  BY <1>1 DEF Stores
<1> QED
  BY <1>2 DEF IInv, Indexes, IndexAt, Known, Stores, Rises

\* The chunks of what has just been linked are there.
LEMMA StoreChunks ==
  ASSUME IInv, NEW p \in Proc, At(p, "store"), Stores(p), link' = Link(mem[p]),
         index' = index + 1, UNCHANGED chunks,
         rising' = (rising /\ (link.body = Nil \/ mem[p].serial > link.body.serial)),
         pc'[p] = "clean" => hash[p] # Nil /\ hash'[p] = hash[p],
         pc'[p] \notin {"putChunk", "store"},
         \A q \in Proc \ {p} : Same(q)
  PROVE  Chunks'
<1>1. Replaces(p)
  BY StoreKnows
<1>2. link'.body = mem[p] /\ (link'.chunked <=> mem[p].state \in Large)
  BY DEF Link
<1>5. rising' => Rises(p)
  BY DEF Rises
<1>3. ChunksIntact'
  BY <1>2, <1>5 DEF ChunksIntact, IInv, Chunks, ChunksAt, ChunksOf
<1>4. ChunksAt(p)'
  BY <1>1, <1>2, <1>5 DEF Replaces, Rises, ChunksAt, At
<1>6. ASSUME NEW q \in Proc \ {p}
      PROVE  ChunksAt(q)'
  <2>1. Same(q)
    OBVIOUS
  <2>2. Active(q) => link.body # Nil
    BY DEF IInv, Sharing, Active, At
  <2>3. pc[q] \in {"putChunk", "store"} => ~Stores(q)'
    BY <2>1, <2>2, OtherIndex DEF Same, Active
  <2>4. At(q, "clean") /\ rising' => link'.body.serial > hash[q].serial
    <3> SUFFICES ASSUME At(q, "clean"), rising'
                 PROVE  link'.body.serial > hash[q].serial
      OBVIOUS
    <3>1. link.body # Nil
      BY <2>2 DEF At, Active
    <3>2. link.body.serial > hash[q].serial /\ mem[p].serial > link.body.serial
      BY <1>5, <3>1 DEF IInv, Chunks, ChunksAt, At, Rises
    <3>3. /\ link.body \in Snapshot /\ hash[q] \in Snapshot /\ mem[p] \in Snapshot
      BY <1>1, <3>1 DEF IInv, TypeOK, Control, Replaces, At
    <3>4. link.body.serial \in Nat /\ hash[q].serial \in Nat /\ mem[p].serial \in Nat
      BY <3>3 DEF Snapshot
    <3> QED
      BY <1>2, <3>2, <3>4
  <2> QED
    BY <2>1, <2>3, <2>4 DEF ChunksAt, Same, At
<1> QED
  BY <1>3, <1>4, <1>6 DEF Chunks

\* Chunks are put before they are linked, and none that is linked is cleaned up.
LEMMA ChunksStep == IInv /\ TypeOK' /\ [Next]_vars => Chunks'
<1> SUFFICES ASSUME IInv, TypeOK', [Next]_vars
             PROVE  Chunks'
  OBVIOUS
<1>a. TypeOK
  BY DEF IInv
<1>1. CASE DeleteWorkspace
  <2>1. link' = NoLink /\ index' = index + 1
        /\ UNCHANGED <<chunks, mem, modifyIndex, hash, n, pc, rising>>
    BY <1>1 DEF DeleteWorkspace
  <2>2. ChunksIntact'
    BY <2>1 DEF ChunksIntact, NoLink
  <2>3. ASSUME NEW q \in Proc
        PROVE  ChunksAt(q)'
    <3>1. pc[q] \in {"putChunk", "store"} /\ Stores(q)' =>
            link.body = Nil /\ Stores(q) /\ (rising => Rises(q))
      BY <2>1, OtherIndex
    <3>2. Rises(q)' => rising
      BY <2>1 DEF Rises
    <3> QED
      BY <2>1, <3>1, <3>2 DEF ChunksAt, ChunksOf, IInv, Chunks, NoLink, At
  <2> QED
    BY <2>2, <2>3 DEF Chunks
<1>2. ASSUME NEW p \in Proc,
             \/ Begin(p) \/ Exit(p) \/ RefreshState(p) \/ RequestFails(p) \/ CASFails(p)
             \/ \E s \in State : WriteState(p, s)
             \/ \E f \in Files, force \in BOOLEAN : WriteStateForMigration(p, f, force)
      PROVE  Chunks'
  <2>1. pc'[p] \notin {"putChunk", "store", "clean"}
    BY <1>2, <1>a DEF Begin, Exit, RefreshState, RequestFails, CASFails, WriteState,
       WriteStateForMigration, Fails, Return, Goto, TypeOK, Call
  <2>2. UNCHANGED <<link, index, chunks, rising>>
    BY <1>2 DEF Begin, Exit, RefreshState, RequestFails, CASFails, WriteState,
       WriteStateForMigration, consul
  <2>3. \A q \in Proc \ {p} : Same(q)
    BY <1>2, <1>a DEF Begin, Exit, RefreshState, RequestFails, CASFails, WriteState,
       WriteStateForMigration, Fails, Return, Goto, Same, TypeOK, Call
  <2> QED
    BY <2>1, <2>2, <2>3, ChunksAway
<1>3. ASSUME NEW p \in Proc, GetLink(p)
      PROVE  Chunks'
  <2>1. LinkRead(p)
    BY <1>3, GetLinkEffect
  <2>2. pc'[p] \notin {"putChunk", "store", "clean"}
    BY <2>1, <1>a DEF LinkRead, GoesForChunks, Learns, LearnsNothing, TypeOK
  <2>3. \A q \in Proc \ {p} : Same(q)
    BY <1>3, <2>1, <1>a DEF LinkRead, GoesForChunks, Learns, LearnsNothing, TypeOK,
       Same, GetLink
  <2> QED
    BY <2>1, <2>2, <2>3, ChunksAway DEF LinkRead
<1>4. ASSUME NEW p \in Proc, GetChunk(p)
      PROVE  Chunks'
  <2>1. ChunkRead(p)
    BY <1>4, GetChunkEffect
  <2>2. pc'[p] \notin {"putChunk", "store", "clean"}
    BY <2>1, <1>a DEF ChunkRead, Learns, Return, Goto, At, TypeOK
  <2>3. \A q \in Proc \ {p} : Same(q)
    BY <1>4, <2>1, <1>a DEF ChunkRead, Learns, Return, Goto, TypeOK, Same, GetChunk
  <2> QED
    BY <2>1, <2>2, <2>3, ChunksAway DEF ChunkRead
<1>5. ASSUME NEW p \in Proc, Persists(p)
      PROVE  Chunks'
  <2>1. PersistBegins(p)
    BY <1>5, PersistStateEffect
  <2>2. pc'[p] \notin {"putChunk", "store", "clean"}
    BY <2>1, <1>a DEF PersistBegins, Return, Goto, TypeOK
  <2>3. \A q \in Proc \ {p} : Same(q)
    BY <2>1, <1>a DEF PersistBegins, Return, Goto, TypeOK, Same
  <2> QED
    BY <2>1, <2>2, <2>3, ChunksAway DEF PersistBegins
<1>6. ASSUME NEW p \in Proc, ChunkedMode(p)
      PROVE  Chunks'
  <2>1. /\ UNCHANGED <<link, index, chunks, mem, modifyIndex, rising>>
        /\ hash'[p] \in {Nil, link.body} /\ n'[p] = 1
        /\ pc'[p] = IF mem[p].state \in Large THEN "putChunk" ELSE "store"
    BY <1>6, <1>a DEF ChunkedMode, Goto, consul, TypeOK
  <2>2. ChunksIntact'
    BY <2>1 DEF IInv, Chunks, ChunksIntact, ChunksOf
  <2>3. ChunksAt(p)'
    BY <2>1 DEF ChunksAt, At
  <2>4. \A q \in Proc \ {p} : Same(q)
    BY <1>6, <1>a DEF ChunkedMode, Goto, Same, TypeOK
  <2>5. \A q \in Proc \ {p} : ChunksAt(q)'
    BY <2>1, <2>4, ChunksFrame
  <2> QED
    BY <2>2, <2>3, <2>5 DEF Chunks
<1>7. ASSUME NEW p \in Proc, PutChunk(p)
      PROVE  Chunks'
  <2>1. /\ UNCHANGED <<link, index, mem, modifyIndex, hash, rising>>
        /\ At(p, "putChunk") /\ chunks' = chunks \cup {<<mem[p], n[p]>>}
        /\ \/ n[p] < Chunk /\ n'[p] = n[p] + 1 /\ pc'[p] = "putChunk"
           \/ ~(n[p] < Chunk) /\ n'[p] = n[p] /\ pc'[p] = "store"
    <3>1. Body(p) = mem[p]
      BY <1>7, BodyIsMem DEF PutChunk, IInv, Control, At
    <3> QED
      BY <1>7, <1>a, <3>1 DEF PutChunk, Goto, At, TypeOK
  <2>2. ChunksIntact'
    BY <2>1 DEF IInv, Chunks, ChunksIntact, ChunksOf
  <2>3. ChunksAt(p)'
    <3>1. n[p] \in 1..Chunk /\ Chunk \in Nat
      BY <1>a, BoundAssumption DEF TypeOK
    <3>2. Stores(p)' = Stores(p) /\ Rises(p)' = Rises(p)
      BY <2>1 DEF Stores, Rises
    <3>3. Stores(p) /\ Rises(p) => \A k \in 1..n[p] : <<mem[p], k>> \in chunks'
      BY <2>1, <3>1 DEF IInv, Chunks, ChunksAt
    <3>4. ~(n[p] < Chunk) => n[p] = Chunk
      BY <3>1
    <3>5. ~(n[p] < Chunk) /\ Stores(p) /\ Rises(p) => ChunksOf(mem[p]) \subseteq chunks'
      BY <3>3, <3>4 DEF ChunksOf
    <3>6. Stores(p) => hash[p] \in {Nil, link.body}
      BY <2>1 DEF IInv, Chunks, ChunksAt, At
    <3>7. n'[p] - 1 = n[p] \/ ~(n[p] < Chunk)
      BY <2>1, <3>1
    <3> QED
      BY <2>1, <3>2, <3>3, <3>5, <3>6, <3>7 DEF ChunksAt, At, ChunksOf
  <2>4. \A q \in Proc \ {p} : Same(q)
    BY <1>7, <1>a DEF PutChunk, Goto, Same, TypeOK
  <2>5. \A q \in Proc \ {p} : ChunksAt(q)'
    BY <2>1, <2>4, ChunksFrame
  <2> QED
    BY <2>2, <2>3, <2>5 DEF Chunks
<1>8. ASSUME NEW p \in Proc, Store(p)
      PROVE  Chunks'
  <2>1. /\ At(p, "store") /\ Stores(p) /\ link' = Link(mem[p]) /\ index' = index + 1
        /\ UNCHANGED chunks
        /\ rising' = (rising /\ (link.body = Nil \/ mem[p].serial > link.body.serial))
    <3>1. At(p, "store") /\ Body(p) = mem[p]
      BY <1>8, StoreKnows DEF Store, Replaces
    <3> QED
      BY <1>8, <3>1 DEF Store, Replace
  <2>2. (pc'[p] = "clean" => hash[p] # Nil /\ hash'[p] = hash[p])
        /\ pc'[p] \notin {"putChunk", "store"}
    BY <1>8, <1>a DEF Store, Persisted, Return, Goto, TypeOK
  <2>3. \A q \in Proc \ {p} : Same(q)
    BY <1>8, <1>a DEF Store, Persisted, Return, Goto, TypeOK, Same
  <2> QED
    BY <2>1, <2>2, <2>3, StoreChunks
<1>9. ASSUME NEW p \in Proc, StoreAnswerLost(p)
      PROVE  Chunks'
  <2>1. /\ At(p, "store") /\ Stores(p) /\ link' = Link(mem[p]) /\ index' = index + 1
        /\ UNCHANGED chunks
        /\ rising' = (rising /\ (link.body = Nil \/ mem[p].serial > link.body.serial))
    <3>1. At(p, "store") /\ Body(p) = mem[p]
      BY <1>9, StoreKnows DEF StoreAnswerLost, Replaces
    <3> QED
      BY <1>9, <3>1 DEF StoreAnswerLost, Replace
  <2>2. pc'[p] \notin {"putChunk", "store", "clean"}
    BY <1>9, <1>a DEF StoreAnswerLost, Fails, Return, Goto, TypeOK
  <2>3. \A q \in Proc \ {p} : Same(q)
    BY <1>9, <1>a DEF StoreAnswerLost, Fails, Return, Goto, TypeOK, Same
  <2> QED
    BY <2>1, <2>2, <2>3, StoreChunks
<1>10. ASSUME NEW p \in Proc, CleanupOldChunks(p)
       PROVE  Chunks'
  <2>1. /\ At(p, "clean") /\ UNCHANGED <<link, index, mem, modifyIndex, hash, n, rising>>
        /\ chunks \ ChunksOf(hash[p]) \subseteq chunks'
        /\ pc'[p] = "idle"
    BY <1>10, <1>a DEF CleanupOldChunks, Persisted, Return, Goto, TypeOK
  <2>2. link.body # Nil /\ rising => /\ link.body \in Snapshot /\ hash[p] \in Snapshot
                                     /\ link.body.serial > hash[p].serial
    BY <2>1, <1>a DEF IInv, Control, Chunks, ChunksAt, At, TypeOK
  <2>3. link.body # Nil /\ rising => link.body # hash[p]
    BY <2>2 DEF Snapshot
  <2>4. ChunksIntact'
    <3> SUFFICES ASSUME link.chunked, rising
                 PROVE  ChunksOf(link.body) \subseteq chunks'
      BY <2>1 DEF ChunksIntact, ChunksOf
    <3>1. link.body # hash[p] /\ ChunksOf(link.body) \subseteq chunks
      BY <2>3 DEF IInv, Control, Chunks, ChunksIntact
    <3> QED
      BY <2>1, <3>1, Apart
  <2>5. ChunksAt(p)'
    BY <2>1 DEF ChunksAt, At
  <2>6. ASSUME NEW q \in Proc \ {p}
        PROVE  ChunksAt(q)'
    <3>1. Same(q) /\ Stores(q)' = Stores(q) /\ Rises(q)' = Rises(q)
      BY <1>10, <2>1, <1>a DEF CleanupOldChunks, Persisted, Return, Goto, TypeOK,
         Same, Stores, Rises
    <3>2. CASE ~(pc[q] \in {"putChunk", "store"} /\ Stores(q) /\ Rises(q))
      BY <2>1, <3>1, <3>2 DEF IInv, Chunks, ChunksAt, Same, At
    <3>3. CASE pc[q] \in {"putChunk", "store"} /\ Stores(q) /\ Rises(q)
      <4>1. link.body # Nil /\ rising
        BY <2>1, <3>3 DEF IInv, Sharing, Active, At, Rises
      <4>3. mem[q].serial > link.body.serial
        BY <3>3, <4>1 DEF Rises
      <4>4. mem[q].serial \in Nat /\ link.body.serial \in Nat /\ hash[p].serial \in Nat
        BY <2>2, <4>1, <1>a DEF TypeOK, Snapshot
      <4>5. mem[q] # hash[p]
        BY <2>2, <4>1, <4>3, <4>4
      <4>6. \A k \in 1..Chunk : <<mem[q], k>> \in chunks => <<mem[q], k>> \in chunks'
        BY <2>1, <4>5 DEF ChunksOf
      <4>7. ChunksOf(mem[q]) \subseteq chunks => ChunksOf(mem[q]) \subseteq chunks'
        BY <2>1, <4>5, Apart
      <4>8. n[q] \in 1..Chunk
        BY <1>a DEF TypeOK
      <4>9. \A k \in 1..(n[q] - 1) : k \in 1..Chunk
        BY <4>8, BoundAssumption
      <4> QED
        BY <2>1, <3>1, <3>3, <4>6, <4>7, <4>9 DEF IInv, Chunks, ChunksAt, Same, At,
           ChunksOf
    <3> QED
      BY <3>2, <3>3
  <2> QED
    BY <2>4, <2>5, <2>6 DEF Chunks
<1>11. CASE UNCHANGED vars
  <2>1. \A q \in Proc : Same(q)
    BY <1>11 DEF vars, consul, Same
  <2>2. \A q \in Proc : ChunksAt(q)'
    BY <1>11, <2>1, ChunksFrame DEF vars, consul
  <2> QED
    BY <1>11, <2>2 DEF vars, consul, IInv, Chunks, ChunksIntact, ChunksOf
<1> QED
  BY <1>1, <1>2, <1>3, <1>4, <1>5, <1>6, <1>7, <1>8, <1>9, <1>10, <1>11 DEF Next

-----------------------------------------------------------------------------
(* The invariant                                                           *)

\* The invariant holds at first, in trusted circumstances.
LEMMA InitInv == Init /\ Trusted => IInv
<1> SUFFICES ASSUME Init, Trusted
             PROVE  IInv
  OBVIOUS
<1>1. TypeOK /\ Control
  BY InitType
<1>2. IF setup.exists THEN link.body # Nil /\ index = 1 ELSE link = NoLink /\ index = 0
  <2>1. CASE setup.exists
    <3>1. PICK s \in State : link = Link([lineage |-> 1, serial |-> 1, state |-> s])
      BY <2>1 DEF Init
    <3>2. [lineage |-> 1, serial |-> 1, state |-> s] \in Snapshot
      BY <3>1 DEF Snapshot
    <3> QED
      BY <2>1, <3>1, <3>2, DataAssumption DEF Link, Init
  <2> QED
    BY <2>1 DEF Init
<1>3. Sharing
  <2>1. ~setup.early /\ (setup.lossy => setup.exists /\ ~setup.deleted)
    BY DEF Trusted
  <2>2. setup.lossy \in BOOLEAN
    BY SetupsAssumption DEF Init
  <2> QED
    BY <1>2, <2>1, <2>2 DEF Init, Sharing, Active
<1>4. Indexes
  BY <1>2 DEF Init, Indexes, IndexAt, Known, At, NoLink
<1>5. Continues
  BY DEF Init, Continues, ContinuesAt, Known, At
<1>6. Chunks
  BY DEF Init, Chunks, ChunksIntact, ChunksAt, At
<1>7. PersistedIsWritten
  BY DEF Init, PersistedIsWritten
<1> QED
  BY <1>1, <1>3, <1>4, <1>5, <1>6, <1>7 DEF IInv

\* Every step keeps the invariant.
LEMMA StepInv == IInv /\ [Next]_vars => IInv'
<1> SUFFICES ASSUME IInv, [Next]_vars
             PROVE  IInv'
  OBVIOUS
<1>1. TypeOK' /\ Control'
  BY TypeStep DEF IInv
<1> QED
  BY <1>1, SharingStep, IndexesStep, ContinuesStep, ChunksStep, PersistedStep
     DEF IInv

\* The invariant holds throughout.
LEMMA SpecInv == Spec /\ Trusted => []IInv
<1>1. Init /\ Trusted => IInv
  BY InitInv
<1>2. IInv /\ [Next]_vars => IInv'
  BY StepInv
<1> QED
  BY <1>1, <1>2, PTL DEF Spec

-----------------------------------------------------------------------------
(* Refinement                                                              *)

\* A step of p that keeps the snapshot changes what p knows to nothing or to
\* what is stored.
LEMMA ViewStep ==
  ASSUME link'.body = link.body, NEW p \in Proc,
         \A q \in Proc \ {p} : View(q)' = View(q),
         View(p)' \in {View(p), Unread, link.body}
  PROVE  [Store_!Next]_(Store_!vars)
<1>1. CASE View(p)' = View(p)
  <2>1. \A q \in Proc : View(q)' = View(q)
    BY <1>1
  <2>2. [q \in Proc |-> View(q)]' = [q \in Proc |-> View(q)]
    BY <2>1
  <2> QED
    BY <2>2 DEF Store_!vars
<1>2. CASE View(p)' = Unread
  <2>1. [q \in Proc |-> View(q)]' = [[q \in Proc |-> View(q)] EXCEPT ![p] = Unread]
    BY <1>2
  <2> QED
    BY <2>1 DEF Store_!Next, Store_!Forget
<1>3. CASE View(p)' = link.body
  <2>1. [q \in Proc |-> View(q)]' = [[q \in Proc |-> View(q)] EXCEPT ![p] = link.body]
    BY <1>3
  <2> QED
    BY <2>1 DEF Store_!Next, Store_!Read
<1> QED
  BY <1>1, <1>2, <1>3

\* A step of p that stores a snapshot.
LEMMA ViewWrite ==
  ASSUME NEW p \in Proc, View(p) = link.body, link'.body \in Snapshot,
         \A q \in Proc \ {p} : View(q)' = View(q),
         View(p)' \in {View(p), Unread, link'.body}
  PROVE  Store_!Next
<1>1. CASE View(p)' = View(p)
  <2>1. \A q \in Proc : View(q)' = View(q)
    BY <1>1
  <2>2. [q \in Proc |-> View(q)]' = [q \in Proc |-> View(q)]
    BY <2>1
  <2> QED
    BY <2>2 DEF Store_!Next, Store_!Write
<1>2. CASE View(p)' = Unread
  <2>1. [q \in Proc |-> View(q)]' = [[q \in Proc |-> View(q)] EXCEPT ![p] = Unread]
    BY <1>2
  <2> QED
    BY <2>1 DEF Store_!Next, Store_!Write
<1>3. CASE View(p)' = link'.body
  <2>1. [q \in Proc |-> View(q)]' = [[q \in Proc |-> View(q)] EXCEPT ![p] = link'.body]
    BY <1>3
  <2> QED
    BY <2>1 DEF Store_!Next, Store_!Write
<1> QED
  BY <1>1, <1>2, <1>3

\* What a command knows depends on its own variables alone.
LEMMA ViewFrame ==
  ASSUME NEW q \in Proc, pc'[q] = pc[q], hash'[q] = hash[q], mem'[q] = mem[q], read'[q] = read[q]
  PROVE  View(q)' = View(q)
  BY DEF View, Body, At

\* Every step is a step of SnapshotStore or changes nothing it sees.
LEMMA Refines == IInv /\ TypeOK' /\ [Next]_vars => [Store_!Next]_(Store_!vars)
<1> SUFFICES ASSUME IInv, TypeOK', [Next]_vars
             PROVE  [Store_!Next]_(Store_!vars)
  OBVIOUS
<1>a. TypeOK
  BY DEF IInv
<1>1. CASE DeleteWorkspace
  <2>1. \A q \in Proc : View(q)' = View(q)
    BY <1>1, ViewFrame DEF DeleteWorkspace
  <2>2. [q \in Proc |-> View(q)]' = [q \in Proc |-> View(q)]
    BY <2>1
  <2> QED
    BY <1>1, <2>2 DEF DeleteWorkspace, NoLink, Store_!Next, Store_!Delete
<1>2. ASSUME NEW p \in Proc,
             \/ Begin(p) \/ Exit(p) \/ RefreshState(p) \/ RequestFails(p)
             \/ ChunkedMode(p) \/ PutChunk(p) \/ CASFails(p)
             \/ \E s \in State : WriteState(p, s)
             \/ \E f \in Files, force \in BOOLEAN : WriteStateForMigration(p, f, force)
      PROVE  [Store_!Next]_(Store_!vars)
  <2>1. \A q \in Proc \ {p} : View(q)' = View(q)
    BY <1>2, <1>a, ViewFrame DEF Begin, Exit, RefreshState, RequestFails,
       ChunkedMode,
       PutChunk, CASFails, WriteState, WriteStateForMigration, Fails, Return, Goto, TypeOK, Call
  <2>2. UNCHANGED link
    BY <1>2 DEF Begin, Exit, RefreshState, RequestFails, ChunkedMode, PutChunk,
       CASFails,
       WriteState, WriteStateForMigration, consul
  <2>3. View(p)' \in {View(p), Unread}
    <3>1. CASE Begin(p)
      BY <3>1, <1>a DEF Begin, Return, Goto, TypeOK, View, At, IInv, Control
    <3>2. CASE Exit(p)
      BY <3>2, <1>a DEF Exit, Return, Goto, TypeOK, View, At
    <3>3. CASE RefreshState(p)
      BY <3>3, <1>a DEF RefreshState, Call, Return, Goto, TypeOK, View, At
    <3>4. CASE RequestFails(p)
      BY <3>4, <1>a DEF RequestFails, Fails, Return, Goto, TypeOK, View, At, IInv,
         Indexes, IndexAt
    <3>5. CASE ChunkedMode(p) \/ PutChunk(p) \/ CASFails(p)
      BY <3>5, <1>a DEF ChunkedMode, PutChunk, CASFails, Fails, Return, Goto,
         TypeOK, View, At, IInv, Control
    <3>6. CASE \E s \in State : WriteState(p, s)
      BY <3>6, <1>a DEF WriteState, Call, Return, Goto, TypeOK, View, At
    <3>7. CASE \E f \in Files, force \in BOOLEAN : WriteStateForMigration(p, f, force)
      BY <3>7, <1>a DEF WriteStateForMigration, Call, Return, Goto, TypeOK, View, At
    <3> QED
      BY <1>2, <3>1, <3>2, <3>3, <3>4, <3>5, <3>6, <3>7
  <2> QED
    BY <2>1, <2>2, <2>3, ViewStep
<1>3. ASSUME NEW p \in Proc, GetLink(p)
      PROVE  [Store_!Next]_(Store_!vars)
  <2>1. LinkRead(p)
    BY <1>3, GetLinkEffect
  <2>2. \A q \in Proc \ {p} : View(q)' = View(q)
    BY <2>1, <1>a, ViewFrame DEF LinkRead, GoesForChunks, Learns, LearnsNothing,
       TypeOK
  <2>3. View(p)' \in {Unread, link.body}
    BY <2>1, <1>a DEF LinkRead, GoesForChunks, Learns, LearnsNothing, TypeOK, View,
       At
  <2> QED
    BY <2>1, <2>2, <2>3, ViewStep DEF LinkRead
<1>4. ASSUME NEW p \in Proc, GetChunk(p)
      PROVE  [Store_!Next]_(Store_!vars)
  <2>1. ChunkRead(p)
    BY <1>4, GetChunkEffect
  <2>2. \A q \in Proc \ {p} : View(q)' = View(q)
    BY <2>1, <1>a, ViewFrame DEF ChunkRead, Learns, Return, Goto, TypeOK
  <2>3. View(p)' \in {View(p), Unread}
    BY <2>1, <1>a DEF ChunkRead, Learns, Return, Goto, TypeOK, View, At
  <2> QED
    BY <2>1, <2>2, <2>3, ViewStep DEF ChunkRead
<1>5. ASSUME NEW p \in Proc, Persists(p)
      PROVE  [Store_!Next]_(Store_!vars)
  <2>1. PersistBegins(p)
    BY <1>5, PersistStateEffect
  <2>2. \A q \in Proc \ {p} : View(q)' = View(q)
    BY <2>1, <1>a, ViewFrame DEF PersistBegins, Return, Goto, TypeOK
  <2>3. View(p)' = View(p)
    BY <2>1, <1>a DEF PersistBegins, Return, Goto, TypeOK, View, At
  <2> QED
    BY <2>1, <2>2, <2>3, ViewStep DEF PersistBegins
<1>6. ASSUME NEW p \in Proc, Store(p) \/ StoreAnswerLost(p)
      PROVE  Store_!Next
  <2>1. Replaces(p) /\ At(p, "store")
    BY <1>6, StoreKnows DEF Store, StoreAnswerLost
  <2>2. link'.body = mem[p]
    BY <1>6, <2>1 DEF Store, StoreAnswerLost, Replace, Link, Replaces
  <2>3. View(p) = link.body
    BY <2>1 DEF Replaces, View, At
  <2>4. \A q \in Proc \ {p} : View(q)' = View(q)
    BY <1>6, <1>a, ViewFrame DEF Store, StoreAnswerLost, Persisted, Fails, Return,
       Goto, TypeOK
  <2>5. CASE Store(p)
    <3>1. View(p)' = mem[p]
      BY <2>1, <2>5, <1>a DEF Store, Persisted, Return, Goto, TypeOK, View, Body,
         At, Replaces
    <3> QED
      BY <2>1, <2>2, <2>3, <2>4, <3>1, ViewWrite DEF Replaces
  <2>6. CASE StoreAnswerLost(p)
    <3>1. View(p)' \in {View(p), Unread}
      BY <2>1, <2>6, <1>a DEF StoreAnswerLost, Fails, Return, Goto, TypeOK, View,
         At, IInv, Control
    <3> QED
      BY <2>1, <2>2, <2>3, <2>4, <3>1, ViewWrite DEF Replaces
  <2> QED
    BY <1>6, <2>5, <2>6
<1>7. ASSUME NEW p \in Proc, CleanupOldChunks(p)
      PROVE  [Store_!Next]_(Store_!vars)
  <2>1. mem[p].state # Nil /\ mem[p] # Nil /\ Body(p) = mem[p] /\ link' = link
    BY <1>7, BodyIsMem DEF IInv, Control, CleanupOldChunks, At
  <2>2. \A q \in Proc \ {p} : View(q)' = View(q)
    BY <1>7, <1>a, ViewFrame DEF CleanupOldChunks, Persisted, Return, Goto, TypeOK
  <2>3. View(p)' = View(p)
    BY <1>7, <2>1, <1>a DEF CleanupOldChunks, Persisted, Return, Goto, TypeOK,
       View, Body, At
  <2> QED
    BY <2>1, <2>2, <2>3, ViewStep
<1>8. CASE UNCHANGED vars
  <2>1. \A q \in Proc : View(q)' = View(q)
    BY <1>8, ViewFrame DEF vars
  <2>2. [q \in Proc |-> View(q)]' = [q \in Proc |-> View(q)]
    BY <2>1
  <2> QED
    BY <1>8, <2>2 DEF vars, consul, Store_!vars
<1> QED
  BY <1>1, <1>2, <1>3, <1>4, <1>5, <1>6, <1>7, <1>8 DEF Next

-----------------------------------------------------------------------------
(* Theorems                                                                *)

\* Every variable keeps its type, whatever answers and locks are lost; what
\* is put is a snapshot, also where there is no state.
THEOREM TypeCorrect == Spec => []TypeOK
<1>1. Init => TypeOK /\ Control
  BY InitType
<1>2. TypeOK /\ Control /\ [Next]_vars => (TypeOK /\ Control)'
  BY TypeStep
<1> QED
  BY <1>1, <1>2, PTL DEF Spec

\* What the link names can be read, although chunks are put before the link
\* and cleaned up after it while other commands put and link theirs, as long as
\* no forced import has taken a serial back.
THEOREM LinkIsReadable == Spec /\ Trusted => []ChunksIntact
<1>1. IInv => ChunksIntact
  BY DEF IInv, Chunks
<1> QED
  BY <1>1, SpecInv, PTL

\* A PersistState that reports success has stored what was written last.
THEOREM PersistedIsTrue == Spec /\ Trusted => []PersistedIsWritten
<1>1. IInv => PersistedIsWritten
  BY DEF IInv
<1> QED
  BY <1>1, SpecInv, PTL

\* Only the two steps that store replace a snapshot, and by a successor when
\* nothing was imported unchecked.
LEMMA SerialStep ==
  ASSUME IInv, NEW p \in Proc, Store(p) \/ StoreAnswerLost(p), link.body # Nil,
         ~unchecked[p]
  PROVE  link'.body.lineage = link.body.lineage /\ link'.body.serial > link.body.serial
<1>1. Replaces(p)
  BY StoreKnows DEF Store, StoreAnswerLost
<1>2. link'.body = mem[p]
  BY <1>1 DEF Store, StoreAnswerLost, Replace, Replaces, Link
<1> QED
  BY <1>1, <1>2 DEF Replaces

\* A snapshot is replaced only by one of its lineage with a greater serial,
\* also by a command that has lost the lock or retries after an error, unless
\* the command has imported a snapshot with force or without a comparison.
THEOREM SerialsGrow == Spec /\ Trusted => SerialGrows
<1>1. IInv /\ [Next]_vars =>
        [\A p \in Proc :
           (Store(p) \/ StoreAnswerLost(p)) /\ link.body # Nil /\ ~unchecked[p]
           => /\ link'.body.lineage = link.body.lineage
              /\ link'.body.serial > link.body.serial]_vars
  BY SerialStep
<1> QED
  BY <1>1, SpecInv, PTL DEF Spec, SerialGrows

\* Managers over Consul implement the store of snapshots that the interfaces
\* of statemgr promise.
THEOREM ImplementsStore == Spec /\ Trusted => ImplementsSnapshotStore
<1>1. Init => Store_!Init
  <2> SUFFICES ASSUME Init
               PROVE  Store_!Init
    OBVIOUS
  <2>1. link.body \in Snapshot \cup {Nil}
    BY InitType DEF TypeOK
  <2>2. \A p \in Proc : View(p) = Unread
    BY DEF Init, View, At
  <2> QED
    BY <2>1, <2>2 DEF Store_!Init
<1>2. IInv /\ [Next]_vars => [Store_!Next]_(Store_!vars)
  <2>1. IInv /\ [Next]_vars => TypeOK'
    BY StepInv DEF IInv
  <2> QED
    BY <2>1, Refines
<1> QED
  BY <1>1, <1>2, SpecInv, PTL DEF Spec, ImplementsSnapshotStore, Store_!Spec

=============================================================================
