----------------------------- MODULE RemoteState -----------------------------
(***************************************************************************)
(* The remote state manager (remote.State) over the Consul client, as it   *)
(* is used by commands that share a workspace.  The client keeps a small   *)
(* state under one key, the link; a large one is split into chunks under   *)
(* keys that carry its hash, and the link names the hash.  Every request   *)
(* to Consul is an action, and so is every answer that gets lost.          *)
(*                                                                         *)
(* A snapshot stands for its own serialisation and for its hash.  A        *)
(* lineage of 0 is no lineage.                                             *)
(***************************************************************************)
EXTENDS Integers, FiniteSets

CONSTANTS
    Proc,       \* the commands, each with a manager of its own
    State,      \* the contents a state can have
    Empty,      \* the one without resources and outputs
    Large,      \* those whose serialisation Consul refuses as one entry
    Chunk,      \* bound: the number of chunks of a large state
    Nil,        \* no snapshot, a nil state
    Unread,     \* no snapshot has been read
    Files,      \* the snapshots that may be imported
    Setups,     \* the circumstances: is there a snapshot at first, may locks
                \* and answers be lost, may the workspace be deleted, may a
                \* command persist before it has a state (a stop hook)
    MaxCalls    \* bound: calls of the manager per command

Snapshot == [lineage : Nat, serial : Nat, state : State]

ASSUME SetupsAssumption ==
    Setups \subseteq [exists : BOOLEAN, lossy : BOOLEAN, deleted : BOOLEAN,
                      early : BOOLEAN]
ASSUME DataAssumption ==
    /\ Large \subseteq State /\ Nil \notin State
    /\ Empty \in State \ Large
    /\ Nil \notin Snapshot /\ Unread \notin Snapshot \cup {Nil}
    /\ Files \subseteq Snapshot
ASSUME BoundAssumption == Chunk \in Nat \ {0} /\ MaxCalls \in Nat

VARIABLES
    setup,
    \* Consul: what the link holds, the index of its last change, the chunks
    link, index, chunks,
    \* remote.State: lineage, serial and state; the same three as last read
    mem, read,
    \* the client: the index for its CAS; the hash it reads or replaces, and
    \* the number of the next chunk
    modifyIndex, hash, n,
    \* the point each command has reached, its call or the result of the last
    pc, call,
    \* bookkeeping: lineages handed out, calls made, the state last written;
    \* has each command imported what it was not compared with since its last
    \* refresh or persist; has each snapshot stored over another one a greater
    \* serial
    nextLineage, calls, written, unchecked, rising

consul == <<link, index, chunks>>
vars   == <<setup, consul, mem, read, modifyIndex, hash, n, pc, call,
            nextLineage, calls, written, unchecked, rising>>

NoFile == [lineage |-> 0, serial |-> 0, state |-> Nil]
NoLink == [body |-> Nil, chunked |-> FALSE]
Link(s) == [body |-> s, chunked |-> s.state \in Large]

TypeOK ==
    /\ setup \in Setups
    /\ link \in [body : Snapshot \cup {Nil}, chunked : BOOLEAN]
    /\ index \in Nat
    /\ chunks \subseteq Snapshot \X (1..Chunk)
    /\ mem \in [Proc -> [lineage : Nat, serial : Nat, state : State \cup {Nil}]]
    /\ read \in [Proc -> Snapshot \cup {Nil}]
    /\ modifyIndex \in [Proc -> Nat]
    /\ hash \in [Proc -> Snapshot \cup {Nil}]
    /\ n \in [Proc -> 1..Chunk]
    /\ pc \in [Proc -> {"start", "get", "getChunk", "idle", "check", "putChunk",
                        "store", "clean", "failed", "done"}]
    /\ call \in [Proc -> {"none", "refresh", "persist", "persisted", "error"}]
    /\ nextLineage \in Nat
    /\ calls \in [Proc -> Nat]
    /\ written \in [Proc -> State \cup {Nil}]
    /\ unchecked \in [Proc -> BOOLEAN]
    /\ rising \in BOOLEAN

ChunksOf(s) == {s} \X (1..Chunk)

Init ==
    /\ setup \in Setups
    /\ link \in IF setup.exists
                THEN {Link([lineage |-> 1, serial |-> 1, state |-> s]) : s \in State}
                ELSE {NoLink}
    /\ index = IF setup.exists THEN 1 ELSE 0
    /\ chunks = IF link.chunked THEN ChunksOf(link.body) ELSE {}
    /\ mem = [p \in Proc |-> NoFile]
    /\ read = [p \in Proc |-> Nil]
    /\ modifyIndex = [p \in Proc |-> 0]
    /\ hash = [p \in Proc |-> Nil]
    /\ n = [p \in Proc |-> 1]
    /\ pc = [p \in Proc |-> "start"]
    /\ call = [p \in Proc |-> "none"]
    /\ nextLineage = 2
    /\ calls = [p \in Proc |-> 0]
    /\ written = [p \in Proc |-> Nil]
    /\ unchecked = [p \in Proc |-> FALSE]
    /\ rising = TRUE

-----------------------------------------------------------------------------
At(p, l)     == pc[p] = l
Goto(p, l)   == pc' = [pc EXCEPT ![p] = l]
Return(p, r, l) == Goto(p, l) /\ call' = [call EXCEPT ![p] = r]

\* A call of the manager between two others: it holds State.mu throughout.
Call(p) ==
    /\ At(p, "idle") /\ calls[p] < MaxCalls
    /\ calls' = [calls EXCEPT ![p] = @ + 1]

\* A command locks the workspace and refreshes.  A lock that may be lost
\* keeps no other command away.
Begin(p) ==
    /\ At(p, "start")
    /\ setup.lossy \/ \A q \in Proc : pc[q] \in {"start", "done"}
    /\ Return(p, "refresh", "get")
    /\ UNCHANGED <<setup, consul, mem, read, modifyIndex, hash, n, nextLineage,
                   calls, written, unchecked, rising>>

\* A command ends, at any point when it crashes.
Exit(p) ==
    /\ pc[p] \notin {"start", "done"}
    /\ Return(p, "none", "done")
    /\ mem' = [mem EXCEPT ![p] = NoFile]
    /\ read' = [read EXCEPT ![p] = Nil]
    /\ modifyIndex' = [modifyIndex EXCEPT ![p] = 0]
    /\ hash' = [hash EXCEPT ![p] = Nil]
    /\ n' = [n EXCEPT ![p] = 1]
    /\ calls' = [calls EXCEPT ![p] = 0]
    /\ written' = [written EXCEPT ![p] = Nil]
    /\ unchecked' = [unchecked EXCEPT ![p] = FALSE]
    /\ UNCHANGED <<setup, consul, nextLineage, rising>>

\* Backend.DeleteWorkspace deletes the link, without a lock and without the
\* chunks.
DeleteWorkspace ==
    /\ setup.deleted /\ link # NoLink
    /\ link' = NoLink /\ index' = index + 1
    /\ UNCHANGED <<setup, chunks, mem, read, modifyIndex, hash, n, pc, call,
                   nextLineage, calls, written, unchecked, rising>>

-----------------------------------------------------------------------------
(* Reading: RefreshState, and RemoteClient.Get                             *)

RefreshState(p) ==
    /\ Call(p)
    /\ Return(p, "refresh", "get")
    /\ UNCHANGED <<setup, consul, mem, read, modifyIndex, hash, n,
                   nextLineage, written, unchecked, rising>>

\* refreshState has the payload: f, or no payload at all.  A refresh on
\* behalf of PersistState then finds out whether it needs a new lineage.
Refreshed(p, f) ==
    LET m == IF f = Nil THEN [mem[p] EXCEPT !.lineage = 0, !.serial = 0] ELSE f
        new == call[p] = "persist" /\ m.lineage = 0
    IN  /\ read' = [read EXCEPT ![p] = f]
        /\ mem' = [mem EXCEPT ![p] =
                IF new THEN [m EXCEPT !.lineage = nextLineage, !.serial = @ + 1]
                ELSE m]
        /\ nextLineage' = nextLineage + (IF new THEN 1 ELSE 0)
        /\ unchecked' = [unchecked EXCEPT ![p] = FALSE]
        /\ IF call[p] = "persist"
           THEN Goto(p, "check") /\ UNCHANGED <<call, written>>
           ELSE /\ Return(p, "none", "idle")
                /\ written' = [written EXCEPT ![p] = mem'[p].state]

\* The caller of RefreshState gives up after an error; a failed PersistState
\* may be tried again.
Fails(p) == Return(p, "error", IF call[p] = "persist" THEN "idle" ELSE "failed")

GetLink(p) ==
    /\ At(p, "get")
    /\ modifyIndex' = [modifyIndex EXCEPT ![p] = IF link = NoLink THEN @ ELSE index]
    /\ IF link.chunked
       THEN /\ hash' = [hash EXCEPT ![p] = link.body]
            /\ n' = [n EXCEPT ![p] = 1]
            /\ Goto(p, "getChunk")
            /\ UNCHANGED <<mem, read, call, nextLineage, written, unchecked>>
       ELSE Refreshed(p, link.body) /\ UNCHANGED <<hash, n>>
    /\ UNCHANGED <<setup, consul, calls, rising>>

GetChunk(p) ==
    /\ At(p, "getChunk")
    /\ IF <<hash[p], n[p]>> \notin chunks
       THEN Fails(p) /\ UNCHANGED <<n, mem, read, nextLineage, written, unchecked>>
       ELSE IF n[p] < Chunk
       THEN /\ n' = [n EXCEPT ![p] = @ + 1]
            /\ UNCHANGED <<pc, call, mem, read, nextLineage, written, unchecked>>
       ELSE Refreshed(p, hash[p]) /\ UNCHANGED n
    /\ UNCHANGED <<setup, consul, modifyIndex, hash, calls, rising>>

\* A request of Get, or one of Put that has not reached Consul, fails.
RequestFails(p) ==
    /\ pc[p] \in {"get", "getChunk", "check", "putChunk", "store"}
    /\ Fails(p)
    /\ UNCHANGED <<setup, consul, mem, read, modifyIndex, hash, n, nextLineage,
                   calls, written, unchecked, rising>>

-----------------------------------------------------------------------------
(* Writing: WriteState, WriteStateForMigration, PersistState               *)

WriteState(p, s) ==
    /\ Call(p)
    /\ mem' = [mem EXCEPT ![p].state = s]
    /\ written' = [written EXCEPT ![p] = s]
    /\ Return(p, "none", "idle")
    /\ UNCHANGED <<setup, consul, read, modifyIndex, hash, n, nextLineage,
                   unchecked, rising>>

\* Anything may replace an empty state, or one without a lineage.
Comparable(f, old) == old.state \notin {Nil, Empty} /\ 0 \notin {f.lineage, old.lineage}

\* Mutant: an older snapshot may be imported.
CheckValidImportAnySerial(f, old) ==
    Comparable(f, old) => f.lineage = old.lineage

CheckValidImport(f, old) ==
    Comparable(f, old) =>
        /\ f.lineage = old.lineage
        /\ f.serial > old.serial \/ (f.serial = old.serial /\ f.state = old.state)

\* Called with force by Migrate and by "state push -force".
WriteStateForMigration(p, f, force) ==
    /\ Call(p)
    /\ force \/ CheckValidImport(f, mem[p])
    /\ mem' = [mem EXCEPT ![p] = f]
    /\ written' = [written EXCEPT ![p] = f.state]
    /\ unchecked' = [unchecked EXCEPT ![p] = @ \/ force \/ ~Comparable(f, mem[p])]
    /\ Return(p, "none", "idle")
    /\ UNCHANGED <<setup, consul, read, modifyIndex, hash, n, nextLineage, rising>>

\* Mutant: every call refreshes first.
PersistStateRefreshes(p) ==
    /\ Call(p)
    /\ Return(p, "persist", "get")
    /\ UNCHANGED <<setup, consul, mem, read, modifyIndex, hash, n, nextLineage, written,
                   unchecked, rising>>

PersistState(p) ==
    /\ Call(p)
    /\ IF read[p] = Nil
       THEN Return(p, "persist", "get") /\ UNCHANGED mem
       ELSE IF mem[p] = read[p] /\ 0 \notin {read[p].lineage, read[p].serial}
       THEN Return(p, "persisted", "idle") /\ UNCHANGED mem
       ELSE /\ Return(p, "persist", "check")
            /\ mem' = [mem EXCEPT ![p].serial = @ + 1]
    /\ UNCHANGED <<setup, consul, read, modifyIndex, hash, n, nextLineage, written,
                   unchecked, rising>>

\* The snapshot that is serialised: a nil state is written as the empty one.
Body(p) == IF mem[p].state = Nil THEN [mem[p] EXCEPT !.state = Empty] ELSE mem[p]

\* PersistState after Client.Put has succeeded.
Persisted(p) ==
    /\ read' = [read EXCEPT ![p] = IF mem[p].state = Nil THEN Nil ELSE mem[p]]
    /\ unchecked' = [unchecked EXCEPT ![p] = FALSE]
    /\ Return(p, "persisted", "idle")

-----------------------------------------------------------------------------
(* RemoteClient.Put                                                        *)

\* The first request looks for chunks to clean up.  A large state is first
\* sent whole, which Consul refuses without effect.
ChunkedMode(p) ==
    /\ At(p, "check")
    /\ hash' = [hash EXCEPT ![p] = IF link.chunked THEN link.body ELSE Nil]
    /\ n' = [n EXCEPT ![p] = 1]
    /\ Goto(p, IF mem[p].state \in Large THEN "putChunk" ELSE "store")
    /\ UNCHANGED <<setup, consul, mem, read, modifyIndex, call, nextLineage,
                   calls, written, unchecked, rising>>

\* Mutant: one chunk too many.
PutChunkOffByOne(p) ==
    /\ At(p, "putChunk")
    /\ chunks' = chunks \cup {<<Body(p), n[p]>>}
    /\ IF n[p] <= Chunk
       THEN n' = [n EXCEPT ![p] = @ + 1] /\ UNCHANGED pc
       ELSE Goto(p, "store") /\ UNCHANGED n
    /\ UNCHANGED <<setup, link, index, mem, read, modifyIndex, hash, call,
                   nextLineage, calls, written, unchecked, rising>>

\* Mutant: the link is written although a chunk was not.
PutChunkUnchecked(p) ==
    /\ At(p, "putChunk")
    /\ chunks' \in {chunks, chunks \cup {<<Body(p), n[p]>>}}
    /\ IF n[p] < Chunk
       THEN n' = [n EXCEPT ![p] = @ + 1] /\ UNCHANGED pc
       ELSE Goto(p, "store") /\ UNCHANGED n
    /\ UNCHANGED <<setup, link, index, mem, read, modifyIndex, hash, call,
                   nextLineage, calls, written, unchecked, rising>>

PutChunk(p) ==
    /\ At(p, "putChunk")
    /\ chunks' = chunks \cup {<<Body(p), n[p]>>}
    /\ IF n[p] < Chunk
       THEN n' = [n EXCEPT ![p] = @ + 1] /\ UNCHANGED pc
       ELSE Goto(p, "store") /\ UNCHANGED n
    /\ UNCHANGED <<setup, link, index, mem, read, modifyIndex, hash, call,
                   nextLineage, calls, written, unchecked, rising>>

\* Mutant: always a plain Set.
StoresUnconditionally(p) == TRUE

\* A CAS, but a plain Set when there is no index to compare with.
Stores(p) == modifyIndex[p] \in {0, index}

\* The transaction has its effect.
Replace(p) ==
    /\ link' = Link(Body(p)) /\ index' = index + 1
    /\ rising' = (rising /\ (link.body = Nil \/ Body(p).serial > link.body.serial))

Store(p) ==
    /\ At(p, "store") /\ Stores(p)
    /\ Replace(p)
    /\ modifyIndex' = [modifyIndex EXCEPT ![p] = index']
    /\ IF hash[p] = Nil
       THEN Persisted(p)
       ELSE Goto(p, "clean") /\ UNCHANGED <<read, call, unchecked>>
    /\ UNCHANGED <<setup, chunks, mem, hash, n, nextLineage, calls, written>>

\* The connection breaks after Consul has applied the transaction.
StoreAnswerLost(p) ==
    /\ setup.lossy /\ At(p, "store") /\ Stores(p)
    /\ Replace(p)
    /\ Fails(p)
    /\ UNCHANGED <<setup, chunks, mem, read, modifyIndex, hash, n, nextLineage,
                   calls, written, unchecked>>

CASFails(p) ==
    /\ At(p, "store") /\ ~Stores(p)
    /\ Fails(p)
    /\ UNCHANGED <<setup, consul, mem, read, modifyIndex, hash, n, nextLineage,
                   calls, written, unchecked, rising>>

\* DeleteTree of the previous hash; its errors are ignored.
CleanupOldChunks(p) ==
    /\ At(p, "clean")
    /\ chunks' \in {chunks, chunks \ ChunksOf(hash[p])}
    /\ Persisted(p)
    /\ UNCHANGED <<setup, link, index, mem, modifyIndex, hash, n, nextLineage,
                   calls, written, rising>>

-----------------------------------------------------------------------------
\* What is persisted has been read or written, except by StateHook.Stopping,
\* which may come before the first write of a first apply.
Persists(p) == (mem[p].state # Nil \/ setup.early) /\ PersistState(p)

Next ==
    \/ DeleteWorkspace
    \/ \E p \in Proc :
        \/ Begin(p) \/ Exit(p)
        \/ RefreshState(p) \/ GetLink(p) \/ GetChunk(p) \/ RequestFails(p)
        \/ \E s \in State : WriteState(p, s)
        \/ \E f \in Files, force \in BOOLEAN : WriteStateForMigration(p, f, force)
        \/ Persists(p) \/ ChunkedMode(p) \/ PutChunk(p)
        \/ Store(p) \/ StoreAnswerLost(p) \/ CASFails(p) \/ CleanupOldChunks(p)

Spec == Init /\ [][Next]_vars

-----------------------------------------------------------------------------
(* Properties                                                              *)

\* What the link names can be read: its chunks are written before it, and
\* are cleaned up only when it names others.  After a forced import the serial
\* may go back, and a snapshot be put again whose chunks are about to be removed.
ChunksIntact == link.chunked /\ rising => ChunksOf(link.body) \subseteq chunks

\* A PersistState without error knows the state that was written last to be
\* the one it stored.
PersistedIsWritten ==
    \A p \in Proc : call[p] = "persisted" =>
        written[p] = (IF read[p] = Nil THEN Nil ELSE read[p].state)

\* A snapshot is replaced only by one of the same lineage and a greater
\* serial, also by commands that lost the lock or retry after an error, while
\* others force theirs; unless the command itself has imported a snapshot with
\* force, or one that cannot be compared.
SerialGrows ==
    [][\A p \in Proc :
         (Store(p) \/ StoreAnswerLost(p)) /\ link.body # Nil /\ ~unchecked[p]
         => /\ link'.body.lineage = link.body.lineage
            /\ link'.body.serial > link.body.serial]_vars

\* The snapshot a command knows: what it last read or stored, also while it
\* reads the chunks of a link or cleans up.  A manager that has read nothing
\* asks again before each Put.
View(p) ==
    CASE At(p, "getChunk") -> hash[p]
      [] At(p, "clean")    -> Body(p)
      [] pc[p] \in {"check", "putChunk", "store"} -> read[p]
      [] pc[p] \in {"get", "idle"} /\ read[p] # Nil -> read[p]
      [] OTHER -> Unread

Store_ == INSTANCE SnapshotStore WITH
    stored <- link.body, view <- [p \in Proc |-> View(p)]

\* No command replaces a snapshot it does not know, and a refresh returns a
\* snapshot that was stored at one moment: the manager implements SnapshotStore,
\* without the lock where a snapshot exists and stays.  A first snapshot is put
\* with an index of 0 and without a comparison, which only the lock makes safe.
ImplementsSnapshotStore == Store_!Spec
=============================================================================
