---------------------------- MODULE MCRemoteState ----------------------------
(* Instances of RemoteState for TLC.                                       *)
EXTENDS RemoteState

CONSTANTS p1, p2, small, large

\* Either commands with an unreliable connection share a snapshot that exists,
\* or commands with a reliable one share one that may be created and deleted.
MCSetups ==
    [exists : {TRUE}, lossy : {TRUE}, deleted : {FALSE}, early : {FALSE}]
    \cup [exists : BOOLEAN, lossy : {FALSE}, deleted : {TRUE}, early : {FALSE}]

\* The snapshot is created over an unreliable connection.
MCCreate == [exists : {FALSE}, lossy : {TRUE}, deleted : {FALSE}, early : {FALSE}]

\* It is created over a reliable one, but a stop may come before the first write.
MCStopped == [exists : {FALSE}, lossy : {FALSE}, deleted : {FALSE}, early : {TRUE}]

\* Snapshots to import: older than those of the commands, newer, of another
\* lineage, and without one.
MCFiles == {[lineage |-> m[1], serial |-> m[2], state |-> large] :
               m \in {<<1, 0>>, <<1, 2>>, <<9, 2>>, <<0, 2>>}}
=============================================================================
