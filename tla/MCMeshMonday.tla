---------------------------- MODULE MCMeshMonday ----------------------------
(***************************************************************************)
(* Small instances of MeshMonday for TLC.                                  *)
(***************************************************************************)
EXTENDS MeshMondayInv, TLC

CONSTANTS p1, p2, p3, u1, u2

\* p1 and p2 are tagged messages of one user; p3 is other traffic ...
MCPackets == {p1, p2, p3}
MCUsers == {u1}
MCIngestSender == [p \in MCPackets |-> IF p = p3 THEN NoSender ELSE u1]

\* ... except for the restore tool, when it knows one channel more.
MCRestoreSender == [p \in MCPackets |-> u1]

\* Two users with one packet each.
TwoPackets == {p1, p2}
TwoUsers == {u1, u2}
TwoSenders == [p \in TwoPackets |-> IF p = p1 THEN u1 ELSE u2]

\* One tagged packet and one other.
OneTagged == [p \in TwoPackets |-> IF p = p1 THEN u1 ELSE NoSender]
BothTagged == [p \in TwoPackets |-> u1]

\* Neither calls nor observers are distinguished by anything.
Interchangeable == Permutations(Handlers) \cup Permutations(Observers)

Nothing == {}
Busy == {"busy"}
Crashes == {"crash"}
BusyAndCrashes == {"busy", "crash"}
Restores == {"restore"}
Everything == {"busy", "crash", "restore"}
=============================================================================
