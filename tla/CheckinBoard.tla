---------------------------- MODULE CheckinBoard ----------------------------
(***************************************************************************)
(* What MeshMonday promises its users, without storage, handlers, retries  *)
(* or crashes: the packets heard on Mondays are archived, and a user may   *)
(* be put on a week's board, once and for good, for a packet heard then.   *)
(***************************************************************************)
CONSTANTS
  Packets,
  Sender,    \* the user who checks in with a packet
  NoSender,  \* ... of a packet that is no check-in
  Weeks

VARIABLES
  archive,   \* packets heard on a Monday, with the week
  board      \* who checked in, in which week, with which packet

Init == archive = {} /\ board = {}

OnBoard(p) == \E b \in board : b.packet = p

\* A packet is heard for the first time as far as the archive can tell.
Hear(p, w) ==
  /\ \A a \in archive : a.packet # p
  /\ archive' = archive \cup {[packet |-> p, week |-> w]}
  /\ UNCHANGED board

\* Old packets are forgotten, but none that the board refers to.
Forget(old) ==
  /\ \A a \in old : ~OnBoard(a.packet)
  /\ archive' = archive \ old
  /\ UNCHANGED board

\* The sender of an archived packet checks in, unless he has already.
Post(a) ==
  /\ Sender[a.packet] # NoSender
  /\ \A b \in board : b.user # Sender[a.packet] \/ b.week # a.week
  /\ board' = board \cup
       {[packet |-> a.packet, user |-> Sender[a.packet], week |-> a.week]}
  /\ UNCHANGED archive

Next ==
  \/ \E p \in Packets, w \in Weeks : Hear(p, w)
  \/ \E old \in SUBSET archive : Forget(old)
  \/ \E a \in archive : Post(a)

Spec == Init /\ [][Next]_<<archive, board>>
=============================================================================
