------------------------------- MODULE Ingest ------------------------------
(***************************************************************************)
(* internal/ingest: Service.HandleMessage, called by the MQTT client for   *)
(* each message.  The handler stores a packet, an observation, a link and  *)
(* a check-in with four separate statements; nothing ties them together,   *)
(* so another process or the retention loop may run between any two.       *)
(***************************************************************************)
EXTENDS Store

CONSTANTS
  Handlers,      \* calls of HandleMessage that may be in progress
  NoMessage,     \* a handler that has no message
  IngestSender,  \* what ExtractFromPacket finds with the server's keys
  NoSender,      \* ... when the packet is no check-in
  MaxRaw         \* bound: how many rows raw_packets is ever given

ASSUME SenderAssumption ==
  /\ IngestSender \in [Packets -> Users \cup {NoSender}]
  /\ NoSender \notin Users

ASSUME MaxRawAssumption == MaxRaw \in Nat

VARIABLES pc, msg, inserted   \* per handler: next statement, message, flag

ingestVars == <<pc, msg, inserted>>

Messages ==
  [packet : Packets, observer : Observers, iata : Iatas, at : Instants]

IngestTypeOK ==
  /\ pc \in [Handlers -> {"idle", "raw", "observe", "link", "checkin"}]
  /\ msg \in [Handlers -> Messages \cup {NoMessage}]
  /\ inserted \in [Handlers -> BOOLEAN]
  /\ \A h \in Handlers : pc[h] # "idle" => msg[h] \in Messages

IngestInit ==
  /\ pc = [h \in Handlers |-> "idle"]
  /\ msg = [h \in Handlers |-> NoMessage]
  /\ inserted = [h \in Handlers |-> FALSE]

Goto(h, next) == pc' = [pc EXCEPT ![h] = next] /\ UNCHANGED <<msg, inserted>>

Return(h) ==
  /\ pc' = [pc EXCEPT ![h] = "idle"]
  /\ msg' = [msg EXCEPT ![h] = NoMessage]
  /\ inserted' = [inserted EXCEPT ![h] = FALSE]

-----------------------------------------------------------------------------
\* A message that passes the topic, envelope and decode checks (any other one
\* returns before the first statement).  The broker may deliver any packet,
\* from any observer, any number of times; ObservedAt is read on arrival.
Receive(h) ==
  /\ pc[h] = "idle"
  /\ rawSeq < MaxRaw
  /\ \E p \in Packets, o \in Observers, i \in Iatas :
       msg' = [msg EXCEPT ![h] =
                 [packet |-> p, observer |-> o, iata |-> i, at |-> now]]
  /\ pc' = [pc EXCEPT ![h] = "raw"]
  /\ UNCHANGED <<inserted, storeVars>>

StoreRaw(h) ==
  /\ pc[h] = "raw"
  /\ \/ /\ InsertRawPacket(msg[h].packet, msg[h].iata, msg[h].at)
        /\ inserted' = [inserted EXCEPT ![h] = ~ForeignKeyOK(msg[h].packet)]
        /\ pc' = [pc EXCEPT ![h] = "observe"]
        /\ UNCHANGED msg
     \/ StatementFails /\ Return(h)

\* Mutant: one of the two early returns is missing.
YieldsOnAnyDay(h) == inserted[h] /\ IngestSender[msg[h].packet] # NoSender

\* Only the call that stored the packet goes on, and only with a check-in
\* that was heard on a Monday.
YieldsCheckin(h) ==
  /\ inserted[h]
  /\ IngestSender[msg[h].packet] # NoSender
  /\ IsMonday(msg[h].at)

\* Mutant: no link is inserted.
ObserveThenCheckin(h) ==
  /\ pc[h] = "observe"
  /\ InsertPacketObservation(msg[h].packet, msg[h].observer)
  /\ IF YieldsCheckin(h) THEN Goto(h, "checkin") ELSE Return(h)

Observe(h) ==
  /\ pc[h] = "observe"
  /\ \/ InsertPacketObservation(msg[h].packet, msg[h].observer)
     \/ StatementFails
  /\ IF YieldsCheckin(h) THEN Goto(h, "link") ELSE Return(h)

\* A failed link is logged and the handler goes on.
Link(h) ==
  /\ pc[h] = "link"
  /\ \/ InsertCheckinPacket(MondayOf(msg[h].at),
                            IngestSender[msg[h].packet], msg[h].packet)
     \/ StatementFails
  /\ Goto(h, "checkin")

Checkin(h) ==
  /\ pc[h] = "checkin"
  /\ \/ InsertCheckin(msg[h].packet, IngestSender[msg[h].packet],
                      MondayOf(msg[h].at))
     \/ StatementFails
  /\ Return(h)

HandleMessage(h) == StoreRaw(h) \/ Observe(h) \/ Link(h) \/ Checkin(h)

\* The process dies: whatever its handlers knew is lost.
DropHandlers ==
  /\ pc' = [h \in Handlers |-> "idle"]
  /\ msg' = [h \in Handlers |-> NoMessage]
  /\ inserted' = [h \in Handlers |-> FALSE]
=============================================================================
