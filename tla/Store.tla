------------------------------- MODULE Store -------------------------------
(***************************************************************************)
(* The SQLite database of internal/storage: its four live tables as sets   *)
(* of rows, and the statements the program runs against them.  Every       *)
(* statement is one autocommitted transaction, so each is one step.        *)
(*                                                                         *)
(* A packet is identified by its hash (UNIQUE in raw_packets).  Columns    *)
(* nothing reads back (topic, payload, names, created_at) are left out.    *)
(***************************************************************************)
EXTENDS Clock, FiniteSets

CONSTANTS
  Packets,    \* packet hashes
  Users,      \* normalised user names
  Observers,  \* observer keys
  Iatas,      \* region codes
  Env         \* what the environment may do: "busy", "crash", "restore"

ASSUME EnvAssumption == Env \subseteq {"busy", "crash", "restore"}

VARIABLES
  rawPackets,   \* table raw_packets
  rawSeq,       \* its AUTOINCREMENT counter
  checkins,     \* table checkins
  checkinSeq,   \* its AUTOINCREMENT counter
  observations, \* table packet_observations
  links         \* table checkin_packets

checkinVars == <<checkins, checkinSeq>>
storeVars == <<rawPackets, rawSeq, checkinVars, observations, links>>

RawRows == [id : Nat, hash : Packets, iata : Iatas, at : Instants]
CheckinRows == [id : Nat, hash : Packets, user : Users, week : Nat]
ObservationRows == [hash : Packets, observer : Observers]
LinkRows == [week : Nat, user : Users, hash : Packets]

StoreTypeOK ==
  /\ rawPackets \subseteq RawRows /\ rawSeq \in Nat
  /\ checkins \subseteq CheckinRows /\ checkinSeq \in Nat
  /\ observations \subseteq ObservationRows
  /\ links \subseteq LinkRows

\* A new database file: the schema has just been created.
StoreInit ==
  /\ rawPackets = {} /\ rawSeq = 0
  /\ checkins = {} /\ checkinSeq = 0
  /\ observations = {}
  /\ links = {}

HashesOf(rows) == {r.hash : r \in rows}

\* FOREIGN KEY(packet_hash) REFERENCES raw_packets(packet_hash)
ForeignKeyOK(p) == p \in HashesOf(rawPackets)

\* A statement that keeps failing: SQLITE_BUSY outlives the retries.
StatementFails == "busy" \in Env /\ UNCHANGED storeVars

-----------------------------------------------------------------------------
\* Mutant: INSERT OR REPLACE.
ReplaceRawPacket(p, i, t) ==
  /\ rawPackets' = {r \in rawPackets : r.hash # p} \cup
                     {[id |-> rawSeq + 1, hash |-> p, iata |-> i, at |-> t]}
  /\ rawSeq' = rawSeq + 1
  /\ UNCHANGED <<checkinVars, observations, links>>

\* A second insert of a hash is the UNIQUE error that is reported as
\* "not inserted".
InsertRawPacket(p, i, t) ==
  /\ IF ForeignKeyOK(p)
     THEN UNCHANGED <<rawPackets, rawSeq>>
     ELSE /\ rawPackets' = rawPackets \cup
               {[id |-> rawSeq + 1, hash |-> p, iata |-> i, at |-> t]}
          /\ rawSeq' = rawSeq + 1
  /\ UNCHANGED <<checkinVars, observations, links>>

\* Mutant: a packet has one observer, the last.
KeepLastObservation(p, o) ==
  /\ observations' = {x \in observations : x.hash # p} \cup
                       {[hash |-> p, observer |-> o]}
  /\ UNCHANGED <<rawPackets, rawSeq, checkinVars, links>>

\* A dangling hash is an error and changes nothing.
InsertPacketObservation(p, o) ==
  /\ observations' = IF ForeignKeyOK(p)
                     THEN observations \cup {[hash |-> p, observer |-> o]}
                     ELSE observations
  /\ UNCHANGED <<rawPackets, rawSeq, checkinVars, links>>

\* Mutant: a connection without PRAGMA foreign_keys.
InsertDanglingLink(w, u, p) ==
  /\ links' = links \cup {[week |-> w, user |-> u, hash |-> p]}
  /\ UNCHANGED <<rawPackets, rawSeq, checkinVars, observations>>

InsertCheckinPacket(w, u, p) ==
  /\ links' = IF ForeignKeyOK(p)
              THEN links \cup {[week |-> w, user |-> u, hash |-> p]}
              ELSE links
  /\ UNCHANGED <<rawPackets, rawSeq, checkinVars, observations>>

\* Mutant: the unique index is on username alone.
ConflictInAnyWeek(p, u, w) == \E c \in checkins : c.hash = p \/ c.user = u

\* UNIQUE(packet_hash) and the unique index on (week_start, username).
CheckinConflict(p, u, w) ==
  \E c \in checkins : c.hash = p \/ (c.user = u /\ c.week = w)

\* ON CONFLICT DO NOTHING.
InsertCheckin(p, u, w) ==
  /\ IF ForeignKeyOK(p) /\ ~CheckinConflict(p, u, w)
     THEN /\ checkins' = checkins \cup
               {[id |-> checkinSeq + 1, hash |-> p, user |-> u, week |-> w]}
          /\ checkinSeq' = checkinSeq + 1
     ELSE UNCHANGED checkinVars
  /\ UNCHANGED <<rawPackets, rawSeq, observations, links>>

NotOf(rows, gone) == {r \in rows : r.hash \notin gone}

\* DELETE ... WHERE id IN (ids), with ON DELETE CASCADE in three tables.
DeleteRawPackets(ids) ==
  LET gone == HashesOf({r \in rawPackets : r.id \in ids})
  IN  /\ rawPackets' = {r \in rawPackets : r.id \notin ids}
      /\ checkins' = NotOf(checkins, gone)
      /\ observations' = NotOf(observations, gone)
      /\ links' = NotOf(links, gone)
      /\ UNCHANGED <<rawSeq, checkinSeq>>

\* Mutant: the second half of the UNION is forgotten.
CheckinHashesOnly == HashesOf(checkins)

\* SELECT packet_hash FROM checkins UNION SELECT ... FROM checkin_packets
ProtectedPacketHashes == HashesOf(checkins) \cup HashesOf(links)

-----------------------------------------------------------------------------
\* Mutant: GROUP BY username.
CanonicalPerUser(rows) ==
  {c \in rows : \A d \in rows : d.user = c.user => c.id =< d.id}

\* Mutant: GROUP BY iata, week_start, username, as the old index had it.
CanonicalPerRegion(rows) ==
  LET Region(c) == (CHOOSE r \in rawPackets : r.hash = c.hash).iata
  IN  {c \in rows :
         \A d \in rows :
           d.week = c.week /\ d.user = c.user /\ Region(d) = Region(c)
             => c.id =< d.id}

\* The first check-in of each (week, user) group.
Canonical(rows) ==
  {c \in rows : \A d \in rows :
                  d.week = c.week /\ d.user = c.user => c.id =< d.id}

LinkOf(c) == [week |-> c.week, user |-> c.user, hash |-> c.hash]

\* What opening the database does to its rows: surplus check-ins are deleted,
\* and every check-in that is left gets its link row.
Migrate ==
  /\ checkins' = Canonical(checkins)
  /\ links' = links \cup {LinkOf(c) : c \in checkins'}
  /\ UNCHANGED <<rawPackets, rawSeq, checkinSeq, observations>>
=============================================================================
