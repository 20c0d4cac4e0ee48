------------------------------ MODULE Regions ------------------------------
(***************************************************************************)
(* The path of a region code through the program: the operator's settings  *)
(* IATA_FILTERS, IATA_DEFAULT and MQTT_TOPIC_TEMPLATE (internal/config),   *)
(* the topic that is subscribed to (cmd/server), the code stored with a    *)
(* packet (internal/ingest), and the filter of the web pages.              *)
(*                                                                         *)
(* A code is a word, spelled in capitals or not.  The blanks that the      *)
(* settings may have around a code are trimmed, and are left out here;     *)
(* IATA_DEFAULT is taken to be one code, not a list.                       *)
(***************************************************************************)
EXTENDS Naturals, Sequences, FiniteSets, Functions

CONSTANTS
  Regions,     \* the words that are region codes
  LongWords,   \* those that are not 3 or 4 letters long
  MaxEntries,  \* bound: entries of IATA_FILTERS
  MaxPublished  \* bound: messages published

ASSUME RegionsAssumption ==
  /\ LongWords \subseteq Regions
  /\ Regions \cap {"", "ALL", "*", "ANY"} = {}

AllWords == {"ALL", "*", "ANY"}
SpelledWords == [word : Regions \cup AllWords \cup {""}, capitals : BOOLEAN]
Codes == {s \in SpelledWords : s.word \in Regions}
Blank == [word |-> "", capitals |-> TRUE]

VARIABLES
  raw,        \* IATA_FILTERS, split at its commas
  fallback,   \* IATA_DEFAULT
  template,   \* "any" (meshcore/+/+/packets) or "own" (meshcore/{IATA}/...)
  state,      \* of the server: "starting", "exited" or "serving"
  filters,    \* Config.IATAFilters; the empty set: no filter
  published,  \* regions of the messages published, as the topics spell them
  stored      \* of those the server stored: the topic's spelling, the column

settings == <<raw, fallback, template>>
regionVars == <<settings, state, filters, published, stored>>

ToUpper(s) == [s EXCEPT !.capitals = TRUE]

\* isAllIATAValue
IsAll(s) == s.word \in AllWords \cup {""}

-----------------------------------------------------------------------------
\* parseIATAFilters: a blank setting stands for the default; blank entries are
\* skipped, and one entry that means all regions is enough.
ParseIATAFilters(list, default) ==
  LET value == IF list = <<Blank>> THEN <<default>> ELSE list
      entries == {s \in Range(value) : s.word # ""}
  IN  IF \E s \in entries : IsAll(s) THEN {} ELSE {ToUpper(s) : s \in entries}

\* Validate: codes have 3 or 4 letters.
Valid(list) == \A s \in list : s.word \notin LongWords

\* TopicForIATA(IATADefault): the region level of the topic subscribed to.
TopicRegion == IF template = "any" THEN "+" ELSE ToUpper(fallback)

\* What the broker delivers; topic levels are compared letter by letter.
Heard(s) == template = "any" \/ s = TopicRegion

\* Mutant: the code as the topic spells it.
TopicIata(s) == s

\* parseTopic
ParseTopic(s) == ToUpper(s)

RegionsInit ==
  /\ \E n \in 1..MaxEntries : raw \in [1..n -> SpelledWords]
  /\ fallback \in SpelledWords
  /\ template \in {"any", "own"}
  /\ state = "starting"
  /\ filters = {} /\ published = {} /\ stored = {}

\* config.Load; on an invalid setting main exits.
Load ==
  /\ state = "starting"
  /\ filters' = ParseIATAFilters(raw, fallback)
  /\ state' = IF Valid(filters') THEN "serving" ELSE "exited"
  /\ UNCHANGED <<settings, published, stored>>

\* A gateway publishes a packet of its region.
Publish ==
  /\ state = "serving"
  /\ \E s \in Codes \ published :
       /\ published' = published \cup {s}
       /\ stored' = IF Heard(s)
                    THEN stored \cup {[topic |-> s, iata |-> ParseTopic(s)]}
                    ELSE stored
  /\ Cardinality(published') =< MaxPublished
  /\ UNCHANGED <<settings, state, filters>>

RegionsNext == Load \/ Publish

RegionsSpec == RegionsInit /\ [][RegionsNext]_regionVars

\* The region filter of the pages.
PassesFilter(iata) == filters = {} \/ iata \in filters

-----------------------------------------------------------------------------
\* What the operator asked for: every region, if the list names none or names
\* one of the words for all; else those it names.  IATA_DEFAULT is what an
\* empty list means.
AskedFor(word) ==
  LET list == IF raw = <<Blank>> THEN {fallback.word}
              ELSE {s.word : s \in Range(raw)}
  IN  word \in list \/ list \cap AllWords # {} \/ list \subseteq {""}

\* A stored packet passes the filter exactly if the operator asked for its
\* region, in whatever case the settings and the topic spell it.  And "ingest
\* subscribes to all IATAs via meshcore/+/+/packets", the rest is "display/query
\* filtering": with that template no packet asked for goes unheard.
ShownIfAskedFor ==
  /\ \A p \in stored : PassesFilter(p.iata) <=> AskedFor(p.topic.word)
  /\ template = "any" =>
       \A s \in published :
         AskedFor(s.word) => \E p \in stored : p.topic = s
=============================================================================
