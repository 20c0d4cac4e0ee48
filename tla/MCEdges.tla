------------------------------ MODULE MCEdges -------------------------------
(***************************************************************************)
(* The components around the database that share no state, for TLC: the    *)
(* way of a packet in (subscriptions, frames, regions, channels and names, *)
(* retries), and the ranking that goes out.  Each has behaviours of its    *)
(* own, in which the others rest in one of their initial states; the MQTT  *)
(* client, which alone is treated fairly, rests when it has been closed.   *)
(***************************************************************************)
EXTENDS MqttConsumer, MeshPacket, Regions, Extract, BusyRetry, Leaderboard

-----------------------------------------------------------------------------
(* MqttConsumer: two topics, and two connections (MaxConnections) *)

CONSTANTS t1, t2

TwoTopics == {t1, t2}

\* The client has had a connection and was closed.
ConsumerRests ==
  /\ subs = {} /\ client = "closed" /\ opened = 1
  /\ session = NoAnswers
  /\ caller = [t \in Topics |-> "idle"]
  /\ resub = [n \in Connections |->
                [pc |-> IF n = 1 THEN "done" ELSE "none",
                 todo |-> {}, topic |-> {}]]
  /\ loop = "done"

-----------------------------------------------------------------------------
(* MeshPacket: group texts and adverts on all four kinds of routes.  The   *)
(* bytes of paths, codes and payloads are such as a path length byte could *)
(* be mistaken for: no hop, three hops of one byte, a hop of four bytes.   *)

AllRoutes == {4 * type + route : type \in {4, 5}, route \in 0..3}
TrickyBytes == {0, 3, 193}
TrickyCodes == {<<0, 0, 0, 0>>, <<193, 0, 3, 64>>}
TrickyPayloads == {<<>>, <<3>>, <<193, 0, 3>>, <<0, 65, 1, 193, 3>>}

NoFrame == Originate(21, <<0, 0, 0, 0>>, 1, <<>>)

-----------------------------------------------------------------------------
(* Regions: three regions, one with too long a code *)

MCRegions == {"SEA", "PDX", "SALEM"}
MCLongWords == {"SALEM"}

-----------------------------------------------------------------------------
(* Extract: the hash bytes of the public key, of one hashtag channel and   *)
(* of the private key are the same.                                        *)

Name(words, between, shape) ==
  [words |-> words, between |-> between, shape |-> shape]

\* "ann b" and "Ann-B", a name of symbols only, and one with its region in
\* brackets.
SomeNames ==
  {Name(<<"ann", "b">>, " ", "plain"),
   Name(<<"ann", "b">>, "-", "plain"),
   Name(<<>>, "bear", "plain"),
   Name(<<"ann", "sea">>, " []", "bracket")}

ChannelNames == {"meshmonday", "bot"}

SharedByte ==
  [k \in AnyKey |->
     IF k \in {PublicKey, PrivateKey("k")}
              \cup {KeyOf(Normal(ch)) :
                      ch \in {s \in Spellings : s.name = "bot"}}
     THEN 17 ELSE 99]

-----------------------------------------------------------------------------
(* Leaderboard: five consecutive Mondays *)

TwoUsers == {1, 2}
FiveMondays == {0, 7, 14, 21, 28}

-----------------------------------------------------------------------------
VARIABLE working   \* the component that works in this behaviour

edgesVars ==
  <<mqttVars, packetVars, regionVars, extractVars, busyVars, rows, working>>

EdgesInit ==
  /\ working \in {"consumer", "packet", "regions", "extract", "retry",
                  "ranking"}
  /\ IF working = "consumer" THEN MqttInit ELSE ConsumerRests
  /\ IF working = "packet" THEN PacketInit ELSE NoFrame
  /\ RegionsInit
  /\ working # "regions" => /\ raw = <<Blank>> /\ fallback = Blank
                            /\ template = "any"
  /\ ExtractInit
  /\ working # "extract" => hashtags = <<>> /\ private = <<>>
  /\ BusyInit
  /\ Init

ConsumerWorks ==
  /\ working = "consumer"
  /\ MqttNext
  /\ UNCHANGED <<packetVars, regionVars, extractVars, busyVars, rows, working>>

PacketTravels ==
  /\ working = "packet"
  /\ PacketNext
  /\ UNCHANGED <<mqttVars, regionVars, extractVars, busyVars, rows, working>>

RegionsWork ==
  /\ working = "regions"
  /\ RegionsNext
  /\ UNCHANGED <<mqttVars, packetVars, extractVars, busyVars, rows, working>>

ExtractWorks ==
  /\ working = "extract"
  /\ ExtractNext
  /\ UNCHANGED <<mqttVars, packetVars, regionVars, busyVars, rows, working>>

RetryWorks ==
  /\ working = "retry"
  /\ BusyNext
  /\ UNCHANGED <<mqttVars, packetVars, regionVars, extractVars, rows, working>>

RankingGrows ==
  /\ working = "ranking"
  /\ AddCheckin
  /\ UNCHANGED <<mqttVars, packetVars, regionVars, extractVars, busyVars,
                 working>>

EdgesNext ==
  ConsumerWorks \/ PacketTravels \/ RegionsWork \/ ExtractWorks \/ RetryWorks
    \/ RankingGrows

EdgesSpec == EdgesInit /\ [][EdgesNext]_edgesVars /\ MqttFairness
=============================================================================
