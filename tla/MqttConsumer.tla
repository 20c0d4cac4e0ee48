---------------------------- MODULE MqttConsumer ----------------------------
(***************************************************************************)
(* internal/mqtt: how the topics that the program asks for become          *)
(* subscriptions at the broker, and stay so when connections are lost.     *)
(*                                                                         *)
(* Three kinds of goroutines share the client: callers of Subscribe (one   *)
(* per topic), the OnConnect callback of each connection, and the loop     *)
(* connectMQTTWithRetry.  The client is the paho library, seen from how    *)
(* this package uses it: it reconnects on its own, its session is clean,   *)
(* and a lost connection fails every SUBSCRIBE that is not answered yet.   *)
(***************************************************************************)
EXTENDS Integers

CONSTANTS
  Topics,          \* topics the program subscribes to
  Refusing,        \* may the broker refuse a SUBSCRIBE?
  MaxConnections   \* bound: how many connections are ever opened

ASSUME MqttAssumption == Refusing \in BOOLEAN /\ MaxConnections \in Nat

VARIABLES
  subs,     \* Consumer.subs
  client,   \* state of the paho client
  opened,   \* how many connections it has opened; the last one is present
  session,  \* what the broker answered to each topic on this connection
  caller,   \* per topic: progress of the call of Subscribe
  resub,    \* per connection: progress of its resubscribeAll
  loop      \* progress of connectMQTTWithRetry

mqttVars == <<subs, client, opened, session, caller, resub, loop>>

Connections == 1..MaxConnections

\* A resubscribeAll at `wait` waits for the answer to `topic`; `todo` are the
\* topics of its copy that it has not finished.
Resubscriptions ==
  [pc : {"none", "copy", "next", "wait", "done"},
   todo : SUBSET Topics,
   topic : SUBSET Topics]

MqttTypeOK ==
  /\ subs \subseteq Topics
  /\ client \in {"new", "connecting", "open", "reconnecting", "closed"}
  /\ opened \in 0..MaxConnections
  /\ session \in [Topics -> {"none", "granted", "refused"}]
  /\ caller \in [Topics -> {"idle", "check", "send", "wait", "nil", "error"}]
  /\ resub \in [Connections -> Resubscriptions]
  /\ loop \in {"connect", "wait", "sleep", "done"}

NoAnswers == [t \in Topics |-> "none"]

MqttInit ==
  /\ subs = {}
  /\ client = "new"
  /\ opened = 0
  /\ session = NoAnswers
  /\ caller = [t \in Topics |-> "idle"]
  /\ resub = [n \in Connections |-> [pc |-> "none", todo |-> {}, topic |-> {}]]
  /\ loop = "connect"

IsConnectionOpen == client = "open"

-----------------------------------------------------------------------------
(* Subscribe *)

CallerAt(t, here, there) ==
  /\ caller[t] = here
  /\ caller' = [caller EXCEPT ![t] = there]

\* The subscription is registered first, under the mutex ...
Register(t) ==
  /\ CallerAt(t, "idle", "check")
  /\ subs' = subs \cup {t}
  /\ UNCHANGED <<client, opened, session, resub, loop>>

\* Mutant: whoever is connected has subscribed already.
LeaveToOnConnect(t) ==
  /\ CallerAt(t, "check", "nil")
  /\ UNCHANGED <<subs, client, opened, session, resub, loop>>

\* ... and without a connection that is all.
CheckOpen(t) ==
  /\ CallerAt(t, "check", IF IsConnectionOpen THEN "send" ELSE "nil")
  /\ UNCHANGED <<subs, client, opened, session, resub, loop>>

\* client.Subscribe fails at once when the connection has gone meanwhile.
SendSubscribe(t) ==
  /\ CallerAt(t, "send", IF IsConnectionOpen THEN "wait" ELSE "error")
  /\ UNCHANGED <<subs, client, opened, session, resub, loop>>

\* The broker's answer completes the token.  (That of a refusal is completed
\* with or without an error, depending on the version of paho.)
Answers == {"granted"} \cup (IF Refusing THEN {"refused"} ELSE {})

ResultOf(answer) == IF answer = "granted" THEN {"nil"} ELSE {"nil", "error"}

AnswerCaller(t) ==
  /\ \E a \in Answers :
       /\ session' = [session EXCEPT ![t] = a]
       /\ \E result \in ResultOf(a) : CallerAt(t, "wait", result)
  /\ UNCHANGED <<subs, client, opened, resub, loop>>

-----------------------------------------------------------------------------
(* resubscribeAll, called by the OnConnect of connection n *)

ResubAt(n, here, there) ==
  /\ resub[n].pc = here
  /\ resub' = [resub EXCEPT ![n] = there]

CopySubs(n) ==
  /\ ResubAt(n, "copy", [pc |-> "next", todo |-> subs, topic |-> {}])
  /\ UNCHANGED <<subs, client, opened, session, caller, loop>>

\* Where resubscribeAll stands after it has dealt with a topic, well or not.
Without(todo, t) ==
  [pc |-> "next", todo |-> todo \ {t}, topic |-> {}]

\* The next topic of the copy.  Topics are distinct here, and their order does
\* not matter.
ResubNext(n) ==
  /\ \/ \E t \in resub[n].todo :
          ResubAt(n, "next",
                  IF IsConnectionOpen
                  THEN [pc |-> "wait", todo |-> resub[n].todo, topic |-> {t}]
                  ELSE Without(resub[n].todo, t))
     \/ /\ resub[n].todo = {}
        /\ ResubAt(n, "next", [resub[n] EXCEPT !.pc = "done"])
  /\ UNCHANGED <<subs, client, opened, session, caller, loop>>

\* Mutant: a refusal ends the loop over the topics.
ResubGivesUp(n) ==
  /\ \E t \in resub[n].topic, a \in Answers :
       /\ session' = [session EXCEPT ![t] = a]
       /\ ResubAt(n, "wait",
                  IF a = "granted" THEN Without(resub[n].todo, t)
                  ELSE [pc |-> "done", todo |-> {}, topic |-> {}])
  /\ UNCHANGED <<subs, client, opened, caller, loop>>

\* A failure is logged, and the loop goes on with the next topic.
AnswerResub(n) ==
  /\ \E t \in resub[n].topic, a \in Answers :
       /\ session' = [session EXCEPT ![t] = a]
       /\ ResubAt(n, "wait", Without(resub[n].todo, t))
  /\ UNCHANGED <<subs, client, opened, caller, loop>>

-----------------------------------------------------------------------------
(* Connections *)

\* The client gets a connection and starts OnConnect in a new goroutine.  An
\* older one may still be at work.
Open ==
  /\ client \in {"connecting", "reconnecting"}
  /\ opened < MaxConnections
  /\ client' = "open"
  /\ opened' = opened + 1
  /\ session' = NoAnswers
  /\ resub' = [resub EXCEPT ![opened + 1].pc = "copy"]
  /\ UNCHANGED <<subs, caller, loop>>

\* Whoever waited for an answer gets an error.
FailWaiting ==
  /\ caller' = [t \in Topics |->
                  IF caller[t] = "wait" THEN "error" ELSE caller[t]]
  /\ resub' = [n \in Connections |->
                 IF resub[n].pc = "wait"
                 THEN [pc |-> "next",
                       todo |-> resub[n].todo \ resub[n].topic,
                       topic |-> {}]
                 ELSE resub[n]]

Lose ==
  /\ IsConnectionOpen
  /\ client' = "reconnecting"
  /\ session' = NoAnswers
  /\ FailWaiting
  /\ UNCHANGED <<subs, opened, loop>>

\* Close, called when the server shuts down: only an open client is
\* disconnected.
Close ==
  /\ IsConnectionOpen
  /\ client' = "closed"
  /\ session' = NoAnswers
  /\ FailWaiting
  /\ UNCHANGED <<subs, opened, loop>>

-----------------------------------------------------------------------------
(* connectMQTTWithRetry and Connect *)

LoopAt(here, there) == loop = here /\ loop' = there

\* Connect returns at once when the client is open.  Otherwise a new client
\* begins to connect and goes on by itself (ConnectRetry), one that is at it
\* gives an error, and one that reconnects gives none.
Connect ==
  /\ CASE client = "new" -> LoopAt("connect", "wait") /\ client' = "connecting"
       [] client = "connecting" ->
            LoopAt("connect", "sleep") /\ UNCHANGED client
       [] OTHER -> LoopAt("connect", "done") /\ UNCHANGED client
  /\ UNCHANGED <<subs, opened, session, caller, resub>>

\* The token is done, or ten seconds have passed.
AwaitConnect ==
  /\ \/ client # "connecting" /\ LoopAt("wait", "done")
     \/ LoopAt("wait", "sleep")
  /\ UNCHANGED <<subs, client, opened, session, caller, resub>>

RetryDelayOver ==
  /\ LoopAt("sleep", "connect")
  /\ UNCHANGED <<subs, client, opened, session, caller, resub>>

-----------------------------------------------------------------------------
Subscribe(t) ==
  Register(t) \/ CheckOpen(t) \/ SendSubscribe(t) \/ AnswerCaller(t)

ResubscribeAll(n) == CopySubs(n) \/ ResubNext(n) \/ AnswerResub(n)

ConnectLoop == Connect \/ AwaitConnect \/ RetryDelayOver

MqttNext ==
  \/ \E t \in Topics : Subscribe(t)
  \/ \E n \in Connections : ResubscribeAll(n)
  \/ Open
  \/ Lose
  \/ Close
  \/ ConnectLoop

MqttSpec == MqttInit /\ [][MqttNext]_mqttVars

\* Goroutines run, and a broker with an open connection answers.  Neither a
\* connection nor its loss is promised.
MqttFairness ==
  /\ \A t \in Topics : WF_mqttVars(Subscribe(t) /\ ~Register(t))
  /\ \A n \in Connections : WF_mqttVars(ResubscribeAll(n))
  /\ WF_mqttVars(ConnectLoop)

-----------------------------------------------------------------------------
\* No topic falls between Subscribe and OnConnect, whichever comes first and
\* whatever connections are lost on the way: on an open connection the broker
\* has answered for each registered topic, or somebody is about to ask.
WillSubscribe(n, t) ==
  \/ resub[n].pc = "copy"
  \/ resub[n].pc \in {"next", "wait"} /\ t \in resub[n].todo

TopicsCovered ==
  IsConnectionOpen =>
    \A t \in subs :
      \/ session[t] # "none"
      \/ caller[t] \in {"check", "send", "wait"}
      \/ \E n \in Connections : WillSubscribe(n, t)

\* The program stops trying to connect only when the client has had a
\* connection, after which the client looks after itself.
TriesUntilConnected == loop = "done" => opened > 0

\* Once the connection stays up, every topic that was registered gets its
\* answer on it, and if the broker refuses none every topic is subscribed.
SubscriptionsEstablished ==
  <>[]IsConnectionOpen => <>[](\A t \in subs : session[t] # "none")
=============================================================================
