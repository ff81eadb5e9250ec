------------------------- MODULE MicroBrokerProofs -------------------------
(***************************************************************************)
(* Theorems about MicroBroker, for any calls, events, connections and      *)
(* losses, on each of the three brokers.                                   *)
(***************************************************************************)
EXTENDS MicroBroker, TLAPS

(* The inductive invariant: TypeOK, the three invariants about timers,      *)
(* subscriptions and tasks, and what they depend on.                        *)

Idle == {"idle", "notConnected"}

\* While a connection is closed nothing is published; no call belongs to the
\* connection that is about to be made.
ConnectionOK ==
  /\ closing # "no" => broker # "mqtt" /\ pub \in {"quitting", "none"}
  /\ closing \in {"pubThenConnect", "subThenConnect"} => opened > 0 /\ \A s \in Sends : via[s] # opened

\* A call is unsent, then on its way, then handled, and data is from its handler.
OnceOK ==
  /\ requests \cap handled = {} /\ unsent \cap (requests \cup handled) = {}
  /\ \A m \in requests \cup handled \cup unsent \cup mute : status[m] \notin Idle
  /\ \A s \in Sends : replies[s] = "data" => s \in handled

IInv == TypeOK /\ ConnectionOK /\ OnceOK /\ TimersAreWaiting /\ AnswersAreHeard /\ TasksAreUnanswered

-----------------------------------------------------------------------------
(* One lemma per action *)

LEMMA InitHolds == Init => IInv
BY BrokerAssumption DEF Init, IInv, TypeOK, States, ConnectionOK, OnceOK, TimersAreWaiting, AnswersAreHeard,
   TasksAreUnanswered, Waiting, NoReplies, Messages

LEMMA StutterKeeps == ASSUME IInv, UNCHANGED vars PROVE IInv'
BY DEF vars, client, server, net, IInv, TypeOK, ConnectionOK, OnceOK, TimersAreWaiting, AnswersAreHeard,
   TasksAreUnanswered, Waiting

\* No call belongs to the connection connect() is about to make.
LEMMA ConnectKeeps == ASSUME IInv, Connect PROVE IInv'
<1>1. TypeOK'
  BY BrokerAssumption DEF IInv, TypeOK, States, Connect, Close, CloseMqtt, CloseAwaiting,
     EndsSubscriptions, Quit, NoReplies, server
<1>2. ConnectionOK'
  BY DEF IInv, TypeOK, ConnectionOK, Connect, Close, CloseMqtt, CloseAwaiting, Quit
<1>3. OnceOK'
  BY DEF IInv, OnceOK, Connect, Close, CloseMqtt, CloseAwaiting, EndsSubscriptions, NoReplies, server
<1>4. AnswersAreHeard'
  BY DEF IInv, TypeOK, AnswersAreHeard, Waiting, Connect, Close, CloseMqtt, CloseAwaiting, EndsSubscriptions
<1>5. (TimersAreWaiting /\ TasksAreUnanswered)'
  BY DEF IInv, TimersAreWaiting, TasksAreUnanswered, Waiting, Connect, Close
<1> QED
  BY <1>1, <1>2, <1>3, <1>4, <1>5 DEF IInv

\* A connection that ends has no listener, and none is asked for.
LEMMA DisposeKeeps == ASSUME IInv, Dispose PROVE IInv'
<1>1. TypeOK'
  BY DEF IInv, TypeOK, States, Dispose, Close, CloseMqtt, CloseAwaiting, EndsSubscriptions, Quit,
     NoReplies, server
<1>2. ConnectionOK'
  BY DEF IInv, ConnectionOK, Dispose, Close, CloseMqtt, CloseAwaiting, Quit
<1>3. OnceOK'
  BY DEF IInv, OnceOK, Dispose, Close, CloseMqtt, CloseAwaiting, EndsSubscriptions, NoReplies, server
<1>4. AnswersAreHeard'
  BY DEF IInv, AnswersAreHeard, Waiting, Dispose, Close, CloseMqtt, CloseAwaiting, EndsSubscriptions, Quit
<1>5. (TimersAreWaiting /\ TasksAreUnanswered)'
  BY DEF IInv, TimersAreWaiting, TasksAreUnanswered, Waiting, Dispose, Close
<1> QED
  BY <1>1, <1>2, <1>3, <1>4, <1>5 DEF IInv

LEMMA PubClosedKeeps == ASSUME IInv, PubClosed PROVE IInv'
<1>1. TypeOK'
  BY DEF IInv, TypeOK, States, ConnectionOK, PubClosed, Quit, server, net
<1>2. ConnectionOK'
  BY DEF IInv, ConnectionOK, PubClosed
<1>3. OnceOK'
  BY DEF IInv, OnceOK, PubClosed, server, net
<1>4. AnswersAreHeard'
  BY DEF IInv, AnswersAreHeard, Waiting, PubClosed, net
<1>5. (TimersAreWaiting /\ TasksAreUnanswered)'
  BY DEF IInv, TimersAreWaiting, TasksAreUnanswered, Waiting, PubClosed, net
<1> QED
  BY <1>1, <1>2, <1>3, <1>4, <1>5 DEF IInv

\* Whatever waits waits for an older connection than the new one.
LEMMA SubClosedKeeps == ASSUME IInv, SubClosed PROVE IInv'
<1>1. TypeOK'
  BY DEF IInv, TypeOK, States, SubClosed, EndsSubscriptions, NoReplies, server
<1>2. ConnectionOK'
  BY DEF IInv, ConnectionOK, SubClosed
<1>3. OnceOK'
  BY DEF IInv, OnceOK, SubClosed, EndsSubscriptions, NoReplies, server
<1>4. AnswersAreHeard'
  BY DEF IInv, ConnectionOK, AnswersAreHeard, Waiting, SubClosed, EndsSubscriptions
<1>5. (TimersAreWaiting /\ TasksAreUnanswered)'
  BY DEF IInv, TimersAreWaiting, TasksAreUnanswered, Waiting, SubClosed
<1> QED
  BY <1>1, <1>2, <1>3, <1>4, <1>5 DEF IInv

LEMMA ConnectedKeeps == ASSUME IInv, Connected PROVE IInv'
<1>1. TypeOK'
  BY DEF IInv, TypeOK, States, Connected, server, net
<1>2. ConnectionOK'
  BY DEF IInv, ConnectionOK, Connected
<1>3. OnceOK'
  BY DEF IInv, OnceOK, Connected, server, net
<1>4. AnswersAreHeard'
  BY DEF IInv, AnswersAreHeard, Waiting, Connected, server, net
<1>5. (TimersAreWaiting /\ TasksAreUnanswered)'
  BY DEF IInv, TimersAreWaiting, TasksAreUnanswered, Waiting, Connected, net
<1> QED
  BY <1>1, <1>2, <1>3, <1>4, <1>5 DEF IInv

LEMMA DropKeeps == ASSUME IInv, Drop PROVE IInv'
<1>1. TypeOK'
  <2>1. broker' = broker /\ pub' \in States /\ sub' \in States /\ (broker # "redis" => pub' = sub')
    BY DEF IInv, TypeOK, States, Drop
  <2>2. alive' \subseteq {"client", "server"} /\ lost' \in 0 .. MaxLost
    <3>1. alive' \subseteq alive
      BY DEF Drop, Unhandled
    <3>2. lost \in 0 .. MaxLost /\ lost < MaxLost /\ lost' = lost + 1
      BY DEF IInv, TypeOK, Drop
    <3> QED
      BY <3>1, <3>2, BrokerAssumption DEF IInv, TypeOK
  <2>3. replies' \in [Sends -> {"none", "data", "error"}]
    BY DEF IInv, TypeOK, Drop, NoReplies
  <2>4. UNCHANGED <<served, opened, closing, tasks, timer, unsent, status, via, listening, requests,
                    jobs, handled, threw, mute>>
    BY DEF Drop, server
  <2> QED
    BY <2>1, <2>2, <2>3, <2>4 DEF IInv, TypeOK
<1>2. ConnectionOK'
  BY DEF IInv, ConnectionOK, Drop
<1>3. OnceOK'
  BY DEF IInv, OnceOK, Drop, NoReplies, server
<1>4. AnswersAreHeard'
  BY DEF IInv, AnswersAreHeard, Waiting, Drop, server
<1>5. (TimersAreWaiting /\ TasksAreUnanswered)'
  BY DEF IInv, TimersAreWaiting, TasksAreUnanswered, Waiting, Drop
<1> QED
  BY <1>1, <1>2, <1>3, <1>4, <1>5 DEF IInv

\* A message that is lost needs no listener.
LEMMA LoseKeeps == ASSUME IInv, Lose PROVE IInv'
<1>1. TypeOK'
  BY BrokerAssumption DEF IInv, TypeOK, Lose, LoseRequest, LoseReply, client, server
<1>2. ConnectionOK'
  BY DEF IInv, ConnectionOK, Lose, client
<1>3. OnceOK'
  BY DEF IInv, TypeOK, OnceOK, Lose, LoseRequest, LoseReply, client, server
<1>4. AnswersAreHeard'
  BY DEF IInv, AnswersAreHeard, Waiting, Lose, LoseRequest, LoseReply, client, server
<1>5. (TimersAreWaiting /\ TasksAreUnanswered)'
  BY DEF IInv, TimersAreWaiting, TasksAreUnanswered, Waiting, Lose, client
<1> QED
  BY <1>1, <1>2, <1>3, <1>4, <1>5 DEF IInv

LEMMA RefuseKeeps == ASSUME IInv, NEW s \in Sends, Refuse(s) PROVE IInv'
<1>1. TypeOK'
  BY DEF IInv, TypeOK, Refuse, server, net
<1>2. ConnectionOK'
  BY DEF IInv, ConnectionOK, Refuse
<1>3. OnceOK'
  BY DEF IInv, OnceOK, Idle, Refuse, server, net
<1>4. AnswersAreHeard'
  BY DEF IInv, AnswersAreHeard, Waiting, Refuse, server, net
<1>5. (TimersAreWaiting /\ TasksAreUnanswered)'
  BY DEF IInv, TimersAreWaiting, TasksAreUnanswered, Waiting, Refuse, net
<1> QED
  BY <1>1, <1>2, <1>3, <1>4, <1>5 DEF IInv

\* The subscription comes first: nothing is on its way yet.
LEMMA SendRedisKeeps == ASSUME IInv, NEW s \in Sends, SendRedis(s) PROVE IInv'
<1>1. TypeOK'
  BY DEF IInv, TypeOK, SendRedis, Made, server, Messages
<1>2. ConnectionOK'
  BY DEF IInv, ConnectionOK, SendRedis, Made
<1>3. OnceOK'
  BY DEF IInv, TypeOK, OnceOK, Idle, SendRedis, Made, server, Messages
<1>4. TimersAreWaiting'
  BY DEF IInv, TypeOK, OnceOK, Idle, TimersAreWaiting, Waiting, SendRedis, Made, Messages
<1>5. AnswersAreHeard'
  BY DEF IInv, TypeOK, OnceOK, Idle, AnswersAreHeard, Waiting, SendRedis, Made, server
<1>6. TasksAreUnanswered'
  BY DEF TasksAreUnanswered, SendRedis, Made
<1> QED
  BY <1>1, <1>2, <1>3, <1>4, <1>5, <1>6 DEF IInv

\* The channel is subscribed to with the same connection the packet takes.
LEMMA SendMqttKeeps == ASSUME IInv, NEW s \in Sends, SendMqtt(s) PROVE IInv'
<1>1. TypeOK'
  BY DEF IInv, TypeOK, SendMqtt, Made, Listen, Publish, server, Messages
<1>2. ConnectionOK'
  BY DEF IInv, ConnectionOK, SendMqtt, Made
<1>3. OnceOK'
  BY DEF IInv, TypeOK, OnceOK, Idle, SendMqtt, Made, Publish, server, Messages
<1>4. TimersAreWaiting'
  BY DEF IInv, TypeOK, OnceOK, Idle, TimersAreWaiting, Waiting, SendMqtt, Made, Messages
<1>5. AnswersAreHeard'
  BY DEF IInv, TypeOK, AnswersAreHeard, Waiting, SendMqtt, Made, MaySend, Listen, Publish, server, Messages
<1>6. TasksAreUnanswered'
  BY DEF IInv, TypeOK, TasksAreUnanswered, Waiting, SendMqtt, Made, Messages
<1> QED
  BY <1>1, <1>2, <1>3, <1>4, <1>5, <1>6 DEF IInv

\* The same for nats.
LEMMA SendNatsKeeps == ASSUME IInv, NEW s \in Sends, SendNats(s) PROVE IInv'
<1>1. TypeOK'
  BY DEF IInv, TypeOK, SendNats, Made, Listen, Publish, server, Messages
<1>2. ConnectionOK'
  BY DEF IInv, ConnectionOK, SendNats, Made
<1>3. OnceOK'
  BY DEF IInv, TypeOK, OnceOK, Idle, SendNats, Made, Publish, server, Messages
<1>4. TimersAreWaiting'
  BY DEF IInv, TypeOK, OnceOK, Idle, TimersAreWaiting, Waiting, SendNats, Made, Messages
<1>5. AnswersAreHeard'
  BY DEF IInv, TypeOK, AnswersAreHeard, Waiting, SendNats, Made, MaySend, Listen, Publish, server, Messages
<1>6. TasksAreUnanswered'
  BY DEF TasksAreUnanswered, SendNats, Made
<1> QED
  BY <1>1, <1>2, <1>3, <1>4, <1>5, <1>6 DEF IInv

\* Subscription and packet come together, unless the call has timed out.
LEMMA SubscribedKeeps == ASSUME IInv, NEW s \in Sends, Subscribed(s) PROVE IInv'
<1>1. TypeOK'
  BY DEF IInv, TypeOK, Subscribed, Unhandled, server, Messages
<1>2. ConnectionOK'
  BY DEF IInv, ConnectionOK, Subscribed
<1>3. OnceOK'
  BY DEF IInv, OnceOK, Subscribed, server
<1>4. AnswersAreHeard'
  BY DEF IInv, AnswersAreHeard, Waiting, Subscribed, server
<1>5. (TimersAreWaiting /\ TasksAreUnanswered)'
  BY DEF IInv, TimersAreWaiting, TasksAreUnanswered, Waiting, Subscribed
<1> QED
  BY <1>1, <1>2, <1>3, <1>4, <1>5 DEF IInv

LEMMA TimeoutKeeps == ASSUME IInv, NEW s \in Sends, Timeout(s) PROVE IInv'
<1>1. TypeOK'
  BY DEF IInv, TypeOK, Timeout, server
<1>2. ConnectionOK'
  BY DEF IInv, ConnectionOK, Timeout
<1>3. OnceOK'
  BY DEF IInv, OnceOK, Idle, Timeout, server
<1>4. TimersAreWaiting'
  BY DEF IInv, TypeOK, TimersAreWaiting, Waiting, Timeout, Messages
<1>5. AnswersAreHeard'
  BY DEF IInv, TypeOK, AnswersAreHeard, Waiting, Timeout, server, Messages
<1>6. TasksAreUnanswered'
  BY DEF IInv, TasksAreUnanswered, Waiting, Timeout
<1> QED
  BY <1>1, <1>2, <1>3, <1>4, <1>5, <1>6 DEF IInv

LEMMA DeliverKeeps == ASSUME IInv, NEW s \in Sends, Deliver(s) PROVE IInv'
<1>1. TypeOK'
  BY DEF IInv, TypeOK, Deliver, Hear, Settled, server
<1>2. ConnectionOK'
  BY DEF IInv, TypeOK, ConnectionOK, Deliver, Settled
<1>3. OnceOK'
  BY DEF IInv, TypeOK, OnceOK, Idle, Deliver, Hear, Settled, server
<1>4. TimersAreWaiting'
  BY DEF IInv, TypeOK, TimersAreWaiting, Waiting, Deliver, Hear, Settled, Messages
<1>5. AnswersAreHeard'
  BY DEF IInv, TypeOK, AnswersAreHeard, Waiting, Deliver, Hear, Settled, server, Messages
<1>6. TasksAreUnanswered'
  BY DEF TasksAreUnanswered, Deliver
<1> QED
  BY <1>1, <1>2, <1>3, <1>4, <1>5, <1>6 DEF IInv

LEMMA DeliverMqttKeeps == ASSUME IInv, NEW s \in Sends, DeliverMqtt(s) PROVE IInv'
<1>1. TypeOK'
  BY DEF IInv, TypeOK, DeliverMqtt, Hear, Settled, server
<1>2. ConnectionOK'
  BY DEF IInv, TypeOK, ConnectionOK, DeliverMqtt, Settled
<1>3. OnceOK'
  BY DEF IInv, TypeOK, OnceOK, Idle, DeliverMqtt, Hear, Settled, server
<1>4. TimersAreWaiting'
  BY DEF IInv, TypeOK, TimersAreWaiting, Waiting, DeliverMqtt, Hear, Settled, Messages
<1>5. AnswersAreHeard'
  BY DEF IInv, TypeOK, AnswersAreHeard, Waiting, DeliverMqtt, Hear, Settled, server, Messages
<1>6. TasksAreUnanswered'
  BY DEF IInv, TypeOK, TasksAreUnanswered, Waiting, DeliverMqtt, Settled, Messages
<1> QED
  BY <1>1, <1>2, <1>3, <1>4, <1>5, <1>6 DEF IInv

\* No handler knows of the request, so no answer is missed.
LEMMA NoRespondersKeeps == ASSUME IInv, NEW s \in Sends, NoResponders(s) PROVE IInv'
<1>1. TypeOK'
  BY DEF IInv, TypeOK, NoResponders, Settled, server
<1>2. ConnectionOK'
  BY DEF IInv, TypeOK, ConnectionOK, NoResponders, Settled
<1>3. OnceOK'
  BY BrokerAssumption DEF IInv, TypeOK, OnceOK, Idle, NoResponders, Settled, server, Messages
<1>4. TimersAreWaiting'
  BY DEF IInv, TypeOK, TimersAreWaiting, Waiting, NoResponders, Settled, Messages
<1>5. AnswersAreHeard'
  BY DEF IInv, TypeOK, AnswersAreHeard, Waiting, NoResponders, Settled, server, Messages
<1>6. TasksAreUnanswered'
  BY DEF TasksAreUnanswered, NoResponders
<1> QED
  BY <1>1, <1>2, <1>3, <1>4, <1>5, <1>6 DEF IInv

LEMMA EmitRefusedKeeps == ASSUME IInv, NEW e \in Events, EmitRefused(e) PROVE IInv'
<1>1. TypeOK'
  BY DEF IInv, TypeOK, EmitRefused, server, net
<1>2. ConnectionOK'
  BY DEF IInv, ConnectionOK, EmitRefused
<1>3. OnceOK'
  BY DEF IInv, OnceOK, Idle, EmitRefused, server, net
<1>4. AnswersAreHeard'
  BY DEF IInv, AnswersAreHeard, Waiting, EmitRefused, server, net
<1>5. (TimersAreWaiting /\ TasksAreUnanswered)'
  BY DEF IInv, TimersAreWaiting, TasksAreUnanswered, Waiting, EmitRefused, net
<1> QED
  BY <1>1, <1>2, <1>3, <1>4, <1>5 DEF IInv

LEMMA EmitKeeps == ASSUME IInv, NEW e \in Events, Emit(e) PROVE IInv'
<1>1. TypeOK'
  <2>1. status' = [status EXCEPT ![e] = "sent"] /\ UNCHANGED <<broker, opened, pub, sub, closing>>
    BY DEF Emit
  <2>2. status' \in [Messages -> {"idle", "waiting", "sent", "data", "error", "timeout", "notConnected"}]
    BY <2>1 DEF IInv, TypeOK
  <2>3. requests' \subseteq Messages /\ alive' \subseteq {"client", "server"}
    BY DEF IInv, TypeOK, Emit, Publish, Unhandled, Messages
  <2>4. UNCHANGED <<tasks, timer, unsent, via, listening, replies, mute, lost, served, jobs, handled, threw>>
    BY DEF Emit, server
  <2> QED
    BY <2>1, <2>2, <2>3, <2>4 DEF IInv, TypeOK
<1>2. ConnectionOK'
  BY DEF IInv, ConnectionOK, Emit
<1>3. OnceOK'
  BY DEF IInv, TypeOK, OnceOK, Idle, Emit, Publish, server, Messages
<1>4. AnswersAreHeard'
  BY DEF IInv, AnswersAreHeard, Waiting, Emit, Publish, server
<1>5. (TimersAreWaiting /\ TasksAreUnanswered)'
  BY DEF IInv, TimersAreWaiting, TasksAreUnanswered, Waiting, Emit
<1> QED
  BY <1>1, <1>2, <1>3, <1>4, <1>5 DEF IInv

LEMMA ReceiveKeeps == ASSUME IInv, NEW m \in Messages, Receive(m) PROVE IInv'
<1>1. TypeOK'
  BY DEF IInv, TypeOK, OnceOK, Receive, client
<1>2. ConnectionOK'
  BY DEF IInv, ConnectionOK, Receive, client
<1>3. OnceOK'
  BY DEF IInv, OnceOK, Receive, client
<1>4. AnswersAreHeard'
  BY DEF IInv, AnswersAreHeard, Waiting, Receive, client
<1>5. (TimersAreWaiting /\ TasksAreUnanswered)'
  BY DEF IInv, TimersAreWaiting, TasksAreUnanswered, Waiting, Receive, client
<1> QED
  BY <1>1, <1>2, <1>3, <1>4, <1>5 DEF IInv

\* Only the call itself listens to its channel.
LEMMA AnsweredKeeps == ASSUME IInv, NEW m \in Messages, Answered(m) PROVE IInv'
<1>1. TypeOK'
  BY DEF IInv, TypeOK, Answered, client
<1>2. ConnectionOK'
  BY DEF IInv, ConnectionOK, Answered, client
<1>3. OnceOK'
  BY DEF IInv, TypeOK, OnceOK, Answered, Channel, client
<1>4. AnswersAreHeard'
  BY DEF IInv, AnswersAreHeard, Waiting, Answered, client
<1>5. (TimersAreWaiting /\ TasksAreUnanswered)'
  BY DEF IInv, TimersAreWaiting, TasksAreUnanswered, Waiting, Answered, client
<1> QED
  BY <1>1, <1>2, <1>3, <1>4, <1>5 DEF IInv

LEMMA HandlerThrowsKeeps == ASSUME IInv, NEW m \in Messages, HandlerThrows(m) PROVE IInv'
<1>1. TypeOK'
  BY DEF IInv, TypeOK, HandlerThrows, Unhandled, net
<1>2. ConnectionOK'
  BY DEF IInv, ConnectionOK, HandlerThrows
<1>3. OnceOK'
  BY DEF IInv, OnceOK, HandlerThrows, net
<1>4. AnswersAreHeard'
  BY DEF IInv, AnswersAreHeard, Waiting, HandlerThrows, net
<1>5. (TimersAreWaiting /\ TasksAreUnanswered)'
  BY DEF IInv, TimersAreWaiting, TasksAreUnanswered, Waiting, HandlerThrows, net
<1> QED
  BY <1>1, <1>2, <1>3, <1>4, <1>5 DEF IInv

LEMMA StepKeeps == IInv /\ [Next]_vars => IInv'
<1> SUFFICES ASSUME IInv, [Next]_vars PROVE IInv'
  OBVIOUS
<1>1. CASE UNCHANGED vars
  BY <1>1, StutterKeeps
<1>2. CASE Connect \/ Dispose \/ PubClosed \/ SubClosed \/ Connected \/ Drop \/ Lose
  BY <1>2, ConnectKeeps, DisposeKeeps, PubClosedKeeps, SubClosedKeeps, ConnectedKeeps, DropKeeps, LoseKeeps
<1>3. ASSUME NEW s \in Sends, Refuse(s) \/ Send(s) \/ Subscribed(s) \/ Timeout(s) \/ Answer(s)
      PROVE  IInv'
  BY <1>3, RefuseKeeps, SendRedisKeeps, SendMqttKeeps, SendNatsKeeps, SubscribedKeeps, TimeoutKeeps,
     DeliverKeeps, DeliverMqttKeeps, NoRespondersKeeps DEF Send, Answer
<1>4. ASSUME NEW e \in Events, EmitRefused(e) \/ Emit(e)
      PROVE  IInv'
  BY <1>4, EmitRefusedKeeps, EmitKeeps
<1>5. ASSUME NEW m \in Messages, Receive(m) \/ Work(m)
      PROVE  IInv'
  BY <1>5, ReceiveKeeps, AnsweredKeeps, HandlerThrowsKeeps DEF Work
<1> QED
  BY <1>1, <1>2, <1>3, <1>4, <1>5 DEF Next

\* The state keeps its shape on every broker, for any number of calls.
THEOREM TypeCorrect == Spec => []TypeOK
<1>1. IInv => TypeOK
  BY DEF IInv
<1> QED
  BY <1>1, InitHolds, StepKeeps, PTL DEF Spec

\* Timers, subscriptions and #tasks agree with what user code waits for, and no
\* packet overtakes the subscription its answer needs, whatever is lost, times
\* out, is closed or connected anew in whatever order.
THEOREM AnswersHaveListeners == Spec => [](TimersAreWaiting /\ AnswersAreHeard /\ TasksAreUnanswered)
<1>1. IInv => TimersAreWaiting /\ AnswersAreHeard /\ TasksAreUnanswered
  BY DEF IInv
<1> QED
  BY <1>1, InitHolds, StepKeeps, PTL DEF Spec

-----------------------------------------------------------------------------
(* MicroBroker implements Calls *)

LEMMA InitMaps == Init => Promise!Init
BY DEF Init, Promise!Init, Messages

\* Most steps leave alone what Calls speaks of.
LEMMA QuietMaps == ASSUME UNCHANGED <<status, handled>> PROVE [Promise!Next]_(Promise!vars)
BY DEF Promise!vars

LEMMA StatusOf ==
  ASSUME TypeOK, NEW s \in Sends, NEW v, status' = [status EXCEPT ![s] = v]
  PROVE  [t \in Sends |-> status'[t]] = [[t \in Sends |-> status[t]] EXCEPT ![s] = v]
<1>1. s \in Messages /\ Sends \subseteq Messages /\ DOMAIN status = Messages
  BY DEF TypeOK, Messages
<1>2. \A t \in Sends : status'[t] = IF t = s THEN v ELSE status[t]
  BY <1>1 DEF TypeOK
<1> QED
  BY <1>2

\* What user code is told of an event is not told by Calls.
LEMMA EventMaps ==
  ASSUME TypeOK, NEW e \in Events, NEW v, status' = [status EXCEPT ![e] = v], UNCHANGED handled
  PROVE  [Promise!Next]_(Promise!vars)
<1>1. e \notin Sends /\ Sends \subseteq Messages /\ status \in [Messages -> {"idle", "waiting", "sent", "data", "error", "timeout", "notConnected"}]
  BY BrokerAssumption DEF TypeOK, Messages
<1>2. \A t \in Sends : status'[t] = status[t]
  BY <1>1
<1> QED
  BY <1>2 DEF Promise!vars

LEMMA RefuseMaps == ASSUME IInv, NEW s \in Sends, Refuse(s) PROVE [Promise!Next]_(Promise!vars)
<1>1. status[s] = "idle" /\ status' = [status EXCEPT ![s] = "notConnected"] /\ UNCHANGED handled /\ TypeOK
  BY DEF Refuse, server, IInv
<1>2. Promise!Refuse(s)
  BY <1>1, StatusOf DEF Promise!Refuse
<1> QED
  BY <1>2 DEF Promise!Next

LEMMA SendMaps == ASSUME IInv, NEW s \in Sends, Send(s) PROVE [Promise!Next]_(Promise!vars)
<1>1. status[s] = "idle" /\ status' = [status EXCEPT ![s] = "waiting"] /\ UNCHANGED handled /\ TypeOK
  BY DEF Send, SendRedis, SendMqtt, SendNats, Made, server, IInv
<1>2. Promise!Call(s)
  BY <1>1, StatusOf DEF Promise!Call
<1> QED
  BY <1>2 DEF Promise!Next

LEMMA TimeoutMaps == ASSUME IInv, NEW s \in Sends, Timeout(s) PROVE [Promise!Next]_(Promise!vars)
<1>1. status' = [status EXCEPT ![s] = "timeout"] /\ UNCHANGED handled /\ TypeOK
  BY DEF Timeout, server, IInv
<1>2. status[s] = "waiting" /\ s \notin Untimed
  BY DEF Timeout, IInv, TimersAreWaiting, Waiting
<1>3. Promise!Settle(s)
  BY <1>1, <1>2, StatusOf DEF Promise!Settle
<1> QED
  BY <1>3 DEF Promise!Next

\* A callback settles a call that waits, with data only if it was handled.
LEMMA SettledMaps ==
  ASSUME IInv, NEW s \in Sends, NEW body \in {"data", "error"}, Settled(s, body), UNCHANGED handled,
         body = "data" => s \in handled
  PROVE  [Promise!Next]_(Promise!vars)
<1>1. CASE UNCHANGED status
  BY <1>1, QuietMaps
<1>2. CASE status[s] = "waiting" /\ status' = [status EXCEPT ![s] = body]
  <2>1. Promise!Settle(s)
    BY <1>2, StatusOf DEF Promise!Settle, IInv
  <2> QED
    BY <2>1 DEF Promise!Next
<1> QED
  BY <1>1, <1>2 DEF Settled

LEMMA AnswerMaps == ASSUME IInv, NEW s \in Sends, Answer(s) PROVE [Promise!Next]_(Promise!vars)
<1>1. UNCHANGED handled
  BY DEF Answer, Deliver, DeliverMqtt, NoResponders, server
<1>2. CASE Deliver(s) \/ DeliverMqtt(s)
  <2>1. Settled(s, replies[s]) /\ replies[s] \in {"data", "error"}
    BY <1>2 DEF Deliver, DeliverMqtt, IInv, TypeOK
  <2> QED
    BY <1>1, <2>1, SettledMaps DEF IInv, OnceOK
<1>3. CASE NoResponders(s)
  BY <1>1, <1>3, SettledMaps, QuietMaps DEF NoResponders
<1> QED
  BY <1>2, <1>3 DEF Answer

LEMMA ReceiveMaps == ASSUME IInv, NEW m \in Messages, Receive(m) PROVE [Promise!Next]_(Promise!vars)
<1>1. m \in requests /\ UNCHANGED status /\ m \notin handled /\ status[m] \notin Idle
  BY DEF Receive, client, IInv, OnceOK
<1>2. CASE UNCHANGED handled
  BY <1>1, <1>2, QuietMaps
<1>3. CASE handled' = handled \cup {m} /\ m \in Sends
  <2>1. (handled \cap Sends)' = (handled \cap Sends) \cup {m}
    BY <1>3
  <2>2. Promise!Handle(m)
    BY <1>1, <1>3, <2>1 DEF Promise!Handle, Idle
  <2> QED
    BY <1>3, <2>2 DEF Promise!Next
<1>4. CASE handled' = handled \cup {m} /\ m \notin Sends
  <2>1. (handled \cap Sends)' = handled \cap Sends
    BY <1>4
  <2> QED
    BY <1>1, <2>1 DEF Promise!vars
<1> QED
  BY <1>2, <1>3, <1>4 DEF Receive

LEMMA StepMaps == IInv /\ [Next]_vars => [Promise!Next]_(Promise!vars)
<1> SUFFICES ASSUME IInv, [Next]_vars PROVE [Promise!Next]_(Promise!vars)
  OBVIOUS
<1>1. CASE UNCHANGED vars
  BY <1>1, QuietMaps DEF vars, client, server
<1>2. CASE Connect \/ Dispose
  BY <1>2, QuietMaps DEF Connect, Dispose, Close, server
<1>3. CASE PubClosed \/ SubClosed \/ Connected \/ Drop \/ Lose
  BY <1>3, QuietMaps DEF PubClosed, SubClosed, Connected, Drop, Lose, client, server
<1>4. ASSUME NEW s \in Sends, Refuse(s) \/ Send(s) \/ Timeout(s) \/ Answer(s)
      PROVE  [Promise!Next]_(Promise!vars)
  BY <1>4, RefuseMaps, SendMaps, TimeoutMaps, AnswerMaps
<1>5. ASSUME NEW s \in Sends, Subscribed(s)
      PROVE  [Promise!Next]_(Promise!vars)
  BY <1>5, QuietMaps DEF Subscribed, server
<1>6. ASSUME NEW e \in Events, EmitRefused(e) \/ Emit(e)
      PROVE  [Promise!Next]_(Promise!vars)
  <2>1. TypeOK /\ UNCHANGED handled /\ \E v : status' = [status EXCEPT ![e] = v]
    BY <1>6 DEF EmitRefused, Emit, server, IInv
  <2> QED
    BY <2>1, EventMaps
<1>7. ASSUME NEW m \in Messages, Receive(m) \/ Work(m)
      PROVE  [Promise!Next]_(Promise!vars)
  <2>1. CASE Work(m)
    BY <2>1, QuietMaps DEF Work, Answered, HandlerThrows, client
  <2> QED
    BY <1>7, <2>1, ReceiveMaps
<1> QED
  BY <1>1, <1>2, <1>3, <1>4, <1>5, <1>6, <1>7 DEF Next

\* On every broker, every behaviour is one Calls allows: a call is settled once,
\* data is what its own handler answered, and nothing is handled twice.
THEOREM PromiseKept == Spec => KeepsPromise
<1>1. Init /\ [][Next]_vars => Promise!Safety
  BY InitHolds, InitMaps, StepKeeps, StepMaps, PTL DEF Promise!Safety
<1> QED
  BY <1>1, PTL DEF Spec, KeepsPromise
=============================================================================
