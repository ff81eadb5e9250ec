---------------------------- MODULE MicroBroker ----------------------------
(***************************************************************************)
(* The clients of @ipare/micro-redis-client, micro-mqtt-client and         *)
(* micro-nats-client, and the message handlers of their servers.  A call   *)
(* subscribes to a channel of its own for the answer, publishes its packet *)
(* and waits for the answer or its timer.  The broker is external: it      *)
(* passes a message on to whoever subscribes when it comes, or loses it.   *)
(* User code awaits one connect() or dispose() before it calls the next,   *)
(* and the servers listen all the time.                                    *)
(***************************************************************************)
EXTENDS Naturals

CONSTANTS
  Brokers,     \* of "redis", "mqtt", "nats"
  Sends,       \* the calls of user code to send()
  Events,      \* its calls to emit()
  Services,    \* what servers may subscribe to: sets of messages, by their pattern
  Untimed,     \* the sends whose timeout is 0
  MaxConnects, \* bound: calls of connect()
  MaxLost      \* bound: messages and connections lost on the way

Messages == Sends \cup Events

ASSUME BrokerAssumption ==
  /\ Brokers \subseteq {"redis", "mqtt", "nats"} /\ Sends \cap Events = {}
  /\ Services \subseteq SUBSET (Sends \cup Events) /\ Untimed \subseteq Sends
  /\ MaxConnects \in Nat /\ MaxLost \in Nat

States == {"none", "connecting", "ready", "quitting"}

VARIABLES
  broker,    \* which of the three
  served,    \* the messages whose pattern a server subscribes to
  alive,     \* of "client" and "server", the processes no unhandled error ended
  opened,    \* calls of connect() so far
  pub, sub,  \* this.pub and this.sub of redis; both are the one client of the others
  closing,   \* where connect() or dispose() awaits the end of a connection
  tasks,     \* the keys of #tasks (mqtt)
  timer,     \* the sends whose timer runs
  unsent,    \* the sends that await sub.subscribe() (redis)
  status,    \* [Messages -> ...]: what user code knows of its calls
  via,       \* history: the connect() a send was made after, 0 while it was closing
  listening, \* the sends whose reply channel is subscribed to
  requests,  \* messages on their way to the server
  replies,   \* [Sends -> ...]: the answers on their way to the client
  jobs,      \* handlers that run
  handled,   \* history: messages a handler was started for
  threw,     \* history: those whose handler threw
  mute,      \* history: sends whose answer could not be decoded
  lost       \* messages and connections lost so far

client == <<broker, alive, opened, pub, sub, closing, tasks, timer, unsent, status, via>>
server == <<served, jobs, handled, threw>>
net == <<listening, requests, replies, mute, lost>>
vars == <<client, server, net>>

NoReplies == [s \in Sends |-> "none"]

Init ==
  /\ broker \in Brokers /\ served \in Services /\ alive = {"client", "server"} /\ opened = 0
  /\ pub = "none" /\ sub = "none" /\ closing = "no"
  /\ tasks = {} /\ timer = {} /\ unsent = {}
  /\ status = [m \in Messages |-> "idle"] /\ via = [s \in Sends |-> 0]
  /\ listening = {} /\ requests = {} /\ replies = NoReplies
  /\ jobs = {} /\ handled = {} /\ threw = {} /\ mute = {} /\ lost = 0

Up == "client" \in alive

\* An error is thrown or a promise rejected and nobody handles it: Node ends the
\* process, unless it is told not to.
Unhandled(process) == alive' \in {alive, alive \ {process}}

-----------------------------------------------------------------------------
(* connect(), dispose(), #close *)

\* A connection that ends takes its subscriptions and what is on them along.
EndsSubscriptions == listening' = {} /\ replies' = NoReplies

\* A client that is not ready is given up without a word; what it would still
\* do if it got through is left out.
Quit(connection) == IF connection = "ready" THEN "quitting" ELSE "none"

\* #close of mqtt ends the client and forgets its listeners, at once.
CloseMqtt(then) ==
  /\ broker = "mqtt" /\ EndsSubscriptions
  /\ pub' = IF then = "connect" THEN "connecting" ELSE Quit(pub)
  /\ sub' = pub' /\ UNCHANGED closing

\* #close of redis quits pub before sub and awaits each; nats has one connection.
CloseAwaiting(then) ==
  /\ broker # "mqtt"
  /\ pub' = Quit(pub) /\ sub' = IF broker = "redis" THEN sub ELSE pub'
  /\ closing' = IF then = "connect" THEN "pubThenConnect" ELSE "pub"
  /\ UNCHANGED <<listening, replies>>

Close(then) ==
  /\ Up /\ closing = "no" /\ (CloseMqtt(then) \/ CloseAwaiting(then))
  /\ UNCHANGED <<broker, alive, tasks, timer, unsent, status, via, requests, mute, lost, server>>

Connect == opened < MaxConnects /\ opened' = opened + 1 /\ Close("connect")
Dispose == opened > 0 /\ UNCHANGED opened /\ Close("dispose")

\* await disconnect(this.pub) returned.
PubClosed ==
  /\ Up /\ closing \in {"pub", "pubThenConnect"}
  /\ pub' = "none" /\ sub' = Quit(sub)
  /\ closing' = IF closing = "pub" THEN "sub" ELSE "subThenConnect"
  /\ UNCHANGED <<broker, alive, opened, tasks, timer, unsent, status, via, net, server>>

\* await disconnect(this.sub) returned: a broker answers commands in order, so no
\* subscribe() is pending after quit().  connect() goes on and makes new clients.
SubClosed ==
  /\ Up /\ closing \in {"sub", "subThenConnect"}
  /\ (sub = "quitting" => unsent = {}) /\ unsent' = {}
  /\ EndsSubscriptions
  /\ pub' = IF closing = "sub" THEN "none" ELSE "connecting"
  /\ sub' = pub' /\ closing' = "no"
  /\ UNCHANGED <<broker, alive, opened, tasks, timer, status, via, requests, mute, lost, server>>

-----------------------------------------------------------------------------
(* The connections: the client libraries connect again by themselves *)

\* The two clients of redis connect independently.
Connected ==
  /\ Up
  /\ \/ pub = "connecting" /\ pub' = "ready" /\ sub' = IF broker = "redis" THEN sub ELSE pub'
     \/ broker = "redis" /\ sub = "connecting" /\ sub' = "ready" /\ UNCHANGED pub
  /\ UNCHANGED <<broker, alive, opened, closing, tasks, timer, unsent, status, via, net, server>>

\* A connection drops; redis and mqtt tell send() so, nats does not.  The clients
\* of redis have no listener for the "error" they emit then: it is thrown.
Drop ==
  /\ Up /\ broker # "nats" /\ lost < MaxLost /\ lost' = lost + 1
  /\ \/ pub = "ready" /\ pub' = "connecting" /\ sub' = IF broker = "redis" THEN sub ELSE pub'
     \/ broker = "redis" /\ sub = "ready" /\ sub' = "connecting" /\ UNCHANGED pub
  /\ replies' = IF sub' = sub THEN replies ELSE NoReplies
  /\ IF broker = "redis" THEN Unhandled("client") ELSE UNCHANGED alive
  /\ UNCHANGED <<broker, opened, closing, tasks, timer, unsent, status, via, listening, requests, mute, server>>

LoseRequest(m) == m \in requests /\ requests' = requests \ {m} /\ UNCHANGED replies
LoseReply(s) == replies[s] # "none" /\ replies' = [replies EXCEPT ![s] = "none"] /\ UNCHANGED requests

Lose ==
  /\ lost < MaxLost /\ lost' = lost + 1
  /\ (\E m \in Messages : LoseRequest(m)) \/ (\E s \in Sends : LoseReply(s))
  /\ UNCHANGED <<client, listening, mute, server>>

-----------------------------------------------------------------------------
(* send(), emit() *)

\* isReady of redis holds until quit() is done; what mqtt and nats say of a
\* client that is closing depends on how far it is.
MaySend == pub \in {"ready", "quitting"} /\ sub \in {"ready", "quitting"}
MayRefuse == ~MaySend \/ (broker # "redis" /\ pub = "quitting")

Refuse(s) ==
  /\ Up /\ status[s] = "idle" /\ MayRefuse
  /\ status' = [status EXCEPT ![s] = "notConnected"]
  /\ UNCHANGED <<broker, alive, opened, pub, sub, closing, tasks, timer, unsent, via, net, server>>

\* What every send() does once it passed the guard.
Made(s) ==
  /\ Up /\ status[s] = "idle" /\ MaySend
  /\ status' = [status EXCEPT ![s] = "waiting"] /\ via' = [via EXCEPT ![s] = IF pub = "ready" THEN opened ELSE 0]
  /\ timer' = IF s \in Untimed THEN timer ELSE timer \cup {s}
  /\ UNCHANGED <<broker, alive, opened, pub, sub, closing, replies, mute, lost, server>>

\* Mutant: the packet does not wait for the subscription.
SendRedisAtOnce(s) ==
  /\ broker = "redis" /\ Made(s)
  /\ unsent' = unsent \cup {s} /\ requests' = requests \cup {s}
  /\ UNCHANGED <<tasks, listening>>

\* redis: the timer starts before the subscription is awaited.
SendRedis(s) ==
  /\ broker = "redis" /\ Made(s)
  /\ unsent' = unsent \cup {s}
  /\ UNCHANGED <<tasks, listening, requests>>

\* sub.subscribe() returned: the packet is published, also when the call has
\* timed out and its channel is unsubscribed by now.  pub may be gone.
Subscribed(s) ==
  /\ Up /\ s \in unsent /\ sub \in {"ready", "quitting"}
  /\ unsent' = unsent \ {s}
  /\ listening' = IF status[s] = "waiting" THEN listening \cup {s} ELSE listening
  /\ \/ pub \in {"ready", "connecting"} /\ requests' = requests \cup {s} /\ UNCHANGED alive
     \/ pub \in {"quitting", "none"} /\ UNCHANGED requests /\ Unhandled("client")
  /\ UNCHANGED <<broker, opened, pub, sub, closing, tasks, timer, status, via, replies, mute, lost, server>>

\* A client that is closing sends nothing, and hears nothing.
Publish(m) == requests' = IF pub = "ready" THEN requests \cup {m} ELSE requests
Listen(s) == listening' = IF sub = "ready" THEN listening \cup {s} ELSE listening

\* mqtt: a task in #tasks waits for the answer.
SendMqtt(s) ==
  /\ broker = "mqtt" /\ Made(s)
  /\ tasks' = tasks \cup {s}
  /\ Listen(s) /\ Publish(s) /\ UNCHANGED unsent

\* nats: the callback of the subscription does.
SendNats(s) ==
  /\ broker = "nats" /\ Made(s)
  /\ Listen(s) /\ Publish(s) /\ UNCHANGED <<tasks, unsent>>

\* emit() throws if it is refused; redis looks at pub only.
EmitRefused(e) ==
  /\ Up /\ status[e] = "idle"
  /\ IF broker = "redis" THEN pub \notin {"ready", "quitting"} ELSE MayRefuse
  /\ status' = [status EXCEPT ![e] = "notConnected"]
  /\ UNCHANGED <<broker, alive, opened, pub, sub, closing, tasks, timer, unsent, via, net, server>>

Emit(e) ==
  /\ Up /\ status[e] = "idle" /\ pub \in {"ready", "quitting"}
  /\ status' = [status EXCEPT ![e] = "sent"]
  /\ Publish(e)
  /\ IF broker = "redis" /\ pub = "quitting" THEN Unhandled("client") ELSE UNCHANGED alive
  /\ UNCHANGED <<broker, opened, pub, sub, closing, tasks, timer, unsent, via, listening, replies, mute, lost, server>>

\* Mutant: only a call whose channel is subscribed to times out.
TimeoutOfListener(s) ==
  /\ Up /\ s \in timer \cap listening
  /\ timer' = timer \ {s} /\ listening' = listening \ {s}
  /\ status' = [status EXCEPT ![s] = "timeout"]
  /\ UNCHANGED <<broker, alive, opened, pub, sub, closing, tasks, unsent, via, requests, replies, mute, lost, server>>

\* The timer unsubscribes the channel; mqtt keeps the task.
Timeout(s) ==
  /\ Up /\ s \in timer
  /\ timer' = timer \ {s} /\ listening' = listening \ {s}
  /\ status' = [status EXCEPT ![s] = "timeout"]
  /\ UNCHANGED <<broker, alive, opened, pub, sub, closing, tasks, unsent, via, requests, replies, mute, lost, server>>

-----------------------------------------------------------------------------
(* The server: the callback of a pattern, handleMessage *)

\* A message comes to the subscriber of its pattern, if there is one.
Receive(m) ==
  /\ m \in requests
  /\ requests' = requests \ {m}
  /\ IF m \notin served \/ "server" \notin alive THEN UNCHANGED <<jobs, handled>>
     ELSE jobs' = jobs \cup {m} /\ handled' = handled \cup {m}
  /\ UNCHANGED <<served, threw, client, listening, replies, mute, lost>>

\* Mutant: answers go to the pattern, not to the channel of the call.
SharedChannel(m) == listening

\* The reply channel of a call holds its id.
Channel(m) == {m} \cap listening

\* handleMessage returned: a request is answered with the body or the error of
\* the response, an event is not.
Answered(m) ==
  /\ m \in jobs /\ "server" \in alive
  /\ jobs' = jobs \ {m}
  /\ \E body \in {"data", "error"} :
       replies' = [s \in Sends |->
         IF m \in Sends /\ s \in Channel(m) /\ sub = "ready" THEN body ELSE replies[s]]
  /\ UNCHANGED <<client, served, handled, threw, listening, requests, mute, lost>>

\* The handler of a pattern throws before the pipeline begins: handleMessage is
\* not awaited, nobody hears of it.
HandlerThrows(m) ==
  /\ m \in jobs /\ "server" \in alive
  /\ jobs' = jobs \ {m} /\ threw' = threw \cup {m} /\ Unhandled("server")
  /\ UNCHANGED <<broker, opened, pub, sub, closing, tasks, timer, unsent, status, via, served, handled, net>>

-----------------------------------------------------------------------------
(* The client: answers *)

\* An answer comes: the timer is cleared and the channel unsubscribed.
Hear(s) ==
  /\ replies' = [replies EXCEPT ![s] = "none"] /\ listening' = listening \ {s}
  /\ timer' = timer \ {s}

\* A promise that is resolved stays as it is.
Settled(s, body) == status' = IF status[s] = "waiting" THEN [status EXCEPT ![s] = body] ELSE status

\* mqtt: the task is looked up by the id of the packet, and deleted.
DeliverMqtt(s) ==
  /\ broker = "mqtt" /\ Up /\ replies[s] # "none" /\ s \in tasks
  /\ Hear(s) /\ Settled(s, replies[s])
  /\ tasks' = tasks \ {s}
  /\ UNCHANGED <<broker, alive, opened, pub, sub, closing, unsent, via, requests, mute, lost, server>>

\* redis and nats: the callback of the subscription.
Deliver(s) ==
  /\ broker # "mqtt" /\ Up /\ replies[s] # "none"
  /\ Hear(s) /\ Settled(s, replies[s])
  /\ UNCHANGED <<broker, alive, opened, pub, sub, closing, tasks, unsent, via, requests, mute, lost, server>>

\* nats answers a request nobody subscribes to by an empty message.  The callback
\* reports an error it comes with; without one, the decoder throws after the
\* timer was cleared.
NoResponders(s) ==
  /\ broker = "nats" /\ Up /\ s \in (requests \cap listening) \ served
  /\ requests' = requests \ {s} /\ listening' = listening \ {s} /\ timer' = timer \ {s}
  /\ \/ Settled(s, "error") /\ UNCHANGED mute
     \/ mute' = mute \cup {s} /\ UNCHANGED status
  /\ UNCHANGED <<broker, alive, opened, pub, sub, closing, tasks, unsent, via, replies, lost, server>>

-----------------------------------------------------------------------------
Send(s) == SendRedis(s) \/ SendMqtt(s) \/ SendNats(s)
Answer(s) == Deliver(s) \/ DeliverMqtt(s) \/ NoResponders(s)
Work(m) == Answered(m) \/ HandlerThrows(m)

Next ==
  \/ Connect \/ Dispose \/ PubClosed \/ SubClosed \/ Connected \/ Drop \/ Lose
  \/ \E s \in Sends : Refuse(s) \/ Send(s) \/ Subscribed(s) \/ Timeout(s) \/ Answer(s)
  \/ \E e \in Events : EmitRefused(e) \/ Emit(e)
  \/ \E m \in Messages : Receive(m) \/ Work(m)

\* Timers fire, the broker and the libraries do what they were asked, handlers end.
Fairness ==
  /\ \A s \in Sends : WF_vars(Timeout(s)) /\ WF_vars(Subscribed(s)) /\ WF_vars(Answer(s))
  /\ \A m \in Messages : WF_vars(Receive(m)) /\ WF_vars(Work(m))

Spec == Init /\ [][Next]_vars /\ Fairness

-----------------------------------------------------------------------------
(* Properties *)

Waiting == {s \in Sends : status[s] = "waiting"}

\* The shape of the state: subscriptions await on redis, tasks are of mqtt, and
\* the one client of mqtt and nats is in one state.
TypeOK ==
  /\ broker \in Brokers /\ served \in Services /\ alive \subseteq {"client", "server"} /\ opened \in 0 .. MaxConnects
  /\ pub \in States /\ sub \in States /\ (broker # "redis" => pub = sub)
  /\ closing \in {"no", "pub", "pubThenConnect", "sub", "subThenConnect"}
  /\ tasks \subseteq Sends /\ (broker # "mqtt" => tasks = {})
  /\ timer \subseteq Sends \ Untimed
  /\ unsent \subseteq Sends /\ (broker # "redis" => unsent = {})
  /\ status \in [Messages -> {"idle", "waiting", "sent", "data", "error", "timeout", "notConnected"}]
  /\ via \in [Sends -> 0 .. opened]
  /\ listening \subseteq Sends /\ requests \subseteq Messages
  /\ replies \in [Sends -> {"none", "data", "error"}]
  /\ jobs \subseteq handled /\ handled \subseteq served /\ threw \subseteq handled \ jobs
  /\ mute \subseteq Sends /\ lost \in 0 .. MaxLost

\* The timer of a call runs exactly as long as the call waits, on every broker.
TimersAreWaiting == timer = Waiting \ (Untimed \cup mute)

\* Subscriptions and waiting calls go together: no channel outlives its call, and
\* the packet of a call never overtakes its subscription, so that whatever the
\* server answers is heard as long as nobody closes the connection.
AnswersAreHeard ==
  /\ listening \subseteq Waiting
  /\ \A s \in Waiting \cap (requests \cup jobs) :
       via[s] = opened /\ closing = "no" /\ pub \in {"ready", "connecting"} => s \in listening

\* #tasks of mqtt holds every call that waits, and besides those only calls that
\* timed out: close() clears nothing, an answer removes its task.
TasksAreUnanswered ==
  broker = "mqtt" => Waiting \subseteq tasks /\ \A s \in tasks : status[s] \in {"waiting", "timeout"}

\* Every call with a timeout settles, unless the client's process ends or the
\* answer could not be decoded.
EverySendSettles ==
  \A s \in Sends \ Untimed : status[s] = "waiting" ~> status[s] # "waiting" \/ ~Up \/ s \in mute

\* What callers rely on, whatever the broker.
Promise == INSTANCE Calls WITH status <- [s \in Sends |-> status[s]], handled <- handled \cap Sends
KeepsPromise == Promise!Safety
=============================================================================
