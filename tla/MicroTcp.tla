------------------------------ MODULE MicroTcp ------------------------------
(***************************************************************************)
(* A client of @ipare/micro-tcp-client and a server of @ipare/micro-tcp:   *)
(* connections, calls with and without a timeout, events, the handlers of  *)
(* the server, and the "length#json" frames between them.                  *)
(*                                                                         *)
(* TCP cuts what is written where it likes.  parseTcpBuffer keeps nothing  *)
(* from one chunk to the next, so a chunk is as good as its whole frames   *)
(* read one by one, followed by a torn rest: a frame whose beginning was   *)
(* taken with another chunk takes everything behind it in its own chunk    *)
(* along.                                                                  *)
(***************************************************************************)
EXTENDS Naturals, Sequences

CONSTANTS
  Sends,       \* the calls of user code to send()
  Events,      \* its calls to emit()
  Unknown,     \* those whose pattern the server has no handler for
  Untimed,     \* the sends whose timeout is 0
  MaxConnects, \* bound: calls of connect()
  MaxBreaks,   \* bound: connections that break
  Splits       \* the directions in which TCP cuts frames

Sockets == 1 .. MaxConnects
Messages == Sends \cup Events

ASSUME TcpAssumption ==
  /\ Sends \cap Events = {} /\ "nobody" \notin Messages /\ Unknown \subseteq Sends \cup Events /\ Untimed \subseteq Sends
  /\ MaxConnects \in Nat /\ MaxBreaks \in Nat /\ Splits \subseteq {"toServer", "toClient"}

\* A frame: a request, or an answer.  Parse errors and answers to events carry
\* no id of a send.
Answers == [to : Messages \cup {"nobody"}, body : {"data", "error"}]

VARIABLES
  up,       \* the client's process has not died of an uncaught error
  socket,   \* #socket, 0 for undefined
  opened,   \* calls of connect() so far
  conn,     \* [Sockets -> {"none", "connecting", "open", "closed"}]
  deaf,     \* sockets whose listeners #close removed
  tasks,    \* the keys of #tasks
  timer,    \* the sends whose timer runs
  status,   \* [Messages -> ...]: what user code knows of its calls
  via,      \* history: the socket a call was written to
  toServer, \* [Sockets -> Seq(Messages)]: requests on their way
  toClient, \* [Sockets -> Seq(Answers)]: answers on their way
  torn,     \* per direction, the sockets whose first frame lost its beginning
  jobs,     \* [Sockets -> SUBSET Messages]: handlers that run
  handled,  \* history: the messages a handler was started for
  answers,  \* history: [Sends -> Nat], how often the server answered
  rejected, \* history: parseTcpBuffer threw
  breaks    \* connections that broke so far

client == <<up, socket, opened, tasks, timer, status, via>>
server == <<jobs, handled, answers>>
net == <<conn, deaf, toServer, toClient, torn, rejected, breaks>>
vars == <<client, server, net>>

Init ==
  /\ up = TRUE /\ socket = 0 /\ opened = 0 /\ tasks = {} /\ timer = {}
  /\ conn = [g \in Sockets |-> "none"] /\ deaf = {}
  /\ status = [m \in Messages |-> "idle"] /\ via = [m \in Messages |-> 0]
  /\ toServer = [g \in Sockets |-> <<>>] /\ toClient = [g \in Sockets |-> <<>>]
  /\ torn = [d \in {"toServer", "toClient"} |-> {}]
  /\ jobs = [g \in Sockets |-> {}] /\ handled = {}
  /\ answers = [s \in Sends |-> 0] /\ rejected = FALSE /\ breaks = 0

-----------------------------------------------------------------------------
(* The client: connect(), dispose(), send(), emit() *)

\* Mutant: pending calls survive #close.
CloseKeepingTasks ==
  /\ tasks' = tasks
  /\ deaf' = deaf \cup ({socket} \ {0})
  /\ toClient' = [g \in Sockets |-> IF g = socket THEN <<>> ELSE toClient[g]]

\* #close: nobody listens to the socket any more; it is ended, not awaited by
\* connect(), and what was written still goes out.
Close ==
  /\ tasks' = {}
  /\ deaf' = deaf \cup ({socket} \ {0})
  /\ toClient' = [g \in Sockets |-> IF g = socket THEN <<>> ELSE toClient[g]]

Connect ==
  /\ up /\ opened < MaxConnects
  /\ Close
  /\ opened' = opened + 1 /\ socket' = opened + 1
  /\ conn' = [conn EXCEPT ![opened + 1] = "connecting"]
  /\ UNCHANGED <<up, timer, status, via, toServer, torn, rejected, breaks, server>>

Dispose ==
  /\ up /\ socket # 0
  /\ Close /\ socket' = 0
  /\ UNCHANGED <<up, opened, conn, timer, status, via, toServer, torn, rejected, breaks, server>>

Connected == socket # 0 /\ conn[socket] # "closed"

\* send() or emit() without a socket, or with a destroyed one.
NotConnected(m) ==
  /\ up /\ status[m] = "idle" /\ ~Connected
  /\ status' = [status EXCEPT ![m] = "notConnected"]
  /\ UNCHANGED <<up, socket, opened, tasks, timer, via, server, net>>

\* The task and the timer are there before the packet is written.  A socket that
\* is still connecting keeps what is written to it.
Send(s) ==
  /\ up /\ status[s] = "idle" /\ Connected
  /\ tasks' = tasks \cup {s}
  /\ timer' = IF s \in Untimed THEN timer ELSE timer \cup {s}
  /\ status' = [status EXCEPT ![s] = "waiting"] /\ via' = [via EXCEPT ![s] = socket]
  /\ toServer' = [toServer EXCEPT ![socket] = Append(@, s)]
  /\ UNCHANGED <<up, socket, opened, conn, deaf, toClient, torn, rejected, breaks, server>>

Emit(e) ==
  /\ up /\ status[e] = "idle" /\ Connected
  /\ status' = [status EXCEPT ![e] = "sent"] /\ via' = [via EXCEPT ![e] = socket]
  /\ toServer' = [toServer EXCEPT ![socket] = Append(@, e)]
  /\ UNCHANGED <<up, socket, opened, tasks, timer, conn, deaf, toClient, torn, rejected, breaks, server>>

Timeout(s) ==
  /\ up /\ s \in timer
  /\ timer' = timer \ {s} /\ tasks' = tasks \ {s}
  /\ status' = [status EXCEPT ![s] = "timeout"]
  /\ UNCHANGED <<up, socket, opened, via, server, net>>

-----------------------------------------------------------------------------
(* The connection *)

Establish(g) ==
  /\ conn[g] = "connecting"
  /\ conn' = [conn EXCEPT ![g] = "open"]
  /\ UNCHANGED <<client, deaf, toServer, toClient, torn, rejected, breaks, server>>

\* The connection is refused or reset: connect() logs the error; without the
\* listeners #close removed, the error event is an uncaught exception.
Break(g) ==
  /\ conn[g] \in {"connecting", "open"} /\ breaks < MaxBreaks
  /\ breaks' = breaks + 1
  /\ conn' = [conn EXCEPT ![g] = "closed"]
  /\ toServer' = [toServer EXCEPT ![g] = <<>>] /\ toClient' = [toClient EXCEPT ![g] = <<>>]
  /\ up' = (up /\ g \notin deaf)
  /\ UNCHANGED <<socket, opened, deaf, tasks, timer, status, via, torn, rejected, server>>

\* socket.end() has written everything: the socket is destroyed.
Finish(g) ==
  /\ conn[g] = "open" /\ g \in deaf /\ toServer[g] = <<>>
  /\ conn' = [conn EXCEPT ![g] = "closed"]
  /\ UNCHANGED <<client, deaf, toServer, toClient, torn, rejected, breaks, server>>

-----------------------------------------------------------------------------
(* parseTcpBuffer: the frames a data event takes from the wire *)

\* One whole frame.
Whole(dir, wire, g) == wire[g] # <<>> /\ g \notin torn[dir]

\* The wire after a chunk parseTcpBuffer rejects: the beginning of a frame, or
\* the end of one with any number of frames behind it and perhaps another beginning.
Rejects(dir, wire, g, rest) ==
  /\ dir \in Splits /\ wire[g] # <<>>
  /\ \/ g \notin torn[dir] /\ rest = wire[g] /\ torn' = [torn EXCEPT ![dir] = @ \cup {g}]
     \/ /\ g \in torn[dir]
        /\ \E n \in 1 .. Len(wire[g]) :
             /\ rest = SubSeq(wire[g], n + 1, Len(wire[g]))
             /\ \/ torn' = [torn EXCEPT ![dir] = @ \ {g}]
                \/ rest # <<>> /\ UNCHANGED torn
  /\ rejected' = TRUE

-----------------------------------------------------------------------------
(* The server: #handler, #writeData, handleMessage *)

\* Written to a socket whose other end is gone, an answer is lost.
WriteData(g, answer) ==
  toClient' = IF conn[g] = "open" /\ g \notin deaf THEN [toClient EXCEPT ![g] = Append(@, answer)] ELSE toClient

AnswerTo(m, body) == [to |-> IF m \in Sends THEN m ELSE "nobody", body |-> body]
Count(m) == answers' = IF m \in Sends THEN [answers EXCEPT ![m] = @ + 1] ELSE answers

\* A data event of the server: an unknown pattern is answered at once, with or
\* without an id; otherwise handleMessage starts.
Receive(g) ==
  /\ conn[g] = "open" /\ Whole("toServer", toServer, g)
  /\ toServer' = [toServer EXCEPT ![g] = Tail(@)]
  /\ LET m == Head(toServer[g])
     IN \/ /\ m \in Unknown
           /\ WriteData(g, AnswerTo(m, "error")) /\ Count(m)
           /\ UNCHANGED <<jobs, handled>>
        \/ /\ m \notin Unknown
           /\ jobs' = [jobs EXCEPT ![g] = @ \cup {m}] /\ handled' = handled \cup {m}
           /\ UNCHANGED <<toClient, answers>>
  /\ UNCHANGED <<client, conn, deaf, torn, rejected, breaks>>

\* The parser throws: the server answers with an error that names no call.
ReceiveBroken(g) ==
  /\ conn[g] = "open"
  /\ \E rest \in {SubSeq(toServer[g], n + 1, Len(toServer[g])) : n \in 0 .. Len(toServer[g])} :
       Rejects("toServer", toServer, g, rest) /\ toServer' = [toServer EXCEPT ![g] = rest]
  /\ WriteData(g, [to |-> "nobody", body |-> "error"])
  /\ UNCHANGED <<client, conn, deaf, breaks, server>>

\* Mutant: what a handler throws is logged and not answered.
HandledQuietly(g, m) ==
  /\ m \in jobs[g]
  /\ jobs' = [jobs EXCEPT ![g] = @ \ {m}]
  /\ \/ \E body \in {"data", "error"} : m \in Sends /\ WriteData(g, AnswerTo(m, body)) /\ Count(m)
     \/ UNCHANGED <<toClient, answers>>
  /\ UNCHANGED <<client, handled, conn, deaf, toServer, torn, rejected, breaks>>

\* handleMessage returned: a request is answered with the body or the error of
\* the response, an event is not.  If the handler threw before the pipeline
\* began, both are answered with an error.
Handled(g, m) ==
  /\ m \in jobs[g]
  /\ jobs' = [jobs EXCEPT ![g] = @ \ {m}]
  /\ \/ \E body \in {"data", "error"} : m \in Sends /\ WriteData(g, AnswerTo(m, body)) /\ Count(m)
     \/ m \in Events /\ UNCHANGED <<toClient, answers>>
     \/ WriteData(g, AnswerTo(m, "error")) /\ Count(m)
  /\ UNCHANGED <<client, handled, conn, deaf, toServer, torn, rejected, breaks>>

-----------------------------------------------------------------------------
(* The client: answers *)

\* Mutant: the answer goes to any call that waits.
ResponseForAny(answer, s) == answer.to # "nobody" /\ s \in tasks

\* #handleResponse looks the task up by its id.
ResponseFor(answer, s) == s = answer.to /\ s \in tasks

\* The callback of a task clears its timer and deletes the task.
Callback(s) == tasks' = tasks \ {s} /\ timer' = timer \ {s}

HandleResponse(g) ==
  /\ up /\ conn[g] = "open" /\ g \notin deaf /\ Whole("toClient", toClient, g)
  /\ toClient' = [toClient EXCEPT ![g] = Tail(@)]
  /\ LET answer == Head(toClient[g])
     IN \/ \E s \in Sends :
             /\ ResponseFor(answer, s)
             /\ Callback(s) /\ status' = [status EXCEPT ![s] = answer.body]
        \/ (\A s \in Sends : ~ResponseFor(answer, s)) /\ UNCHANGED <<tasks, timer, status>>
  /\ UNCHANGED <<up, socket, opened, via, conn, deaf, toServer, torn, rejected, breaks, server>>

\* The parser throws inside the data listener: nobody catches that.
ResponseBroken(g) ==
  /\ up /\ conn[g] = "open" /\ g \notin deaf
  /\ \E rest \in {SubSeq(toClient[g], n + 1, Len(toClient[g])) : n \in 0 .. Len(toClient[g])} :
       Rejects("toClient", toClient, g, rest) /\ toClient' = [toClient EXCEPT ![g] = rest]
  /\ up' = FALSE
  /\ UNCHANGED <<socket, opened, tasks, timer, status, via, conn, deaf, toServer, breaks, server>>

-----------------------------------------------------------------------------
Transport(g) ==
  \/ Establish(g) \/ Finish(g) \/ Receive(g) \/ ReceiveBroken(g)
  \/ HandleResponse(g) \/ ResponseBroken(g)

Next ==
  \/ Connect \/ Dispose
  \/ \E m \in Messages : NotConnected(m)
  \/ \E s \in Sends : Send(s) \/ Timeout(s)
  \/ \E e \in Events : Emit(e)
  \/ \E g \in Sockets : Transport(g) \/ Break(g) \/ \E m \in Messages : Handled(g, m)

\* Bytes that were sent arrive, handlers end, timers fire.
Fairness ==
  /\ \A s \in Sends : WF_vars(Timeout(s))
  /\ \A g \in Sockets : WF_vars(Transport(g)) /\ \A m \in Messages : WF_vars(Handled(g, m))

Spec == Init /\ [][Next]_vars /\ Fairness

-----------------------------------------------------------------------------
(* Properties *)

\* The shape of the state; a socket beyond the last connect() was never used.
TypeOK ==
  /\ up \in BOOLEAN /\ socket \in 0 .. opened /\ opened \in 0 .. MaxConnects
  /\ conn \in [Sockets -> {"none", "connecting", "open", "closed"}] /\ deaf \subseteq 1 .. opened
  /\ \A g \in Sockets : conn[g] = "none" <=> g > opened
  /\ tasks \subseteq Sends /\ timer \subseteq Sends \ Untimed
  /\ status \in [Messages -> {"idle", "waiting", "sent", "data", "error", "timeout", "notConnected"}]
  /\ via \in [Messages -> 0 .. opened]
  /\ toServer \in [Sockets -> Seq(Messages)] /\ toClient \in [Sockets -> Seq(Answers)]
  /\ torn \in [{"toServer", "toClient"} -> SUBSET Sockets]
  /\ jobs \in [Sockets -> SUBSET Messages] /\ handled \subseteq Messages
  /\ answers \in [Sends -> Nat] /\ rejected \in BOOLEAN /\ breaks \in 0 .. MaxBreaks

\* #tasks holds the calls that wait for the present connection and no other:
\* nothing stays behind after an answer, a timeout or a close, and no waiting
\* call of the present connection is forgotten.
TasksAreWaiting ==
  tasks = {s \in Sends : status[s] = "waiting" /\ via[s] = socket /\ socket # 0}

\* The timer of a call runs exactly as long as the call waits.
TimersAreWaiting == timer = {s \in Sends \ Untimed : status[s] = "waiting"}

\* The server answers a call at most once, whatever its handler does.
AnsweredAtMostOnce == \A s \in Sends : answers[s] <= 1

\* A call without a timeout is settled by its answer as long as its connection
\* is the client's, does not break, and no frame on it is cut in two.
Troubled(s) == ~up \/ via[s] # socket \/ conn[via[s]] = "closed" \/ rejected
HealthyCallsAnswered ==
  \A s \in Untimed : status[s] = "waiting" ~> status[s] # "waiting" \/ Troubled(s)

\* The parser rejects malformed messages only: none is sent here.
NoFrameRejected == ~rejected

\* What callers rely on.
Promise == INSTANCE Calls WITH status <- [s \in Sends |-> status[s]], handled <- handled \cap Sends
KeepsPromise == Promise!Safety

=============================================================================
