----------------------------- MODULE MicroGrpc -----------------------------
(***************************************************************************)
(* Calls of @ipare/micro-grpc-client to @ipare/micro-grpc.  The request    *)
(* and the response of a call may each be a stream: user code pushes into  *)
(* a WriteIterator, a loop of the framework (the pump) writes the items to *)
(* the call, its other end puts what arrives into a ReadIterator, and user *)
(* code loops over that.                                                   *)
(***************************************************************************)
EXTENDS StreamIterator

CONSTANTS
  Calls,    \* the calls of user code to send() or emit()
  MaxItems, \* bound: items pushed into the streams of a call
  MaxBreaks \* bound: calls that break

Directions == {"request", "response"}
Streams == Calls \X Directions
Request(c) == <<c, "request">>
Response(c) == <<c, "response">>

\* The two iterators of a stream; a stream the method does not have is never used.
Writer(s) == <<s, "write">>
Reader(s) == <<s, "read">>
Iterators == Streams \X {"write", "read"}

\* Items are numbered; 0 is what a handler answers in place of its stream.
Items == 0 .. MaxItems

ASSUME GrpcAssumption == MaxItems \in Nat /\ MaxBreaks \in Nat

VARIABLES
  kind,     \* [Calls -> SUBSET Directions]: requestStream and responseStream of the method
  up,       \* the client's process has not died of an uncaught error
  status,   \* [Calls -> ...]: what user code of the client knows of a call
  job,      \* [Calls -> ...]: the handler of the server
  reply,    \* [Calls -> ...]: the answer of a call whose response is no stream
  wire,     \* [Streams -> Seq(Items)]: items on their way
  ended,    \* [Streams -> BOOLEAN]: call.end() was called
  broken,   \* calls that are gone
  breaks,   \* how many of them broke
  pushed,   \* history: [Streams -> Nat], the items pushed into a stream
  due,      \* history: [Streams -> Nat], those pushed before end()
  got,      \* history: [Streams -> Seq(Items)], the items user code was given
  replaced  \* history: streams a handler answered something else for

history == <<pushed, due, got, replaced>>
call == <<kind, up, status, job, reply, broken, breaks>>
net == <<wire, ended>>
vars == <<iterators, call, net, history>>

Init ==
  /\ kind \in [Calls -> SUBSET Directions] /\ up = TRUE
  /\ status = [c \in Calls |-> "idle"] /\ job = [c \in Calls |-> "none"] /\ reply = [c \in Calls |-> "none"]
  /\ queue = [i \in Iterators |-> <<>>] /\ isEnd = [i \in Iterators |-> FALSE]
  /\ loop = [i \in Iterators |-> "none"] /\ held = [i \in Iterators |-> 0]
  /\ wire = [s \in Streams |-> <<>>] /\ ended = [s \in Streams |-> FALSE]
  /\ broken = {} /\ breaks = 0
  /\ pushed = [s \in Streams |-> 0] /\ due = [s \in Streams |-> 0]
  /\ got = [s \in Streams |-> <<>>] /\ replaced = {}

-----------------------------------------------------------------------------
(* The client: send() and emit() *)

\* Not connected, no such method, or data of the wrong kind.
Refuse(c) ==
  /\ up /\ status[c] = "idle"
  /\ status' = [status EXCEPT ![c] = "refused"]
  /\ UNCHANGED <<iterators, kind, up, job, reply, broken, breaks, net, history>>

\* The call is made; the pump of a request stream begins.
Make(c, state) ==
  /\ up /\ status[c] = "idle"
  /\ status' = [status EXCEPT ![c] = state]
  /\ IF "request" \in kind[c] THEN Goto(Writer(Request(c)), "looking") ELSE UNCHANGED iterators
  /\ UNCHANGED <<kind, up, job, reply, broken, breaks, net, history>>

\* send() resolves with a ReadIterator at once, or when the answer is there.
Send(c) == Make(c, IF "response" \in kind[c] THEN "reading" ELSE "waiting")
Emit(c) == Make(c, "emitted")
Made(c) == status[c] \notin {"idle", "refused"}

\* The callback of a call whose response is no stream.
Callback(c) ==
  /\ up /\ status[c] = "waiting" /\ reply[c] # "none" /\ c \notin broken
  /\ status' = [status EXCEPT ![c] = reply[c]]
  /\ UNCHANGED <<iterators, kind, up, job, reply, broken, breaks, net, history>>

-----------------------------------------------------------------------------
(* The server: the method's implementation, handleMessage *)

\* A request that is a stream gets its ReadIterator, a response its WriteIterator.
Arrive(c) ==
  /\ Made(c) /\ job[c] = "none" /\ c \notin broken
  /\ job' = [job EXCEPT ![c] = "running"]
  /\ UNCHANGED <<iterators, kind, up, status, reply, broken, breaks, net, history>>

\* The pattern handler throws before the pipeline begins: nobody answers.
Throw(c) ==
  /\ job[c] = "running"
  /\ job' = [job EXCEPT ![c] = "lost"]
  /\ UNCHANGED <<iterators, kind, up, status, reply, broken, breaks, net, history>>

\* callback(null, result.data): an error of the response leaves no data, which
\* the library answers as it can.
Answer(c) ==
  /\ job[c] = "running" /\ "response" \notin kind[c]
  /\ job' = [job EXCEPT ![c] = "over"]
  /\ \E r \in {"data", "error"} : reply' = [reply EXCEPT ![c] = r]
  /\ UNCHANGED <<iterators, kind, up, status, broken, breaks, net, history>>

\* The body still is the WriteIterator: its pump begins.
AnswerStream(c) ==
  /\ job[c] = "running" /\ "response" \in kind[c]
  /\ job' = [job EXCEPT ![c] = "sending"]
  /\ Goto(Writer(Response(c)), "looking")
  /\ UNCHANGED <<kind, up, status, reply, broken, breaks, net, history>>

\* Another body is written as one item; an error, or no body, as none.
AnswerOther(c) ==
  /\ job[c] = "running" /\ "response" \in kind[c]
  /\ job' = [job EXCEPT ![c] = "over"]
  /\ \E items \in {<<>>, <<0>>} : wire' = IF c \in broken THEN wire ELSE [wire EXCEPT ![Response(c)] = items]
  /\ ended' = [ended EXCEPT ![Response(c)] = TRUE] /\ replaced' = replaced \cup {Response(c)}
  /\ UNCHANGED <<iterators, kind, up, status, reply, broken, breaks, pushed, due, got>>

-----------------------------------------------------------------------------
(* Streams *)

Runs(s) == s[2] \in kind[s[1]]
WriterAlive(s) == Runs(s) /\ (s[2] = "request" => up)
ReaderAlive(s) == Runs(s) /\ (s[2] = "response" => up)

\* The reader's ReadIterator was made.
Listening(s) ==
  ReaderAlive(s) /\ IF s[2] = "request" THEN job[s[1]] # "none" ELSE status[s[1]] = "reading"

\* User code has a WriteIterator of its own, or that of the response, for as
\* long as it likes.
CanPush(s) == WriterAlive(s) /\ (s[2] = "response" => job[s[1]] # "none")

UserPush(s) ==
  /\ CanPush(s) /\ pushed[Request(s[1])] + pushed[Response(s[1])] < MaxItems
  /\ pushed' = [pushed EXCEPT ![s] = @ + 1] /\ Push(Writer(s), pushed[s] + 1)
  /\ UNCHANGED <<call, net, due, got, replaced>>

UserEnd(s) ==
  /\ CanPush(s) /\ ~isEnd[Writer(s)]
  /\ due' = [due EXCEPT ![s] = pushed[s]] /\ End(Writer(s))
  /\ UNCHANGED <<call, net, pushed, got, replaced>>

PumpLook(s) == WriterAlive(s) /\ Look(Writer(s)) /\ UNCHANGED <<call, net, history>>

PumpWrite(s) ==
  /\ WriterAlive(s) /\ loop[Writer(s)] = "body"
  /\ wire' = IF s[1] \in broken THEN wire ELSE [wire EXCEPT ![s] = Append(@, held[Writer(s)])]
  /\ Goto(Writer(s), "looking")
  /\ UNCHANGED <<call, ended, history>>

\* Mutant: the client does not end its requests.
PumpEndResponse(s) ==
  /\ WriterAlive(s) /\ s[2] = "response" /\ loop[Writer(s)] = "left" /\ ~ended[s]
  /\ ended' = [ended EXCEPT ![s] = TRUE]
  /\ job' = [job EXCEPT ![s[1]] = "over"]
  /\ UNCHANGED <<iterators, kind, up, status, reply, broken, breaks, wire, history>>

\* Behind the loop: call.end().  The response has been sent.
PumpEnd(s) ==
  /\ WriterAlive(s) /\ loop[Writer(s)] = "left" /\ ~ended[s]
  /\ ended' = [ended EXCEPT ![s] = TRUE]
  /\ job' = IF s[2] = "response" THEN [job EXCEPT ![s[1]] = "over"] ELSE job
  /\ UNCHANGED <<iterators, kind, up, status, reply, broken, breaks, wire, history>>

\* The data and end events of a call.
Deliver(s) ==
  /\ Listening(s) /\ s[1] \notin broken /\ wire[s] # <<>>
  /\ wire' = [wire EXCEPT ![s] = Tail(@)] /\ Push(Reader(s), Head(wire[s]))
  /\ UNCHANGED <<call, ended, history>>

DeliverEnd(s) ==
  /\ Listening(s) /\ s[1] \notin broken /\ wire[s] = <<>> /\ ended[s] /\ ~isEnd[Reader(s)]
  /\ End(Reader(s))
  /\ UNCHANGED <<call, net, history>>

\* User code loops over what it receives, and may break out and loop again.
Read(s) ==
  /\ Listening(s) /\ loop[Reader(s)] = "none"
  /\ Goto(Reader(s), "looking")
  /\ UNCHANGED <<call, net, history>>

ReaderLook(s) == ReaderAlive(s) /\ Look(Reader(s)) /\ UNCHANGED <<call, net, history>>

Consume(s) ==
  /\ ReaderAlive(s) /\ loop[Reader(s)] = "body"
  /\ got' = [got EXCEPT ![s] = Append(@, held[Reader(s)])]
  /\ \E place \in {"looking", "none"} : Goto(Reader(s), place)
  /\ UNCHANGED <<call, net, pushed, due, replaced>>

-----------------------------------------------------------------------------
\* What the client still waits for when a call breaks.
Pending(c) ==
  IF "response" \in kind[c]
  THEN ~isEnd[Reader(Response(c))] /\ ~(status[c] = "emitted" /\ ended[Response(c)])
  ELSE status[c] = "waiting"

\* A call fails or is cut off, by the network, a shutdown or the end of a
\* process.  A callback is called with the error; nobody listens to the error
\* event of a response stream, so that it is an uncaught exception.  The server's
\* ReadIterator may hear of an end or of nothing.
Break(c) ==
  /\ Made(c) /\ c \notin broken /\ (breaks < MaxBreaks \/ ~up)
  /\ broken' = broken \cup {c} /\ breaks' = IF up THEN breaks + 1 ELSE breaks
  /\ wire' = [s \in Streams |-> IF s[1] = c THEN <<>> ELSE wire[s]]
  /\ up' = (up /\ ~(Pending(c) /\ "response" \in kind[c]))
  /\ status' = IF up /\ status[c] = "waiting" THEN [status EXCEPT ![c] = "error"] ELSE status
  /\ \/ "request" \in kind[c] /\ job[c] # "none" /\ End(Reader(Request(c)))
     \/ UNCHANGED iterators
  /\ UNCHANGED <<kind, job, reply, ended, history>>

-----------------------------------------------------------------------------
Pump(s) == PumpLook(s) \/ PumpWrite(s) \/ PumpEnd(s)
Transport(s) == Deliver(s) \/ DeliverEnd(s)
Loop(s) == ReaderLook(s) \/ Consume(s)

Next ==
  \/ \E c \in Calls :
       \/ Refuse(c) \/ Send(c) \/ Emit(c) \/ Callback(c) \/ Arrive(c) \/ Throw(c)
       \/ Answer(c) \/ AnswerStream(c) \/ AnswerOther(c) \/ Break(c)
  \/ \E s \in Streams : UserPush(s) \/ UserEnd(s) \/ Read(s) \/ Pump(s) \/ Transport(s) \/ Loop(s)

\* What was written arrives, answers are called back, and loops go on.
Fairness ==
  /\ \A c \in Calls : WF_vars(Callback(c)) /\ WF_vars(Arrive(c))
  /\ \A s \in Streams : WF_vars(Pump(s)) /\ WF_vars(Transport(s)) /\ WF_vars(Loop(s))

Spec == Init /\ [][Next]_vars /\ Fairness

-----------------------------------------------------------------------------
(* Properties *)

\* The shape of the state.
TypeOK ==
  /\ kind \in [Calls -> SUBSET Directions] /\ up \in BOOLEAN
  /\ status \in [Calls -> {"idle", "refused", "waiting", "reading", "emitted", "data", "error"}]
  /\ job \in [Calls -> {"none", "running", "lost", "sending", "over"}]
  /\ reply \in [Calls -> {"none", "data", "error"}]
  /\ queue \in [Iterators -> Seq(Items)] /\ isEnd \in [Iterators -> BOOLEAN]
  /\ loop \in [Iterators -> Places] /\ held \in [Iterators -> Items]
  /\ wire \in [Streams -> Seq(Items)] /\ ended \in [Streams -> BOOLEAN]
  /\ broken \subseteq Calls /\ breaks \in 0 .. MaxBreaks
  /\ pushed \in [Streams -> 0 .. MaxItems] /\ due \in [Streams -> 0 .. MaxItems]
  /\ got \in [Streams -> Seq(Items)] /\ replaced \subseteq Streams

\* A loop waits only for what has not happened: no item and no end is there that
\* it will not be woken for.
NoLostWakeup == \A i \in Iterators : loop[i] = "waiting" => queue[i] = <<>> /\ ~isEnd[i]

\* A reader that was told the end has every item pushed before the end, over both
\* queues and the wire, unless the call broke.
EndMeansAll ==
  \A s \in Streams \ replaced :
    loop[Reader(s)] = "left" /\ s[1] \notin broken => isEnd[Writer(s)] /\ Len(got[s]) >= due[s]

\* A stream whose writer is done is read to its end by a reader that keeps reading.
Written(s) == ended[s] \/ (isEnd[Writer(s)] /\ loop[Writer(s)] # "none")
StreamsEnd ==
  \A s \in Streams :
    Written(s) /\ loop[Reader(s)] \in {"looking", "waiting", "body"}
      ~> loop[Reader(s)] \in {"none", "left"} \/ s[1] \in broken \/ ~up

\* What both ends rely on.
Promise == INSTANCE ItemStreams WITH
  sent <- pushed,
  closed <- {s \in Streams : isEnd[Writer(s)]},
  finished <- {s \in Streams : loop[Reader(s)] = "left"},
  cut <- {s \in Streams : s[1] \in broken}
KeepsPromise == Promise!Safety
=============================================================================
