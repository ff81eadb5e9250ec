------------------------------- MODULE Listen -------------------------------
(***************************************************************************)
(* Servers of @ipare/native and @ipare/micro-tcp in one process: listen(), *)
(* dynamicListen(), which tries one port after the other, close(), and the *)
(* connections of clients.  The server of Node is external: it binds a     *)
(* port at once and tells so, or that it failed, by an event of the next   *)
(* tick.  User code awaits a listen before it calls the next, and closes a *)
(* server to its end before it listens again.                              *)
(***************************************************************************)
EXTENDS Naturals, Sequences, FiniteSets

CONSTANTS
  Servers,
  Native,      \* the servers of @ipare/native
  Clients,     \* connections of clients
  LastPort,    \* ports are 1 .. LastPort, 65535 in truth
  Asked,       \* ports user code asks for; dynamicListen tries those behind them, too
  Denied,      \* ports nobody may bind
  MaxListens,  \* bound: listens of the servers
  MaxOthers,   \* bound: times other processes take a port
  MaxFaults    \* bound: errors of listening servers

Ports == 1 .. LastPort

ASSUME ListenAssumption ==
  /\ Native \subseteq Servers /\ {"nobody", "other"} \cap Servers = {}
  /\ LastPort \in Nat /\ Asked \subseteq 1 .. LastPort /\ Denied \subseteq 1 .. LastPort
  /\ MaxListens \in Nat /\ MaxOthers \in Nat /\ MaxFaults \in Nat

VARIABLES
  alive,       \* no uncaught error ended the process
  holder,      \* [Ports -> ...]: who listens there
  tries,       \* [Servers -> sequence]: the calls of tryListen, with their error and listen
  onListening, \* [Servers -> set of tries]: the once("listening") that are registered
  onError,     \* [Servers -> set of tries]: the once("error")
  event,       \* [Servers -> ...]: what the server will emit
  promise,     \* [Servers -> ...]: what the last listen returned, if dynamicListen
  result,      \* [Servers -> ports]: the port it was resolved with, 0 before
  wired,       \* servers whose own listeners are registered
  closing,     \* servers whose close() waits
  closed,      \* history: servers close() was called on since they were told to listen
  at,          \* [Clients -> Servers or "nobody"]
  asks,        \* [Clients -> ...]: the request of a client
  heard,       \* clients whose connection the server handles
  listens, others, faults \* counters of what the bounds limit

server == <<tries, onListening, onError, event, promise, result, wired, closing, closed>>
connections == <<at, asks, heard>>
counters == <<listens, others, faults>>
vars == <<alive, holder, server, connections, counters>>

Init ==
  /\ alive = TRUE /\ holder = [p \in Ports |-> "nobody"]
  /\ tries = [s \in Servers |-> <<>>]
  /\ onListening = [s \in Servers |-> {}] /\ onError = [s \in Servers |-> {}]
  /\ event = [s \in Servers |-> "none"] /\ promise = [s \in Servers |-> "none"]
  /\ result = [s \in Servers |-> 0]
  /\ wired = Servers /\ closing = {} /\ closed = {}
  /\ at = [c \in Clients |-> "nobody"] /\ asks = [c \in Clients |-> "nothing"] /\ heard = {}
  /\ listens = 0 /\ others = 0 /\ faults = 0

Listening(s) == \E p \in Ports : holder[p] = s

\* An error event without a listener, or a rejected promise nobody handles, ends
\* the process, unless it is told not to.
Dies == alive' \in {TRUE, FALSE}

-----------------------------------------------------------------------------
(* listen(), dynamicListen() *)

\* server.listen(p): what the server will emit.
Bind(s, p) ==
  IF p \notin Denied /\ holder[p] = "nobody"
  THEN holder' = [holder EXCEPT ![p] = s] /\ event' = [event EXCEPT ![s] = "listening"]
  ELSE /\ UNCHANGED holder
       /\ event' = [event EXCEPT ![s] = IF p \in Denied THEN "EACCES" ELSE "EADDRINUSE"]

\* listen() registers nothing, so an error of it is an uncaught one.
Listen(s, p) ==
  /\ alive /\ listens < MaxListens /\ listens' = listens + 1
  /\ ~Listening(s) /\ event[s] = "none" /\ s \notin closing /\ promise[s] # "pending"
  /\ Bind(s, p)
  /\ promise' = [promise EXCEPT ![s] = "none"] /\ result' = [result EXCEPT ![s] = 0] /\ closed' = closed \ {s}
  /\ UNCHANGED <<alive, tries, onListening, onError, wired, closing, connections, others, faults>>

\* dynamicListen calls tryListen for the first time.
DynamicListen(s, p) ==
  /\ alive /\ listens < MaxListens /\ listens' = listens + 1
  /\ ~Listening(s) /\ event[s] = "none" /\ s \notin closing /\ promise[s] # "pending"
  /\ LET n == Len(tries[s]) + 1 IN
     /\ tries' = [tries EXCEPT ![s] = Append(@, [port |-> p, first |-> TRUE, error |-> FALSE, listen |-> FALSE])]
     /\ onListening' = [onListening EXCEPT ![s] = @ \cup {n}] /\ onError' = [onError EXCEPT ![s] = @ \cup {n}]
  /\ Bind(s, p)
  /\ promise' = [promise EXCEPT ![s] = "pending"] /\ result' = [result EXCEPT ![s] = 0] /\ closed' = closed \ {s}
  /\ UNCHANGED <<alive, wired, closing, connections, others, faults>>

\* Mutant: a try that failed resolves when another one listens.
ResolveAny(s) == onListening[s]

\* The tries whose promise the event resolves: those that did not fail.
Resolve(s) == {n \in onListening[s] : ~tries[s][n].error}

\* The listeners of every try so far hear of it.  A resolved promise resolves
\* those of the tries it was made for.
ListeningEvent(s) ==
  /\ alive /\ event[s] = "listening" /\ event' = [event EXCEPT ![s] = "none"]
  /\ tries' = [tries EXCEPT ![s] = [n \in DOMAIN @ |->
       IF n \in onListening[s] THEN [@[n] EXCEPT !.listen = TRUE] ELSE @[n]]]
  /\ onListening' = [onListening EXCEPT ![s] = {}]
  /\ IF Resolve(s) = {} THEN UNCHANGED <<promise, result>>
     ELSE \E n \in Resolve(s) :
            /\ \A k \in Resolve(s) : n <= k
            /\ promise' = [promise EXCEPT ![s] = "resolved"] /\ result' = [result EXCEPT ![s] = tries[s][n].port]
  /\ UNCHANGED <<alive, holder, onError, wired, closing, closed, connections, counters>>

\* Try n failed: the next port, or the error to whom the promise was returned.
\* For a try made by another one that is nobody.  listen() throws beyond LastPort.
Retry(s, n) ==
  LET p == tries[s][n].port + 1
      m == Len(tries[s]) + 1 IN
  /\ event[s] = "EADDRINUSE" /\ p \in Ports
  /\ Bind(s, p)
  /\ tries' = [tries EXCEPT ![s] = Append([@ EXCEPT ![n].error = TRUE],
       [port |-> p, first |-> FALSE, error |-> FALSE, listen |-> FALSE])]
  /\ onListening' = [onListening EXCEPT ![s] = @ \cup {m}]
  /\ onError' = [onError EXCEPT ![s] = {m}]
  /\ UNCHANGED <<alive, promise>>

\* Mutant: only EADDRINUSE is dealt with.
GiveUpQuietly(s, n) ==
  /\ event[s] = "EADDRINUSE" => tries[s][n].port = LastPort
  /\ tries' = [tries EXCEPT ![s][n].error = TRUE]
  /\ onError' = [onError EXCEPT ![s] = {}] /\ event' = [event EXCEPT ![s] = "none"]
  /\ UNCHANGED <<alive, promise, holder, onListening>>

GiveUp(s, n) ==
  LET beyond == event[s] = "EADDRINUSE" IN
  /\ beyond => tries[s][n].port = LastPort
  /\ IF tries[s][n].first /\ ~beyond
     THEN promise' = [promise EXCEPT ![s] = "rejected"] /\ UNCHANGED alive
     ELSE Dies /\ UNCHANGED promise
  /\ tries' = [tries EXCEPT ![s][n].error = TRUE]
  /\ onError' = [onError EXCEPT ![s] = {}] /\ event' = [event EXCEPT ![s] = "none"]
  /\ UNCHANGED <<holder, onListening>>

ErrorEvent(s) ==
  /\ alive /\ event[s] \in {"EADDRINUSE", "EACCES"}
  /\ \/ \E n \in onError[s] : Retry(s, n) \/ GiveUp(s, n)
     \/ /\ onError[s] = {} /\ Dies /\ event' = [event EXCEPT ![s] = "none"]
        /\ UNCHANGED <<holder, tries, onListening, onError, promise>>
  /\ UNCHANGED <<result, wired, closing, closed, connections, counters>>

\* An error of a server that listens: the last try hears of the first one.
Fault(s) ==
  /\ alive /\ Listening(s) /\ event[s] = "none" /\ faults < MaxFaults /\ faults' = faults + 1
  /\ IF onError[s] = {} THEN Dies ELSE UNCHANGED alive
  /\ onError' = [onError EXCEPT ![s] = {}]
  /\ tries' = [tries EXCEPT ![s] = [n \in DOMAIN @ |->
       IF n \in onError[s] THEN [@[n] EXCEPT !.error = TRUE] ELSE @[n]]]
  /\ UNCHANGED <<holder, onListening, event, promise, result, wired, closing, closed, connections, listens, others>>

-----------------------------------------------------------------------------
(* close() *)

Unbind(s) == holder' = [p \in Ports |-> IF holder[p] = s THEN "nobody" ELSE holder[p]]

\* Mutant: the listeners stay.
CloseServerKeepingListeners(s) ==
  /\ alive /\ s \notin closing
  /\ closing' = closing \cup {s} /\ closed' = closed \cup {s}
  /\ promise' = [promise EXCEPT ![s] = IF @ = "pending" THEN "forgotten" ELSE @]
  /\ Unbind(s) /\ event' = [event EXCEPT ![s] = IF @ = "listening" THEN "none" ELSE @]
  /\ UNCHANGED <<alive, tries, onListening, onError, result, wired, connections, counters>>

\* removeAllListeners() takes those of the startup and of the tries, without which
\* a pending promise never settles; the port is free at once, and "listening" is
\* not emitted any more.
CloseServer(s) ==
  /\ alive /\ s \notin closing
  /\ wired' = wired \ {s}
  /\ onListening' = [onListening EXCEPT ![s] = {}] /\ onError' = [onError EXCEPT ![s] = {}]
  /\ closing' = closing \cup {s} /\ closed' = closed \cup {s}
  /\ promise' = [promise EXCEPT ![s] = IF @ = "pending" THEN "forgotten" ELSE @]
  /\ Unbind(s) /\ event' = [event EXCEPT ![s] = IF @ = "listening" THEN "none" ELSE @]
  /\ UNCHANGED <<alive, tries, result, connections, counters>>

\* Mutant: the callback is a listener, too.
ClosedByListener(s) ==
  /\ alive /\ s \in closing \cap wired /\ event[s] = "none" /\ \A c \in Clients : at[c] # s
  /\ closing' = closing \ {s}
  /\ UNCHANGED <<alive, holder, tries, onListening, onError, event, promise, result, wired, closed, connections, counters>>

\* server.close() calls back when the last connection ended.
Closed(s) ==
  /\ alive /\ s \in closing /\ event[s] = "none" /\ \A c \in Clients : at[c] # s
  /\ closing' = closing \ {s}
  /\ UNCHANGED <<alive, holder, tries, onListening, onError, event, promise, result, wired, closed, connections, counters>>

-----------------------------------------------------------------------------
(* The clients of a server, and other processes *)

\* The "connection" event finds its listener, or nobody reads the connection.
Open(c, s) ==
  /\ alive /\ at[c] = "nobody" /\ Listening(s)
  /\ at' = [at EXCEPT ![c] = s]
  /\ heard' = IF s \in wired THEN heard \cup {c} ELSE heard
  /\ UNCHANGED <<alive, holder, server, asks, counters>>

Ask(c) ==
  /\ alive /\ at[c] # "nobody" /\ asks[c] = "nothing"
  /\ asks' = [asks EXCEPT ![c] = "asked"]
  /\ UNCHANGED <<alive, holder, server, at, heard, counters>>

\* Mutant: a socket is read as long as its server has its listeners.
HearsWired(c) == c \in heard /\ at[c] \in wired

\* A socket of micro-tcp has listeners of its own; a request of native is an
\* event of the server.
Hears(c) == c \in heard /\ (at[c] \in Native => at[c] \in wired)

Receive(c) ==
  /\ alive /\ asks[c] = "asked"
  /\ asks' = [asks EXCEPT ![c] = IF Hears(c) THEN "running" ELSE "ignored"]
  /\ UNCHANGED <<alive, holder, server, at, heard, counters>>

Answer(c) ==
  /\ alive /\ asks[c] = "running"
  /\ asks' = [asks EXCEPT ![c] = "nothing"]
  /\ UNCHANGED <<alive, holder, server, at, heard, counters>>

\* A client ends its connection when it has its answer.
Leave(c) ==
  /\ alive /\ at[c] # "nobody" /\ asks[c] = "nothing"
  /\ at' = [at EXCEPT ![c] = "nobody"] /\ heard' = heard \ {c}
  /\ UNCHANGED <<alive, holder, server, asks, counters>>

Take(p) ==
  /\ holder[p] = "nobody" /\ others < MaxOthers /\ others' = others + 1
  /\ holder' = [holder EXCEPT ![p] = "other"]
  /\ UNCHANGED <<alive, server, connections, listens, faults>>

Release(p) ==
  /\ holder[p] = "other" /\ holder' = [holder EXCEPT ![p] = "nobody"]
  /\ UNCHANGED <<alive, server, connections, counters>>

Emit(s) == ListeningEvent(s) \/ ErrorEvent(s)
Serve(c) == Receive(c) \/ Answer(c)

Next ==
  \/ \E s \in Servers : (\E p \in Asked : Listen(s, p) \/ DynamicListen(s, p)) \/ Emit(s) \/ Fault(s) \/ CloseServer(s) \/ Closed(s)
  \/ \E c \in Clients : Ask(c) \/ Serve(c) \/ Leave(c) \/ \E s \in Servers : Open(c, s)
  \/ \E p \in Ports : Take(p) \/ Release(p)

\* Node emits its events and ends a server without connections, handlers end, and
\* a client that keeps getting its answers leaves a server that is closing.
Fairness ==
  /\ \A s \in Servers : WF_vars(Emit(s)) /\ WF_vars(Closed(s))
  /\ \A c \in Clients : WF_vars(Serve(c)) /\ SF_vars(Leave(c) /\ at[c] \in closing)

Spec == Init /\ [][Next]_vars /\ Fairness

-----------------------------------------------------------------------------
(* Properties *)

\* The shape of the state: one try may hear of an error, the latest one, and no
\* two servers share a port.
TypeOK ==
  /\ alive \in BOOLEAN /\ holder \in [Ports -> Servers \cup {"nobody", "other"}]
  /\ tries \in [Servers -> Seq([port : Ports, first : BOOLEAN, error : BOOLEAN, listen : BOOLEAN])]
  /\ onListening \in [Servers -> SUBSET Nat] /\ onError \in [Servers -> SUBSET Nat]
  /\ \A s \in Servers :
       onListening[s] \subseteq DOMAIN tries[s] /\ onError[s] \subseteq DOMAIN tries[s] \cap {Len(tries[s])}
  /\ event \in [Servers -> {"none", "listening", "EACCES", "EADDRINUSE"}]
  /\ promise \in [Servers -> {"none", "pending", "forgotten", "rejected", "resolved"}]
  /\ result \in [Servers -> 0 .. LastPort]
  /\ wired \subseteq Servers /\ closing \subseteq closed /\ closed \subseteq Servers
  /\ at \in [Clients -> Servers \cup {"nobody"}] /\ heard \subseteq Clients
  /\ asks \in [Clients -> {"nothing", "asked", "running", "ignored"}]
  /\ listens \in 0 .. MaxListens /\ others \in 0 .. MaxOthers /\ faults \in 0 .. MaxFaults

\* dynamicListen tried another port before it met an error it gave up on.
Stuck(s) ==
  LET n == Len(tries[s]) IN
  n > 0 /\ tries[s][n].error /\ event[s] = "none" /\ (~tries[s][n].first \/ tries[s][n].port = LastPort)

\* When dynamicListen returned a port, its server listens there, however many
\* ports were tried, and at no other one, until it is closed.
ResolvedWhereItListens ==
  \A s \in Servers : promise[s] = "resolved" /\ s \notin closed => {p \in Ports : holder[p] = s} = {result[s]}

\* A server that is closed, also in the middle of dynamicListen, does not listen
\* to the next port afterwards.
ClosedStaysClosed == \A s \in closed : ~Listening(s) /\ event[s] # "listening"

\* As long as dynamicListen is pending, the latest of its tries will hear of an
\* event, unless an error was nobody's.
PendingIsUnderWay ==
  \A s \in Servers : promise[s] = "pending" /\ ~Stuck(s) =>
    event[s] # "none" /\ onError[s] = {Len(tries[s])} /\ Len(tries[s]) \in onListening[s]

\* A request is answered as long as close() was not called; on a connection of
\* micro-tcp that was handled before, also while close() waits.
Handled(c) == c \in heard /\ (at[c] \in wired \/ at[c] \notin Native)
RequestsAnswered ==
  \A c \in Clients : asks[c] = "asked" /\ Handled(c) ~> asks[c] = "nothing" \/ ~Handled(c) \/ ~alive

\* close() ends, unless a client waits for an answer nobody will give.
CloseEnds ==
  \A s \in Servers :
    s \in closing ~> s \notin closing \/ ~alive \/ \E c \in Clients : at[c] = s /\ asks[c] = "ignored"
=============================================================================
