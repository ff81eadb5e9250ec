---------------------------- MODULE ListenProofs ----------------------------
(***************************************************************************)
(* Theorems about Listen, for any servers, ports, clients and bounds.      *)
(***************************************************************************)
EXTENDS Listen, SequenceTheorems, TLAPS

(* The inductive invariant: TypeOK and, of every server, what follows. *)

\* A server listens at one port at most.
OnePort(s) == \A p, q \in Ports : holder[p] = s /\ holder[q] = s => p = q

\* An event that is due tells how the last call of listen() ended.
EventSays(s) ==
  /\ event[s] = "listening" => Listening(s)
  /\ event[s] \in {"EACCES", "EADDRINUSE"} => ~Listening(s)

\* Of the tries that will hear of a listening server only the latest can have not failed.
OneUnfailed(s) == \A n \in onListening[s] : ~tries[s][n].error => n = Len(tries[s])

\* Once dynamicListen settled, no try is left that could settle it again.
AllFailed(s) == promise[s] # "pending" => \A n \in onListening[s] : tries[s][n].error

\* The latest try hears of the event that is due, which is about its port.
UnderWay(s) ==
  LET n == Len(tries[s]) IN
  /\ event[s] # "none" /\ n > 0 /\ onError[s] = {n} /\ n \in onListening[s] /\ ~tries[s][n].error
  /\ event[s] = "listening" => holder[tries[s][n].port] = s

\* dynamicListen is under way as long as it is pending, or stuck for good.
Pending(s) ==
  promise[s] = "pending" => UnderWay(s) \/ (Stuck(s) /\ onError[s] = {} /\ ~Listening(s))

\* A port that was returned is listened at.
Resolved(s) ==
  promise[s] = "resolved" /\ s \notin closed =>
    event[s] = "none" /\ result[s] \in Ports /\ holder[result[s]] = s

\* A rejected or forgotten dynamicListen left no listener of errors.
NobodyHears(s) == promise[s] \notin {"pending", "resolved"} => onError[s] = {}

\* A closed server has no listeners, port, or event that says it listens.
Quiet(s) ==
  s \in closed =>
    ~Listening(s) /\ event[s] # "listening" /\ promise[s] # "pending" /\ onError[s] = {} /\ onListening[s] = {}

Consistent(s) ==
  /\ OnePort(s) /\ EventSays(s) /\ OneUnfailed(s) /\ AllFailed(s)
  /\ Pending(s) /\ Resolved(s) /\ NobodyHears(s) /\ Quiet(s)

IInv == TypeOK /\ \A s \in Servers : Consistent(s)

\* A step that is none of server s.
Same(s) ==
  /\ tries'[s] = tries[s] /\ onListening'[s] = onListening[s] /\ onError'[s] = onError[s]
  /\ event'[s] = event[s] /\ promise'[s] = promise[s] /\ result'[s] = result[s]
  /\ s \in closed' <=> s \in closed
  /\ \A p \in Ports : holder'[p] = s <=> holder[p] = s

Try == [port : Ports, first : BOOLEAN, error : BOOLEAN, listen : BOOLEAN]

LEMMA PortsAre == Asked \subseteq Ports /\ Denied \subseteq Ports /\ Ports \subseteq Nat
BY ListenAssumption DEF Ports

LEMMA Names == Servers \cap {"nobody", "other"} = {}
BY ListenAssumption

\* The tries of a server, and those its listeners belong to.
LEMMA TriesAre == ASSUME TypeOK, NEW s \in Servers
  PROVE /\ tries[s] \in Seq(Try) /\ Len(tries[s]) \in Nat
        /\ DOMAIN tries[s] = 1 .. Len(tries[s])
        /\ \A n \in onListening[s] \cup onError[s] : n \in 1 .. Len(tries[s]) /\ tries[s][n] \in Try
<1>1. tries[s] \in Seq(Try)
  BY DEF TypeOK, Try
<1>2. Len(tries[s]) \in Nat /\ DOMAIN tries[s] = 1 .. Len(tries[s])
  BY <1>1
<1>3. \A n \in onListening[s] \cup onError[s] : n \in 1 .. Len(tries[s])
  BY <1>2 DEF TypeOK
<1>4. \A n \in 1 .. Len(tries[s]) : tries[s][n] \in Try
  BY <1>1
<1> QED
  BY <1>1, <1>2, <1>3, <1>4

\* A server keeps its invariant through the steps of others.
LEMMA Untouched == ASSUME NEW s \in Servers, Consistent(s), TypeOK, Same(s) PROVE Consistent(s)'
<1>1. Listening(s)' <=> Listening(s)
  BY DEF Same, Listening
<1>2. (OnePort(s) /\ EventSays(s) /\ OneUnfailed(s) /\ AllFailed(s) /\ NobodyHears(s))'
  BY <1>1 DEF Consistent, Same, OnePort, EventSays, OneUnfailed, AllFailed, NobodyHears
<1>3. Pending(s)'
  <2>1. ASSUME UnderWay(s) PROVE tries[s][Len(tries[s])].port \in Ports
    BY <2>1, TriesAre DEF UnderWay, Try
  <2>2. UnderWay(s) => UnderWay(s)'
    BY <2>1 DEF UnderWay, Same
  <2>3. Stuck(s) => Stuck(s)'
    BY DEF Stuck, Same
  <2> QED
    BY <1>1, <2>2, <2>3 DEF Consistent, Pending, Same
<1>4. (Resolved(s) /\ Quiet(s))'
  BY <1>1 DEF Consistent, Same, Resolved, Quiet
<1> QED
  BY <1>2, <1>3, <1>4 DEF Consistent

-----------------------------------------------------------------------------
LEMMA InitHolds == Init => IInv
<1>1. Init => TypeOK
  BY ListenAssumption DEF Init, TypeOK
<1>2. ASSUME Init, NEW s \in Servers PROVE Consistent(s)
  BY <1>2, Names DEF Init, Consistent, OnePort, EventSays, OneUnfailed, AllFailed, Pending, UnderWay, Resolved,
     NobodyHears, Quiet, Listening
<1> QED
  BY <1>1, <1>2 DEF IInv

LEMMA StutterKeeps == ASSUME IInv, UNCHANGED vars PROVE IInv'
<1>1. TypeOK'
  BY DEF IInv, TypeOK, vars, server, connections, counters
<1>2. ASSUME NEW s \in Servers PROVE Same(s)
  BY DEF Same, vars, server
<1> QED
  BY <1>1, <1>2, Untouched DEF IInv

\* server.listen() changes what one server holds.
LEMMA BindType == ASSUME TypeOK, NEW s \in Servers, NEW p \in Ports, Bind(s, p)
  PROVE /\ holder' \in [Ports -> Servers \cup {"nobody", "other"}]
        /\ event' \in [Servers -> {"none", "listening", "EACCES", "EADDRINUSE"}]
        /\ \A t \in Servers : t # s => event'[t] = event[t] /\ \A q \in Ports : holder'[q] = t <=> holder[q] = t
<1>1. holder' \in [Ports -> Servers \cup {"nobody", "other"}]
  <2>1. holder \in [Ports -> Servers \cup {"nobody", "other"}]
    BY DEF TypeOK
  <2>2. UNCHANGED holder \/ holder' = [holder EXCEPT ![p] = s]
    BY DEF Bind
  <2> QED
    BY <2>1, <2>2
<1>2. event' \in [Servers -> {"none", "listening", "EACCES", "EADDRINUSE"}]
  BY DEF TypeOK, Bind
<1>3. ASSUME NEW t \in Servers, t # s PROVE event'[t] = event[t]
  BY <1>3 DEF TypeOK, Bind
<1>4. ASSUME NEW t \in Servers, t # s, NEW q \in Ports PROVE holder'[q] = t <=> holder[q] = t
  BY <1>4, Names DEF TypeOK, Bind
<1> QED
  BY <1>1, <1>2, <1>3, <1>4

\* server.listen() of a server that does not listen.
LEMMA BindServer == ASSUME TypeOK, NEW s \in Servers, NEW p \in Ports, Bind(s, p), ~Listening(s)
  PROVE /\ OnePort(s)' /\ EventSays(s)' /\ event'[s] # "none"
        /\ event'[s] = "listening" => holder'[p] = s
BY Names DEF TypeOK, Bind, OnePort, EventSays, Listening

-----------------------------------------------------------------------------
(* Types *)

\* The conjuncts of TypeOK about tries.
TriesOK ==
  /\ tries \in [Servers -> Seq(Try)]
  /\ onListening \in [Servers -> SUBSET Nat] /\ onError \in [Servers -> SUBSET Nat]
  /\ \A s \in Servers :
       onListening[s] \subseteq DOMAIN tries[s] /\ onError[s] \subseteq DOMAIN tries[s] \cap {Len(tries[s])}

LEMMA NewTry == ASSUME NEW p \in Ports, NEW f \in BOOLEAN
  PROVE [port |-> p, first |-> f, error |-> FALSE, listen |-> FALSE] \in Try
BY DEF Try

LEMMA MarkedTry == ASSUME NEW r \in Try
  PROVE [r EXCEPT !.error = TRUE] \in Try /\ [r EXCEPT !.listen = TRUE] \in Try
BY DEF Try

\* A sequence whose tries are marked is as long as before.
LEMMA Marked == ASSUME NEW q \in Seq(Try), NEW r \in [1 .. Len(q) -> Try]
  PROVE r \in Seq(Try) /\ Len(r) = Len(q)
<1>1. Len(q) \in Nat
  BY LenProperties
<1>2. r \in Seq(Try)
  BY <1>1, SeqDef
<1>3. DOMAIN r = 1 .. Len(q) /\ DOMAIN r = 1 .. Len(r) /\ Len(r) \in Nat
  BY <1>2, LenProperties
<1> QED
  BY <1>1, <1>2, <1>3

\* The tries of one server, and their listeners, replaced.
LEMMA TriesTyped ==
  ASSUME TypeOK, NEW s \in Servers, NEW q \in Seq(Try),
         NEW A \in SUBSET (1 .. Len(q)), NEW B \in SUBSET ((1 .. Len(q)) \cap {Len(q)}),
         tries' = [tries EXCEPT ![s] = q],
         onListening' = [onListening EXCEPT ![s] = A], onError' = [onError EXCEPT ![s] = B]
  PROVE TriesOK'
<1>1. DOMAIN q = 1 .. Len(q) /\ Len(q) \in Nat
  BY LenProperties
<1>2. tries' \in [Servers -> Seq(Try)]
  BY DEF TypeOK, Try
<1>3. onListening' \in [Servers -> SUBSET Nat] /\ onError' \in [Servers -> SUBSET Nat]
  <2>1. 1 .. Len(q) \subseteq Nat
    OBVIOUS
  <2>2. A \in SUBSET Nat /\ B \in SUBSET Nat
    BY <2>1
  <2> QED
    BY <2>2 DEF TypeOK
<1>4. ASSUME NEW t \in Servers
      PROVE (onListening[t] \subseteq DOMAIN tries[t] /\ onError[t] \subseteq DOMAIN tries[t] \cap {Len(tries[t])})'
  <2>1. CASE t = s
    BY <2>1, <1>1 DEF TypeOK
  <2>2. CASE t # s
    BY <2>2 DEF TypeOK
  <2> QED
    BY <2>1, <2>2
<1> QED
  BY <1>2, <1>3, <1>4 DEF TriesOK

\* A server that may be told to listen has no listener of errors.
LEMMA Unheard == ASSUME IInv, NEW s \in Servers, ~Listening(s), event[s] = "none", promise[s] # "pending"
  PROVE onError[s] = {}
BY DEF IInv, Consistent, Resolved, NobodyHears, Quiet, Listening

LEMMA ListenType == ASSUME TypeOK, NEW s \in Servers, NEW p \in Asked, Listen(s, p) PROVE TypeOK'
<1>1. p \in Ports /\ Bind(s, p)
  BY PortsAre DEF Listen
<1>2. listens' \in 0 .. MaxListens /\ others' \in 0 .. MaxOthers /\ faults' \in 0 .. MaxFaults
  BY ListenAssumption DEF TypeOK, Listen
<1>3. /\ promise' \in [Servers -> {"none", "pending", "forgotten", "rejected", "resolved"}]
      /\ result' \in [Servers -> 0 .. LastPort]
  BY ListenAssumption DEF TypeOK, Listen
<1>4. closing' \subseteq closed' /\ closed' \subseteq Servers
  BY DEF TypeOK, Listen
<1> QED
  BY <1>1, <1>2, <1>3, <1>4, BindType DEF TypeOK, Listen, connections

LEMMA DynamicListenType == ASSUME IInv, NEW s \in Servers, NEW p \in Asked, DynamicListen(s, p) PROVE TypeOK'
<1> DEFINE n == Len(tries[s]) + 1
           t == [port |-> p, first |-> TRUE, error |-> FALSE, listen |-> FALSE]
<1>a. TypeOK
  BY DEF IInv
<1>1. p \in Ports /\ Bind(s, p)
  BY PortsAre DEF DynamicListen
<1>2. /\ tries' = [tries EXCEPT ![s] = Append(tries[s], t)]
      /\ onListening' = [onListening EXCEPT ![s] = onListening[s] \cup {n}]
      /\ onError' = [onError EXCEPT ![s] = {n}]
  BY Unheard DEF DynamicListen
<1>3. tries[s] \in Seq(Try) /\ t \in Try
  BY <1>a, <1>1, NewTry, TriesAre
<1>4. Append(tries[s], t) \in Seq(Try) /\ Len(Append(tries[s], t)) = n
  BY <1>3, AppendProperties
<1>5. onListening[s] \cup {n} \subseteq 1 .. n /\ n \in 1 .. n
  BY <1>a, TriesAre
<1>6. TriesOK'
  BY <1>a, <1>2, <1>4, <1>5, TriesTyped
<1>7. listens' \in 0 .. MaxListens /\ others' \in 0 .. MaxOthers /\ faults' \in 0 .. MaxFaults
  BY <1>a, ListenAssumption DEF TypeOK, DynamicListen
<1>8. /\ promise' \in [Servers -> {"none", "pending", "forgotten", "rejected", "resolved"}]
      /\ result' \in [Servers -> 0 .. LastPort]
  BY <1>a, ListenAssumption DEF TypeOK, DynamicListen
<1>9. closing' \subseteq closed' /\ closed' \subseteq Servers
  BY <1>a DEF TypeOK, DynamicListen
<1> QED
  BY <1>a, <1>1, <1>6, <1>7, <1>8, <1>9, BindType DEF TypeOK, TriesOK, Try, DynamicListen, connections

LEMMA ListeningEventType == ASSUME TypeOK, NEW s \in Servers, ListeningEvent(s) PROVE TypeOK'
<1> DEFINE q == [n \in DOMAIN tries[s] |->
             IF n \in onListening[s] THEN [tries[s][n] EXCEPT !.listen = TRUE] ELSE tries[s][n]]
<1>1. q \in [1 .. Len(tries[s]) -> Try]
  <2>1. DOMAIN tries[s] = 1 .. Len(tries[s]) /\ \A n \in DOMAIN tries[s] : tries[s][n] \in Try
    BY TriesAre, ElementOfSeq
  <2> QED
    BY <2>1, MarkedTry
<1>2. q \in Seq(Try) /\ Len(q) = Len(tries[s])
  BY <1>1, Marked, TriesAre
<1>3. tries' = [tries EXCEPT ![s] = q] /\ onListening' = [onListening EXCEPT ![s] = {}]
      /\ onError' = [onError EXCEPT ![s] = onError[s]]
  BY DEF ListeningEvent, TypeOK
<1>4. onError[s] \subseteq (1 .. Len(q)) \cap {Len(q)}
  BY <1>2, TriesAre DEF TypeOK
<1>5. TriesOK'
  BY <1>2, <1>3, <1>4, TriesTyped
<1>6. /\ promise' \in [Servers -> {"none", "pending", "forgotten", "rejected", "resolved"}]
      /\ result' \in [Servers -> 0 .. LastPort]
  <2>1. CASE Resolve(s) = {}
    BY <2>1 DEF ListeningEvent, TypeOK
  <2>2. ASSUME NEW n \in Resolve(s), promise' = [promise EXCEPT ![s] = "resolved"],
               result' = [result EXCEPT ![s] = tries[s][n].port]
        PROVE <1>6!1 /\ <1>6!2
    <3>1. tries[s][n].port \in 0 .. LastPort
      BY TriesAre DEF Resolve, Try, Ports
    <3> QED
      BY <2>2, <3>1 DEF TypeOK
  <2> QED
    BY <2>1, <2>2 DEF ListeningEvent
<1> QED
  BY <1>5, <1>6 DEF TypeOK, TriesOK, Try, ListeningEvent, connections, counters

LEMMA FaultType == ASSUME TypeOK, NEW s \in Servers, Fault(s) PROVE TypeOK'
<1> DEFINE q == [n \in DOMAIN tries[s] |->
             IF n \in onError[s] THEN [tries[s][n] EXCEPT !.error = TRUE] ELSE tries[s][n]]
<1>1. q \in [1 .. Len(tries[s]) -> Try]
  <2>1. DOMAIN tries[s] = 1 .. Len(tries[s]) /\ \A n \in DOMAIN tries[s] : tries[s][n] \in Try
    BY TriesAre, ElementOfSeq
  <2> QED
    BY <2>1, MarkedTry
<1>2. q \in Seq(Try) /\ Len(q) = Len(tries[s])
  BY <1>1, Marked, TriesAre
<1>3. tries' = [tries EXCEPT ![s] = q] /\ onListening' = [onListening EXCEPT ![s] = onListening[s]]
      /\ onError' = [onError EXCEPT ![s] = {}]
  BY DEF Fault, TypeOK
<1>4. onListening[s] \subseteq 1 .. Len(q)
  BY <1>2, TriesAre
<1>5. TriesOK'
  BY <1>2, <1>3, <1>4, TriesTyped
<1>6. listens' \in 0 .. MaxListens /\ others' \in 0 .. MaxOthers /\ faults' \in 0 .. MaxFaults
  BY ListenAssumption DEF TypeOK, Fault
<1> QED
  BY <1>5, <1>6 DEF TypeOK, TriesOK, Try, Fault, Dies, connections

LEMMA RetryType == ASSUME TypeOK, NEW s \in Servers, NEW n \in onError[s], Retry(s, n)
  PROVE TriesOK' /\ holder' \in [Ports -> Servers \cup {"nobody", "other"}]
        /\ event' \in [Servers -> {"none", "listening", "EACCES", "EADDRINUSE"}] /\ UNCHANGED <<alive, promise>>
<1> DEFINE m == Len(tries[s]) + 1
           p == tries[s][n].port + 1
           e == [tries[s][n] EXCEPT !.error = TRUE]
           t == [port |-> p, first |-> FALSE, error |-> FALSE, listen |-> FALSE]
           q == Append([tries[s] EXCEPT ![n] = e], t)
<1>1. p \in Ports /\ Bind(s, p) /\ UNCHANGED <<alive, promise>>
  BY DEF Retry
<1>2. /\ tries' = [tries EXCEPT ![s] = q] /\ onError' = [onError EXCEPT ![s] = {m}]
      /\ onListening' = [onListening EXCEPT ![s] = onListening[s] \cup {m}]
  BY DEF Retry
<1>3. n \in 1 .. Len(tries[s]) /\ e \in Try
  BY TriesAre, MarkedTry
<1>4. tries[s] \in Seq(Try) /\ t \in Try
  BY <1>1, NewTry, TriesAre
<1>5. [tries[s] EXCEPT ![n] = e] \in Seq(Try) /\ Len([tries[s] EXCEPT ![n] = e]) = Len(tries[s])
  BY <1>3, <1>4, ExceptSeq
<1>6. q \in Seq(Try) /\ Len(q) = m
  BY <1>4, <1>5, AppendProperties
<1>7. onListening[s] \cup {m} \subseteq 1 .. m /\ m \in 1 .. m
  BY TriesAre
<1>8. TriesOK'
  BY <1>2, <1>6, <1>7, TriesTyped
<1> QED
  BY <1>1, <1>8, BindType

LEMMA GiveUpType == ASSUME TypeOK, NEW s \in Servers, NEW n \in onError[s], GiveUp(s, n)
  PROVE TriesOK' /\ UNCHANGED holder /\ alive' \in BOOLEAN
        /\ event' \in [Servers -> {"none", "listening", "EACCES", "EADDRINUSE"}]
        /\ promise' \in [Servers -> {"none", "pending", "forgotten", "rejected", "resolved"}]
<1> DEFINE e == [tries[s][n] EXCEPT !.error = TRUE]
           q == [tries[s] EXCEPT ![n] = e]
<1>1. tries' = [tries EXCEPT ![s] = q] /\ onListening' = [onListening EXCEPT ![s] = onListening[s]]
      /\ onError' = [onError EXCEPT ![s] = {}]
  BY DEF GiveUp, TypeOK
<1>2. n \in 1 .. Len(tries[s]) /\ e \in Try /\ tries[s] \in Seq(Try)
  BY TriesAre, MarkedTry
<1>3. q \in Seq(Try) /\ Len(q) = Len(tries[s])
  BY <1>2, ExceptSeq
<1>4. onListening[s] \subseteq 1 .. Len(q)
  BY <1>3, TriesAre
<1>5. TriesOK'
  BY <1>1, <1>3, <1>4, TriesTyped
<1> QED
  BY <1>5 DEF GiveUp, Dies, TypeOK

LEMMA ErrorEventType == ASSUME TypeOK, NEW s \in Servers, ErrorEvent(s) PROVE TypeOK'
<1>1. CASE \E n \in onError[s] : Retry(s, n)
  BY <1>1, RetryType DEF TypeOK, TriesOK, Try, ErrorEvent, connections, counters
<1>2. CASE \E n \in onError[s] : GiveUp(s, n)
  BY <1>2, GiveUpType DEF TypeOK, TriesOK, Try, ErrorEvent, connections, counters
<1>3. CASE /\ onError[s] = {} /\ Dies /\ event' = [event EXCEPT ![s] = "none"]
           /\ UNCHANGED <<holder, tries, onListening, onError, promise>>
  BY <1>3 DEF TypeOK, ErrorEvent, Dies, connections, counters
<1> QED
  BY <1>1, <1>2, <1>3 DEF ErrorEvent

LEMMA CloseServerType == ASSUME TypeOK, NEW s \in Servers, CloseServer(s) PROVE TypeOK'
<1>1. holder' \in [Ports -> Servers \cup {"nobody", "other"}]
  BY DEF TypeOK, CloseServer, Unbind
<1> QED
  BY <1>1 DEF TypeOK, CloseServer, connections, counters

LEMMA ClosedType == ASSUME TypeOK, NEW s \in Servers, Closed(s) PROVE TypeOK'
BY DEF TypeOK, Closed, connections, counters

LEMMA ClientType ==
  ASSUME TypeOK, NEW c \in Clients, Ask(c) \/ Receive(c) \/ Answer(c) \/ Leave(c) \/ \E s \in Servers : Open(c, s)
  PROVE TypeOK'
<1>1. CASE Ask(c) \/ Receive(c)
  BY <1>1 DEF TypeOK, Ask, Receive, server, counters
<1>2. CASE Answer(c) \/ Leave(c)
  BY <1>2 DEF TypeOK, Answer, Leave, server, counters
<1>3. CASE \E s \in Servers : Open(c, s)
  <2> SUFFICES ASSUME NEW s \in Servers, Open(c, s) PROVE TypeOK'
    BY <1>3
  <2>1. heard' \subseteq Clients /\ at' \in [Clients -> Servers \cup {"nobody"}]
    BY DEF TypeOK, Open
  <2> QED
    BY <2>1 DEF TypeOK, Open, server, counters
<1> QED
  BY <1>1, <1>2, <1>3

LEMMA TakeType == ASSUME TypeOK, NEW p \in Ports, Take(p) PROVE TypeOK'
BY ListenAssumption DEF TypeOK, Take, server, connections

LEMMA ReleaseType == ASSUME TypeOK, NEW p \in Ports, Release(p) PROVE TypeOK'
BY DEF TypeOK, Release, server, connections, counters

-----------------------------------------------------------------------------
(* What a step does to a server, and to the others *)

LEMMA ListenKeeps == ASSUME IInv, NEW s \in Servers, NEW p \in Asked, Listen(s, p) PROVE IInv'
<1>a. TypeOK /\ Consistent(s)
  BY DEF IInv
<1>b. p \in Ports /\ Bind(s, p) /\ ~Listening(s) /\ onError[s] = {}
  BY Unheard, PortsAre DEF Listen
<1>1. ASSUME NEW t \in Servers, t # s PROVE Same(t)
  <2>1. event'[t] = event[t] /\ \A q \in Ports : holder'[q] = t <=> holder[q] = t
    BY <1>a, <1>1, <1>b, BindType
  <2> QED
    BY <1>a, <1>1, <2>1 DEF TypeOK, Same, Listen
<1>2. Consistent(s)'
  <2>1. (OnePort(s) /\ EventSays(s))'
    BY <1>a, <1>b, BindServer
  <2>2. (OneUnfailed(s) /\ AllFailed(s))'
    BY <1>a DEF Consistent, OneUnfailed, AllFailed, TypeOK, Listen
  <2>3. (Pending(s) /\ Resolved(s) /\ NobodyHears(s) /\ Quiet(s))'
    BY <1>a, <1>b DEF Pending, Resolved, NobodyHears, Quiet, TypeOK, Listen
  <2> QED
    BY <2>1, <2>2, <2>3 DEF Consistent
<1> QED
  BY <1>a, <1>1, <1>2, ListenType, Untouched DEF IInv

LEMMA DynamicListenKeeps == ASSUME IInv, NEW s \in Servers, NEW p \in Asked, DynamicListen(s, p) PROVE IInv'
<1> DEFINE n == Len(tries[s]) + 1
<1>a. TypeOK /\ Consistent(s)
  BY DEF IInv
<1>b. p \in Ports /\ Bind(s, p) /\ ~Listening(s) /\ onError[s] = {}
  BY Unheard, PortsAre DEF DynamicListen
<1>1. ASSUME NEW t \in Servers, t # s PROVE Same(t)
  <2>1. event'[t] = event[t] /\ \A q \in Ports : holder'[q] = t <=> holder[q] = t
    BY <1>a, <1>1, <1>b, BindType
  <2> QED
    BY <1>a, <1>1, <2>1 DEF TypeOK, Same, DynamicListen
<1>2. Consistent(s)'
  <2>1. (OnePort(s) /\ EventSays(s))' /\ event'[s] # "none" /\ (event'[s] = "listening" => holder'[p] = s)
    BY <1>a, <1>b, BindServer
  <2>2. /\ Len(tries'[s]) = n /\ tries'[s][n].port = p /\ ~tries'[s][n].error
        /\ \A k \in 1 .. Len(tries[s]) : tries'[s][k] = tries[s][k]
    BY <1>a, <1>b, TriesAre, NewTry, AppendProperties DEF TypeOK, DynamicListen
  <2>3. onListening'[s] = onListening[s] \cup {n} /\ onError'[s] = {n} /\ n > 0
    BY <1>a, <1>b, TriesAre DEF TypeOK, DynamicListen
  <2>4. promise'[s] = "pending" /\ s \notin closed'
    BY <1>a DEF TypeOK, DynamicListen
  <2>5. \A k \in onListening[s] : tries[s][k].error
    BY <1>a DEF Consistent, AllFailed, DynamicListen
  <2>6. OneUnfailed(s)'
    BY <1>a, <2>2, <2>3, <2>5, TriesAre DEF OneUnfailed
  <2>7. UnderWay(s)'
    BY <2>1, <2>2, <2>3 DEF UnderWay
  <2>8. (AllFailed(s) /\ Pending(s) /\ Resolved(s) /\ NobodyHears(s) /\ Quiet(s))'
    BY <2>4, <2>7 DEF AllFailed, Pending, Resolved, NobodyHears, Quiet
  <2> QED
    BY <2>1, <2>6, <2>8 DEF Consistent
<1> QED
  BY <1>a, <1>1, <1>2, DynamicListenType, Untouched DEF IInv

\* The try that resolves is the latest, so its port is the one that is held.
LEMMA ListeningEventKeeps == ASSUME IInv, NEW s \in Servers, ListeningEvent(s) PROVE IInv'
<1>a. TypeOK /\ Consistent(s) /\ event[s] = "listening"
  BY DEF IInv, ListeningEvent
<1>1. ASSUME NEW t \in Servers, t # s PROVE Same(t)
  BY <1>a, <1>1 DEF TypeOK, Same, ListeningEvent
<1>2. Consistent(s)'
  <2>1. event'[s] = "none" /\ UNCHANGED <<holder, onError, closed>> /\ onListening'[s] = {}
    BY <1>a DEF TypeOK, ListeningEvent
  <2>2. (OnePort(s) /\ EventSays(s) /\ OneUnfailed(s) /\ AllFailed(s))'
    BY <1>a, <2>1 DEF Consistent, OnePort, EventSays, OneUnfailed, AllFailed
  <2>3. s \notin closed /\ Listening(s)
    BY <1>a DEF Consistent, Quiet, EventSays
  <2>4. (Pending(s) /\ Resolved(s) /\ NobodyHears(s) /\ Quiet(s))'
    <3>1. CASE Resolve(s) = {}
      <4>1. promise[s] \notin {"pending", "resolved"} /\ promise' = promise
        BY <1>a, <2>3, <3>1 DEF Consistent, Pending, UnderWay, Resolve, Resolved, ListeningEvent
      <4> QED
        BY <1>a, <2>1, <2>3, <4>1 DEF Consistent, Pending, Resolved, NobodyHears, Quiet
    <3>2. ASSUME NEW n \in Resolve(s), promise' = [promise EXCEPT ![s] = "resolved"],
                 result' = [result EXCEPT ![s] = tries[s][n].port]
          PROVE (Pending(s) /\ Resolved(s) /\ NobodyHears(s) /\ Quiet(s))'
      <4>1. n = Len(tries[s]) /\ promise[s] = "pending"
        BY <1>a, <3>2 DEF Consistent, Resolve, OneUnfailed, AllFailed
      <4>2. holder[tries[s][n].port] = s /\ tries[s][n].port \in Ports
        BY <1>a, <2>3, <4>1, TriesAre DEF Consistent, Pending, UnderWay, Resolve, Try
      <4>3. promise'[s] = "resolved" /\ result'[s] = tries[s][n].port
        BY <1>a, <3>2 DEF TypeOK
      <4> QED
        BY <2>1, <2>3, <4>2, <4>3 DEF Pending, Resolved, NobodyHears, Quiet
    <3> QED
      BY <3>1, <3>2 DEF ListeningEvent
  <2> QED
    BY <2>2, <2>4 DEF Consistent
<1> QED
  BY <1>a, <1>1, <1>2, ListeningEventType, Untouched DEF IInv

\* The failed try is marked, and the next one is the only one that has not failed.
LEMMA RetryKeeps == ASSUME IInv, NEW s \in Servers, ErrorEvent(s), NEW n \in onError[s], Retry(s, n) PROVE IInv'
<1> DEFINE m == Len(tries[s]) + 1
           p == tries[s][n].port + 1
           e == [tries[s][n] EXCEPT !.error = TRUE]
           t == [port |-> p, first |-> FALSE, error |-> FALSE, listen |-> FALSE]
<1>a. TypeOK /\ Consistent(s)
  BY DEF IInv
<1>b. p \in Ports /\ Bind(s, p) /\ event[s] \in {"EADDRINUSE", "EACCES"} /\ UNCHANGED <<promise, closed>>
  BY DEF Retry, ErrorEvent
<1>1. ASSUME NEW o \in Servers, o # s PROVE Same(o)
  <2>1. event'[o] = event[o] /\ \A q \in Ports : holder'[q] = o <=> holder[q] = o
    BY <1>a, <1>1, <1>b, BindType
  <2> QED
    BY <1>a, <1>1, <2>1 DEF TypeOK, Same, ErrorEvent, Retry
<1>2. Consistent(s)'
  <2>1. ~Listening(s)
    BY <1>a, <1>b DEF Consistent, EventSays
  <2>2. (OnePort(s) /\ EventSays(s))' /\ event'[s] # "none" /\ (event'[s] = "listening" => holder'[p] = s)
    BY <1>a, <1>b, <2>1, BindServer
  <2>3. promise[s] = "pending" /\ s \notin closed
    BY <1>a, <1>b DEF Consistent, Resolved, NobodyHears, Quiet
  <2>4. n = Len(tries[s]) /\ n \in 1 .. Len(tries[s]) /\ tries[s] \in Seq(Try)
    BY <1>a, TriesAre DEF TypeOK
  <2>5. e \in Try /\ t \in Try
    BY <1>a, <1>b, <2>4, MarkedTry, NewTry, ElementOfSeq
  <2>6. /\ [tries[s] EXCEPT ![n] = e] \in Seq(Try) /\ Len([tries[s] EXCEPT ![n] = e]) = Len(tries[s])
        /\ \A k \in 1 .. Len(tries[s]) : [tries[s] EXCEPT ![n] = e][k] = IF k = n THEN e ELSE tries[s][k]
    BY <2>4, <2>5, ExceptSeq
  <2>7. tries'[s] = Append([tries[s] EXCEPT ![n] = e], t)
    BY <1>a DEF TypeOK, Retry
  <2>8. /\ Len(tries'[s]) = m /\ tries'[s][m] = t
        /\ \A k \in 1 .. Len(tries[s]) : tries'[s][k] = IF k = n THEN e ELSE tries[s][k]
    BY <2>5, <2>6, <2>7, AppendProperties
  <2>9. onListening'[s] = onListening[s] \cup {m} /\ onError'[s] = {m} /\ m > 0
    BY <1>a, <2>4 DEF TypeOK, Retry
  <2>10. \A k \in onListening[s] : tries'[s][k].error
    <3>1. ASSUME NEW k \in onListening[s] PROVE tries'[s][k].error
      <4>1. k \in 1 .. Len(tries[s]) /\ tries[s][k] \in Try
        BY <1>a, TriesAre
      <4>2. CASE k = n
        BY <2>8, <4>1, <4>2 DEF Try
      <4>3. CASE k # n
        BY <1>a, <2>4, <2>8, <4>1, <4>3 DEF Consistent, OneUnfailed
      <4> QED
        BY <4>2, <4>3
    <3> QED
      BY <3>1
  <2>11. OneUnfailed(s)'
    BY <2>8, <2>9, <2>10 DEF OneUnfailed
  <2>12. UnderWay(s)'
    BY <2>2, <2>8, <2>9 DEF UnderWay
  <2>13. (AllFailed(s) /\ Pending(s) /\ Resolved(s) /\ NobodyHears(s) /\ Quiet(s))'
    BY <1>b, <2>3, <2>12 DEF AllFailed, Pending, Resolved, NobodyHears, Quiet
  <2> QED
    BY <2>2, <2>11, <2>13 DEF Consistent
<1> QED
  BY <1>a, <1>1, <1>2, ErrorEventType, Untouched DEF IInv

\* The error reaches the caller, or dynamicListen is stuck.
LEMMA GiveUpKeeps == ASSUME IInv, NEW s \in Servers, ErrorEvent(s), NEW n \in onError[s], GiveUp(s, n) PROVE IInv'
<1> DEFINE e == [tries[s][n] EXCEPT !.error = TRUE]
<1>a. TypeOK /\ Consistent(s)
  BY DEF IInv
<1>b. event[s] \in {"EADDRINUSE", "EACCES"} /\ UNCHANGED <<closed, holder, onListening, result>>
  BY DEF GiveUp, ErrorEvent
<1>1. ASSUME NEW t \in Servers, t # s PROVE Same(t)
  <2>1. tries'[t] = tries[t] /\ onError'[t] = onError[t] /\ event'[t] = event[t]
    BY <1>a, <1>1 DEF TypeOK, GiveUp
  <2>2. promise'[t] = promise[t]
    BY <1>a, <1>1 DEF TypeOK, GiveUp
  <2> QED
    BY <1>b, <2>1, <2>2 DEF Same
<1>2. Consistent(s)'
  <2>1. ~Listening(s) /\ ~Listening(s)'
    BY <1>a, <1>b DEF Consistent, EventSays, Listening
  <2>2. promise[s] = "pending" /\ s \notin closed
    BY <1>a, <1>b DEF Consistent, Resolved, NobodyHears, Quiet
  <2>3. n = Len(tries[s]) /\ n \in 1 .. Len(tries[s]) /\ tries[s] \in Seq(Try) /\ tries[s][n] \in Try
    BY <1>a, TriesAre DEF TypeOK
  <2>4. tries'[s] = [tries[s] EXCEPT ![n] = e] /\ onError'[s] = {} /\ event'[s] = "none"
    BY <1>a DEF TypeOK, GiveUp
  <2>5. /\ Len(tries'[s]) = Len(tries[s])
        /\ \A k \in 1 .. Len(tries[s]) : tries'[s][k] = IF k = n THEN e ELSE tries[s][k]
    BY <2>3, <2>4, MarkedTry, ExceptSeq
  <2>6. \A k \in onListening[s] : tries'[s][k].error
    <3>1. ASSUME NEW k \in onListening[s] PROVE tries'[s][k].error
      <4>1. k \in 1 .. Len(tries[s]) /\ tries[s][k] \in Try
        BY <1>a, TriesAre
      <4>2. CASE k = n
        BY <2>5, <4>1, <4>2 DEF Try
      <4>3. CASE k # n
        BY <1>a, <2>3, <2>5, <4>1, <4>3 DEF Consistent, OneUnfailed
      <4> QED
        BY <4>2, <4>3
    <3> QED
      BY <3>1
  <2>7. (OnePort(s) /\ EventSays(s) /\ OneUnfailed(s) /\ AllFailed(s))'
    BY <1>a, <1>b, <2>4, <2>6 DEF Consistent, OnePort, EventSays, OneUnfailed, AllFailed
  <2>8. CASE tries[s][n].first /\ event[s] # "EADDRINUSE"
    <3>1. promise'[s] = "rejected"
      BY <1>a, <2>8 DEF TypeOK, GiveUp
    <3> QED
      BY <1>b, <2>2, <2>4, <2>7, <3>1 DEF Consistent, Pending, Resolved, NobodyHears, Quiet
  <2>9. CASE ~(tries[s][n].first /\ event[s] # "EADDRINUSE")
    <3>1. promise' = promise /\ (~tries[s][n].first \/ tries[s][n].port = LastPort)
      BY <2>9 DEF GiveUp
    <3>2. tries'[s][n].error /\ tries'[s][n].first = tries[s][n].first /\ tries'[s][n].port = tries[s][n].port
      BY <2>3, <2>5 DEF Try
    <3>3. Stuck(s)'
      BY <2>3, <2>4, <2>5, <3>1, <3>2 DEF Stuck
    <3> QED
      BY <1>b, <2>1, <2>2, <2>4, <2>7, <3>1, <3>3 DEF Consistent, Pending, Resolved, NobodyHears, Quiet
  <2> QED
    BY <2>8, <2>9
<1> QED
  BY <1>a, <1>1, <1>2, ErrorEventType, Untouched DEF IInv

LEMMA ErrorEventKeeps == ASSUME IInv, NEW s \in Servers, ErrorEvent(s) PROVE IInv'
<1>1. CASE \E n \in onError[s] : Retry(s, n) \/ GiveUp(s, n)
  BY <1>1, RetryKeeps, GiveUpKeeps
<1>2. CASE /\ onError[s] = {} /\ event' = [event EXCEPT ![s] = "none"]
           /\ UNCHANGED <<holder, tries, onListening, onError, promise>>
  <2>a. TypeOK /\ Consistent(s) /\ UNCHANGED <<result, closed>> /\ event[s] \in {"EADDRINUSE", "EACCES"}
    BY DEF IInv, ErrorEvent
  <2>1. ASSUME NEW t \in Servers, t # s PROVE Same(t)
    BY <1>2, <2>a, <2>1 DEF TypeOK, Same
  <2>2. event'[s] = "none" /\ ~Listening(s) /\ ~Listening(s)'
    BY <1>2, <2>a DEF TypeOK, Consistent, EventSays, Listening
  <2>3. promise[s] # "pending" /\ ~(promise[s] = "resolved" /\ s \notin closed)
    BY <1>2, <2>a DEF Consistent, Pending, UnderWay, Stuck, Resolved
  <2>4. Consistent(s)'
    BY <1>2, <2>a, <2>2, <2>3 DEF Consistent, OnePort, EventSays, OneUnfailed, AllFailed, Pending, Resolved,
       NobodyHears, Quiet
  <2> QED
    BY <2>a, <2>1, <2>4, ErrorEventType, Untouched DEF IInv
<1> QED
  BY <1>1, <1>2 DEF ErrorEvent

\* An error of a listening server marks a try that has been heard already.
LEMMA FaultKeeps == ASSUME IInv, NEW s \in Servers, Fault(s) PROVE IInv'
<1>a. TypeOK /\ Consistent(s) /\ event[s] = "none" /\ Listening(s)
  BY DEF IInv, Fault
<1>1. ASSUME NEW t \in Servers, t # s PROVE Same(t)
  BY <1>a, <1>1 DEF TypeOK, Same, Fault
<1>2. Consistent(s)'
  <2>1. promise[s] # "pending" /\ s \notin closed
    BY <1>a DEF Consistent, Pending, UnderWay, Quiet
  <2>2. onListening'[s] = onListening[s] /\ onError'[s] = {} /\ UNCHANGED <<holder, event, promise, result, closed>>
    BY <1>a DEF TypeOK, Fault
  <2>3. \A n \in onListening[s] : tries'[s][n].error
    <3>1. \A n \in onListening[s] : tries[s][n].error /\ n \in DOMAIN tries[s] /\ tries[s][n] \in Try
      BY <1>a, <2>1, TriesAre DEF Consistent, AllFailed
    <3>2. tries'[s] = [n \in DOMAIN tries[s] |->
            IF n \in onError[s] THEN [tries[s][n] EXCEPT !.error = TRUE] ELSE tries[s][n]]
      BY <1>a DEF TypeOK, Fault
    <3> QED
      BY <3>1, <3>2 DEF Try
  <2> QED
    BY <1>a, <2>1, <2>2, <2>3 DEF Consistent, OnePort, EventSays, Listening, OneUnfailed, AllFailed, Pending, Resolved,
       NobodyHears, Quiet
<1> QED
  BY <1>a, <1>1, <1>2, FaultType, Untouched DEF IInv

LEMMA CloseServerKeeps == ASSUME IInv, NEW s \in Servers, CloseServer(s) PROVE IInv'
<1>a. TypeOK /\ Consistent(s)
  BY DEF IInv
<1>1. ASSUME NEW t \in Servers, t # s PROVE Same(t)
  BY <1>a, <1>1, Names DEF TypeOK, Same, CloseServer, Unbind
<1>2. Consistent(s)'
  <2>1. ~Listening(s)' /\ \A p \in Ports : holder'[p] # s
    BY Names DEF Listening, CloseServer, Unbind
  <2>2. event'[s] # "listening" /\ promise'[s] # "pending" /\ onListening'[s] = {} /\ onError'[s] = {} /\ s \in closed'
    BY <1>a DEF TypeOK, CloseServer
  <2> QED
    BY <2>1, <2>2 DEF Consistent, OnePort, EventSays, OneUnfailed, AllFailed, Pending, Resolved, NobodyHears, Quiet
<1> QED
  BY <1>a, <1>1, <1>2, CloseServerType, Untouched DEF IInv

\* Clients, other processes and the end of close().
LEMMA OthersKeep ==
  ASSUME IInv, TypeOK',
         \/ \E s \in Servers : Closed(s)
         \/ \E c \in Clients : Ask(c) \/ Receive(c) \/ Answer(c) \/ Leave(c) \/ \E s \in Servers : Open(c, s)
         \/ \E p \in Ports : Take(p) \/ Release(p)
  PROVE IInv'
<1>1. ASSUME NEW t \in Servers PROVE Same(t)
  <2>1. CASE \E s \in Servers : Closed(s)
    BY <2>1 DEF Same, Closed
  <2>2. CASE \E c \in Clients : Ask(c) \/ Receive(c) \/ Answer(c) \/ Leave(c) \/ \E s \in Servers : Open(c, s)
    BY <2>2 DEF Same, Ask, Receive, Answer, Leave, Open, server
  <2>3. CASE \E p \in Ports : Take(p) \/ Release(p)
    BY <2>3, Names DEF Same, Take, Release, server, IInv, TypeOK
  <2> QED
    BY <2>1, <2>2, <2>3
<1> QED
  BY <1>1, Untouched DEF IInv

-----------------------------------------------------------------------------
(* Theorems *)

LEMMA StepKeeps == ASSUME IInv, [Next]_vars PROVE IInv'
<1>1. ASSUME NEW s \in Servers, NEW p \in Asked, Listen(s, p) \/ DynamicListen(s, p) PROVE IInv'
  BY <1>1, ListenKeeps, DynamicListenKeeps
<1>2. ASSUME NEW s \in Servers, Emit(s) \/ Fault(s) \/ CloseServer(s) PROVE IInv'
  BY <1>2, ListeningEventKeeps, ErrorEventKeeps, FaultKeeps, CloseServerKeeps DEF Emit
<1>3. ASSUME NEW s \in Servers, Closed(s) PROVE IInv'
  BY <1>3, ClosedType, OthersKeep DEF IInv
<1>4. ASSUME NEW c \in Clients, Ask(c) \/ Serve(c) \/ Leave(c) \/ \E s \in Servers : Open(c, s) PROVE IInv'
  BY <1>4, ClientType, OthersKeep DEF IInv, Serve
<1>5. ASSUME NEW p \in Ports, Take(p) \/ Release(p) PROVE IInv'
  BY <1>5, TakeType, ReleaseType, OthersKeep DEF IInv
<1>6. CASE UNCHANGED vars
  BY <1>6, StutterKeeps
<1> QED
  BY <1>1, <1>2, <1>3, <1>4, <1>5, <1>6 DEF Next

LEMMA Invariant == Spec => []IInv
<1>1. Init => IInv
  BY InitHolds
<1>2. IInv /\ [Next]_vars => IInv'
  BY StepKeeps
<1> QED
  BY <1>1, <1>2, PTL DEF Spec

\* The state keeps its shape: a server has one listener for an error, that of the
\* latest try.
THEOREM TypeCorrect == Spec => []TypeOK
<1>1. IInv => TypeOK
  BY DEF IInv
<1> QED
  BY <1>1, Invariant, PTL

\* What dynamicListen() of core returned is the one port its server listens at,
\* for any ports, other processes, errors and order of events, until close().
THEOREM ResolvedHolds == Spec => []ResolvedWhereItListens
<1>1. ASSUME IInv, NEW s \in Servers, promise[s] = "resolved", s \notin closed
      PROVE {p \in Ports : holder[p] = s} = {result[s]}
  BY <1>1 DEF IInv, Consistent, Resolved, OnePort
<1>2. IInv => ResolvedWhereItListens
  BY <1>1 DEF ResolvedWhereItListens
<1> QED
  BY <1>2, Invariant, PTL

\* closeServer() of core ends a search for a port as well: nothing that happens
\* afterwards makes the server listen, but another call.
THEOREM ClosedHolds == Spec => []ClosedStaysClosed
<1>1. IInv => ClosedStaysClosed
  BY DEF IInv, TypeOK, Consistent, Quiet, ClosedStaysClosed
<1> QED
  BY <1>1, Invariant, PTL

\* A pending dynamicListen() is never left without a listener of the event that
\* will come, but in the one way its catch-less then() leaves it.
THEOREM UnderWayHolds == Spec => []PendingIsUnderWay
<1>1. ASSUME IInv, NEW s \in Servers, promise[s] = "pending", ~Stuck(s)
      PROVE event[s] # "none" /\ onError[s] = {Len(tries[s])} /\ Len(tries[s]) \in onListening[s]
  BY <1>1 DEF IInv, Consistent, Pending, UnderWay
<1>2. IInv => PendingIsUnderWay
  BY <1>1 DEF PendingIsUnderWay
<1> QED
  BY <1>2, Invariant, PTL
=============================================================================
