--------------------------- MODULE MicroTcpProofs ---------------------------
(***************************************************************************)
(* Theorems about MicroTcp, for any calls, events, sockets and cuts.       *)
(***************************************************************************)
EXTENDS MicroTcp, TLAPS

(* The inductive invariant: TypeOK, the two invariants about #tasks and the *)
(* timers, and where a message and its answer can be.                       *)

\* Every socket but the present one is deaf.
SocketsOK == socket \in {0, opened} /\ deaf = (1 .. opened) \ {socket}

\* A message that was written has a socket, and only such a one.
StatusesOK ==
  /\ \A s \in Sends : status[s] # "sent"
  /\ \A e \in Events : status[e] \in {"idle", "sent", "notConnected"}
  /\ \A m \in Messages : via[m] = 0 <=> status[m] \in {"idle", "notConnected"}

Unanswered(m) == m \in Sends => answers[m] = 0

\* A request on its way is there once, and neither handled nor answered.
RequestsOK ==
  \A g \in Sockets : \A i \in 1 .. Len(toServer[g]) :
    /\ via[toServer[g][i]] = g
    /\ toServer[g][i] \notin handled /\ Unanswered(toServer[g][i])
    /\ \A j \in 1 .. Len(toServer[g]) : toServer[g][i] = toServer[g][j] => i = j

\* A handler that runs has not answered.
JobsOK == \A g \in Sockets : \A m \in jobs[g] : via[m] = g /\ m \in handled /\ Unanswered(m)

HandledOK == \A m \in handled : via[m] # 0

AnswersOK ==
  /\ AnsweredAtMostOnce
  /\ \A s \in Sends : via[s] = 0 => answers[s] = 0

\* Data comes from a handler.
RepliesOK ==
  \A g \in Sockets : \A i \in 1 .. Len(toClient[g]) :
    toClient[g][i].to \in Sends /\ toClient[g][i].body = "data" => toClient[g][i].to \in handled

Server == RequestsOK /\ JobsOK /\ HandledOK /\ AnswersOK
Client == SocketsOK /\ StatusesOK /\ TasksAreWaiting /\ TimersAreWaiting

IInv == TypeOK /\ Client /\ Server /\ RepliesOK

-----------------------------------------------------------------------------
(* Sequences of frames *)

\* What is left of a wire after frames were taken from its front.
Suffix(s, t) ==
  \E n \in 0 .. Len(s) : Len(t) = Len(s) - n /\ \A i \in 1 .. Len(t) : t[i] = s[i + n]

LEMMA TailIsSuffix ==
  ASSUME NEW S, NEW s \in Seq(S), s # <<>>
  PROVE  Tail(s) \in Seq(S) /\ Suffix(s, Tail(s)) /\ Head(s) = s[1] /\ 1 \in 1 .. Len(s)
         /\ Len(Tail(s)) = Len(s) - 1 /\ \A i \in 1 .. Len(Tail(s)) : Tail(s)[i] = s[i + 1]
<1>1. Tail(s) \in Seq(S) /\ Len(s) \in Nat /\ Len(s) # 0 /\ Len(Tail(s)) = Len(s) - 1 /\ Head(s) = s[1]
  OBVIOUS
<1>2. \A i \in 1 .. Len(Tail(s)) : Tail(s)[i] = s[i + 1]
  OBVIOUS
<1>3. 1 \in 0 .. Len(s)
  BY <1>1
<1> QED
  BY <1>1, <1>2, <1>3 DEF Suffix

LEMMA SubSeqIsSuffix ==
  ASSUME NEW S, NEW s \in Seq(S), NEW n \in 0 .. Len(s)
  PROVE  SubSeq(s, n + 1, Len(s)) \in Seq(S) /\ Suffix(s, SubSeq(s, n + 1, Len(s)))
<1> DEFINE t == SubSeq(s, n + 1, Len(s))
<1>1. Len(s) \in Nat /\ n \in Nat
  OBVIOUS
<1>2. \A i \in n + 1 .. Len(s) : s[i] \in S
  BY <1>1
<1>3. t \in Seq(S) /\ Len(t) = Len(s) - n /\ \A i \in 1 .. Len(t) : t[i] = s[i + n]
  BY <1>1, <1>2
<1> QED
  BY <1>3 DEF Suffix

LEMMA EmptyIsSuffix ==
  ASSUME NEW S, NEW s \in Seq(S)
  PROVE  <<>> \in Seq(S) /\ Suffix(s, <<>>)
<1>1. Len(s) \in Nat /\ Len(s) \in 0 .. Len(s) /\ Len(<<>>) = Len(s) - Len(s)
  OBVIOUS
<1> QED
  BY <1>1 DEF Suffix

LEMMA SameIsSuffix ==
  ASSUME NEW S, NEW s \in Seq(S)
  PROVE  Suffix(s, s)
<1>1. Len(s) \in Nat /\ 0 \in 0 .. Len(s) /\ Len(s) = Len(s) - 0 /\ \A i \in 1 .. Len(s) : s[i] = s[i + 0]
  OBVIOUS
<1> QED
  BY <1>1 DEF Suffix

\* Taking requests from the wires keeps what holds of those that are left.
LEMMA RequestsShrink ==
  ASSUME TypeOK, RequestsOK,
         toServer' \in [Sockets -> Seq(Messages)],
         \A g \in Sockets : Suffix(toServer[g], toServer'[g]),
         \A g \in Sockets : \A i \in 1 .. Len(toServer'[g]) :
            LET m == toServer'[g][i]
            IN via'[m] = via[m] /\ (m \notin handled => m \notin handled') /\ (m \in Sends /\ answers[m] = 0 => answers'[m] = 0)
  PROVE  RequestsOK'
<1> SUFFICES ASSUME NEW g \in Sockets, NEW i \in 1 .. Len(toServer'[g])
             PROVE  /\ via'[toServer'[g][i]] = g
                    /\ toServer'[g][i] \notin handled' 
                    /\ (toServer'[g][i] \in Sends => answers'[toServer'[g][i]] = 0)
                    /\ \A j \in 1 .. Len(toServer'[g]) : toServer'[g][i] = toServer'[g][j] => i = j
  BY DEF RequestsOK, Unanswered
<1>1. PICK n \in 0 .. Len(toServer[g]) :
         Len(toServer'[g]) = Len(toServer[g]) - n /\ \A k \in 1 .. Len(toServer'[g]) : toServer'[g][k] = toServer[g][k + n]
  BY DEF Suffix
<1>2. toServer[g] \in Seq(Messages) /\ Len(toServer[g]) \in Nat
  BY DEF TypeOK
<1>3. \A k \in 1 .. Len(toServer'[g]) : k + n \in 1 .. Len(toServer[g])
  BY <1>1, <1>2
<1>4. /\ via[toServer'[g][i]] = g /\ toServer'[g][i] \notin handled /\ Unanswered(toServer'[g][i])
  BY <1>1, <1>3 DEF RequestsOK
<1>5. \A j \in 1 .. Len(toServer'[g]) : toServer'[g][i] = toServer'[g][j] => i + n = j + n
  BY <1>1, <1>3 DEF RequestsOK
<1> QED
  BY <1>1, <1>2, <1>4, <1>5 DEF Unanswered

\* The same for the answers on their way.
LEMMA RepliesShrink ==
  ASSUME TypeOK, RepliesOK, handled \subseteq handled',
         \A g \in Sockets : Suffix(toClient[g], toClient'[g])
  PROVE  RepliesOK'
<1> SUFFICES ASSUME NEW g \in Sockets, NEW i \in 1 .. Len(toClient'[g]),
                    toClient'[g][i].to \in Sends, toClient'[g][i].body = "data"
             PROVE  toClient'[g][i].to \in handled'
  BY DEF RepliesOK
<1>1. PICK n \in 0 .. Len(toClient[g]) :
         Len(toClient'[g]) = Len(toClient[g]) - n /\ \A k \in 1 .. Len(toClient'[g]) : toClient'[g][k] = toClient[g][k + n]
  BY DEF Suffix
<1>2. toClient[g] \in Seq(Answers) /\ Len(toClient[g]) \in Nat
  BY DEF TypeOK
<1>3. i + n \in 1 .. Len(toClient[g]) /\ toClient'[g][i] = toClient[g][i + n]
  BY <1>1, <1>2
<1> QED
  BY <1>3 DEF RepliesOK

\* What the server writes is an answer, and data only to what it handled.
LEMMA WriteDataKeeps ==
  ASSUME TypeOK, RepliesOK, handled \subseteq handled', NEW g \in Sockets, NEW a \in Answers,
         WriteData(g, a), a.to \in Sends /\ a.body = "data" => a.to \in handled'
  PROVE  toClient' \in [Sockets -> Seq(Answers)] /\ RepliesOK'
<1>1. toClient \in [Sockets -> Seq(Answers)]
  BY DEF TypeOK
<1>2. CASE toClient' = toClient
  BY <1>1, <1>2 DEF RepliesOK
<1>3. CASE toClient' = [toClient EXCEPT ![g] = Append(@, a)]
  <2>1. toClient' \in [Sockets -> Seq(Answers)]
    BY <1>1, <1>3
  <2>2. ASSUME NEW h \in Sockets, NEW i \in 1 .. Len(toClient'[h])
        PROVE  toClient'[h][i].to \in Sends /\ toClient'[h][i].body = "data" => toClient'[h][i].to \in handled'
    <3>1. CASE h # g
      BY <1>1, <1>3, <2>2, <3>1 DEF RepliesOK
    <3>2. CASE h = g
      <4>1. toClient'[g] = Append(toClient[g], a) /\ toClient[g] \in Seq(Answers) /\ Len(toClient[g]) \in Nat
        BY <1>1, <1>3
      <4>2. CASE i = Len(toClient[g]) + 1
        BY <3>2, <4>1, <4>2
      <4>3. CASE i \in 1 .. Len(toClient[g])
        BY <3>2, <4>1, <4>3 DEF RepliesOK
      <4> QED
        BY <2>2, <3>2, <4>1, <4>2, <4>3
    <3> QED
      BY <3>1, <3>2
  <2> QED
    BY <2>1, <2>2 DEF RepliesOK
<1> QED
  BY <1>2, <1>3 DEF WriteData

\* A step that leaves the server, the wires and via alone keeps what they are about.
LEMMA QuietServer ==
  ASSUME IInv, UNCHANGED <<server, toServer, via>>
  PROVE  Server'
BY DEF IInv, Server, RequestsOK, JobsOK, HandledOK, AnswersOK, AnsweredAtMostOnce, Unanswered, server

\* Requests that are taken or lost leave the server's part alone.
LEMMA LostRequests ==
  ASSUME IInv, UNCHANGED <<server, via>>, toServer' \in [Sockets -> Seq(Messages)],
         \A g \in Sockets : Suffix(toServer[g], toServer'[g])
  PROVE  Server'
<1>1. RequestsOK'
  BY RequestsShrink DEF IInv, Server, server
<1> QED
  BY <1>1 DEF IInv, Server, JobsOK, HandledOK, AnswersOK, AnsweredAtMostOnce, Unanswered, server

-----------------------------------------------------------------------------
(* One lemma per action *)

\* #close empties the wire back and leaves no task.
LEMMA CloseFacts ==
  ASSUME IInv, Close
  PROVE  /\ toClient' \in [Sockets -> Seq(Answers)]
         /\ \A g \in Sockets : Suffix(toClient[g], toClient'[g])
<1>1. toClient \in [Sockets -> Seq(Answers)]
  BY DEF IInv, TypeOK
<1>2. \A g \in Sockets : toClient'[g] \in {<<>>, toClient[g]}
  BY DEF Close
<1>3. toClient' \in [Sockets -> Seq(Answers)]
  BY <1>1 DEF Close
<1>4. \A g \in Sockets : Suffix(toClient[g], toClient'[g])
  BY <1>1, <1>2, EmptyIsSuffix, SameIsSuffix
<1> QED
  BY <1>3, <1>4

LEMMA ConnectKeeps == ASSUME IInv, Connect PROVE IInv'
<1>1. TypeOK'
  <2>1. /\ opened \in Nat /\ opened + 1 \in 0 .. MaxConnects /\ opened + 1 \in Sockets
        /\ socket' \in 0 .. opened' /\ deaf' \subseteq 1 .. opened' /\ opened' \in 0 .. MaxConnects
    BY TcpAssumption DEF IInv, TypeOK, Connect, Close, Sockets
  <2>2. conn' \in [Sockets -> {"none", "connecting", "open", "closed"}]
    BY <2>1 DEF IInv, TypeOK, Connect
  <2>3. \A g \in Sockets : conn'[g] = "none" <=> g > opened'
    BY <2>1 DEF IInv, TypeOK, Connect, Sockets
  <2>4. via' \in [Messages -> 0 .. opened']
    BY <2>1 DEF IInv, TypeOK, Connect
  <2> QED
    BY <2>1, <2>2, <2>3, <2>4, CloseFacts DEF IInv, TypeOK, Connect, Close, server
<1>2. Client'
  BY TcpAssumption DEF IInv, TypeOK, Client, SocketsOK, StatusesOK, TasksAreWaiting, TimersAreWaiting, Connect, Close, Messages
<1>3. Server'
  BY QuietServer DEF Connect
<1>4. RepliesOK'
  BY CloseFacts, RepliesShrink DEF IInv, Connect, server
<1> QED
  BY <1>1, <1>2, <1>3, <1>4 DEF IInv

LEMMA DisposeKeeps == ASSUME IInv, Dispose PROVE IInv'
<1>1. TypeOK'
  BY CloseFacts, TcpAssumption DEF IInv, TypeOK, Dispose, Close, server, Client, SocketsOK
<1>2. Client'
  BY TcpAssumption DEF IInv, TypeOK, Client, SocketsOK, StatusesOK, TasksAreWaiting, TimersAreWaiting, Dispose, Close, Messages
<1>3. Server'
  BY QuietServer DEF Dispose
<1>4. RepliesOK'
  BY CloseFacts, RepliesShrink DEF IInv, Dispose, server
<1> QED
  BY <1>1, <1>2, <1>3, <1>4 DEF IInv

LEMMA NotConnectedKeeps == ASSUME IInv, NEW m \in Messages, NotConnected(m) PROVE IInv'
<1>1. TypeOK'
  BY DEF IInv, TypeOK, NotConnected, server, net
<1>2. Client'
  BY TcpAssumption DEF IInv, TypeOK, Client, SocketsOK, StatusesOK, TasksAreWaiting, TimersAreWaiting, NotConnected, net, Messages
<1>3. Server'
  BY QuietServer DEF NotConnected, net
<1>4. RepliesOK'
  BY DEF IInv, NotConnected, server, net, RepliesOK
<1> QED
  BY <1>1, <1>2, <1>3, <1>4 DEF IInv

\* A message user code had not sent is put on the wire of the present socket.
LEMMA WriteKeeps ==
  ASSUME IInv, NEW m \in Messages, status[m] = "idle", socket # 0, UNCHANGED server,
         via' = [via EXCEPT ![m] = socket],
         toServer' = [toServer EXCEPT ![socket] = Append(@, m)]
  PROVE  toServer' \in [Sockets -> Seq(Messages)] /\ via' \in [Messages -> 0 .. opened] /\ Server'
<1>1. socket \in Sockets /\ via[m] = 0 /\ socket \in 0 .. opened /\ Len(toServer[socket]) \in Nat
  <2>1. socket \in Sockets /\ socket \in 0 .. opened
    BY TcpAssumption DEF IInv, TypeOK, Sockets
  <2>2. toServer[socket] \in Seq(Messages)
    BY <2>1 DEF IInv, TypeOK
  <2> QED
    BY <2>1, <2>2 DEF IInv, Client, StatusesOK
<1>2. toServer' \in [Sockets -> Seq(Messages)] /\ via' \in [Messages -> 0 .. opened]
  BY <1>1 DEF IInv, TypeOK
<1>3. m \notin handled /\ Unanswered(m)
  BY <1>1 DEF IInv, Server, HandledOK, AnswersOK, Unanswered
<1>4. \A g \in Sockets : m \notin jobs[g] /\ \A i \in 1 .. Len(toServer[g]) : toServer[g][i] # m
  <2>1. 0 \notin Sockets
    BY DEF Sockets
  <2>2. \A g \in Sockets : via[m] # g
    BY <1>1, <2>1
  <2>3. JobsOK /\ RequestsOK
    BY DEF IInv, Server
  <2>4. \A g \in Sockets : m \notin jobs[g]
    BY <2>2, <2>3 DEF JobsOK
  <2>5. \A g \in Sockets : \A i \in 1 .. Len(toServer[g]) : toServer[g][i] # m
    BY <2>2, <2>3 DEF RequestsOK
  <2> QED
    BY <2>4, <2>5
<1>5. RequestsOK'
  <2>1. SUFFICES ASSUME NEW g \in Sockets, NEW i \in 1 .. Len(toServer'[g])
                 PROVE  /\ via'[toServer'[g][i]] = g
                        /\ toServer'[g][i] \notin handled /\ Unanswered(toServer'[g][i])
                        /\ \A j \in 1 .. Len(toServer'[g]) : toServer'[g][i] = toServer'[g][j] => i = j
    BY DEF RequestsOK, Unanswered, server
  <2>2. toServer[g] \in Seq(Messages) /\ Len(toServer[g]) \in Nat /\ via \in [Messages -> 0 .. opened]
    BY DEF IInv, TypeOK
  <2>3. \A j \in 1 .. Len(toServer[g]) : toServer[g][j] # m /\ via'[toServer[g][j]] = via[toServer[g][j]]
    BY <1>4, <2>2
  <2>4. CASE g # socket
    <3>1. toServer'[g] = toServer[g]
      BY <1>1, <2>4 DEF IInv, TypeOK
    <3>2. i \in 1 .. Len(toServer[g])
      BY <3>1
    <3>3. /\ via[toServer[g][i]] = g /\ toServer[g][i] \notin handled /\ Unanswered(toServer[g][i])
          /\ \A j \in 1 .. Len(toServer[g]) : toServer[g][i] = toServer[g][j] => i = j
      BY <3>2 DEF IInv, Server, RequestsOK
    <3> QED
      BY <2>3, <3>1, <3>2, <3>3
  <2>5. CASE g = socket
    <3>1. toServer'[g] = Append(toServer[g], m)
      BY <1>1, <2>5 DEF IInv, TypeOK
    <3>2. CASE i = Len(toServer[g]) + 1
      <4>1. toServer'[g][i] = m /\ via'[m] = g
        BY <1>1, <2>2, <2>5, <3>1, <3>2
      <4> QED
        BY <1>3, <2>2, <2>3, <3>1, <3>2, <4>1
    <3>3. CASE i \in 1 .. Len(toServer[g])
      <4>1. toServer'[g][i] = toServer[g][i] /\ toServer[g][i] # m
        BY <2>2, <2>3, <3>1, <3>3
      <4>2. /\ via[toServer[g][i]] = g /\ toServer[g][i] \notin handled /\ Unanswered(toServer[g][i])
            /\ \A j \in 1 .. Len(toServer[g]) : toServer[g][i] = toServer[g][j] => i = j
        BY <3>3 DEF IInv, Server, RequestsOK
      <4> QED
        BY <2>2, <2>3, <3>1, <3>3, <4>1, <4>2
    <3> QED
      BY <2>2, <3>1, <3>2, <3>3
  <2> QED
    BY <2>4, <2>5
<1>6. JobsOK' /\ HandledOK'
  BY <1>1, <1>3, <1>4 DEF IInv, TypeOK, Server, JobsOK, HandledOK, Unanswered, server
<1>7. AnswersOK'
  BY <1>1 DEF IInv, TypeOK, Server, AnswersOK, AnsweredAtMostOnce, server, Messages
<1> QED
  BY <1>2, <1>5, <1>6, <1>7 DEF Server

LEMMA SendKeeps == ASSUME IInv, NEW s \in Sends, Send(s) PROVE IInv'
<1>1. /\ s \in Messages /\ status[s] = "idle" /\ socket # 0 /\ UNCHANGED server
      /\ via' = [via EXCEPT ![s] = socket] /\ toServer' = [toServer EXCEPT ![socket] = Append(@, s)]
  BY DEF Send, Connected, Messages
<1>2. toServer' \in [Sockets -> Seq(Messages)] /\ via' \in [Messages -> 0 .. opened] /\ Server'
  BY <1>1, WriteKeeps
<1>3. TypeOK'
  BY <1>2 DEF IInv, TypeOK, Send, server
<1>4. Client'
  BY <1>1, TcpAssumption DEF IInv, TypeOK, Client, SocketsOK, StatusesOK, TasksAreWaiting, TimersAreWaiting, Send, Messages
<1>5. RepliesOK'
  BY DEF IInv, Send, server, RepliesOK
<1> QED
  BY <1>2, <1>3, <1>4, <1>5 DEF IInv

LEMMA EmitKeeps == ASSUME IInv, NEW e \in Events, Emit(e) PROVE IInv'
<1>1. /\ e \in Messages /\ status[e] = "idle" /\ socket # 0 /\ UNCHANGED server
      /\ via' = [via EXCEPT ![e] = socket] /\ toServer' = [toServer EXCEPT ![socket] = Append(@, e)]
  BY DEF Emit, Connected, Messages
<1>2. toServer' \in [Sockets -> Seq(Messages)] /\ via' \in [Messages -> 0 .. opened] /\ Server'
  BY <1>1, WriteKeeps
<1>3. TypeOK'
  BY <1>2 DEF IInv, TypeOK, Emit, server
<1>4. Client'
  BY <1>1, TcpAssumption DEF IInv, TypeOK, Client, SocketsOK, StatusesOK, TasksAreWaiting, TimersAreWaiting, Emit, Messages
<1>5. RepliesOK'
  BY DEF IInv, Emit, server, RepliesOK
<1> QED
  BY <1>2, <1>3, <1>4, <1>5 DEF IInv

LEMMA TimeoutKeeps == ASSUME IInv, NEW s \in Sends, Timeout(s) PROVE IInv'
<1>1. TypeOK'
  BY DEF IInv, TypeOK, Timeout, server, net
<1>2. Client'
  BY TcpAssumption DEF IInv, TypeOK, Client, SocketsOK, StatusesOK, TasksAreWaiting, TimersAreWaiting, Timeout, net, Messages
<1>3. Server'
  BY QuietServer DEF Timeout, net
<1>4. RepliesOK'
  BY DEF IInv, Timeout, server, net, RepliesOK
<1> QED
  BY <1>1, <1>2, <1>3, <1>4 DEF IInv

LEMMA EstablishKeeps == ASSUME IInv, NEW g \in Sockets, Establish(g) PROVE IInv'
<1>1. TypeOK'
  BY DEF IInv, TypeOK, Establish, server, client
<1>2. Client'
  BY DEF IInv, Client, SocketsOK, StatusesOK, TasksAreWaiting, TimersAreWaiting, Establish, client
<1>3. Server'
  BY QuietServer DEF Establish, client
<1>4. RepliesOK'
  BY DEF IInv, Establish, server, RepliesOK
<1> QED
  BY <1>1, <1>2, <1>3, <1>4 DEF IInv

LEMMA FinishKeeps == ASSUME IInv, NEW g \in Sockets, Finish(g) PROVE IInv'
<1>1. TypeOK'
  BY DEF IInv, TypeOK, Finish, server, client
<1>2. Client'
  BY DEF IInv, Client, SocketsOK, StatusesOK, TasksAreWaiting, TimersAreWaiting, Finish, client
<1>3. Server'
  BY QuietServer DEF Finish, client
<1>4. RepliesOK'
  BY DEF IInv, Finish, server, RepliesOK
<1> QED
  BY <1>1, <1>2, <1>3, <1>4 DEF IInv

LEMMA BreakKeeps == ASSUME IInv, NEW g \in Sockets, Break(g) PROVE IInv'
<1>1. /\ toServer \in [Sockets -> Seq(Messages)] /\ toClient \in [Sockets -> Seq(Answers)]
      /\ \A h \in Sockets : toServer'[h] \in {<<>>, toServer[h]} /\ toClient'[h] \in {<<>>, toClient[h]}
  BY DEF IInv, TypeOK, Break
<1>2. toServer' \in [Sockets -> Seq(Messages)] /\ toClient' \in [Sockets -> Seq(Answers)]
  BY <1>1 DEF Break
<1>3. \A h \in Sockets : Suffix(toServer[h], toServer'[h]) /\ Suffix(toClient[h], toClient'[h])
  BY <1>1, EmptyIsSuffix, SameIsSuffix
<1>4. TypeOK'
  BY <1>2, TcpAssumption DEF IInv, TypeOK, Break, server
<1>5. Client'
  BY DEF IInv, Client, SocketsOK, StatusesOK, TasksAreWaiting, TimersAreWaiting, Break
<1>6. Server'
  BY <1>2, <1>3, LostRequests DEF Break
<1>7. RepliesOK'
  BY <1>3, RepliesShrink DEF IInv, Break, server
<1> QED
  BY <1>4, <1>5, <1>6, <1>7 DEF IInv

\* The first request is taken from a wire.
LEMMA TakeRequest ==
  ASSUME TypeOK, NEW g \in Sockets, toServer[g] # <<>>, toServer' = [toServer EXCEPT ![g] = Tail(@)]
  PROVE  /\ toServer' \in [Sockets -> Seq(Messages)] /\ \A h \in Sockets : Suffix(toServer[h], toServer'[h])
         /\ Head(toServer[g]) = toServer[g][1] /\ 1 \in 1 .. Len(toServer[g]) /\ Head(toServer[g]) \in Messages
         /\ \A i \in 1 .. Len(toServer'[g]) : toServer'[g][i] = toServer[g][i + 1] /\ i + 1 \in 1 .. Len(toServer[g])
<1>1. toServer \in [Sockets -> Seq(Messages)] /\ toServer[g] \in Seq(Messages) /\ Len(toServer[g]) \in Nat
  BY DEF TypeOK
<1>2. /\ Tail(toServer[g]) \in Seq(Messages) /\ Suffix(toServer[g], Tail(toServer[g])) /\ Head(toServer[g]) = toServer[g][1] /\ 1 \in 1 .. Len(toServer[g])
      /\ Len(Tail(toServer[g])) = Len(toServer[g]) - 1 /\ \A i \in 1 .. Len(Tail(toServer[g])) : Tail(toServer[g])[i] = toServer[g][i + 1]
  BY <1>1, TailIsSuffix
<1>3. toServer' \in [Sockets -> Seq(Messages)] /\ toServer'[g] = Tail(toServer[g]) /\ \A h \in Sockets \ {g} : toServer'[h] = toServer[h]
  BY <1>1, <1>2
<1>4. \A h \in Sockets : Suffix(toServer[h], toServer'[h])
  BY <1>1, <1>2, <1>3, SameIsSuffix
<1>5. Head(toServer[g]) \in Messages
  BY <1>1
<1>6. \A i \in 1 .. Len(toServer'[g]) : toServer'[g][i] = toServer[g][i + 1] /\ i + 1 \in 1 .. Len(toServer[g])
  BY <1>1, <1>2, <1>3
<1> QED
  BY <1>2, <1>3, <1>4, <1>5, <1>6

\* The first answer is taken from a wire.
LEMMA TakeReply ==
  ASSUME TypeOK, NEW g \in Sockets, toClient[g] # <<>>, toClient' = [toClient EXCEPT ![g] = Tail(@)]
  PROVE  /\ toClient' \in [Sockets -> Seq(Answers)] /\ \A h \in Sockets : Suffix(toClient[h], toClient'[h])
         /\ Head(toClient[g]) = toClient[g][1] /\ 1 \in 1 .. Len(toClient[g]) /\ Head(toClient[g]) \in Answers
         /\ \A i \in 1 .. Len(toClient'[g]) : toClient'[g][i] = toClient[g][i + 1] /\ i + 1 \in 1 .. Len(toClient[g])
<1>1. toClient \in [Sockets -> Seq(Answers)] /\ toClient[g] \in Seq(Answers) /\ Len(toClient[g]) \in Nat
  BY DEF TypeOK
<1>2. /\ Tail(toClient[g]) \in Seq(Answers) /\ Suffix(toClient[g], Tail(toClient[g])) /\ Head(toClient[g]) = toClient[g][1] /\ 1 \in 1 .. Len(toClient[g])
      /\ Len(Tail(toClient[g])) = Len(toClient[g]) - 1 /\ \A i \in 1 .. Len(Tail(toClient[g])) : Tail(toClient[g])[i] = toClient[g][i + 1]
  BY <1>1, TailIsSuffix
<1>3. toClient' \in [Sockets -> Seq(Answers)] /\ toClient'[g] = Tail(toClient[g]) /\ \A h \in Sockets \ {g} : toClient'[h] = toClient[h]
  BY <1>1, <1>2
<1>4. \A h \in Sockets : Suffix(toClient[h], toClient'[h])
  BY <1>1, <1>2, <1>3, SameIsSuffix
<1>5. Head(toClient[g]) \in Answers
  BY <1>1
<1>6. \A i \in 1 .. Len(toClient'[g]) : toClient'[g][i] = toClient[g][i + 1] /\ i + 1 \in 1 .. Len(toClient[g])
  BY <1>1, <1>2, <1>3
<1> QED
  BY <1>2, <1>3, <1>4, <1>5, <1>6

\* A chunk the parser rejects takes requests along.
LEMMA DropRequests ==
  ASSUME TypeOK, NEW g \in Sockets, NEW n \in 0 .. Len(toServer[g]),
         toServer' = [toServer EXCEPT ![g] = SubSeq(toServer[g], n + 1, Len(toServer[g]))]
  PROVE  toServer' \in [Sockets -> Seq(Messages)] /\ \A h \in Sockets : Suffix(toServer[h], toServer'[h])
<1>1. toServer \in [Sockets -> Seq(Messages)] /\ toServer[g] \in Seq(Messages)
  BY DEF TypeOK
<1> DEFINE rest == SubSeq(toServer[g], n + 1, Len(toServer[g]))
<1>2. rest \in Seq(Messages) /\ Suffix(toServer[g], rest)
  BY <1>1, SubSeqIsSuffix
<1> HIDE DEF rest
<1>3. toServer' \in [Sockets -> Seq(Messages)] /\ toServer'[g] = rest /\ \A h \in Sockets \ {g} : toServer'[h] = toServer[h]
  BY <1>1, <1>2 DEF rest
<1> QED
  BY <1>1, <1>2, <1>3, SameIsSuffix

\* A chunk the parser rejects takes answers along.
LEMMA DropReplies ==
  ASSUME TypeOK, NEW g \in Sockets, NEW n \in 0 .. Len(toClient[g]),
         toClient' = [toClient EXCEPT ![g] = SubSeq(toClient[g], n + 1, Len(toClient[g]))]
  PROVE  toClient' \in [Sockets -> Seq(Answers)] /\ \A h \in Sockets : Suffix(toClient[h], toClient'[h])
<1>1. toClient \in [Sockets -> Seq(Answers)] /\ toClient[g] \in Seq(Answers)
  BY DEF TypeOK
<1> DEFINE rest == SubSeq(toClient[g], n + 1, Len(toClient[g]))
<1>2. rest \in Seq(Answers) /\ Suffix(toClient[g], rest)
  BY <1>1, SubSeqIsSuffix
<1> HIDE DEF rest
<1>3. toClient' \in [Sockets -> Seq(Answers)] /\ toClient'[g] = rest /\ \A h \in Sockets \ {g} : toClient'[h] = toClient[h]
  BY <1>1, <1>2 DEF rest
<1> QED
  BY <1>1, <1>2, <1>3, SameIsSuffix

LEMMA AnswerType ==
  ASSUME NEW m \in Messages, NEW body \in {"data", "error"}
  PROVE  AnswerTo(m, body) \in Answers /\ AnswerTo(m, body).body = body
         /\ (AnswerTo(m, body).to \in Sends => AnswerTo(m, body).to = m)
BY TcpAssumption DEF AnswerTo, Answers, Messages

LEMMA ReceiveKeeps == ASSUME IInv, NEW g \in Sockets, Receive(g) PROVE IInv'
<1> DEFINE m == Head(toServer[g])
<1>0. /\ toServer[g] # <<>> /\ toServer' = [toServer EXCEPT ![g] = Tail(@)]
      /\ toServer \in [Sockets -> Seq(Messages)] /\ UNCHANGED <<client, conn, deaf, torn, rejected, breaks>>
  BY DEF IInv, TypeOK, Receive, Whole
<1>1. /\ toServer' \in [Sockets -> Seq(Messages)] /\ \A h \in Sockets : Suffix(toServer[h], toServer'[h])
      /\ m = toServer[g][1] /\ 1 \in 1 .. Len(toServer[g]) /\ m \in Messages
      /\ \A i \in 1 .. Len(toServer'[g]) : toServer'[g][i] = toServer[g][i + 1] /\ i + 1 \in 1 .. Len(toServer[g])
  BY <1>0, TakeRequest DEF IInv
<1>2. via[m] = g /\ m \notin handled /\ Unanswered(m) /\ \A h \in Sockets : m \notin jobs[h]
  BY <1>1 DEF IInv, Server, RequestsOK, JobsOK
<1>3. \A h \in Sockets : \A i \in 1 .. Len(toServer'[h]) : toServer'[h][i] # m
  <2>1. SUFFICES ASSUME NEW h \in Sockets, NEW i \in 1 .. Len(toServer'[h]), toServer'[h][i] = m PROVE FALSE
    OBVIOUS
  <2>2. CASE h = g
    <3>1. toServer[g][i + 1] = toServer[g][1] /\ i + 1 \in 1 .. Len(toServer[g]) /\ i + 1 # 1
      BY <1>1, <2>1, <2>2
    <3> QED
      BY <1>1, <3>1 DEF IInv, Server, RequestsOK
  <2>3. CASE h # g
    <3>1. toServer'[h] = toServer[h]
      BY <1>0, <2>3
    <3> QED
      BY <1>2, <2>1, <2>3, <3>1 DEF IInv, Server, RequestsOK
  <2> QED
    BY <2>2, <2>3
<1>4. Client'
  BY <1>0 DEF IInv, Client, SocketsOK, StatusesOK, TasksAreWaiting, TimersAreWaiting, client
<1>5. CASE m \in Unknown /\ WriteData(g, AnswerTo(m, "error")) /\ Count(m) /\ UNCHANGED <<jobs, handled>>
  <2>1. toClient' \in [Sockets -> Seq(Answers)] /\ RepliesOK'
    BY <1>1, <1>5, AnswerType, WriteDataKeeps DEF IInv
  <2>2. answers' \in [Sends -> Nat] /\ \A s \in Sends : answers'[s] = IF s = m THEN answers[s] + 1 ELSE answers[s]
    BY <1>5 DEF IInv, TypeOK, Count
  <2>3. TypeOK'
    BY <1>0, <1>1, <1>5, <2>1, <2>2 DEF IInv, TypeOK, client
  <2>4. RequestsOK'
    BY <1>0, <1>1, <1>3, <1>5, <2>2, RequestsShrink DEF IInv, Server, client
  <2>5. JobsOK' /\ HandledOK'
    <3>1. ASSUME NEW h \in Sockets, NEW x \in jobs[h]
          PROVE  via[x] = h /\ x \in handled /\ (x \in Sends => answers'[x] = 0)
      BY <1>2, <2>2 DEF IInv, Server, JobsOK, Unanswered
    <3> QED
      BY <1>0, <1>5, <3>1 DEF IInv, Server, JobsOK, HandledOK, Unanswered, client
  <2>6. AnswersOK'
    <3>1. m \in Sends => answers[m] = 0 /\ via[m] # 0
      BY <1>2 DEF Unanswered, Sockets
    <3>2. ASSUME NEW x \in Sends
          PROVE  answers'[x] <= 1 /\ (via[x] = 0 => answers'[x] = 0)
      BY <2>2, <3>1 DEF IInv, TypeOK, Server, AnswersOK, AnsweredAtMostOnce
    <3> QED
      BY <1>0, <3>2 DEF AnswersOK, AnsweredAtMostOnce, client
  <2> QED
    BY <1>4, <2>1, <2>3, <2>4, <2>5, <2>6 DEF IInv, Server
<1>6. CASE m \notin Unknown /\ jobs' = [jobs EXCEPT ![g] = @ \cup {m}] /\ handled' = handled \cup {m}
           /\ UNCHANGED <<toClient, answers>>
  <2>1. TypeOK'
    BY <1>0, <1>1, <1>6 DEF IInv, TypeOK, client
  <2>2. RequestsOK'
    BY <1>0, <1>1, <1>3, <1>6, RequestsShrink DEF IInv, Server, client
  <2>3. JobsOK' /\ HandledOK'
    BY <1>0, <1>2, <1>6 DEF IInv, TypeOK, Server, JobsOK, HandledOK, Unanswered, client, Sockets
  <2>4. AnswersOK' /\ RepliesOK'
    BY <1>0, <1>6 DEF IInv, Server, AnswersOK, AnsweredAtMostOnce, RepliesOK, client
  <2> QED
    BY <1>4, <2>1, <2>2, <2>3, <2>4 DEF IInv, Server
<1> QED
  BY <1>5, <1>6 DEF Receive

LEMMA ReceiveBrokenKeeps == ASSUME IInv, NEW g \in Sockets, ReceiveBroken(g) PROVE IInv'
<1>0. UNCHANGED <<client, conn, deaf, breaks, server>> /\ WriteData(g, [to |-> "nobody", body |-> "error"])
  BY DEF ReceiveBroken
<1>1. PICK n \in 0 .. Len(toServer[g]) :
        /\ Rejects("toServer", toServer, g, SubSeq(toServer[g], n + 1, Len(toServer[g])))
        /\ toServer' = [toServer EXCEPT ![g] = SubSeq(toServer[g], n + 1, Len(toServer[g]))]
  BY DEF ReceiveBroken
<1>2. toServer' \in [Sockets -> Seq(Messages)] /\ \A h \in Sockets : Suffix(toServer[h], toServer'[h])
  BY <1>1, DropRequests DEF IInv
<1>3. Server'
  BY <1>0, <1>2, LostRequests DEF client
<1>4. torn' \in [{"toServer", "toClient"} -> SUBSET Sockets] /\ rejected' = TRUE
  BY <1>1 DEF IInv, TypeOK, Rejects
<1>5. toClient' \in [Sockets -> Seq(Answers)] /\ RepliesOK'
  <2>1. [to |-> "nobody", body |-> "error"] \in Answers
    BY DEF Answers
  <2> QED
    BY <1>0, <2>1, WriteDataKeeps DEF IInv, server
<1>6. TypeOK'
  BY <1>0, <1>2, <1>4, <1>5 DEF IInv, TypeOK, client, server
<1>7. Client'
  BY <1>0 DEF IInv, Client, SocketsOK, StatusesOK, TasksAreWaiting, TimersAreWaiting, client
<1> QED
  BY <1>3, <1>5, <1>6, <1>7 DEF IInv

LEMMA HandledKeeps == ASSUME IInv, NEW g \in Sockets, NEW m \in Messages, Handled(g, m) PROVE IInv'
<1>0. /\ m \in jobs[g] /\ jobs' = [jobs EXCEPT ![g] = @ \ {m}]
      /\ UNCHANGED <<client, handled, conn, deaf, toServer, torn, rejected, breaks>>
  BY DEF Handled
<1>1. via[m] = g /\ via[m] # 0 /\ m \in handled /\ Unanswered(m)
  BY <1>0 DEF IInv, Server, JobsOK, Sockets
<1>2. /\ \A h \in Sockets : \A i \in 1 .. Len(toServer[h]) : toServer[h][i] # m
      /\ \A h \in Sockets : jobs'[h] \subseteq jobs[h] \ {m}
  <2>1. \A h \in Sockets : \A i \in 1 .. Len(toServer[h]) : toServer[h][i] # m
    BY <1>1 DEF IInv, Server, RequestsOK
  <2>2. \A h \in Sockets : h # g => m \notin jobs[h]
    BY <1>1 DEF IInv, Server, JobsOK
  <2>3. \A h \in Sockets : jobs'[h] \subseteq jobs[h] \ {m}
    BY <1>0, <2>2 DEF IInv, TypeOK
  <2> QED
    BY <2>1, <2>3
<1>3. \/ \E body \in {"data", "error"} : WriteData(g, AnswerTo(m, body)) /\ Count(m)
      \/ UNCHANGED <<toClient, answers>>
  BY DEF Handled
<1>4. toClient' \in [Sockets -> Seq(Answers)] /\ RepliesOK'
  <2>1. CASE UNCHANGED <<toClient, answers>>
    BY <1>0, <2>1 DEF IInv, TypeOK, RepliesOK
  <2>2. CASE \E body \in {"data", "error"} : WriteData(g, AnswerTo(m, body)) /\ Count(m)
    BY <1>0, <1>1, <2>2, AnswerType, WriteDataKeeps DEF IInv
  <2> QED
    BY <1>3, <2>1, <2>2
<1>5. /\ answers' \in [Sends -> Nat] /\ \A s \in Sends : s # m => answers'[s] = answers[s]
      /\ m \in Sends => answers'[m] \in {0, 1}
  BY <1>1, <1>3 DEF IInv, TypeOK, Count, Unanswered
<1>6. TypeOK'
  BY <1>0, <1>2, <1>4, <1>5 DEF IInv, TypeOK, client
<1>7. RequestsOK' /\ JobsOK'
  <2>1. /\ \A h \in Sockets : toServer'[h] = toServer[h]
        /\ via' = via /\ handled' = handled
    BY <1>0 DEF client
  <2>2. RequestsOK'
    <3> SUFFICES ASSUME NEW h \in Sockets, NEW i \in 1 .. Len(toServer[h])
                 PROVE  /\ via[toServer[h][i]] = h /\ toServer[h][i] \notin handled
                        /\ (toServer[h][i] \in Sends => answers'[toServer[h][i]] = 0)
                        /\ \A j \in 1 .. Len(toServer[h]) : toServer[h][i] = toServer[h][j] => i = j
      BY <2>1 DEF RequestsOK, Unanswered
    <3>1. /\ via[toServer[h][i]] = h /\ toServer[h][i] \notin handled
          /\ (toServer[h][i] \in Sends => answers[toServer[h][i]] = 0)
          /\ \A j \in 1 .. Len(toServer[h]) : toServer[h][i] = toServer[h][j] => i = j
      BY DEF IInv, Server, RequestsOK, Unanswered
    <3>2. toServer[h][i] # m
      BY <1>2
    <3> QED
      BY <1>5, <3>1, <3>2
  <2>3. ASSUME NEW h \in Sockets, NEW n \in jobs'[h]
        PROVE  via'[n] = h /\ n \in handled' /\ (n \in Sends => answers'[n] = 0)
    <3>1. n \in jobs[h] /\ n # m
      BY <1>2, <2>3
    <3>2. via[n] = h /\ n \in handled /\ (n \in Sends => answers[n] = 0)
      BY <3>1 DEF IInv, Server, JobsOK, Unanswered
    <3> QED
      BY <1>5, <2>1, <3>1, <3>2
  <2> QED
    BY <2>2, <2>3 DEF JobsOK, Unanswered
<1>8. HandledOK' /\ AnswersOK'
  BY <1>0, <1>1, <1>5 DEF IInv, Server, HandledOK, AnswersOK, AnsweredAtMostOnce, client
<1>9. Client'
  BY <1>0 DEF IInv, Client, SocketsOK, StatusesOK, TasksAreWaiting, TimersAreWaiting, client
<1> QED
  BY <1>4, <1>6, <1>7, <1>8, <1>9 DEF IInv, Server

LEMMA HandleResponseKeeps == ASSUME IInv, NEW g \in Sockets, HandleResponse(g) PROVE IInv'
<1> DEFINE answer == Head(toClient[g])
<1>0. /\ toClient[g] # <<>> /\ toClient' = [toClient EXCEPT ![g] = Tail(@)] /\ toClient \in [Sockets -> Seq(Answers)]
      /\ UNCHANGED <<up, socket, opened, via, conn, deaf, toServer, torn, rejected, breaks, server>>
  BY DEF IInv, TypeOK, HandleResponse, Whole
<1>1. /\ toClient' \in [Sockets -> Seq(Answers)] /\ \A h \in Sockets : Suffix(toClient[h], toClient'[h])
      /\ answer \in Answers
  BY <1>0, TakeReply DEF IInv
<1>2. Server' /\ RepliesOK'
  BY <1>0, <1>1, QuietServer, RepliesShrink DEF IInv, server
<1>3. CASE UNCHANGED <<tasks, timer, status>>
  <2>1. TypeOK'
    BY <1>0, <1>1, <1>3 DEF IInv, TypeOK, server
  <2>2. Client'
    BY <1>0, <1>3 DEF IInv, Client, SocketsOK, StatusesOK, TasksAreWaiting, TimersAreWaiting
  <2> QED
    BY <1>2, <2>1, <2>2 DEF IInv
<1>4. ASSUME NEW s \in Sends, ResponseFor(answer, s), Callback(s), status' = [status EXCEPT ![s] = answer.body]
      PROVE  IInv'
  <2>1. answer.body \in {"data", "error"} /\ s \in tasks /\ status[s] = "waiting" /\ s \in Messages
    BY <1>1, <1>4 DEF IInv, Client, TasksAreWaiting, Answers, ResponseFor, Messages
  <2>2. TypeOK'
    BY <1>0, <1>1, <1>4, <2>1 DEF IInv, TypeOK, server, Callback
  <2>3. Client'
    BY <1>0, <1>4, <2>1, TcpAssumption DEF IInv, TypeOK, Client, SocketsOK, StatusesOK, TasksAreWaiting, TimersAreWaiting, Callback, Messages
  <2> QED
    BY <1>2, <2>2, <2>3 DEF IInv
<1> QED
  BY <1>3, <1>4 DEF HandleResponse

LEMMA ResponseBrokenKeeps == ASSUME IInv, NEW g \in Sockets, ResponseBroken(g) PROVE IInv'
<1>0. UNCHANGED <<socket, opened, tasks, timer, status, via, conn, deaf, toServer, breaks, server>> /\ up' = FALSE
  BY DEF ResponseBroken
<1>1. PICK n \in 0 .. Len(toClient[g]) :
        /\ Rejects("toClient", toClient, g, SubSeq(toClient[g], n + 1, Len(toClient[g])))
        /\ toClient' = [toClient EXCEPT ![g] = SubSeq(toClient[g], n + 1, Len(toClient[g]))]
  BY DEF ResponseBroken
<1>2. toClient' \in [Sockets -> Seq(Answers)] /\ \A h \in Sockets : Suffix(toClient[h], toClient'[h])
  BY <1>1, DropReplies DEF IInv
<1>3. torn' \in [{"toServer", "toClient"} -> SUBSET Sockets] /\ rejected' = TRUE
  BY <1>1 DEF IInv, TypeOK, Rejects
<1>4. TypeOK'
  BY <1>0, <1>2, <1>3 DEF IInv, TypeOK, server
<1>5. Client'
  BY <1>0 DEF IInv, Client, SocketsOK, StatusesOK, TasksAreWaiting, TimersAreWaiting
<1>6. Server' /\ RepliesOK'
  BY <1>0, <1>2, QuietServer, RepliesShrink DEF IInv, server
<1> QED
  BY <1>4, <1>5, <1>6 DEF IInv

-----------------------------------------------------------------------------
LEMMA InitHolds == Init => IInv
<1> SUFFICES ASSUME Init PROVE IInv
  OBVIOUS
<1> DEFINE empty == <<>>
<1>1. empty \in Seq(Messages) /\ empty \in Seq(Answers) /\ Len(empty) = 0
  OBVIOUS
<1>2. toServer = [g \in Sockets |-> empty] /\ toClient = [g \in Sockets |-> empty]
  BY DEF Init
<1> HIDE DEF empty
<1>3. toServer \in [Sockets -> Seq(Messages)] /\ toClient \in [Sockets -> Seq(Answers)]
  BY <1>1, <1>2
<1>4. TypeOK
  <2>1. conn \in [Sockets -> {"none", "connecting", "open", "closed"}] /\ \A g \in Sockets : conn[g] = "none" /\ g > 0
    BY TcpAssumption DEF Init, Sockets
  <2>2. via \in [Messages -> 0 .. opened] /\ socket \in 0 .. opened /\ opened \in 0 .. MaxConnects /\ breaks \in 0 .. MaxBreaks
    BY TcpAssumption DEF Init
  <2>3. /\ torn \in [{"toServer", "toClient"} -> SUBSET Sockets] /\ jobs \in [Sockets -> SUBSET Messages]
        /\ answers \in [Sends -> Nat] /\ tasks \subseteq Sends /\ timer \subseteq Sends \ Untimed
    BY DEF Init
  <2> QED
    BY <1>3, <2>1, <2>2, <2>3 DEF Init, TypeOK
<1>5. Client
  BY TcpAssumption DEF Init, Client, SocketsOK, StatusesOK, TasksAreWaiting, TimersAreWaiting, Messages
<1>6. RequestsOK /\ RepliesOK
  BY <1>1, <1>2 DEF RequestsOK, RepliesOK
<1>7. JobsOK /\ HandledOK /\ AnswersOK
  BY DEF Init, JobsOK, HandledOK, AnswersOK, AnsweredAtMostOnce
<1> QED
  BY <1>4, <1>5, <1>6, <1>7 DEF IInv, Server

LEMMA StepKeeps == IInv /\ [Next]_vars => IInv'
<1> SUFFICES ASSUME IInv, [Next]_vars PROVE IInv'
  OBVIOUS
<1>1. CASE UNCHANGED vars
  <2>1. TypeOK'
    BY <1>1 DEF IInv, TypeOK, vars, client, server, net
  <2>2. Client'
    BY <1>1 DEF IInv, Client, SocketsOK, StatusesOK, TasksAreWaiting, TimersAreWaiting, vars, client, net
  <2>3. Server' /\ RepliesOK'
    BY <1>1, QuietServer DEF IInv, RepliesOK, vars, client, server, net
  <2> QED
    BY <2>1, <2>2, <2>3 DEF IInv
<1>2. CASE Connect \/ Dispose
  BY <1>2, ConnectKeeps, DisposeKeeps
<1>3. CASE \E m \in Messages : NotConnected(m)
  BY <1>3, NotConnectedKeeps
<1>4. CASE \E s \in Sends : Send(s) \/ Timeout(s)
  BY <1>4, SendKeeps, TimeoutKeeps
<1>5. CASE \E e \in Events : Emit(e)
  BY <1>5, EmitKeeps
<1>6. ASSUME NEW g \in Sockets, Transport(g)
      PROVE  IInv'
  BY <1>6, EstablishKeeps, FinishKeeps, ReceiveKeeps, ReceiveBrokenKeeps, HandleResponseKeeps, ResponseBrokenKeeps DEF Transport
<1>7. ASSUME NEW g \in Sockets, Break(g) \/ \E m \in Messages : Handled(g, m)
      PROVE  IInv'
  BY <1>7, BreakKeeps, HandledKeeps
<1> QED
  BY <1>1, <1>2, <1>3, <1>4, <1>5, <1>6, <1>7 DEF Next

\* The state keeps its shape, for any number of calls and connections.
THEOREM TypeCorrect == Spec => []TypeOK
<1>1. IInv => TypeOK
  BY DEF IInv
<1> QED
  BY <1>1, InitHolds, StepKeeps, PTL DEF Spec

\* #tasks and the timers agree with what user code waits for, whatever is
\* answered, times out, breaks or is closed in whatever order.
THEOREM NothingLeftBehind == Spec => [](TasksAreWaiting /\ TimersAreWaiting)
<1>1. IInv => TasksAreWaiting /\ TimersAreWaiting
  BY DEF IInv, Client
<1> QED
  BY <1>1, InitHolds, StepKeeps, PTL DEF Spec

\* The server never answers a call twice.
THEOREM OneAnswerEach == Spec => []AnsweredAtMostOnce
<1>1. IInv => AnsweredAtMostOnce
  BY DEF IInv, Server, AnswersOK
<1> QED
  BY <1>1, InitHolds, StepKeeps, PTL DEF Spec

-----------------------------------------------------------------------------
(* MicroTcp implements Calls *)

Unseen == UNCHANGED <<[s \in Sends |-> status[s]], handled \cap Sends>>

LEMMA InitMaps == Init => Promise!Init
BY DEF Init, Promise!Init, Messages

\* Most steps leave alone what Calls speaks of.
LEMMA QuietMaps == ASSUME UNCHANGED <<status, handled>> PROVE Unseen
BY DEF Unseen

LEMMA StatusOf ==
  ASSUME TypeOK, NEW s \in Sends, NEW v, status' = [status EXCEPT ![s] = v]
  PROVE  [t \in Sends |-> status'[t]] = [[t \in Sends |-> status[t]] EXCEPT ![s] = v]
<1>1. s \in Messages /\ Sends \subseteq Messages /\ status \in [Messages -> {"idle", "waiting", "sent", "data", "error", "timeout", "notConnected"}]
  BY DEF TypeOK, Messages
<1>2. \A t \in Sends : status'[t] = IF t = s THEN v ELSE status[t]
  BY <1>1
<1> QED
  BY <1>2

\* What user code is told of an event is not told by Calls.
LEMMA EventMaps ==
  ASSUME TypeOK, NEW e \in Events, NEW v, status' = [status EXCEPT ![e] = v], UNCHANGED handled
  PROVE  Unseen
<1>1. e \in Messages /\ e \notin Sends /\ Sends \subseteq Messages /\ status \in [Messages -> {"idle", "waiting", "sent", "data", "error", "timeout", "notConnected"}]
  BY TcpAssumption DEF TypeOK, Messages
<1>2. \A t \in Sends : status'[t] = status[t]
  BY <1>1
<1> QED
  BY <1>2 DEF Unseen

LEMMA NotConnectedMaps == ASSUME IInv, NEW m \in Messages, NotConnected(m) PROVE [Promise!Next]_(Promise!vars)
<1>1. /\ status[m] = "idle" /\ status' = [status EXCEPT ![m] = "notConnected"] /\ UNCHANGED handled /\ TypeOK
  BY DEF NotConnected, server, IInv
<1>2. CASE m \in Sends
  <2>1. Promise!Refuse(m)
    BY <1>1, <1>2, StatusOf DEF Promise!Refuse
  <2> QED
    BY <1>2, <2>1 DEF Promise!Next
<1>3. CASE m \in Events
  BY <1>1, <1>3, EventMaps DEF Unseen, Promise!vars
<1> QED
  BY <1>2, <1>3 DEF Messages

LEMMA SendMaps == ASSUME IInv, NEW s \in Sends, Send(s) PROVE [Promise!Next]_(Promise!vars)
<1>1. /\ status[s] = "idle" /\ status' = [status EXCEPT ![s] = "waiting"] /\ UNCHANGED handled /\ TypeOK
  BY DEF Send, server, IInv
<1>2. Promise!Call(s)
  BY <1>1, StatusOf DEF Promise!Call
<1> QED
  BY <1>2 DEF Promise!Next

LEMMA TimeoutMaps == ASSUME IInv, NEW s \in Sends, Timeout(s) PROVE [Promise!Next]_(Promise!vars)
<1>1. /\ status' = [status EXCEPT ![s] = "timeout"] /\ UNCHANGED handled /\ TypeOK
  BY DEF Timeout, server, IInv
<1>2. status[s] = "waiting" /\ s \notin Untimed
  BY DEF Timeout, IInv, Client, TimersAreWaiting
<1>3. Promise!Settle(s)
  BY <1>1, <1>2, StatusOf DEF Promise!Settle
<1> QED
  BY <1>3 DEF Promise!Next

LEMMA ReceiveMaps == ASSUME IInv, NEW g \in Sockets, Receive(g) PROVE [Promise!Next]_(Promise!vars)
<1> DEFINE m == Head(toServer[g])
<1>1. toServer[g] # <<>> /\ UNCHANGED status /\ TypeOK
  BY DEF Receive, Whole, client, IInv
<1>2. m = toServer[g][1] /\ 1 \in 1 .. Len(toServer[g]) /\ m \in Messages
  BY <1>1, TailIsSuffix DEF TypeOK
<1>3. m \notin handled /\ via[m] # 0
  BY <1>2 DEF IInv, Server, RequestsOK, Sockets
<1>4. status[m] \notin {"idle", "notConnected"}
  BY <1>2, <1>3 DEF IInv, Client, StatusesOK
<1>5. CASE UNCHANGED handled
  BY <1>1, <1>5, QuietMaps DEF Unseen, Promise!vars
<1>6. CASE handled' = handled \cup {m} /\ m \in Sends
  <2>1. (handled \cap Sends)' = (handled \cap Sends) \cup {m}
    BY <1>6
  <2>2. Promise!Handle(m)
    BY <1>1, <1>3, <1>4, <1>6, <2>1 DEF Promise!Handle
  <2> QED
    BY <1>6, <2>2 DEF Promise!Next
<1>7. CASE handled' = handled \cup {m} /\ m \notin Sends
  <2>1. (handled \cap Sends)' = handled \cap Sends
    BY <1>7
  <2> QED
    BY <1>1, <2>1 DEF Promise!vars
<1> QED
  BY <1>5, <1>6, <1>7 DEF Receive

LEMMA HandleResponseMaps == ASSUME IInv, NEW g \in Sockets, HandleResponse(g) PROVE [Promise!Next]_(Promise!vars)
<1> DEFINE answer == Head(toClient[g])
<1>1. toClient[g] # <<>> /\ UNCHANGED handled /\ TypeOK
  BY DEF HandleResponse, Whole, server, IInv
<1>2. answer = toClient[g][1] /\ 1 \in 1 .. Len(toClient[g]) /\ answer \in Answers
  BY <1>1, TailIsSuffix DEF TypeOK
<1>3. CASE UNCHANGED status
  BY <1>1, <1>3, QuietMaps DEF Unseen, Promise!vars
<1>4. ASSUME NEW s \in Sends, ResponseFor(answer, s), status' = [status EXCEPT ![s] = answer.body]
      PROVE  [Promise!Next]_(Promise!vars)
  <2>1. status[s] = "waiting" /\ answer.to = s /\ answer.body \in {"data", "error"}
    BY <1>2, <1>4 DEF ResponseFor, IInv, Client, TasksAreWaiting, Answers
  <2>2. answer.body = "data" => s \in handled
    BY <1>2, <2>1 DEF IInv, RepliesOK
  <2>3. Promise!Settle(s)
    BY <1>1, <1>4, <2>1, <2>2, StatusOf DEF Promise!Settle
  <2> QED
    BY <2>3 DEF Promise!Next
<1> QED
  BY <1>3, <1>4 DEF HandleResponse

LEMMA StepMaps == IInv /\ [Next]_vars => [Promise!Next]_(Promise!vars)
<1> SUFFICES ASSUME IInv, [Next]_vars PROVE [Promise!Next]_(Promise!vars)
  OBVIOUS
<1>1. ASSUME UNCHANGED <<status, handled>> PROVE [Promise!Next]_(Promise!vars)
  BY <1>1, QuietMaps DEF Unseen, Promise!vars
<1>2. CASE UNCHANGED vars
  BY <1>1, <1>2 DEF vars, client, server
<1>3. CASE Connect \/ Dispose
  BY <1>1, <1>3 DEF Connect, Dispose, server
<1>4. CASE \E m \in Messages : NotConnected(m)
  BY <1>4, NotConnectedMaps
<1>5. CASE \E s \in Sends : Send(s) \/ Timeout(s)
  BY <1>5, SendMaps, TimeoutMaps
<1>6. ASSUME NEW e \in Events, Emit(e) PROVE [Promise!Next]_(Promise!vars)
  <2>1. status' = [status EXCEPT ![e] = "sent"] /\ UNCHANGED handled /\ TypeOK
    BY <1>6 DEF Emit, server, IInv
  <2> QED
    BY <2>1, EventMaps DEF Unseen, Promise!vars
<1>7. ASSUME NEW g \in Sockets, Transport(g) PROVE [Promise!Next]_(Promise!vars)
  <2>1. CASE Establish(g) \/ Finish(g) \/ ReceiveBroken(g) \/ ResponseBroken(g)
    BY <1>1, <2>1 DEF Establish, Finish, ReceiveBroken, ResponseBroken, client, server
  <2> QED
    BY <1>7, <2>1, ReceiveMaps, HandleResponseMaps DEF Transport
<1>8. ASSUME NEW g \in Sockets, Break(g) \/ \E m \in Messages : Handled(g, m) PROVE [Promise!Next]_(Promise!vars)
  BY <1>1, <1>8 DEF Break, Handled, client, server
<1> QED
  BY <1>2, <1>3, <1>4, <1>5, <1>6, <1>7, <1>8 DEF Next

\* Every behaviour of client, server and connections is one Calls allows: a call
\* is settled once, and data is what its own handler answered.
THEOREM PromiseKept == Spec => KeepsPromise
<1>1. Init /\ [][Next]_vars => Promise!Safety
  BY InitHolds, InitMaps, StepKeeps, StepMaps, PTL DEF Promise!Safety
<1> QED
  BY <1>1, PTL DEF Spec, KeepsPromise
=============================================================================
