-------------------------- MODULE MicroGrpcProofs --------------------------
(***************************************************************************)
(* Theorems about MicroGrpc, for any calls, items and breaks.              *)
(***************************************************************************)
EXTENDS MicroGrpc, TLAPS

(* The inductive invariant: where the items of a stream are.  From its end  *)
(* to its beginning they are with user code, in the hand of the reader's    *)
(* loop, in its queue, on the wire, in the hand of the pump and in the      *)
(* pump's queue, without a gap.                                             *)

\* A sequence holds the items behind the n-th.
Follows(q, n) == \A k \in 1 .. Len(q) : q[k] = n + k

InHand(i) == IF loop[i] = "body" THEN 1 ELSE 0
Given(s) == Len(got[s]) + InHand(Reader(s))
Arrived(s) == Given(s) + Len(queue[Reader(s)])
Sent(s) == Arrived(s) + Len(wire[s])
Taken(s) == Sent(s) + InHand(Writer(s))

ReadInOrder(s) ==
  /\ Follows(got[s], 0)
  /\ loop[Reader(s)] = "body" => held[Reader(s)] = Len(got[s]) + 1
  /\ Follows(queue[Reader(s)], Given(s))
  /\ Arrived(s) <= pushed[s]

\* Nothing is lost between the two iterators of a call that has not broken.
WrittenInOrder(s) ==
  /\ Follows(wire[s], Arrived(s))
  /\ loop[Writer(s)] = "body" => held[Writer(s)] = Sent(s) + 1
  /\ Follows(queue[Writer(s)], Taken(s))
  /\ Taken(s) + Len(queue[Writer(s)]) = pushed[s]

\* The end comes behind the items.
EndInOrder(s) ==
  /\ due[s] <= pushed[s]
  /\ loop[Writer(s)] = "left" => isEnd[Writer(s)] /\ Taken(s) >= due[s]
  /\ ended[s] => loop[Writer(s)] = "left"
  /\ isEnd[Reader(s)] => ended[s] /\ wire[s] = <<>>
  /\ loop[Reader(s)] = "left" => isEnd[Reader(s)] /\ queue[Reader(s)] = <<>>

\* Before its pump begins a stream is empty behind the pump.
Untouched(s) == loop[Writer(s)] = "none" => Arrived(s) = 0 /\ Len(wire[s]) = 0

StreamOK(s) ==
  /\ ReadInOrder(s) /\ Untouched(s)
  /\ s[1] \notin broken => WrittenInOrder(s) /\ EndInOrder(s)

\* One value, or none, in place of a stream.
ReplacedOK(s) ==
  /\ s[2] = "response" /\ Sent(s) <= 1
  /\ loop[Reader(s)] = "body" => held[Reader(s)] = 0
  /\ \A k \in 1 .. Len(queue[Reader(s)]) : queue[Reader(s)][k] = 0
  /\ \A k \in 1 .. Len(wire[s]) : wire[s][k] = 0
  /\ loop[Writer(s)] = "none"

ItemsOK(s) == IF s \in replaced THEN ReplacedOK(s) ELSE StreamOK(s)

\* A call that was not made has no pump, and a handler that has not answered has
\* not begun its response.
CallOK(c) ==
  /\ ~Made(c) => loop[Writer(Request(c))] = "none"
  /\ job[c] \in {"none", "running"} =>
       loop[Writer(Response(c))] = "none" /\ ~ended[Response(c)] /\ Response(c) \notin replaced

\* A loop is told the end only of streams that ended, or broke.
EndsOK ==
  /\ \A i \in Iterators : loop[i] = "left" => isEnd[i]
  /\ \A s \in Streams : isEnd[Reader(s)] => ended[s] \/ (s[2] = "request" /\ s[1] \in broken)

IInv ==
  /\ TypeOK /\ NoLostWakeup /\ EndsOK
  /\ \A s \in Streams : ItemsOK(s)
  /\ \A c \in Calls : CallOK(c)

-----------------------------------------------------------------------------
(* Names, and sequences of consecutive items *)

\* Streams and iterators are named one to one.
Named(s) ==
  /\ Writer(s) \in Iterators /\ Reader(s) \in Iterators
  /\ s[1] \in Calls /\ s[2] \in Directions
  /\ s[2] = "request" => s = Request(s[1])
  /\ s[2] = "response" => s = Response(s[1])

LEMMA Names ==
  /\ \A s \in Streams : Named(s)
  /\ \A s, t \in Streams : Writer(s) # Reader(t) /\ (s # t => Writer(s) # Writer(t) /\ Reader(s) # Reader(t))
  /\ \A i \in Iterators : \E s \in Streams : i = Writer(s) \/ i = Reader(s)
  /\ \A c \in Calls :
       /\ Request(c) \in Streams /\ Request(c)[1] = c /\ Request(c)[2] = "request"
       /\ Response(c) \in Streams /\ Response(c)[1] = c /\ Response(c)[2] = "response"
       /\ Request(c) # Response(c)
<1>1. \A s \in Streams : Named(s)
  BY DEF Named, Writer, Reader, Iterators, Streams, Request, Response
<1>2. \A s, t \in Streams : Writer(s) # Reader(t) /\ (s # t => Writer(s) # Writer(t) /\ Reader(s) # Reader(t))
  BY DEF Writer, Reader
<1>3. \A i \in Iterators : \E s \in Streams : i = Writer(s) \/ i = Reader(s)
  BY DEF Writer, Reader, Iterators
<1>4. \A c \in Calls :
        /\ Request(c) \in Streams /\ Request(c)[1] = c /\ Request(c)[2] = "request"
        /\ Response(c) \in Streams /\ Response(c)[1] = c /\ Response(c)[2] = "response"
        /\ Request(c) # Response(c)
  BY DEF Request, Response, Streams, Directions
<1> QED
  BY <1>1, <1>2, <1>3, <1>4

LEMMA FollowsEmpty == ASSUME NEW n PROVE Follows(<<>>, n)
<1>1. Len(<<>>) = 0
  OBVIOUS
<1> QED
  BY <1>1 DEF Follows

LEMMA FollowsAppend ==
  ASSUME NEW q \in Seq(Items), NEW n \in Nat, Follows(q, n), NEW x \in Items, x = n + Len(q) + 1
  PROVE  Follows(Append(q, x), n) /\ Len(Append(q, x)) = Len(q) + 1 /\ Append(q, x) \in Seq(Items)
<1>1. /\ Len(q) \in Nat /\ Len(Append(q, x)) = Len(q) + 1 /\ Append(q, x) \in Seq(Items)
      /\ \A k \in 1 .. Len(q) + 1 : Append(q, x)[k] = IF k = Len(q) + 1 THEN x ELSE q[k]
  OBVIOUS
<1>2. \A k \in 1 .. Len(q) + 1 : k = Len(q) + 1 \/ k \in 1 .. Len(q)
  BY <1>1
<1> QED
  BY <1>1, <1>2 DEF Follows

LEMMA TakeFirst ==
  ASSUME NEW q \in Seq(Items), q # <<>>
  PROVE  /\ Head(q) \in Items /\ Tail(q) \in Seq(Items) /\ Len(q) \in Nat \ {0} /\ Len(Tail(q)) = Len(q) - 1
         /\ \A n \in Nat : Follows(q, n) => Head(q) = n + 1 /\ Follows(Tail(q), n + 1)
         /\ (\A k \in 1 .. Len(q) : q[k] = 0) => Head(q) = 0 /\ \A k \in 1 .. Len(Tail(q)) : Tail(q)[k] = 0
<1>1. /\ Len(q) \in Nat \ {0} /\ Head(q) = q[1] /\ Head(q) \in Items /\ Tail(q) \in Seq(Items)
      /\ Len(Tail(q)) = Len(q) - 1
  OBVIOUS
<1>2. \A k \in 1 .. Len(Tail(q)) : Tail(q)[k] = q[k + 1]
  OBVIOUS
<1>3. \A k \in 1 .. Len(Tail(q)) : k + 1 \in 1 .. Len(q)
  BY <1>1
<1>4. 1 \in 1 .. Len(q)
  BY <1>1
<1>5. ASSUME NEW n \in Nat, Follows(q, n) PROVE Head(q) = n + 1 /\ Follows(Tail(q), n + 1)
  BY <1>1, <1>2, <1>3, <1>4, <1>5 DEF Follows
<1> QED
  BY <1>1, <1>2, <1>3, <1>4, <1>5

LEMMA LengthIsNat == \A q \in Seq(Items) : Len(q) \in Nat
OBVIOUS

LEMMA Counts ==
  ASSUME TypeOK, NEW s \in Streams
  PROVE  /\ Given(s) \in Nat /\ Arrived(s) \in Nat /\ Sent(s) \in Nat /\ Taken(s) \in Nat
         /\ Len(got[s]) \in Nat /\ Len(wire[s]) \in Nat /\ InHand(Reader(s)) \in {0, 1} /\ InHand(Writer(s)) \in {0, 1}
         /\ Len(queue[Reader(s)]) \in Nat /\ Len(queue[Writer(s)]) \in Nat
         /\ pushed[s] \in Nat /\ due[s] \in Nat
<1>1. /\ got[s] \in Seq(Items) /\ wire[s] \in Seq(Items)
      /\ queue[Reader(s)] \in Seq(Items) /\ queue[Writer(s)] \in Seq(Items)
      /\ pushed[s] \in Nat /\ due[s] \in Nat
  <2>1. Writer(s) \in Iterators /\ Reader(s) \in Iterators
    BY Names DEF Named
  <2> QED
    BY <2>1, GrpcAssumption DEF TypeOK
<1>2. Len(got[s]) \in Nat /\ Len(wire[s]) \in Nat /\ Len(queue[Reader(s)]) \in Nat /\ Len(queue[Writer(s)]) \in Nat
  BY <1>1, LengthIsNat
<1>3. InHand(Reader(s)) \in {0, 1} /\ InHand(Writer(s)) \in {0, 1}
  BY DEF InHand
<1>4. Given(s) \in Nat
  BY <1>2, <1>3 DEF Given
<1>5. Arrived(s) \in Nat
  BY <1>2, <1>4 DEF Arrived
<1>6. Sent(s) \in Nat
  BY <1>2, <1>5 DEF Sent
<1>7. Taken(s) \in Nat
  BY <1>3, <1>6 DEF Taken
<1> QED
  BY <1>1, <1>2, <1>3, <1>4, <1>5, <1>6, <1>7

-----------------------------------------------------------------------------
(* What the steps of an iterator do *)

\* A loop may have been woken, and stands where it stood otherwise.
SameLoop(i) == \A p \in {"none", "body", "left"} : loop'[i] = p <=> loop[i] = p
SameIterator(i) == queue'[i] = queue[i] /\ held'[i] = held[i] /\ isEnd'[i] = isEnd[i] /\ SameLoop(i)
OthersSame(i) == \A j \in Iterators : j # i => SameIterator(j)

IteratorsOK ==
  /\ queue \in [Iterators -> Seq(Items)] /\ isEnd \in [Iterators -> BOOLEAN]
  /\ loop \in [Iterators -> Places] /\ held \in [Iterators -> Items]
  /\ NoLostWakeup /\ \A i \in Iterators : loop[i] = "left" => isEnd[i]

LEMMA PushFacts ==
  ASSUME IteratorsOK, NEW i \in Iterators, NEW x \in Items, Push(i, x)
  PROVE  /\ IteratorsOK' /\ OthersSame(i) /\ SameLoop(i)
         /\ queue'[i] = Append(queue[i], x) /\ isEnd' = isEnd /\ held' = held
<1>1. /\ queue'[i] = Append(queue[i], x) /\ isEnd' = isEnd /\ held' = held
      /\ queue' \in [Iterators -> Seq(Items)] /\ loop' \in [Iterators -> Places]
  BY DEF IteratorsOK, Push, Woken, Places
<1>2. \A j \in Iterators : j # i => queue'[j] = queue[j] /\ loop'[j] = loop[j]
  BY DEF IteratorsOK, Push, Woken
<1>3. SameLoop(i) /\ loop'[i] # "waiting"
  BY DEF IteratorsOK, Push, Woken, SameLoop
<1>4. OthersSame(i)
  BY <1>1, <1>2 DEF OthersSame, SameIterator, SameLoop
<1>5. IteratorsOK'
  BY <1>1, <1>2, <1>3 DEF IteratorsOK, NoLostWakeup, SameLoop
<1> QED
  BY <1>1, <1>3, <1>4, <1>5

LEMMA EndFacts ==
  ASSUME IteratorsOK, NEW i \in Iterators, End(i)
  PROVE  /\ IteratorsOK' /\ OthersSame(i) /\ SameLoop(i)
         /\ queue' = queue /\ held' = held /\ isEnd'[i] = TRUE
<1>1. /\ queue' = queue /\ held' = held /\ isEnd'[i] = TRUE
      /\ isEnd' \in [Iterators -> BOOLEAN] /\ loop' \in [Iterators -> Places]
  BY DEF IteratorsOK, End, Woken, Places
<1>2. \A j \in Iterators : j # i => isEnd'[j] = isEnd[j] /\ loop'[j] = loop[j]
  BY DEF IteratorsOK, End, Woken
<1>3. SameLoop(i) /\ loop'[i] # "waiting"
  BY DEF IteratorsOK, End, Woken, SameLoop
<1>4. OthersSame(i)
  BY <1>1, <1>2 DEF OthersSame, SameIterator, SameLoop
<1>5. IteratorsOK'
  BY <1>1, <1>2, <1>3 DEF IteratorsOK, NoLostWakeup, SameLoop
<1> QED
  BY <1>1, <1>3, <1>4, <1>5

LEMMA GotoFacts ==
  ASSUME IteratorsOK, NEW i \in Iterators, NEW place \in {"none", "looking"}, Goto(i, place)
  PROVE  /\ IteratorsOK' /\ OthersSame(i)
         /\ queue' = queue /\ held' = held /\ isEnd' = isEnd /\ loop'[i] = place
<1>1. queue' = queue /\ held' = held /\ isEnd' = isEnd /\ loop'[i] = place /\ loop' \in [Iterators -> Places]
  BY DEF IteratorsOK, Goto, Places
<1>2. \A j \in Iterators : j # i => loop'[j] = loop[j]
  BY DEF IteratorsOK, Goto
<1>3. OthersSame(i)
  BY <1>1, <1>2 DEF OthersSame, SameIterator, SameLoop
<1>4. IteratorsOK'
  BY <1>1, <1>2 DEF IteratorsOK, NoLostWakeup
<1> QED
  BY <1>1, <1>3, <1>4

\* The loop takes an item ...
Takes(i) ==
  /\ queue[i] # <<>> /\ held'[i] = Head(queue[i]) /\ queue'[i] = Tail(queue[i])
  /\ loop[i] = "looking" /\ loop'[i] = "body" /\ isEnd' = isEnd

\* ... or finds the end, or nothing.
FindsNone(i) ==
  /\ queue[i] = <<>> /\ queue' = queue /\ held' = held /\ isEnd' = isEnd
  /\ loop[i] = "looking" /\ loop'[i] = IF isEnd[i] THEN "left" ELSE "waiting"

LEMMA LookFacts ==
  ASSUME IteratorsOK, NEW i \in Iterators, Look(i)
  PROVE  IteratorsOK' /\ OthersSame(i) /\ (Takes(i) \/ FindsNone(i))
<1>1. CASE queue[i] # <<>>
  <2>1. Head(queue[i]) \in Items /\ Tail(queue[i]) \in Seq(Items)
    BY <1>1, TakeFirst DEF IteratorsOK
  <2>2. /\ queue' \in [Iterators -> Seq(Items)] /\ loop' \in [Iterators -> Places] /\ held' \in [Iterators -> Items]
        /\ Takes(i)
    <3>1. /\ loop[i] = "looking" /\ loop' = [loop EXCEPT ![i] = "body"] /\ isEnd' = isEnd
          /\ held' = [held EXCEPT ![i] = Head(queue[i])] /\ queue' = [queue EXCEPT ![i] = Tail(@)]
      BY <1>1 DEF Look
    <3>2. /\ queue' \in [Iterators -> Seq(Items)] /\ held' \in [Iterators -> Items]
          /\ held'[i] = Head(queue[i]) /\ queue'[i] = Tail(queue[i])
      BY <2>1, <3>1 DEF IteratorsOK
    <3>3. loop' \in [Iterators -> Places] /\ loop'[i] = "body"
      BY <3>1 DEF IteratorsOK, Places
    <3> QED
      BY <1>1, <3>1, <3>2, <3>3 DEF Takes
  <2>3. \A j \in Iterators : j # i => queue'[j] = queue[j] /\ held'[j] = held[j] /\ loop'[j] = loop[j]
    BY <1>1 DEF IteratorsOK, Look
  <2>4. OthersSame(i)
    BY <2>2, <2>3 DEF OthersSame, SameIterator, SameLoop, Takes
  <2>5. IteratorsOK'
    BY <2>2, <2>3 DEF IteratorsOK, NoLostWakeup, Takes
  <2> QED
    BY <2>2, <2>4, <2>5
<1>2. CASE queue[i] = <<>>
  <2>1. PICK place \in {"left", "waiting"} :
          Goto(i, place) /\ loop[i] = "looking" /\ place = IF isEnd[i] THEN "left" ELSE "waiting"
    BY <1>2 DEF IteratorsOK, Look
  <2>2. FindsNone(i) /\ loop' \in [Iterators -> Places]
    BY <1>2, <2>1 DEF IteratorsOK, Goto, FindsNone, Places
  <2>3. \A j \in Iterators : j # i => loop'[j] = loop[j]
    BY <2>1 DEF IteratorsOK, Goto
  <2>4. OthersSame(i)
    BY <2>2, <2>3 DEF OthersSame, SameIterator, SameLoop, FindsNone
  <2>5. IteratorsOK'
    BY <2>2, <2>3 DEF IteratorsOK, NoLostWakeup, FindsNone
  <2> QED
    BY <2>2, <2>4, <2>5
<1> QED
  BY <1>1, <1>2

-----------------------------------------------------------------------------
(* Streams a step does not touch *)

SameStream(s) ==
  /\ SameIterator(Writer(s)) /\ SameIterator(Reader(s))
  /\ got'[s] = got[s] /\ wire'[s] = wire[s] /\ ended'[s] = ended[s]
  /\ pushed'[s] = pushed[s] /\ due'[s] = due[s]
  /\ s \in replaced' <=> s \in replaced
  /\ s[1] \in broken' <=> s[1] \in broken

LEMMA SameHands ==
  ASSUME NEW i \in Iterators, SameLoop(i)
  PROVE  InHand(i)' = InHand(i)
BY DEF InHand, SameLoop

LEMMA SameCounts ==
  ASSUME NEW s \in Streams, SameStream(s)
  PROVE  /\ Given(s)' = Given(s) /\ Arrived(s)' = Arrived(s) /\ Sent(s)' = Sent(s) /\ Taken(s)' = Taken(s)
<1>1. InHand(Reader(s))' = InHand(Reader(s)) /\ InHand(Writer(s))' = InHand(Writer(s))
  BY SameHands, Names DEF SameStream, SameIterator, Named
<1> QED
  BY <1>1 DEF SameStream, SameIterator, Given, Arrived, Sent, Taken

LEMMA StreamKept ==
  ASSUME NEW s \in Streams, ItemsOK(s), SameStream(s)
  PROVE  ItemsOK(s)'
<1>1. /\ Given(s)' = Given(s) /\ Arrived(s)' = Arrived(s) /\ Sent(s)' = Sent(s) /\ Taken(s)' = Taken(s)
  BY SameCounts
<1>2. CASE s \in replaced
  <2>1. ReplacedOK(s)'
    BY <1>1, <1>2 DEF ItemsOK, ReplacedOK, SameStream, SameIterator, SameLoop
  <2> QED
    BY <1>2, <2>1 DEF ItemsOK, SameStream
<1>3. CASE s \notin replaced
  <2>1. ReadInOrder(s)' /\ Untouched(s)'
    BY <1>1, <1>3 DEF ItemsOK, StreamOK, ReadInOrder, Untouched, Follows, SameStream, SameIterator, SameLoop
  <2>2. ASSUME s[1] \notin broken'
        PROVE  WrittenInOrder(s)' /\ EndInOrder(s)'
    <3>1. WrittenInOrder(s) /\ EndInOrder(s)
      BY <1>3, <2>2 DEF ItemsOK, StreamOK, SameStream
    <3>2. WrittenInOrder(s)'
      BY <1>1, <3>1 DEF WrittenInOrder, Follows, SameStream, SameIterator, SameLoop
    <3>3. EndInOrder(s)'
      BY <1>1, <3>1 DEF EndInOrder, SameStream, SameIterator, SameLoop
    <3> QED
      BY <3>2, <3>3
  <2> QED
    BY <1>3, <2>1, <2>2 DEF ItemsOK, StreamOK, SameStream
<1> QED
  BY <1>2, <1>3

\* A step at one iterator of a stream leaves the other streams alone.
LEMMA OthersKept ==
  ASSUME NEW s \in Streams, \A t \in Streams : ItemsOK(t),
         NEW i \in {Writer(s), Reader(s)}, OthersSame(i),
         \A t \in Streams : t # s => /\ got'[t] = got[t] /\ wire'[t] = wire[t] /\ ended'[t] = ended[t]
                                     /\ pushed'[t] = pushed[t] /\ due'[t] = due[t],
         UNCHANGED <<replaced, broken>>, ItemsOK(s)'
  PROVE  \A t \in Streams : ItemsOK(t)'
<1> SUFFICES ASSUME NEW t \in Streams, t # s PROVE ItemsOK(t)'
  OBVIOUS
<1>1. Writer(t) # i /\ Reader(t) # i /\ Writer(t) \in Iterators /\ Reader(t) \in Iterators
  BY Names DEF Named
<1>2. SameStream(t)
  BY <1>1 DEF SameStream, OthersSame
<1> QED
  BY <1>2, StreamKept

-----------------------------------------------------------------------------
(* One lemma per action: user code and pumps *)

LEMMA Have == ASSUME IInv PROVE TypeOK /\ IteratorsOK /\ EndsOK /\ (\A s \in Streams : ItemsOK(s)) /\ (\A c \in Calls : CallOK(c))
BY DEF IInv, TypeOK, IteratorsOK, EndsOK

\* The parts of the invariant that only follow the loops.
LEMMA CallsKept ==
  ASSUME IInv, UNCHANGED <<status, job, ended, replaced>>,
         \A t \in Streams : loop[Writer(t)] = "none" => loop'[Writer(t)] = "none"
  PROVE  \A c \in Calls : CallOK(c)'
BY Names, Have DEF CallOK, Made

LEMMA EndsKept ==
  ASSUME IInv, IteratorsOK', broken \subseteq broken', \A t \in Streams : ended[t] => ended'[t],
         \A t \in Streams : isEnd'[Reader(t)] => isEnd[Reader(t)] \/ ended'[t]
  PROVE  EndsOK'
BY Have DEF EndsOK, IteratorsOK

LEMMA UserPushKeeps == ASSUME IInv, NEW s \in Streams, UserPush(s) PROVE IInv'
<1> DEFINE w == Writer(s)
           r == Reader(s)
<1>1. /\ TypeOK /\ IteratorsOK /\ ItemsOK(s) /\ w \in Iterators /\ r \in Iterators /\ w # r
      /\ queue[w] \in Seq(Items) /\ Len(queue[w]) \in Nat
  BY Have, Names, LengthIsNat DEF Named, IteratorsOK
<1>2. /\ pushed[s] + 1 \in Items /\ pushed[s] + 1 \in 0 .. MaxItems /\ pushed' = [pushed EXCEPT ![s] = @ + 1]
      /\ Push(w, pushed[s] + 1) /\ UNCHANGED <<call, net, due, got, replaced>>
  <2>1. pushed[Request(s[1])] \in Nat /\ pushed[Response(s[1])] \in Nat
    BY <1>1, Names, Counts DEF Named
  <2>2. s \in {Request(s[1]), Response(s[1])}
    BY Names DEF Named, Directions
  <2>3. pushed[s] \in Nat /\ pushed[s] < MaxItems
    BY <2>1, <2>2, GrpcAssumption DEF UserPush
  <2> QED
    BY <2>3, GrpcAssumption DEF UserPush, Items
<1>3. /\ IteratorsOK' /\ OthersSame(w) /\ SameLoop(w)
      /\ queue'[w] = Append(queue[w], pushed[s] + 1) /\ isEnd' = isEnd /\ held' = held
  BY <1>1, <1>2, PushFacts
<1>4. SameIterator(r) /\ got'[s] = got[s] /\ wire'[s] = wire[s] /\ ended'[s] = ended[s] /\ due'[s] = due[s] /\ pushed'[s] = pushed[s] + 1
  BY <1>1, <1>2, <1>3 DEF OthersSame, net, TypeOK
<1>5. Given(s)' = Given(s) /\ Arrived(s)' = Arrived(s) /\ Sent(s)' = Sent(s) /\ Taken(s)' = Taken(s)
  <2>1. InHand(w)' = InHand(w) /\ InHand(r)' = InHand(r)
    BY <1>1, <1>3, <1>4, SameHands DEF SameIterator
  <2> QED
    BY <1>4, <2>1 DEF Given, Arrived, Sent, Taken, SameIterator
<1>6. /\ Given(s) \in Nat /\ Arrived(s) \in Nat /\ Sent(s) \in Nat /\ Taken(s) \in Nat /\ pushed[s] \in Nat /\ due[s] \in Nat
  BY <1>1, Counts
<1>7. ItemsOK(s)'
  <2>1. CASE s \in replaced
    <3>1. ReplacedOK(s)'
      BY <1>1, <1>2, <1>3, <1>4, <1>5, <2>1 DEF ItemsOK, ReplacedOK, SameIterator, SameLoop
    <3> QED
      BY <1>2, <2>1, <3>1 DEF ItemsOK
  <2>2. CASE s \notin replaced
    <3>1. ReadInOrder(s)' /\ Untouched(s)'
      BY <1>1, <1>3, <1>4, <1>5, <1>6, <2>2 DEF ItemsOK, StreamOK, ReadInOrder, Untouched, Follows, SameIterator, SameLoop
    <3>2. ASSUME s[1] \notin broken PROVE WrittenInOrder(s)' /\ EndInOrder(s)'
      <4>1. WrittenInOrder(s) /\ EndInOrder(s)
        BY <1>1, <2>2, <3>2 DEF ItemsOK, StreamOK
      <4>2. Follows(queue'[w], Taken(s)) /\ Len(queue'[w]) = Len(queue[w]) + 1
        BY <1>1, <1>2, <1>3, <1>6, <4>1, FollowsAppend DEF WrittenInOrder
      <4>3. WrittenInOrder(s)'
        <5>1. Follows(wire'[s], Arrived(s)') /\ (loop'[w] = "body" => held'[w] = Sent(s)' + 1)
          BY <1>3, <1>4, <1>5, <4>1 DEF WrittenInOrder, SameLoop
        <5>2. Taken(s)' + Len(queue'[w]) = pushed'[s]
          BY <1>1, <1>4, <1>5, <1>6, <4>1, <4>2 DEF WrittenInOrder
        <5> QED
          BY <1>5, <4>2, <5>1, <5>2 DEF WrittenInOrder
      <4>4. EndInOrder(s)'
        BY <1>3, <1>4, <1>5, <1>6, <4>1 DEF EndInOrder, SameIterator, SameLoop
      <4> QED
        BY <4>3, <4>4
    <3> QED
      BY <1>2, <2>2, <3>1, <3>2 DEF ItemsOK, StreamOK, call
  <2> QED
    BY <2>1, <2>2
<1>8. \A t \in Streams : ItemsOK(t)'
  <2>1. \A t \in Streams : t # s => pushed'[t] = pushed[t] /\ UNCHANGED <<got, wire, ended, due, replaced, broken>>
    BY <1>1, <1>2 DEF TypeOK, net, call
  <2> QED
    BY <1>3, <1>7, <2>1, Have, OthersKept
<1>9. TypeOK'
  <2>1. pushed' \in [Streams -> 0 .. MaxItems]
    BY <1>1, <1>2 DEF TypeOK
  <2> QED
    BY <1>1, <1>2, <1>3, <2>1 DEF TypeOK, IteratorsOK, call, net
<1>10. EndsOK'
  BY <1>2, <1>3, EndsKept DEF call, net
<1>11. \A c \in Calls : CallOK(c)'
  <2>1. \A t \in Streams : loop[Writer(t)] = "none" => loop'[Writer(t)] = "none"
    BY <1>3, Names DEF OthersSame, SameIterator, SameLoop, Named
  <2> QED
    BY <1>2, <2>1, CallsKept DEF call, net
<1> QED
  BY <1>3, <1>8, <1>9, <1>10, <1>11 DEF IInv, IteratorsOK

LEMMA Facts ==
  ASSUME IInv, NEW s \in Streams
  PROVE  /\ TypeOK /\ IteratorsOK /\ EndsOK /\ ItemsOK(s)
         /\ Writer(s) \in Iterators /\ Reader(s) \in Iterators /\ Writer(s) # Reader(s)
         /\ Given(s) \in Nat /\ Arrived(s) \in Nat /\ Sent(s) \in Nat /\ Taken(s) \in Nat
         /\ pushed[s] \in Nat /\ due[s] \in Nat
         /\ queue[Writer(s)] \in Seq(Items) /\ Len(queue[Writer(s)]) \in Nat
         /\ queue[Reader(s)] \in Seq(Items) /\ Len(queue[Reader(s)]) \in Nat
         /\ wire[s] \in Seq(Items) /\ Len(wire[s]) \in Nat
         /\ got[s] \in Seq(Items) /\ Len(got[s]) \in Nat
<1>1. Writer(s) \in Iterators /\ Reader(s) \in Iterators /\ Writer(s) # Reader(s)
  BY Names DEF Named
<1>2. /\ queue[Writer(s)] \in Seq(Items) /\ queue[Reader(s)] \in Seq(Items)
      /\ wire[s] \in Seq(Items) /\ got[s] \in Seq(Items)
  BY <1>1, Have DEF TypeOK
<1> QED
  BY <1>1, <1>2, Have, Counts

\* Steps at one iterator that change neither calls nor ends: what is left to show
\* is about the stream itself.
LEMMA StepKeeps ==
  ASSUME IInv, NEW s \in Streams, NEW i \in {Writer(s), Reader(s)}, OthersSame(i), IteratorsOK',
         i = Writer(s) => (loop[i] = "none" => loop'[i] = "none"),
         isEnd'[Reader(s)] => isEnd[Reader(s)] \/ ended[s],
         UNCHANGED <<call, ended, replaced>>, ItemsOK(s)',
         \A t \in Streams : t # s => got'[t] = got[t] /\ wire'[t] = wire[t] /\ pushed'[t] = pushed[t] /\ due'[t] = due[t],
         wire' \in [Streams -> Seq(Items)], got' \in [Streams -> Seq(Items)],
         pushed' \in [Streams -> 0 .. MaxItems], due' \in [Streams -> 0 .. MaxItems]
  PROVE  IInv'
<1>1. \A t \in Streams : ItemsOK(t)'
  BY Have, OthersKept DEF call
<1>2. TypeOK'
  BY Have DEF TypeOK, IteratorsOK, call
<1>3. EndsOK'
  <2>1. \A t \in Streams : t # s => isEnd'[Reader(t)] = isEnd[Reader(t)]
    BY Names DEF OthersSame, SameIterator, Named
  <2> QED
    BY <2>1, EndsKept DEF call
<1>4. \A c \in Calls : CallOK(c)'
  <2>1. ASSUME NEW t \in Streams, loop[Writer(t)] = "none" PROVE loop'[Writer(t)] = "none"
    <3>1. CASE Writer(t) = i
      BY <2>1, <3>1, Names
    <3>2. CASE Writer(t) # i
      BY <2>1, <3>2, Names DEF OthersSame, SameIterator, SameLoop, Named
    <3> QED
      BY <3>1, <3>2
  <2> QED
    BY <2>1, CallsKept DEF call
<1> QED
  BY <1>1, <1>2, <1>3, <1>4 DEF IInv, IteratorsOK

LEMMA UserEndKeeps == ASSUME IInv, NEW s \in Streams, UserEnd(s) PROVE IInv'
<1> DEFINE w == Writer(s)
           r == Reader(s)
<1>1. /\ ~isEnd[w] /\ due' = [due EXCEPT ![s] = pushed[s]] /\ End(w)
      /\ UNCHANGED <<call, net, pushed, got, replaced>>
  BY DEF UserEnd
<1>2. /\ IteratorsOK' /\ OthersSame(w) /\ SameLoop(w) /\ queue' = queue /\ held' = held /\ isEnd'[w] = TRUE
  BY <1>1, Facts, EndFacts
<1>3. /\ SameIterator(r) /\ got'[s] = got[s] /\ wire'[s] = wire[s] /\ ended'[s] = ended[s]
      /\ due'[s] = pushed[s] /\ pushed'[s] = pushed[s]
  BY <1>1, <1>2, Facts DEF OthersSame, net, TypeOK
<1>4. Given(s)' = Given(s) /\ Arrived(s)' = Arrived(s) /\ Sent(s)' = Sent(s) /\ Taken(s)' = Taken(s)
  <2>1. InHand(w)' = InHand(w) /\ InHand(r)' = InHand(r)
    BY <1>2, <1>3, Facts, SameHands DEF SameIterator
  <2> QED
    BY <1>2, <1>3, <2>1 DEF Given, Arrived, Sent, Taken, SameIterator
<1>5. loop[w] # "left"
  BY <1>1, Facts DEF IteratorsOK
<1>6. ItemsOK(s)'
  <2>1. CASE s \in replaced
    <3>1. ReplacedOK(s)'
      BY <1>2, <1>3, <1>4, <2>1, Facts DEF ItemsOK, ReplacedOK, SameIterator, SameLoop
    <3> QED
      BY <1>1, <2>1, <3>1 DEF ItemsOK
  <2>2. CASE s \notin replaced
    <3>1. ReadInOrder(s)' /\ Untouched(s)'
      BY <1>2, <1>3, <1>4, <2>2, Facts DEF ItemsOK, StreamOK, ReadInOrder, Untouched, Follows, SameIterator, SameLoop
    <3>2. ASSUME s[1] \notin broken PROVE WrittenInOrder(s)' /\ EndInOrder(s)'
      <4>1. WrittenInOrder(s) /\ EndInOrder(s)
        BY <2>2, <3>2, Facts DEF ItemsOK, StreamOK
      <4>2. WrittenInOrder(s)'
        BY <1>2, <1>3, <1>4, <4>1 DEF WrittenInOrder, SameIterator, SameLoop, Follows
      <4>3. EndInOrder(s)'
        BY <1>2, <1>3, <1>4, <1>5, <4>1, Facts DEF EndInOrder, SameIterator, SameLoop
      <4> QED
        BY <4>2, <4>3
    <3> QED
      BY <1>1, <2>2, <3>1, <3>2 DEF ItemsOK, StreamOK, call
  <2> QED
    BY <2>1, <2>2
<1>7. due' \in [Streams -> 0 .. MaxItems] /\ \A t \in Streams : t # s => due'[t] = due[t]
  BY <1>1, Facts DEF TypeOK
<1> QED
  BY <1>1, <1>2, <1>3, <1>6, <1>7, Facts, StepKeeps DEF net, TypeOK, SameIterator, SameLoop

LEMMA PumpLookKeeps == ASSUME IInv, NEW s \in Streams, PumpLook(s) PROVE IInv'
<1> DEFINE w == Writer(s)
           r == Reader(s)
<1>1. Look(w) /\ UNCHANGED <<call, net, history>>
  BY DEF PumpLook
<1>2. IteratorsOK' /\ OthersSame(w) /\ (Takes(w) \/ FindsNone(w))
  BY <1>1, Facts, LookFacts
<1>3. /\ SameIterator(r) /\ got'[s] = got[s] /\ wire'[s] = wire[s] /\ ended'[s] = ended[s]
      /\ due'[s] = due[s] /\ pushed'[s] = pushed[s]
  BY <1>1, <1>2, Facts DEF OthersSame, net, history
<1>4. /\ Given(s)' = Given(s) /\ Arrived(s)' = Arrived(s) /\ Sent(s)' = Sent(s)
      /\ Taken(s)' = Taken(s) + IF Takes(w) THEN 1 ELSE 0
  <2>1. InHand(r)' = InHand(r) /\ InHand(w) = 0 /\ InHand(w)' = IF Takes(w) THEN 1 ELSE 0
    <3>1. InHand(r)' = InHand(r)
      BY <1>3, Facts, SameHands DEF SameIterator
    <3>2. CASE Takes(w)
      BY <3>1, <3>2 DEF Takes, InHand
    <3>3. CASE FindsNone(w)
      BY <3>1, <3>3 DEF Takes, FindsNone, InHand
    <3> QED
      BY <1>2, <3>2, <3>3
  <2>2. Given(s)' = Given(s) /\ Arrived(s)' = Arrived(s) /\ Sent(s)' = Sent(s)
    BY <1>3, <2>1 DEF Given, Arrived, Sent, SameIterator
  <2> QED
    BY <2>1, <2>2, Facts DEF Taken
<1>5. loop[w] = "looking" /\ loop'[w] # "none" /\ isEnd' = isEnd /\ s \notin replaced
  BY <1>2, Facts DEF Takes, FindsNone, ItemsOK, ReplacedOK
<1>6. ItemsOK(s)'
  <2>1. ReadInOrder(s)' /\ Untouched(s)'
    BY <1>3, <1>4, <1>5, Facts DEF ItemsOK, StreamOK, ReadInOrder, Untouched, Follows, SameIterator, SameLoop
  <2>2. ASSUME s[1] \notin broken PROVE WrittenInOrder(s)' /\ EndInOrder(s)'
    <3>1. WrittenInOrder(s) /\ EndInOrder(s)
      BY <1>5, <2>2, Facts DEF ItemsOK, StreamOK
    <3>2. Follows(wire'[s], Arrived(s)')
      BY <1>3, <1>4, <3>1 DEF WrittenInOrder
    <3>3. CASE Takes(w)
      <4>1. /\ held'[w] = Taken(s) + 1 /\ Follows(queue'[w], Taken(s) + 1) /\ Len(queue'[w]) = Len(queue[w]) - 1
        BY <3>1, <3>3, Facts, TakeFirst DEF Takes, WrittenInOrder
      <4>2. Taken(s) = Sent(s)
        BY <1>5, Facts DEF Taken, InHand
      <4>3. WrittenInOrder(s)'
        BY <1>3, <1>4, <3>1, <3>2, <3>3, <4>1, <4>2, Facts DEF WrittenInOrder
      <4>4. EndInOrder(s)'
        BY <1>3, <1>4, <1>5, <3>1, <3>3 DEF EndInOrder, SameIterator, SameLoop, Takes
      <4> QED
        BY <4>3, <4>4
    <3>4. CASE FindsNone(w)
      <4>1. queue'[w] = queue[w] /\ Len(queue[w]) = 0 /\ Taken(s)' = Taken(s) /\ loop'[w] # "body" /\ (loop'[w] = "left" => isEnd[w])
        BY <1>4, <3>4, Facts DEF FindsNone, Takes
      <4>2. WrittenInOrder(s)'
        BY <1>3, <1>4, <3>1, <3>2, <4>1 DEF WrittenInOrder
      <4>3. EndInOrder(s)'
        BY <1>3, <1>4, <1>5, <3>1, <4>1, Facts DEF EndInOrder, WrittenInOrder, SameIterator, SameLoop
      <4> QED
        BY <4>2, <4>3
    <3> QED
      BY <1>2, <3>3, <3>4
  <2> QED
    BY <1>1, <1>5, <2>1, <2>2 DEF ItemsOK, StreamOK, call, history
<1> QED
  BY <1>1, <1>2, <1>5, <1>6, Facts, StepKeeps DEF net, history, TypeOK

LEMMA PumpWriteKeeps == ASSUME IInv, NEW s \in Streams, PumpWrite(s) PROVE IInv'
<1> DEFINE w == Writer(s)
           r == Reader(s)
<1>1. /\ loop[w] = "body" /\ Goto(w, "looking") /\ UNCHANGED <<call, ended, history>>
      /\ wire' = IF s[1] \in broken THEN wire ELSE [wire EXCEPT ![s] = Append(@, held[w])]
  BY DEF PumpWrite
<1>2. /\ IteratorsOK' /\ OthersSame(w)
      /\ queue' = queue /\ held' = held /\ isEnd' = isEnd /\ loop'[w] = "looking"
  BY <1>1, Facts, GotoFacts
<1>3. /\ SameIterator(r) /\ got'[s] = got[s] /\ ended'[s] = ended[s]
      /\ due'[s] = due[s] /\ pushed'[s] = pushed[s] /\ UNCHANGED <<broken, replaced>>
  BY <1>1, <1>2, Facts DEF OthersSame, history, call
<1>4. Given(s)' = Given(s) /\ Arrived(s)' = Arrived(s)
  <2>1. InHand(r)' = InHand(r)
    BY <1>3, Facts, SameHands DEF SameIterator
  <2> QED
    BY <1>3, <2>1 DEF Given, Arrived, SameIterator
<1>5. s \notin replaced /\ held[w] \in Items
  BY <1>1, Facts DEF ItemsOK, ReplacedOK, IteratorsOK
<1>6. ReadInOrder(s)' /\ Untouched(s)'
  BY <1>1, <1>2, <1>3, <1>4, <1>5, Facts DEF ItemsOK, StreamOK, ReadInOrder, Untouched, Follows, SameIterator, SameLoop
<1>7. wire' \in [Streams -> Seq(Items)] /\ \A t \in Streams : t # s => wire'[t] = wire[t]
  BY <1>1, <1>5, Facts DEF TypeOK
<1>8. ASSUME s[1] \notin broken PROVE WrittenInOrder(s)' /\ EndInOrder(s)'
  <2>1. WrittenInOrder(s) /\ EndInOrder(s)
    BY <1>5, <1>8, Facts DEF ItemsOK, StreamOK
  <2>2. wire'[s] = Append(wire[s], held[w])
    BY <1>1, <1>8, Facts DEF TypeOK
  <2>3. held[w] = Arrived(s) + Len(wire[s]) + 1
    BY <1>1, <2>1 DEF WrittenInOrder, Sent
  <2>4. Follows(wire'[s], Arrived(s)) /\ Len(wire'[s]) = Len(wire[s]) + 1
    BY <1>5, <2>1, <2>2, <2>3, Facts, FollowsAppend DEF WrittenInOrder
  <2>5. Taken(s)' = Taken(s)
    <3>1. Sent(s)' = Sent(s) + 1
      BY <1>4, <2>4, Facts DEF Sent
    <3> QED
      BY <1>1, <1>2, <3>1, Facts DEF Taken, InHand
  <2>6. WrittenInOrder(s)'
    BY <1>2, <1>3, <1>4, <2>1, <2>4, <2>5 DEF WrittenInOrder
  <2>7. EndInOrder(s)'
    BY <1>1, <1>2, <1>3, <2>1 DEF EndInOrder, SameIterator, SameLoop
  <2> QED
    BY <2>6, <2>7
<1>9. ItemsOK(s)'
  BY <1>3, <1>5, <1>6, <1>8 DEF ItemsOK, StreamOK
<1> QED
  BY <1>1, <1>2, <1>7, <1>9, Facts, StepKeeps DEF history, TypeOK

\* An answer that takes the place of a stream consists of zeros.
Zeros(q) == \A k \in 1 .. Len(q) : q[k] = 0

LEMMA ZerosAppend == ASSUME NEW q \in Seq(Items), Zeros(q) PROVE Zeros(Append(q, 0)) /\ Len(Append(q, 0)) = Len(q) + 1
<1> DEFINE p == Append(q, 0)
<1>1. 0 \in Items
  BY GrpcAssumption DEF Items
<1>2. Len(q) \in Nat /\ Len(p) = Len(q) + 1 /\ \A k \in 1 .. Len(q) + 1 : p[k] = IF k = Len(q) + 1 THEN 0 ELSE q[k]
  BY <1>1
<1>3. \A k \in 1 .. Len(q) + 1 : k = Len(q) + 1 \/ k \in 1 .. Len(q)
  BY <1>2
<1> QED
  BY <1>2, <1>3 DEF Zeros

LEMMA DeliverKeeps == ASSUME IInv, NEW s \in Streams, Deliver(s) PROVE IInv'
<1> DEFINE w == Writer(s)
           r == Reader(s)
           x == Head(wire[s])
<1>1. /\ s[1] \notin broken /\ wire[s] # <<>> /\ wire' = [wire EXCEPT ![s] = Tail(@)] /\ Push(r, x)
      /\ UNCHANGED <<call, ended, history>>
  BY DEF Deliver
<1>2. /\ x \in Items /\ Tail(wire[s]) \in Seq(Items) /\ Len(wire[s]) \in Nat \ {0}
      /\ wire'[s] = Tail(wire[s]) /\ Len(wire'[s]) = Len(wire[s]) - 1
  BY <1>1, Facts, TakeFirst DEF TypeOK
<1> HIDE DEF x
<1>3. /\ IteratorsOK' /\ OthersSame(r) /\ SameLoop(r)
      /\ queue'[r] = Append(queue[r], x) /\ isEnd' = isEnd /\ held' = held
  BY <1>1, <1>2, Facts, PushFacts
<1>4. /\ SameIterator(w) /\ got'[s] = got[s] /\ ended'[s] = ended[s]
      /\ due'[s] = due[s] /\ pushed'[s] = pushed[s] /\ UNCHANGED <<broken, replaced>>
  BY <1>1, <1>3, Facts DEF OthersSame, history, call
<1>5. Given(s)' = Given(s) /\ Arrived(s)' = Arrived(s) + 1 /\ Sent(s)' = Sent(s) /\ Taken(s)' = Taken(s)
  <2>1. InHand(r)' = InHand(r) /\ InHand(w)' = InHand(w)
    BY <1>3, <1>4, Facts, SameHands DEF SameIterator
  <2>2. Given(s)' = Given(s)
    BY <1>4, <2>1 DEF Given
  <2>3. Len(queue'[r]) = Len(queue[r]) + 1
    BY <1>2, <1>3, Facts
  <2>4. Arrived(s)' = Arrived(s) + 1
    BY <2>2, <2>3, Facts DEF Arrived
  <2>5. Sent(s)' = Sent(s)
    BY <1>2, <2>4, Facts DEF Sent
  <2> QED
    BY <2>1, <2>2, <2>4, <2>5 DEF Taken
<1>6. ASSUME s \in replaced PROVE ItemsOK(s)'
  <2>1. ReplacedOK(s) /\ Zeros(queue[r]) /\ Zeros(wire[s])
    BY <1>6, Facts DEF ItemsOK, ReplacedOK, Zeros
  <2>2. x = 0 /\ Zeros(wire'[s])
    BY <1>1, <1>2, <2>1, Facts, TakeFirst DEF Zeros, x
  <2>3. Zeros(queue'[r])
    BY <1>3, <2>1, <2>2, Facts, ZerosAppend
  <2> QED
    BY <1>3, <1>4, <1>5, <1>6, <2>1, <2>2, <2>3 DEF ItemsOK, ReplacedOK, Zeros, SameIterator, SameLoop
<1>7. ASSUME s \notin replaced PROVE ItemsOK(s)'
  <2>1. ReadInOrder(s) /\ Untouched(s) /\ WrittenInOrder(s) /\ EndInOrder(s)
    BY <1>1, <1>7, Facts DEF ItemsOK, StreamOK
  <2>2. x = Arrived(s) + 1 /\ Follows(wire'[s], Arrived(s) + 1)
    BY <1>1, <1>2, <2>1, Facts, TakeFirst DEF WrittenInOrder, x
  <2>3. Follows(queue'[r], Given(s))
    <3>1. x = Given(s) + Len(queue[r]) + 1 /\ Follows(queue[r], Given(s))
      BY <2>1, <2>2, Facts DEF Arrived, ReadInOrder
    <3>2. queue[r] \in Seq(Items) /\ Given(s) \in Nat /\ x \in Items
      BY <1>2, Facts
    <3>3. Follows(Append(queue[r], x), Given(s))
      BY <3>1, <3>2, FollowsAppend
    <3> QED
      BY <1>3, <3>3
  <2>4. Arrived(s) + 1 <= pushed[s]
    <3>1. Sent(s) <= Taken(s) /\ Taken(s) <= pushed[s]
      BY <2>1, Facts, Counts DEF WrittenInOrder, Taken
    <3>2. Arrived(s) + 1 <= Sent(s)
      BY <1>2, Facts DEF Sent
    <3> QED
      BY <3>1, <3>2, Facts
  <2>5. ReadInOrder(s)'
    BY <1>3, <1>4, <1>5, <2>1, <2>3, <2>4 DEF ReadInOrder, SameLoop
  <2>6. Untouched(s)'
    BY <1>2, <1>4, <2>1 DEF Untouched, SameIterator, SameLoop
  <2>7. WrittenInOrder(s)'
    BY <1>4, <1>5, <2>1, <2>2 DEF WrittenInOrder, SameIterator, SameLoop
  <2>8. EndInOrder(s)'
    BY <1>1, <1>3, <1>4, <1>5, <2>1 DEF EndInOrder, SameIterator, SameLoop
  <2> QED
    BY <1>4, <1>7, <2>5, <2>6, <2>7, <2>8 DEF ItemsOK, StreamOK
<1>8. wire' \in [Streams -> Seq(Items)] /\ \A t \in Streams : t # s => wire'[t] = wire[t]
  BY <1>1, <1>2, Facts DEF TypeOK
<1> QED
  BY <1>1, <1>3, <1>4, <1>6, <1>7, <1>8, Facts, StepKeeps DEF history, TypeOK

LEMMA DeliverEndKeeps == ASSUME IInv, NEW s \in Streams, DeliverEnd(s) PROVE IInv'
<1> DEFINE w == Writer(s)
           r == Reader(s)
<1>1. /\ s[1] \notin broken /\ wire[s] = <<>> /\ ended[s] /\ ~isEnd[r] /\ End(r)
      /\ UNCHANGED <<call, net, history>>
  BY DEF DeliverEnd
<1>2. /\ IteratorsOK' /\ OthersSame(r) /\ SameLoop(r) /\ queue' = queue /\ held' = held /\ isEnd'[r] = TRUE
  BY <1>1, Facts, EndFacts
<1>3. /\ SameIterator(w) /\ got'[s] = got[s] /\ wire'[s] = wire[s] /\ ended'[s] = ended[s]
      /\ due'[s] = due[s] /\ pushed'[s] = pushed[s] /\ UNCHANGED <<broken, replaced>>
  BY <1>1, <1>2, Facts DEF OthersSame, net, history, call
<1>4. Given(s)' = Given(s) /\ Arrived(s)' = Arrived(s) /\ Sent(s)' = Sent(s) /\ Taken(s)' = Taken(s)
  <2>1. InHand(w)' = InHand(w) /\ InHand(r)' = InHand(r)
    BY <1>2, <1>3, Facts, SameHands DEF SameIterator
  <2> QED
    BY <1>2, <1>3, <2>1 DEF Given, Arrived, Sent, Taken
<1>5. loop[r] # "left"
  BY <1>1, Facts DEF IteratorsOK
<1>6. ASSUME s \in replaced PROVE ItemsOK(s)'
  <2>1. ReplacedOK(s)'
    BY <1>2, <1>3, <1>4, <1>6, Facts DEF ItemsOK, ReplacedOK, SameIterator, SameLoop
  <2> QED
    BY <1>3, <1>6, <2>1 DEF ItemsOK
<1>7. ASSUME s \notin replaced PROVE ItemsOK(s)'
  <2>1. ReadInOrder(s) /\ Untouched(s) /\ WrittenInOrder(s) /\ EndInOrder(s)
    BY <1>1, <1>7, Facts DEF ItemsOK, StreamOK
  <2>2. ReadInOrder(s)' /\ Untouched(s)'
    BY <1>2, <1>3, <1>4, <2>1 DEF ReadInOrder, Untouched, Follows, SameIterator, SameLoop
  <2>3. WrittenInOrder(s)'
    BY <1>3, <1>4, <2>1 DEF WrittenInOrder, SameIterator, SameLoop, Follows
  <2>4. EndInOrder(s)'
    BY <1>1, <1>2, <1>3, <1>4, <1>5, <2>1 DEF EndInOrder, SameIterator, SameLoop
  <2> QED
    BY <1>3, <1>7, <2>2, <2>3, <2>4 DEF ItemsOK, StreamOK
<1> QED
  BY <1>1, <1>2, <1>6, <1>7, Facts, StepKeeps DEF net, history, TypeOK

LEMMA ReadKeeps == ASSUME IInv, NEW s \in Streams, Read(s) PROVE IInv'
<1> DEFINE w == Writer(s)
           r == Reader(s)
<1>1. loop[r] = "none" /\ Goto(r, "looking") /\ UNCHANGED <<call, net, history>>
  BY DEF Read
<1>2. /\ IteratorsOK' /\ OthersSame(r) /\ queue' = queue /\ held' = held /\ isEnd' = isEnd /\ loop'[r] = "looking"
  BY <1>1, Facts, GotoFacts
<1>3. /\ SameIterator(w) /\ got'[s] = got[s] /\ wire'[s] = wire[s] /\ ended'[s] = ended[s]
      /\ due'[s] = due[s] /\ pushed'[s] = pushed[s] /\ UNCHANGED <<broken, replaced>>
  BY <1>1, <1>2, Facts DEF OthersSame, net, history, call
<1>4. Given(s)' = Given(s) /\ Arrived(s)' = Arrived(s) /\ Sent(s)' = Sent(s) /\ Taken(s)' = Taken(s)
  <2>1. InHand(w)' = InHand(w) /\ InHand(r)' = InHand(r)
    BY <1>1, <1>2, <1>3, Facts, SameHands DEF SameIterator, InHand
  <2> QED
    BY <1>2, <1>3, <2>1 DEF Given, Arrived, Sent, Taken
<1>6. ASSUME s \in replaced PROVE ItemsOK(s)'
  <2>1. ReplacedOK(s)'
    BY <1>1, <1>2, <1>3, <1>4, <1>6, Facts DEF ItemsOK, ReplacedOK, SameIterator, SameLoop
  <2> QED
    BY <1>3, <1>6, <2>1 DEF ItemsOK
<1>7. ASSUME s \notin replaced PROVE ItemsOK(s)'
  <2>1. ReadInOrder(s)' /\ Untouched(s)'
    BY <1>1, <1>2, <1>3, <1>4, <1>7, Facts DEF ItemsOK, StreamOK, ReadInOrder, Untouched, Follows, SameIterator, SameLoop
  <2>2. ASSUME s[1] \notin broken PROVE WrittenInOrder(s)' /\ EndInOrder(s)'
    <3>1. WrittenInOrder(s) /\ EndInOrder(s)
      BY <1>7, <2>2, Facts DEF ItemsOK, StreamOK
    <3>2. WrittenInOrder(s)'
      BY <1>3, <1>4, <3>1 DEF WrittenInOrder, SameIterator, SameLoop, Follows
    <3>3. EndInOrder(s)'
      BY <1>1, <1>2, <1>3, <1>4, <3>1 DEF EndInOrder, SameIterator, SameLoop
    <3> QED
      BY <3>2, <3>3
  <2> QED
    BY <1>3, <1>7, <2>1, <2>2 DEF ItemsOK, StreamOK
<1> QED
  BY <1>1, <1>2, <1>6, <1>7, Facts, StepKeeps DEF net, history, TypeOK

LEMMA ReaderLookKeeps == ASSUME IInv, NEW s \in Streams, ReaderLook(s) PROVE IInv'
<1> DEFINE w == Writer(s)
           r == Reader(s)
<1>1. Look(r) /\ UNCHANGED <<call, net, history>>
  BY DEF ReaderLook
<1>2. IteratorsOK' /\ OthersSame(r) /\ (Takes(r) \/ FindsNone(r))
  BY <1>1, Facts, LookFacts
<1>3. /\ SameIterator(w) /\ got'[s] = got[s] /\ wire'[s] = wire[s] /\ ended'[s] = ended[s]
      /\ due'[s] = due[s] /\ pushed'[s] = pushed[s] /\ UNCHANGED <<broken, replaced>>
  BY <1>1, <1>2, Facts DEF OthersSame, net, history, call
<1>4. loop[r] = "looking" /\ isEnd' = isEnd /\ InHand(r) = 0 /\ InHand(w)' = InHand(w)
  BY <1>2, <1>3, Facts, SameHands DEF Takes, FindsNone, SameIterator, InHand
<1>5. Given(s) = Len(got[s])
  BY <1>4, Facts DEF Given
<1>6. CASE Takes(r)
  <2>1. /\ held'[r] = Head(queue[r]) /\ queue'[r] = Tail(queue[r]) /\ loop'[r] = "body"
        /\ queue[r] # <<>> /\ Len(queue[r]) \in Nat \ {0} /\ Len(queue'[r]) = Len(queue[r]) - 1
    BY <1>6, Facts, TakeFirst DEF Takes
  <2>2. Given(s)' = Given(s) + 1 /\ Arrived(s)' = Arrived(s) /\ Sent(s)' = Sent(s) /\ Taken(s)' = Taken(s)
    <3>1. InHand(r)' = 1
      BY <2>1 DEF InHand
    <3>2. Given(s)' = Given(s) + 1
      BY <1>3, <1>5, <3>1, Facts DEF Given
    <3>3. Arrived(s)' = Arrived(s)
      BY <2>1, <3>2, Facts DEF Arrived
    <3> QED
      BY <1>3, <1>4, <3>2, <3>3 DEF Sent, Taken
  <2>3. ASSUME s \in replaced PROVE ItemsOK(s)'
    <3>1. ReplacedOK(s) /\ Zeros(queue[r])
      BY <2>3, Facts DEF ItemsOK, ReplacedOK, Zeros
    <3>2. held'[r] = 0 /\ Zeros(queue'[r])
      BY <2>1, <3>1, Facts, TakeFirst DEF Zeros
    <3> QED
      BY <1>3, <2>2, <2>3, <3>1, <3>2 DEF ItemsOK, ReplacedOK, Zeros, SameIterator, SameLoop
  <2>4. ASSUME s \notin replaced PROVE ItemsOK(s)'
    <3>1. ReadInOrder(s) /\ Untouched(s)
      BY <2>4, Facts DEF ItemsOK, StreamOK
    <3>2. held'[r] = Given(s) + 1 /\ Follows(queue'[r], Given(s) + 1)
      BY <2>1, <3>1, Facts, TakeFirst DEF ReadInOrder
    <3>3. ReadInOrder(s)' /\ Untouched(s)'
      BY <1>3, <1>5, <2>2, <3>1, <3>2 DEF ReadInOrder, Untouched, SameIterator, SameLoop
    <3>4. ASSUME s[1] \notin broken PROVE WrittenInOrder(s)' /\ EndInOrder(s)'
      <4>1. WrittenInOrder(s) /\ EndInOrder(s)
        BY <2>4, <3>4, Facts DEF ItemsOK, StreamOK
      <4>2. WrittenInOrder(s)'
        BY <1>3, <2>2, <4>1 DEF WrittenInOrder, SameIterator, SameLoop
      <4>3. EndInOrder(s)'
        BY <1>3, <1>4, <2>1, <2>2, <4>1 DEF EndInOrder, SameIterator, SameLoop
      <4> QED
        BY <4>2, <4>3
    <3> QED
      BY <1>3, <2>4, <3>3, <3>4 DEF ItemsOK, StreamOK
  <2> QED
    BY <1>1, <1>2, <1>4, <2>3, <2>4, Facts, StepKeeps DEF net, history, TypeOK
<1>7. CASE FindsNone(r)
  <2>1. /\ queue' = queue /\ queue[r] = <<>> /\ held' = held /\ loop'[r] # "body"
        /\ (loop'[r] = "left" => isEnd[r])
    BY <1>7 DEF FindsNone
  <2>2. Given(s)' = Given(s) /\ Arrived(s)' = Arrived(s) /\ Sent(s)' = Sent(s) /\ Taken(s)' = Taken(s)
    <3>1. InHand(r)' = InHand(r)
      BY <1>4, <2>1 DEF InHand
    <3> QED
      BY <1>3, <1>4, <2>1, <3>1 DEF Given, Arrived, Sent, Taken
  <2>3. ASSUME s \in replaced PROVE ItemsOK(s)'
    BY <1>3, <2>1, <2>2, <2>3, Facts DEF ItemsOK, ReplacedOK, SameIterator, SameLoop
  <2>4. ASSUME s \notin replaced PROVE ItemsOK(s)'
    <3>1. ReadInOrder(s)' /\ Untouched(s)'
      BY <1>3, <2>1, <2>2, <2>4, Facts DEF ItemsOK, StreamOK, ReadInOrder, Untouched, SameIterator, SameLoop
    <3>2. ASSUME s[1] \notin broken PROVE WrittenInOrder(s)' /\ EndInOrder(s)'
      <4>1. WrittenInOrder(s) /\ EndInOrder(s)
        BY <2>4, <3>2, Facts DEF ItemsOK, StreamOK
      <4>2. WrittenInOrder(s)'
        BY <1>3, <2>2, <4>1 DEF WrittenInOrder, SameIterator, SameLoop
      <4>3. EndInOrder(s)'
        BY <1>3, <1>4, <2>1, <2>2, <4>1 DEF EndInOrder, SameIterator, SameLoop
      <4> QED
        BY <4>2, <4>3
    <3> QED
      BY <1>3, <2>4, <3>1, <3>2 DEF ItemsOK, StreamOK
  <2> QED
    BY <1>1, <1>2, <1>4, <2>3, <2>4, Facts, StepKeeps DEF net, history, TypeOK
<1> QED
  BY <1>2, <1>6, <1>7

LEMMA ConsumeKeeps == ASSUME IInv, NEW s \in Streams, Consume(s) PROVE IInv'
<1> DEFINE w == Writer(s)
           r == Reader(s)
<1>1. PICK place \in {"none", "looking"} :
        /\ loop[r] = "body" /\ Goto(r, place) /\ got' = [got EXCEPT ![s] = Append(@, held[r])]
        /\ UNCHANGED <<call, net, pushed, due, replaced>>
  BY DEF Consume
<1>2. IteratorsOK' /\ OthersSame(r) /\ queue' = queue /\ held' = held /\ isEnd' = isEnd /\ loop'[r] = place
  BY <1>1, Facts, GotoFacts
<1>3. /\ SameIterator(w) /\ wire'[s] = wire[s] /\ ended'[s] = ended[s]
      /\ due'[s] = due[s] /\ pushed'[s] = pushed[s] /\ UNCHANGED <<broken, replaced>>
  BY <1>1, <1>2, Facts DEF OthersSame, net, call
<1>4. held[r] \in Items /\ got'[s] = Append(got[s], held[r]) /\ Len(got'[s]) = Len(got[s]) + 1
  BY <1>1, Facts DEF TypeOK
<1>5. Given(s)' = Given(s) /\ Arrived(s)' = Arrived(s) /\ Sent(s)' = Sent(s) /\ Taken(s)' = Taken(s)
  <2>1. InHand(w)' = InHand(w) /\ InHand(r) = 1 /\ InHand(r)' = 0
    BY <1>1, <1>2, <1>3, Facts, SameHands DEF SameIterator, InHand
  <2>2. Given(s)' = Given(s)
    BY <1>4, <2>1, Facts DEF Given
  <2> QED
    BY <1>2, <1>3, <2>1, <2>2 DEF Arrived, Sent, Taken
<1>6. ASSUME s \in replaced PROVE ItemsOK(s)'
  BY <1>2, <1>3, <1>5, <1>6, Facts DEF ItemsOK, ReplacedOK, SameIterator, SameLoop
<1>7. ASSUME s \notin replaced PROVE ItemsOK(s)'
  <2>1. ReadInOrder(s) /\ Untouched(s)
    BY <1>7, Facts DEF ItemsOK, StreamOK
  <2>2. Follows(got'[s], 0)
    <3>1. held[r] = 0 + Len(got[s]) + 1 /\ Follows(got[s], 0)
      BY <1>1, <2>1, Facts DEF ReadInOrder
    <3> QED
      BY <1>4, <3>1, Facts, FollowsAppend
  <2>3. ReadInOrder(s)' /\ Untouched(s)'
    BY <1>2, <1>3, <1>5, <2>1, <2>2 DEF ReadInOrder, Untouched, SameIterator, SameLoop
  <2>4. ASSUME s[1] \notin broken PROVE WrittenInOrder(s)' /\ EndInOrder(s)'
    <3>1. WrittenInOrder(s) /\ EndInOrder(s)
      BY <1>7, <2>4, Facts DEF ItemsOK, StreamOK
    <3>2. WrittenInOrder(s)'
      BY <1>3, <1>5, <3>1 DEF WrittenInOrder, SameIterator, SameLoop
    <3>3. EndInOrder(s)'
      BY <1>2, <1>3, <1>5, <3>1 DEF EndInOrder, SameIterator, SameLoop
    <3> QED
      BY <3>2, <3>3
  <2> QED
    BY <1>3, <1>7, <2>3, <2>4 DEF ItemsOK, StreamOK
<1>8. got' \in [Streams -> Seq(Items)] /\ \A t \in Streams : t # s => got'[t] = got[t]
  BY <1>1, <1>4, Facts DEF TypeOK
<1> QED
  BY <1>1, <1>2, <1>6, <1>7, <1>8, Facts, StepKeeps DEF net, TypeOK

-----------------------------------------------------------------------------
(* One lemma per action: calls and answers *)

\* Steps of calls that touch no stream.
LEMMA CallStepKeeps ==
  ASSUME IInv, TypeOK', UNCHANGED <<iterators, net, history, broken>>,
         \A c \in Calls : ~Made(c)' => ~Made(c),
         \A c \in Calls : job'[c] \in {"none", "running"} => job[c] \in {"none", "running"}
  PROVE  IInv'
<1>1. UNCHANGED <<queue, isEnd, loop, held, wire, ended, pushed, due, got, replaced, broken>>
  BY DEF iterators, net, history
<1>2. \A s \in Streams : SameStream(s)
  BY <1>1 DEF SameStream, SameIterator, SameLoop
<1>3. \A s \in Streams : ItemsOK(s)'
  BY <1>2, StreamKept, Have
<1>4. \A c \in Calls : CallOK(c)'
  BY <1>1, Have DEF CallOK
<1>5. NoLostWakeup' /\ EndsOK'
  BY <1>1, Have DEF IteratorsOK, NoLostWakeup, EndsOK
<1> QED
  BY <1>3, <1>4, <1>5 DEF IInv

LEMMA ServerStepKeeps ==
  ASSUME IInv, NEW c \in Calls,
         Refuse(c) \/ Callback(c) \/ Arrive(c) \/ Throw(c) \/ Answer(c)
  PROVE  IInv'
<1>1. TypeOK /\ UNCHANGED <<iterators, net, history, broken, kind, up, breaks>>
  BY Have DEF Refuse, Callback, Arrive, Throw, Answer
<1>2. UNCHANGED <<queue, isEnd, loop, held, wire, ended, pushed, due, got, replaced>>
  BY <1>1 DEF iterators, net, history
<1>3. CASE Refuse(c)
  <2>1. TypeOK'
    BY <1>1, <1>2, <1>3 DEF TypeOK, Refuse
  <2>2. /\ \A d \in Calls : ~Made(d)' => ~Made(d)
        /\ \A d \in Calls : job'[d] \in {"none", "running"} => job[d] \in {"none", "running"}
    BY <1>1, <1>3 DEF TypeOK, Refuse, Made
  <2> QED
    BY <1>1, <2>1, <2>2, CallStepKeeps
<1>4. CASE Callback(c)
  <2>1. TypeOK'
    BY <1>1, <1>2, <1>4 DEF TypeOK, Callback
  <2>2. /\ \A d \in Calls : ~Made(d)' => ~Made(d)
        /\ \A d \in Calls : job'[d] \in {"none", "running"} => job[d] \in {"none", "running"}
    BY <1>1, <1>4 DEF TypeOK, Callback, Made
  <2> QED
    BY <1>1, <2>1, <2>2, CallStepKeeps
<1>5. CASE Arrive(c) \/ Throw(c)
  <2>1. TypeOK'
    BY <1>1, <1>2, <1>5 DEF TypeOK, Arrive, Throw
  <2>2. /\ \A d \in Calls : ~Made(d)' => ~Made(d)
        /\ \A d \in Calls : job'[d] \in {"none", "running"} => job[d] \in {"none", "running"}
    BY <1>1, <1>5 DEF TypeOK, Arrive, Throw, Made
  <2> QED
    BY <1>1, <2>1, <2>2, CallStepKeeps
<1>6. CASE Answer(c)
  <2>1. TypeOK'
    BY <1>1, <1>2, <1>6 DEF TypeOK, Answer
  <2>2. /\ \A d \in Calls : ~Made(d)' => ~Made(d)
        /\ \A d \in Calls : job'[d] \in {"none", "running"} => job[d] \in {"none", "running"}
    BY <1>1, <1>6 DEF TypeOK, Answer, Made
  <2> QED
    BY <1>1, <2>1, <2>2, CallStepKeeps
<1> QED
  BY <1>3, <1>4, <1>5, <1>6

\* A pump that begins finds its stream as it was made.
LEMMA PumpBegins ==
  ASSUME IInv, NEW s \in Streams, s \notin replaced, loop[Writer(s)] = "none", Goto(Writer(s), "looking"),
         UNCHANGED <<net, history, broken>>
  PROVE  /\ IteratorsOK' /\ EndsOK' /\ \A t \in Streams : ItemsOK(t)'
         /\ \A t \in Streams : t # s => loop'[Writer(t)] = "none" <=> loop[Writer(t)] = "none"
<1> DEFINE w == Writer(s)
           r == Reader(s)
<1>1. /\ IteratorsOK' /\ OthersSame(w) /\ queue' = queue /\ held' = held /\ isEnd' = isEnd /\ loop'[w] = "looking"
  BY Facts, GotoFacts
<1>2. /\ SameIterator(r) /\ UNCHANGED <<got, wire, ended, due, pushed, replaced, broken>>
  BY <1>1, Facts DEF OthersSame, net, history
<1>3. Given(s)' = Given(s) /\ Arrived(s)' = Arrived(s) /\ Sent(s)' = Sent(s) /\ Taken(s)' = Taken(s)
  <2>1. InHand(r)' = InHand(r) /\ InHand(w)' = InHand(w)
    BY <1>1, <1>2, Facts, SameHands DEF SameIterator, InHand
  <2> QED
    BY <1>1, <1>2, <2>1 DEF Given, Arrived, Sent, Taken
<1>4. ItemsOK(s)'
  <2>1. ReadInOrder(s) /\ Untouched(s)
    BY Facts DEF ItemsOK, StreamOK
  <2>2. ReadInOrder(s)' /\ Untouched(s)'
    BY <1>1, <1>2, <1>3, <2>1 DEF ReadInOrder, Untouched, SameIterator, SameLoop
  <2>3. ASSUME s[1] \notin broken PROVE WrittenInOrder(s)' /\ EndInOrder(s)'
    <3>1. WrittenInOrder(s) /\ EndInOrder(s)
      BY <2>3, Facts DEF ItemsOK, StreamOK
    <3>2. WrittenInOrder(s)'
      BY <1>1, <1>2, <1>3, <3>1 DEF WrittenInOrder
    <3>3. EndInOrder(s)'
      BY <1>1, <1>2, <1>3, <3>1 DEF EndInOrder, SameIterator, SameLoop
    <3> QED
      BY <3>2, <3>3
  <2> QED
    BY <1>2, <2>2, <2>3 DEF ItemsOK, StreamOK
<1>5. \A t \in Streams : ItemsOK(t)'
  BY <1>1, <1>2, <1>4, Have, OthersKept
<1>6. EndsOK'
  BY <1>1, <1>2, EndsKept
<1>7. \A t \in Streams : t # s => loop'[Writer(t)] = "none" <=> loop[Writer(t)] = "none"
  BY <1>1, Names DEF OthersSame, SameIterator, SameLoop, Named
<1> QED
  BY <1>1, <1>5, <1>6, <1>7

LEMMA MakeKeeps ==
  ASSUME IInv, NEW c \in Calls, NEW state \in {"waiting", "reading", "emitted"}, Make(c, state)
  PROVE  IInv'
<1> DEFINE s == Request(c)
<1>1. /\ status[c] = "idle" /\ status' = [status EXCEPT ![c] = state]
      /\ UNCHANGED <<kind, up, job, reply, broken, breaks, net, history>>
  BY DEF Make
<1>2. UNCHANGED <<wire, ended, pushed, due, got, replaced>>
  BY <1>1 DEF net, history
<1>3. status' \in [Calls -> {"idle", "refused", "waiting", "reading", "emitted", "data", "error"}]
  BY <1>1, Have DEF TypeOK
<1>4. Made(c)' /\ ~Made(c) /\ \A d \in Calls : d # c => Made(d)' = Made(d)
  BY <1>1, Have DEF Made, TypeOK
<1>5. CASE "request" \in kind[c]
  <2>1. Goto(Writer(s), "looking") /\ loop[Writer(s)] = "none" /\ s \in Streams /\ s[2] = "request"
    BY <1>4, <1>5, Have, Names DEF Make, CallOK
  <2>2. s \notin replaced
    BY <2>1, Have DEF ItemsOK, ReplacedOK
  <2>3. /\ IteratorsOK' /\ EndsOK' /\ \A t \in Streams : ItemsOK(t)'
        /\ \A t \in Streams : t # s => loop'[Writer(t)] = "none" <=> loop[Writer(t)] = "none"
    BY <1>1, <2>1, <2>2, PumpBegins
  <2>4. ASSUME NEW d \in Calls PROVE CallOK(d)'
    <3>1. CASE d = c
      BY <1>1, <1>2, <1>4, <2>3, <3>1, Have, Names DEF CallOK
    <3>2. CASE d # c
      <4>1. Request(d) # s /\ Response(d) # s /\ Request(d) \in Streams /\ Response(d) \in Streams
        BY <3>2, Names
      <4> QED
        BY <1>1, <1>2, <1>4, <2>3, <3>2, <4>1, Have DEF CallOK
    <3> QED
      BY <3>1, <3>2
  <2>5. TypeOK'
    BY <1>1, <1>2, <1>3, <2>3, Have DEF TypeOK, IteratorsOK
  <2> QED
    BY <2>3, <2>4, <2>5 DEF IInv, IteratorsOK
<1>6. CASE "request" \notin kind[c]
  <2>1. UNCHANGED iterators
    BY <1>6 DEF Make
  <2>2. TypeOK'
    BY <1>1, <1>2, <1>3, <2>1, Have DEF TypeOK, iterators
  <2> QED
    BY <1>1, <1>4, <2>1, <2>2, CallStepKeeps
<1> QED
  BY <1>5, <1>6

LEMMA AnswerStreamKeeps == ASSUME IInv, NEW c \in Calls, AnswerStream(c) PROVE IInv'
<1> DEFINE s == Response(c)
<1>1. /\ job[c] = "running" /\ job' = [job EXCEPT ![c] = "sending"] /\ Goto(Writer(s), "looking")
      /\ UNCHANGED <<kind, up, status, reply, broken, breaks, net, history>>
  BY DEF AnswerStream
<1>2. UNCHANGED <<wire, ended, pushed, due, got, replaced>>
  BY <1>1 DEF net, history
<1>3. loop[Writer(s)] = "none" /\ s \notin replaced /\ s \in Streams
  BY <1>1, Have, Names DEF CallOK
<1>4. /\ IteratorsOK' /\ EndsOK' /\ \A t \in Streams : ItemsOK(t)'
      /\ \A t \in Streams : t # s => loop'[Writer(t)] = "none" <=> loop[Writer(t)] = "none"
  BY <1>1, <1>3, PumpBegins
<1>5. job'[c] = "sending" /\ \A d \in Calls : d # c => job'[d] = job[d]
  BY <1>1, Have DEF TypeOK
<1>6. ASSUME NEW d \in Calls PROVE CallOK(d)'
  <2>1. /\ Request(d) # s /\ (d # c => Response(d) # s) /\ Request(d) \in Streams /\ Response(d) \in Streams
        /\ Made(d)' = Made(d)
    BY <1>1, Names DEF Made
  <2> QED
    BY <1>2, <1>4, <1>5, <2>1, Have DEF CallOK
<1>7. TypeOK'
  BY <1>1, <1>2, <1>4, Have DEF TypeOK, IteratorsOK
<1> QED
  BY <1>4, <1>6, <1>7 DEF IInv, IteratorsOK

\* What an answer in place of a stream puts on the wire.
Instead == {<<>>, <<0>>}

LEMMA InsteadIsZeros ==
  ASSUME NEW items \in Instead
  PROVE  items \in Seq(Items) /\ Len(items) \in {0, 1} /\ Zeros(items)
<1>1. 0 \in Items
  BY GrpcAssumption DEF Items
<1>2. CASE items = <<>>
  BY <1>2 DEF Zeros
<1>3. CASE items = <<0>>
  BY <1>1, <1>3 DEF Zeros
<1> QED
  BY <1>2, <1>3 DEF Instead

LEMMA AnswerOtherKeeps == ASSUME IInv, NEW c \in Calls, NEW s \in Streams, s = Response(c), AnswerOther(c) PROVE IInv'
<1> DEFINE w == Writer(s)
           r == Reader(s)
<1>1. PICK items \in {<<>>, <<0>>} :
        /\ job[c] = "running" /\ job' = [job EXCEPT ![c] = "over"]
        /\ wire' = IF c \in broken THEN wire ELSE [wire EXCEPT ![s] = items]
        /\ ended' = [ended EXCEPT ![s] = TRUE] /\ replaced' = replaced \cup {s}
        /\ UNCHANGED <<iterators, kind, up, status, reply, broken, breaks, pushed, due, got>>
  BY DEF AnswerOther
<1>2. /\ s \in Streams /\ s[1] = c /\ s[2] = "response" /\ loop[w] = "none" /\ s \notin replaced
  BY <1>1, Have, Names DEF CallOK
<1>3. /\ items \in Seq(Items) /\ Len(items) \in {0, 1} /\ Zeros(items)
  BY InsteadIsZeros DEF Instead
<1>4. UNCHANGED <<queue, isEnd, loop, held>>
  BY <1>1 DEF iterators
<1>5. Arrived(s) = 0 /\ Len(wire[s]) = 0
  BY <1>2, Have DEF ItemsOK, StreamOK, Untouched
<1>6. Len(queue[r]) = 0 /\ loop[r] # "body"
  <2>1. Given(s) = 0 /\ Len(queue[r]) = 0
    BY <1>2, <1>5, Facts DEF Arrived
  <2>2. Len(got[s]) \in Nat /\ InHand(r) \in {0, 1}
    BY Counts, Have
  <2>3. InHand(r) = 0
    BY <2>1, <2>2 DEF Given
  <2> QED
    BY <2>1, <2>3 DEF InHand
<1>7. Len(wire'[s]) \in {0, 1} /\ Zeros(wire'[s]) /\ wire' \in [Streams -> Seq(Items)]
  <2>1. CASE c \in broken
    BY <1>1, <1>5, <2>1, Have DEF Zeros, TypeOK
  <2>2. CASE c \notin broken
    <3>1. wire'[s] = items
      BY <1>1, <1>2, <2>2, Have DEF TypeOK
    <3> QED
      BY <1>1, <1>3, <2>2, <3>1, Have DEF TypeOK
  <2> QED
    BY <2>1, <2>2
<1>8. Sent(s)' <= 1
  <2>1. Arrived(s)' = 0
    BY <1>1, <1>4, <1>5 DEF Arrived, Given, InHand
  <2>2. Sent(s)' = Arrived(s)' + Len(wire'[s])
    BY DEF Sent
  <2> QED
    BY <1>7, <2>1, <2>2
<1>9. ItemsOK(s)'
  <2>1. ReplacedOK(s)'
    BY <1>2, <1>4, <1>6, <1>7, <1>8 DEF ReplacedOK, Zeros
  <2> QED
    BY <1>1, <2>1 DEF ItemsOK
<1>10. ASSUME NEW t \in Streams PROVE ItemsOK(t)'
  <2>1. CASE t = s
    BY <1>9, <2>1
  <2>2. CASE t # s
    <3>1. SameStream(t)
      BY <1>1, <1>2, <1>4, <2>2, Have DEF SameStream, SameIterator, SameLoop, TypeOK
    <3> QED
      BY <3>1, StreamKept, Have
  <2> QED
    BY <2>1, <2>2
<1>11. ended'[s] = TRUE /\ (\A t \in Streams : t # s => ended'[t] = ended[t]) /\ ended' \in [Streams -> BOOLEAN]
  BY <1>1, <1>2, Have DEF TypeOK
<1>12. ASSUME NEW d \in Calls PROVE CallOK(d)'
  <2>1. /\ Request(d) # s /\ (d # c => Response(d) # s) /\ Request(d) \in Streams /\ Response(d) \in Streams
        /\ Made(d)' = Made(d) /\ job'[c] = "over" /\ (d # c => job'[d] = job[d])
    <3>1. Request(d) # s /\ (d # c => Response(d) # s) /\ Request(d) \in Streams /\ Response(d) \in Streams
      BY <1>2, Names
    <3>2. Made(d)' = Made(d) /\ job'[c] = "over" /\ (d # c => job'[d] = job[d])
      BY <1>1, Have DEF Made, TypeOK
    <3> QED
      BY <3>1, <3>2
  <2> QED
    BY <1>1, <1>4, <1>11, <2>1, Have DEF CallOK
<1>13. NoLostWakeup' /\ EndsOK'
  BY <1>1, <1>4, <1>11, Have DEF IteratorsOK, NoLostWakeup, EndsOK
<1>14. TypeOK'
  BY <1>1, <1>2, <1>4, <1>7, <1>11, Have DEF TypeOK
<1> QED
  BY <1>10, <1>12, <1>13, <1>14 DEF IInv

LEMMA PumpEndKeeps == ASSUME IInv, NEW s \in Streams, PumpEnd(s) PROVE IInv'
<1>1. /\ loop[Writer(s)] = "left" /\ ~ended[s] /\ ended' = [ended EXCEPT ![s] = TRUE]
      /\ job' = IF s[2] = "response" THEN [job EXCEPT ![s[1]] = "over"] ELSE job
      /\ UNCHANGED <<iterators, kind, up, status, reply, broken, breaks, wire, history>>
  BY DEF PumpEnd
<1>2. UNCHANGED <<queue, isEnd, loop, held, pushed, due, got, replaced, wire>>
  BY <1>1 DEF iterators, history
<1>3. ended'[s] = TRUE /\ (\A t \in Streams : t # s => ended'[t] = ended[t]) /\ ended' \in [Streams -> BOOLEAN]
  BY <1>1, Have DEF TypeOK
<1>4. s \notin replaced
  BY <1>1, Facts DEF ItemsOK, ReplacedOK
<1>5. ItemsOK(s)'
  <2>1. Given(s)' = Given(s) /\ Arrived(s)' = Arrived(s) /\ Sent(s)' = Sent(s) /\ Taken(s)' = Taken(s)
    BY <1>1, <1>2 DEF Given, Arrived, Sent, Taken, InHand
  <2>2. ReadInOrder(s)' /\ Untouched(s)'
    BY <1>2, <1>4, <2>1, Facts DEF ItemsOK, StreamOK, ReadInOrder, Untouched
  <2>3. ASSUME s[1] \notin broken PROVE WrittenInOrder(s)' /\ EndInOrder(s)'
    <3>1. WrittenInOrder(s) /\ EndInOrder(s)
      BY <1>4, <2>3, Facts DEF ItemsOK, StreamOK
    <3>2. WrittenInOrder(s)'
      BY <1>2, <2>1, <3>1 DEF WrittenInOrder
    <3>3. EndInOrder(s)'
      BY <1>1, <1>2, <1>3, <2>1, <3>1 DEF EndInOrder
    <3> QED
      BY <3>2, <3>3
  <2> QED
    BY <1>1, <1>2, <1>4, <2>2, <2>3 DEF ItemsOK, StreamOK
<1>6. ASSUME NEW t \in Streams PROVE ItemsOK(t)'
  <2>1. CASE t = s
    BY <1>5, <2>1
  <2>2. CASE t # s
    <3>1. SameStream(t)
      BY <1>1, <1>2, <1>3, <2>2 DEF SameStream, SameIterator, SameLoop
    <3> QED
      BY <3>1, StreamKept, Have
  <2> QED
    BY <2>1, <2>2
<1>7. ASSUME NEW c \in Calls PROVE CallOK(c)'
  <2>1. /\ Request(c) \in Streams /\ Response(c) \in Streams /\ Made(c)' = Made(c)
        /\ (s[2] = "response" /\ s[1] = c => job'[c] = "over")
        /\ (~(s[2] = "response" /\ s[1] = c) => job'[c] = job[c] /\ Response(c) # s)
    <3>1. /\ Request(c) \in Streams /\ Response(c) \in Streams
          /\ Request(c)[2] = "request" /\ Response(c)[1] = c /\ Response(c)[2] = "response"
          /\ s[1] \in Calls
      BY Names DEF Named
    <3>2. Made(c)' = Made(c) /\ job \in [Calls -> {"none", "running", "lost", "sending", "over"}]
      BY <1>1, Have DEF Made, TypeOK
    <3>3. /\ (s[2] = "response" /\ s[1] = c => job'[c] = "over")
          /\ (~(s[2] = "response" /\ s[1] = c) => job'[c] = job[c])
      BY <1>1, <3>1, <3>2
    <3> QED
      BY <3>1, <3>2, <3>3
  <2>2. CallOK(c)
    BY Have
  <2>3. ~Made(c)' => loop'[Writer(Request(c))] = "none"
    BY <1>2, <2>1, <2>2 DEF CallOK
  <2>4. ASSUME job'[c] \in {"none", "running"}
        PROVE  loop'[Writer(Response(c))] = "none" /\ ~ended'[Response(c)] /\ Response(c) \notin replaced'
    <3>1. job[c] \in {"none", "running"} /\ Response(c) # s
      BY <2>1, <2>4
    <3> QED
      BY <1>2, <1>3, <2>1, <2>2, <3>1 DEF CallOK
  <2> QED
    BY <2>3, <2>4 DEF CallOK
<1>8. NoLostWakeup' /\ EndsOK'
  BY <1>1, <1>2, <1>3, Have DEF IteratorsOK, NoLostWakeup, EndsOK
<1>9. TypeOK'
  <2>1. TypeOK /\ UNCHANGED <<kind, up, status, reply, broken, breaks>>
    BY <1>1, Have
  <2>2. job' \in [Calls -> {"none", "running", "lost", "sending", "over"}]
    BY <1>1, <2>1 DEF TypeOK
  <2> QED
    BY <1>2, <1>3, <2>1, <2>2 DEF TypeOK
<1> QED
  BY <1>6, <1>7, <1>8, <1>9 DEF IInv

LEMMA BreakKeeps == ASSUME IInv, NEW c \in Calls, Break(c) PROVE IInv'
<1> DEFINE r == Reader(Request(c))
<1>1. /\ c \notin broken /\ (breaks < MaxBreaks \/ ~up)
      /\ broken' = broken \cup {c} /\ breaks' = IF up THEN breaks + 1 ELSE breaks
      /\ wire' = [t \in Streams |-> IF t[1] = c THEN <<>> ELSE wire[t]]
      /\ up' = (up /\ ~(Pending(c) /\ "response" \in kind[c]))
      /\ status' = IF up /\ status[c] = "waiting" THEN [status EXCEPT ![c] = "error"] ELSE status
      /\ End(r) \/ UNCHANGED iterators
      /\ UNCHANGED <<kind, job, reply, ended, history>>
  BY DEF Break
<1>2. UNCHANGED <<ended, pushed, due, got, replaced>>
  BY <1>1 DEF history
<1>3. /\ IteratorsOK' /\ (\A i \in Iterators : queue'[i] = queue[i] /\ held'[i] = held[i] /\ SameLoop(i))
      /\ \A i \in Iterators : i # r => isEnd'[i] = isEnd[i]
  <2>1. CASE End(r)
    <3>1. r \in Iterators
      BY Names DEF Named
    <3>2. /\ IteratorsOK' /\ OthersSame(r) /\ SameLoop(r) /\ queue' = queue /\ held' = held
      BY <2>1, <3>1, Have, EndFacts
    <3> QED
      BY <3>2 DEF OthersSame, SameIterator
  <2>2. CASE UNCHANGED iterators
    BY <2>2, Have DEF IteratorsOK, NoLostWakeup, iterators, SameLoop
  <2> QED
    BY <1>1, <2>1, <2>2
<1>4. \A t \in Streams : /\ queue'[Reader(t)] = queue[Reader(t)] /\ SameLoop(Reader(t)) /\ held'[Reader(t)] = held[Reader(t)]
                         /\ SameLoop(Writer(t)) /\ SameIterator(Writer(t))
  BY <1>3, Names DEF Named, SameIterator
<1>5. /\ \A t \in Streams : t[1] = c => wire'[t] = <<>>
      /\ \A t \in Streams : t[1] # c => wire'[t] = wire[t]
      /\ wire' \in [Streams -> Seq(Items)]
  BY <1>1, Have DEF TypeOK
<1>6. ASSUME NEW t \in Streams PROVE ItemsOK(t)'
  <2>1. CASE t[1] # c
    <3>1. isEnd'[Reader(t)] = isEnd[Reader(t)]
      BY <1>3, <2>1, Names DEF Named
    <3>2. SameStream(t)
      BY <1>1, <1>2, <1>4, <1>5, <2>1, <3>1 DEF SameStream, SameIterator
    <3> QED
      BY <3>2, StreamKept, Have
  <2>2. CASE t[1] = c
    <3>1. Given(t)' = Given(t) /\ Arrived(t)' = Arrived(t)
      <4>1. InHand(Reader(t))' = InHand(Reader(t))
        BY <1>4, SameHands, Names DEF Named
      <4> QED
        BY <1>2, <1>4, <4>1 DEF Given, Arrived
    <3>2. wire'[t] = <<>> /\ Len(wire'[t]) = 0
      BY <1>5, <2>2
    <3>3. CASE t \in replaced
      <4>1. ReplacedOK(t)
        BY <3>3, Have DEF ItemsOK
      <4>2. Sent(t)' <= 1
        <5>1. Sent(t)' = Arrived(t)' + Len(wire'[t])
          BY DEF Sent
        <5>2. Arrived(t) <= Sent(t)
          BY Facts DEF Sent
        <5> QED
          BY <3>1, <3>2, <4>1, <5>1, <5>2, Facts DEF ReplacedOK
      <4>3. ReplacedOK(t)'
        BY <1>4, <3>2, <4>1, <4>2 DEF ReplacedOK, SameLoop
      <4> QED
        BY <1>2, <3>3, <4>3 DEF ItemsOK
    <3>4. CASE t \notin replaced
      <4>1. ReadInOrder(t) /\ Untouched(t)
        BY <3>4, Have DEF ItemsOK, StreamOK
      <4>2. ReadInOrder(t)' /\ Untouched(t)'
        BY <1>2, <1>4, <3>1, <3>2, <4>1 DEF ReadInOrder, Untouched, SameLoop
      <4> QED
        BY <1>1, <1>2, <2>2, <3>4, <4>2 DEF ItemsOK, StreamOK
    <3> QED
      BY <3>3, <3>4
  <2> QED
    BY <2>1, <2>2
<1>7. ASSUME NEW d \in Calls PROVE CallOK(d)'
  <2>1. ~Made(d)' => ~Made(d)
    BY <1>1, Have DEF Made, TypeOK
  <2>2. SameLoop(Writer(Request(d))) /\ SameLoop(Writer(Response(d)))
    BY <1>4, Names
  <2> QED
    BY <1>1, <1>2, <2>1, <2>2, Have DEF CallOK, SameLoop
<1>8. EndsOK'
  <2>1. ASSUME NEW t \in Streams, isEnd'[Reader(t)] PROVE ended'[t] \/ (t[2] = "request" /\ t[1] \in broken')
    <3>1. CASE t = Request(c)
      BY <1>1, <3>1, Names
    <3>2. CASE t # Request(c)
      <4>1. isEnd'[Reader(t)] = isEnd[Reader(t)]
        BY <1>3, <3>2, Names DEF Named
      <4> QED
        BY <1>1, <2>1, <4>1, Have DEF EndsOK
    <3> QED
      BY <3>1, <3>2
  <2> QED
    BY <1>3, <2>1 DEF EndsOK, IteratorsOK
<1>9. TypeOK'
  <2>1. breaks' \in 0 .. MaxBreaks /\ up' \in BOOLEAN /\ broken' \subseteq Calls
    BY <1>1, Have, GrpcAssumption DEF TypeOK
  <2>2. status' \in [Calls -> {"idle", "refused", "waiting", "reading", "emitted", "data", "error"}]
    BY <1>1, Have DEF TypeOK
  <2> QED
    BY <1>1, <1>2, <1>3, <1>5, <2>1, <2>2, Have DEF TypeOK, IteratorsOK
<1> QED
  BY <1>3, <1>6, <1>7, <1>8, <1>9 DEF IInv, IteratorsOK

-----------------------------------------------------------------------------
(* The invariant *)

LEMMA InitHolds == Init => IInv
<1> SUFFICES ASSUME Init PROVE IInv
  OBVIOUS
<1> DEFINE none == <<>>
<1>1. none \in Seq(Items) /\ Len(none) = 0 /\ 0 \in Items /\ 0 \in 0 .. MaxItems /\ 0 \in 0 .. MaxBreaks
  BY GrpcAssumption DEF Items
<1>2. \A n : Follows(none, n)
  BY FollowsEmpty
<1>3. /\ \A i \in Iterators : queue[i] = none /\ ~isEnd[i] /\ loop[i] = "none" /\ held[i] = 0
      /\ \A s \in Streams : wire[s] = none /\ got[s] = none /\ ~ended[s] /\ pushed[s] = 0 /\ due[s] = 0
      /\ \A c \in Calls : status[c] = "idle" /\ job[c] = "none"
      /\ replaced = {} /\ broken = {}
  BY DEF Init
<1>4. TypeOK
  <2> HIDE DEF none
  <2> SUFFICES ASSUME queue = [i \in Iterators |-> none], got = [s \in Streams |-> none], wire = [s \in Streams |-> none]
               PROVE  TypeOK
    BY DEF Init, none
  <2> QED
    BY <1>1 DEF Init, TypeOK, Places
<1> HIDE DEF none
<1>5. NoLostWakeup /\ EndsOK
  BY <1>3, Names DEF NoLostWakeup, EndsOK, Named
<1>6. ASSUME NEW s \in Streams PROVE ItemsOK(s)
  <2>1. /\ InHand(Reader(s)) = 0 /\ InHand(Writer(s)) = 0 /\ queue[Reader(s)] = none /\ queue[Writer(s)] = none
        /\ loop[Reader(s)] = "none" /\ loop[Writer(s)] = "none" /\ ~isEnd[Reader(s)]
    BY <1>3, Names DEF InHand, Named
  <2>2. Given(s) = 0 /\ Arrived(s) = 0 /\ Sent(s) = 0 /\ Taken(s) = 0
    <3>1. Len(got[s]) = 0 /\ Len(queue[Reader(s)]) = 0 /\ Len(wire[s]) = 0
      BY <1>1, <1>3, <2>1
    <3>2. Given(s) = 0
      BY <2>1, <3>1 DEF Given
    <3>3. Arrived(s) = 0
      BY <3>1, <3>2 DEF Arrived
    <3>4. Sent(s) = 0
      BY <3>1, <3>3 DEF Sent
    <3> QED
      BY <2>1, <3>2, <3>3, <3>4 DEF Taken
  <2>3. ReadInOrder(s) /\ Untouched(s)
    BY <1>1, <1>2, <1>3, <2>1, <2>2 DEF ReadInOrder, Untouched
  <2>4. WrittenInOrder(s) /\ EndInOrder(s)
    BY <1>1, <1>2, <1>3, <2>1, <2>2 DEF WrittenInOrder, EndInOrder
  <2> QED
    BY <1>3, <2>3, <2>4 DEF ItemsOK, StreamOK
<1>7. \A c \in Calls : CallOK(c)
  BY <1>3, Names DEF CallOK, Named
<1> QED
  BY <1>4, <1>5, <1>6, <1>7 DEF IInv

LEMMA CallSteps ==
  ASSUME IInv, NEW c \in Calls,
         \/ Refuse(c) \/ Send(c) \/ Emit(c) \/ Callback(c) \/ Arrive(c) \/ Throw(c)
         \/ Answer(c) \/ AnswerStream(c) \/ AnswerOther(c) \/ Break(c)
  PROVE  IInv'
<1>1. CASE Refuse(c) \/ Callback(c) \/ Arrive(c) \/ Throw(c) \/ Answer(c)
  BY <1>1, ServerStepKeeps
<1>2. CASE Send(c) \/ Emit(c)
  <2>1. \E state \in {"waiting", "reading", "emitted"} : Make(c, state)
    BY <1>2 DEF Send, Emit
  <2> QED
    BY <2>1, MakeKeeps
<1>3. CASE AnswerStream(c)
  BY <1>3, AnswerStreamKeeps
<1>4. CASE AnswerOther(c)
  BY <1>4, AnswerOtherKeeps, Names
<1>5. CASE Break(c)
  BY <1>5, BreakKeeps
<1> QED
  BY <1>1, <1>2, <1>3, <1>4, <1>5

LEMMA StreamSteps ==
  ASSUME IInv, NEW s \in Streams,
         UserPush(s) \/ UserEnd(s) \/ Read(s) \/ Pump(s) \/ Transport(s) \/ Loop(s)
  PROVE  IInv'
<1>1. CASE UserPush(s)
  BY <1>1, UserPushKeeps
<1>2. CASE UserEnd(s)
  BY <1>2, UserEndKeeps
<1>3. CASE Read(s)
  BY <1>3, ReadKeeps
<1>4. CASE Pump(s)
  BY <1>4, PumpLookKeeps, PumpWriteKeeps, PumpEndKeeps DEF Pump
<1>5. CASE Transport(s)
  BY <1>5, DeliverKeeps, DeliverEndKeeps DEF Transport
<1>6. CASE Loop(s)
  BY <1>6, ReaderLookKeeps, ConsumeKeeps DEF Loop
<1> QED
  BY <1>1, <1>2, <1>3, <1>4, <1>5, <1>6

LEMMA StepInv == IInv /\ [Next]_vars => IInv'
<1> SUFFICES ASSUME IInv, [Next]_vars PROVE IInv'
  OBVIOUS
<1>1. CASE Next
  BY <1>1, CallSteps, StreamSteps DEF Next
<1>2. CASE UNCHANGED vars
  <2>1. UNCHANGED <<iterators, call, net, history>>
    BY <1>2 DEF vars
  <2>2. TypeOK'
    BY <2>1, Have DEF TypeOK, iterators, call, net, history
  <2>3. /\ \A c \in Calls : ~Made(c)' => ~Made(c)
        /\ \A c \in Calls : job'[c] \in {"none", "running"} => job[c] \in {"none", "running"}
    BY <2>1 DEF Made, call
  <2> QED
    BY <2>1, <2>2, <2>3, CallStepKeeps DEF call
<1> QED
  BY <1>1, <1>2

LEMMA InvHolds == Spec => []IInv
BY InitHolds, StepInv, PTL DEF Spec

\* The shape of the state.
THEOREM TypeCorrect == Spec => []TypeOK
<1>1. IInv => TypeOK
  BY DEF IInv
<1> QED
  BY <1>1, InvHolds, PTL

\* No loop of a ReadIterator or a WriteIterator sleeps beside an item or an end:
\* whatever is pushed or ended behind its back wakes it.
THEOREM NoWakeupLost == Spec => []NoLostWakeup
<1>1. IInv => NoLostWakeup
  BY DEF IInv
<1> QED
  BY <1>1, InvHolds, PTL

LEMMA EndIsAll == ASSUME IInv PROVE EndMeansAll
<1> SUFFICES ASSUME NEW s \in Streams \ replaced, loop[Reader(s)] = "left", s[1] \notin broken
             PROVE  isEnd[Writer(s)] /\ Len(got[s]) >= due[s]
  BY DEF EndMeansAll
<1>1. ReadInOrder(s) /\ WrittenInOrder(s) /\ EndInOrder(s)
  BY Have DEF ItemsOK, StreamOK
<1>2. /\ isEnd[Reader(s)] /\ Len(queue[Reader(s)]) = 0 /\ Len(wire[s]) = 0 /\ loop[Writer(s)] = "left"
      /\ isEnd[Writer(s)] /\ Taken(s) >= due[s]
  BY <1>1 DEF EndInOrder
<1>3. InHand(Reader(s)) = 0 /\ InHand(Writer(s)) = 0
  BY <1>2 DEF InHand
<1>4. Taken(s) = Len(got[s])
  <2>1. Len(got[s]) \in Nat
    BY Facts
  <2> QED
    BY <1>2, <1>3, <2>1 DEF Taken, Sent, Arrived, Given
<1> QED
  BY <1>2, <1>4

\* A reader that was told the end of an unbroken stream has read every item that
\* was pushed before the end.
THEOREM EndIsBehindAll == Spec => []EndMeansAll
<1>1. IInv => EndMeansAll
  BY EndIsAll
<1> QED
  BY <1>1, InvHolds, PTL

-----------------------------------------------------------------------------
(* The streams keep their promise *)

\* Steps neither end of a stream sees.
LEMMA Unseen ==
  ASSUME UNCHANGED <<pushed, due, got, replaced, broken>>,
         \A s \in Streams : isEnd'[Writer(s)] = isEnd[Writer(s)],
         \A s \in Streams : loop'[Reader(s)] = "left" <=> loop[Reader(s)] = "left"
  PROVE  UNCHANGED Promise!vars
BY DEF Promise!vars

LEMMA UnseenCalls ==
  ASSUME IInv, NEW c \in Calls,
         \/ Refuse(c) \/ Send(c) \/ Emit(c) \/ Callback(c) \/ Arrive(c) \/ Throw(c)
         \/ Answer(c) \/ AnswerStream(c)
  PROVE  UNCHANGED Promise!vars
<1>1. UNCHANGED <<history, broken>> /\ (UNCHANGED iterators \/ \E s \in Streams : Goto(Writer(s), "looking"))
  BY Names DEF Refuse, Send, Emit, Make, Callback, Arrive, Throw, Answer, AnswerStream
<1>2. CASE UNCHANGED iterators
  BY <1>1, <1>2, Unseen DEF iterators, history
<1>3. ASSUME NEW s \in Streams, Goto(Writer(s), "looking") PROVE UNCHANGED Promise!vars
  <2>1. isEnd' = isEnd /\ OthersSame(Writer(s))
    BY <1>3, Facts, GotoFacts
  <2>2. \A t \in Streams : loop'[Reader(t)] = "left" <=> loop[Reader(t)] = "left"
    BY <2>1, Names DEF OthersSame, SameIterator, SameLoop, Named
  <2> QED
    BY <1>1, <2>1, <2>2, Unseen DEF history
<1> QED
  BY <1>1, <1>2, <1>3

LEMMA UnseenPump == ASSUME IInv, NEW s \in Streams, Pump(s) PROVE UNCHANGED Promise!vars
<1>1. UNCHANGED <<history, broken>> /\ (UNCHANGED iterators \/ Goto(Writer(s), "looking") \/ Look(Writer(s)))
  BY DEF Pump, PumpLook, PumpWrite, PumpEnd, call
<1>2. isEnd' = isEnd /\ (loop' = loop \/ OthersSame(Writer(s)))
  <2>1. CASE UNCHANGED iterators
    BY <2>1 DEF iterators
  <2>2. CASE Goto(Writer(s), "looking")
    BY <2>2, Facts, GotoFacts
  <2>3. CASE Look(Writer(s))
    BY <2>3, Facts, LookFacts DEF Takes, FindsNone
  <2> QED
    BY <1>1, <2>1, <2>2, <2>3
<1>3. \A t \in Streams : loop'[Reader(t)] = "left" <=> loop[Reader(t)] = "left"
  BY <1>2, Names DEF OthersSame, SameIterator, SameLoop, Named
<1> QED
  BY <1>1, <1>2, <1>3, Unseen DEF history

LEMMA UnseenTransport == ASSUME IInv, NEW s \in Streams, Transport(s) \/ Read(s) PROVE UNCHANGED Promise!vars
<1> DEFINE r == Reader(s)
<1>1. UNCHANGED <<history, broken>>
  BY DEF Transport, Deliver, DeliverEnd, Read, call
<1>2. OthersSame(r) /\ (loop'[r] = "left" <=> loop[r] = "left")
  <2>1. CASE Deliver(s)
    <3>1. Head(wire[s]) \in Items /\ Push(r, Head(wire[s]))
      BY <2>1, Facts, TakeFirst DEF Deliver
    <3> QED
      BY <3>1, Facts, PushFacts DEF SameLoop
  <2>2. CASE DeliverEnd(s)
    BY <2>2, Facts, EndFacts DEF DeliverEnd, SameLoop
  <2>3. CASE Read(s)
    BY <2>3, Facts, GotoFacts DEF Read
  <2> QED
    BY <2>1, <2>2, <2>3 DEF Transport
<1>3. ASSUME NEW t \in Streams PROVE isEnd'[Writer(t)] = isEnd[Writer(t)]
  BY <1>2, Names DEF OthersSame, SameIterator, Named
<1>4. ASSUME NEW t \in Streams PROVE loop'[Reader(t)] = "left" <=> loop[Reader(t)] = "left"
  BY <1>2, Names DEF OthersSame, SameIterator, SameLoop, Named
<1> QED
  BY <1>1, <1>3, <1>4, Unseen DEF history

LEMMA PushPromised == ASSUME IInv, NEW s \in Streams, UserPush(s) PROVE Promise!Push(s)
<1>1. /\ pushed' = [pushed EXCEPT ![s] = @ + 1] /\ Push(Writer(s), pushed[s] + 1)
      /\ UNCHANGED <<call, net, due, got, replaced>>
  BY DEF UserPush
<1>2. isEnd' = isEnd
  BY <1>1 DEF Push
<1>3. \A t \in Streams : loop'[Reader(t)] = "left" <=> loop[Reader(t)] = "left"
  BY <1>1, Have, Names DEF Push, Woken, IteratorsOK, Named
<1> QED
  BY <1>1, <1>2, <1>3 DEF Promise!Push, call

LEMMA ClosePromised == ASSUME IInv, NEW s \in Streams, UserEnd(s) PROVE Promise!Close(s)
<1>1. /\ ~isEnd[Writer(s)] /\ due' = [due EXCEPT ![s] = pushed[s]] /\ End(Writer(s))
      /\ UNCHANGED <<call, net, pushed, got, replaced>>
  BY DEF UserEnd
<1>2. isEnd'[Writer(s)] = TRUE /\ OthersSame(Writer(s))
  BY <1>1, Facts, EndFacts
<1>3. \A t \in Streams : t # s => isEnd'[Writer(t)] = isEnd[Writer(t)]
  BY <1>2, Names DEF OthersSame, SameIterator, Named
<1>4. \A t \in Streams : loop'[Reader(t)] = "left" <=> loop[Reader(t)] = "left"
  BY <1>2, Names DEF OthersSame, SameIterator, SameLoop, Named
<1> QED
  BY <1>1, <1>2, <1>3, <1>4 DEF Promise!Close, call

LEMMA LookPromised ==
  ASSUME IInv, EndMeansAll', NEW s \in Streams, ReaderLook(s)
  PROVE  Promise!Finish(s) \/ UNCHANGED Promise!vars
<1> DEFINE r == Reader(s)
<1>1. Look(r) /\ UNCHANGED <<call, net, history>>
  BY DEF ReaderLook
<1>2. OthersSame(r) /\ (Takes(r) \/ FindsNone(r))
  BY <1>1, Facts, LookFacts
<1>3. isEnd' = isEnd /\ loop[r] = "looking" /\ UNCHANGED <<pushed, due, got, replaced, broken>>
  BY <1>1, <1>2 DEF Takes, FindsNone, call, history
<1>4. \A t \in Streams : t # s => (loop'[Reader(t)] = "left" <=> loop[Reader(t)] = "left")
  BY <1>2, Names DEF OthersSame, SameIterator, SameLoop, Named
<1>5. CASE loop'[r] = "left"
  <2>1. s \in replaced \/ s[1] \in broken \/ (isEnd[Writer(s)] /\ Len(got[s]) >= due[s])
    BY <1>3, <1>5 DEF EndMeansAll
  <2> QED
    BY <1>3, <1>4, <1>5, <2>1 DEF Promise!Finish
<1>6. CASE loop'[r] # "left"
  BY <1>3, <1>4, <1>6, Unseen
<1> QED
  BY <1>5, <1>6

LEMMA ReceivePromised == ASSUME IInv, NEW s \in Streams, Consume(s) PROVE Promise!Receive(s)
<1> DEFINE r == Reader(s)
<1>1. PICK place \in {"none", "looking"} :
        /\ loop[r] = "body" /\ Goto(r, place) /\ got' = [got EXCEPT ![s] = Append(@, held[r])]
        /\ UNCHANGED <<call, net, pushed, due, replaced>>
  BY DEF Consume
<1>2. isEnd' = isEnd /\ OthersSame(r) /\ loop'[r] = place
  BY <1>1, Facts, GotoFacts
<1>3. \A t \in Streams : loop'[Reader(t)] = "left" <=> loop[Reader(t)] = "left"
  BY <1>1, <1>2, Names DEF OthersSame, SameIterator, SameLoop, Named
<1>4. Given(s) = Len(got[s]) + 1
  BY <1>1 DEF Given, InHand
<1>5. Given(s) <= Arrived(s) /\ Arrived(s) <= Sent(s)
  BY Facts DEF Arrived, Sent
<1>6. CASE s \in replaced
  <2>1. held[r] = 0 /\ Len(got[s]) = 0
    BY <1>1, <1>4, <1>5, <1>6, Facts DEF ItemsOK, ReplacedOK
  <2>2. got[s] = <<>> /\ got' = [got EXCEPT ![s] = <<0>>]
    <3>1. got[s] = <<>>
      BY <2>1, Facts
    <3>2. Append(got[s], 0) = <<0>>
      BY <3>1
    <3> QED
      BY <1>1, <2>1, <3>1, <3>2
  <2> QED
    BY <1>1, <1>2, <1>3, <1>6, <2>2 DEF Promise!Receive, call
<1>7. CASE s \notin replaced
  <2>1. held[r] = Len(got[s]) + 1 /\ Arrived(s) <= pushed[s]
    BY <1>1, <1>7, Facts DEF ItemsOK, StreamOK, ReadInOrder
  <2>2. Len(got[s]) < pushed[s] /\ got' = [got EXCEPT ![s] = Append(@, Len(@) + 1)]
    BY <1>1, <1>4, <1>5, <2>1, Facts DEF TypeOK
  <2> QED
    BY <1>1, <1>2, <1>3, <1>7, <2>2 DEF Promise!Receive, call
<1> QED
  BY <1>6, <1>7

LEMMA ReplacePromised == ASSUME IInv, NEW c \in Calls, AnswerOther(c) PROVE Promise!Replace(Response(c))
<1> DEFINE s == Response(c)
<1>1. /\ job[c] = "running" /\ replaced' = replaced \cup {s}
      /\ UNCHANGED <<iterators, broken, pushed, due, got>>
  BY DEF AnswerOther
<1>2. s \in Streams /\ s[2] = "response" /\ loop[Writer(s)] = "none" /\ ~ended[s] /\ s \notin replaced
  BY <1>1, Have, Names DEF CallOK
<1>3. loop[Reader(s)] # "left"
  BY <1>2, Have, Names DEF EndsOK, Named
<1>4. got[s] = <<>>
  <2>1. Arrived(s) = 0
    BY <1>2, Have DEF ItemsOK, StreamOK, Untouched
  <2>2. Given(s) = 0
    BY <1>2, <2>1, Facts DEF Arrived
  <2>3. Len(got[s]) = 0
    BY <1>2, <2>2, Counts, Have DEF Given
  <2> QED
    BY <1>2, <2>3, Facts
<1> QED
  BY <1>1, <1>3, <1>4 DEF Promise!Replace, iterators

LEMMA CutPromised == ASSUME IInv, NEW c \in Calls, Break(c) PROVE Promise!Cut({s \in Streams : s[1] = c})
<1> DEFINE r == Reader(Request(c))
<1>1. broken' = broken \cup {c} /\ (End(r) \/ UNCHANGED iterators) /\ UNCHANGED history
  BY DEF Break
<1>2. \A t \in Streams : isEnd'[Writer(t)] = isEnd[Writer(t)] /\ (loop'[Reader(t)] = "left" <=> loop[Reader(t)] = "left")
  <2>1. CASE End(r)
    <3>1. OthersSame(r) /\ SameLoop(r)
      BY <2>1, Names, Facts, EndFacts
    <3> QED
      BY <3>1, Names DEF OthersSame, SameIterator, SameLoop, Named
  <2>2. CASE UNCHANGED iterators
    BY <2>2 DEF iterators
  <2> QED
    BY <1>1, <2>1, <2>2
<1> QED
  BY <1>1, <1>2 DEF Promise!Cut, history

\* Streams keep what ItemStreams promises: items arrive once and in order, and
\* the end behind them.
THEOREM PromiseKept == Spec => KeepsPromise
<1>1. Init => Promise!Init
  <2> SUFFICES ASSUME Init PROVE Promise!Init
    OBVIOUS
  <2>1. \A s \in Streams : ~isEnd[Writer(s)] /\ loop[Reader(s)] # "left"
    BY Names DEF Init, Named
  <2>2. /\ pushed = [s \in Streams |-> 0] /\ due = [s \in Streams |-> 0] /\ got = [s \in Streams |-> <<>>]
        /\ broken = {} /\ replaced = {}
    BY DEF Init
  <2> QED
    BY <2>1, <2>2 DEF Promise!Init
<1>2. ASSUME IInv, EndMeansAll', [Next]_vars PROVE [Promise!Next]_Promise!vars
  <2>1. ASSUME NEW c \in Calls,
               \/ Refuse(c) \/ Send(c) \/ Emit(c) \/ Callback(c) \/ Arrive(c) \/ Throw(c)
               \/ Answer(c) \/ AnswerStream(c) \/ AnswerOther(c) \/ Break(c)
        PROVE  Promise!Next \/ UNCHANGED Promise!vars
    <3>1. CASE AnswerOther(c)
      BY <1>2, <3>1, ReplacePromised, Names DEF Promise!Next
    <3>2. CASE Break(c)
      BY <1>2, <3>2, CutPromised DEF Promise!Next
    <3> QED
      BY <1>2, <2>1, <3>1, <3>2, UnseenCalls
  <2>2. ASSUME NEW s \in Streams,
               UserPush(s) \/ UserEnd(s) \/ Read(s) \/ Pump(s) \/ Transport(s) \/ Loop(s)
        PROVE  Promise!Next \/ UNCHANGED Promise!vars
    <3>1. CASE UserPush(s) \/ UserEnd(s)
      BY <1>2, <3>1, PushPromised, ClosePromised DEF Promise!Next
    <3>2. CASE Loop(s)
      BY <1>2, <3>2, LookPromised, ReceivePromised DEF Promise!Next, Loop
    <3>3. CASE Pump(s) \/ Transport(s) \/ Read(s)
      BY <1>2, <3>3, UnseenPump, UnseenTransport
    <3> QED
      BY <2>2, <3>1, <3>2, <3>3
  <2>3. CASE UNCHANGED vars
    BY <2>3, Unseen DEF vars, iterators, call, history
  <2> QED
    BY <1>2, <2>1, <2>2, <2>3 DEF Next
<1> QED
  BY <1>1, <1>2, InvHolds, EndIsBehindAll, PTL DEF Spec, KeepsPromise, Promise!Safety
=============================================================================
