---------------------------- MODULE ItemStreams ----------------------------
(***************************************************************************)
(* What the two ends of a stream may rely on: the items pushed into it     *)
(* arrive once and in order, and a reader that is told the end has them    *)
(* all, unless the call broke or the handler answered with something else  *)
(* than its stream.                                                        *)
(***************************************************************************)
EXTENDS Naturals, Sequences

CONSTANT Streams

VARIABLES
  sent,     \* [Streams -> Nat]: the n-th item pushed is n
  closed,   \* streams whose writer called end()
  due,      \* [Streams -> Nat]: the items pushed before that
  got,      \* [Streams -> Seq(Nat)]: what the reader was given
  finished, \* streams whose reader was told the end
  cut,      \* streams of calls that broke
  replaced  \* streams in whose place the handler answered one value (0) or none

vars == <<sent, closed, due, got, finished, cut, replaced>>

Init ==
  /\ sent = [s \in Streams |-> 0] /\ due = sent /\ got = [s \in Streams |-> <<>>]
  /\ closed = {} /\ finished = {} /\ cut = {} /\ replaced = {}

Push(s) == sent' = [sent EXCEPT ![s] = @ + 1] /\ UNCHANGED <<closed, due, got, finished, cut, replaced>>

Close(s) ==
  /\ s \notin closed
  /\ closed' = closed \cup {s} /\ due' = [due EXCEPT ![s] = sent[s]]
  /\ UNCHANGED <<sent, got, finished, cut, replaced>>

Receive(s) ==
  /\ s \notin finished
  /\ \/ s \notin replaced /\ Len(got[s]) < sent[s] /\ got' = [got EXCEPT ![s] = Append(@, Len(@) + 1)]
     \/ s \in replaced /\ got[s] = <<>> /\ got' = [got EXCEPT ![s] = <<0>>]
  /\ UNCHANGED <<sent, closed, due, finished, cut, replaced>>

Finish(s) ==
  /\ s \in cut \cup replaced \/ (s \in closed /\ Len(got[s]) >= due[s])
  /\ finished' = finished \cup {s}
  /\ UNCHANGED <<sent, closed, due, got, cut, replaced>>

Replace(s) ==
  /\ got[s] = <<>> /\ s \notin finished
  /\ replaced' = replaced \cup {s}
  /\ UNCHANGED <<sent, closed, due, got, finished, cut>>

\* A call that breaks cuts its streams.
Cut(broken) == cut' = cut \cup broken /\ UNCHANGED <<sent, closed, due, got, finished, replaced>>

Next ==
  \/ \E s \in Streams : Push(s) \/ Close(s) \/ Receive(s) \/ Finish(s) \/ Replace(s)
  \/ \E broken \in SUBSET Streams : Cut(broken)

Safety == Init /\ [][Next]_vars
=============================================================================
