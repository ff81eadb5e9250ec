--------------------------- MODULE StreamIterator ---------------------------
(***************************************************************************)
(* The iterators of @ipare/micro-common: a queue that events or user code  *)
(* fill and one "for await" loop empties.  The loop finds an item, the end *)
(* or nothing; then it leaves a callback, onData, and waits.               *)
(***************************************************************************)
EXTENDS Naturals, Sequences

VARIABLES
  queue, \* queue
  isEnd, \* isEnd
  loop,  \* where the loop over an iterator stands; onData is set when it waits
  held   \* the item its body was given last

iterators == <<queue, isEnd, loop, held>>

Places == {"none", "looking", "waiting", "body", "left"}

\* Mutant: no callback is called.
WokenNot(i) == loop

\* this.onData && this.onData(): a loop that does not wait any more is not disturbed.
Woken(i) == IF loop[i] = "waiting" THEN [loop EXCEPT ![i] = "looking"] ELSE loop

\* Mutant: a newer item overtakes the older ones.
PushFront(i, item) ==
  /\ queue' = [queue EXCEPT ![i] = <<item>> \o @] /\ loop' = Woken(i)
  /\ UNCHANGED <<isEnd, held>>

Push(i, item) ==
  /\ queue' = [queue EXCEPT ![i] = Append(@, item)] /\ loop' = Woken(i)
  /\ UNCHANGED <<isEnd, held>>

End(i) ==
  /\ isEnd' = [isEnd EXCEPT ![i] = TRUE] /\ loop' = Woken(i)
  /\ UNCHANGED <<queue, held>>

\* The loop goes on: it begins, or its body has ended.
Goto(i, place) == loop' = [loop EXCEPT ![i] = place] /\ UNCHANGED <<queue, isEnd, held>>

\* Mutant: the end is looked for before the queue.
LookForEnd(i) ==
  /\ loop[i] = "looking"
  /\ \/ /\ queue[i] # <<>> /\ ~isEnd[i]
        /\ held' = [held EXCEPT ![i] = Head(queue[i])]
        /\ queue' = [queue EXCEPT ![i] = Tail(@)]
        /\ loop' = [loop EXCEPT ![i] = "body"] /\ UNCHANGED isEnd
     \/ isEnd[i] /\ Goto(i, "left")
     \/ queue[i] = <<>> /\ ~isEnd[i] /\ Goto(i, "waiting")

\* One turn of the generator's while loop.
Look(i) ==
  /\ loop[i] = "looking"
  /\ \/ /\ queue[i] # <<>>
        /\ held' = [held EXCEPT ![i] = Head(queue[i])]
        /\ queue' = [queue EXCEPT ![i] = Tail(@)]
        /\ loop' = [loop EXCEPT ![i] = "body"] /\ UNCHANGED isEnd
     \/ queue[i] = <<>> /\ isEnd[i] /\ Goto(i, "left")
     \/ queue[i] = <<>> /\ ~isEnd[i] /\ Goto(i, "waiting")
=============================================================================
