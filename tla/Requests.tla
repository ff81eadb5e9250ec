------------------------------ MODULE Requests ------------------------------
(***************************************************************************)
(* What Startup.invoke promises its caller, without middlewares or hooks:  *)
(* a request is taken once and answered once, the errors reported for it   *)
(* are its own and accumulate in order, and the answer is final.           *)
(***************************************************************************)
EXTENDS Naturals, Sequences

CONSTANT Reqs       \* the requests

VARIABLES
  life,             \* [Reqs -> {"idle", "open", "done"}]
  reported          \* [Reqs -> Seq of errors]: ctx.errorStack

vars == <<life, reported>>

Init ==
  /\ life = [r \in Reqs |-> "idle"]
  /\ reported = [r \in Reqs |-> <<>>]

Begin(r) ==
  /\ life[r] = "idle"
  /\ \E l \in {"open", "done"} : life' = [life EXCEPT ![r] = l]
  /\ UNCHANGED reported

\* One more error of r, at the end of its own list only.
Append1(r) ==
  LET new == reported'[r]
  IN /\ new # <<>>
     /\ new = Append(reported[r], new[Len(new)])
     /\ new[Len(new)].by = r
     /\ reported' = [reported EXCEPT ![r] = new]

Report(r) == life[r] = "open" /\ Append1(r) /\ UNCHANGED life

Answer(r) ==
  /\ life[r] = "open"
  /\ life' = [life EXCEPT ![r] = "done"]
  /\ Append1(r) \/ UNCHANGED reported

Next == \E r \in Reqs : Begin(r) \/ Report(r) \/ Answer(r)

\* Every request that begins is answered.
Answered == \A r \in Reqs : life[r] = "open" ~> life[r] = "done"

Safety == Init /\ [][Next]_vars
Spec == Safety /\ Answered
=============================================================================
