------------------------------- MODULE Calls -------------------------------
(***************************************************************************)
(* What send() of a microservice client promises, whatever the transport:  *)
(* a call is made once and settled once, data is what the handler of that  *)
(* very call answered, and a call is handled at most once, possibly after  *)
(* its caller gave up.                                                     *)
(***************************************************************************)
EXTENDS Naturals

CONSTANTS
  Sends,    \* the calls
  Untimed   \* those without a timeout

VARIABLES
  status,   \* [Sends -> {"idle", "waiting", "data", "error", "timeout", "notConnected"}]
  handled   \* the calls a handler was started for

vars == <<status, handled>>

Init ==
  /\ status = [s \in Sends |-> "idle"]
  /\ handled = {}

Refuse(s) == status[s] = "idle" /\ status' = [status EXCEPT ![s] = "notConnected"] /\ UNCHANGED handled
Call(s) == status[s] = "idle" /\ status' = [status EXCEPT ![s] = "waiting"] /\ UNCHANGED handled

\* A call that was made reaches a handler.
Handle(s) ==
  /\ status[s] \notin {"idle", "notConnected"} /\ s \notin handled
  /\ handled' = handled \cup {s}
  /\ UNCHANGED status

\* The transport or the server reports an error to anyone, data to the handled.
Settle(s) ==
  /\ status[s] = "waiting"
  /\ \/ s \in handled /\ status' = [status EXCEPT ![s] = "data"]
     \/ status' = [status EXCEPT ![s] = "error"]
     \/ s \notin Untimed /\ status' = [status EXCEPT ![s] = "timeout"]
  /\ UNCHANGED handled

Next == \E s \in Sends : Refuse(s) \/ Call(s) \/ Handle(s) \/ Settle(s)

Safety == Init /\ [][Next]_vars
=============================================================================
