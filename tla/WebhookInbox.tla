---------------------------- MODULE WebhookInbox ----------------------------
(***************************************************************************)
(* What the Stripe webhook endpoint promises about one event, with no       *)
(* requests, claims or retries in sight: an event is worked on by one       *)
(* handler at a time, a failed attempt returns it to the inbox, and an      *)
(* event that was handled is never worked on again.  "dropped" is the one   *)
(* way out without being handled: the handler's process died, or could not  *)
(* withdraw its claim, and the claim keeps every later delivery away.       *)
(***************************************************************************)
CONSTANT Events

VARIABLE stage

Stages == {"unsent", "pending", "working", "handled", "dropped"}

Init == stage = [e \in Events |-> "unsent"]

Move(e, from, to) == /\ stage[e] = from
                     /\ stage' = [stage EXCEPT ![e] = to]

Send(e)   == Move(e, "unsent", "pending")
Start(e)  == Move(e, "pending", "working")
Finish(e) == Move(e, "working", "handled")
Retry(e)  == Move(e, "working", "pending")
Drop(e)   == Move(e, "working", "dropped")

Next == \E e \in Events : Send(e) \/ Start(e) \/ Finish(e) \/ Retry(e) \/ Drop(e)

Spec == Init /\ [][Next]_stage
=============================================================================
