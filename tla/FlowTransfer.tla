---------------------------- MODULE FlowTransfer ----------------------------
(***************************************************************************)
(* What a transport promises of one flow: bytes 1 to size arrive, in any   *)
(* order; the flow is reported delivered once, and only when all of them   *)
(* have arrived, or it is given up.  Acknowledged bytes stay acknowledged. *)
(***************************************************************************)
EXTENDS Integers

CONSTANT Sizes   \* the sizes a flow may have

VARIABLES
  size,
  arrived,   \* the bytes that have arrived (a probe may follow the last one)
  outcome    \* "running", "delivered" or "givenUp"

vars == <<size, arrived, outcome>>

Init == size \in Sizes /\ arrived = {} /\ outcome = "running"

Deliver ==
  /\ arrived' \subseteq 1..(size + 1) /\ arrived \subseteq arrived'
  /\ \/ outcome' = outcome
     \/ outcome = "running" /\ 1..size \subseteq arrived' /\ outcome' = "delivered"
  /\ UNCHANGED size

GiveUp == outcome = "running" /\ outcome' = "givenUp" /\ UNCHANGED <<size, arrived>>

Spec == Init /\ [][Deliver \/ GiveUp]_vars

=============================================================================
