-------------------------- MODULE MCNICCreditQueue --------------------------
(***************************************************************************)
(* An instance of NICCreditQueue for TLC: a destination in another rack,   *)
(* whose path is three hops long in two slices and one or two in the       *)
(* third, and a destination in the same rack, with no hop at all.  Slice 1 *)
(* has length 0, as the reconfiguration slice of some topologies has.      *)
(***************************************************************************)
EXTENDS NICCreditQueue, TLC

MCSliceTime == 0 :> 3 @@ 1 :> 0 @@ 2 :> 4
MCPathHops == "far" :> (0 :> <<3>> @@ 1 :> <<3>> @@ 2 :> <<1, 2>>)
MCProbHops == 1 :> "sometimes"
MCCreditKinds == {[tent |-> FALSE, flare |-> TRUE, hops |-> 1]}
MCDataKinds == {[type |-> "XPDATA", size |-> 3]}

=============================================================================
