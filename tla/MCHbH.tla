-------------------------------- MODULE MCHbH -------------------------------
(***************************************************************************)
(* Three racks and three rotors.  The first joins rack A to rack B, turns, *)
(* joins it to rack C and turns again: what waits for it in rack A may be  *)
(* pulled by the rack that it was not meant for.  The second always joins  *)
(* B and C, and the third A and C while the first turns.  The racks that   *)
(* no rotor joins reach each other by way of the third rack.               *)
(***************************************************************************)
EXTENDS HbH

CONSTANTS rackA, rackB, rackC, rotor1, rotor2, rotor3, None, f1, f2

MCToR == {rackA, rackB, rackC}
MCPort == {rotor1, rotor2, rotor3}
\* The racks that a rotor joins in a slice: {} while it turns.
Ends(s, o) ==
  CASE o = rotor1 -> IF s = 0 THEN {rackA, rackB} ELSE IF s = 2 THEN {rackA, rackC} ELSE {}
    [] o = rotor2 -> {rackB, rackC}
    [] o = rotor3 -> IF s \in {1, 3} THEN {rackA, rackC} ELSE {}
MCPeer == [s \in 0..3 |-> [t \in MCToR |-> [o \in MCPort |->
  IF t \in Ends(s, o) THEN CHOOSE u \in Ends(s, o) : u # t ELSE None]]]
Joined(s, t, u) == \E o \in MCPort : Ends(s, o) = {t, u}
Direct(s, t, u) == CHOOSE o \in MCPort : Ends(s, o) = {t, u}
MCRoute == [s \in 0..3 |-> [t \in MCToR |-> [u \in MCToR |->
  IF t = u THEN <<>>
  ELSE IF Joined(s, t, u) THEN <<Direct(s, t, u)>>
  ELSE LET v == CHOOSE v \in MCToR : v \notin {t, u}
       IN <<Direct(s, t, v), Direct(s, v, u)>>]]]
MCSrcOf == (f1 :> rackA) @@ (f2 :> rackB)
MCDstOf == (f1 :> rackC) @@ (f2 :> rackC)
MCFlowPackets == (f1 :> 2) @@ (f2 :> 1)

=============================================================================
