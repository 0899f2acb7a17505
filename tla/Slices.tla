------------------------------- MODULE Slices -------------------------------
(***************************************************************************)
(* The clock of the rotor network (class DynExpTopology).  A cycle is      *)
(* NSuperSlices superslices, each of three slices with their own routing   *)
(* tables: "epsilon", "delta" and "r", of different lengths (0 is legal).  *)
(* Queues and transports look the current slice up to choose paths, to see *)
(* whether a link is up and to tell how long it will be.                   *)
(***************************************************************************)
EXTENDS Integers

CONSTANTS
  SliceTime,    \* _slicetime[0..2]: epsilon, delta and r
  NSuperSlices  \* _nsuperslice

ASSUME SlicesAssumption ==
  /\ SliceTime \in [0..2 -> Nat]
  /\ SliceTime[0] + SliceTime[1] + SliceTime[2] > 0
  /\ NSuperSlices \in Nat \ {0}

NSlices   == 3 * NSuperSlices
SuperTime == SliceTime[0] + SliceTime[1] + SliceTime[2]   \* _slicetime[3]
CycleTime == NSuperSlices * SuperTime

\* The phase within a superslice that began reltime ago.
Phase(reltime) ==
  IF reltime < SliceTime[0] THEN 0
  ELSE IF reltime < SliceTime[0] + SliceTime[1] THEN 1
  ELSE 2

TimeToSuperslice(t) == (t \div SuperTime) % NSuperSlices

TimeToSlice(t) ==
  LET superslice == TimeToSuperslice(t)
      reltime == t - superslice * SuperTime - (t \div CycleTime) * CycleTime
  IN superslice * 3 + Phase(reltime)

=============================================================================
