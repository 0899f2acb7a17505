---------------------------- MODULE PacketLists -----------------------------
(***************************************************************************)
(* The bytes of a list of packets, and the packets of a list that are      *)
(* kept.  Both are recursive functions, and not the fold or SelectSeq of   *)
(* the libraries, because the proofs reason about them.                    *)
(***************************************************************************)
EXTENDS Integers, Sequences

\* The sum of a sequence of numbers.
SumSeq(s) ==
  LET upTo[n \in 0..Len(s)] == IF n = 0 THEN 0 ELSE upTo[n - 1] + s[n]
  IN upTo[Len(s)]

\* The bytes of a sequence of packets, each a record with its size.
SizeSeq(q) == [i \in 1..Len(q) |-> q[i].size]
BytesOf(q) == SumSeq(SizeSeq(q))

\* What is left of s if only the elements of S are kept, in their order.
Kept(s, S) ==
  LET upTo[n \in 0..Len(s)] ==
        IF n = 0 THEN <<>>
        ELSE IF s[n] \in S THEN Append(upTo[n - 1], s[n]) ELSE upTo[n - 1]
  IN upTo[Len(s)]

=============================================================================
