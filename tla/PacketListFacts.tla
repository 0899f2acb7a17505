-------------------------- MODULE PacketListFacts ---------------------------
(***************************************************************************)
(* What the operators of PacketLists compute, for every sequence.  They    *)
(* are recursive functions: that such a function exists is shown by        *)
(* induction over the length, and every other fact follows from its        *)
(* equations.  Before them, the facts about numbers that several proofs    *)
(* need: least elements, searches from the front, offsets in whole packets.*)
(***************************************************************************)
EXTENDS PacketLists, Integers, Sequences, FiniteSetsExt, SequenceTheorems,
        WellFoundedInduction, TLAPS

-----------------------------------------------------------------------------
(* Numbers *)

\* Every set of numbers that is not empty has a least element.
LEMMA LeastElement ==
  ASSUME NEW T \in SUBSET Nat, T # {}
  PROVE  \E x \in T : \A y \in T : x <= y
<1>1. PICK x \in T : \A y \in T : ~ (<<y, x>> \in OpToRel(<, Nat))
  BY NatLessThanWellFounded, WFMin
<1>2. \A y \in T : <<y, x>> \in Nat \X Nat  OBVIOUS
<1>3. \A y \in T : ~ (y < x)
  BY <1>1, <1>2 DEF OpToRel
<1>4. QED  BY <1>3

\* A set with 0 that is closed under successor holds every number.
LEMMA AllNumbers ==
  ASSUME NEW S, 0 \in S, \A n \in Nat : n \in S => n + 1 \in S
  PROVE  Nat \subseteq S
<1>1. SUFFICES ASSUME Nat \ S # {}  PROVE FALSE  OBVIOUS
<1>2. PICK x \in Nat \ S : \A y \in Nat \ S : x <= y
  BY <1>1, LeastElement
<1>3. x # 0 /\ x - 1 \in Nat  BY <1>2
<1>4. x - 1 \in S  BY <1>2, <1>3
<1>5. QED  BY <1>2, <1>3, <1>4

\* A search from the front ends behind the good ones or behind the last one.
StopsAt(k, n, Good) ==
  /\ k \in 0..n
  /\ \A i \in 1..k : i \in Good
  /\ k < n => k + 1 \notin Good

\* Every search through n places ends at one of them.
LEMMA SearchEnds ==
  ASSUME NEW n \in Nat, NEW Good
  PROVE  \E k \in 0..n : StopsAt(k, n, Good)
<1> DEFINE Bad == {i \in 1..n : i \notin Good}
<1>1. CASE Bad = {}
  <2>1. n \in 0..n /\ StopsAt(n, n, Good)  BY <1>1 DEF StopsAt
  <2>2. QED  BY <2>1
<1>2. CASE Bad # {}
  <2>1. Bad \in SUBSET Nat  OBVIOUS
  <2>2. PICK x \in Bad : \A y \in Bad : x <= y  BY <1>2, <2>1, LeastElement
  <2>3. x - 1 \in 0..n /\ x \in 1..n /\ x \notin Good  OBVIOUS
  <2>4. ASSUME NEW i \in 1..(x - 1)  PROVE i \in Good
    BY <2>2, <2>3
  <2>5. (x - 1) + 1 = x  BY <2>3
  <2>6. StopsAt(x - 1, n, Good)  BY <2>3, <2>4, <2>5 DEF StopsAt
  <2>7. QED  BY <2>3, <2>6
<1>3. QED  BY <1>1, <1>2

-----------------------------------------------------------------------------
(* Division *)

\* Division with remainder.
LEMMA Division ==
  ASSUME NEW a \in Nat, NEW b \in Nat \ {0}
  PROVE  /\ a \div b \in Nat /\ a % b \in 0..(b - 1)
         /\ a = (a \div b) * b + (a % b)
         /\ (a \div b) * b \in Nat
  OBVIOUS

\* The quotient and the remainder are the only ones.
LEMMA DivisionUnique ==
  ASSUME NEW b \in Nat \ {0}, NEW q \in Nat, NEW r \in 0..(b - 1)
  PROVE  (q * b + r) % b = r /\ (q * b + r) \div b = q
  OBVIOUS

\* Two multiples of b are b apart.
LEMMA MultiplesApart ==
  ASSUME NEW b \in Nat \ {0}, NEW i \in Int, NEW j \in Int, i < j
  PROVE  i * b + b <= j * b
<1>1. (j - i - 1) * b >= 0  OBVIOUS
<1>2. (j - i - 1) * b = j * b - i * b - b  OBVIOUS
<1>3. QED  BY <1>1, <1>2

-----------------------------------------------------------------------------
(* The partial sums *)

PartialSums(s, n, f) ==
  /\ f \in [0..n -> Int] /\ f[0] = 0
  /\ \A i \in 1..n : f[i] = f[i - 1] + s[i]

\* There are partial sums up to every place of a sequence.
LEMMA PartialSumsExist ==
  ASSUME NEW s \in Seq(Int), NEW n \in 0..Len(s)
  PROVE  \E f : PartialSums(s, n, f)
<1> DEFINE Good == {m \in Nat : m <= Len(s) => \E f : PartialSums(s, m, f)}
<1>1. Len(s) \in Nat /\ \A i \in 1..Len(s) : s[i] \in Int  BY LenProperties, ElementOfSeq
<1>2. 0 \in Good
  <2>1. PartialSums(s, 0, [i \in 0..0 |-> 0])  BY DEF PartialSums
  <2>2. QED  BY <2>1
<1>3. ASSUME NEW m \in Nat, m \in Good  PROVE m + 1 \in Good
  <2>1. SUFFICES ASSUME m + 1 <= Len(s)  PROVE \E f : PartialSums(s, m + 1, f)  OBVIOUS
  <2>2. m <= Len(s) /\ m + 1 \in 1..Len(s)  BY <1>1, <2>1
  <2>3. PICK f : PartialSums(s, m, f)  BY <1>3, <2>2
  <2>4. PICK x \in Int : x = f[m] + s[m + 1]
    <3>1. f[m] \in Int /\ s[m + 1] \in Int  BY <1>1, <2>2, <2>3 DEF PartialSums
    <3>2. QED  BY <3>1
  <2>5. PICK g : g = [i \in 0..(m + 1) |-> IF i = m + 1 THEN x ELSE f[i]]  OBVIOUS
  <2>6. g \in [0..(m + 1) -> Int]
    <3>1. ASSUME NEW i \in 0..(m + 1)  PROVE (IF i = m + 1 THEN x ELSE f[i]) \in Int
      <4>1. i # m + 1 => i \in 0..m  OBVIOUS
      <4>2. QED  BY <2>3, <4>1 DEF PartialSums
    <3>2. QED  BY <2>5, <3>1
  <2>7. g[0] = 0  BY <2>3, <2>5 DEF PartialSums
  <2>8. ASSUME NEW i \in 1..(m + 1)  PROVE g[i] = g[i - 1] + s[i]
    <3>1. CASE i = m + 1
      <4>1. g[i] = x /\ g[i - 1] = f[m]  BY <2>5, <3>1
      <4>2. QED  BY <2>4, <3>1, <4>1
    <3>2. CASE i \in 1..m
      <4>1. g[i] = f[i] /\ g[i - 1] = f[i - 1]  BY <2>5, <3>2
      <4>2. QED  BY <2>3, <3>2, <4>1 DEF PartialSums
    <3>3. QED  BY <3>1, <3>2
  <2>9. QED  BY <2>6, <2>7, <2>8 DEF PartialSums
<1>4. Nat \subseteq Good
  <2> HIDE DEF Good
  <2>1. \A m \in Nat : m \in Good => m + 1 \in Good  BY <1>3
  <2>2. QED  BY <1>2, <2>1, AllNumbers
<1>5. n \in Nat /\ n <= Len(s)  BY <1>1
<1>6. n \in Good  BY <1>4, <1>5
<1>7. QED  BY <1>5, <1>6

\* The sum is the last of the partial sums.
LEMMA SumIsPartial ==
  ASSUME NEW s \in Seq(Int)
  PROVE  \E f : PartialSums(s, Len(s), f) /\ SumSeq(s) = f[Len(s)]
<1> DEFINE Equation(f) == f = [n \in 0..Len(s) |-> IF n = 0 THEN 0 ELSE f[n - 1] + s[n]]
           upTo == CHOOSE f : Equation(f)
<1>1. Len(s) \in Nat /\ \A i \in 1..Len(s) : s[i] \in Int  BY LenProperties, ElementOfSeq
<1>2. SumSeq(s) = upTo[Len(s)]  BY DEF SumSeq
<1>3. PICK f : PartialSums(s, Len(s), f)
  <2>1. Len(s) \in 0..Len(s)  BY <1>1
  <2>2. QED  BY <2>1, PartialSumsExist
<1>4. Equation(f)
  <2>1. ASSUME NEW n \in 0..Len(s)
        PROVE  f[n] = IF n = 0 THEN 0 ELSE f[n - 1] + s[n]
    <3>1. n = 0 \/ n \in 1..Len(s)  BY <1>1
    <3>2. QED  BY <1>3, <3>1 DEF PartialSums
  <2>2. f = [n \in 0..Len(s) |-> f[n]]  BY <1>3 DEF PartialSums
  <2>3. QED  BY <2>1, <2>2
<1>5. Equation(upTo)  BY <1>4
<1>6. PartialSums(s, Len(s), upTo)
  <2> HIDE DEF upTo
  <2> DEFINE Good == {m \in Nat : m <= Len(s) => upTo[m] \in Int}
  <2>1. upTo[0] = 0  BY <1>1, <1>5
  <2>2. ASSUME NEW i \in 1..Len(s)  PROVE upTo[i] = upTo[i - 1] + s[i]
    <3>1. i \in 0..Len(s) /\ i # 0  BY <1>1
    <3>2. QED  BY <1>5, <3>1
  <2>3. 0 \in Good  BY <2>1
  <2>4. ASSUME NEW m \in Nat, m \in Good  PROVE m + 1 \in Good
    <3>1. SUFFICES ASSUME m + 1 <= Len(s)  PROVE upTo[m + 1] \in Int  OBVIOUS
    <3>2. m + 1 \in 1..Len(s) /\ m <= Len(s) /\ (m + 1) - 1 = m  BY <1>1, <3>1
    <3>3. upTo[m + 1] = upTo[m] + s[m + 1]  BY <2>2, <3>2
    <3>4. QED  BY <1>1, <2>4, <3>2, <3>3
  <2>5. Nat \subseteq Good
    <3> HIDE DEF Good
    <3>1. \A m \in Nat : m \in Good => m + 1 \in Good  BY <2>4
    <3>2. QED  BY <2>3, <3>1, AllNumbers
  <2>6. ASSUME NEW i \in 0..Len(s)  PROVE upTo[i] \in Int
    <3>1. i \in Nat /\ i <= Len(s)  BY <1>1
    <3>2. i \in Good  BY <2>5, <3>1
    <3>3. QED  BY <3>1, <3>2
  <2>7. upTo = [n \in 0..Len(s) |-> upTo[n]]  BY <1>5
  <2>8. upTo \in [0..Len(s) -> Int]  BY <2>6, <2>7
  <2>9. QED  BY <2>1, <2>2, <2>8 DEF PartialSums
<1>7. QED  BY <1>2, <1>6

SameSteps(f, k, g, n) ==
  /\ \A i \in 0..n : f[i + k] \in Int /\ g[i] \in Int
  /\ \A i \in 1..n : f[i + k] - f[i + k - 1] = g[i] - g[i - 1]

\* Partial sums with the same increments grow by the same.
LEMMA SameIncrements ==
  ASSUME NEW n \in Nat, NEW k \in Nat, NEW f, NEW g, SameSteps(f, k, g, n)
  PROVE  f[n + k] - f[k] = g[n] - g[0]
<1> DEFINE Good == {m \in Nat : m <= n => f[m + k] - f[k] = g[m] - g[0]}
<1> USE DEF SameSteps
<1>1. 0 \in Good
  <2>1. 0 + k = k /\ 0 \in 0..n  OBVIOUS
  <2>2. f[k] \in Int /\ g[0] \in Int  BY <2>1
  <2>3. QED  BY <2>1, <2>2
<1>2. ASSUME NEW m \in Nat, m \in Good  PROVE m + 1 \in Good
  <2>1. SUFFICES ASSUME m + 1 <= n  PROVE f[m + 1 + k] - f[k] = g[m + 1] - g[0]  OBVIOUS
  <2>2. /\ m \in 0..n /\ m + 1 \in 0..n /\ m + 1 \in 1..n /\ 0 \in 0..n /\ 0 + k = k
        /\ m + 1 + k - 1 = m + k /\ (m + 1) - 1 = m
    BY <2>1
  <2>3. f[m + 1 + k] - f[m + k] = g[m + 1] - g[m]  BY <2>2
  <2>4. f[m + k] - f[k] = g[m] - g[0]  BY <1>2, <2>2
  <2>5. /\ f[m + 1 + k] \in Int /\ f[m + k] \in Int /\ f[k] \in Int
        /\ g[m + 1] \in Int /\ g[m] \in Int /\ g[0] \in Int
    BY <2>2
  <2>6. QED  BY ONLY <2>3, <2>4, <2>5
<1>3. Nat \subseteq Good
  <2> HIDE DEF Good
  <2>1. \A m \in Nat : m \in Good => m + 1 \in Good  BY <1>2
  <2>2. QED  BY <1>1, <2>1, AllNumbers
<1>4. n \in Good  BY <1>3
<1>5. QED  BY <1>4

-----------------------------------------------------------------------------
(* Sums of sequences of numbers *)

\* A sum of integers is an integer, and that of nothing is 0.
LEMMA SumTypes ==
  ASSUME NEW s \in Seq(Int)
  PROVE  SumSeq(s) \in Int /\ (s = <<>> => SumSeq(s) = 0)
<1>1. PICK f : PartialSums(s, Len(s), f) /\ SumSeq(s) = f[Len(s)]  BY SumIsPartial
<1>2. Len(s) \in Nat /\ Len(s) \in 0..Len(s)  BY LenProperties
<1>3. s = <<>> => Len(s) = 0  BY EmptySeq
<1>4. QED  BY <1>1, <1>2, <1>3 DEF PartialSums

\* The first number and the sum of the others.
LEMMA SumHead ==
  ASSUME NEW s \in Seq(Int), s # <<>>
  PROVE  /\ Tail(s) \in Seq(Int) /\ Head(s) \in Int
         /\ SumSeq(s) = Head(s) + SumSeq(Tail(s))
<1> DEFINE t == Tail(s)
<1>1. /\ t \in Seq(Int) /\ Head(s) \in Int /\ Head(s) = s[1]
      /\ Len(s) \in Nat \ {0} /\ Len(t) = Len(s) - 1
      /\ \A i \in 1..Len(t) : t[i] = s[i + 1]
  BY HeadTailProperties, LenProperties, ElementOfSeq, EmptySeq
<1> HIDE DEF t
<1>2. PICK f : PartialSums(s, Len(s), f) /\ SumSeq(s) = f[Len(s)]  BY SumIsPartial
<1>3. PICK g : PartialSums(t, Len(t), g) /\ SumSeq(t) = g[Len(t)]  BY <1>1, SumIsPartial
<1>4. Len(t) \in Nat /\ Len(t) + 1 = Len(s)  BY <1>1
<1>5. \A i \in 0..Len(t) : f[i + 1] \in Int /\ g[i] \in Int
  <2>1. \A i \in 0..Len(t) : i + 1 \in 0..Len(s)  BY <1>4
  <2>2. QED  BY <1>2, <1>3, <2>1 DEF PartialSums
<1>6. ASSUME NEW i \in 1..Len(t)  PROVE f[i + 1] - f[i + 1 - 1] = g[i] - g[i - 1]
  <2>1. /\ i + 1 \in 1..Len(s) /\ i + 1 - 1 = i /\ i \in 0..Len(s)
        /\ i \in 0..Len(t) /\ i - 1 \in 0..Len(t)
    BY <1>4
  <2>2. f[i + 1] = f[i] + s[i + 1] /\ g[i] = g[i - 1] + t[i]
    BY <1>2, <1>3, <2>1 DEF PartialSums
  <2>3. t[i] = s[i + 1] /\ s[i + 1] \in Int  BY <1>1, <2>1, ElementOfSeq
  <2>4. f[i] \in Int /\ g[i - 1] \in Int  BY <1>2, <1>3, <2>1 DEF PartialSums
  <2>5. QED  BY ONLY <2>1, <2>2, <2>3, <2>4, SMTT(30)
<1>7. f[Len(t) + 1] - f[1] = g[Len(t)] - g[0]
  <2>1. SameSteps(f, 1, g, Len(t))  BY <1>5, <1>6 DEF SameSteps
  <2>2. QED  BY <1>4, <2>1, SameIncrements
<1>8. f[1] = Head(s) /\ g[0] = 0 /\ f[Len(t) + 1] \in Int /\ g[Len(t)] \in Int
  <2>1. 1 \in 1..Len(s) /\ 1 - 1 = 0 /\ Len(s) \in 0..Len(s) /\ Len(t) \in 0..Len(t)
    BY <1>1, <1>4
  <2>2. f[1] = f[0] + s[1] /\ f[0] = 0  BY <1>2, <2>1 DEF PartialSums
  <2>3. g[0] = 0 /\ g[Len(t)] \in Int  BY <1>3, <2>1 DEF PartialSums
  <2>4. f[Len(t) + 1] \in Int  BY <1>2, <1>4, <2>1 DEF PartialSums
  <2>5. f[1] = Head(s)  BY <1>1, <2>2
  <2>6. QED  BY <2>2, <2>3, <2>4, <2>5
<1>9. SumSeq(s) = Head(s) + SumSeq(t)
  BY ONLY <1>1, <1>2, <1>3, <1>4, <1>7, <1>8
<1>10. QED  BY <1>1, <1>9 DEF t

\* A number behind the others is added to them.
LEMMA SumAppend ==
  ASSUME NEW s \in Seq(Int), NEW x \in Int
  PROVE  Append(s, x) \in Seq(Int) /\ SumSeq(Append(s, x)) = SumSeq(s) + x
<1> DEFINE t == Append(s, x)
<1>1. /\ t \in Seq(Int) /\ Len(s) \in Nat /\ Len(t) = Len(s) + 1
      /\ \A i \in 1..Len(s) : t[i] = s[i] /\ s[i] \in Int
      /\ t[Len(s) + 1] = x
  BY AppendProperties, LenProperties, ElementOfSeq
<1> HIDE DEF t
<1>2. PICK f : PartialSums(t, Len(t), f) /\ SumSeq(t) = f[Len(t)]  BY <1>1, SumIsPartial
<1>3. PICK g : PartialSums(s, Len(s), g) /\ SumSeq(s) = g[Len(s)]  BY SumIsPartial
<1>4. \A i \in 0..Len(s) : f[i + 0] \in Int /\ g[i] \in Int
  <2>1. \A i \in 0..Len(s) : i + 0 \in 0..Len(t)  BY <1>1
  <2>2. QED  BY <1>2, <1>3, <2>1 DEF PartialSums
<1>5. ASSUME NEW i \in 1..Len(s)  PROVE f[i + 0] - f[i + 0 - 1] = g[i] - g[i - 1]
  <2>1. /\ i + 0 = i /\ i \in 1..Len(t) /\ i - 1 \in 0..Len(t) /\ i - 1 \in 0..Len(s)
    BY <1>1
  <2>2. f[i] = f[i - 1] + t[i] /\ g[i] = g[i - 1] + s[i]
    BY <1>2, <1>3, <2>1 DEF PartialSums
  <2>3. t[i] = s[i] /\ s[i] \in Int  BY <1>1
  <2>4. f[i - 1] \in Int /\ g[i - 1] \in Int  BY <1>2, <1>3, <2>1 DEF PartialSums
  <2>5. QED  BY ONLY <2>1, <2>2, <2>3, <2>4
<1>6. f[Len(s) + 0] - f[0] = g[Len(s)] - g[0]
  <2>1. SameSteps(f, 0, g, Len(s))  BY <1>4, <1>5 DEF SameSteps
  <2>2. QED  BY <1>1, <2>1, SameIncrements
<1>7. f[0] = 0 /\ g[0] = 0 /\ Len(s) + 0 = Len(s) /\ f[Len(s)] \in Int /\ g[Len(s)] \in Int
  <2>1. Len(s) \in 0..Len(s) /\ Len(s) \in 0..Len(t) /\ Len(s) + 0 = Len(s)  BY <1>1
  <2>2. QED  BY <1>2, <1>3, <2>1 DEF PartialSums
<1>8. f[Len(t)] = f[Len(s)] + x
  <2>1. Len(t) \in 1..Len(t) /\ Len(t) - 1 = Len(s)  BY <1>1
  <2>2. f[Len(t)] = f[Len(t) - 1] + t[Len(t)]  BY <1>2, <2>1 DEF PartialSums
  <2>3. QED  BY <1>1, <2>1, <2>2
<1>9. SumSeq(t) = SumSeq(s) + x  BY ONLY <1>2, <1>3, <1>6, <1>7, <1>8, x \in Int
<1>10. QED  BY <1>1, <1>9 DEF t

\* A sum of natural numbers is one, and no prefix has a larger sum.
LEMMA SumNat ==
  ASSUME NEW s \in Seq(Nat)
  PROVE  /\ s \in Seq(Int) /\ SumSeq(s) \in Nat
         /\ \A k \in 0..Len(s) : SubSeq(s, 1, k) \in Seq(Nat)
         /\ s # <<>> => Head(s) \in Nat /\ Head(s) <= SumSeq(s)
<1>1. Len(s) \in Nat /\ \A i \in 1..Len(s) : s[i] \in Nat  BY LenProperties, ElementOfSeq
<1>2. ASSUME NEW t \in Seq(Nat)  PROVE t \in Seq(Int) /\ SumSeq(t) \in Nat
  <2>1. Len(t) \in Nat /\ \A i \in 1..Len(t) : t[i] \in Nat  BY LenProperties, ElementOfSeq
  <2>2. t \in Seq(Int)
    <3>1. t = [i \in 1..Len(t) |-> t[i]]  BY LenProperties
    <3>2. t \in [1..Len(t) -> Int]  BY <2>1, <3>1
    <3>3. QED  BY <2>1, <3>2, SeqDef
  <2>3. PICK f : PartialSums(t, Len(t), f) /\ SumSeq(t) = f[Len(t)]  BY <2>2, SumIsPartial
  <2> DEFINE Good == {m \in Nat : m <= Len(t) => f[m] \in Nat}
  <2>4. 0 \in Good  BY <2>3 DEF PartialSums
  <2>5. ASSUME NEW m \in Nat, m \in Good  PROVE m + 1 \in Good
    <3>1. SUFFICES ASSUME m + 1 <= Len(t)  PROVE f[m + 1] \in Nat  OBVIOUS
    <3>2. m + 1 \in 1..Len(t) /\ m <= Len(t) /\ (m + 1) - 1 = m  BY <2>1, <3>1
    <3>3. f[m + 1] = f[m] + t[m + 1]  BY <2>3, <3>2 DEF PartialSums
    <3>4. QED  BY <2>1, <2>5, <3>2, <3>3
  <2>6. Nat \subseteq Good
    <3> HIDE DEF Good
    <3>1. \A m \in Nat : m \in Good => m + 1 \in Good  BY <2>5
    <3>2. QED  BY <2>4, <3>1, AllNumbers
  <2>7. Len(t) \in Good  BY <2>1, <2>6
  <2>8. QED  BY <2>1, <2>2, <2>3, <2>7
<1>3. ASSUME NEW k \in 0..Len(s)  PROVE SubSeq(s, 1, k) \in Seq(Nat)
  <2>1. \A i \in 1..k : s[i] \in Nat  BY <1>1
  <2>2. QED  BY <1>1, <2>1, SubSeqProperties
<1>4. ASSUME s # <<>>  PROVE Head(s) \in Nat /\ Head(s) <= SumSeq(s)
  <2>1. Tail(s) \in Seq(Nat) /\ Head(s) \in Nat  BY <1>4, HeadTailProperties
  <2>2. SumSeq(s) = Head(s) + SumSeq(Tail(s))  BY <1>2, <1>4, SumHead
  <2>3. SumSeq(Tail(s)) \in Nat  BY <1>2, <2>1
  <2>4. QED  BY ONLY <2>1, <2>2, <2>3
<1>5. QED  BY <1>2, <1>3, <1>4


-----------------------------------------------------------------------------
(* The elements that are kept *)

\* k is what is kept of the first n elements of s: h says where each of its
\* elements was.
KeptBy(h, k, s, S, n) ==
  /\ Len(k) <= n
  /\ h \in [1..Len(k) -> 1..n]
  /\ \A i \in 1..Len(k) : k[i] = s[h[i]] /\ s[h[i]] \in S
  /\ \A i, j \in 1..Len(k) : i < j => h[i] < h[j]
  /\ \A j \in 1..n : s[j] \in S => \E i \in 1..Len(k) : h[i] = j

KeptUpTo(T, k, s, S, n) == k \in Seq(T) /\ \E h : KeptBy(h, k, s, S, n)

\* An element that is not kept changes nothing.
LEMMA SkipStep ==
  ASSUME NEW T, NEW s \in Seq(T), NEW S, NEW n \in Nat, n + 1 <= Len(s),
         NEW k, KeptUpTo(T, k, s, S, n), s[n + 1] \notin S
  PROVE  KeptUpTo(T, k, s, S, n + 1)
<1>1. k \in Seq(T) /\ Len(k) \in Nat  BY LenProperties DEF KeptUpTo
<1>2. PICK h : KeptBy(h, k, s, S, n)  BY DEF KeptUpTo
<1>3. Len(k) <= n + 1 /\ h \in [1..Len(k) -> 1..(n + 1)]
  <2>1. \A i \in 1..Len(k) : h[i] \in 1..(n + 1)  BY <1>2 DEF KeptBy
  <2>2. h = [i \in 1..Len(k) |-> h[i]]  BY <1>2 DEF KeptBy
  <2>3. QED  BY <1>1, <1>2, <2>1, <2>2 DEF KeptBy
<1>4. ASSUME NEW j \in 1..(n + 1), s[j] \in S  PROVE \E i \in 1..Len(k) : h[i] = j
  <2>1. j # n + 1  BY <1>4
  <2>2. j \in 1..n  BY <2>1
  <2>3. QED  BY <1>2, <1>4, <2>2 DEF KeptBy
<1>5. KeptBy(h, k, s, S, n + 1)  BY <1>2, <1>3, <1>4 DEF KeptBy
<1>6. QED  BY <1>1, <1>5 DEF KeptUpTo

\* An element that is kept comes behind the others.
LEMMA KeepStep ==
  ASSUME NEW T, NEW s \in Seq(T), NEW S, NEW n \in Nat, n + 1 <= Len(s),
         NEW k, KeptUpTo(T, k, s, S, n), s[n + 1] \in S
  PROVE  KeptUpTo(T, Append(k, s[n + 1]), s, S, n + 1)
<1>1. k \in Seq(T) /\ Len(k) \in Nat /\ Len(s) \in Nat  BY LenProperties DEF KeptUpTo
<1>2. PICK h : KeptBy(h, k, s, S, n)  BY DEF KeptUpTo
<1>3. PICK x : x = s[n + 1]  OBVIOUS
<1>4. x \in T
  <2>1. n + 1 \in 1..Len(s)  BY <1>1
  <2>2. QED  BY <1>3, <2>1, ElementOfSeq
<1>5. PICK l : l = Append(k, x)  OBVIOUS
<1>6. /\ l \in Seq(T) /\ Len(l) = Len(k) + 1
      /\ \A i \in 1..Len(k) : l[i] = k[i]
      /\ l[Len(k) + 1] = x
  BY <1>1, <1>4, <1>5, AppendProperties
<1>7. PICK g : g = [i \in 1..Len(l) |-> IF i = Len(l) THEN n + 1 ELSE h[i]]  OBVIOUS
<1>8. Len(l) \in Nat /\ Len(l) >= 1 /\ Len(l) <= n + 1
  BY <1>1, <1>2, <1>6 DEF KeptBy
<1>9. ASSUME NEW i \in 1..Len(l)
      PROVE  \/ i = Len(l) /\ g[i] = n + 1 /\ l[i] = x
             \/ i \in 1..Len(k) /\ g[i] = h[i] /\ h[i] \in 1..n /\ l[i] = k[i]
  <2>1. CASE i = Len(l)
    <3>1. g[i] = n + 1  BY <1>7, <1>8, <2>1
    <3>2. QED  BY <1>6, <2>1, <3>1
  <2>2. CASE i # Len(l)
    <3>1. i \in 1..Len(k)  BY <1>1, <1>6, <2>2
    <3>2. g[i] = h[i]  BY <1>7, <2>2
    <3>3. h[i] \in 1..n  BY <1>2, <3>1 DEF KeptBy
    <3>4. QED  BY <1>6, <3>1, <3>2, <3>3
  <2>3. QED  BY <2>1, <2>2
<1>10. g \in [1..Len(l) -> 1..(n + 1)]
  <2>1. ASSUME NEW i \in 1..Len(l)  PROVE g[i] \in 1..(n + 1)
    BY <1>9
  <2>2. g = [i \in 1..Len(l) |-> g[i]]  BY <1>7
  <2>3. QED  BY <2>1, <2>2
<1>11. ASSUME NEW i \in 1..Len(l)  PROVE l[i] = s[g[i]] /\ s[g[i]] \in S
  <2>1. CASE i = Len(l) /\ g[i] = n + 1 /\ l[i] = x  BY <1>3, <2>1
  <2>2. CASE i \in 1..Len(k) /\ g[i] = h[i] /\ l[i] = k[i]  BY <1>2, <2>2 DEF KeptBy
  <2>3. QED  BY <1>9, <2>1, <2>2
<1>12. ASSUME NEW i \in 1..Len(l), NEW j \in 1..Len(l), i < j  PROVE g[i] < g[j]
  <2>1. i # Len(l)  BY <1>8, <1>12
  <2>2. i \in 1..Len(k) /\ g[i] = h[i] /\ h[i] \in 1..n  BY <1>9, <2>1
  <2>3. CASE g[j] = n + 1  BY <2>2, <2>3
  <2>4. CASE j \in 1..Len(k) /\ g[j] = h[j]
    BY <1>2, <1>12, <2>2, <2>4 DEF KeptBy
  <2>5. QED  BY <1>9, <2>3, <2>4
<1>13. ASSUME NEW j \in 1..(n + 1), s[j] \in S  PROVE \E i \in 1..Len(l) : g[i] = j
  <2>1. CASE j = n + 1
    <3>1. Len(l) \in 1..Len(l) /\ g[Len(l)] = n + 1  BY <1>7, <1>8
    <3>2. QED  BY <2>1, <3>1
  <2>2. CASE j # n + 1
    <3>1. j \in 1..n  BY <2>2
    <3>2. PICK i \in 1..Len(k) : h[i] = j  BY <1>2, <1>13, <3>1 DEF KeptBy
    <3>3. i \in 1..Len(l) /\ i # Len(l)  BY <1>1, <1>6
    <3>4. g[i] = j  BY <1>7, <3>2, <3>3
    <3>5. QED  BY <3>3, <3>4
  <2>3. QED  BY <2>1, <2>2
<1>14. KeptBy(g, l, s, S, n + 1)
  BY <1>8, <1>10, <1>11, <1>12, <1>13 DEF KeptBy
<1>15. KeptUpTo(T, l, s, S, n + 1)  BY <1>6, <1>14 DEF KeptUpTo
<1>16. QED  BY <1>3, <1>5, <1>15

\* What is kept up to every place of a sequence, place by place.
KeptSoFar(T, s, S, n, f) ==
  /\ f \in [0..n -> Seq(T)] /\ f[0] = <<>>
  /\ \A i \in 1..n :
       f[i] = IF s[i] \in S THEN Append(f[i - 1], s[i]) ELSE f[i - 1]

\* What is kept can be collected up to every place.
LEMMA KeptSoFarExists ==
  ASSUME NEW T, NEW s \in Seq(T), NEW S, NEW n \in 0..Len(s)
  PROVE  \E f : KeptSoFar(T, s, S, n, f)
<1> DEFINE Good == {m \in Nat : m <= Len(s) => \E f : KeptSoFar(T, s, S, m, f)}
<1>1. Len(s) \in Nat /\ \A i \in 1..Len(s) : s[i] \in T  BY LenProperties, ElementOfSeq
<1>2. 0 \in Good
  <2>1. PICK e : e = <<>>  OBVIOUS
  <2>2. e \in Seq(T)  BY <2>1, EmptySeq
  <2>3. PICK f : f = [i \in 0..0 |-> e]  OBVIOUS
  <2>4. f \in [0..0 -> Seq(T)] /\ f[0] = e  BY <2>2, <2>3
  <2>5. KeptSoFar(T, s, S, 0, f)  BY <2>1, <2>4 DEF KeptSoFar
  <2>6. QED  BY <2>5
<1>3. ASSUME NEW m \in Nat, m \in Good  PROVE m + 1 \in Good
  <2>1. SUFFICES ASSUME m + 1 <= Len(s)  PROVE \E f : KeptSoFar(T, s, S, m + 1, f)  OBVIOUS
  <2>2. m <= Len(s) /\ m + 1 \in 1..Len(s) /\ m \in 0..m  BY <1>1, <2>1
  <2>3. PICK f : KeptSoFar(T, s, S, m, f)  BY <1>3, <2>2
  <2>4. PICK l : l = IF s[m + 1] \in S THEN Append(f[m], s[m + 1]) ELSE f[m]  OBVIOUS
  <2>5. l \in Seq(T)
    <3>1. f[m] \in Seq(T) /\ s[m + 1] \in T  BY <1>1, <2>2, <2>3 DEF KeptSoFar
    <3>2. Append(f[m], s[m + 1]) \in Seq(T)  BY <3>1, AppendProperties
    <3>3. QED  BY <2>4, <3>1, <3>2
  <2>6. PICK g : g = [i \in 0..(m + 1) |-> IF i = m + 1 THEN l ELSE f[i]]  OBVIOUS
  <2>7. g \in [0..(m + 1) -> Seq(T)]
    <3>1. ASSUME NEW i \in 0..(m + 1)  PROVE (IF i = m + 1 THEN l ELSE f[i]) \in Seq(T)
      <4>1. i # m + 1 => i \in 0..m  OBVIOUS
      <4>2. QED  BY <2>3, <2>5, <4>1 DEF KeptSoFar
    <3>2. QED  BY <2>6, <3>1
  <2>8. g[0] = <<>>  BY <2>3, <2>6 DEF KeptSoFar
  <2>9. ASSUME NEW i \in 1..(m + 1)
        PROVE  g[i] = IF s[i] \in S THEN Append(g[i - 1], s[i]) ELSE g[i - 1]
    <3>1. CASE i = m + 1
      <4>1. i - 1 = m /\ g[i] = l /\ g[i - 1] = f[m]  BY <2>6, <3>1
      <4>2. QED  BY <2>4, <3>1, <4>1
    <3>2. CASE i \in 1..m
      <4>1. g[i] = f[i] /\ g[i - 1] = f[i - 1]  BY <2>6, <3>2
      <4>2. QED  BY <2>3, <3>2, <4>1 DEF KeptSoFar
    <3>3. QED  BY <3>1, <3>2
  <2>10. QED  BY <2>7, <2>8, <2>9 DEF KeptSoFar
<1>4. Nat \subseteq Good
  <2> HIDE DEF Good
  <2>1. \A m \in Nat : m \in Good => m + 1 \in Good  BY <1>3
  <2>2. QED  BY <1>2, <2>1, AllNumbers
<1>5. n \in Nat /\ n <= Len(s)  BY <1>1
<1>6. n \in Good  BY <1>4, <1>5
<1>7. QED  BY <1>5, <1>6

\* What Kept returns is what is kept of the whole sequence.
LEMMA KeptIsKept ==
  ASSUME NEW T, NEW s \in Seq(T), NEW S
  PROVE  KeptUpTo(T, Kept(s, S), s, S, Len(s))
<1> DEFINE Equation(f) ==
             f = [n \in 0..Len(s) |->
                    IF n = 0 THEN <<>>
                    ELSE IF s[n] \in S THEN Append(f[n - 1], s[n]) ELSE f[n - 1]]
           upTo == CHOOSE f : Equation(f)
<1>1. Len(s) \in Nat  BY LenProperties
<1>2. Kept(s, S) = upTo[Len(s)]  BY DEF Kept
<1>3. PICK f : KeptSoFar(T, s, S, Len(s), f)
  <2>1. Len(s) \in 0..Len(s)  BY <1>1
  <2>2. QED  BY <2>1, KeptSoFarExists
<1>4. Equation(f)
  <2>1. ASSUME NEW n \in 0..Len(s)
        PROVE  f[n] = IF n = 0 THEN <<>>
                      ELSE IF s[n] \in S THEN Append(f[n - 1], s[n]) ELSE f[n - 1]
    <3>1. n = 0 \/ (n \in 1..Len(s) /\ n # 0)  BY <1>1
    <3>2. QED  BY <1>3, <3>1 DEF KeptSoFar
  <2>2. f = [n \in 0..Len(s) |-> f[n]]  BY <1>3 DEF KeptSoFar
  <2>3. QED  BY <2>1, <2>2
<1>5. Equation(upTo)  BY <1>4
<1> HIDE DEF upTo
<1>6. upTo[0] = <<>>
  <2>1. 0 \in 0..Len(s)  BY <1>1
  <2>2. QED  BY <1>5, <2>1
<1>7. ASSUME NEW i \in 1..Len(s)
      PROVE  upTo[i] = IF s[i] \in S THEN Append(upTo[i - 1], s[i]) ELSE upTo[i - 1]
  <2>1. i \in 0..Len(s) /\ i # 0  BY <1>1
  <2>2. QED  BY <1>5, <2>1
<1> HIDE DEF Equation
<1> DEFINE Good == {m \in Nat : m <= Len(s) => KeptUpTo(T, upTo[m], s, S, m)}
<1>8. 0 \in Good
  <2>1. PICK e : e = <<>>  OBVIOUS
  <2>2. e \in Seq(T) /\ Len(e) = 0  BY <2>1, EmptySeq
  <2>3. PICK h : h = [i \in 1..Len(e) |-> 0]  OBVIOUS
  <2>4. \A i : i \notin 1..Len(e)  BY <2>2
  <2>5. h \in [1..Len(e) -> 1..0]  BY <2>3, <2>4
  <2>6. KeptBy(h, e, s, S, 0)  BY <2>2, <2>4, <2>5 DEF KeptBy
  <2>7. KeptUpTo(T, e, s, S, 0)  BY <2>2, <2>6 DEF KeptUpTo
  <2>8. QED  BY <1>6, <2>1, <2>7
<1>9. ASSUME NEW m \in Nat, m \in Good  PROVE m + 1 \in Good
  <2>1. SUFFICES ASSUME m + 1 <= Len(s)  PROVE KeptUpTo(T, upTo[m + 1], s, S, m + 1)
    OBVIOUS
  <2>2. m + 1 \in 1..Len(s) /\ m <= Len(s) /\ (m + 1) - 1 = m  BY <1>1, <2>1
  <2>3. PICK k : k = upTo[m]  OBVIOUS
  <2>4. KeptUpTo(T, k, s, S, m)  BY <1>9, <2>2, <2>3
  <2>5. CASE s[m + 1] \in S
    <3>1. upTo[m + 1] = Append(k, s[m + 1])  BY <1>7, <2>2, <2>3, <2>5
    <3>2. KeptUpTo(T, Append(k, s[m + 1]), s, S, m + 1)  BY <2>1, <2>4, <2>5, KeepStep
    <3>3. QED  BY <3>1, <3>2
  <2>6. CASE s[m + 1] \notin S
    <3>1. upTo[m + 1] = k  BY <1>7, <2>2, <2>3, <2>6
    <3>2. KeptUpTo(T, k, s, S, m + 1)  BY <2>1, <2>4, <2>6, SkipStep
    <3>3. QED  BY <3>1, <3>2
  <2>7. QED  BY <2>5, <2>6
<1>10. Nat \subseteq Good
  <2> HIDE DEF Good
  <2>1. \A m \in Nat : m \in Good => m + 1 \in Good  BY <1>9
  <2>2. QED  BY <1>8, <2>1, AllNumbers
<1>11. Len(s) \in Good  BY <1>1, <1>10
<1>12. QED  BY <1>1, <1>2, <1>11

Members(s) == {s[i] : i \in 1..Len(s)}

\* The elements of k come in the same order in s.
InOrderOf(k, s) ==
  \A i, j \in 1..Len(k) : i < j =>
    \E a, b \in 1..Len(s) : a < b /\ k[i] = s[a] /\ k[j] = s[b]

\* The list of what is kept holds the elements of s that are in S and no
\* others, and if no element of s is there twice, none of what is kept is.
LEMMA KeptElements ==
  ASSUME NEW T, NEW s \in Seq(T), NEW S, NEW k, k = Kept(s, S)
  PROVE  /\ k \in Seq(T) /\ Len(k) \in Nat /\ Len(s) \in Nat /\ Len(k) <= Len(s)
         /\ Members(k) = Members(s) \cap S /\ InOrderOf(k, s)
<1>1. k \in Seq(T) /\ Len(k) \in Nat /\ Len(s) \in Nat
  <2>1. k \in Seq(T)  BY KeptIsKept DEF KeptUpTo
  <2>2. QED  BY <2>1, LenProperties
<1>2. PICK h : KeptBy(h, k, s, S, Len(s))  BY KeptIsKept DEF KeptUpTo
<1>3. Members(k) \subseteq Members(s) \cap S  BY <1>2 DEF KeptBy, Members
<1>4. Members(s) \cap S \subseteq Members(k)
  <2>1. ASSUME NEW j \in 1..Len(s), s[j] \in S  PROVE s[j] \in Members(k)
    <3>1. PICK i \in 1..Len(k) : h[i] = j  BY <1>2, <2>1 DEF KeptBy
    <3>2. k[i] = s[j]  BY <1>2, <3>1 DEF KeptBy
    <3>3. QED  BY <3>2 DEF Members
  <2>2. QED  BY <2>1 DEF Members
<1>5. ASSUME NEW i \in 1..Len(k), NEW j \in 1..Len(k), i < j
      PROVE  \E a, b \in 1..Len(s) : a < b /\ k[i] = s[a] /\ k[j] = s[b]
  <2>1. /\ h[i] \in 1..Len(s) /\ h[j] \in 1..Len(s) /\ h[i] < h[j]
        /\ k[i] = s[h[i]] /\ k[j] = s[h[j]]
    BY <1>2, <1>5 DEF KeptBy
  <2>2. QED  BY <2>1
<1>6. InOrderOf(k, s)  BY <1>5 DEF InOrderOf
<1>7. QED  BY <1>1, <1>2, <1>3, <1>4, <1>6 DEF KeptBy

-----------------------------------------------------------------------------
(* The bytes of a list of packets *)

\* The sizes of a list of packets, and their sum.
LEMMA BytesTypes ==
  ASSUME NEW T, \A p \in T : p.size \in Nat, NEW q \in Seq(T)
  PROVE  /\ SizeSeq(q) \in Seq(Nat) /\ Len(SizeSeq(q)) = Len(q)
         /\ BytesOf(q) \in Nat /\ (q = <<>> => BytesOf(q) = 0)
<1>1. Len(q) \in Nat /\ \A i \in 1..Len(q) : q[i] \in T  BY LenProperties, ElementOfSeq
<1>2. SizeSeq(q) \in [1..Len(q) -> Nat]  BY <1>1 DEF SizeSeq
<1>3. SizeSeq(q) \in Seq(Nat)  BY <1>1, <1>2, SeqDef, SMTT(30)
<1>4. Len(SizeSeq(q)) = Len(q)  BY <1>1, <1>2, <1>3, LenProperties
<1>5. q = <<>> => SizeSeq(q) = <<>>
  <2>1. q = <<>> => Len(SizeSeq(q)) = 0  BY <1>4, EmptySeq
  <2>2. QED  BY <1>3, <2>1, EmptySeq
<1>6. PICK s \in Seq(Nat) : s = SizeSeq(q)  BY <1>3
<1>7. s \in Seq(Int) /\ SumSeq(s) \in Nat  BY SumNat
<1>8. s = <<>> => SumSeq(s) = 0  BY <1>7, SumTypes
<1>9. QED  BY <1>3, <1>4, <1>5, <1>6, <1>7, <1>8 DEF BytesOf

\* A packet put behind the others adds its bytes.
LEMMA BytesAppend ==
  ASSUME NEW T, \A p \in T : p.size \in Nat, NEW q \in Seq(T), NEW p \in T
  PROVE  /\ Append(q, p) \in Seq(T) /\ Append(q, p) # <<>>
         /\ BytesOf(Append(q, p)) = BytesOf(q) + p.size
<1>1. PICK l : l = Append(q, p)  OBVIOUS
<1>2. /\ l \in Seq(T) /\ Len(q) \in Nat /\ Len(l) = Len(q) + 1
      /\ \A i \in 1..Len(q) : l[i] = q[i]
      /\ l[Len(q) + 1] = p
  BY <1>1, AppendProperties, LenProperties
<1>3. PICK s \in Seq(Nat), x \in Nat : s = SizeSeq(q) /\ x = p.size  BY BytesTypes
<1>4. Len(s) = Len(q)  BY <1>3, BytesTypes
<1>5. PICK r \in Seq(Nat) : r = SizeSeq(l) /\ Len(r) = Len(q) + 1  BY <1>2, BytesTypes
<1>6. r = Append(s, x)
  <2>1. PICK a : a = Append(s, x)  OBVIOUS
  <2>2. /\ a \in Seq(Nat) /\ Len(a) = Len(s) + 1
        /\ \A i \in 1..Len(s) : a[i] = s[i]
        /\ a[Len(s) + 1] = x
    BY <2>1, AppendProperties
  <2>3. ASSUME NEW i \in 1..Len(r)  PROVE r[i] = a[i]
    <3>1. r[i] = l[i].size  BY <1>2, <1>5, <2>3 DEF SizeSeq
    <3>2. CASE i = Len(q) + 1  BY <1>2, <1>3, <1>4, <2>2, <3>1, <3>2
    <3>3. CASE i \in 1..Len(q)
      <4>1. s[i] = q[i].size  BY <1>3, <3>3 DEF SizeSeq
      <4>2. QED  BY <1>2, <1>4, <2>2, <3>1, <3>3, <4>1
    <3>4. QED  BY <1>2, <1>5, <3>2, <3>3
  <2>4. Len(r) = Len(a)  BY <1>4, <1>5, <2>2
  <2>5. r = a  BY <2>2, <2>3, <2>4, SeqEqual
  <2>6. QED  BY <2>1, <2>5
<1>7. SumSeq(r) = SumSeq(s) + x
  <2>1. s \in Seq(Int) /\ x \in Int  BY SumNat
  <2>2. QED  BY <1>6, <2>1, SumAppend
<1>8. l # <<>>  BY <1>2, EmptySeq
<1>9. QED  BY <1>1, <1>2, <1>3, <1>5, <1>7, <1>8 DEF BytesOf

\* The first packet has its bytes, the others the rest.
LEMMA BytesHead ==
  ASSUME NEW T, \A p \in T : p.size \in Nat, NEW q \in Seq(T), q # <<>>
  PROVE  /\ Head(q) \in T /\ Tail(q) \in Seq(T) /\ Head(q).size \in Nat
         /\ BytesOf(Tail(q)) \in Nat
         /\ BytesOf(q) = Head(q).size + BytesOf(Tail(q))
<1>1. PICK t : t = Tail(q)  OBVIOUS
<1>2. /\ t \in Seq(T) /\ Head(q) \in T /\ Head(q) = q[1]
      /\ Len(q) \in Nat \ {0} /\ Len(t) = Len(q) - 1
      /\ \A i \in 1..Len(t) : t[i] = q[i + 1]
  BY <1>1, HeadTailProperties, LenProperties, EmptySeq
<1>3. PICK s \in Seq(Nat), r \in Seq(Nat) :
        s = SizeSeq(q) /\ Len(s) = Len(q) /\ r = SizeSeq(t) /\ Len(r) = Len(t)
  BY <1>2, BytesTypes
<1>4. s # <<>> /\ s \in Seq(Int)  BY <1>2, <1>3, EmptySeq, SumNat
<1>5. Tail(s) \in Seq(Int) /\ Head(s) \in Int /\ SumSeq(s) = Head(s) + SumSeq(Tail(s))
  BY <1>4, SumHead
<1>6. Head(s) = Head(q).size
  <2>1. Head(s) = s[1] /\ 1 \in 1..Len(q)  BY <1>2, <1>4, HeadTailProperties
  <2>2. s[1] = q[1].size  BY <1>3, <2>1 DEF SizeSeq
  <2>3. QED  BY <1>2, <2>1, <2>2
<1>7. r = Tail(s)
  <2>1. PICK a : a = Tail(s)  OBVIOUS
  <2>2. /\ a \in Seq(Int) /\ Len(a) = Len(s) - 1
        /\ \A i \in 1..Len(a) : a[i] = s[i + 1]
    BY <1>4, <2>1, HeadTailProperties
  <2>3. Len(r) = Len(a)  BY <1>2, <1>3, <2>2
  <2>4. ASSUME NEW i \in 1..Len(r)  PROVE r[i] = a[i]
    <3>1. i + 1 \in 1..Len(q) /\ i \in 1..Len(t) /\ i \in 1..Len(a)
      BY <1>2, <1>3, <2>3
    <3>2. r[i] = t[i].size /\ s[i + 1] = q[i + 1].size  BY <1>3, <3>1 DEF SizeSeq
    <3>3. QED  BY <1>2, <2>2, <3>1, <3>2
  <2>5. r = a
    <3>1. r \in Seq(Int)  BY SumNat
    <3>2. QED  BY <2>2, <2>3, <2>4, <3>1, SeqEqual
  <2>6. QED  BY <2>1, <2>5
<1>8. BytesOf(q) = Head(q).size + BytesOf(t)
  BY <1>3, <1>5, <1>6, <1>7 DEF BytesOf
<1>9. BytesOf(t) \in Nat  BY <1>2, BytesTypes
<1>10. QED  BY <1>1, <1>2, <1>8, <1>9

-----------------------------------------------------------------------------
(* Folds *)

\* A set of numbers up to n that is not empty has a largest one.
LEMMA MaxOfSet ==
  ASSUME NEW n \in Nat, NEW S \in SUBSET (1..n), S # {}
  PROVE  Max(S) \in S /\ \A y \in S : y <= Max(S)
<1> DEFINE T == {n - y : y \in S}
<1>0. \A y \in S : y \in 1..n /\ n - y \in Nat  OBVIOUS
<1>1. T \in SUBSET Nat /\ T # {}  BY <1>0
<1>2. PICK x \in T : \A y \in T : x <= y  BY <1>1, LeastElement
<1>3. PICK z \in S : x = n - z  OBVIOUS
<1>4. \A y \in S : n - y \in T /\ y \in Nat /\ z \in Nat  OBVIOUS
<1>5. \A y \in S : z >= y  BY <1>2, <1>3, <1>4
<1>6. \E u \in S : \A y \in S : u >= y  BY <1>3, <1>5
<1>7. Max(S) \in S /\ \A y \in S : Max(S) >= y  BY <1>6 DEF Max
<1>8. QED  BY <1>4, <1>7

\* The largest of 1..k is k.
LEMMA MaxOfRange ==
  ASSUME NEW k \in Nat \ {0}
  PROVE  Max(1..k) = k /\ (1..k) \ {k} = 1..(k - 1)
<1>1. 1..k \in SUBSET (1..k) /\ k \in 1..k  OBVIOUS
<1>2. Max(1..k) \in 1..k /\ k <= Max(1..k)  BY <1>1, MaxOfSet
<1>3. Max(1..k) = k  BY <1>2
<1>4. ASSUME NEW i  PROVE i \in (1..k) \ {k} <=> i \in 1..(k - 1)  OBVIOUS
<1>5. QED  BY <1>3, <1>4

\* The recursion behind a fold: from base, one step for each number of a set,
\* the largest last.
FoldsBy(h, T, n, base, step) ==
  /\ h \in [SUBSET (1..n) -> T]
  /\ \A S \in SUBSET (1..n) :
       h[S] = IF S = {} THEN base ELSE step[<<Max(S), h[S \ {Max(S)}]>>]

\* It has a solution for every step that is a function on the states T.
LEMMA FoldExists ==
  ASSUME NEW T, NEW n \in Nat, NEW base \in T, NEW step \in [(1..n) \X T -> T]
  PROVE  \E h : FoldsBy(h, T, n, base, step)
<1> DEFINE Good == {l \in Nat : l <= n => \E h : FoldsBy(h, T, l, base, step)}
<1>1. 0 \in Good
  <2>1. 1..0 = {} /\ SUBSET {} = {{}}  OBVIOUS
  <2>2. FoldsBy([S \in SUBSET (1..0) |-> base], T, 0, base, step)  BY <2>1 DEF FoldsBy
  <2>3. QED  BY <2>2
<1>2. ASSUME NEW l \in Nat, l \in Good  PROVE l + 1 \in Good
  <2>1. SUFFICES ASSUME l + 1 <= n  PROVE \E h : FoldsBy(h, T, l + 1, base, step)  OBVIOUS
  <2>2. PICK f : FoldsBy(f, T, l, base, step)  BY <1>2, <2>1
  <2>3. l + 1 \in 1..n  BY <2>1
  <2>4. \A S \in SUBSET (1..(l + 1)) : l + 1 \notin S => S \in SUBSET (1..l)  OBVIOUS
  <2>5. \A S \in SUBSET (1..(l + 1)) : S \ {l + 1} \in SUBSET (1..l)
    <3>1. ASSUME NEW S \in SUBSET (1..(l + 1)), NEW i \in S \ {l + 1}  PROVE i \in 1..l
      <4>1. i \in 1..(l + 1) /\ i # l + 1  OBVIOUS
      <4>2. QED  BY <4>1
    <3>2. QED  BY <3>1
  <2> DEFINE h == [S \in SUBSET (1..(l + 1)) |->
                     IF l + 1 \in S THEN step[<<l + 1, f[S \ {l + 1}]>>] ELSE f[S]]
  <2>6. ASSUME NEW S \in SUBSET (1..(l + 1))
        PROVE  /\ h[S] \in T
               /\ h[S] = IF S = {} THEN base ELSE step[<<Max(S), h[S \ {Max(S)}]>>]
    <3>1. CASE l + 1 \in S
      <4>1. Max(S) = l + 1
        <5>1. Max(S) \in S /\ l + 1 <= Max(S)  BY <3>1, MaxOfSet, l + 1 \in Nat
        <5>2. Max(S) \in 1..(l + 1)  BY <5>1
        <5>3. QED  BY <5>1, <5>2
      <4>2. h[S] = step[<<l + 1, f[S \ {l + 1}]>>]  BY <3>1
      <4>3. S \ {l + 1} \in SUBSET (1..(l + 1)) /\ l + 1 \notin S \ {l + 1}  OBVIOUS
      <4>4. h[S \ {l + 1}] = f[S \ {l + 1}]  BY <4>3
      <4>5. f[S \ {l + 1}] \in T  BY <2>2, <2>5 DEF FoldsBy
      <4>6. h[S] \in T  BY <2>3, <4>2, <4>5
      <4>7. QED  BY <3>1, <4>1, <4>2, <4>4, <4>6
    <3>2. CASE l + 1 \notin S
      <4>1. S \in SUBSET (1..l) /\ h[S] = f[S]  BY <2>4, <3>2
      <4>2. /\ f[S] \in T
            /\ f[S] = IF S = {} THEN base ELSE step[<<Max(S), f[S \ {Max(S)}]>>]
        BY <2>2, <4>1 DEF FoldsBy
      <4>3. S \ {Max(S)} \in SUBSET (1..(l + 1)) /\ l + 1 \notin S \ {Max(S)}  BY <3>2
      <4>4. h[S \ {Max(S)}] = f[S \ {Max(S)}]  BY <4>3
      <4>5. QED  BY <4>1, <4>2, <4>4
    <3>3. QED  BY <3>1, <3>2
  <2>7. FoldsBy(h, T, l + 1, base, step)
    <3>1. h \in [SUBSET (1..(l + 1)) -> T]  BY <2>6
    <3> HIDE DEF h
    <3>2. QED  BY <2>6, <3>1 DEF FoldsBy
  <2>8. QED  BY <2>7
<1>3. Nat \subseteq Good
  <2> HIDE DEF Good
  <2>1. \A l \in Nat : l \in Good => l + 1 \in Good  BY <1>2
  <2>2. QED  BY <1>1, <2>1, AllNumbers
<1>4. n \in Good  BY <1>3
<1>5. QED  BY <1>4

\* A function on 1..n is a sequence of length n.
LEMMA FunctionIsSeq ==
  ASSUME NEW S, NEW n \in Nat, NEW s \in [1..n -> S]
  PROVE  s \in Seq(S) /\ Len(s) = n
<1>1. s \in Seq(S)  BY SeqDef
<1>2. 1..Len(s) = 1..n /\ Len(s) \in Nat  BY <1>1, LenProperties
<1>3. Len(s) = n
  <2>1. Len(s) \in 1..n \/ Len(s) = 0  BY <1>2
  <2>2. n \in 1..Len(s) \/ n = 0  BY <1>2
  <2>3. QED  BY <1>2, <2>1, <2>2
<1>4. QED  BY <1>1, <1>3

\* A fold ends where any solution of its equations does that stays among the
\* states: solutions are equal.
LEMMA SameFold ==
  ASSUME NEW n \in Nat, NEW g, NEW h, g[{}] = h[{}],
         \A S \in SUBSET (1..n) :
           S # {} /\ g[S \ {Max(S)}] = h[S \ {Max(S)}] => g[S] = h[S]
  PROVE  g[1..n] = h[1..n]
<1> DEFINE Good == {l \in Nat : l <= n => g[1..l] = h[1..l]}
<1>1. 0 \in Good
  <2>1. 1..0 = {}  OBVIOUS
  <2>2. QED  BY <2>1
<1>2. ASSUME NEW l \in Nat, l \in Good  PROVE l + 1 \in Good
  <2>1. SUFFICES ASSUME l + 1 <= n  PROVE g[1..(l + 1)] = h[1..(l + 1)]  OBVIOUS
  <2>2. l + 1 \in Nat \ {0} /\ (l + 1) - 1 = l /\ l + 1 \in 1..(l + 1) /\ l <= n
    BY <2>1
  <2>3. Max(1..(l + 1)) = l + 1 /\ (1..(l + 1)) \ {l + 1} = 1..l  BY <2>2, MaxOfRange
  <2>4. 1..(l + 1) \in SUBSET (1..n)
    <3>1. ASSUME NEW i \in 1..(l + 1)  PROVE i \in 1..n  BY <2>1
    <3>2. QED  BY <3>1
  <2>5. g[1..l] = h[1..l]  BY <1>2, <2>2
  <2>6. QED  BY <2>2, <2>3, <2>4, <2>5
<1>3. Nat \subseteq Good
  <2> HIDE DEF Good
  <2>1. \A l \in Nat : l \in Good => l + 1 \in Good  BY <1>2
  <2>2. QED  BY <1>1, <2>1, AllNumbers
<1>4. QED  BY <1>3

\* The steps of a fold, and its states after each.
Steps(T, n) == [(1..n) \X T -> T]
StatesOf(h, T, n, base, step) ==
  /\ h \in [SUBSET (1..n) -> T] /\ h[{}] = base
  /\ \A S \in SUBSET (1..n) : S # {} =>
       /\ Max(S) \in 1..n /\ h[S \ {Max(S)}] \in T
       /\ h[S] = step[<<Max(S), h[S \ {Max(S)}]>>]

\* The recursion behind a fold has a solution, and what its equations are about
\* are states.
LEMMA FoldSolved ==
  ASSUME NEW T, NEW n \in Nat, NEW base \in T, NEW step \in Steps(T, n)
  PROVE  \E h : StatesOf(h, T, n, base, step)
<1>0. step \in [(1..n) \X T -> T]  BY DEF Steps
<1>1. PICK h : FoldsBy(h, T, n, base, step)  BY <1>0, FoldExists
<1>2. ASSUME NEW S \in SUBSET (1..n), S # {}
      PROVE  /\ Max(S) \in 1..n /\ h[S \ {Max(S)}] \in T
             /\ h[S] = step[<<Max(S), h[S \ {Max(S)}]>>]
  <2>1. Max(S) \in 1..n  BY <1>2, MaxOfSet
  <2>2. S \ {Max(S)} \in SUBSET (1..n)  OBVIOUS
  <2>3. QED  BY <1>1, <1>2, <2>1, <2>2 DEF FoldsBy
<1>3. h \in [SUBSET (1..n) -> T] /\ h[{}] = base
  <2>1. {} \in SUBSET (1..n)  OBVIOUS
  <2>2. QED  BY <1>1, <2>1 DEF FoldsBy
<1>4. StatesOf(h, T, n, base, step)  BY <1>2, <1>3 DEF StatesOf
<1>5. QED  BY <1>4

=============================================================================
