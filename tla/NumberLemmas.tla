---------------------------- MODULE NumberLemmas ----------------------------
(***************************************************************************)
(* What the proofs need of the natural numbers: least and greatest         *)
(* elements, induction in the form of a set that holds 0 and successors,   *)
(* and functions that are defined by recursion; and of the pieces of a     *)
(* sequence, index by index.                                               *)
(***************************************************************************)
EXTENDS Integers, Sequences, WellFoundedInduction, TLAPS

-----------------------------------------------------------------------------
(* Natural numbers. *)

\* A set of natural numbers that is not empty has a least element.
LEMMA NatLeast ==
  ASSUME NEW S \in SUBSET Nat, S # {}
  PROVE  \E x \in S : \A y \in S : x <= y
<1>1. \E x \in S : \A y \in S : ~(<<y, x>> \in OpToRel(<, Nat))
  BY NatLessThanWellFounded, WFMin, Zenon
<1>2. OpToRel(<, Nat) = { p \in Nat \X Nat : p[1] < p[2] }
  BY Zenon DEF OpToRel
<1>3. PICK x \in S : \A y \in S : ~(<<y, x>> \in { p \in Nat \X Nat : p[1] < p[2] })
  BY <1>1, <1>2, Zenon
<1>4. \A y \in S : ~(y < x)
  BY <1>3
<1> QED
  BY <1>4

\* One that is bounded has a greatest element.
LEMMA NatGreatest ==
  ASSUME NEW n \in Nat, NEW S \in SUBSET (0 .. n), S # {}
  PROVE  \E x \in S : \A y \in S : y <= x
<1> DEFINE U == { u \in Nat : \A y \in S : y <= u }
<1>1. n \in U
  OBVIOUS
<1>2. PICK u \in U : \A v \in U : u <= v
  BY <1>1, NatLeast
<1>3. ASSUME u \notin S PROVE FALSE
  <2>1. u \in Nat /\ \A y \in S : y \in Nat /\ y <= u - 1
    BY <1>3
  <2>2. u - 1 \in Nat
    <3>1. PICK y \in S : TRUE
      OBVIOUS
    <3> QED
      BY <2>1, <3>1
  <2>3. u - 1 \in U
    BY <2>1, <2>2
  <2> QED
    BY <1>2, <2>3
<1> QED
  BY <1>2, <1>3

\* A set that holds 0 and the successor of each of its numbers holds every
\* natural number.
LEMMA NatAll ==
  ASSUME NEW S, 0 \in S, \A n \in Nat : n \in S => n + 1 \in S
  PROVE  Nat \subseteq S
<1> SUFFICES ASSUME Nat \ S # {} PROVE FALSE
  OBVIOUS
<1>1. PICK x \in Nat \ S : \A y \in Nat \ S : x <= y
  BY NatLeast
<1>2. x # 0 /\ x - 1 \in Nat /\ x - 1 \in S
  BY <1>1
<1> QED
  BY <1>1, <1>2

-----------------------------------------------------------------------------
(* Functions defined by recursion on a number. *)

\* The first n + 1 values of a recursion that starts at x and goes on by step.
Unrolled(n, S, x, step) ==
  {a \in [0..n -> S] : a[0] = x /\ \A i \in 0..(n - 1) : a[i + 1] = step[<<i, a[i]>>]}

\* There is an unrolling of every length.
LEMMA UnrolledExists ==
  ASSUME NEW S, NEW x \in S, NEW step \in [Nat \X S -> S]
  PROVE  \A n \in Nat : Unrolled(n, S, x, step) # {}
<1> DEFINE P == {n \in Nat : Unrolled(n, S, x, step) # {}}
<1>1. 0 \in P
  <2>1. [i \in 0..0 |-> x] \in Unrolled(0, S, x, step)
    BY DEF Unrolled
  <2> QED
    BY <2>1
<1>2. ASSUME NEW n \in Nat, n \in P PROVE n + 1 \in P
  <2>1. PICK a : a \in Unrolled(n, S, x, step)
    BY <1>2
  <2>2. /\ a \in [0..n -> S] /\ a[0] = x
        /\ \A i \in 0..(n - 1) : a[i + 1] = step[<<i, a[i]>>]
    BY <2>1 DEF Unrolled
  <2>3. PICK y \in S : y = step[<<n, a[n]>>]
    BY <2>2
  <2>4. PICK b : b = [i \in 0..(n + 1) |-> IF i = n + 1 THEN y ELSE a[i]]
    OBVIOUS
  <2>5. b \in [0..(n + 1) -> S] /\ b[0] = x
    BY <2>2, <2>3, <2>4
  <2>6. ASSUME NEW i \in 0..n PROVE b[i + 1] = step[<<i, b[i]>>]
    <3>1. b[i] = a[i] /\ i \in Nat
      BY <2>4
    <3>2. CASE i = n
      <4>1. b[n + 1] = y
        BY <2>4
      <4> QED
        BY <2>3, <3>1, <3>2, <4>1
    <3>3. CASE i # n
      <4>1. i \in 0..(n - 1) /\ i + 1 \in 0..(n + 1) /\ i + 1 # n + 1
        BY <3>3
      <4>2. b[i + 1] = a[i + 1]
        BY <2>4, <4>1
      <4> QED
        BY <2>2, <3>1, <4>1, <4>2
    <3> QED
      BY <3>2, <3>3
  <2>7. n + 1 - 1 = n
    OBVIOUS
  <2>8. b \in Unrolled(n + 1, S, x, step)
    BY <2>5, <2>6, <2>7 DEF Unrolled
  <2> QED
    BY <2>8
<1>3. Nat \subseteq P
  <2> HIDE DEF P
  <2> QED
    BY <1>1, <1>2, NatAll
<1> QED
  BY <1>3

\* A longer unrolling begins with the shorter one.
LEMMA UnrolledAgree ==
  ASSUME NEW S, NEW x \in S, NEW step \in [Nat \X S -> S],
         NEW n \in Nat, NEW m \in Nat, n <= m,
         NEW a \in Unrolled(n, S, x, step), NEW b \in Unrolled(m, S, x, step)
  PROVE  a[n] = b[n]
<1> DEFINE P == {i \in Nat : i <= n => a[i] = b[i]}
<1>1. /\ a[0] = x /\ \A i \in 0..(n - 1) : a[i + 1] = step[<<i, a[i]>>]
      /\ b[0] = x /\ \A i \in 0..(m - 1) : b[i + 1] = step[<<i, b[i]>>]
  BY DEF Unrolled
<1>2. 0 \in P
  BY <1>1
<1>3. ASSUME NEW i \in Nat, i \in P PROVE i + 1 \in P
  <2>1. CASE i + 1 <= n
    <3>1. i \in 0..(n - 1) /\ i \in 0..(m - 1) /\ a[i] = b[i]
      BY <1>3, <2>1
    <3>2. a[i + 1] = step[<<i, a[i]>>] /\ b[i + 1] = step[<<i, b[i]>>]
      BY <1>1, <3>1
    <3>3. a[i + 1] = b[i + 1]
      BY <3>1, <3>2, Zenon
    <3> QED
      BY <3>3
  <2> QED
    BY <2>1
<1>4. Nat \subseteq P
  <2> HIDE DEF P
  <2> QED
    BY <1>2, <1>3, NatAll
<1> QED
  BY <1>4

Solves(g, S, x, step) ==
  g \in [Nat -> S] /\ g[0] = x /\ \A n \in Nat : g[n + 1] = step[<<n, g[n]>>]

\* A recursion has a solution.
LEMMA Recursion ==
  ASSUME NEW S, NEW x \in S, NEW step \in [Nat \X S -> S]
  PROVE  \E g : Solves(g, S, x, step)
<1> DEFINE U(n) == Unrolled(n, S, x, step)
           a == [n \in Nat |-> CHOOSE u : u \in U(n)]
           g == [n \in Nat |-> a[n][n]]
<1>1. ASSUME NEW n \in Nat PROVE a[n] \in U(n)
  <2>1. \E u : u \in U(n)
    BY UnrolledExists
  <2> HIDE DEF U
  <2> QED
    BY <2>1
<1>2. ASSUME NEW n \in Nat
      PROVE  /\ g[n] \in S
             /\ n = 0 => g[n] = x
             /\ g[n + 1] = step[<<n, g[n]>>]
  <2>1. /\ a[n] \in [0..n -> S] /\ a[n][0] = x
    BY <1>1 DEF Unrolled
  <2>2. \A i \in 0..n : a[n + 1][i + 1] = step[<<i, a[n + 1][i]>>]
    <3>1. n + 1 \in Nat /\ n + 1 - 1 = n
      OBVIOUS
    <3>2. a[n + 1] \in U(n + 1)
      BY <1>1, <3>1
    <3> HIDE DEF a
    <3> QED
      BY <3>1, <3>2 DEF Unrolled
  <2>3. a[n][n] = a[n + 1][n]
    <3>1. a[n] \in U(n) /\ a[n + 1] \in U(n + 1) /\ n + 1 \in Nat /\ n <= n + 1
      BY <1>1
    <3> HIDE DEF a
    <3> QED
      BY <3>1, UnrolledAgree
  <2>4. g[n] = a[n][n] /\ g[n + 1] = a[n + 1][n + 1] /\ n \in 0..n
    <3> HIDE DEF a
    <3> QED
      OBVIOUS
  <2> HIDE DEF a, g
  <2> QED
    BY <2>1, <2>2, <2>3, <2>4
<1>3. g \in [Nat -> S]
  <2>1. \A n \in Nat : a[n][n] \in S
    BY <1>2
  <2> HIDE DEF a
  <2> QED
    BY <2>1
<1>4. Solves(g, S, x, step)
  <2> HIDE DEF g
  <2> QED
    BY <1>2, <1>3 DEF Solves
<1> QED
  BY <1>4, Zenon
-----------------------------------------------------------------------------
(* Pieces of a sequence. *)

\* A piece of a sequence is as long as its bounds say and has its elements.
LEMMA PieceOfSequence ==
  ASSUME NEW S, NEW s \in Seq(S), NEW p \in Nat, NEW q \in Nat, p <= q, q <= Len(s)
  PROVE  /\ SubSeq(s, p + 1, q) \in Seq(S) /\ Len(SubSeq(s, p + 1, q)) = q - p
         /\ \A i \in 1..(q - p) : SubSeq(s, p + 1, q)[i] = s[p + i]
<1>1. q - (p + 1) + 1 = q - p /\ q - p \in Nat
  OBVIOUS
<1>2. SubSeq(s, p + 1, q) \in Seq(S)
  BY <1>1
<1>3. Len(SubSeq(s, p + 1, q)) = q - p
  BY <1>1
<1>4. \A i \in 1..(q - p) : SubSeq(s, p + 1, q)[i] = s[p + i]
  BY <1>1
<1> QED
  BY <1>2, <1>3, <1>4

\* The same piece, as a function.
LEMMA PieceAsFunction ==
  ASSUME NEW S, NEW s \in Seq(S), NEW p \in Nat, NEW q \in Nat, p <= q, q <= Len(s)
  PROVE  SubSeq(s, p + 1, q) = [i \in 1..(q - p) |-> s[p + i]]
<1>1. PICK t : t = SubSeq(s, p + 1, q)
  OBVIOUS
<1>2. t \in Seq(S) /\ Len(t) = q - p /\ \A i \in 1..(q - p) : t[i] = s[p + i]
  BY <1>1, PieceOfSequence
<1>3. t = [i \in 1..(q - p) |-> t[i]]
  BY <1>2
<1> QED
  BY <1>1, <1>2, <1>3


\* Two sequences that are joined, index by index.
LEMMA JoinedSequences ==
  ASSUME NEW S, NEW t \in Seq(S), NEW w \in Seq(S)
  PROVE  /\ t \o w \in Seq(S) /\ Len(t \o w) = Len(t) + Len(w)
         /\ \A i \in 1..(Len(t) + Len(w)) :
              (t \o w)[i] = IF i <= Len(t) THEN t[i] ELSE w[i - Len(t)]
OBVIOUS
=============================================================================
