--------------------------- MODULE SequenceFacts ----------------------------
(***************************************************************************)
(* What the proofs keep needing about numbers, finite sets and sequences:  *)
(* least and greatest elements, induction up to a bound, the parts of a    *)
(* sequence at chosen positions, and sequences whose elements have no      *)
(* common set named for them.                                              *)
(***************************************************************************)
EXTENDS Picked, Integers, SequencesExt, FiniteSetTheorems, WellFoundedInduction, SequenceTheorems, TLAPS

(* A set of numbers has a least one. *)
LEMMA LeastOf == ASSUME NEW S, S \subseteq Nat, S # {} PROVE \E x \in S : \A y \in S : x <= y
<1>1. PICK x \in S : \A y \in S : ~(<<y, x>> \in OpToRel(<, Nat))
  BY NatLessThanWellFounded, WFMin
<1>2. ASSUME NEW y \in S PROVE x <= y
  <2>1. x \in Nat /\ y \in Nat
    OBVIOUS
  <2>2. ~(y < x)
    BY <1>1, <2>1 DEF OpToRel
  <2>3. QED
    BY <2>1, <2>2
<1>3. QED
  BY <1>2

(* A bounded set of numbers has a greatest one. *)
LEMMA LastOf ==
    ASSUME NEW n \in Nat, NEW S, S \subseteq 1 .. n, S # {}
    PROVE  \E x \in S : \A y \in S : y <= x
<1> DEFINE Down == {n - x : x \in S}
<1>0. \A x \in S : x \in Int /\ n - x \in Nat
  OBVIOUS
<1>1. Down \subseteq Nat /\ Down # {}
  BY <1>0
<1>2. PICK m \in Down : \A k \in Down : m <= k
  <2> HIDE DEF Down
  <2>1. QED
    BY <1>1, LeastOf
<1>3. PICK x \in S : m = n - x
  OBVIOUS
<1>4. ASSUME NEW y \in S PROVE y <= x
  <2>1. n - y \in Down /\ x \in Int /\ y \in Int
    OBVIOUS
  <2>2. n - x <= n - y
    BY <1>2, <1>3, <2>1
  <2>3. QED
    BY <2>1, <2>2
<1>5. QED
  BY <1>4

(* What holds at 0 and goes from each number to the next holds up to n. *)
LEMMA UpTo ==
    ASSUME NEW n \in Nat, NEW S, 0 \in S, \A m \in 1 .. n : m - 1 \in S => m \in S
    PROVE  0 .. n \subseteq S
<1> DEFINE B == (0 .. n) \ S
<1>1. SUFFICES ASSUME B # {} PROVE FALSE
  OBVIOUS
<1>2. B \subseteq Nat
  OBVIOUS
<1> HIDE DEF B
<1>3. PICK x \in B : \A y \in B : x <= y
  BY <1>1, <1>2, LeastOf
<1>4. x \in 0 .. n /\ x \notin S
  BY DEF B
<1>5. x # 0
  BY <1>4
<1>6. x \in 1 .. n /\ x - 1 \in 0 .. n /\ ~(x <= x - 1)
  BY <1>4, <1>5
<1>7. x - 1 \in S
  BY <1>3, <1>6 DEF B
<1>8. QED
  BY <1>4, <1>6, <1>7

-----------------------------------------------------------------------------
(* Picked: the entries of a sequence at chosen positions                   *)

(* f lists the positions at, n of them, from the first to the last. *)
Lists(f, at, n) ==
    /\ n \in Nat /\ f \in [1 .. n -> at]
    /\ \A a, b \in 1 .. n : a < b => f[a] < f[b]
    /\ \A i \in at : \E k \in 1 .. n : f[k] = i

(* A later position has a higher rank, and each rank is one position's.    *)
LEMMA RanksGrow ==
    ASSUME NEW at, at \subseteq Nat, IsFiniteSet(at)
    PROVE  /\ \A i \in at : Rank(at, i) \in 1 .. Cardinality(at)
           /\ \A i, j \in at : i < j => Rank(at, i) < Rank(at, j)
<1>1. Cardinality(at) \in Nat
  BY FS_CardinalityType
<1>2. ASSUME NEW i \in at
      PROVE  /\ Rank(at, i) \in 1 .. Cardinality(at)
             /\ IsFiniteSet({j \in at : j <= i}) /\ Cardinality({j \in at : j <= i}) \in Nat
  <2> DEFINE B == {j \in at : j <= i}
  <2>1. B \subseteq at /\ i \in B
    BY i \in Nat
  <2> HIDE DEF B
  <2>2. IsFiniteSet(B) /\ Cardinality(B) <= Cardinality(at)
    BY <2>1, FS_Subset
  <2>3. Cardinality(B) \in Nat
    BY <2>2, FS_CardinalityType
  <2>4. Cardinality(B) # 0
    BY <2>1, <2>2, FS_EmptySet
  <2>5. Cardinality(B) \in 1 .. Cardinality(at)
    BY <1>1, <2>2, <2>3, <2>4
  <2>6. QED
    BY <2>2, <2>3, <2>5 DEF Rank, B
<1>3. ASSUME NEW i \in at, NEW j \in at, i < j PROVE Rank(at, i) < Rank(at, j)
  <2> DEFINE B == {x \in at : x <= i}
             C == {x \in at : x <= j}
  <2>1. \A x \in B : x \in C
    <3> TAKE x \in B
    <3>1. x \in at /\ x <= i /\ x \in Nat /\ i \in Nat /\ j \in Nat
      OBVIOUS
    <3>2. QED
      BY <1>3, <3>1
  <2>2. j \in C /\ j \notin B
    BY <1>3, i \in Nat, j \in Nat
  <2>3. IsFiniteSet(C) /\ Cardinality(B) \in Nat /\ Cardinality(C) \in Nat
    BY <1>2 DEF Rank
  <2> HIDE DEF B, C
  <2>4. Cardinality(B) <= Cardinality(C) /\ Cardinality(B) # Cardinality(C)
    BY <2>1, <2>2, <2>3, FS_Subset
  <2>5. Cardinality(B) < Cardinality(C)
    BY <2>3, <2>4
  <2>6. QED
    BY <2>5 DEF Rank, B, C
<1>4. QED
  BY <1>2, <1>3

(* What is picked is listed by the positions in their order.               *)
PickedAs(p, s, at, A) ==
    p \in Seq(A) /\ \E f : Lists(f, at, Len(p)) /\ \A k \in 1 .. Len(p) : p[k] = s[f[k]]

LEMMA PickedFrom ==
    ASSUME NEW A, NEW s, NEW at, at \subseteq Nat, IsFiniteSet(at), \A i \in at : s[i] \in A
    PROVE  PickedAs(Picked(s, at), s, at, A)
<1> DEFINE n == Cardinality(at)
           r == [i \in at |-> Rank(at, i)]
           f == [k \in 1 .. n |-> CHOOSE i \in at : Rank(at, i) = k]
<1>1. at \subseteq Nat
  OBVIOUS
<1>2. IsFiniteSet(at) /\ n \in Nat
  BY FS_CardinalityType
<1>3. /\ \A i \in at : Rank(at, i) \in 1 .. n
      /\ \A i, j \in at : i < j => Rank(at, i) < Rank(at, j)
  BY <1>1, <1>2, RanksGrow
<1>4. ASSUME NEW i \in at, NEW j \in at, Rank(at, i) = Rank(at, j) PROVE i = j
  <2>1. i \in Nat /\ j \in Nat /\ Rank(at, i) \in Nat
    BY <1>1, <1>2, <1>3
  <2>2. ~(i < j) /\ ~(j < i)
    BY <1>3, <1>4, <2>1
  <2>3. QED
    BY <2>1, <2>2
<1>5. r \in Injection(at, 1 .. n)
  BY <1>3, <1>4 DEF Injection, IsInjective
<1>6. IsFiniteSet(1 .. n) /\ Cardinality(1 .. n) = n
  BY <1>2, FS_Interval
<1>7. r \in Surjection(at, 1 .. n)
  <2> HIDE DEF r
  <2>1. QED
    BY <1>5, <1>6, FS_Injection
<1>8. \A k \in 1 .. n : \E i \in at : Rank(at, i) = k
  BY <1>7 DEF Surjection
<1>9. \A k \in 1 .. n : f[k] \in at /\ Rank(at, f[k]) = k
  BY <1>8
<1>10. f \in [1 .. n -> at]
  BY <1>8
<1>11. Picked(s, at) = [k \in 1 .. n |-> s[f[k]]]
  BY DEF Picked
<1> HIDE DEF n, r, f
<1>12. \A a, b \in 1 .. n : a < b => f[a] < f[b]
  <2> SUFFICES ASSUME NEW a \in 1 .. n, NEW b \in 1 .. n, a < b PROVE f[a] < f[b]
    OBVIOUS
  <2>1. f[a] \in at /\ f[b] \in at /\ Rank(at, f[a]) = a /\ Rank(at, f[b]) = b
    BY <1>9
  <2>2. f[a] \in Nat /\ f[b] \in Nat /\ a \in Nat /\ b \in Nat
    <3>1. f[a] \in Nat /\ f[b] \in Nat
      BY <2>1
    <3>2. QED
      BY <1>2, <3>1
  <2>3. ~(f[b] < f[a]) /\ f[a] # f[b]
    BY <1>3, <2>1, <2>2
  <2>4. QED
    BY <2>2, <2>3
<1>13. \A i \in at : \E k \in 1 .. n : f[k] = i
  BY <1>3, <1>4, <1>9
<1>14. Picked(s, at) \in Seq(A) /\ Len(Picked(s, at)) = n
  <2>1. \A k \in 1 .. n : s[f[k]] \in A
    BY <1>9
  <2> DEFINE g == [k \in 1 .. n |-> s[f[k]]]
  <2>2. g \in [1 .. n -> A]
    BY <2>1
  <2> HIDE DEF g
  <2>3. g \in Seq(A) /\ Len(g) = n
    BY <1>2, <2>2
  <2>4. QED
    BY <1>11, <2>3 DEF g
<1>15. \A k \in 1 .. n : Picked(s, at)[k] = s[f[k]]
  BY <1>11
<1>16. Lists(f, at, n)
  BY <1>2, <1>10, <1>12, <1>13 DEF Lists
<1>17. QED
  BY <1>14, <1>15, <1>16 DEF PickedAs

LEMMA PickedIsListed ==
    ASSUME NEW A, NEW s \in Seq(A), NEW at, at \subseteq DOMAIN s
    PROVE  /\ Picked(s, at) \in Seq(A)
           /\ \E f : /\ Lists(f, at, Len(Picked(s, at)))
                     /\ \A k \in 1 .. Len(Picked(s, at)) : Picked(s, at)[k] = s[f[k]]
<1>1. DOMAIN s = 1 .. Len(s) /\ Len(s) \in Nat /\ at \subseteq Nat
  BY DOMAIN s = 1 .. Len(s)
<1>2. IsFiniteSet(at)
  <2>1. IsFiniteSet(1 .. Len(s)) /\ at \in SUBSET (1 .. Len(s))
    BY <1>1, FS_Interval
  <2>2. QED
    BY <2>1, FS_Subset
<1>3. \A i \in at : s[i] \in A
  BY <1>1, ElementOfSeq
<1>4. PickedAs(Picked(s, at), s, at, A)
  BY <1>1, <1>2, <1>3, PickedFrom
<1>5. QED
  BY <1>4 DEF PickedAs

LEMMA PickedWithin ==
    ASSUME NEW A, NEW s \in Seq(A), NEW B, NEW at, at \subseteq DOMAIN s, \A i \in at : s[i] \in B
    PROVE  Picked(s, at) \in Seq(B)
<1>1. DOMAIN s = 1 .. Len(s) /\ Len(s) \in Nat /\ at \subseteq Nat
  BY DOMAIN s = 1 .. Len(s)
<1>2. IsFiniteSet(at)
  <2>1. IsFiniteSet(1 .. Len(s)) /\ at \in SUBSET (1 .. Len(s))
    BY <1>1, FS_Interval
  <2>2. QED
    BY <2>1, FS_Subset
<1>3. PickedAs(Picked(s, at), s, at, B)
  BY <1>1, <1>2, PickedFrom
<1>4. QED
  BY <1>3 DEF PickedAs

(* Nothing but what stands at the positions is picked, and all of that.    *)
LEMMA PickedRange ==
    ASSUME NEW A, NEW s \in Seq(A), NEW at, at \subseteq DOMAIN s
    PROVE  /\ \A k \in 1 .. Len(Picked(s, at)) : \E i \in at : Picked(s, at)[k] = s[i]
           /\ \A i \in at : \E k \in 1 .. Len(Picked(s, at)) : Picked(s, at)[k] = s[i]
<1>1. PICK f : /\ Lists(f, at, Len(Picked(s, at)))
               /\ \A k \in 1 .. Len(Picked(s, at)) : Picked(s, at)[k] = s[f[k]]
  BY PickedIsListed
<1>2. QED
  BY <1>1 DEF Lists

(* All positions past p pick the rest of the sequence.                     *)
LEMMA PickedTail ==
    ASSUME NEW A, NEW s \in Seq(A), NEW p \in 0 .. Len(s)
    PROVE  Picked(s, p + 1 .. Len(s)) = SubSeq(s, p + 1, Len(s))
<1> DEFINE at == p + 1 .. Len(s)
<1>1. p \in Nat /\ Len(s) \in Nat /\ p <= Len(s)
  OBVIOUS
<1>2. Cardinality(at) = Len(s) - p
  <2>1. p + 1 \in Int /\ Len(s) \in Int
    BY <1>1
  <2>2. Cardinality(p + 1 .. Len(s)) = IF p + 1 > Len(s) THEN 0 ELSE Len(s) - (p + 1) + 1
    BY <2>1, FS_Interval
  <2>3. QED
    BY <1>1, <2>2
<1>3. ASSUME NEW i \in at PROVE Rank(at, i) = i - p
  <2>1. {j \in at : j <= i} = p + 1 .. i
    BY <1>1
  <2>2. i \in Int /\ p + 1 \in Int /\ i >= p + 1
    BY <1>1
  <2>3. Cardinality(p + 1 .. i) = IF p + 1 > i THEN 0 ELSE i - (p + 1) + 1
    BY <2>2, FS_Interval
  <2>4. Cardinality(p + 1 .. i) = i - p
    BY <1>1, <2>2, <2>3
  <2> HIDE DEF at
  <2>5. Rank(at, i) = Cardinality(p + 1 .. i)
    BY <2>1 DEF Rank
  <2>6. QED
    BY <2>4, <2>5
<1>4. ASSUME NEW k \in 1 .. Len(s) - p PROVE (CHOOSE i \in at : Rank(at, i) = k) = p + k
  <2>1. p + k \in at
    BY <1>1
  <2>2. Rank(at, p + k) = k
    BY <1>1, <1>3, <2>1
  <2>3. \A i \in at : Rank(at, i) = k => i = p + k
    <3> SUFFICES ASSUME NEW i \in at, Rank(at, i) = k PROVE i = p + k
      OBVIOUS
    <3>1. i - p = k /\ i \in Int
      BY <1>3
    <3>2. QED
      BY <1>1, <3>1
  <2> HIDE DEF at
  <2>4. QED
    BY <2>1, <2>2, <2>3
<1> HIDE DEF at
<1>5. Picked(s, at) = [k \in 1 .. Len(s) - p |-> s[p + k]]
  <2>1. Picked(s, at) = [k \in 1 .. Len(s) - p |-> s[CHOOSE i \in at : Rank(at, i) = k]]
    BY <1>2 DEF Picked
  <2>2. QED
    BY <1>4, <2>1
<1>6. SubSeq(s, p + 1, Len(s)) = [k \in 1 .. Len(s) - p |-> s[p + k]]
  <2>1. SubSeq(s, p + 1, Len(s)) = [k \in 1 .. Len(s) - (p + 1) + 1 |-> s[k + (p + 1) - 1]]
    BY <1>1
  <2>2. Len(s) - (p + 1) + 1 = Len(s) - p /\ \A k \in 1 .. Len(s) - p : k + (p + 1) - 1 = p + k
    BY <1>1
  <2>3. QED
    BY <2>1, <2>2
<1>7. QED
  BY <1>5, <1>6 DEF at

(* All positions pick the whole of it.                                     *)
LEMMA PickedAll ==
    ASSUME NEW A, NEW s \in Seq(A)
    PROVE  Picked(s, DOMAIN s) = s
<1>1. 0 \in 0 .. Len(s) /\ DOMAIN s = 0 + 1 .. Len(s)
  OBVIOUS
<1>2. Picked(s, DOMAIN s) = SubSeq(s, 1, Len(s))
  BY <1>1, PickedTail
<1>3. QED
  BY <1>2, SubSeqFull

(* What is picked for being in a set. *)
LEMMA PickedOf ==
    ASSUME NEW A, NEW s \in Seq(A), NEW S
    PROVE  LET p == Picked(s, {i \in DOMAIN s : s[i] \in S})
           IN  p \in Seq(A) /\ Range(p) = Range(s) \cap S
<1> DEFINE at == {i \in DOMAIN s : s[i] \in S}
           p == Picked(s, at)
<1>1. at \subseteq DOMAIN s /\ \A i \in at : s[i] \in S
  OBVIOUS
<1>2. \A i \in DOMAIN s : s[i] \in S => i \in at
  OBVIOUS
<1> HIDE DEF at
<1>3. /\ p \in Seq(A)
      /\ \A k \in 1 .. Len(p) : \E i \in at : p[k] = s[i]
      /\ \A i \in at : \E k \in 1 .. Len(p) : p[k] = s[i]
  BY <1>1, PickedIsListed, PickedRange
<1> HIDE DEF p
<1>4. DOMAIN p = 1 .. Len(p)
  BY <1>3
<1>5. ASSUME NEW k \in DOMAIN p PROVE p[k] \in Range(s) \cap S
  <2>1. PICK i \in at : p[k] = s[i]
    BY <1>3, <1>4
  <2>2. QED
    BY <1>1, <2>1 DEF Range
<1>6. ASSUME NEW i \in DOMAIN s, s[i] \in S PROVE s[i] \in Range(p)
  <2>1. PICK k \in 1 .. Len(p) : p[k] = s[i]
    BY <1>2, <1>3, <1>6
  <2>2. QED
    BY <1>4, <2>1 DEF Range
<1>7. Range(p) = Range(s) \cap S
  BY <1>5, <1>6 DEF Range
<1>8. QED
  BY <1>3, <1>7 DEF p, at

-----------------------------------------------------------------------------
(* Sequences in general.                                                   *)

(* A function on an initial part of the positive numbers is a sequence.    *)
LEMMA FunctionIsSeq ==
    ASSUME NEW A, NEW n \in Nat, NEW f \in [1 .. n -> A]
    PROVE  f \in Seq(A) /\ Len(f) = n
OBVIOUS

(* Where the elements of a concatenation come from. *)
LEMMA ConcatSplit ==
    ASSUME NEW T, NEW s \in Seq(T), NEW u \in Seq(T), NEW t, t = s \o u
    PROVE  /\ t \in Seq(T) /\ Len(t) = Len(s) + Len(u)
           /\ \A k \in 1 .. Len(s) : t[k] = s[k] /\ k \in 1 .. Len(t)
           /\ \A k \in 1 .. Len(u) : t[Len(s) + k] = u[k] /\ Len(s) + k \in 1 .. Len(t)
           /\ \A k \in 1 .. Len(t) :
                 k \in 1 .. Len(s) \/ (k - Len(s) \in 1 .. Len(u) /\ t[k] = u[k - Len(s)] /\ k > Len(s))
<1>1. /\ t \in Seq(T) /\ Len(t) = Len(s) + Len(u)
      /\ \A k \in 1 .. Len(s) + Len(u) : t[k] = IF k <= Len(s) THEN s[k] ELSE u[k - Len(s)]
  BY ConcatProperties
<1>2. Len(s) \in Nat /\ Len(u) \in Nat
  OBVIOUS
<1> DEFINE m == Len(s)
           n == Len(u)
<1>3. /\ \A k \in 1 .. m : t[k] = s[k] /\ k \in 1 .. Len(t)
      /\ \A k \in 1 .. n : t[m + k] = u[k] /\ m + k \in 1 .. Len(t)
      /\ \A k \in 1 .. Len(t) : k \in 1 .. m \/ (k - m \in 1 .. n /\ t[k] = u[k - m] /\ k > m)
  BY <1>1, <1>2
<1>4. QED
  BY <1>1, <1>3

(* SetToSeq lists a finite set, each element once. *)
LEMMA SetListed ==
    ASSUME NEW S, IsFiniteSet(S)
    PROVE  /\ SetToSeq(S) \in Seq(S)
           /\ \A x \in S : \E k \in 1 .. Len(SetToSeq(S)) : SetToSeq(S)[k] = x
           /\ \A j, k \in 1 .. Len(SetToSeq(S)) : SetToSeq(S)[j] = SetToSeq(S)[k] => j = k
<1> DEFINE n == Cardinality(S)
           f == SetToSeq(S)
<1>1. n \in Nat /\ Bijection(1..n, S) # {}
  BY FS_CardinalityType DEF ExistsBijection
<1>2. \E g \in [1..n -> S] : IsInjective(g)
  BY <1>1 DEF Bijection, Injection
<1>3. f \in [1..n -> S] /\ IsInjective(f)
  BY <1>2 DEF SetToSeq
<1>4. Cardinality(1..n) = n
  BY <1>1, FS_Interval
<1> HIDE DEF f
<1>5. f \in Injection(1..n, S)
  BY <1>3 DEF Injection
<1>6. f \in Surjection(1..n, S)
  BY <1>4, <1>5, FS_Injection
<1>7. f \in Seq(S) /\ Len(f) = n
  BY <1>1, <1>3
<1>8. \A x \in S : \E k \in 1 .. Len(f) : f[k] = x
  BY <1>6, <1>7 DEF Surjection
<1>9. \A j, k \in 1 .. Len(f) : f[j] = f[k] => j = k
  BY <1>3, <1>7 DEF IsInjective
<1>10. QED
  BY <1>7, <1>8, <1>9 DEF f

(* T holds one row for each member in S, in the state g gives it. *)
RowsOf(T, r, S, g) == g \in [S -> {"started", "done", "failed"}] /\ \A x : x \in T <=> \E i \in S : x = <<<<r, i>>, g[i]>>

(* A sequence, of whatever. *)
IsSequence(s) == \E S : s \in Seq(S)

(* The empty one is a sequence. *)
LEMMA EmptyIsSequence == IsSequence(<<>>)
<1>1. <<>> \in Seq({})
  OBVIOUS
<1>2. QED
  BY <1>1 DEF IsSequence

(* Two sequences are sequences over one set. *)
LEMMA TwoSequences ==
    ASSUME NEW s, NEW t, IsSequence(s), IsSequence(t)
    PROVE  \E S : s \in Seq(S) /\ t \in Seq(S)
<1>1. PICK A, B : s \in Seq(A) /\ t \in Seq(B)
  BY DEF IsSequence
<1>2. s \in Seq(A \cup B) /\ t \in Seq(A \cup B)
  BY <1>1, SeqMonotonic
<1>3. QED
  BY <1>2

(* A sequence has a length, and a place for each number up to it. *)
LEMMA SequenceLength ==
    ASSUME NEW s, IsSequence(s)
    PROVE  Len(s) \in Nat /\ DOMAIN s = 1 .. Len(s)
  BY DEF IsSequence

(* A concatenation is one sequence and then the other. *)
LEMMA JoinedSequence ==
    ASSUME NEW s, NEW t, IsSequence(s), IsSequence(t)
    PROVE  /\ IsSequence(s \o t) /\ Len(s) \in Nat /\ Len(t) \in Nat
           /\ DOMAIN s = 1 .. Len(s) /\ DOMAIN t = 1 .. Len(t)
           /\ Len(s \o t) = Len(s) + Len(t)
           /\ \A i \in 1 .. Len(s) : (s \o t)[i] = s[i]
           /\ \A i \in 1 .. Len(t) : (s \o t)[Len(s) + i] = t[i]
<1>1. PICK S : s \in Seq(S) /\ t \in Seq(S)
  BY TwoSequences
<1>2. s \o t \in Seq(S) /\ IsSequence(s \o t)
  BY <1>1 DEF IsSequence
<1>3. QED
  BY <1>1, <1>2

(* r is s followed by t. *)
JoinOf(r, s, t) ==
    /\ IsSequence(r) /\ Len(s) \in Nat /\ Len(t) \in Nat
    /\ Len(r) = Len(s) + Len(t)
    /\ \A i \in 1 .. Len(s) : r[i] = s[i]
    /\ \A i \in 1 .. Len(t) : r[Len(s) + i] = t[i]

(* The same, in one formula. *)
LEMMA ConcatAre ==
    ASSUME NEW s, NEW t, IsSequence(s), IsSequence(t)
    PROVE  JoinOf(s \o t, s, t)
  BY JoinedSequence DEF JoinOf

(* A sequence with one more element. *)
LEMMA LongerSequence ==
    ASSUME NEW s, IsSequence(s), NEW x
    PROVE  /\ IsSequence(Append(s, x)) /\ Len(s) \in Nat /\ DOMAIN s = 1 .. Len(s)
           /\ Len(Append(s, x)) = Len(s) + 1
           /\ \A i \in 1 .. Len(s) : Append(s, x)[i] = s[i]
           /\ Append(s, x)[Len(s) + 1] = x
<1>0. IsSequence(<<x>>)
  <2>1. <<x>> \in Seq({x})
    OBVIOUS
  <2>2. QED
    BY <2>1 DEF IsSequence
<1>1. PICK S : s \in Seq(S) /\ <<x>> \in Seq(S)
  BY <1>0, TwoSequences
<1>2. x \in S
  BY <1>1
<1>3. Append(s, x) \in Seq(S) /\ IsSequence(Append(s, x))
  BY <1>1, <1>2 DEF IsSequence
<1>4. QED
  BY <1>1, <1>2, <1>3

(* What stands in a concatenation, and in a set that was listed. *)
LEMMA RangeConcat ==
    ASSUME NEW s, NEW t, IsSequence(s), IsSequence(t)
    PROVE  Range(s \o t) = Range(s) \cup Range(t)
<1> DEFINE r == s \o t
           n == Len(s)
<1>1. JoinOf(r, s, t)
  BY ConcatAre
<1> HIDE DEF r
<1>2. /\ DOMAIN r = 1 .. Len(r) /\ DOMAIN s = 1 .. n /\ DOMAIN t = 1 .. Len(t)
      /\ n \in Nat /\ Len(t) \in Nat /\ Len(r) = n + Len(t)
  BY <1>1, SequenceLength DEF JoinOf
<1>3. /\ \A i \in DOMAIN s : i \in DOMAIN r /\ r[i] = s[i]
      /\ \A i \in DOMAIN t : n + i \in DOMAIN r /\ r[n + i] = t[i]
  BY <1>1, <1>2 DEF JoinOf
<1>4. ASSUME NEW k \in DOMAIN r PROVE r[k] \in Range(s) \cup Range(t)
  <2>1. CASE k \in 1 .. n
    BY <1>2, <1>3, <2>1 DEF Range
  <2>2. CASE k \notin 1 .. n
    <3>1. k - n \in DOMAIN t /\ k = n + (k - n)
      BY <1>2, <2>2
    <3>2. r[k] = t[k - n]
      BY <1>3, <3>1
    <3>3. QED
      BY <3>1, <3>2 DEF Range
  <2>3. QED
    BY <2>1, <2>2
<1>5. \A y \in Range(s) \cup Range(t) : y \in Range(r)
  BY <1>3 DEF Range
<1>6. \A y \in Range(r) : y \in Range(s) \cup Range(t)
  BY <1>4 DEF Range
<1>7. QED
  BY <1>5, <1>6 DEF r

LEMMA RangeListed == ASSUME NEW S, IsFiniteSet(S) PROVE IsSequence(SetToSeq(S)) /\ Range(SetToSeq(S)) = S
<1> DEFINE f == SetToSeq(S)
<1>1. f \in Seq(S) /\ \A x \in S : \E k \in 1 .. Len(f) : f[k] = x
  BY SetListed
<1> HIDE DEF f
<1>2. DOMAIN f = 1 .. Len(f) /\ \A k \in DOMAIN f : f[k] \in S
  BY <1>1
<1>3. Range(f) = S
  BY <1>1, <1>2 DEF Range
<1>4. QED
  BY <1>1, <1>3 DEF f, IsSequence

-----------------------------------------------------------------------------
(* A stream of events of which the latest of a kind counts: the events of  *)
(* the kinds K about s, or about anything where s is 0.                    *)

Bears(e, K, s) == e.ev \in K /\ (s = 0 \/ e.tab = s)
Unsaid(w, K, s) == \A i \in 1 .. Len(w) : ~Bears(w[i], K, s)
LatestIs(w, K, s, e) ==
    \E i \in 1 .. Len(w) : w[i] = e /\ Bears(e, K, s) /\ \A j \in i + 1 .. Len(w) : ~Bears(w[j], K, s)

(* What was latest stays so until something of the kind follows it. *)
LEMMA StreamGrows ==
    ASSUME NEW w, NEW es, IsSequence(w), IsSequence(es), NEW K, NEW s
    PROVE  /\ Unsaid(es, K, s) /\ Unsaid(w, K, s) => Unsaid(w \o es, K, s)
           /\ \A e : Unsaid(es, K, s) /\ LatestIs(w, K, s, e) => LatestIs(w \o es, K, s, e)
           /\ \A e : LatestIs(es, K, s, e) => LatestIs(w \o es, K, s, e)
<1> DEFINE r == w \o es
           n == Len(w)
           m == Len(es)
<1>1. JoinOf(r, w, es)
  BY ConcatAre
<1> HIDE DEF r
<1>2. /\ n \in Nat /\ m \in Nat /\ Len(r) = n + m
      /\ \A i \in 1 .. n : r[i] = w[i]
      /\ \A i \in 1 .. m : r[n + i] = es[i]
  BY <1>1 DEF JoinOf
<1> HIDE DEF n, m
<1>3. ASSUME NEW i \in 1 .. n + m PROVE i \in 1 .. n \/ (i - n \in 1 .. m /\ r[i] = es[i - n] /\ i > n)
  <2>1. i \in 1 .. n \/ (i - n \in 1 .. m /\ n + (i - n) = i /\ i > n)
    BY <1>2
  <2>2. QED
    BY <1>2, <2>1
<1>4. ASSUME Unsaid(es, K, s) PROVE \A i \in 1 .. n + m : i > n => ~Bears(r[i], K, s)
  <2>1. ASSUME NEW i \in 1 .. n + m, i > n PROVE ~Bears(r[i], K, s)
    <3>1. i - n \in 1 .. m /\ r[i] = es[i - n]
      BY <1>2, <1>3, <2>1
    <3>2. QED
      BY <1>4, <3>1 DEF Unsaid, m
  <2>2. QED
    BY <2>1
<1>5. ASSUME Unsaid(es, K, s), Unsaid(w, K, s) PROVE Unsaid(r, K, s)
  <2>1. \A i \in 1 .. n : ~Bears(r[i], K, s)
    BY <1>2, <1>5 DEF Unsaid, n
  <2>2. ASSUME NEW i \in 1 .. n + m PROVE ~Bears(r[i], K, s)
    BY <1>3, <1>4, <1>5, <2>1
  <2>3. QED
    BY <1>2, <2>2 DEF Unsaid
<1>6. ASSUME NEW e, Unsaid(es, K, s), LatestIs(w, K, s, e) PROVE LatestIs(r, K, s, e)
  <2>1. PICK i \in 1 .. n : w[i] = e /\ Bears(e, K, s) /\ \A j \in i + 1 .. n : ~Bears(w[j], K, s)
    BY <1>6 DEF LatestIs, n
  <2>2. i \in 1 .. n + m /\ r[i] = e
    BY <1>2, <2>1
  <2>3. ASSUME NEW j \in i + 1 .. n + m PROVE ~Bears(r[j], K, s)
    <3>1. j \in 1 .. n + m
      BY <1>2, <2>1
    <3>2. CASE j \in 1 .. n
      <4>1. j \in i + 1 .. n /\ r[j] = w[j]
        BY <1>2, <3>2
      <4>2. QED
        BY <2>1, <4>1
    <3>3. CASE j > n
      BY <1>4, <1>6, <3>1, <3>3
    <3>4. QED
      BY <1>3, <3>1, <3>2, <3>3
  <2>4. QED
    BY <1>2, <2>1, <2>2, <2>3 DEF LatestIs
<1>7. ASSUME NEW e, LatestIs(es, K, s, e) PROVE LatestIs(r, K, s, e)
  <2>1. PICK i \in 1 .. m : es[i] = e /\ Bears(e, K, s) /\ \A j \in i + 1 .. m : ~Bears(es[j], K, s)
    BY <1>7 DEF LatestIs, m
  <2>2. n + i \in 1 .. n + m /\ r[n + i] = e
    BY <1>2, <2>1
  <2>3. ASSUME NEW j \in n + i + 1 .. n + m PROVE ~Bears(r[j], K, s)
    <3>1. j - n \in i + 1 .. m /\ j \in 1 .. n + m /\ j \notin 1 .. n
      BY <1>2, <2>1
    <3>2. r[j] = es[j - n]
      BY <1>3, <3>1
    <3>3. QED
      BY <2>1, <3>1, <3>2
  <2>4. QED
    BY <1>2, <2>1, <2>2, <2>3 DEF LatestIs
<1>8. QED
  BY <1>5, <1>6, <1>7 DEF r

(* Taking the first event. *)
LEMMA StreamMoves ==
    ASSUME NEW w, IsSequence(w), w # <<>>, NEW K, NEW s
    PROVE  /\ IsSequence(Tail(w)) /\ Head(w) = w[1] /\ 1 \in 1 .. Len(w)
           /\ \A i \in 1 .. Len(Tail(w)) : i + 1 \in 1 .. Len(w) /\ Tail(w)[i] = w[i + 1]
           /\ Unsaid(w, K, s) => Unsaid(Tail(w), K, s) /\ ~Bears(Head(w), K, s)
           /\ \A e : LatestIs(w, K, s, e) =>
                         LatestIs(Tail(w), K, s, e) \/ (Head(w) = e /\ Bears(e, K, s) /\ Unsaid(Tail(w), K, s))
<1> DEFINE t == Tail(w)
           n == Len(w)
           m == Len(t)
<1>1. PICK S : w \in Seq(S)
  BY DEF IsSequence
<1>2. /\ t \in Seq(S) /\ n \in Nat /\ n >= 1 /\ m = n - 1 /\ Head(w) = w[1]
      /\ \A i \in 1 .. m : t[i] = w[i + 1]
  BY <1>1
<1> HIDE DEF t, n, m
<1>3. IsSequence(t)
  BY <1>2 DEF IsSequence
<1>4. \A i \in 1 .. m : i + 1 \in 1 .. n
  BY <1>2
<1>5. ASSUME Unsaid(w, K, s) PROVE Unsaid(t, K, s) /\ ~Bears(w[1], K, s)
  <2>1. \A i \in 1 .. n : ~Bears(w[i], K, s)
    BY <1>5 DEF Unsaid, n
  <2>2. 1 \in 1 .. n
    BY <1>2
  <2>3. QED
    BY <1>2, <1>4, <2>1, <2>2 DEF Unsaid, m
<1>6. ASSUME NEW e, LatestIs(w, K, s, e)
      PROVE  LatestIs(t, K, s, e) \/ (w[1] = e /\ Bears(e, K, s) /\ Unsaid(t, K, s))
  <2>1. PICK i \in 1 .. n : w[i] = e /\ Bears(e, K, s) /\ \A j \in i + 1 .. n : ~Bears(w[j], K, s)
    BY <1>6 DEF LatestIs, n
  <2>2. CASE i = 1
    <3>1. \A j \in 1 .. m : j + 1 \in i + 1 .. n
      BY <1>2, <2>2
    <3>2. QED
      BY <1>2, <2>1, <2>2, <3>1 DEF Unsaid, m
  <2>3. CASE i # 1
    <3>1. i - 1 \in 1 .. m /\ (i - 1) + 1 = i /\ \A j \in (i - 1) + 1 .. m : j \in 1 .. m /\ j + 1 \in i + 1 .. n
      BY <1>2, <2>1, <2>3
    <3>2. t[i - 1] = e
      BY <1>2, <2>1, <3>1
    <3>3. \A j \in (i - 1) + 1 .. m : ~Bears(t[j], K, s)
      BY <1>2, <2>1, <3>1
    <3>4. LatestIs(t, K, s, e)
      BY <2>1, <3>1, <3>2, <3>3 DEF LatestIs, m
    <3>5. QED
      BY <3>4
  <2>4. QED
    BY <2>2, <2>3
<1>7. 1 \in 1 .. n
  BY <1>2
<1>8. QED
  BY <1>2, <1>3, <1>4, <1>5, <1>6, <1>7 DEF t, n, m

(* A few events sent together. *)
LEMMA OneEvent ==
    ASSUME NEW a
    PROVE  /\ IsSequence(<<a>>) /\ Len(<<a>>) = 1 /\ <<a>>[1] = a
           /\ \A K, s : ~Bears(a, K, s) => Unsaid(<<a>>, K, s)
           /\ \A K, s : Bears(a, K, s) => LatestIs(<<a>>, K, s, a)
<1> DEFINE w == <<a>>
<1>1. w \in Seq({a}) /\ Len(w) = 1 /\ w[1] = a
  OBVIOUS
<1> HIDE DEF w
<1>2. \A i \in 1 .. Len(w) : i = 1 /\ 1 \in 1 .. Len(w) /\ \A j \in 1 + 1 .. Len(w) : FALSE
  BY <1>1
<1>3. 1 \in 1 .. Len(w) /\ \A j \in 1 + 1 .. Len(w) : FALSE
  BY <1>1
<1>4. IsSequence(w)
  BY <1>1 DEF IsSequence
<1>5. ASSUME NEW K, NEW s, ~Bears(a, K, s) PROVE Unsaid(w, K, s)
  BY <1>1, <1>2, <1>5 DEF Unsaid
<1>6. ASSUME NEW K, NEW s, Bears(a, K, s) PROVE LatestIs(w, K, s, a)
  BY <1>1, <1>3, <1>6 DEF LatestIs
<1>7. QED
  BY <1>1, <1>4, <1>5, <1>6 DEF w

LEMMA TwoEvents ==
    ASSUME NEW a, NEW b
    PROVE  /\ IsSequence(<<a, b>>) /\ Len(<<a, b>>) = 2 /\ <<a, b>>[1] = a /\ <<a, b>>[2] = b
           /\ \A K, s : ~Bears(a, K, s) /\ ~Bears(b, K, s) => Unsaid(<<a, b>>, K, s)
           /\ \A K, s : Bears(a, K, s) /\ ~Bears(b, K, s) => LatestIs(<<a, b>>, K, s, a)
           /\ \A K, s : Bears(b, K, s) => LatestIs(<<a, b>>, K, s, b)
<1> DEFINE w == <<a, b>>
<1>1. w \in Seq({a, b}) /\ Len(w) = 2 /\ w[1] = a /\ w[2] = b
  OBVIOUS
<1> HIDE DEF w
<1>2. \A i \in 1 .. Len(w) : i \in {1, 2}
  BY <1>1
<1>3. /\ 1 \in 1 .. Len(w) /\ \A j \in 1 + 1 .. Len(w) : j = 2
      /\ 2 \in 1 .. Len(w) /\ \A j \in 2 + 1 .. Len(w) : FALSE
  BY <1>1
<1>4. IsSequence(w)
  BY <1>1 DEF IsSequence
<1>5. ASSUME NEW K, NEW s, ~Bears(a, K, s), ~Bears(b, K, s) PROVE Unsaid(w, K, s)
  BY <1>1, <1>2, <1>5 DEF Unsaid
<1>6. ASSUME NEW K, NEW s, Bears(a, K, s), ~Bears(b, K, s) PROVE LatestIs(w, K, s, a)
  <2>1. \A j \in 1 + 1 .. Len(w) : ~Bears(w[j], K, s)
    BY <1>1, <1>3, <1>6
  <2>2. QED
    BY <1>1, <1>3, <1>6, <2>1 DEF LatestIs
<1>7. ASSUME NEW K, NEW s, Bears(b, K, s) PROVE LatestIs(w, K, s, b)
  <2>1. \A j \in 2 + 1 .. Len(w) : ~Bears(w[j], K, s)
    BY <1>3
  <2>2. QED
    BY <1>1, <1>3, <1>7, <2>1 DEF LatestIs
<1>8. QED
  BY <1>1, <1>4, <1>5, <1>6, <1>7 DEF w

LEMMA ThreeEvents ==
    ASSUME NEW a, NEW b, NEW c
    PROVE  /\ IsSequence(<<a, b, c>>) /\ Len(<<a, b, c>>) = 3
           /\ <<a, b, c>>[1] = a /\ <<a, b, c>>[2] = b /\ <<a, b, c>>[3] = c
           /\ \A K, s : ~Bears(a, K, s) /\ ~Bears(b, K, s) /\ ~Bears(c, K, s) => Unsaid(<<a, b, c>>, K, s)
           /\ \A K, s : Bears(a, K, s) /\ ~Bears(b, K, s) /\ ~Bears(c, K, s) => LatestIs(<<a, b, c>>, K, s, a)
           /\ \A K, s : Bears(b, K, s) /\ ~Bears(c, K, s) => LatestIs(<<a, b, c>>, K, s, b)
<1> DEFINE w == <<a, b, c>>
<1>1. w \in Seq({a, b, c}) /\ Len(w) = 3 /\ w[1] = a /\ w[2] = b /\ w[3] = c
  OBVIOUS
<1> HIDE DEF w
<1>2. \A i \in 1 .. Len(w) : i \in {1, 2, 3}
  BY <1>1
<1>3. /\ 1 \in 1 .. Len(w) /\ \A j \in 1 + 1 .. Len(w) : j \in {2, 3}
      /\ 2 \in 1 .. Len(w) /\ \A j \in 2 + 1 .. Len(w) : j = 3
  BY <1>1
<1>4. IsSequence(w)
  BY <1>1 DEF IsSequence
<1>5. ASSUME NEW K, NEW s, ~Bears(a, K, s), ~Bears(b, K, s), ~Bears(c, K, s) PROVE Unsaid(w, K, s)
  BY <1>1, <1>2, <1>5 DEF Unsaid
<1>6. ASSUME NEW K, NEW s, Bears(a, K, s), ~Bears(b, K, s), ~Bears(c, K, s) PROVE LatestIs(w, K, s, a)
  <2>1. \A j \in 1 + 1 .. Len(w) : ~Bears(w[j], K, s)
    BY <1>1, <1>3, <1>6
  <2>2. QED
    BY <1>1, <1>3, <1>6, <2>1 DEF LatestIs
<1>7. ASSUME NEW K, NEW s, Bears(b, K, s), ~Bears(c, K, s) PROVE LatestIs(w, K, s, b)
  <2>1. \A j \in 2 + 1 .. Len(w) : ~Bears(w[j], K, s)
    BY <1>1, <1>3, <1>7
  <2>2. QED
    BY <1>1, <1>3, <1>7, <2>1 DEF LatestIs
<1>8. QED
  BY <1>1, <1>4, <1>5, <1>6, <1>7 DEF w

(* t is s with the element at n replaced by x. *)
ReplacedBy(t, s, n, x) ==
    /\ IsSequence(t) /\ Len(t) = Len(s)
    /\ \A k \in 1 .. Len(s) : t[k] = IF k = n THEN x ELSE s[k]

LEMMA ReplacedSequence ==
    ASSUME NEW s, IsSequence(s), NEW n \in 1 .. Len(s), NEW x
    PROVE  ReplacedBy([s EXCEPT ![n] = x], s, n, x)
<1>1. PICK S : s \in Seq(S)
  BY DEF IsSequence
<1> DEFINE T == S \cup {x}
           t == [s EXCEPT ![n] = x]
<1>2. DOMAIN s = 1 .. Len(s) /\ Len(s) \in Nat
  BY <1>1
<1>3. \A k \in 1 .. Len(s) : s[k] \in T
  BY <1>1
<1>4. DOMAIN t = 1 .. Len(s) /\ \A k \in 1 .. Len(s) : t[k] = IF k = n THEN x ELSE s[k]
  BY <1>2
<1>5. \A k \in 1 .. Len(s) : t[k] \in T
  BY <1>3, <1>4
<1>6. t = [k \in 1 .. Len(s) |-> t[k]]
  BY <1>2
<1>7. t \in Seq(T) /\ Len(t) = Len(s)
  <2> HIDE DEF T, t
  <2>1. t \in [1 .. Len(s) -> T]
    BY <1>5, <1>6
  <2>2. QED
    BY <1>2, <2>1, FunctionIsSeq
<1>8. IsSequence(t)
  BY <1>7 DEF IsSequence
<1>9. QED
  BY <1>4, <1>7, <1>8 DEF ReplacedBy
=============================================================================
