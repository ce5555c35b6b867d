----------------------------- MODULE FoldTheorems -----------------------------
(***************************************************************************)
(* What FoldLeft computes, for an operator Op given to an instance of this *)
(* module, and the inductions that show it.                                *)
(*                                                                         *)
(* Induction is stated with sets: a set of natural numbers (of sequences)  *)
(* with a base and closed under the step has them all.  It follows from    *)
(* the well-foundedness of < by WFMin, neither of which needs an operator  *)
(* for the claim.                                                          *)
(***************************************************************************)
EXTENDS Integers, SequencesExt, SequenceTheorems, WellFoundedInduction, TLAPS

CONSTANT Op(_, _)

-----------------------------------------------------------------------------
(* Numbers *)

Less == {p \in Nat \X Nat : p[1] < p[2]}

LEMMA LessIsWellFounded == IsWellFoundedOn(Less, Nat)
BY NatLessThanWellFounded DEF OpToRel, Less

\* A set of natural numbers that is not empty has a least element.
THEOREM LeastNumber ==
    ASSUME NEW S, S \subseteq Nat, S # {}
    PROVE  \E x \in S : \A y \in S : x <= y
<1>1. PICK x \in S : \A y \in S : <<y, x>> \notin Less
  BY LessIsWellFounded, WFMin
<1>2. ASSUME NEW y \in S PROVE x <= y
  <2>1. x \in Nat /\ y \in Nat /\ <<y, x>> \in Nat \X Nat /\ <<y, x>> \notin Less
    BY <1>1
  <2>2. ~(y < x)
    BY <2>1 DEF Less
  <2> QED BY <2>1, <2>2
<1> QED BY <1>2

\* Induction over the natural numbers.
THEOREM NumberInduction ==
    ASSUME NEW S, 0 \in S, \A n \in Nat : n \in S => n + 1 \in S
    PROVE  \A n \in Nat : n \in S
<1> DEFINE T == Nat \ S
<1> SUFFICES ASSUME T # {} PROVE FALSE
  OBVIOUS
<1>1. PICK x \in T : \A y \in T : x <= y
  <2>1. T \subseteq Nat
    OBVIOUS
  <2> HIDE DEF T
  <2> QED BY <2>1, LeastNumber
<1>2. x \in Nat /\ x # 0 /\ x \notin S
  BY <1>1
<1>3. x - 1 \in Nat /\ ~(x <= x - 1) /\ (x - 1) + 1 = x
  BY <1>2
<1>4. x - 1 \in S
  BY <1>1, <1>3
<1> QED BY <1>2, <1>3, <1>4

\* Min of a set of natural numbers that is not empty, as of SequencesExt.
THEOREM MinIs ==
    ASSUME NEW S, S \subseteq Nat, S # {}
    PROVE  Min(S) \in S /\ \A y \in S : Min(S) <= y
BY LeastNumber DEF Min

\* Max of a bounded one.
THEOREM MaxIs ==
    ASSUME NEW n \in Nat, NEW S, S \subseteq 0 .. n, S # {}
    PROVE  Max(S) \in S /\ \A y \in S : y <= Max(S)
<1> DEFINE D == {n - x : x \in S}
<1>1. D \subseteq Nat /\ D # {}
  <2>1. \A x \in S : x \in 0 .. n /\ n - x \in Nat
    OBVIOUS
  <2>2. PICK x \in S : TRUE
    OBVIOUS
  <2> QED BY <2>1, <2>2
<1>2. PICK d \in D : \A c \in D : d <= c
  <2> HIDE DEF D
  <2> QED BY <1>1, LeastNumber
<1>3. PICK x \in S : d = n - x
  BY <1>2
<1>4. ASSUME NEW y \in S PROVE x >= y
  <2>1. n - x <= n - y
    BY <1>2, <1>3
  <2> QED BY <2>1
<1>5. \E m \in S : \A y \in S : m >= y
  BY <1>4
<1>6. Max(S) \in S /\ \A y \in S : Max(S) >= y
  BY <1>5 DEF Max
<1> QED
  <2>1. \A y \in S : y \in Int
    OBVIOUS
  <2> QED BY <1>6, <2>1

-----------------------------------------------------------------------------
(* Sequences *)

\* Induction over the sequences of a set.
THEOREM SequenceInduction ==
    ASSUME NEW E, NEW S, <<>> \in S,
           \A s \in Seq(E), e \in E : s \in S => Append(s, e) \in S
    PROVE  \A s \in Seq(E) : s \in S
<1> DEFINE T == {n \in Nat : \A s \in Seq(E) : Len(s) = n => s \in S}
<1>1. 0 \in T
  BY EmptySeq
<1>2. ASSUME NEW n \in Nat, n \in T PROVE n + 1 \in T
  <2> SUFFICES ASSUME NEW s \in Seq(E), Len(s) = n + 1 PROVE s \in S
    OBVIOUS
  <2>1. s # <<>>
    BY EmptySeq
  <2>2. PICK r \in Seq(E), e \in E : s = Append(r, e)
    BY <2>1, SequenceEmptyOrAppend
  <2>3. Len(r) = n
    BY <2>2, AppendProperties, LenProperties
  <2>4. r \in S
    BY <1>2, <2>3
  <2> QED BY <2>2, <2>4
<1>3. \A n \in Nat : n \in T
  <2>1. \A n \in Nat : n \in T => n + 1 \in T
    BY <1>2
  <2> HIDE DEF T
  <2> QED BY <1>1, <2>1, NumberInduction
<1> QED BY <1>3, LenProperties

-----------------------------------------------------------------------------
(* Folds *)

Fold(base, s) == FoldLeft(Op, base, s)

\* The function FoldLeft is defined with: it has the result for any set of
\* indices, taken from the greatest down.
Iterates(it, base, s, n) ==
    it = [t \in SUBSET (1 .. n) |-> IF t = {} THEN base ELSE Op(it[t \ {Max(t)}], s[Max(t)])]

LEMMA FoldIs ==
    ASSUME NEW base, NEW s, NEW n \in Nat, DOMAIN s = 1 .. n
    PROVE  Fold(base, s) = (CHOOSE it : Iterates(it, base, s, n))[1 .. n]
<1>1. Fold(base, s) =
        (CHOOSE it : it = [t \in SUBSET DOMAIN s |->
                             IF t = {} THEN base ELSE Op(it[t \ {Max(t)}], s[Max(t)])])[DOMAIN s]
  BY DEF Fold, FoldLeft, MapThenFoldSet
<1> QED BY <1>1 DEF Iterates

LEMMA WithoutMax ==
    ASSUME NEW n \in Nat, NEW t \in SUBSET (1 .. n + 1), t # {}
    PROVE  Max(t) \in 1 .. n + 1 /\ t \ {Max(t)} \in SUBSET (1 .. n)
<1>1. n + 1 \in Nat /\ t \subseteq 0 .. n + 1
  OBVIOUS
<1>2. Max(t) \in t /\ \A y \in t : y <= Max(t)
  BY <1>1, MaxIs
<1>3. Max(t) \in 1 .. n + 1
  BY <1>2
<1>4. ASSUME NEW y \in t, y # Max(t) PROVE y \in 1 .. n
  <2>1. y \in 1 .. n + 1 /\ y <= Max(t)
    BY <1>2, <1>4
  <2> QED BY <1>3, <1>4, <2>1
<1> QED BY <1>3, <1>4

LEMMA Iterable ==
    ASSUME NEW base, NEW s
    PROVE  \A n \in Nat : \E it : Iterates(it, base, s, n)
<1> DEFINE T == {n \in Nat : \E it : Iterates(it, base, s, n)}
<1>1. 0 \in T
  <2> DEFINE it == [t \in SUBSET (1 .. 0) |-> base]
  <2>1. SUBSET (1 .. 0) = {{}}
    OBVIOUS
  <2>2. Iterates(it, base, s, 0)
    BY <2>1 DEF Iterates
  <2> QED BY <2>2
<1>2. ASSUME NEW n \in Nat, n \in T PROVE n + 1 \in T
  <2>1. PICK it : Iterates(it, base, s, n)
    BY <1>2
  <2> DEFINE of(t) == IF t = {} THEN base ELSE Op(it[t \ {Max(t)}], s[Max(t)])
             ex == [t \in SUBSET (1 .. n + 1) |-> of(t)]
  <2>2. ASSUME NEW t \in SUBSET (1 .. n) PROVE it[t] = of(t) /\ ex[t] = it[t]
    <3>1. it[t] = of(t)
      BY <2>1 DEF Iterates
    <3>2. t \in SUBSET (1 .. n + 1)
      OBVIOUS
    <3> QED BY <3>1, <3>2
  <2>3. ASSUME NEW t \in SUBSET (1 .. n + 1)
        PROVE  ex[t] = IF t = {} THEN base ELSE Op(ex[t \ {Max(t)}], s[Max(t)])
    <3>1. CASE t = {}
      BY <3>1
    <3>2. CASE t # {}
      <4>1. t \ {Max(t)} \in SUBSET (1 .. n)
        BY <3>2, WithoutMax
      <4>2. ex[t \ {Max(t)}] = it[t \ {Max(t)}]
        BY <2>2, <4>1
      <4> QED BY <3>2, <4>2
    <3> QED BY <3>1, <3>2
  <2>4. Iterates(ex, base, s, n + 1)
    BY <2>3 DEF Iterates
  <2> QED BY <2>4
<1>3. \A n \in Nat : n \in T => n + 1 \in T
  BY <1>2
<1> HIDE DEF T
<1>4. \A n \in Nat : n \in T
  BY <1>1, <1>3, NumberInduction
<1> QED BY <1>4 DEF T

LEMMA FoldIterates ==
    ASSUME NEW base, NEW s, NEW n \in Nat, DOMAIN s = 1 .. n
    PROVE  \E it : Iterates(it, base, s, n) /\ Fold(base, s) = it[1 .. n]
<1> DEFINE it == CHOOSE i : Iterates(i, base, s, n)
<1>1. Iterates(it, base, s, n)
  BY Iterable
<1>2. Fold(base, s) = it[1 .. n]
  BY FoldIs
<1> QED BY <1>1, <1>2

\* Indices beyond those of a set do not matter to it.
LEMMA SamePrefix ==
    ASSUME NEW base, NEW s, NEW r, NEW n \in Nat, NEW m \in Nat, n <= m,
           \A i \in 1 .. n : r[i] = s[i],
           NEW it, Iterates(it, base, s, n),
           NEW ex, Iterates(ex, base, r, m)
    PROVE  it[1 .. n] = ex[1 .. n]
<1> DEFINE T == {k \in Nat : k <= n => \A t \in SUBSET (1 .. k) : it[t] = ex[t]}
<1>0. ASSUME NEW t \in SUBSET (1 .. n)
      PROVE  /\ it[t] = IF t = {} THEN base ELSE Op(it[t \ {Max(t)}], s[Max(t)])
             /\ ex[t] = IF t = {} THEN base ELSE Op(ex[t \ {Max(t)}], r[Max(t)])
  <2>1. t \in SUBSET (1 .. m)
    OBVIOUS
  <2> QED BY <2>1 DEF Iterates
<1>1. 0 \in T
  <2>1. \A t \in SUBSET (1 .. 0) : t = {} /\ t \in SUBSET (1 .. n)
    OBVIOUS
  <2> QED BY <1>0, <2>1
<1>2. ASSUME NEW k \in Nat, k \in T PROVE k + 1 \in T
  <2>1. ASSUME k + 1 <= n, NEW t \in SUBSET (1 .. k + 1) PROVE it[t] = ex[t]
    <3>1. \A u \in SUBSET (1 .. k) : it[u] = ex[u]
      BY <1>2, <2>1
    <3>2. t \in SUBSET (1 .. n)
      BY <2>1
    <3>3. CASE t = {}
      BY <1>0, <3>2, <3>3
    <3>4. CASE t # {}
      <4>1. Max(t) \in 1 .. k + 1 /\ t \ {Max(t)} \in SUBSET (1 .. k)
        BY <3>4, WithoutMax
      <4>2. it[t \ {Max(t)}] = ex[t \ {Max(t)}]
        BY <3>1, <4>1
      <4>3. r[Max(t)] = s[Max(t)]
        BY <2>1, <4>1
      <4> QED BY <1>0, <3>2, <3>4, <4>2, <4>3
    <3> QED BY <3>3, <3>4
  <2>2. k + 1 \in Nat
    OBVIOUS
  <2>3. k + 1 <= n => \A t \in SUBSET (1 .. k + 1) : it[t] = ex[t]
    BY <2>1
  <2> QED BY <2>2, <2>3
<1>3. \A k \in Nat : k \in T
  <2>1. \A k \in Nat : k \in T => k + 1 \in T
    BY <1>2
  <2> HIDE DEF T
  <2> QED BY <1>1, <2>1, NumberInduction
<1>4. n \in T /\ n <= n /\ 1 .. n \in SUBSET (1 .. n)
  <2> HIDE DEF T
  <2> QED BY <1>3
<1> QED BY <1>4

\* The fold of no entry is the base.
THEOREM FoldEmpty == \A base : Fold(base, <<>>) = base
<1> TAKE base
<1>1. DOMAIN <<>> = 1 .. 0 /\ 1 .. 0 = {}
  OBVIOUS
<1>2. PICK it : Iterates(it, base, <<>>, 0) /\ Fold(base, <<>>) = it[1 .. 0]
  BY <1>1, FoldIterates
<1> QED BY <1>1, <1>2 DEF Iterates

\* One more entry is one more step.
THEOREM FoldAppend ==
    ASSUME NEW base, NEW E, NEW s \in Seq(E), NEW e \in E
    PROVE  Fold(base, Append(s, e)) = Op(Fold(base, s), e)
<1> DEFINE n == Len(s)
           r == Append(s, e)
<1>1. n \in Nat /\ n + 1 \in Nat /\ DOMAIN s = 1 .. n
  BY LenProperties
<1>2. DOMAIN r = 1 .. n + 1 /\ (\A i \in 1 .. n : r[i] = s[i]) /\ r[n + 1] = e
  BY AppendProperties, LenProperties
<1> HIDE DEF n, r
<1>3. PICK it : Iterates(it, base, s, n) /\ Fold(base, s) = it[1 .. n]
  BY <1>1, FoldIterates
<1>4. PICK ex : Iterates(ex, base, r, n + 1) /\ Fold(base, r) = ex[1 .. n + 1]
  BY <1>1, <1>2, FoldIterates
<1>5. it[1 .. n] = ex[1 .. n]
  BY <1>1, <1>2, <1>3, <1>4, SamePrefix
<1>6. Max(1 .. n + 1) = n + 1
  <2>1. 1 .. n + 1 \subseteq 0 .. n + 1 /\ n + 1 \in 1 .. n + 1
    BY <1>1
  <2>2. Max(1 .. n + 1) \in 1 .. n + 1 /\ n + 1 <= Max(1 .. n + 1)
    BY <1>1, <2>1, MaxIs
  <2> QED BY <1>1, <2>2
<1>7. /\ 1 .. n + 1 \in SUBSET (1 .. n + 1) /\ 1 .. n + 1 # {}
      /\ (1 .. n + 1) \ {n + 1} = 1 .. n
  <2>1. \A i : i \in 1 .. n + 1 /\ i # n + 1 <=> i \in 1 .. n
    BY <1>1
  <2>2. n + 1 \in 1 .. n + 1
    BY <1>1
  <2> QED BY <2>1, <2>2
<1>8. ex[1 .. n + 1] = Op(ex[1 .. n], r[n + 1])
  BY <1>4, <1>6, <1>7 DEF Iterates
<1> QED BY <1>2, <1>3, <1>4, <1>5, <1>8 DEF r

\* What holds of the base and is kept by a step holds of the fold.
THEOREM FoldIn ==
    ASSUME NEW E, NEW S, \A x \in S, e \in E : Op(x, e) \in S,
           NEW base \in S
    PROVE  \A s \in Seq(E) : Fold(base, s) \in S
<1> DEFINE T == {s \in Seq(E) : Fold(base, s) \in S}
<1>1. <<>> \in T
  BY FoldEmpty, EmptySeq
<1>2. ASSUME NEW s \in Seq(E), NEW e \in E, s \in T PROVE Append(s, e) \in T
  <2>1. Fold(base, Append(s, e)) = Op(Fold(base, s), e)
    BY FoldAppend
  <2>2. Append(s, e) \in Seq(E)
    BY AppendProperties
  <2> QED BY <1>2, <2>1, <2>2
<1>3. \A s \in Seq(E), e \in E : s \in T => Append(s, e) \in T
  BY <1>2
<1> HIDE DEF T
<1>4. \A s \in Seq(E) : s \in T
  BY <1>1, <1>3, SequenceInduction
<1> QED BY <1>4 DEF T

=============================================================================
