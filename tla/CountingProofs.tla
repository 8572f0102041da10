---------------------------- MODULE CountingProofs ----------------------------
(***************************************************************************)
(* Facts about counting that the proofs of the locks share: initial parts  *)
(* of queues, and sets that change by one element.                         *)
(***************************************************************************)
EXTENDS Integers, Sequences, FiniteSets, FiniteSetTheorems, TLAPS

\* A set of positions that has with each position all the earlier ones is an
\* interval, and its size is its last position.
LEMMA PrefixIsInterval ==
    ASSUME NEW N \in Nat, NEW S \in SUBSET (1..N),
           \A s \in S : \A k \in 1..s : k \in S
    PROVE  /\ Cardinality(S) \in 0..N
           /\ S = 1..Cardinality(S)
<1>1. IsFiniteSet(1..N) /\ Cardinality(1..N) = N
  BY FS_Interval
<1>2. IsFiniteSet(S) /\ Cardinality(S) <= N /\ Cardinality(S) \in Nat
  BY <1>1, FS_Subset, FS_CardinalityType
<1>3. ASSUME NEW s \in S PROVE s <= Cardinality(S)
  <2>1. 1..s \in SUBSET S
    OBVIOUS
  <2>2. Cardinality(1..s) = s
    BY FS_Interval
  <2> QED  BY <2>1, <2>2, <1>2, FS_Subset
<1>4. S \in SUBSET (1..Cardinality(S))
  BY <1>2, <1>3
<1>5. IsFiniteSet(1..Cardinality(S)) /\ Cardinality(1..Cardinality(S)) = Cardinality(S)
  BY <1>2, FS_Interval
<1>6. S = 1..Cardinality(S)
  BY <1>4, <1>5, FS_Subset
<1> QED  BY <1>2, <1>6

\* The first n entries of a sequence without repetition are n elements.
LEMMA PrefixCount ==
    ASSUME NEW C, NEW s \in Seq(C), NEW n \in 0..Len(s),
           \A j, k \in 1..Len(s) : s[j] = s[k] => j = k
    PROVE  Cardinality({c \in C : \E k \in 1..n : s[k] = c}) = n
<1> DEFINE T == {c \in C : \E k \in 1..n : s[k] = c}
           f == [k \in 1..n |-> s[k]]
<1>1. \A k \in 1..n : s[k] \in T
  OBVIOUS
<1>2. f \in [1..n -> T]
  BY <1>1
<1>3. \A j, k \in 1..n : f[j] = f[k] => j = k
  OBVIOUS
<1>4. \A c \in T : \E k \in 1..n : f[k] = c
  OBVIOUS
<1>5. f \in Bijection(1..n, T)
  BY <1>2, <1>3, <1>4 DEF Bijection, Injection, IsInjective, Surjection
<1>6. ExistsBijection(1..n, T)
  BY <1>5 DEF ExistsBijection
<1> QED  BY <1>6, FS_CountingElements

\* One element in or out of a finite set counts as one.
LEMMA CountOne ==
    ASSUME NEW U, IsFiniteSet(U), NEW S \in SUBSET U, NEW T \in SUBSET U, NEW c \in U,
           \A x \in U \ {c} : x \in S <=> x \in T
    PROVE  /\ Cardinality(S) \in Nat /\ Cardinality(T) \in Nat
           /\ Cardinality(T) + (IF c \in S THEN 1 ELSE 0)
                = Cardinality(S) + (IF c \in T THEN 1 ELSE 0)
           /\ c \in S => Cardinality(S) > 0
<1>1. IsFiniteSet(S) /\ IsFiniteSet(T) /\ Cardinality(S) \in Nat /\ Cardinality(T) \in Nat
  BY FS_Subset, FS_CardinalityType
<1>2. CASE c \in S /\ c \in T
  <2>1. S = T
    BY <1>2
  <2>2. Cardinality(S) # 0
    BY <1>1, <1>2, FS_EmptySet
  <2> QED  BY <1>1, <1>2, <2>1, <2>2
<1>3. CASE c \notin S /\ c \notin T
  <2>1. S = T
    BY <1>3
  <2> QED  BY <1>1, <1>3, <2>1
<1>4. CASE c \in S /\ c \notin T
  <2>1. T = S \ {c}
    BY <1>4
  <2>2. Cardinality(T) = Cardinality(S) - 1
    BY <1>1, <1>4, <2>1, FS_RemoveElement
  <2>3. Cardinality(S) # 0
    BY <1>1, <1>4, FS_EmptySet
  <2> QED  BY <1>1, <1>4, <2>2, <2>3
<1>5. CASE c \notin S /\ c \in T
  <2>1. T = S \cup {c}
    BY <1>5
  <2>2. Cardinality(T) = Cardinality(S) + 1
    BY <1>1, <1>5, <2>1, FS_AddElement
  <2> QED  BY <1>1, <1>5, <2>2
<1> QED  BY <1>2, <1>3, <1>4, <1>5
=============================================================================
