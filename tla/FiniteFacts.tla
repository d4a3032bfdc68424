---------------------------- MODULE FiniteFacts ----------------------------
(***************************************************************************)
(* Facts about finite sets, sequences and finite graphs that the proofs of *)
(* several components need: how a count changes with one element, what a   *)
(* removal leaves of a sequence, that Reach is the least set closed under  *)
(* the successors and that it meets a cycle wherever every vertex of some  *)
(* set has a predecessor in that set.  Reach is       *)
(* recursive in the number of steps; where induction is called for, the    *)
(* proofs take the smallest counterexample.                                *)
(***************************************************************************)
EXTENDS Reachability, SequencesExt, FiniteSetTheorems, SequenceTheorems, WellFoundedInduction,
        TLAPS

\* Two sets that differ in one element at most.
LEMMA OneDiffers ==
  ASSUME NEW A, NEW B, NEW x, IsFiniteSet(A), A \ {x} = B \ {x}
  PROVE  /\ IsFiniteSet(B) /\ Cardinality(A) \in Nat /\ Cardinality(B) \in Nat
         /\ Cardinality(B) = Cardinality(A) + (IF x \in B THEN 1 ELSE 0)
                                            - (IF x \in A THEN 1 ELSE 0)
<1> DEFINE C == A \ {x}
<1>1. IsFiniteSet(C) /\ Cardinality(C) = Cardinality(A) - (IF x \in A THEN 1 ELSE 0)
      /\ Cardinality(A) \in Nat
  BY FS_RemoveElement, FS_CardinalityType
<1>2. x \notin C /\ Cardinality(C) \in Nat
  BY <1>1, FS_CardinalityType
<1>3. CASE x \in B
  <2>1. B = C \cup {x}
    BY <1>3
  <2> HIDE DEF C
  <2>2. IsFiniteSet(B) /\ Cardinality(B) = Cardinality(C) + 1
    BY <1>1, <1>2, <2>1, FS_AddElement
  <2>3. QED
    BY <1>1, <1>2, <1>3, <2>2
<1>4. CASE x \notin B
  <2>1. B = C
    BY <1>4
  <2> HIDE DEF C
  <2>2. QED
    BY <1>1, <1>2, <1>4, <2>1
<1>5. QED
  BY <1>3, <1>4

-----------------------------------------------------------------------------
(* Sequences. *)

NoneTwice(s) == \A i, j \in 1..Len(s) : s[i] = s[j] => i = j

\* What is left when the element at a position is removed.
LEMMA RemoveAtElements ==
  ASSUME NEW S, NEW s \in Seq(S), NEW i \in 1..Len(s)
  PROVE  /\ RemoveAt(s, i) \in Seq(S)
         /\ Len(RemoveAt(s, i)) = Len(s) - 1
         /\ \A j \in 1..(Len(s) - 1) : RemoveAt(s, i)[j] = IF j < i THEN s[j] ELSE s[j + 1]
<1>1. Len(s) \in Nat /\ i \in Nat /\ i >= 1 /\ i <= Len(s)
  BY LenProperties
<1> DEFINE a == SubSeq(s, 1, i - 1)
           b == SubSeq(s, i + 1, Len(s))
<1>2. a \in Seq(S) /\ Len(a) = i - 1 /\ \A j \in 1..(i - 1) : a[j] = s[j]
  BY <1>1, SubSeqProperties
<1>3. /\ b \in Seq(S) /\ Len(b) = Len(s) - i
      /\ \A j \in 1..(Len(s) - i) : b[j] = s[i + j]
  BY <1>1, SubSeqProperties
<1> HIDE DEF a, b
<1>4. /\ a \o b \in Seq(S) /\ Len(a \o b) = Len(s) - 1
      /\ \A j \in 1..(Len(s) - 1) : (a \o b)[j] = IF j <= i - 1 THEN a[j] ELSE b[j - (i - 1)]
  <2>1. /\ a \o b \in Seq(S) /\ Len(a \o b) = Len(a) + Len(b)
        /\ \A j \in 1..(Len(a) + Len(b)) :
             (a \o b)[j] = IF j <= Len(a) THEN a[j] ELSE b[j - Len(a)]
    BY <1>2, <1>3, ConcatProperties
  <2>2. Len(a) + Len(b) = Len(s) - 1
    BY <1>1, <1>2, <1>3
  <2>3. QED
    BY <1>2, <2>1, <2>2
<1>5. ASSUME NEW j \in 1..(Len(s) - 1)
      PROVE  (a \o b)[j] = IF j < i THEN s[j] ELSE s[j + 1]
  <2>1. CASE j < i
    BY <1>1, <1>2, <1>4, <2>1
  <2>2. CASE ~(j < i)
    <3>1. j - (i - 1) \in 1..(Len(s) - i) /\ i + (j - (i - 1)) = j + 1
      BY <1>1, <2>2
    <3>2. QED
      BY <1>1, <1>3, <1>4, <2>2, <3>1
  <2>3. QED
    BY <2>1, <2>2
<1>6. QED
  BY <1>4, <1>5 DEF RemoveAt, a, b

\* The removal of an element from a sequence that has it once.
LEMMA RemovedOnce ==
  ASSUME NEW S, NEW s \in Seq(S), NoneTwice(s), NEW i \in 1..Len(s)
  PROVE  /\ NoneTwice(RemoveAt(s, i))
         /\ \A x : (\E j \in 1..Len(RemoveAt(s, i)) : RemoveAt(s, i)[j] = x)
                   <=> x # s[i] /\ \E j \in 1..Len(s) : s[j] = x
<1> DEFINE new == RemoveAt(s, i)
           At(j) == IF j < i THEN j ELSE j + 1
<1>1. /\ Len(s) \in Nat /\ i \in Nat /\ i >= 1 /\ i <= Len(s)
      /\ Len(new) = Len(s) - 1
      /\ \A j \in 1..(Len(s) - 1) : new[j] = IF j < i THEN s[j] ELSE s[j + 1]
  BY RemoveAtElements, LenProperties
<1> HIDE DEF new
<1>2. \A j \in 1..Len(new) : At(j) \in 1..Len(s) /\ At(j) # i /\ new[j] = s[At(j)]
  BY <1>1
<1>3. \A p, r \in 1..Len(new) : At(p) = At(r) => p = r
  BY <1>1
<1>4. NoneTwice(new)
  <2> HIDE DEF At
  <2>1. QED
    BY <1>2, <1>3 DEF NoneTwice
<1>5. ASSUME NEW r \in 1..Len(s), r # i
      PROVE  \E j \in 1..Len(new) : new[j] = s[r]
  <2>1. CASE r < i
    <3>1. r \in 1..Len(new) /\ new[r] = s[r]
      BY <1>1, <2>1
    <3>2. QED
      BY <3>1
  <2>2. CASE r > i
    <3>1. r - 1 \in 1..Len(new) /\ new[r - 1] = s[r]
      BY <1>1, <2>2
    <3>2. QED
      BY <3>1
  <2>3. QED
    BY <1>1, <1>5, <2>1, <2>2
<1>6. \A j \in 1..Len(new) : \E r \in 1..Len(s) : r # i /\ new[j] = s[r]
  BY <1>2
<1>7. \A r \in 1..Len(s) : r # i => s[r] # s[i]
  BY DEF NoneTwice
<1>8. QED
  BY <1>4, <1>5, <1>6, <1>7 DEF new

\* What is appended to a sequence that does not have it.
LEMMA AppendedOnce ==
  ASSUME NEW S, NEW s \in Seq(S), NoneTwice(s), NEW e \in S, \A i \in 1..Len(s) : s[i] # e
  PROVE  /\ NoneTwice(Append(s, e))
         /\ \A x : (\E j \in 1..Len(Append(s, e)) : Append(s, e)[j] = x)
                   <=> x = e \/ \E j \in 1..Len(s) : s[j] = x
<1> DEFINE new == Append(s, e)
<1>1. /\ Len(s) \in Nat /\ Len(new) = Len(s) + 1
      /\ \A j \in 1..Len(s) : new[j] = s[j]
      /\ new[Len(s) + 1] = e
  BY AppendProperties, LenProperties
<1> HIDE DEF new
<1>2. NoneTwice(new)
  <2> SUFFICES ASSUME NEW p \in 1..Len(new), NEW r \in 1..Len(new), new[p] = new[r]
               PROVE  p = r
    BY DEF NoneTwice
  <2>1. (p \in 1..Len(s) \/ p = Len(s) + 1) /\ (r \in 1..Len(s) \/ r = Len(s) + 1)
    BY <1>1
  <2>2. QED
    BY <1>1, <2>1 DEF NoneTwice
<1>3. \A x : (\E j \in 1..Len(new) : new[j] = x) <=> x = e \/ \E j \in 1..Len(s) : s[j] = x
  BY <1>1
<1>4. QED
  BY <1>2, <1>3 DEF new

-----------------------------------------------------------------------------
(* Finite graphs. *)

\* The graphs the facts are about.
IsGraph(next) == IsFiniteSet(DOMAIN next) /\ next \in [DOMAIN next -> SUBSET DOMAIN next]

Closed(next, X) == \A v \in X : next[v] \subseteq X

\* Every non-empty set of natural numbers has a smallest element.
LEMMA Smallest ==
  ASSUME NEW T \in SUBSET Nat, T # {}
  PROVE  \E x \in T : \A y \in T : x <= y
<1>1. PICK x \in T : \A y \in T : ~(<<y, x>> \in OpToRel(<, Nat))
  BY NatLessThanWellFounded, WFMin, Zenon
<1>2. \A y \in T : ~(y < x)
  BY <1>1 DEF OpToRel
<1>3. x \in Nat /\ \A y \in T : y \in Nat
  OBVIOUS
<1>4. QED
  BY <1>2, <1>3

-----------------------------------------------------------------------------
(* The recursion is well defined. *)

\* r says for each number of steps up to n what is reached in it.
Counts(r, next, S, n) ==
    r = [i \in 0..n |-> IF i = 0 THEN S ELSE r[i - 1] \cup UNION {next[v] : v \in r[i - 1]}]

LEMMA StepsExist ==
  ASSUME NEW next, NEW S, NEW n \in Nat
  PROVE  \E r : Counts(r, next, S, n)
<1> DEFINE Good(k) == \E r : Counts(r, next, S, k)
           Bad == {k \in Nat : ~Good(k)}
<1>1. Good(0)
  <2> DEFINE r == [i \in 0..0 |-> S]
  <2>1. Counts(r, next, S, 0)
    BY DEF Counts
  <2>2. QED
    BY <2>1
<1>2. ASSUME NEW k \in Nat, Good(k)
      PROVE  Good(k + 1)
  <2>1. PICK r : Counts(r, next, S, k)
    BY <1>2
  <2> DEFINE more == r[k] \cup UNION {next[v] : v \in r[k]}
             q == [i \in 0..(k + 1) |-> IF i \in 0..k THEN r[i] ELSE more]
  <2>2. ASSUME NEW i \in 0..(k + 1)
        PROVE  q[i] = IF i = 0 THEN S ELSE q[i - 1] \cup UNION {next[v] : v \in q[i - 1]}
    <3>1. CASE i \in 0..k
      <4>1. q[i] = r[i] /\ (i # 0 => q[i - 1] = r[i - 1])
        BY <3>1
      <4>2. QED
        BY <4>1, <3>1, <2>1 DEF Counts
    <3>2. CASE i = k + 1
      <4>1. q[i] = more /\ q[i - 1] = r[k] /\ i # 0
        BY <3>2
      <4>2. QED
        BY <4>1
    <3>3. QED
      BY <3>1, <3>2
  <2>3. Counts(q, next, S, k + 1)
    BY <2>2 DEF Counts
  <2>4. QED
    BY <2>3
<1> HIDE DEF Good
<1>3. Bad = {}
  <2> SUFFICES ASSUME Bad # {} PROVE FALSE
    OBVIOUS
  <2>1. PICK x \in Bad : \A y \in Bad : x <= y
    BY Smallest
  <2>2. x # 0
    BY <1>1, <2>1
  <2>3. x - 1 \in Nat /\ x - 1 \notin Bad
    BY <2>1, <2>2
  <2>4. QED
    BY <1>2, <2>1, <2>3
<1>4. QED
  BY <1>3 DEF Good

\* What is reached in i steps.
LEMMA ReachUnfolds ==
  ASSUME NEW next, NEW S, Cardinality(DOMAIN next) \in Nat
  PROVE  /\ ReachSteps(next, S)[0] = S
         /\ \A i \in 0..Cardinality(DOMAIN next) :
              i # 0 => ReachSteps(next, S)[i]
                         = ReachSteps(next, S)[i - 1]
                             \cup UNION {next[v] : v \in ReachSteps(next, S)[i - 1]}
<1> DEFINE n == Cardinality(DOMAIN next)
           Q(r) == Counts(r, next, S, n)
<1>1. ReachSteps(next, S) = CHOOSE r : Q(r)
  BY DEF ReachSteps, Counts
<1>2. \E r : Q(r)
  BY StepsExist
<1>3. Q(CHOOSE r : Q(r))
  <2> HIDE DEF Q
  <2>1. QED
    BY <1>2, Zenon
<1> DEFINE R == ReachSteps(next, S)
<1>4. Q(R)
  BY <1>1, <1>3
<1>5. R = [i \in 0..n |-> IF i = 0 THEN S ELSE R[i - 1] \cup UNION {next[v] : v \in R[i - 1]}]
  BY <1>4 DEF Counts
<1> HIDE DEF R
<1>6. 0 \in 0..n /\ R[0] = S
  BY <1>5
<1>7. \A i \in 0..n : i # 0 => R[i] = R[i - 1] \cup UNION {next[v] : v \in R[i - 1]}
  BY <1>5
<1>8. QED
  BY <1>6, <1>7 DEF R

-----------------------------------------------------------------------------
(* Reach is the least closed set. *)

\* What is reached is in the graph, and includes the start.
LEMMA ReachBounded ==
  ASSUME NEW next, IsGraph(next), NEW S \in SUBSET DOMAIN next
  PROVE  Reach(next, S) \in SUBSET DOMAIN next /\ S \subseteq Reach(next, S)
<1> DEFINE n == Cardinality(DOMAIN next)
           R == ReachSteps(next, S)
           Bad == {i \in 0..n : ~(R[i] \subseteq DOMAIN next /\ S \subseteq R[i])}
<1>1. n \in Nat
  BY FS_CardinalityType DEF IsGraph
<1>2. /\ R[0] = S
      /\ \A i \in 0..n : i # 0 => R[i] = R[i - 1] \cup UNION {next[v] : v \in R[i - 1]}
  BY <1>1, ReachUnfolds
<1> HIDE DEF R, n
<1>3. Bad = {}
  <2> SUFFICES ASSUME Bad # {} PROVE FALSE
    OBVIOUS
  <2>1. Bad \in SUBSET Nat
    BY <1>1
  <2>2. PICK x \in Bad : \A y \in Bad : x <= y
    BY <2>1, Smallest
  <2>3. x # 0
    BY <1>2, <2>2
  <2>4. x - 1 \in 0..n /\ x - 1 \notin Bad
    BY <1>1, <2>2, <2>3
  <2>5. R[x - 1] \subseteq DOMAIN next /\ S \subseteq R[x - 1]
    BY <2>4
  <2>6. UNION {next[v] : v \in R[x - 1]} \subseteq DOMAIN next
    BY <2>5 DEF IsGraph
  <2>7. QED
    BY <1>2, <2>2, <2>3, <2>5, <2>6
<1>4. QED
  BY <1>1, <1>3 DEF Reach, R, n

\* After as many steps as there are vertices nothing new is found.
LEMMA ReachClosed ==
  ASSUME NEW next, IsGraph(next), NEW S \in SUBSET DOMAIN next
  PROVE  Closed(next, Reach(next, S))
<1> DEFINE n == Cardinality(DOMAIN next)
           R == ReachSteps(next, S)
           Enough(i) == /\ R[i] \subseteq DOMAIN next
                        /\ Closed(next, R[i]) \/ Cardinality(R[i]) >= i
           Bad == {i \in 0..n : ~Enough(i)}
<1>1. n \in Nat /\ IsFiniteSet(DOMAIN next)
  BY FS_CardinalityType DEF IsGraph
<1>2. /\ R[0] = S
      /\ \A i \in 0..n : i # 0 => R[i] = R[i - 1] \cup UNION {next[v] : v \in R[i - 1]}
  BY <1>1, ReachUnfolds
<1> HIDE DEF R, n
<1>3. ASSUME NEW i \in 0..n, i # 0, Enough(i - 1)
      PROVE  Enough(i)
  <2>1. R[i] = R[i - 1] \cup UNION {next[v] : v \in R[i - 1]}
    BY <1>2, <1>3
  <2>2. R[i] \subseteq DOMAIN next
    BY <1>3, <2>1 DEF IsGraph
  <2>3. CASE Closed(next, R[i - 1])
    <3>1. R[i] = R[i - 1]
      BY <2>1, <2>3 DEF Closed
    <3>2. QED
      BY <2>2, <2>3, <3>1
  <2>4. CASE ~Closed(next, R[i - 1])
    <3>1. R[i - 1] \subseteq R[i] /\ R[i - 1] # R[i]
      BY <2>1, <2>4 DEF Closed
    <3>2. IsFiniteSet(R[i]) /\ IsFiniteSet(R[i - 1])
      BY <1>1, <1>3, <2>2, FS_Subset
    <3>3. Cardinality(R[i]) \in Nat /\ Cardinality(R[i - 1]) \in Nat
      BY <3>2, FS_CardinalityType
    <3>4. Cardinality(R[i - 1]) < Cardinality(R[i])
      BY <3>1, <3>2, <3>3, FS_Subset
    <3>5. Cardinality(R[i]) >= i
      BY <1>1, <1>3, <2>4, <3>3, <3>4
    <3>6. QED
      BY <2>2, <3>5
  <2>5. QED
    BY <2>3, <2>4
<1>4. Enough(0)
  <2>1. IsFiniteSet(S)
    BY <1>1, FS_Subset
  <2>2. Cardinality(S) \in Nat
    BY <2>1, FS_CardinalityType
  <2>3. QED
    BY <1>2, <2>2
<1> HIDE DEF Enough
<1>5. Bad = {}
  <2> SUFFICES ASSUME Bad # {} PROVE FALSE
    OBVIOUS
  <2>1. Bad \in SUBSET Nat
    BY <1>1
  <2>2. PICK x \in Bad : \A y \in Bad : x <= y
    BY <2>1, Smallest
  <2>3. x # 0
    BY <1>4, <2>2
  <2>4. x - 1 \in 0..n /\ x - 1 \notin Bad
    BY <1>1, <2>2, <2>3
  <2>5. QED
    BY <1>3, <2>2, <2>3, <2>4
<1>6. Enough(n)
  BY <1>1, <1>5
<1>7. CASE Closed(next, R[n])
  BY <1>7 DEF Reach, R, n
<1>8. CASE ~Closed(next, R[n])
  <2>1. R[n] \subseteq DOMAIN next /\ Cardinality(R[n]) >= n
    BY <1>6, <1>8 DEF Enough
  <2>2. Cardinality(R[n]) <= n /\ Cardinality(R[n]) \in Nat
    BY <1>1, <2>1, FS_Subset, FS_CardinalityType DEF n
  <2>3. R[n] = DOMAIN next
    BY <1>1, <2>1, <2>2, FS_Subset DEF n
  <2>4. QED
    BY <1>8, <2>3 DEF Closed, IsGraph
<1>9. QED
  BY <1>7, <1>8

\* Nothing is found that a closed set does not have.
LEMMA ReachLeast ==
  ASSUME NEW next, IsGraph(next), NEW S \in SUBSET DOMAIN next,
         NEW X, S \subseteq X, Closed(next, X)
  PROVE  Reach(next, S) \subseteq X
<1> DEFINE n == Cardinality(DOMAIN next)
           R == ReachSteps(next, S)
           Bad == {i \in 0..n : ~(R[i] \subseteq X)}
<1>1. n \in Nat
  BY FS_CardinalityType DEF IsGraph
<1>2. /\ R[0] = S
      /\ \A i \in 0..n : i # 0 => R[i] = R[i - 1] \cup UNION {next[v] : v \in R[i - 1]}
  BY <1>1, ReachUnfolds
<1> HIDE DEF R, n
<1>3. Bad = {}
  <2> SUFFICES ASSUME Bad # {} PROVE FALSE
    OBVIOUS
  <2>1. Bad \in SUBSET Nat
    BY <1>1
  <2>2. PICK x \in Bad : \A y \in Bad : x <= y
    BY <2>1, Smallest
  <2>3. x # 0
    BY <1>2, <2>2
  <2>4. x - 1 \in 0..n /\ x - 1 \notin Bad
    BY <1>1, <2>2, <2>3
  <2>5. R[x - 1] \subseteq X
    BY <2>4
  <2>6. UNION {next[v] : v \in R[x - 1]} \subseteq X
    BY <2>5 DEF Closed
  <2>7. QED
    BY <1>2, <2>2, <2>3, <2>5, <2>6
<1>4. QED
  BY <1>1, <1>3 DEF Reach, R, n

-----------------------------------------------------------------------------
(* Cycles. *)

\* Going back from vertex to predecessor without end means going round.
LEMMA CycleAmongPredecessors ==
  ASSUME NEW next, IsGraph(next), NEW B \in SUBSET DOMAIN next, B # {},
         \A b \in B : \E p \in B : b \in next[p]
  PROVE  \E b \in B : b \in OnCycleOf(next)
<1> DEFINE V == DOMAIN next
           n == Cardinality(V)
           From(v) == Reach(next, {v})
           Missing == {n - Cardinality(From(b)) : b \in B}
<1>1. IsFiniteSet(V) /\ n \in Nat
  BY FS_CardinalityType DEF IsGraph
<1>2. ASSUME NEW v \in V
      PROVE  /\ From(v) \in SUBSET V /\ v \in From(v) /\ Closed(next, From(v))
             /\ IsFiniteSet(From(v)) /\ Cardinality(From(v)) \in 0..n
  <2>1. {v} \in SUBSET V
    OBVIOUS
  <2>2. From(v) \in SUBSET V /\ v \in From(v) /\ Closed(next, From(v))
    BY <2>1, ReachBounded, ReachClosed
  <2> HIDE DEF From
  <2>3. IsFiniteSet(From(v)) /\ Cardinality(From(v)) <= n
    BY <1>1, <2>2, FS_Subset
  <2>4. Cardinality(From(v)) \in Nat
    BY <2>3, FS_CardinalityType
  <2>5. QED
    BY <1>1, <2>2, <2>3, <2>4
<1>3. \E m \in Missing : \A k \in Missing : m <= k
  <2> HIDE DEF From, n, V
  <2>1. \A b \in B : Cardinality(From(b)) \in 0..n
    BY <1>2 DEF V
  <2>2. Missing \in SUBSET Nat /\ Missing # {}
    BY <1>1, <2>1
  <2>3. QED
    BY <2>2, Smallest
<1>4. PICK b \in B : \A c \in B : n - Cardinality(From(b)) <= n - Cardinality(From(c))
  <2> HIDE DEF From, n
  <2>1. QED
    BY <1>3
<1>5. PICK p \in B : b \in next[p]
  OBVIOUS
<1>6. From(b) \subseteq From(p)
  <2>1. b \in From(p) /\ Closed(next, From(p))
    BY <1>2, <1>5 DEF Closed
  <2>2. {b} \subseteq From(p) /\ {b} \in SUBSET V
    BY <2>1
  <2>3. QED
    BY <2>1, <2>2, ReachLeast
<1>7. From(b) = From(p)
  <2> HIDE DEF From, n, V
  <2>1. IsFiniteSet(From(p)) /\ Cardinality(From(p)) \in 0..n /\ Cardinality(From(b)) \in 0..n
    BY <1>2 DEF V
  <2>2. Cardinality(From(p)) <= Cardinality(From(b))
    BY <1>1, <1>4, <2>1
  <2>3. Cardinality(From(b)) <= Cardinality(From(p))
    BY <1>6, <2>1, FS_Subset
  <2>4. Cardinality(From(b)) = Cardinality(From(p))
    BY <2>1, <2>2, <2>3
  <2>5. QED
    BY <1>6, <2>1, <2>4, FS_Subset
<1>8. p \in Reach(next, next[p])
  <2>1. next[p] \in SUBSET V
    BY DEF IsGraph
  <2>2. Closed(next, Reach(next, next[p])) /\ next[p] \subseteq Reach(next, next[p])
    BY <2>1, ReachClosed, ReachBounded
  <2>3. {b} \in SUBSET V /\ {b} \subseteq Reach(next, next[p])
    BY <1>5, <2>2
  <2>4. From(b) \subseteq Reach(next, next[p])
    BY <2>2, <2>3, ReachLeast
  <2>5. QED
    BY <1>2, <1>7, <2>4
<1>9. QED
  BY <1>8 DEF OnCycleOf

=============================================================================
