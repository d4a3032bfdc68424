--------------------------- MODULE YamlTreeProofs ---------------------------
(***************************************************************************)
(* Facts about the trees of YamlTree, for the modules that build them: how *)
(* often a node is referred to, what sealing reaches, and what has no      *)
(* cycle.                                                                  *)
(***************************************************************************)
EXTENDS YamlTree, FiniteFacts

\* 1 when the two are the same.
Same(a, b) == IF a = b THEN 1 ELSE 0

-----------------------------------------------------------------------------
(* Counting the places of a sequence. *)

At(s, n) == {i \in DOMAIN s : s[i] = n}

\* Only so many places are in a sequence.
LEMMA PlacesAreFinite ==
  ASSUME NEW S, NEW s \in Seq(S), NEW n
  PROVE  IsFiniteSet(At(s, n)) /\ Places(s, n) = Cardinality(At(s, n)) /\ Places(s, n) \in Nat
<1>1. Len(s) \in Nat /\ DOMAIN s = 1..Len(s)
  BY LenProperties
<1>2. IsFiniteSet(1..Len(s))
  BY <1>1, FS_Interval
<1>3. At(s, n) \in SUBSET (1..Len(s))
  BY <1>1 DEF At
<1>4. IsFiniteSet(At(s, n))
  BY <1>2, <1>3, FS_Subset
<1>5. Places(s, n) = Cardinality(At(s, n))
  BY DEF Places, At
<1>6. QED
  BY <1>4, <1>5, FS_CardinalityType

\* Two sequences have a value as often when their places match.
LEMMA PlacesMatch ==
  ASSUME NEW S, NEW s \in Seq(S), NEW A, NEW n, NEW f \in Bijection(At(s, n), A)
  PROVE  IsFiniteSet(A) /\ Cardinality(A) = Places(s, n)
<1>1. IsFiniteSet(At(s, n)) /\ Places(s, n) = Cardinality(At(s, n))
  BY PlacesAreFinite
<1>2. ExistsBijection(At(s, n), A)
  BY DEF ExistsBijection
<1>3. QED
  BY <1>1, <1>2, FS_Bijection

\* The empty sequence has nothing.
LEMMA PlacesOfNone == \A n : Places(<<>>, n) = 0
<1>1. \A n : {i \in DOMAIN <<>> : <<>>[i] = n} = {}
  OBVIOUS
<1>2. QED
  BY <1>1, FS_EmptySet DEF Places

\* A sequence of one.
LEMMA PlacesOfOne == \A x, n : Places(<<x>>, n) = Same(x, n)
<1> SUFFICES ASSUME NEW x, NEW n PROVE Places(<<x>>, n) = Same(x, n)
  OBVIOUS
<1>1. CASE x = n
  <2>1. {i \in DOMAIN <<x>> : <<x>>[i] = n} = {1}
    BY <1>1
  <2>2. QED
    BY <1>1, <2>1, FS_Singleton DEF Places, Same
<1>2. CASE x # n
  <2>1. {i \in DOMAIN <<x>> : <<x>>[i] = n} = {}
    BY <1>2
  <2>2. QED
    BY <1>2, <2>1, FS_EmptySet DEF Places, Same
<1>3. QED
  BY <1>1, <1>2

\* What is in two sequences.
LEMMA PlacesOfBoth ==
  ASSUME NEW S, NEW s \in Seq(S), NEW t \in Seq(S), NEW n
  PROVE  /\ Places(s \o t, n) = Places(s, n) + Places(t, n)
         /\ Places(s, n) \in Nat /\ Places(t, n) \in Nat
<1> DEFINE both == s \o t
           a == Len(s)
           b == Len(t)
           A == At(s, n)
           B == {i \in (a + 1)..(a + b) : t[i - a] = n}
           f == [i \in At(t, n) |-> i + a]
<1>1. /\ a \in Nat /\ b \in Nat /\ DOMAIN s = 1..a /\ DOMAIN t = 1..b
      /\ both \in Seq(S) /\ Len(both) = a + b /\ DOMAIN both = 1..(a + b)
      /\ \A i \in 1..(a + b) : both[i] = IF i <= a THEN s[i] ELSE t[i - a]
  <2>1. a \in Nat /\ b \in Nat /\ DOMAIN s = 1..a /\ DOMAIN t = 1..b
    BY LenProperties
  <2>2. /\ both \in Seq(S) /\ Len(both) = a + b
        /\ \A i \in 1..(a + b) : both[i] = IF i <= a THEN s[i] ELSE t[i - a]
    BY ConcatProperties
  <2> HIDE DEF both
  <2>3. DOMAIN both = 1..(a + b)
    BY <2>2, LenProperties
  <2>4. QED
    BY <2>1, <2>2, <2>3
<1>2. /\ IsFiniteSet(A) /\ Places(s, n) = Cardinality(A) /\ Places(s, n) \in Nat
      /\ Places(t, n) \in Nat /\ Places(both, n) = Cardinality(At(both, n))
  BY <1>1, PlacesAreFinite
<1> HIDE DEF both, a, b
<1>3. At(both, n) = A \cup B /\ A \cap B = {}
  BY <1>1 DEF At
<1>4. f \in Bijection(At(t, n), B)
  <2>1. \A i \in At(t, n) : i \in 1..b /\ t[i] = n
    BY <1>1 DEF At
  <2>2. \A i \in At(t, n) : i + a \in B /\ i \in Int
    BY <1>1, <2>1
  <2>3. \A j \in B : j - a \in At(t, n) /\ f[j - a] = j
    BY <1>1 DEF At
  <2>4. f \in [At(t, n) -> B] /\ \A i, j \in At(t, n) : f[i] = f[j] => i = j
    BY <1>1, <2>2
  <2>5. QED
    BY <2>3, <2>4 DEF Bijection, Injection, Surjection, IsInjective
<1>5. IsFiniteSet(B) /\ Cardinality(B) = Places(t, n)
  BY <1>4, PlacesMatch
<1> HIDE DEF A, B, f
<1>6. Cardinality(A \cup B) = Cardinality(A) + Cardinality(B) - Cardinality(A \cap B)
  BY <1>2, <1>5, FS_Union
<1>7. Cardinality(A \cap B) = 0
  BY <1>3, FS_EmptySet
<1>8. QED
  BY <1>2, <1>3, <1>5, <1>6, <1>7 DEF both

\* What is appended.
LEMMA PlacesOfAppended ==
  ASSUME NEW S, NEW s \in Seq(S), NEW x \in S, NEW n
  PROVE  Places(Append(s, x), n) = Places(s, n) + Same(x, n)
<1>1. Append(s, x) = s \o <<x>> /\ <<x>> \in Seq(S)
  BY AppendIsConcat
<1> DEFINE one == <<x>>
<1>2. Places(one, n) = Same(x, n)
  BY PlacesOfOne
<1> HIDE DEF one
<1>3. one \in Seq(S) => Places(s \o one, n) = Places(s, n) + Places(one, n)
  BY PlacesOfBoth
<1>4. QED
  BY <1>1, <1>2, <1>3 DEF one

\* The first, and the others.
LEMMA PlacesOfTail ==
  ASSUME NEW S, NEW s \in Seq(S), s # <<>>, NEW n
  PROVE  /\ Places(s, n) = Same(Head(s), n) + Places(Tail(s), n)
         /\ Places(Tail(s), n) \in Nat /\ Tail(s) \in Seq(S) /\ Head(s) \in S
<1> DEFINE one == <<Head(s)>>
           rest == Tail(s)
<1>1. /\ Head(s) \in S /\ rest \in Seq(S) /\ Len(rest) = Len(s) - 1 /\ one \in Seq(S)
      /\ \A i \in 1..Len(rest) : rest[i] = s[i + 1]
      /\ Len(s) \in Nat \ {0} /\ Head(s) = s[1] /\ Len(one) = 1 /\ one[1] = s[1]
  BY HeadTailProperties
<1>2. Places(one, n) = Same(Head(s), n)
  BY PlacesOfOne
<1> HIDE DEF one, rest
<1>3. /\ one \o rest \in Seq(S) /\ Len(one \o rest) = 1 + Len(rest)
      /\ \A i \in 1..(1 + Len(rest)) : (one \o rest)[i] = IF i <= 1 THEN one[i] ELSE rest[i - 1]
  <2>1. one \in Seq(S) /\ rest \in Seq(S) /\ Len(one) = 1
    BY <1>1
  <2>2. /\ one \o rest \in Seq(S) /\ Len(one \o rest) = Len(one) + Len(rest)
        /\ \A i \in 1..(Len(one) + Len(rest)) :
             (one \o rest)[i] = IF i <= Len(one) THEN one[i] ELSE rest[i - Len(one)]
    BY <2>1, ConcatProperties
  <2>3. QED
    BY <2>1, <2>2
<1>4. s = one \o rest
  <2>1. Len(rest) \in Nat /\ Len(s) = 1 + Len(rest)
    BY <1>1
  <2>2. \A i \in 1..Len(s) : s[i] = (one \o rest)[i]
    <3> SUFFICES ASSUME NEW i \in 1..Len(s) PROVE s[i] = (one \o rest)[i]
      OBVIOUS
    <3>1. CASE i = 1
      BY <1>1, <1>3, <2>1, <3>1
    <3>2. CASE i # 1
      <4>1. i - 1 \in 1..Len(rest) /\ i - 1 + 1 = i /\ i \in 1..(1 + Len(rest)) /\ ~(i <= 1)
        BY <1>1, <2>1, <3>2
      <4>2. QED
        BY <1>1, <1>3, <4>1
    <3>3. QED
      BY <3>1, <3>2
  <2>3. Len(s) = Len(one \o rest)
    BY <1>3, <2>1
  <2> HIDE DEF At
  <2>4. QED
    BY <1>3, <2>2, <2>3, SeqEqual
<1>5. Places(one \o rest, n) = Places(one, n) + Places(rest, n) /\ Places(rest, n) \in Nat
  BY <1>1, PlacesOfBoth
<1>6. QED
  BY <1>1, <1>2, <1>4, <1>5 DEF rest

\* All but the last, and the last.
LEMMA FrontIs ==
  ASSUME NEW S, NEW s \in Seq(S), s # <<>>
  PROVE  /\ s = Append(Front(s), Last(s))
         /\ Front(s) \in Seq(S) /\ Last(s) \in S /\ Last(s) = s[Len(s)]
         /\ Len(Front(s)) = Len(s) - 1 /\ Len(s) \in Nat \ {0}
         /\ \A i \in 1..(Len(s) - 1) : Front(s)[i] = s[i]
<1>1. Len(s) \in Nat \ {0}
  BY EmptySeq, LenProperties
<1> DEFINE a == Len(s)
           front == SubSeq(s, 1, a - 1)
<1>2. a \in 1..a /\ s[a] \in S /\ \A i \in 1..(a - 1) : s[i] \in S
  <2>1. \A i \in 1..a : s[i] \in S
    BY ElementOfSeq
  <2>2. QED
    BY <1>1, <2>1
<1>3. /\ front \in Seq(S) /\ Len(front) = a - 1
      /\ \A i \in 1..(a - 1) : front[i] = s[i]
  <2>1. 1 \in Int /\ a - 1 \in Int
    BY <1>1
  <2>2. /\ front \in Seq(S) /\ Len(front) = IF 1 <= a - 1 THEN a - 1 - 1 + 1 ELSE 0
        /\ \A i \in 1..(a - 1 - 1 + 1) : front[i] = s[1 + i - 1]
    <3> DEFINE b == a - 1
    <3>1. b \in Int /\ \A i \in 1..b : s[i] \in S
      BY <1>2, <2>1
    <3> HIDE DEF b
    <3>2. /\ SubSeq(s, 1, b) \in Seq(S) /\ Len(SubSeq(s, 1, b)) = IF 1 <= b THEN b - 1 + 1 ELSE 0
          /\ \A i \in 1..(b - 1 + 1) : SubSeq(s, 1, b)[i] = s[1 + i - 1]
      BY <3>1, SubSeqProperties
    <3>3. QED
      BY <3>2 DEF b
  <2> HIDE DEF front
  <2>3. a \in Nat \ {0} /\ a - 1 - 1 + 1 = a - 1
    BY <1>1
  <2> HIDE DEF a
  <2>4. Len(front) = a - 1
    BY <2>2, <2>3
  <2>5. \A i \in 1..(a - 1) : 1 + i - 1 = i
    BY <2>3
  <2>6. QED
    BY <2>2, <2>3, <2>4, <2>5
<1>4. front = Front(s) /\ Last(s) = s[a]
  BY DEF Front, Last
<1> HIDE DEF front, a
<1>5. Append(front, s[a]) = s
  <2>1. /\ Append(front, s[a]) \in Seq(S) /\ Len(Append(front, s[a])) = Len(front) + 1
        /\ \A i \in 1..Len(front) : Append(front, s[a])[i] = front[i]
        /\ Append(front, s[a])[Len(front) + 1] = s[a]
    BY <1>2, <1>3, AppendProperties
  <2>2. Len(Append(front, s[a])) = Len(s) /\ Len(front) + 1 = a /\ a = Len(s)
    BY <1>1, <1>3, <2>1 DEF a
  <2>3. \A i \in 1..Len(s) : Append(front, s[a])[i] = s[i]
    <3> SUFFICES ASSUME NEW i \in 1..Len(s) PROVE Append(front, s[a])[i] = s[i]
      OBVIOUS
    <3>1. i = a \/ i \in 1..(a - 1)
      BY <1>1 DEF a
    <3>2. QED
      BY <1>3, <2>1, <2>2, <3>1
  <2>4. QED
    BY <2>1, <2>2, <2>3, SeqEqual
<1>6. QED
  BY <1>1, <1>2, <1>3, <1>4, <1>5 DEF a

\* How often a value is among them.
LEMMA PlacesOfFront ==
  ASSUME NEW S, NEW s \in Seq(S), s # <<>>, NEW n
  PROVE  Places(s, n) = Places(Front(s), n) + Same(Last(s), n)
<1>1. s = Append(Front(s), Last(s)) /\ Front(s) \in Seq(S) /\ Last(s) \in S
  BY FrontIs
<1>2. Places(Append(Front(s), Last(s)), n) = Places(Front(s), n) + Same(Last(s), n)
  BY <1>1, PlacesOfAppended
<1>3. QED
  BY <1>1, <1>2

\* What is not among the values is nowhere.
LEMMA PlacesOutside ==
  ASSUME NEW S, NEW s \in Seq(S), NEW n, n \notin S
  PROVE  Places(s, n) = 0
<1>1. DOMAIN s = 1..Len(s) /\ \A i \in 1..Len(s) : s[i] \in S
  BY LenProperties, ElementOfSeq
<1>2. At(s, n) = {}
  BY <1>1 DEF At
<1>3. QED
  BY <1>2, FS_EmptySet DEF Places, At

\* What is left when one place is given up.
LEMMA PlacesOfRest ==
  ASSUME NEW S, NEW s \in Seq(S), NEW i \in 1..Len(s), NEW n
  PROVE  /\ Places(s, n) = Places(RemoveAt(s, i), n) + Same(s[i], n)
         /\ RemoveAt(s, i) \in Seq(S) /\ s[i] \in S
<1> DEFINE rest == RemoveAt(s, i)
           A == At(s, n) \ {i}
           f == [j \in At(rest, n) |-> IF j < i THEN j ELSE j + 1]
<1>1. /\ rest \in Seq(S) /\ Len(s) \in Nat /\ Len(rest) = Len(s) - 1
      /\ \A j \in 1..(Len(s) - 1) : rest[j] = IF j < i THEN s[j] ELSE s[j + 1]
  BY RemoveAtElements, LenProperties
<1> HIDE DEF rest
<1>2. DOMAIN s = 1..Len(s) /\ DOMAIN rest = 1..(Len(s) - 1) /\ i \in Nat
  BY <1>1, LenProperties
<1>3. f \in Bijection(At(rest, n), A)
  <2> DEFINE new(j) == IF j < i THEN j ELSE j + 1
             old(k) == IF k < i THEN k ELSE k - 1
  <2>1. \A j \in At(rest, n) : j \in 1..(Len(s) - 1) /\ rest[j] = n
    BY <1>2 DEF At
  <2>2. \A j \in At(rest, n) : new(j) \in A /\ j \in Nat
    <3> SUFFICES ASSUME NEW j \in At(rest, n) PROVE new(j) \in A /\ j \in Nat
      OBVIOUS
    <3>1. j \in 1..(Len(s) - 1) /\ rest[j] = n
      BY <2>1
    <3>2. new(j) \in 1..Len(s) /\ new(j) # i /\ s[new(j)] = n
      BY <1>1, <1>2, <3>1
    <3>3. QED
      BY <1>2, <3>1, <3>2 DEF At
  <2>3. \A k \in A : old(k) \in At(rest, n) /\ new(old(k)) = k
    <3> SUFFICES ASSUME NEW k \in A PROVE old(k) \in At(rest, n) /\ new(old(k)) = k
      OBVIOUS
    <3>1. k \in 1..Len(s) /\ s[k] = n /\ k # i
      BY <1>2 DEF At
    <3>2. old(k) \in 1..(Len(s) - 1) /\ new(old(k)) = k
      BY <1>1, <1>2, <3>1
    <3>3. rest[old(k)] = s[k]
      BY <1>1, <1>2, <3>1, <3>2
    <3>4. QED
      BY <1>2, <3>1, <3>2, <3>3 DEF At
  <2>4. \A j, k \in At(rest, n) : new(j) = new(k) => j = k
    BY <1>2, <2>2
  <2>5. f = [j \in At(rest, n) |-> new(j)]
    OBVIOUS
  <2> HIDE DEF new, old, A, f
  <2>6. f \in [At(rest, n) -> A] /\ \A j, k \in At(rest, n) : f[j] = f[k] => j = k
    BY <2>2, <2>4, <2>5
  <2>7. \A k \in A : \E j \in At(rest, n) : f[j] = k
    BY <2>3, <2>5
  <2>8. QED
    BY <2>6, <2>7 DEF Bijection, Injection, Surjection, IsInjective
<1> HIDE DEF f, A
<1>4. Cardinality(A) = Places(rest, n) /\ IsFiniteSet(A)
  BY <1>1, <1>3, PlacesMatch
<1>5. IsFiniteSet(At(s, n)) /\ Places(s, n) = Cardinality(At(s, n)) /\ Places(s, n) \in Nat
  BY PlacesAreFinite
<1>6. Cardinality(A) = Cardinality(At(s, n)) - Same(s[i], n)
  <2>1. i \in At(s, n) <=> s[i] = n
    BY <1>2 DEF At
  <2>2. Cardinality(At(s, n) \ {i}) = IF i \in At(s, n) THEN Cardinality(At(s, n)) - 1
                                                      ELSE Cardinality(At(s, n))
    BY <1>5, FS_RemoveElement
  <2>3. QED
    BY <1>5, <2>1, <2>2 DEF Same, A
<1>7. Places(s, n) = Places(rest, n) + Same(s[i], n)
  <2>1. Same(s[i], n) \in Int
    BY DEF Same
  <2>2. QED
    BY <1>4, <1>5, <1>6, <2>1
<1>8. s[i] \in S
  BY ElementOfSeq
<1>9. QED
  BY <1>1, <1>7, <1>8 DEF rest

\* The same values in the opposite order.
LEMMA PlacesOfReversed ==
  ASSUME NEW S, NEW s \in Seq(S), NEW n,
         NEW t, t = [i \in 1..Len(s) |-> s[(Len(s) - i) + 1]]
  PROVE  Places(t, n) = Places(s, n) /\ t \in Seq(S)
<1> DEFINE a == Len(s)
           f == [i \in At(s, n) |-> (a - i) + 1]
<1>1. a \in Nat /\ DOMAIN s = 1..a /\ \A i \in 1..a : s[i] \in S
  BY LenProperties, ElementOfSeq
<1>2. DOMAIN t = 1..a /\ \A i \in 1..a : t[i] = s[(a - i) + 1]
  OBVIOUS
<1>3. t \in Seq(S)
  <2>1. \A i \in 1..a : (a - i) + 1 \in 1..a
    BY <1>1
  <2> HIDE DEF a
  <2>2. t = [i \in 1..a |-> t[i]] /\ \A i \in 1..a : t[i] \in S
    BY <1>1, <1>2, <2>1 DEF a
  <2>3. QED
    BY <1>1, <2>2, IsASeq
<1> HIDE DEF a
<1>4. f \in Bijection(At(s, n), At(t, n))
  <2>1. \A i \in At(s, n) : i \in 1..a /\ s[i] = n
    BY <1>1 DEF At
  <2>2. \A i \in At(s, n) : (a - i) + 1 \in At(t, n) /\ i \in Int
    <3> SUFFICES ASSUME NEW i \in At(s, n) PROVE (a - i) + 1 \in At(t, n) /\ i \in Int
      OBVIOUS
    <3>1. i \in 1..a /\ s[i] = n
      BY <2>1
    <3>2. (a - i) + 1 \in 1..a /\ (a - ((a - i) + 1)) + 1 = i /\ i \in Int
      BY <1>1, <3>1
    <3>3. t[(a - i) + 1] = s[i]
      BY <1>2, <3>2
    <3>4. QED
      BY <1>2, <3>1, <3>2, <3>3 DEF At
  <2>3. \A j \in At(t, n) : (a - j) + 1 \in At(s, n) /\ f[(a - j) + 1] = j
    <3> SUFFICES ASSUME NEW j \in At(t, n) PROVE (a - j) + 1 \in At(s, n) /\ f[(a - j) + 1] = j
      OBVIOUS
    <3>1. j \in 1..a /\ t[j] = n
      BY <1>2 DEF At
    <3>2. (a - j) + 1 \in 1..a /\ (a - ((a - j) + 1)) + 1 = j
      BY <1>1, <3>1
    <3>3. s[(a - j) + 1] = n
      BY <1>2, <3>1
    <3>4. (a - j) + 1 \in At(s, n)
      BY <1>1, <3>2, <3>3 DEF At
    <3>5. QED
      BY <3>2, <3>4
  <2>4. f \in [At(s, n) -> At(t, n)]
    BY <2>2
  <2>5. \A i, j \in Int : (a - i) + 1 = (a - j) + 1 => i = j
    BY <1>1
  <2>6. \A i, j \in At(s, n) : f[i] = f[j] => i = j
    BY <2>2, <2>5
  <2>7. QED
    BY <2>3, <2>4, <2>6 DEF Bijection, Injection, Surjection, IsInjective
<1>5. IsFiniteSet(At(t, n)) /\ Cardinality(At(t, n)) = Places(s, n)
  BY <1>4, PlacesMatch
<1>6. QED
  BY <1>3, <1>5 DEF Places, At

\* SetToSeq has each element once.
LEMMA SetToSeqIs ==
  ASSUME NEW B, IsFiniteSet(B)
  PROVE  SetToSeq(B) \in Bijection(1..Cardinality(B), B)
<1> DEFINE names == SetToSeq(B)
           k == Cardinality(B)
<1>1. k \in Nat
  BY FS_CardinalityType
<1>2. names \in Bijection(1..k, B)
  <2>1. IsFiniteSet(1..k) /\ Cardinality(1..k) = Cardinality(B)
    BY <1>1, FS_Interval
  <2>2. ExistsBijection(1..k, B)
    BY <2>1, FS_SameCardinalityBij
  <2>3. \E g \in [1..k -> B] : IsInjective(g)
    BY <2>2 DEF ExistsBijection, Bijection, Injection
  <2>4. names \in [1..k -> B] /\ IsInjective(names)
    BY <2>3 DEF SetToSeq
  <2>5. names \in Injection(1..k, B)
    BY <2>4 DEF Injection
  <2> HIDE DEF names, k
  <2>6. names \in Surjection(1..k, B)
    <3>1. PICK g : g \in Bijection(B, 1..k)
      <4>1. ExistsBijection(B, 1..k)
        BY <2>1, FS_SameCardinalityBij
      <4>2. QED
        BY <4>1 DEF ExistsBijection
    <3>2. g \in Surjection(B, 1..k) /\ IsFiniteSet(B)
      BY <3>1 DEF Bijection
    <3>3. ASSUME NEW b \in B, \A i \in 1..k : names[i] # b
          PROVE  FALSE
      <4>1. names \in Injection(1..k, B \ {b})
        BY <2>4, <3>3 DEF Injection, IsInjective
      <4>2. IsFiniteSet(B \ {b}) /\ Cardinality(B \ {b}) = Cardinality(B) - 1
        BY <3>3, FS_RemoveElement
      <4>3. Cardinality(1..k) <= Cardinality(B \ {b})
        BY <4>1, <4>2, FS_Injection DEF ExistsInjection
      <4>4. QED
        BY <1>1, <2>1, <4>2, <4>3 DEF k
    <3>4. QED
      BY <2>4, <3>3 DEF Surjection
  <2>7. QED
    BY <2>5, <2>6 DEF Bijection
<1>3. QED
  BY <1>2

\* So do its places.
LEMMA PlacesOfSet ==
  ASSUME NEW B, IsFiniteSet(B), NEW S, B \subseteq S
  PROVE  /\ SetToSeq(B) \in Seq(S)
         /\ \A n : Places(SetToSeq(B), n) = IF n \in B THEN 1 ELSE 0
<1> DEFINE names == SetToSeq(B)
           k == Cardinality(B)
<1>1. k \in Nat /\ names \in Bijection(1..k, B)
  BY SetToSeqIs, FS_CardinalityType
<1> HIDE DEF names, k
<1>2. names \in [1..k -> B] /\ DOMAIN names = 1..k
  BY <1>1 DEF Bijection, Injection
<1>3. names \in Seq(S)
  <2>1. names = [i \in 1..k |-> names[i]] /\ \A i \in 1..k : names[i] \in S
    BY <1>2
  <2>2. QED
    BY <1>1, <2>1, IsASeq
<1>4. \A i, j \in 1..k : names[i] = names[j] => i = j
  BY <1>1, <1>2 DEF Bijection, Injection, IsInjective
<1>5. \A b \in B : \E i \in 1..k : names[i] = b
  BY <1>1 DEF Bijection, Surjection
<1>6. ASSUME NEW n
      PROVE  Places(names, n) = IF n \in B THEN 1 ELSE 0
  <2>1. CASE n \in B
    <3>1. PICK i \in 1..k : names[i] = n
      BY <1>5, <2>1
    <3>2. At(names, n) = {i}
      BY <1>2, <1>4, <3>1 DEF At
    <3>3. QED
      BY <2>1, <3>2, FS_Singleton DEF Places, At
  <2>2. CASE n \notin B
    <3>1. At(names, n) = {}
      BY <1>2, <2>2 DEF At
    <3>2. QED
      BY <2>2, <3>1, FS_EmptySet DEF Places, At
  <2>3. QED
    BY <2>1, <2>2
<1>7. QED
  BY <1>3, <1>6 DEF names

\* The values of a table, in some order.
Listed(tab, B) == [i \in DOMAIN SetToSeq(B) |-> tab[SetToSeq(B)[i]]]

\* Each is listed as often as the table has it.
LEMMA PlacesOfTable ==
  ASSUME NEW B, IsFiniteSet(B), NEW tab, NEW S, \A b \in B : tab[b] \in S, NEW n,
         NEW t, t = Listed(tab, B)
  PROVE  /\ t \in Seq(S)
         /\ Places(t, n) = Cardinality({b \in B : tab[b] = n})
<1> DEFINE names == SetToSeq(B)
           k == Cardinality(B)
           A == {b \in B : tab[b] = n}
           f == [i \in At(t, n) |-> names[i]]
<1>1. k \in Nat
  BY FS_CardinalityType
<1>2. names \in Bijection(1..k, B)
  BY SetToSeqIs
<1>3. names \in [1..k -> B] /\ DOMAIN names = 1..k
  BY <1>2 DEF Bijection, Injection
<1>4. t = [i \in 1..k |-> tab[names[i]]] /\ \A i \in 1..k : tab[names[i]] \in S
  BY <1>3 DEF Listed
<1> HIDE DEF names, k
<1>5. t \in Seq(S)
  BY <1>1, <1>4, IsASeq
<1>6. f \in Bijection(At(t, n), A)
  <2>1. \A i \in At(t, n) : i \in 1..k /\ names[i] \in A
    BY <1>3, <1>4 DEF At
  <2>2. \A b \in A : \E i \in 1..k : names[i] = b
    BY <1>2 DEF Bijection, Surjection
  <2>3. \A b \in A : \E i \in At(t, n) : f[i] = b
    <3> SUFFICES ASSUME NEW b \in A PROVE \E i \in At(t, n) : f[i] = b
      OBVIOUS
    <3>1. PICK i \in 1..k : names[i] = b
      BY <2>2
    <3>2. i \in At(t, n)
      BY <1>4, <3>1 DEF At
    <3>3. QED
      BY <3>1, <3>2
  <2>4. f \in [At(t, n) -> A]
    BY <2>1
  <2>5. \A i, j \in At(t, n) : f[i] = f[j] => i = j
    BY <1>2, <1>3, <2>1 DEF Bijection, Injection, IsInjective
  <2>6. QED
    BY <2>3, <2>4, <2>5 DEF Bijection, Injection, Surjection, IsInjective
<1>7. Cardinality(A) = Places(t, n)
  BY <1>5, <1>6, PlacesMatch
<1>8. QED
  BY <1>5, <1>7

-----------------------------------------------------------------------------
(* Counting the members and elements of a heap. *)

\* The heaps the facts are about.
IsTree(h, K) ==
    /\ Len(h) \in Nat /\ DOMAIN h = 1..Len(h)
    /\ \A n \in DOMAIN h : h[n].fields \in Seq([key : K, child : DOMAIN h])

Pairs(h, n) ==
    UNION {{<<m, i>> : i \in {j \in DOMAIN h[m].fields : h[m].fields[j].child = n}}
             : m \in DOMAIN h}

\* The places in other nodes than p.
Elsewhere(h, p, n) == {x \in Pairs(h, n) : x[1] # p}

\* The fields of a node.
LEMMA FieldsAre ==
  ASSUME NEW K, NEW h, IsTree(h, K), NEW n \in DOMAIN h
  PROVE  /\ h[n].fields \in Seq([key : K, child : DOMAIN h])
         /\ Len(h[n].fields) \in Nat /\ DOMAIN h[n].fields = 1..Len(h[n].fields)
         /\ \A i \in DOMAIN h[n].fields : h[n].fields[i] \in [key : K, child : DOMAIN h]
<1> DEFINE f == h[n].fields
           S == [key : K, child : DOMAIN h]
<1>1. f \in Seq(S)
  BY DEF IsTree
<1> HIDE DEF f, S
<1>2. Len(f) \in Nat /\ DOMAIN f = 1..Len(f) /\ \A i \in 1..Len(f) : f[i] \in S
  BY <1>1, LenProperties, ElementOfSeq
<1>3. QED
  BY <1>1, <1>2 DEF f, S

\* The children of a node are the children of its fields.
LEMMA ChildrenAre ==
  ASSUME NEW K, NEW h, IsTree(h, K), NEW n \in DOMAIN h
  PROVE  /\ ChildrenIn(h, n) \in Seq(DOMAIN h)
         /\ DOMAIN ChildrenIn(h, n) = DOMAIN h[n].fields
         /\ \A i \in DOMAIN h[n].fields : ChildrenIn(h, n)[i] = h[n].fields[i].child
<1> DEFINE f == h[n].fields
           k == Len(f)
           c == [i \in 1..k |-> f[i].child]
<1>1. k \in Nat /\ DOMAIN f = 1..k /\ \A i \in 1..k : f[i] \in [key : K, child : DOMAIN h]
  BY FieldsAre
<1>2. \A i \in 1..k : f[i].child \in DOMAIN h
  BY <1>1
<1>3. ChildrenIn(h, n) = c
  BY <1>1 DEF ChildrenIn
<1> HIDE DEF f, k
<1>4. c \in Seq(DOMAIN h)
  BY <1>1, <1>2, IsASeq
<1>5. QED
  BY <1>1, <1>3, <1>4 DEF f, k

\* Which places there are.
LEMMA PairsAre ==
  ASSUME NEW h, NEW n, NEW x
  PROVE  x \in Pairs(h, n)
           <=> \E m \in DOMAIN h : \E i \in DOMAIN h[m].fields :
                 h[m].fields[i].child = n /\ x = <<m, i>>
BY DEF Pairs

\* There are only so many.
LEMMA PairsAreFinite ==
  ASSUME NEW K, NEW h, IsTree(h, K), NEW n
  PROVE  /\ IsFiniteSet(Pairs(h, n)) /\ Uses(h, n) = Cardinality(Pairs(h, n))
         /\ Uses(h, n) \in Nat
<1> DEFINE V == DOMAIN h
           places(m) == {j \in DOMAIN h[m].fields : h[m].fields[j].child = n}
           inside(m) == {<<m, i>> : i \in places(m)}
           all == {inside(m) : m \in V}
           f == [m \in V |-> inside(m)]
<1>1. IsFiniteSet(V)
  BY FS_Interval DEF IsTree
<1>2. ASSUME NEW m \in V PROVE IsFiniteSet(inside(m))
  <2>1. Len(h[m].fields) \in Nat /\ DOMAIN h[m].fields = 1..Len(h[m].fields)
    BY FieldsAre
  <2>2. IsFiniteSet(1..Len(h[m].fields))
    BY <2>1, FS_Interval
  <2>3. places(m) \in SUBSET (1..Len(h[m].fields))
    BY <2>1
  <2> HIDE DEF places
  <2>4. IsFiniteSet(places(m))
    BY <2>2, <2>3, FS_Subset
  <2> DEFINE g == [i \in places(m) |-> <<m, i>>]
  <2>5. g \in Surjection(places(m), inside(m))
    BY DEF Surjection
  <2>6. QED
    BY <2>4, <2>5, FS_Surjection
<1> HIDE DEF inside
<1>3. f \in Surjection(V, all)
  BY DEF Surjection
<1>4. IsFiniteSet(all)
  BY <1>1, <1>3, FS_Surjection
<1>5. IsFiniteSet(UNION all)
  BY <1>2, <1>4, FS_UNION
<1>6. Pairs(h, n) = UNION all
  BY DEF Pairs, inside
<1>7. Uses(h, n) = Cardinality(Pairs(h, n))
  BY DEF Uses, Pairs
<1>8. QED
  BY <1>5, <1>6, <1>7, FS_CardinalityType

\* The places in one node and those in the others.
LEMMA UsesSplit ==
  ASSUME NEW K, NEW h, IsTree(h, K), NEW p \in DOMAIN h, NEW n
  PROVE  /\ Uses(h, n) = Cardinality(Elsewhere(h, p, n)) + Places(ChildrenIn(h, p), n)
         /\ Cardinality(Elsewhere(h, p, n)) \in Nat /\ Places(ChildrenIn(h, p), n) \in Nat
<1> DEFINE c == ChildrenIn(h, p)
           Here == {<<p, i>> : i \in At(c, n)}
           f == [i \in At(c, n) |-> <<p, i>>]
<1>1. /\ c \in Seq(DOMAIN h) /\ DOMAIN c = DOMAIN h[p].fields
      /\ \A i \in DOMAIN c : c[i] = h[p].fields[i].child
  BY ChildrenAre
<1>2. /\ IsFiniteSet(Pairs(h, n)) /\ Uses(h, n) = Cardinality(Pairs(h, n))
  BY PairsAreFinite
<1>3. f \in Bijection(At(c, n), Here)
  BY DEF Bijection, Injection, Surjection, IsInjective
<1>4. IsFiniteSet(Here) /\ Cardinality(Here) = Places(c, n)
  BY <1>1, <1>3, PlacesMatch
<1>5. Pairs(h, n) = Elsewhere(h, p, n) \cup Here
  <2>1. Here \subseteq Pairs(h, n)
    <3> SUFFICES ASSUME NEW i \in At(c, n) PROVE <<p, i>> \in Pairs(h, n)
      OBVIOUS
    <3>1. i \in DOMAIN h[p].fields /\ h[p].fields[i].child = n
      BY <1>1 DEF At
    <3>2. QED
      BY <3>1, PairsAre
  <2>2. ASSUME NEW x \in Pairs(h, n), x \notin Elsewhere(h, p, n)
        PROVE  x \in Here
    <3>1. PICK m \in DOMAIN h : \E i \in DOMAIN h[m].fields :
                                  h[m].fields[i].child = n /\ x = <<m, i>>
      BY PairsAre
    <3>2. PICK i \in DOMAIN h[m].fields : h[m].fields[i].child = n /\ x = <<m, i>>
      BY <3>1
    <3>3. m = p
      BY <2>2, <3>2 DEF Elsewhere
    <3>4. i \in At(c, n)
      BY <1>1, <3>2, <3>3 DEF At
    <3>5. QED
      BY <3>2, <3>3, <3>4
  <2>3. QED
    BY <2>1, <2>2 DEF Elsewhere
<1>6. Elsewhere(h, p, n) \cap Here = {}
  BY DEF Elsewhere
<1>7. IsFiniteSet(Elsewhere(h, p, n))
  BY <1>2, FS_Subset DEF Elsewhere
<1> HIDE DEF Here, c
<1>8. Cardinality(Elsewhere(h, p, n) \cup Here)
        = Cardinality(Elsewhere(h, p, n)) + Cardinality(Here)
            - Cardinality(Elsewhere(h, p, n) \cap Here)
  BY <1>4, <1>7, FS_Union
<1>9. Cardinality(Elsewhere(h, p, n)) \in Nat /\ Places(c, n) \in Nat
  BY <1>1, <1>4, <1>7, FS_CardinalityType, PlacesAreFinite
<1>10. Cardinality(Elsewhere(h, p, n) \cap Here) = 0
  BY <1>6, FS_EmptySet
<1>11. QED
  BY <1>2, <1>4, <1>5, <1>8, <1>9, <1>10 DEF c

SameFields(h, g)       == \A m \in DOMAIN h : g[m].fields = h[m].fields
SameFieldsBut(h, g, p) == \A m \in DOMAIN h : m # p => g[m].fields = h[m].fields

\* Heaps whose nodes have the same fields use a node as often.
LEMMA UsesSame ==
  ASSUME NEW h, NEW g, DOMAIN g = DOMAIN h, SameFields(h, g), NEW n
  PROVE  Uses(g, n) = Uses(h, n)
<1>1. \A x : x \in Pairs(g, n) <=> x \in Pairs(h, n)
  BY PairsAre DEF SameFields
<1>2. Pairs(g, n) = Pairs(h, n)
  BY <1>1
<1>3. QED
  BY <1>2 DEF Uses, Pairs

\* A new node contains nothing.
LEMMA UsesGrow ==
  ASSUME NEW h, NEW g, NEW last, DOMAIN g = DOMAIN h \cup {last}, g[last].fields = <<>>,
         \A m \in DOMAIN h : m # last => g[m].fields = h[m].fields, last \notin DOMAIN h, NEW n
  PROVE  Uses(g, n) = Uses(h, n)
<1>1. \A x : x \in Pairs(g, n) <=> x \in Pairs(h, n)
  BY PairsAre
<1>2. Pairs(g, n) = Pairs(h, n)
  BY <1>1
<1>3. QED
  BY <1>2 DEF Uses, Pairs

\* One node has other fields.
LEMMA UsesMove ==
  ASSUME NEW K, NEW h, IsTree(h, K), NEW g, IsTree(g, K), NEW p \in DOMAIN h,
         DOMAIN g = DOMAIN h, SameFieldsBut(h, g, p), NEW n
  PROVE  /\ Uses(g, n) = Uses(h, n) + Places(ChildrenIn(g, p), n) - Places(ChildrenIn(h, p), n)
         /\ Uses(g, n) \in Nat /\ Uses(h, n) \in Nat
         /\ Places(ChildrenIn(g, p), n) \in Nat /\ Places(ChildrenIn(h, p), n) \in Nat
<1>1. \A x : x \in Elsewhere(g, p, n) <=> x \in Elsewhere(h, p, n)
  <2> SUFFICES ASSUME NEW x PROVE x \in Elsewhere(g, p, n) <=> x \in Elsewhere(h, p, n)
    OBVIOUS
  <2>1. \A m \in DOMAIN h : \A i : x = <<m, i>> => x[1] = m
    OBVIOUS
  <2>2. /\ x \in Pairs(g, n) <=> \E m \in DOMAIN g : \E i \in DOMAIN g[m].fields :
                                   g[m].fields[i].child = n /\ x = <<m, i>>
        /\ x \in Pairs(h, n) <=> \E m \in DOMAIN h : \E i \in DOMAIN h[m].fields :
                                   h[m].fields[i].child = n /\ x = <<m, i>>
    BY PairsAre
  <2>3. QED
    BY <2>1, <2>2 DEF Elsewhere, SameFieldsBut
<1>2. Elsewhere(g, p, n) = Elsewhere(h, p, n)
  BY <1>1
<1>3. /\ Uses(h, n) = Cardinality(Elsewhere(h, p, n)) + Places(ChildrenIn(h, p), n)
      /\ Cardinality(Elsewhere(h, p, n)) \in Nat /\ Places(ChildrenIn(h, p), n) \in Nat
  BY UsesSplit
<1>4. /\ Uses(g, n) = Cardinality(Elsewhere(g, p, n)) + Places(ChildrenIn(g, p), n)
      /\ Cardinality(Elsewhere(g, p, n)) \in Nat /\ Places(ChildrenIn(g, p), n) \in Nat
  BY UsesSplit
<1>5. QED
  BY <1>2, <1>3, <1>4

\* A node that is nobody's child is used nowhere, and the other way round.
LEMMA UnusedIs ==
  ASSUME NEW K, NEW h, IsTree(h, K), NEW n
  PROVE  Uses(h, n) = 0
           <=> \A m \in DOMAIN h : \A i \in DOMAIN h[m].fields : h[m].fields[i].child # n
<1>1. IsFiniteSet(Pairs(h, n)) /\ Uses(h, n) = Cardinality(Pairs(h, n))
  BY PairsAreFinite
<1>2. Uses(h, n) = 0 <=> Pairs(h, n) = {}
  BY <1>1, FS_EmptySet
<1>3. Pairs(h, n) = {} <=> \A m \in DOMAIN h : \A i \in DOMAIN h[m].fields :
                             h[m].fields[i].child # n
  <2>1. \A x : x \in Pairs(h, n)
          <=> \E m \in DOMAIN h : \E i \in DOMAIN h[m].fields :
                h[m].fields[i].child = n /\ x = <<m, i>>
    BY PairsAre
  <2>2. QED
    BY <2>1
<1>4. QED
  BY <1>2, <1>3

-----------------------------------------------------------------------------
(* Members that are set and elements that are added. *)

\* A name is in a mapping once.
OnceNamed(f) == \A i, j \in DOMAIN f : f[i].key = f[j].key /\ f[i].key # Element => i = j

Kids(f) == [i \in DOMAIN f |-> f[i].child]

\* The value is there, and what it replaces is not.
StoredOnce(f, key, x) ==
    \A n : Places(Kids(Stored(f, key, x)), n)
             = Places(Kids(f), n) + Same(x, n) - Places(Replaced(f, key), n)
StoredThere(f, key, x) == \E i \in DOMAIN Stored(f, key, x) : Stored(f, key, x)[i].key = key
NothingElse(f, key, x) ==
    \A i \in DOMAIN Stored(f, key, x) :
      \/ Stored(f, key, x)[i].child = x
      \/ \E j \in DOMAIN f : Stored(f, key, x)[i].child = f[j].child

\* One place has another value.
LEMMA PlacesOfChanged ==
  ASSUME NEW S, NEW s \in Seq(S), NEW i \in 1..Len(s), NEW x \in S, NEW n, NEW t \in Seq(S),
         Len(t) = Len(s), \A j \in 1..Len(s) : t[j] = IF j = i THEN x ELSE s[j]
  PROVE  Places(t, n) = Places(s, n) + Same(x, n) - Same(s[i], n)
<1>1. Len(s) \in Nat /\ DOMAIN s = 1..Len(s) /\ DOMAIN t = 1..Len(s)
  <2>1. DOMAIN t = 1..Len(t)
    BY LenProperties
  <2>2. Len(s) \in Nat /\ DOMAIN s = 1..Len(s)
    BY LenProperties
  <2>3. QED
    BY <2>1, <2>2
<1>2. IsFiniteSet(At(s, n)) /\ Places(s, n) = Cardinality(At(s, n)) /\ Places(s, n) \in Nat
  BY PlacesAreFinite
<1>3. Places(t, n) = Cardinality(At(t, n)) /\ Places(t, n) \in Nat
  BY PlacesAreFinite
<1>4. At(s, n) \ {i} = At(t, n) \ {i}
  BY <1>1 DEF At
<1>5. (i \in At(s, n) <=> s[i] = n) /\ (i \in At(t, n) <=> x = n)
  BY <1>1 DEF At
<1>6. Cardinality(At(t, n)) = Cardinality(At(s, n)) + (IF i \in At(t, n) THEN 1 ELSE 0)
                                                    - (IF i \in At(s, n) THEN 1 ELSE 0)
  BY <1>2, <1>4, OneDiffers
<1>7. QED
  BY <1>2, <1>3, <1>5, <1>6 DEF Same

\* What the fields of a node look like when a value has been stored.
LEMMA StoredIs ==
  ASSUME NEW K, NEW D, NEW f \in Seq([key : K, child : D]), OnceNamed(f),
         NEW key \in K, NEW x \in D
  PROVE  /\ Stored(f, key, x) \in Seq([key : K, child : D]) /\ OnceNamed(Stored(f, key, x))
         /\ Replaced(f, key) \in Seq(D)
         /\ StoredThere(f, key, x) /\ NothingElse(f, key, x) /\ StoredOnce(f, key, x)
<1> DEFINE S == [key : K, child : D]
           new == [key |-> key, child |-> x]
           same == {i \in DOMAIN f : key # Element /\ f[i].key = key}
           g == Stored(f, key, x)
           k == Len(f)
<1>1. /\ k \in Nat /\ DOMAIN f = 1..k /\ \A i \in 1..k : f[i] \in S /\ f[i].child \in D
      /\ new \in S /\ new.key = key /\ new.child = x
  <2>1. k \in Nat /\ DOMAIN f = 1..k /\ \A i \in 1..k : f[i] \in S
    BY LenProperties, ElementOfSeq
  <2>2. QED
    BY <2>1
<1>2. Kids(f) \in Seq(D) /\ Len(Kids(f)) = k /\ \A i \in 1..k : Kids(f)[i] = f[i].child
  <2>1. Kids(f) = [i \in 1..k |-> f[i].child]
    BY <1>1 DEF Kids
  <2> HIDE DEF k
  <2>2. QED
    BY <1>1, <2>1, IsASeq
<1>3. CASE same = {}
  <2>1. g = Append(f, new) /\ Replaced(f, key) = <<>>
    BY <1>3 DEF Stored, Replaced
  <2> HIDE DEF g, new
  <2>2. /\ g \in Seq(S) /\ Len(g) = k + 1 /\ g[k + 1] = new
        /\ \A i \in 1..k : g[i] = f[i]
    BY <1>1, <2>1, AppendProperties
  <2>3. DOMAIN g = 1..(k + 1)
    BY <2>2, LenProperties
  <2>4. Kids(g) = Append(Kids(f), x)
    <3>1. /\ Append(Kids(f), x) \in Seq(D) /\ Len(Append(Kids(f), x)) = k + 1
          /\ Append(Kids(f), x)[k + 1] = x
          /\ \A i \in 1..k : Append(Kids(f), x)[i] = f[i].child
      <4>1. /\ Append(Kids(f), x) \in Seq(D)
            /\ Len(Append(Kids(f), x)) = Len(Kids(f)) + 1
            /\ \A i \in 1..Len(Kids(f)) : Append(Kids(f), x)[i] = Kids(f)[i]
            /\ Append(Kids(f), x)[Len(Kids(f)) + 1] = x
        BY <1>2, AppendProperties
      <4>2. QED
        BY <1>2, <4>1
    <3>2. Append(Kids(f), x) \in [1..(k + 1) -> D]
      <4>1. Append(Kids(f), x) \in [1..Len(Append(Kids(f), x)) -> D]
        BY <3>1, LenProperties
      <4>2. QED
        BY <3>1, <4>1
    <3>3. /\ Kids(g) = [i \in 1..(k + 1) |-> g[i].child]
          /\ Append(Kids(f), x) = [i \in 1..(k + 1) |-> Append(Kids(f), x)[i]]
      <4>1. Append(Kids(f), x) = [i \in 1..(k + 1) |-> Append(Kids(f), x)[i]]
        BY <3>2
      <4>2. QED
        BY <2>3, <4>1 DEF Kids
    <3>4. \A i \in 1..(k + 1) : g[i].child = Append(Kids(f), x)[i]
      <4> SUFFICES ASSUME NEW i \in 1..(k + 1) PROVE g[i].child = Append(Kids(f), x)[i]
        OBVIOUS
      <4>1. CASE i = k + 1
        BY <1>1, <2>2, <3>1, <4>1
      <4>2. CASE i # k + 1
        <5>1. i \in 1..k
          BY <1>1, <4>2
        <5>2. QED
          BY <2>2, <3>1, <5>1
      <4>3. QED
        BY <4>1, <4>2
    <3> HIDE DEF k
    <3>5. QED
      BY <3>3, <3>4
  <2>5. OnceNamed(g)
    <3> SUFFICES ASSUME NEW i \in 1..(k + 1), NEW j \in 1..(k + 1), g[i].key = g[j].key,
                        g[i].key # Element
                 PROVE  i = j
      BY <2>3 DEF OnceNamed
    <3>1. \A m \in 1..k : key = Element \/ f[m].key # key
      BY <1>1, <1>3
    <3>2. \A m \in 1..(k + 1) : m = k + 1 \/ m \in 1..k
      BY <1>1
    <3>3. QED
      BY <1>1, <2>2, <3>1, <3>2 DEF OnceNamed
  <2>6. k + 1 \in DOMAIN g /\ g[k + 1].key = key
    BY <1>1, <2>2, <2>3
  <2>7. \A i \in DOMAIN g : g[i].child = x \/ \E j \in DOMAIN f : g[i].child = f[j].child
    <3>1. \A m \in 1..(k + 1) : m = k + 1 \/ m \in 1..k
      BY <1>1
    <3>2. QED
      BY <1>1, <2>2, <2>3, <3>1
  <2>8. \A n : Places(Kids(g), n) = Places(Kids(f), n) + Same(x, n) - Places(Replaced(f, key), n)
    <3> SUFFICES ASSUME NEW n
                 PROVE  Places(Kids(g), n)
                          = Places(Kids(f), n) + Same(x, n) - Places(Replaced(f, key), n)
      OBVIOUS
    <3>1. Places(Append(Kids(f), x), n) = Places(Kids(f), n) + Same(x, n)
      BY <1>2, PlacesOfAppended
    <3>2. Places(Kids(f), n) \in Nat /\ Same(x, n) \in Nat
      BY <1>2, PlacesAreFinite DEF Same
    <3>3. Places(Replaced(f, key), n) = 0
      BY <2>1, PlacesOfNone
    <3>4. QED
      BY <2>4, <3>1, <3>2, <3>3
  <2>9. Replaced(f, key) \in Seq(D)
    BY <2>1
  <2>10. QED
    BY <2>2, <2>5, <2>6, <2>7, <2>8, <2>9 DEF g, StoredThere, NothingElse, StoredOnce
<1>4. CASE same # {}
  <2> DEFINE p == CHOOSE i \in same : TRUE
  <2>1. p \in same
    BY <1>4
  <2> HIDE DEF p
  <2>2. /\ p \in 1..k /\ f[p].key = key /\ key # Element
        /\ \A i \in 1..k : f[i].key = key => i = p
    BY <1>1, <2>1 DEF OnceNamed
  <2>3. Replaced(f, key) = <<f[p].child>>
    BY <1>4 DEF Replaced, p
  <2>4. g = [f EXCEPT ![p] = new]
    <3>1. g = [i \in DOMAIN f |-> IF f[i].key = key THEN new ELSE f[i]]
      BY <1>1, <2>2 DEF Stored
    <3>2. f = [i \in 1..k |-> f[i]]
      BY <1>1
    <3>3. [f EXCEPT ![p] = new] = [i \in 1..k |-> IF i = p THEN new ELSE f[i]]
      BY <1>1, <3>2
    <3> HIDE DEF new, g
    <3>4. QED
      BY <1>1, <2>2, <3>1, <3>3
  <2> HIDE DEF g, new
  <2>5. /\ g \in Seq(S) /\ Len(g) = k
        /\ \A i \in 1..k : g[i] = IF i = p THEN new ELSE f[i]
    BY <1>1, <2>2, <2>4, ExceptSeq
  <2>6. DOMAIN g = 1..k
    BY <2>5, LenProperties
  <2>7. /\ Kids(g) \in Seq(D) /\ Len(Kids(g)) = k
        /\ \A i \in 1..k : Kids(g)[i] = IF i = p THEN x ELSE Kids(f)[i]
    <3>1. Kids(g) = [i \in 1..k |-> g[i].child]
      BY <2>6 DEF Kids
    <3>2. \A i \in 1..k : g[i].child \in D /\ g[i].child = IF i = p THEN x ELSE Kids(f)[i]
      BY <1>1, <1>2, <2>5
    <3> HIDE DEF k
    <3>3. Kids(g) \in Seq(D) /\ Len(Kids(g)) = k
      BY <1>1, <3>1, <3>2, IsASeq
    <3>4. QED
      BY <3>1, <3>2, <3>3
  <2>8. OnceNamed(g)
    <3> SUFFICES ASSUME NEW i \in 1..k, NEW j \in 1..k, g[i].key = g[j].key, g[i].key # Element
                 PROVE  i = j
      BY <2>6 DEF OnceNamed
    <3>1. \A m \in 1..k : g[m].key = f[m].key
      BY <1>1, <2>2, <2>5
    <3>2. QED
      BY <1>1, <3>1 DEF OnceNamed
  <2>9. p \in DOMAIN g /\ g[p].key = key
    BY <1>1, <2>2, <2>5, <2>6
  <2>10. \A i \in DOMAIN g : g[i].child = x \/ \E j \in DOMAIN f : g[i].child = f[j].child
    BY <1>1, <2>5, <2>6
  <2>11. \A n : Places(Kids(g), n) = Places(Kids(f), n) + Same(x, n) - Places(Replaced(f, key), n)
    <3> SUFFICES ASSUME NEW n
                 PROVE  Places(Kids(g), n)
                          = Places(Kids(f), n) + Same(x, n) - Places(Replaced(f, key), n)
      OBVIOUS
    <3>1. p \in 1..Len(Kids(f)) /\ Kids(f)[p] = f[p].child
      BY <1>2, <2>2
    <3>2. Places(Kids(g), n) = Places(Kids(f), n) + Same(x, n) - Same(Kids(f)[p], n)
      BY <1>2, <2>7, <3>1, PlacesOfChanged
    <3>3. Places(Replaced(f, key), n) = Same(f[p].child, n)
      BY <2>3, PlacesOfOne
    <3>4. QED
      BY <3>1, <3>2, <3>3
  <2>12. Replaced(f, key) \in Seq(D)
    BY <1>1, <2>2, <2>3
  <2>13. QED
    BY <2>5, <2>8, <2>9, <2>10, <2>11, <2>12 DEF g, StoredThere, NothingElse, StoredOnce
<1>5. QED
  BY <1>3, <1>4

-----------------------------------------------------------------------------
(* What is below a node, and what is below itself. *)

\* A heap is a graph.
LEMMA HeapIsGraph ==
  ASSUME NEW K, NEW h, IsTree(h, K)
  PROVE  /\ IsGraph(ChildSets(h)) /\ DOMAIN ChildSets(h) = DOMAIN h
         /\ \A n \in DOMAIN h : \A m :
              m \in ChildSets(h)[n] <=> \E i \in DOMAIN h[n].fields : m = h[n].fields[i].child
<1>1. IsFiniteSet(DOMAIN h)
  BY FS_Interval DEF IsTree
<1>2. DOMAIN ChildSets(h) = DOMAIN h
  BY DEF ChildSets
<1>3. ASSUME NEW n \in DOMAIN h
      PROVE  /\ ChildSets(h)[n] \subseteq DOMAIN h
             /\ \A m : m \in ChildSets(h)[n]
                         <=> \E i \in DOMAIN h[n].fields : m = h[n].fields[i].child
  <2>1. ChildSets(h)[n] = {ChildrenIn(h, n)[i] : i \in DOMAIN ChildrenIn(h, n)}
    BY DEF ChildSets, Range
  <2>2. /\ DOMAIN ChildrenIn(h, n) = DOMAIN h[n].fields
        /\ \A i \in DOMAIN h[n].fields : ChildrenIn(h, n)[i] = h[n].fields[i].child
    BY ChildrenAre
  <2>3. \A i \in DOMAIN h[n].fields : h[n].fields[i].child \in DOMAIN h
    <3>1. \A i \in DOMAIN h[n].fields : h[n].fields[i] \in [key : K, child : DOMAIN h]
      BY FieldsAre
    <3>2. QED
      BY <3>1
  <2>4. \A m : m \in ChildSets(h)[n] <=> \E i \in DOMAIN h[n].fields : m = h[n].fields[i].child
    BY <2>1, <2>2
  <2>5. QED
    BY <2>3, <2>4
<1>4. ChildSets(h) \in [DOMAIN h -> SUBSET DOMAIN h]
  <2>1. ChildSets(h) = [n \in DOMAIN h |-> ChildSets(h)[n]]
    BY DEF ChildSets
  <2>2. QED
    BY <1>3, <2>1
<1>5. QED
  BY <1>1, <1>2, <1>3, <1>4 DEF IsGraph

\* yaml_node_seal reaches the node and what is below it, and never a node that is
\* in nothing.
LEMMA SealedTree ==
  ASSUME NEW K, NEW h, IsTree(h, K), NEW n \in DOMAIN h
  PROVE  /\ ReachIn(h, {n}) \subseteq DOMAIN h /\ n \in ReachIn(h, {n})
         /\ \A m \in ReachIn(h, {n}) : \A i \in DOMAIN h[m].fields :
              h[m].fields[i].child \in ReachIn(h, {n})
         /\ \A x : /\ x # n
                   /\ \A m \in DOMAIN h : \A i \in DOMAIN h[m].fields : h[m].fields[i].child # x
                   => x \notin ReachIn(h, {n})
<1> DEFINE next == ChildSets(h)
           R == ReachIn(h, {n})
<1>1. IsGraph(next) /\ DOMAIN next = DOMAIN h
  BY HeapIsGraph
<1>2. \A p \in DOMAIN h : \A m :
        m \in next[p] <=> \E i \in DOMAIN h[p].fields : m = h[p].fields[i].child
  BY HeapIsGraph
<1>3. R = Reach(next, {n}) /\ {n} \in SUBSET DOMAIN next
  BY <1>1 DEF ReachIn
<1> HIDE DEF next, R
<1>4. R \subseteq DOMAIN h /\ n \in R
  <2>1. Reach(next, {n}) \in SUBSET DOMAIN next /\ {n} \subseteq Reach(next, {n})
    BY <1>1, <1>3, ReachBounded
  <2>2. QED
    BY <1>1, <1>3, <2>1
<1>5. Closed(next, R)
  BY <1>1, <1>3, ReachClosed
<1>6. \A m \in R : \A i \in DOMAIN h[m].fields : h[m].fields[i].child \in R
  BY <1>2, <1>4, <1>5 DEF Closed
<1>7. ASSUME NEW x, x # n,
             \A m \in DOMAIN h : \A i \in DOMAIN h[m].fields : h[m].fields[i].child # x
      PROVE  x \notin R
  <2> DEFINE X == DOMAIN h \ {x}
  <2>1. {n} \subseteq X
    BY <1>7
  <2>2. Closed(next, X)
    <3> SUFFICES ASSUME NEW v \in X, NEW w \in next[v] PROVE w \in X
      BY DEF Closed
    <3>1. w \in DOMAIN h
      BY <1>1 DEF IsGraph
    <3>2. w # x
      BY <1>2, <1>7
    <3>3. QED
      BY <3>1, <3>2
  <2> HIDE DEF X
  <2>3. Reach(next, {n}) \subseteq X
    BY <1>1, <1>3, <2>1, <2>2, ReachLeast
  <2>4. QED
    BY <1>3, <2>3 DEF X
<1>8. QED
  BY <1>4, <1>6, <1>7 DEF R

\* Among any nodes there is one that contains none of them.
Grounded(h) ==
    \A X \in SUBSET DOMAIN h : X # {} =>
      \E m \in X : \A i \in DOMAIN h[m].fields : h[m].fields[i].child \notin X

\* Then no node contains itself: the nodes from which one gets to such a node would
\* each contain another of them.
LEMMA GroundedIsAcyclic ==
  ASSUME NEW K, NEW h, IsTree(h, K), Grounded(h)
  PROVE  AcyclicIn(h)
<1> DEFINE next == ChildSets(h)
           V == DOMAIN h
<1>1. IsGraph(next) /\ DOMAIN next = V
  BY HeapIsGraph
<1>2. \A p \in V : \A m :
        m \in next[p] <=> \E i \in DOMAIN h[p].fields : m = h[p].fields[i].child
  BY HeapIsGraph
<1>3. AcyclicIn(h) <=> OnCycleOf(next) = {}
  BY DEF AcyclicIn
<1> HIDE DEF next
<1>4. ASSUME NEW v \in OnCycleOf(next)
      PROVE  FALSE
  <2>1. v \in V /\ v \in Reach(next, next[v])
    BY <1>1 DEF OnCycleOf
  <2> DEFINE Y == {y \in V : y = v \/ v \in Reach(next, next[y])}
  <2>2. ASSUME NEW y \in V PROVE next[y] \in SUBSET DOMAIN next
    BY <1>1 DEF IsGraph
  <2>3. PICK y \in Y : \A i \in DOMAIN h[y].fields : h[y].fields[i].child \notin Y
    <3>1. v \in Y /\ Y \in SUBSET DOMAIN h
      BY <2>1
    <3> HIDE DEF Y
    <3>2. QED
      BY <3>1 DEF Grounded
  <2>4. y \in V /\ v \in Reach(next, next[y]) /\ \A m \in next[y] : m \notin Y
    BY <1>2, <2>1, <2>3
  <2> DEFINE X == V \ Y
  <2>5. next[y] \subseteq X
    BY <1>1, <2>2, <2>4
  <2>6. Closed(next, X)
    <3> SUFFICES ASSUME NEW z \in X, NEW w \in next[z], w \in Y PROVE FALSE
      BY <1>1, <2>2 DEF Closed
    <3>1. z \in V /\ v \notin Reach(next, next[z]) /\ next[z] \in SUBSET DOMAIN next
      BY <2>2
    <3>2. /\ Reach(next, next[z]) \in SUBSET DOMAIN next /\ next[z] \subseteq Reach(next, next[z])
          /\ Closed(next, Reach(next, next[z]))
      BY <1>1, <3>1, ReachBounded, ReachClosed
    <3>3. w \in V /\ w \in Reach(next, next[z])
      BY <1>1, <3>1, <3>2
    <3>4. w # v /\ v \in Reach(next, next[w])
      BY <3>1, <3>3
    <3>5. next[w] \in SUBSET DOMAIN next /\ next[w] \subseteq Reach(next, next[z])
      BY <2>2, <3>2, <3>3 DEF Closed
    <3>6. Reach(next, next[w]) \subseteq Reach(next, next[z])
      BY <1>1, <3>2, <3>5, ReachLeast
    <3>7. QED
      BY <3>1, <3>4, <3>6
  <2>7. next[y] \in SUBSET DOMAIN next
    BY <2>2, <2>4
  <2>8. v \notin X
    BY <2>1
  <2> HIDE DEF X, Y
  <2>9. Reach(next, next[y]) \subseteq X
    BY <1>1, <2>5, <2>6, <2>7, ReachLeast
  <2>10. QED
    BY <2>4, <2>8, <2>9
<1>5. QED
  BY <1>3, <1>4

\* Nothing contains the node.
Unused(h, x) == \A m \in DOMAIN h : \A i \in DOMAIN h[m].fields : h[m].fields[i].child # x

\* Nodes get nothing, or p gets x.
AddsOnly(h, g, p, x) ==
    /\ DOMAIN h \subseteq DOMAIN g
    /\ \A m \in DOMAIN g \ DOMAIN h : g[m].fields = <<>>
    /\ \A m \in DOMAIN h : \A i \in DOMAIN g[m].fields :
         \/ \E j \in DOMAIN h[m].fields : g[m].fields[i].child = h[m].fields[j].child
         \/ m = p /\ g[m].fields[i].child = x

\* It stays so when a node that is in nothing gets another node, and when nodes
\* come that contain nothing.
LEMMA GroundedStays ==
  ASSUME NEW h, NEW g, Grounded(h), NEW p, NEW x, x # p, Unused(h, p), AddsOnly(h, g, p, x)
  PROVE  Grounded(g)
<1>0. /\ \A m \in DOMAIN h : \A i \in DOMAIN h[m].fields : h[m].fields[i].child # p
      /\ DOMAIN h \subseteq DOMAIN g
      /\ \A m \in DOMAIN g \ DOMAIN h : g[m].fields = <<>>
      /\ \A m \in DOMAIN h : \A i \in DOMAIN g[m].fields :
           \/ \E j \in DOMAIN h[m].fields : g[m].fields[i].child = h[m].fields[j].child
           \/ m = p /\ g[m].fields[i].child = x
  BY DEF Unused, AddsOnly
<1> SUFFICES ASSUME NEW X \in SUBSET DOMAIN g, X # {}
             PROVE  \E m \in X : \A i \in DOMAIN g[m].fields : g[m].fields[i].child \notin X
  BY DEF Grounded
<1>1. CASE \E m \in X : m \notin DOMAIN h
  <2>1. PICK m \in X : m \notin DOMAIN h
    BY <1>1
  <2>2. g[m].fields = <<>>
    BY <1>0, <2>1
  <2>3. DOMAIN g[m].fields = {}
    BY <2>2
  <2>4. QED
    BY <2>3
<1>2. CASE X \subseteq DOMAIN h /\ X \ {p} # {}
  <2>1. PICK m \in X \ {p} : \A i \in DOMAIN h[m].fields : h[m].fields[i].child \notin X \ {p}
    <3>1. X \ {p} \in SUBSET DOMAIN h
      BY <1>2
    <3>2. QED
      BY <1>2, <3>1 DEF Grounded
  <2>2. m \in DOMAIN h /\ m # p
    BY <1>2
  <2>3. \A i \in DOMAIN g[m].fields : g[m].fields[i].child \notin X
    BY <1>0, <2>1, <2>2
  <2>4. QED
    BY <2>1, <2>3
<1>3. CASE X \subseteq DOMAIN h /\ X = {p}
  <2>1. \A i \in DOMAIN g[p].fields : g[p].fields[i].child # p
    BY <1>0, <1>3
  <2>2. QED
    BY <1>3, <2>1
<1>4. QED
  BY <1>1, <1>2, <1>3

\* It stays so when nodes lose what they contain.
LEMMA GroundedShrinks ==
  ASSUME NEW h, NEW g, Grounded(h), DOMAIN g = DOMAIN h,
         \A m \in DOMAIN h : \A i \in DOMAIN g[m].fields :
           \E j \in DOMAIN h[m].fields : g[m].fields[i].child = h[m].fields[j].child
  PROVE  Grounded(g)
<1> SUFFICES ASSUME NEW X \in SUBSET DOMAIN h, X # {}
             PROVE  \E m \in X : \A i \in DOMAIN g[m].fields : g[m].fields[i].child \notin X
  BY DEF Grounded
<1>1. PICK m \in X : \A i \in DOMAIN h[m].fields : h[m].fields[i].child \notin X
  BY DEF Grounded
<1>2. QED
  BY <1>1

=============================================================================
