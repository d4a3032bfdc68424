--------------------------- MODULE YamlDataProofs ---------------------------
(***************************************************************************)
(* Proofs about the components that hold and convert values.               *)
(*                                                                         *)
(* Mappings and sequences: the table of a mapping and the array of its     *)
(* keys agree, equality and hashing follow from it, and a walk misses no   *)
(* more than what was removed, for containers of any size.  The array must *)
(* be known to have no key twice: remove_member takes only the first       *)
(* occurrence out of it.                                                   *)
(*                                                                         *)
(* Values: every scalar of a tree is one that a setter makes, from which   *)
(* what is read, copied and converted follows, for integers of any width.  *)
(* The functions of a tree are defined recursively; that one level of a    *)
(* tree depends on the next one only gives their equations.                *)
(*                                                                         *)
(* Schemas: what is reported of a node is right if what is reported of     *)
(* those below is, whatever schemas refer to each other.                   *)
(*                                                                         *)
(* Objects: every value that a property is given is one that its           *)
(* conversion gives back, which is shown type by type; a value read from a *)
(* tree is such a value again, since it was cut to the width of its type.  *)
(***************************************************************************)
EXTENDS YamlData, FiniteFacts, FunctionTheorems

-----------------------------------------------------------------------------
(* Mappings and sequences. *)

\* The keys of a mapping, once each, are those of its table.
OrderInv ==
    /\ keys_order \in [Mapping -> Seq(Key)]
    /\ DOMAIN members = Mapping
    /\ \A m \in Mapping :
         /\ NoneTwice(keys_order[m])
         /\ \A k : k \in DOMAIN members[m] <=> \E i \in 1..Len(keys_order[m]) : keys_order[m][i] = k

-----------------------------------------------------------------------------
(* Sequences. *)

\* The first occurrence is the only one.
LEMMA RemoveFirstIsRemoveAt ==
  ASSUME NEW s \in Seq(Key), NoneTwice(s), NEW i \in 1..Len(s)
  PROVE  RemoveFirst(s, s[i]) = RemoveAt(s, i)
<1>1. {j \in 1..Len(s) : s[j] = s[i]} = {i}
  BY DEF NoneTwice
<1>2. i \in Int
  BY LenProperties
<1>3. Min({i}) = i
  BY <1>2 DEF Min
<1>4. SelectInSeq(s, LAMBDA v : v = s[i]) = i
  BY <1>1, <1>3 DEF SelectInSeq
<1>5. QED
  BY <1>4 DEF RemoveFirst

\* A sequence without repetitions has as many elements as its range.
LEMMA LenIsCardinality ==
  ASSUME NEW s \in Seq(Key), NoneTwice(s)
  PROVE  Len(s) = Cardinality(Range(s))
<1>1. DOMAIN s = 1..Len(s) /\ Len(s) \in Nat /\ s \in [1..Len(s) -> Range(s)]
  BY LenProperties DEF Range
<1>2. s \in Bijection(1..Len(s), Range(s))
  BY <1>1 DEF Bijection, Injection, Surjection, IsInjective, NoneTwice, Range
<1>3. ExistsBijection(1..Len(s), Range(s))
  BY <1>2 DEF ExistsBijection
<1>4. IsFiniteSet(1..Len(s)) /\ Cardinality(1..Len(s)) = Len(s)
  BY <1>1, FS_Interval
<1>5. QED
  BY <1>3, <1>4, FS_Bijection

-----------------------------------------------------------------------------
(* The steps. *)

\* A step that changes one mapping, and leaves it as the invariant says.
LEMMA OneMappingChanges ==
  ASSUME OrderInv, NEW m \in Mapping, NEW new \in Seq(Key),
         keys_order' = [keys_order EXCEPT ![m] = new],
         DOMAIN members' = Mapping,
         \A q \in Mapping : q # m => members'[q] = members[q],
         NoneTwice(new),
         \A j : j \in DOMAIN members'[m] <=> \E i \in 1..Len(new) : new[i] = j
  PROVE  OrderInv'
<1>1. /\ keys_order' \in [Mapping -> Seq(Key)]
      /\ \A q \in Mapping : keys_order'[q] = IF q = m THEN new ELSE keys_order[q]
  BY DEF OrderInv
<1>2. ASSUME NEW q \in Mapping
      PROVE  /\ NoneTwice(keys_order'[q])
             /\ \A k : k \in DOMAIN members'[q] <=>
                      \E i \in 1..Len(keys_order'[q]) : keys_order'[q][i] = k
  <2>1. CASE q = m
    BY <1>1, <2>1
  <2>2. CASE q # m
    BY <1>1, <2>2 DEF OrderInv
  <2>3. QED
    BY <2>1, <2>2
<1>3. QED
  BY <1>1, <1>2 DEF OrderInv, NoneTwice

\* A key is appended to the array exactly when the table did not have it.
LEMMA SetMemberKeeps ==
  ASSUME OrderInv, NEW m \in Mapping, NEW k \in Key, NEW n, SetMember(m, k, n)
  PROVE  OrderInv'
<1> DEFINE old == keys_order[m]
           new == IF HasMember(m, k) THEN old ELSE Append(old, k)
<1>1. /\ old \in Seq(Key) /\ Len(old) \in Nat
      /\ Append(old, k) \in Seq(Key) /\ Len(Append(old, k)) = Len(old) + 1
      /\ \A i \in 1..(Len(old) + 1) : Append(old, k)[i] = IF i = Len(old) + 1 THEN k ELSE old[i]
  BY AppendProperties, LenProperties DEF OrderInv
<1>2. /\ NoneTwice(old)
      /\ \A j : j \in DOMAIN members[m] <=> \E i \in 1..Len(old) : old[i] = j
  BY DEF OrderInv
<1>3. /\ keys_order' = [keys_order EXCEPT ![m] = new]
      /\ DOMAIN members' = Mapping
      /\ \A q \in Mapping : q # m => members'[q] = members[q]
      /\ DOMAIN members'[m] = DOMAIN members[m] \cup {k}
  BY DEF SetMember, OrderInv
<1>4. /\ new \in Seq(Key) /\ NoneTwice(new)
      /\ \A j : j \in DOMAIN members[m] \cup {k} <=> \E i \in 1..Len(new) : new[i] = j
  <2>1. CASE HasMember(m, k)
    BY <1>1, <1>2, <2>1 DEF HasMember
  <2>2. CASE ~HasMember(m, k)
    <3>1. \A i \in 1..Len(old) : old[i] # k
      BY <1>2, <2>2 DEF HasMember
    <3>2. NoneTwice(Append(old, k))
      BY <1>1, <1>2, <3>1 DEF NoneTwice
    <3>3. ASSUME NEW j
          PROVE  j \in DOMAIN members[m] \cup {k}
                   <=> \E i \in 1..(Len(old) + 1) : Append(old, k)[i] = j
      BY <1>1, <1>2
    <3>4. QED
      BY <1>1, <2>2, <3>2, <3>3
  <2>3. QED
    BY <2>1, <2>2
<1> HIDE DEF new
<1>5. QED
  BY <1>3, <1>4, OneMappingChanges

\* The key goes from the table and, at its only position, from the array.
LEMMA RemoveMemberKeeps ==
  ASSUME OrderInv, NEW m \in Mapping, NEW k \in Key, RemoveMember(m, k)
  PROVE  OrderInv'
<1> DEFINE old == keys_order[m]
<1>1. /\ old \in Seq(Key) /\ Len(old) \in Nat /\ NoneTwice(old)
      /\ \A j : j \in DOMAIN members[m] <=> \E i \in 1..Len(old) : old[i] = j
  BY LenProperties DEF OrderInv
<1>2. PICK i \in 1..Len(old) : old[i] = k
  BY <1>1 DEF RemoveMember, HasMember
<1> DEFINE new == RemoveAt(old, i)
<1>3. /\ new \in Seq(Key) /\ Len(new) = Len(old) - 1
      /\ \A j \in 1..(Len(old) - 1) : new[j] = IF j < i THEN old[j] ELSE old[j + 1]
  BY <1>1, RemoveAtElements
<1>4. /\ keys_order' = [keys_order EXCEPT ![m] = new]
      /\ DOMAIN members' = Mapping
      /\ \A q \in Mapping : q # m => members'[q] = members[q]
      /\ DOMAIN members'[m] = DOMAIN members[m] \ {k}
  BY <1>1, <1>2, RemoveFirstIsRemoveAt DEF RemoveMember, OrderInv
<1> HIDE DEF new
<1>5. /\ NoneTwice(new)
      /\ \A j : (\E p \in 1..Len(new) : new[p] = j) <=> j # k /\ \E p \in 1..Len(old) : old[p] = j
  <2>1. /\ NoneTwice(RemoveAt(old, i))
        /\ \A x : (\E j \in 1..Len(RemoveAt(old, i)) : RemoveAt(old, i)[j] = x)
                 <=> x # old[i] /\ \E j \in 1..Len(old) : old[j] = x
    <3> HIDE DEF old
    <3>1. QED
      BY <1>1, RemovedOnce
  <2>2. QED
    BY <1>2, <2>1 DEF new
<1>6. \A j : j \in DOMAIN members[m] \ {k} <=> \E p \in 1..Len(new) : new[p] = j
  BY <1>1, <1>5
<1>7. QED
  BY <1>3, <1>4, <1>5, <1>6, OneMappingChanges

\* Empty tables and empty arrays.
LEMMA OrderInit == Init => OrderInv
<1> SUFFICES ASSUME Init PROVE OrderInv
  OBVIOUS
<1>1. /\ keys_order \in [Mapping -> Seq(Key)] /\ DOMAIN members = Mapping
  BY EmptySeq DEF Init
<1>2. ASSUME NEW m \in Mapping
      PROVE  keys_order[m] = <<>> /\ members[m] = <<>>
  BY DEF Init
<1>3. QED
  BY <1>1, <1>2 DEF OrderInv, NoneTwice

\* Every step preserves the invariant.
LEMMA OrderNext ==
  ASSUME OrderInv, [Next]_vars
  PROVE  OrderInv'
<1>1. ASSUME NEW m \in Mapping, NEW k \in Key, RemoveMember(m, k) \/ \E n \in Node : SetMember(m, k, n)
      PROVE  OrderInv'
  BY <1>1, SetMemberKeeps, RemoveMemberKeeps
<1>2. ASSUME \/ \E q \in Sequence :
                  \/ \E n \in Node : AddElement(q, n)
                  \/ \E i \in 1..MaxLength : RemoveElement(q, i)
             \/ \E c \in Mapping \cup Sequence : Foreach(c)
             \/ Visit \/ WalkEnds \/ UNCHANGED vars
      PROVE  OrderInv'
  <2>1. keys_order' = keys_order /\ members' = members
    BY <1>2 DEF AddElement, RemoveElement, Foreach, Visit, WalkEnds, vars
  <2>2. QED
    BY <2>1 DEF OrderInv
<1>3. QED
  BY <1>1, <1>2 DEF Next

\* Whatever is set and removed, in mappings of any number of keys and from callbacks of
\* walks too: each key is once in the array, exactly the keys of the array have members,
\* and get_size is how many there are.
THEOREM KeysAlwaysMatch == Spec => []KeysMatchMembers
<1>1. Init => OrderInv
  BY OrderInit
<1>2. OrderInv /\ [Next]_vars => OrderInv'
  BY OrderNext
<1>3. OrderInv => KeysMatchMembers
  <2> SUFFICES ASSUME OrderInv, NEW m \in Mapping
               PROVE  /\ Range(keys_order[m]) = DOMAIN members[m]
                      /\ Len(keys_order[m]) = Cardinality(DOMAIN members[m])
    BY DEF KeysMatchMembers
  <2>1. keys_order[m] \in Seq(Key) /\ DOMAIN keys_order[m] = 1..Len(keys_order[m])
    BY LenProperties DEF OrderInv
  <2>2. Range(keys_order[m]) = DOMAIN members[m]
    BY <2>1 DEF OrderInv, Range
  <2>3. QED
    BY <2>1, <2>2, LenIsCardinality DEF OrderInv
<1>4. QED
  BY <1>1, <1>2, <1>3, PTL DEF Spec

-----------------------------------------------------------------------------
(* Equality and hashing. *)

\* The tables are functions, to nodes.
TablesInv ==
    \A m \in Mapping :
      /\ members[m] = [k \in DOMAIN members[m] |-> members[m][k]]
      /\ \A k \in DOMAIN members[m] : members[m][k] \in Node

\* They remain so.
LEMMA TablesNext ==
  ASSUME OrderInv, TablesInv, [Next]_vars
  PROVE  TablesInv'
<1>1. ASSUME NEW m \in Mapping, NEW k \in Key, NEW n \in Node, SetMember(m, k, n)
      PROVE  TablesInv'
  <2> DEFINE new == [j \in DOMAIN members[m] \cup {k} |-> IF j = k THEN n ELSE members[m][j]]
  <2>1. \A q \in Mapping : members'[q] = IF q = m THEN new ELSE members[q]
    BY <1>1 DEF SetMember, OrderInv
  <2>2. /\ new = [j \in DOMAIN new |-> new[j]]
        /\ \A j \in DOMAIN new : new[j] \in Node
    BY DEF TablesInv
  <2> HIDE DEF new
  <2>3. QED
    BY <2>1, <2>2 DEF TablesInv
<1>2. ASSUME NEW m \in Mapping, NEW k \in Key, RemoveMember(m, k)
      PROVE  TablesInv'
  <2> DEFINE new == [j \in DOMAIN members[m] \ {k} |-> members[m][j]]
  <2>1. \A q \in Mapping : members'[q] = IF q = m THEN new ELSE members[q]
    BY <1>2 DEF RemoveMember, OrderInv
  <2>2. /\ new = [j \in DOMAIN new |-> new[j]]
        /\ \A j \in DOMAIN new : new[j] \in Node
    BY DEF TablesInv
  <2> HIDE DEF new
  <2>3. QED
    BY <2>1, <2>2 DEF TablesInv
<1>3. ASSUME \/ \E q \in Sequence :
                  \/ \E n \in Node : AddElement(q, n)
                  \/ \E i \in 1..MaxLength : RemoveElement(q, i)
             \/ \E c \in Mapping \cup Sequence : Foreach(c)
             \/ Visit \/ WalkEnds \/ UNCHANGED vars
      PROVE  TablesInv'
  <2>1. members' = members
    BY <1>3 DEF AddElement, RemoveElement, Foreach, Visit, WalkEnds, vars
  <2>2. QED
    BY <2>1 DEF TablesInv
<1>4. QED
  BY <1>1, <1>2, <1>3 DEF Next

\* The keys in the order are those of the table, and as many.
LEMMA KeysOfTable ==
  ASSUME OrderInv, NEW m \in Mapping
  PROVE  /\ keys_order[m] \in Seq(Key) /\ DOMAIN keys_order[m] = 1..Len(keys_order[m])
         /\ Range(keys_order[m]) = DOMAIN members[m]
         /\ Len(keys_order[m]) = Cardinality(DOMAIN members[m])
         /\ IsFiniteSet(DOMAIN members[m]) /\ DOMAIN members[m] \subseteq Key
<1>1. keys_order[m] \in Seq(Key) /\ DOMAIN keys_order[m] = 1..Len(keys_order[m])
  BY LenProperties DEF OrderInv
<1>2. Range(keys_order[m]) = DOMAIN members[m]
  BY <1>1 DEF OrderInv, Range
<1>3. Len(keys_order[m]) = Cardinality(Range(keys_order[m]))
  BY <1>1, LenIsCardinality DEF OrderInv
<1>4. \A i \in 1..Len(keys_order[m]) : keys_order[m][i] \in Key
  BY <1>1, ElementOfSeq
<1>5. DOMAIN members[m] \in SUBSET Key
  BY <1>4 DEF OrderInv
<1>6. IsFiniteSet(DOMAIN members[m])
  BY <1>5, MembersAssumption, FS_Subset
<1>7. QED
  BY <1>1, <1>2, <1>3, <1>5, <1>6

\* What yaml_mapping_equal finds out by looking up the keys of one side only.
LEMMA EqualMeansSameMembers ==
  ASSUME OrderInv, TablesInv, NEW a \in Mapping, NEW b \in Mapping
  PROVE  MappingEqual(a, b) <=> members[a] = members[b]
<1> DEFINE A == DOMAIN members[a]
           B == DOMAIN members[b]
           s == keys_order[a]
<1>1. /\ DOMAIN s = 1..Len(s) /\ Range(s) = A /\ Len(s) = Cardinality(A)
      /\ Len(keys_order[b]) = Cardinality(B) /\ IsFiniteSet(A) /\ IsFiniteSet(B)
  BY KeysOfTable
<1>2. \A k : k \in A <=> \E i \in DOMAIN s : s[i] = k
  BY <1>1 DEF OrderInv
<1>3. \A k \in A : GetMember(a, k) = members[a][k] /\ members[a][k] \in Node
  BY DEF TablesInv, GetMember, HasMember
<1>4. ASSUME Len(s) = Len(keys_order[b]),
             \A i \in DOMAIN s : GetMember(a, s[i]) = GetMember(b, s[i])
      PROVE  members[a] = members[b]
  <2>1. \A k \in A : GetMember(b, k) = members[a][k]
    BY <1>2, <1>3, <1>4
  <2>2. \A k \in A : k \in B /\ members[b][k] = members[a][k]
    BY <1>3, <2>1, MembersAssumption DEF GetMember, HasMember
  <2>3. A = B
    <3>1. A \in SUBSET B /\ Cardinality(B) = Cardinality(A)
      BY <1>1, <1>4, <2>2
    <3>2. QED
      BY <1>1, <3>1, FS_Subset
  <2>4. /\ members[a] = [k \in A |-> members[a][k]]
        /\ members[b] = [k \in B |-> members[b][k]]
    BY DEF TablesInv
  <2>5. QED
    BY <2>2, <2>3, <2>4
<1>5. ASSUME members[a] = members[b]
      PROVE  MappingEqual(a, b)
  <2>1. A = B
    BY <1>5
  <2>2. Len(s) = Len(keys_order[b])
    BY <1>1, <2>1
  <2>3. \A k : GetMember(a, k) = GetMember(b, k)
    BY <1>5 DEF GetMember, HasMember
  <2>4. QED
    BY <2>2, <2>3 DEF MappingEqual
<1>6. QED
  BY <1>4, <1>5 DEF MappingEqual

\* In a sequence without repetitions each element cancels nothing.
LEMMA OddIsElement ==
  ASSUME NEW s, NEW n \in Nat, DOMAIN s = 1..n, \A i, j \in 1..n : s[i] = s[j] => i = j
  PROVE  {k \in Key : Cardinality({i \in DOMAIN s : s[i] = k}) % 2 = 1} = Key \cap Range(s)
<1> SUFFICES ASSUME NEW k
             PROVE  (Cardinality({i \in DOMAIN s : s[i] = k}) % 2 = 1) <=> k \in Range(s)
  OBVIOUS
<1> DEFINE At == {i \in DOMAIN s : s[i] = k}
<1>1. CASE k \in Range(s)
  <2>1. PICK i \in DOMAIN s : s[i] = k
    BY <1>1 DEF Range
  <2>2. At = {i}
    BY <2>1
  <2>3. Cardinality(At) = 1
    BY <2>2, FS_Singleton
  <2>4. QED
    BY <1>1, <2>3
<1>2. CASE k \notin Range(s)
  <2>1. At = {}
    BY <1>2 DEF Range
  <2>2. Cardinality(At) = 0
    BY <2>1, FS_EmptySet
  <2>3. QED
    BY <1>2, <2>2
<1>3. QED
  BY <1>1, <1>2

\* The hash is the size and the set of the first keys.
LEMMA HashIsSizeAndKeys ==
  ASSUME OrderInv, NEW m \in Mapping
  PROVE  MappingHash(m) = <<Len(keys_order[m]), Key \cap Range(Hashed(m))>>
<1> DEFINE s == keys_order[m]
           n == IF Len(s) < HashedKeys THEN Len(s) ELSE HashedKeys
<1>1. s \in Seq(Key) /\ Len(s) \in Nat /\ NoneTwice(s)
  BY LenProperties DEF OrderInv
<1>2. n \in Nat /\ n <= Len(s)
  BY <1>1, MembersAssumption
<1>3. \A i \in 1..n : s[i] \in Key
  BY <1>1, <1>2, ElementOfSeq
<1>4. Hashed(m) = SubSeq(s, 1, n)
  BY DEF Hashed
<1> HIDE DEF n
<1>5. SubSeq(s, 1, n) \in Seq(Key) /\ Len(SubSeq(s, 1, n)) = n
      /\ \A i \in 1..n : SubSeq(s, 1, n)[i] = s[i]
  BY <1>2, <1>3, SubSeqProperties
<1> DEFINE h == Hashed(m)
<1>6. DOMAIN h = 1..n /\ \A i \in 1..n : h[i] = s[i]
  BY <1>4, <1>5, LenProperties
<1> HIDE DEF h
<1>7. \A i, j \in 1..n : h[i] = h[j] => i = j
  BY <1>1, <1>2, <1>6 DEF NoneTwice
<1>8. {k \in Key : Cardinality({i \in DOMAIN h : h[i] = k}) % 2 = 1} = Key \cap Range(h)
  BY <1>2, <1>6, <1>7, OddIsElement
<1>9. QED
  BY <1>8 DEF MappingHash, h

\* Whatever is set and removed and in whatever order: two mappings compare as equal when
\* they have the same members, and equal ones have the same hash if the keys that are
\* hashed are the same ones.
THEOREM EqualityIsSound == Spec => []HashesAgree
<1>1. Init => OrderInv /\ TablesInv
  BY OrderInit DEF Init, TablesInv
<1>2. OrderInv /\ TablesInv /\ [Next]_vars => (OrderInv /\ TablesInv)'
  BY OrderNext, TablesNext
<1>3. OrderInv /\ TablesInv => HashesAgree
  <2> SUFFICES ASSUME OrderInv, TablesInv PROVE HashesAgree
    OBVIOUS
  <2>1. EqualIsSameMembers
    BY EqualMeansSameMembers DEF EqualIsSameMembers
  <2>2. ASSUME NEW a \in Mapping, NEW b \in Mapping,
               MappingEqual(a, b), Range(Hashed(a)) = Range(Hashed(b))
        PROVE  MappingHash(a) = MappingHash(b)
    <3>1. Len(keys_order[a]) = Len(keys_order[b])
      BY <2>2 DEF MappingEqual
    <3>2. QED
      BY <2>2, <3>1, HashIsSizeAndKeys
  <2>3. QED
    BY <2>1, <2>2 DEF HashesAgree
<1>4. QED
  BY <1>1, <1>2, <1>3, PTL DEF Spec

-----------------------------------------------------------------------------
(* What a walk misses.  The items before its position that it did not visit came there  *)
(* when others were removed; a position beyond the end, after removals, will miss what  *)
(* is added there.                                                                      *)

Passed(s, i)      == {s[j] : j \in {x \in 1..Len(s) : x <= i}}
Missed(s, i, V)   == Passed(s, i) \ V
Beyond(s, i)      == IF i > Len(s) THEN i - Len(s) ELSE 0
LostWalk(s, i, V) == Cardinality(Missed(s, i, V)) + Beyond(s, i)

\* What is missed is finite.
LEMMA MissedIsFinite ==
  ASSUME NEW s \in Seq(Key), NEW i \in Nat, NEW V
  PROVE  IsFiniteSet(Missed(s, i, V)) /\ Cardinality(Missed(s, i, V)) \in Nat
<1>1. \A j \in 1..Len(s) : s[j] \in Key
  BY ElementOfSeq
<1>2. Missed(s, i, V) \in SUBSET Key
  BY <1>1 DEF Passed, Missed
<1>3. QED
  BY <1>2, MembersAssumption, FS_Subset, FS_CardinalityType

\* What is lost is a number.
LEMMA LostIsInt ==
  ASSUME NEW s \in Seq(Key), NEW i \in Nat, NEW V
  PROVE  LostWalk(s, i, V) \in Int
<1>1. Len(s) \in Nat
  BY LenProperties
<1>2. Cardinality(Missed(s, i, V)) \in Nat
  BY MissedIsFinite
<1>3. QED
  BY <1>1, <1>2 DEF LostWalk, Beyond

\* One more element is one more missed at most.
LEMMA MissedGrows ==
  ASSUME NEW A, NEW B, NEW x, IsFiniteSet(A), B \subseteq A \cup {x}
  PROVE  Cardinality(B) <= Cardinality(A) + 1
<1>1. /\ IsFiniteSet(A \cup {x}) /\ Cardinality(A) \in Nat
      /\ Cardinality(A \cup {x}) = IF x \in A THEN Cardinality(A) ELSE Cardinality(A) + 1
  BY FS_AddElement, FS_CardinalityType
<1>2. B \in SUBSET (A \cup {x})
  OBVIOUS
<1>3. Cardinality(B) <= Cardinality(A \cup {x})
  BY <1>1, <1>2, FS_Subset
<1>4. /\ Cardinality(A) \in Nat /\ Cardinality(B) \in Nat
      /\ Cardinality(A \cup {x}) \in Nat
  BY <1>1, <1>2, FS_Subset, FS_CardinalityType
<1>5. QED
  BY <1>1, <1>3, <1>4

\* What is added at the end will be visited, unless the walk is beyond it.
LEMMA LostByAppend ==
  ASSUME NEW s \in Seq(Key), NEW e \in Key, NEW i \in Nat, NEW V
  PROVE  LostWalk(Append(s, e), i, V) <= LostWalk(s, i, V)
<1> DEFINE t == Append(s, e)
           A == Missed(s, i, V)
           B == Missed(t, i, V)
<1>1. /\ t \in Seq(Key) /\ Len(t) = Len(s) + 1 /\ Len(s) \in Nat
      /\ \A j \in 1..Len(s) : t[j] = s[j]
      /\ t[Len(s) + 1] = e
  BY AppendProperties, LenProperties
<1> HIDE DEF t
<1>2. /\ IsFiniteSet(A) /\ Cardinality(A) \in Nat
      /\ IsFiniteSet(B) /\ Cardinality(B) \in Nat
  BY <1>1, MissedIsFinite
<1>3. CASE i <= Len(s)
  <2>1. B = A
    BY <1>1, <1>3 DEF Missed, Passed
  <2>2. QED
    BY <1>1, <1>2, <1>3, <2>1 DEF LostWalk, Beyond, t
<1>4. CASE i > Len(s)
  <2>1. B \subseteq A \cup {e}
    BY <1>1, <1>4 DEF Missed, Passed
  <2>2. Cardinality(B) <= Cardinality(A) + 1
    <3> HIDE DEF A, B
    <3>1. QED
      BY <1>2, <2>1, MissedGrows
  <2>3. Beyond(s, i) = i - Len(s) /\ Beyond(t, i) = i - Len(s) - 1
    BY <1>1, <1>4 DEF Beyond
  <2>4. QED
    BY <1>1, <1>2, <2>2, <2>3 DEF LostWalk, t
<1>5. QED
  BY <1>1, <1>3, <1>4

\* A removal moves at most one item in front of the position of the walk.
LEMMA LostByRemoval ==
  ASSUME NEW s \in Seq(Key), NEW p \in 1..Len(s), NEW i \in Nat, NEW V
  PROVE  LostWalk(RemoveAt(s, p), i, V) <= LostWalk(s, i, V) + 1
<1> DEFINE t == RemoveAt(s, p)
           A == Missed(s, i, V)
           B == Missed(t, i, V)
<1>1. /\ t \in Seq(Key) /\ Len(t) = Len(s) - 1 /\ Len(s) \in Nat
      /\ \A j \in 1..(Len(s) - 1) : t[j] = IF j < p THEN s[j] ELSE s[j + 1]
  BY RemoveAtElements, LenProperties
<1> HIDE DEF t
<1>2. /\ IsFiniteSet(A) /\ Cardinality(A) \in Nat
      /\ IsFiniteSet(B) /\ Cardinality(B) \in Nat
  BY <1>1, MissedIsFinite
<1>3. CASE i < Len(s)
  <2>1. \A j \in 1..Len(t) : j <= i => t[j] = s[i + 1] \/ \E q \in 1..Len(s) : q <= i /\ t[j] = s[q]
    BY <1>1, <1>3
  <2>2. B \subseteq A \cup {s[i + 1]}
    BY <2>1 DEF Missed, Passed
  <2>3. Cardinality(B) <= Cardinality(A) + 1
    <3> HIDE DEF A, B
    <3>1. QED
      BY <1>2, <2>2, MissedGrows
  <2>4. Beyond(s, i) = 0 /\ Beyond(t, i) = 0
    BY <1>1, <1>3 DEF Beyond
  <2>5. QED
    BY <1>2, <2>3, <2>4 DEF LostWalk, t
<1>4. CASE i >= Len(s)
  <2>1. \A j \in 1..Len(t) : \E q \in 1..Len(s) : q <= i /\ t[j] = s[q]
    BY <1>1, <1>4
  <2>2. B \in SUBSET A
    BY <2>1 DEF Missed, Passed
  <2>3. Cardinality(B) <= Cardinality(A)
    BY <1>2, <2>2, FS_Subset
  <2>4. Beyond(s, i) = i - Len(s) /\ Beyond(t, i) = i - Len(s) + 1
    BY <1>1, <1>4 DEF Beyond
  <2>5. QED
    BY <1>1, <1>2, <2>3, <2>4 DEF LostWalk, t
<1>5. QED
  BY <1>1, <1>3, <1>4

\* The item that is visited is not missed.
LEMMA LostByVisit ==
  ASSUME NEW s \in Seq(Key), NEW i \in Nat, i < Len(s), NEW V, NEW W,
         W = V \cup {s[i + 1]}
  PROVE  LostWalk(s, i + 1, W) <= LostWalk(s, i, V)
<1> DEFINE A == Missed(s, i, V)
           B == Missed(s, i + 1, W)
<1>1. Len(s) \in Nat
  BY LenProperties
<1>2. B \in SUBSET A
  BY <1>1 DEF Missed, Passed
<1>3. /\ IsFiniteSet(A) /\ Cardinality(A) \in Nat /\ Cardinality(B) \in Nat
  BY MissedIsFinite
<1>4. Cardinality(B) <= Cardinality(A)
  BY <1>2, <1>3, FS_Subset
<1>5. Beyond(s, i) = 0 /\ Beyond(s, i + 1) = 0
  BY <1>1 DEF Beyond
<1>6. QED
  BY <1>3, <1>4, <1>5 DEF LostWalk

-----------------------------------------------------------------------------
(* Walks. *)

WalkTypes ==
    /\ elements \in [Sequence -> Seq(Node)]
    /\ walk \in [over : Mapping \cup Sequence \cup {Null}, i : Nat,
                visited : Seq(Key \cup Node), removed : Nat]
    /\ Len(walk.visited) = walk.i

\* A walk, r, through an order of items: while nothing was removed it has visited the
\* first items in order; and it has lost no more than was removed.
InOrder(r, order) ==
    r.removed = 0 => r.i <= Len(order) /\ \A j \in 1..r.i : r.visited[j] = order[j]
LosesLittle(r, order) == LostWalk(order, r.i, Range(r.visited)) <= r.removed

WalkInv ==
    /\ WalkTypes
    /\ walk.over # Null => InOrder(walk, Order(walk.over))
    /\ walk.over \in Mapping => LosesLittle(walk, keys_order[walk.over])

\* The orders of the containers are sequences.
LEMMA OrdersAreSeqs ==
  ASSUME OrderInv, WalkTypes, NEW c \in Mapping \cup Sequence
  PROVE  /\ Order(c) \in Seq(Key \cup Node) /\ Len(Order(c)) \in Nat
         /\ c # Null
         /\ c \in Mapping => Order(c) = keys_order[c] /\ Order(c) \in Seq(Key)
         /\ c \in Sequence => Order(c) = elements[c] /\ Order(c) \in Seq(Node)
<1>1. c # Null /\ ~(c \in Mapping /\ c \in Sequence)
  BY MembersAssumption
<1>2. CASE c \in Mapping
  <2>1. Order(c) = keys_order[c] /\ Order(c) \in Seq(Key)
    BY <1>2 DEF Order, OrderInv
  <2>2. Order(c) \in Seq(Key \cup Node) /\ Len(Order(c)) \in Nat
    BY <2>1, LenProperties
  <2>3. QED
    BY <1>1, <1>2, <2>1, <2>2
<1>3. CASE c \in Sequence
  <2>1. Order(c) = elements[c] /\ Order(c) \in Seq(Node)
    BY <1>1, <1>3 DEF Order, WalkTypes
  <2>2. Order(c) \in Seq(Key \cup Node) /\ Len(Order(c)) \in Nat
    BY <2>1, LenProperties
  <2>3. QED
    BY <1>1, <1>3, <2>1, <2>2
<1>4. QED
  BY <1>2, <1>3

\* A step that lets the walk be, and leaves the order of its container alone or adds
\* something to it.
LEMMA WalkGoesOn ==
  ASSUME OrderInv, WalkInv, walk' = walk, elements' \in [Sequence -> Seq(Node)],
         \A c \in Mapping : \/ keys_order'[c] = keys_order[c]
                           \/ \E k \in Key : keys_order'[c] = Append(keys_order[c], k),
         \A c \in Sequence : \/ elements'[c] = elements[c]
                            \/ \E n \in Node : elements'[c] = Append(elements[c], n)
  PROVE  WalkInv'
<1>1. WalkTypes'
  BY DEF WalkInv, WalkTypes
<1>2. ASSUME NEW c \in Mapping \cup Sequence, walk.over = c
      PROVE  /\ InOrder(walk, Order(c)')
             /\ c \in Mapping => LosesLittle(walk, keys_order'[c])
  <2> DEFINE i == walk.i
             s == Order(c)
  <2>1. /\ s \in Seq(Key \cup Node) /\ Len(s) \in Nat /\ c # Null
        /\ c \in Mapping => s = keys_order[c] /\ s \in Seq(Key)
        /\ c \in Sequence => s = elements[c] /\ s \in Seq(Node)
    BY OrdersAreSeqs DEF WalkInv
  <2>2. i \in Nat /\ walk.removed \in Nat
    BY DEF WalkInv, WalkTypes
  <2>3. /\ InOrder(walk, s)
        /\ c \in Mapping => LosesLittle(walk, s)
    BY <1>2, <2>1 DEF WalkInv
  <2>4. Order(c)' = s \/ \E e \in Key \cup Node : Order(c)' = Append(s, e)
    BY <2>1 DEF Order
  <2>5. InOrder(walk, Order(c)')
    <3>1. CASE Order(c)' = s
      BY <2>3, <3>1
    <3>2. ASSUME NEW e \in Key \cup Node, Order(c)' = Append(s, e)
          PROVE  InOrder(walk, Order(c)')
      <4>1. Len(Append(s, e)) = Len(s) + 1 /\ \A j \in 1..Len(s) : Append(s, e)[j] = s[j]
        BY <2>1, AppendProperties
      <4>2. QED
        BY <2>1, <2>2, <2>3, <3>2, <4>1 DEF InOrder
    <3>3. QED
      BY <2>4, <3>1, <3>2
  <2>6. ASSUME c \in Mapping
        PROVE  LosesLittle(walk, keys_order'[c])
    <3>1. CASE keys_order'[c] = keys_order[c]
      BY <2>1, <2>3, <2>6, <3>1
    <3>2. ASSUME NEW k \in Key, keys_order'[c] = Append(keys_order[c], k)
          PROVE  LosesLittle(walk, keys_order'[c])
      <4> DEFINE V == Range(walk.visited)
                 o == keys_order[c]
                 a == LostWalk(o, i, V)
                 b == LostWalk(Append(o, k), i, V)
      <4>1. o \in Seq(Key) /\ a <= walk.removed
        BY <2>1, <2>3, <2>6 DEF LosesLittle
      <4>2. b <= a
        BY <2>2, <4>1, LostByAppend
      <4>3. Append(o, k) \in Seq(Key)
        BY <4>1, AppendProperties
      <4>4. a \in Int /\ b \in Int
        BY <2>2, <4>1, <4>3, LostIsInt
      <4> HIDE DEF a, b
      <4>5. b <= walk.removed
        BY <2>2, <4>1, <4>2, <4>4
      <4>6. QED
        BY <3>2, <4>5 DEF LosesLittle, b
    <3>3. QED
      BY <2>6, <3>1, <3>2
  <2>7. QED
    BY <2>5, <2>6
<1>3. QED
  BY <1>1, <1>2 DEF WalkInv, WalkTypes

\* A removal from another container than the one that is walked through.
LEMMA RemovalElsewhere ==
  ASSUME OrderInv, WalkInv, NEW c \in Mapping \cup Sequence, walk.over # c, Notices(c),
         elements' \in [Sequence -> Seq(Node)],
         \A d \in Mapping : d # c => keys_order'[d] = keys_order[d],
         \A d \in Sequence : d # c => elements'[d] = elements[d]
  PROVE  WalkInv'
<1>1. walk' = walk
  BY DEF Notices, WalkInv, WalkTypes
<1>2. WalkTypes'
  BY <1>1 DEF WalkInv, WalkTypes
<1>3. walk.over \in Mapping => keys_order'[walk.over] = keys_order[walk.over]
  OBVIOUS
<1>4. walk.over # Null => Order(walk.over)' = Order(walk.over)
  BY <1>1 DEF Order, WalkInv, WalkTypes
<1>5. QED
  BY <1>1, <1>2, <1>3, <1>4 DEF WalkInv

\* A removal from the container that is walked through is counted.
LEMMA RemovalHere ==
  ASSUME OrderInv, WalkInv, NEW c \in Mapping \cup Sequence, walk.over = c, Notices(c),
         elements' \in [Sequence -> Seq(Node)],
         c \in Mapping => \E p \in 1..Len(keys_order[c]) :
                             keys_order'[c] = RemoveAt(keys_order[c], p)
  PROVE  WalkInv'
<1>1. /\ walk' = [walk EXCEPT !.removed = @ + 1]
      /\ walk \in [over : Mapping \cup Sequence \cup {Null}, i : Nat,
                  visited : Seq(Key \cup Node), removed : Nat]
      /\ Len(walk.visited) = walk.i
  BY DEF Notices, WalkInv, WalkTypes
<1>2. /\ walk'.over = c /\ walk'.i = walk.i /\ walk'.visited = walk.visited
      /\ walk'.removed = walk.removed + 1
      /\ walk' \in [over : Mapping \cup Sequence \cup {Null}, i : Nat,
                   visited : Seq(Key \cup Node), removed : Nat]
  BY <1>1
<1>3. WalkTypes'
  BY <1>1, <1>2 DEF WalkTypes
<1>4. InOrder(walk', Order(c)')
  BY <1>1, <1>2 DEF InOrder
<1>5. ASSUME c \in Mapping
      PROVE  LosesLittle(walk', keys_order'[c])
  <2> DEFINE i == walk.i
             V == Range(walk.visited)
             o == keys_order[c]
  <2>1. PICK p \in 1..Len(o) : keys_order'[c] = RemoveAt(o, p)
    BY <1>5
  <2> DEFINE a == LostWalk(o, i, V)
             b == LostWalk(RemoveAt(o, p), i, V)
  <2>2. o \in Seq(Key) /\ i \in Nat /\ walk.removed \in Nat
    BY <1>1, <1>5 DEF OrderInv
  <2>3. a <= walk.removed
    BY <1>5 DEF WalkInv, LosesLittle
  <2>4. b <= a + 1
    BY <2>2, LostByRemoval
  <2>5. RemoveAt(o, p) \in Seq(Key)
    BY <2>2, RemoveAtElements
  <2>6. a \in Int /\ b \in Int
    BY <2>2, <2>5, LostIsInt
  <2> HIDE DEF a, b
  <2>7. b <= walk.removed + 1
    BY <2>2, <2>3, <2>4, <2>6
  <2>8. QED
    BY <1>2, <2>1, <2>7 DEF LosesLittle, b
<1>6. QED
  BY <1>2, <1>3, <1>4, <1>5 DEF WalkInv

\* A walk begins with nothing visited and nothing lost.
LEMMA ForeachKeeps ==
  ASSUME OrderInv, WalkInv, NEW c \in Mapping \cup Sequence, Foreach(c)
  PROVE  WalkInv'
<1>1. /\ walk' = [over |-> c, i |-> 0, visited |-> <<>>, removed |-> 0]
      /\ UNCHANGED <<keys_order, elements>>
  BY DEF Foreach, NoWalk
<1>2. <<>> \in Seq(Key \cup Node) /\ Len(<<>>) = 0
  BY EmptySeq
<1>3. WalkTypes'
  BY <1>1, <1>2 DEF WalkInv, WalkTypes
<1>4. Len(Order(c)) \in Nat /\ (c \in Mapping => keys_order[c] \in Seq(Key)) /\ c # Null
      /\ Order(c)' = Order(c)
  BY <1>1, OrdersAreSeqs DEF WalkInv, Order
<1>5. InOrder(walk', Order(c))
  BY <1>1, <1>4 DEF InOrder
<1>6. ASSUME c \in Mapping
      PROVE  LosesLittle(walk', keys_order[c])
  <2> DEFINE s == keys_order[c]
             V == Range(walk'.visited)
  <2>1. Len(s) \in Nat
    BY <1>4, <1>6, LenProperties
  <2>2. Missed(s, 0, V) = {}
    BY <2>1 DEF Missed, Passed
  <2>3. LostWalk(s, 0, V) = 0
    BY <2>1, <2>2, FS_EmptySet DEF LostWalk, Beyond
  <2>4. QED
    BY <1>1, <2>3 DEF LosesLittle
<1>7. QED
  BY <1>1, <1>3, <1>4, <1>5, <1>6 DEF WalkInv

\* The callback gets the next item.
LEMMA VisitKeeps ==
  ASSUME OrderInv, WalkInv, Visit
  PROVE  WalkInv'
<1> DEFINE c == walk.over
           s == Order(c)
           e == s[walk.i + 1]
<1>1. /\ c # Null /\ walk.i < Len(s)
      /\ walk' = [walk EXCEPT !.i = @ + 1, !.visited = Append(@, e)]
      /\ UNCHANGED <<keys_order, elements>>
  BY DEF Visit, NextItem
<1>2. /\ walk \in [over : Mapping \cup Sequence \cup {Null}, i : Nat,
                  visited : Seq(Key \cup Node), removed : Nat]
      /\ Len(walk.visited) = walk.i
  BY DEF WalkInv, WalkTypes
<1>3. /\ s \in Seq(Key \cup Node) /\ Len(s) \in Nat
      /\ c \in Mapping => s = keys_order[c] /\ s \in Seq(Key)
      /\ s' = Order(c)'
  BY <1>1, <1>2, OrdersAreSeqs DEF WalkInv
<1> HIDE DEF s
<1>4. e \in Key \cup Node
  <2>1. walk.i + 1 \in 1..Len(s)
    BY <1>1, <1>2, <1>3
  <2>2. QED
    BY <1>3, <2>1, ElementOfSeq
<1>5. LET v == Append(walk.visited, e) IN
      /\ v \in Seq(Key \cup Node) /\ Len(v) = walk.i + 1
      /\ \A j \in 1..walk.i : v[j] = walk.visited[j]
      /\ v[walk.i + 1] = e
  BY <1>2, <1>4, AppendProperties
<1> DEFINE v == Append(walk.visited, e)
<1>6. /\ walk'.over = c /\ walk'.i = walk.i + 1 /\ walk'.visited = v
      /\ walk'.removed = walk.removed
      /\ walk' \in [over : Mapping \cup Sequence \cup {Null}, i : Nat,
                   visited : Seq(Key \cup Node), removed : Nat]
  <2>1. v \in Seq(Key \cup Node) /\ walk' = [walk EXCEPT !.i = @ + 1, !.visited = v]
    BY <1>1, <1>5
  <2> HIDE DEF v
  <2>2. walk' = [over |-> c, i |-> walk.i + 1, visited |-> v, removed |-> walk.removed]
    BY <1>2, <2>1
  <2>3. QED
    BY <1>2, <2>1, <2>2
<1>7. WalkTypes'
  BY <1>1, <1>5, <1>6 DEF WalkInv, WalkTypes
<1>8. Order(c)' = s
  BY <1>1 DEF Order, s
<1>9. InOrder(walk', s)
  <2>1. InOrder(walk, s)
    BY <1>1 DEF WalkInv, s
  <2>2. ASSUME walk'.removed = 0, NEW j \in 1..walk'.i
        PROVE  v[j] = s[j]
    <3>1. CASE j = walk.i + 1
      BY <1>5, <3>1
    <3>2. CASE j # walk.i + 1
      <4>1. j \in 1..walk.i
        BY <1>2, <1>6, <3>2
      <4>2. v[j] = walk.visited[j] /\ walk.visited[j] = s[j]
        BY <1>5, <1>6, <2>1, <2>2, <4>1 DEF InOrder
      <4>3. QED
        BY <4>2
    <3>3. QED
      BY <3>1, <3>2
  <2>3. walk'.i <= Len(s)
    BY <1>1, <1>2, <1>3, <1>6
  <2> HIDE DEF v
  <2>4. QED
    BY <1>6, <2>2, <2>3 DEF InOrder
<1>10. ASSUME c \in Mapping
       PROVE  LosesLittle(walk', s)
  <2> DEFINE i == walk.i
             V == Range(walk.visited)
             W == Range(v)
             a == LostWalk(s, i, V)
             b == LostWalk(s, i + 1, W)
  <2>1. W = V \cup {e}
    <3>1. DOMAIN v = 1..(i + 1) /\ DOMAIN walk.visited = 1..i
      BY <1>2, <1>5, LenProperties
    <3> HIDE DEF v
    <3>2. /\ \A j \in 1..i : v[j] = walk.visited[j]
          /\ v[i + 1] = e
          /\ 1..(i + 1) = (1..i) \cup {i + 1}
      BY <1>2, <1>5 DEF v
    <3> HIDE DEF e
    <3>3. QED
      BY <3>1, <3>2 DEF Range
  <2>2. s \in Seq(Key) /\ i \in Nat /\ walk.removed \in Nat /\ i + 1 \in Nat
    BY <1>2, <1>3, <1>10
  <2>3. a <= walk.removed
    BY <1>3, <1>10 DEF WalkInv, LosesLittle
  <2>4. b <= a
    <3> HIDE DEF V, W
    <3>1. QED
      BY <1>1, <2>1, <2>2, LostByVisit
  <2>5. a \in Int /\ b \in Int
    BY <2>2, LostIsInt
  <2> HIDE DEF a, b
  <2>6. b <= walk'.removed
    BY <1>6, <2>2, <2>3, <2>4, <2>5
  <2>7. QED
    BY <1>6, <2>6 DEF LosesLittle, b
<1>11. c \in Mapping => keys_order'[c] = s
  BY <1>1, <1>3
<1>12. QED
  BY <1>6, <1>7, <1>8, <1>9, <1>10, <1>11 DEF WalkInv

\* No walk is in progress.
LEMMA NoWalkKeeps ==
  ASSUME NoWalk.over = Null, walk' = NoWalk, elements' \in [Sequence -> Seq(Node)]
  PROVE  WalkInv'
<1>1. <<>> \in Seq(Key \cup Node) /\ Len(<<>>) = 0
  BY EmptySeq
<1>2. WalkTypes'
  BY <1>1 DEF NoWalk, WalkTypes
<1>3. QED
  BY <1>2, MembersAssumption DEF WalkInv, NoWalk

\* Every step preserves the invariant.
LEMMA WalkNext ==
  ASSUME OrderInv, WalkInv, [Next]_vars
  PROVE  WalkInv'
<1>1. elements \in [Sequence -> Seq(Node)] /\ keys_order \in [Mapping -> Seq(Key)]
  BY DEF OrderInv, WalkInv, WalkTypes
<1>2. ASSUME NEW m \in Mapping, NEW k \in Key, NEW n \in Node, SetMember(m, k, n)
      PROVE  WalkInv'
  BY <1>1, <1>2, WalkGoesOn DEF SetMember
<1>3. ASSUME NEW q \in Sequence, NEW n \in Node, AddElement(q, n)
      PROVE  WalkInv'
  <2>1. Append(elements[q], n) \in Seq(Node)
    BY <1>1, AppendProperties
  <2>2. elements' \in [Sequence -> Seq(Node)]
    BY <1>1, <1>3, <2>1 DEF AddElement
  <2>3. QED
    BY <1>1, <1>3, <2>2, WalkGoesOn DEF AddElement
<1>4. ASSUME NEW m \in Mapping, NEW k \in Key, RemoveMember(m, k)
      PROVE  WalkInv'
  <2>1. /\ Notices(m) /\ elements' = elements
        /\ \A d \in Mapping : d # m => keys_order'[d] = keys_order[d]
        /\ keys_order'[m] = RemoveFirst(keys_order[m], k)
    BY <1>1, <1>4 DEF RemoveMember
  <2>2. PICK p \in 1..Len(keys_order[m]) : keys_order[m][p] = k
    BY <1>4 DEF RemoveMember, HasMember, OrderInv
  <2>3. keys_order'[m] = RemoveAt(keys_order[m], p)
    <3>1. NoneTwice(keys_order[m]) /\ keys_order[m] \in Seq(Key)
      BY DEF OrderInv
    <3>2. RemoveFirst(keys_order[m], keys_order[m][p]) = RemoveAt(keys_order[m], p)
      BY <3>1, RemoveFirstIsRemoveAt
    <3>3. QED
      BY <2>1, <2>2, <3>2
  <2>4. CASE walk.over = m
    BY <1>1, <2>1, <2>3, <2>4, RemovalHere
  <2>5. CASE walk.over # m
    BY <1>1, <2>1, <2>5, RemovalElsewhere
  <2>6. QED
    BY <2>4, <2>5
<1>5. ASSUME NEW q \in Sequence, NEW i \in 1..MaxLength, RemoveElement(q, i)
      PROVE  WalkInv'
  <2>1. i \in 1..Len(elements[q])
    BY <1>1, <1>5, LenProperties DEF RemoveElement
  <2>2. RemoveAt(elements[q], i) \in Seq(Node)
    BY <1>1, <2>1, RemoveAtElements
  <2>3. /\ elements' \in [Sequence -> Seq(Node)] /\ Notices(q) /\ keys_order' = keys_order
        /\ \A d \in Sequence : d # q => elements'[d] = elements[d]
    BY <1>1, <1>5, <2>2 DEF RemoveElement
  <2>4. q \notin Mapping
    BY MembersAssumption
  <2>5. CASE walk.over = q
    BY <2>3, <2>4, <2>5, RemovalHere
  <2>6. CASE walk.over # q
    BY <2>3, <2>6, RemovalElsewhere
  <2>7. QED
    BY <2>5, <2>6
<1>6. ASSUME NEW c \in Mapping \cup Sequence, Foreach(c)
      PROVE  WalkInv'
  BY <1>6, ForeachKeeps
<1>7. CASE Visit
  BY <1>7, VisitKeeps
<1>8. CASE WalkEnds
  BY <1>1, <1>8, NoWalkKeeps DEF WalkEnds, NoWalk
<1>9. CASE UNCHANGED vars
  BY <1>1, <1>9, WalkGoesOn DEF vars
<1>10. QED
  BY <1>2, <1>3, <1>4, <1>5, <1>6, <1>7, <1>8, <1>9 DEF Next

\* A walk that is over has visited what WalkComplete says.
LEMMA WalkIsComplete ==
  ASSUME OrderInv, WalkInv, [Next]_vars, walk.over # Null, walk'.over = Null
  PROVE  LET order == Order(walk.over) IN
         /\ walk.removed = 0 => walk.visited = order
         /\ walk.over \in Mapping =>
              Cardinality(Range(order) \ Range(walk.visited)) <= walk.removed
<1> DEFINE s == Order(walk.over)
<1>1. WalkEnds
  BY MembersAssumption
     DEF Next, vars, SetMember, RemoveMember, AddElement, RemoveElement, Foreach, Visit,
         Notices, NoWalk, WalkInv, WalkTypes
<1>2. /\ walk.i \in Nat /\ walk.removed \in Nat /\ walk.visited \in Seq(Key \cup Node)
      /\ Len(walk.visited) = walk.i
      /\ s \in Seq(Key \cup Node) /\ Len(s) \in Nat
      /\ walk.over \in Mapping => s = keys_order[walk.over] /\ s \in Seq(Key)
  <2>1. walk.over \in Mapping \cup Sequence
    BY DEF WalkInv, WalkTypes
  <2>2. QED
    BY <2>1, OrdersAreSeqs DEF WalkInv, WalkTypes
<1>3. ~(walk.i < Len(s))
  BY <1>1 DEF WalkEnds, NextItem
<1>4. InOrder(walk, s) /\ (walk.over \in Mapping => LosesLittle(walk, s))
  BY <1>2 DEF WalkInv
<1> HIDE DEF s
<1>5. ASSUME walk.removed = 0
      PROVE  walk.visited = s
  <2>1. walk.i = Len(s) /\ \A j \in 1..Len(s) : walk.visited[j] = s[j]
    BY <1>2, <1>3, <1>4, <1>5 DEF InOrder
  <2>2. QED
    BY <1>2, <2>1, SeqEqual
<1>6. ASSUME walk.over \in Mapping
      PROVE  Cardinality(Range(s) \ Range(walk.visited)) <= walk.removed
  <2> DEFINE V == Range(walk.visited)
             C == Cardinality(Missed(s, walk.i, V))
  <2>1. DOMAIN s = 1..Len(s)
    BY <1>2, LenProperties
  <2>2. Range(s) \ V = Missed(s, walk.i, V)
    BY <1>2, <1>3, <2>1 DEF Missed, Passed, Range
  <2>3. C \in Nat /\ C + Beyond(s, walk.i) <= walk.removed
    BY <1>2, <1>4, <1>6, MissedIsFinite DEF LosesLittle, LostWalk
  <2>4. Beyond(s, walk.i) \in Nat
    BY <1>2, <1>3 DEF Beyond
  <2> HIDE DEF C
  <2>5. C <= walk.removed
    BY <1>2, <2>3, <2>4
  <2>6. QED
    BY <2>2, <2>5 DEF C
<1>7. QED
  BY <1>5, <1>6 DEF s

\* In containers of any size, whatever the callbacks set, add and remove: a walk without
\* removals visits everything once and in order, and one with removals misses no more
\* members of a mapping than were removed.
THEOREM WalksAreComplete == Spec => WalkComplete
<1>1. Init => OrderInv /\ WalkInv
  <2> SUFFICES ASSUME Init PROVE WalkInv
    BY OrderInit
  <2>1. <<>> \in Seq(Key \cup Node) /\ <<>> \in Seq(Node) /\ Len(<<>>) = 0
    BY EmptySeq
  <2>2. WalkTypes
    BY <2>1 DEF Init, NoWalk, WalkTypes
  <2>3. QED
    BY <2>2, MembersAssumption DEF Init, NoWalk, WalkInv
<1>2. OrderInv /\ WalkInv /\ [Next]_vars => (OrderInv /\ WalkInv)'
  BY OrderNext, WalkNext
<1>3. OrderInv /\ WalkInv /\ [Next]_vars =>
        [walk.over # Null /\ walk'.over = Null =>
           LET order == Order(walk.over) IN
           /\ walk.removed = 0 => walk.visited = order
           /\ walk.over \in Mapping =>
                Cardinality(Range(order) \ Range(walk.visited)) <= walk.removed]_vars
  BY WalkIsComplete
<1>4. QED
  BY <1>1, <1>2, <1>3, PTL DEF Spec, WalkComplete

-----------------------------------------------------------------------------
(* Values. *)

CopyBody(f, n) ==
    Values!With(n.meta,
      CASE n.content.type = "mapping"  ->
             Values!MappingOf([i \in DOMAIN n.content.members |->
               Values!Pair(n.content.members[i].key, f[n.content.members[i].child])])
        [] n.content.type = "sequence" ->
             Values!SequenceOf([i \in DOMAIN n.content.elements |-> f[n.content.elements[i]]])
        [] OTHER                       -> n.content)

\* A leaf is no container.
LEMMA LeafType ==
  ASSUME NEW n \in Values!Leaf
  PROVE  n.content.type # "mapping" /\ n.content.type # "sequence"
BY DEF Values!Leaf, Values!AnyScalar, Values!InitNull

\* The children of a branch are leaves.
LEMMA BranchType ==
  ASSUME NEW n \in Values!Branch
  PROVE  \/ /\ n.content.type = "mapping" /\ n.content = Values!MappingOf(n.content.members)
            /\ n.content.members \in Seq([key : Name, child : Values!Leaf])
         \/ /\ n.content.type = "sequence" /\ n.content = Values!SequenceOf(n.content.elements)
            /\ n.content.elements \in Seq(Values!Leaf)
BY DEF Values!Branch, Values!MappingOf, Values!SequenceOf

\* So the children are.
LEMMA ChildType ==
  ASSUME NEW n \in Values!Branch
  PROVE  /\ n.content.type = "mapping" => \A i \in DOMAIN n.content.members :
              n.content.members[i].key \in Name /\ n.content.members[i].child \in Values!Leaf
         /\ n.content.type = "sequence" => \A i \in DOMAIN n.content.elements :
              n.content.elements[i] \in Values!Leaf
<1>1. ASSUME n.content.type = "mapping", NEW i \in DOMAIN n.content.members
      PROVE  n.content.members[i] \in [key : Name, child : Values!Leaf]
  <2>1. n.content.members \in Seq([key : Name, child : Values!Leaf])
    BY <1>1, BranchType
  <2>2. i \in 1..Len(n.content.members)
    BY <1>1, <2>1, LenProperties
  <2>3. QED
    BY <2>1, <2>2, ElementOfSeq
<1>2. ASSUME n.content.type = "sequence", NEW i \in DOMAIN n.content.elements
      PROVE  n.content.elements[i] \in Values!Leaf
  <2>1. n.content.elements \in Seq(Values!Leaf)
    BY <1>2, BranchType
  <2>2. i \in 1..Len(n.content.elements)
    BY <1>2, <2>1, LenProperties
  <2>3. QED
    BY <2>1, <2>2, ElementOfSeq
<1>3. QED
  BY <1>1, <1>2

\* What a function gives for a tree depends on what it gives for the leaves.
LEMMA CopyIsLocal ==
  ASSUME NEW f, NEW g, \A c \in Values!Leaf : f[c] = g[c], NEW n \in Values!Tree
  PROVE  CopyBody(f, n) = CopyBody(g, n)
<1>1. CASE n \in Values!Leaf
  BY <1>1, LeafType DEF CopyBody
<1>2. CASE n \in Values!Branch
  <2>1. CASE n.content.type = "mapping"
    BY <1>2, <2>1, ChildType DEF CopyBody
  <2>2. CASE n.content.type = "sequence"
    BY <1>2, <2>2, ChildType DEF CopyBody
  <2>3. QED
    BY <1>2, <2>1, <2>2, BranchType
<1>3. QED
  BY <1>1, <1>2 DEF Values!Tree

\* Copy is what its definition says.
LEMMA CopyUnfolds == Values!Copy = [n \in Values!Tree |-> CopyBody(Values!Copy, n)]
<1> DEFINE H == [n \in Values!Tree |-> CopyBody(<<>>, n)]
           G == [n \in Values!Tree |-> CopyBody(H, n)]
<1>1. ASSUME NEW n \in Values!Leaf PROVE H[n] = G[n]
  BY <1>1, LeafType DEF Values!Tree, CopyBody
<1>2. ASSUME NEW n \in Values!Tree PROVE CopyBody(H, n) = CopyBody(G, n)
  <2> HIDE DEF H, G
  <2>1. QED
    BY <1>1, CopyIsLocal
<1>3. G = [n \in Values!Tree |-> CopyBody(G, n)]
  BY <1>2
<1> HIDE DEF G
<1>4. QED
  BY <1>3 DEF Values!Copy, CopyBody

-----------------------------------------------------------------------------
(* Scalars. *)

\* What the setters make.
MadeScalar(c) ==
    \/ \E t \in Values!AnyText, style \in Values!Style : c = [Values!InitString(t) EXCEPT !.style = style]
    \/ \E n \in Values!Int64 : c = Values!InitInt(n)
    \/ \E d \in Int : c = Values!InitDouble(d)
    \/ \E b \in BOOLEAN : c = Values!InitBoolean(b)

Cache(b, n, d) == [boolean |-> b, int |-> n, double |-> d]

\* A double is counted in quarters.
LEMMA ToDoubleType ==
  ASSUME Values!ScalarsAssumption, NEW n \in Int
  PROVE  Values!ToDouble(n) \in Int
BY DEF Values!ToDouble, Values!Magnitude

\* What strtod makes of a text.
LEMMA WholeDoubleType ==
  ASSUME Values!ScalarsAssumption, NEW t \in Values!AnyText
  PROVE  Values!WholeDouble(t) \in Int \cup {Absent}
<1>1. t.value \in Int
  BY DEF Values!AnyText
<1>2. QED
  BY <1>1, ToDoubleType DEF Values!WholeDouble

\* The cache that is parsed: a boolean, an integer with its double, or a double.
LEMMA ParsedCases ==
  ASSUME Values!ScalarsAssumption, NEW t \in Values!AnyText
  PROVE  \/ /\ t.form \in {"boolean", "yes"} 
            /\ \E b \in BOOLEAN : Values!Parsed(t) = Cache(b, Absent, Absent)
         \/ /\ t.form \notin {"boolean", "yes"} /\ Values!IsCoreInt(t)
            /\ Values!Parsed(t) = Cache(Absent, t.value, Values!ToDouble(t.value))
         \/ /\ t.form \notin {"boolean", "yes"} /\ ~Values!IsCoreInt(t)
            /\ Values!Parsed(t) = Cache(Absent, Absent, Values!WholeDouble(t))
<1>1. CASE t.form \in {"boolean", "yes"}
  <2>1. (t.value = 1) \in BOOLEAN
    OBVIOUS
  <2>2. Values!Parsed(t) = [Values!NoCache EXCEPT !.boolean = (t.value = 1)]
    BY <1>1 DEF Values!Parsed
  <2>3. Values!Parsed(t) = Cache((t.value = 1), Absent, Absent)
    BY <2>2 DEF Values!NoCache, Cache
  <2>4. QED
    BY <1>1, <2>1, <2>3
<1>2. CASE t.form \notin {"boolean", "yes"} /\ Values!IsCoreInt(t)
  BY <1>2 DEF Values!Parsed, Values!NoCache, Cache
<1>3. CASE t.form \notin {"boolean", "yes"} /\ ~Values!IsCoreInt(t)
  BY <1>3 DEF Values!Parsed, Values!NoCache, Cache
<1>4. QED
  BY <1>1, <1>2, <1>3

\* What a printed double is.
LEMMA PrintedCases ==
  ASSUME Values!ScalarsAssumption, NEW d \in Int
  PROVE  /\ Values!PrintedDouble(d) \in Values!AnyText
         /\ LET h == 2 * (d \div 2) IN
            /\ h \in Int
            /\ \/ Values!Magnitude(h) >= 4 * Exponent /\ Values!PrintedDouble(d) = Values!Text("exponent", h)
               \/ /\ Values!Magnitude(h) < 4 * Exponent /\ h % 4 = 0
                  /\ Values!PrintedDouble(d) = Values!Text("decimal", h \div 4)
               \/ /\ Values!Magnitude(h) < 4 * Exponent /\ h % 4 # 0
                  /\ Values!PrintedDouble(d) = Values!Text("real", h)
<1> DEFINE h == 2 * (d \div 2)
<1>1. h \in Int
  OBVIOUS
<1>2. Values!PrintedDouble(d) = IF Values!Magnitude(h) >= 4 * Exponent THEN Values!Text("exponent", h)
                         ELSE IF h % 4 = 0 THEN Values!Text("decimal", h \div 4)
                         ELSE Values!Text("real", h)
  BY DEF Values!PrintedDouble
<1> HIDE DEF h
<1>3. \A v \in Int : /\ Values!Text("exponent", v) \in Values!AnyText /\ Values!Text("decimal", v) \in Values!AnyText
                     /\ Values!Text("real", v) \in Values!AnyText
  BY DEF Values!Text, Values!AnyText, Values!Form
<1>4. h \div 4 \in Int
  BY <1>1
<1>5. Values!PrintedDouble(d) \in Values!AnyText
  BY <1>1, <1>2, <1>3, <1>4
<1>6. Values!Magnitude(h) \in Int /\ 4 * Exponent \in Int
  BY <1>1 DEF Values!Magnitude, Values!ScalarsAssumption
<1>7. /\ h \in Int
      /\ \/ Values!Magnitude(h) >= 4 * Exponent /\ Values!PrintedDouble(d) = Values!Text("exponent", h)
         \/ /\ Values!Magnitude(h) < 4 * Exponent /\ h % 4 = 0
            /\ Values!PrintedDouble(d) = Values!Text("decimal", h \div 4)
         \/ /\ Values!Magnitude(h) < 4 * Exponent /\ h % 4 # 0
            /\ Values!PrintedDouble(d) = Values!Text("real", h)
  BY <1>1, <1>2, <1>6
<1>8. QED
  BY <1>5, <1>7 DEF h

\* What yaml_node_init_int caches.
LEMMA IntCache ==
  ASSUME NEW n
  PROVE  [Values!NoCache EXCEPT !.int = n, !.double = Values!ToDouble(n)] = Cache(Absent, n, Values!ToDouble(n))
<1> DEFINE r == [Values!NoCache EXCEPT !.int = n]
<1>1. r = Cache(Absent, n, Absent)
  BY DEF Values!NoCache, Cache
<1>2. [Values!NoCache EXCEPT !.int = n, !.double = Values!ToDouble(n)] = [r EXCEPT !.double = Values!ToDouble(n)]
  BY DEF Values!NoCache
<1> HIDE DEF r
<1>3. QED
  BY <1>1, <1>2 DEF Cache

\* A scalar that was made: its text, and whatever is in its cache.
LEMMA MadeType ==
  ASSUME Values!ScalarsAssumption, NEW c, MadeScalar(c)
  PROVE  /\ c \in Values!AnyScalar /\ c.type = "scalar"
         /\ \E t \in Values!AnyText, style \in Values!Style, b \in BOOLEAN \cup {Absent}, n \in Int \cup {Absent},
               d \in Int \cup {Absent} : c = Values!Scalar(t, style, Cache(b, n, d))
<1> DEFINE Made(t, style, b, n, d) == c = Values!Scalar(t, style, Cache(b, n, d))
<1>1. ASSUME NEW t \in Values!AnyText, NEW style \in Values!Style, c = [Values!InitString(t) EXCEPT !.style = style]
      PROVE  \E b \in BOOLEAN \cup {Absent}, n \in Int \cup {Absent}, d \in Int \cup {Absent} :
               Made(t, style, b, n, d)
  <2>1. c = Values!Scalar(t, style, Values!Parsed(t))
    BY <1>1 DEF Values!InitString, Values!Scalar
  <2>2. t.value \in Int
    BY DEF Values!AnyText
  <2>3. Values!ToDouble(t.value) \in Int /\ Values!WholeDouble(t) \in Int \cup {Absent}
    BY <2>2, ToDoubleType, WholeDoubleType
  <2>4. CASE \E b \in BOOLEAN : Values!Parsed(t) = Cache(b, Absent, Absent)
    BY <2>1, <2>4
  <2>5. CASE Values!Parsed(t) = Cache(Absent, t.value, Values!ToDouble(t.value))
    BY <2>1, <2>2, <2>3, <2>5
  <2>6. CASE Values!Parsed(t) = Cache(Absent, Absent, Values!WholeDouble(t))
    BY <2>1, <2>3, <2>6
  <2>7. QED
    BY <2>4, <2>5, <2>6, ParsedCases
<1>2. ASSUME NEW n \in Values!Int64, c = Values!InitInt(n)
      PROVE  /\ Values!Text("decimal", n) \in Values!AnyText /\ "plain" \in Values!Style /\ Values!ToDouble(n) \in Int
             /\ n \in Int /\ Made(Values!Text("decimal", n), "plain", Absent, n, Values!ToDouble(n))
  <2>1. n \in Int
    BY DEF Values!Int64
  <2>2. Values!ToDouble(n) \in Int
    BY <2>1, ToDoubleType
  <2>3. Values!Text("decimal", n) \in Values!AnyText /\ "plain" \in Values!Style
    BY <2>1 DEF Values!Text, Values!AnyText, Values!Form, Values!Style
  <2>4. [Values!NoCache EXCEPT !.int = n, !.double = Values!ToDouble(n)] = Cache(Absent, n, Values!ToDouble(n))
    BY IntCache
  <2>5. QED
    BY <1>2, <2>1, <2>2, <2>3, <2>4 DEF Values!InitInt
<1>3. ASSUME NEW d \in Int, c = Values!InitDouble(d)
      PROVE  /\ Values!PrintedDouble(d) \in Values!AnyText /\ "plain" \in Values!Style
             /\ Made(Values!PrintedDouble(d), "plain", Absent, Absent, d)
  BY <1>3, PrintedCases DEF Values!InitDouble, Values!Style, Values!NoCache, Cache
<1>4. ASSUME NEW b \in BOOLEAN, c = Values!InitBoolean(b)
      PROVE  \E t \in Values!AnyText : Made(t, "plain", b, Absent, Absent) /\ "plain" \in Values!Style
  <2>1. Values!Text("boolean", IF b THEN 1 ELSE 0) \in Values!AnyText
    BY DEF Values!Text, Values!AnyText, Values!Form
  <2>2. [Values!NoCache EXCEPT !.boolean = b] = Cache(b, Absent, Absent)
    BY DEF Values!NoCache, Cache
  <2>3. c = Values!Scalar(Values!Text("boolean", IF b THEN 1 ELSE 0), "plain", [Values!NoCache EXCEPT !.boolean = b])
    BY <1>4 DEF Values!InitBoolean
  <2>4. QED
    BY <2>1, <2>2, <2>3 DEF Values!Style
<1>5. \E t \in Values!AnyText, style \in Values!Style, b \in BOOLEAN \cup {Absent}, n \in Int \cup {Absent},
         d \in Int \cup {Absent} : Made(t, style, b, n, d)
  <2> HIDE DEF Made
  <2>1. QED
    BY <1>1, <1>2, <1>3, <1>4 DEF MadeScalar
<1>6. ASSUME NEW t \in Values!AnyText, NEW style \in Values!Style, NEW b \in BOOLEAN \cup {Absent},
             NEW n \in Int \cup {Absent}, NEW d \in Int \cup {Absent}, Made(t, style, b, n, d)
      PROVE  c \in Values!AnyScalar /\ c.type = "scalar"
  <2>1. Cache(b, n, d) \in [boolean : BOOLEAN \cup {Absent}, int : Int \cup {Absent},
                           double : Int \cup {Absent}]
    BY DEF Cache
  <2>2. QED
    BY <1>6, <2>1 DEF Values!Scalar, Values!AnyScalar
<1>7. c \in Values!AnyScalar /\ c.type = "scalar"
  <2> HIDE DEF Made
  <2>1. QED
    BY <1>5, <1>6
<1>8. QED
  BY <1>5, <1>7

\* What is read from a scalar: nothing but its text and its cache counts.
SameReads(c, again) ==
    /\ Values!GetInt(c) = Values!GetInt(again) /\ Values!GetBoolean(c) = Values!GetBoolean(again)
    /\ Values!PrintedDouble(Values!GetDouble(c)) = Values!PrintedDouble(Values!GetDouble(again))

\* Printing what was printed changes nothing.
LEMMA PrintedAgain ==
  ASSUME Values!ScalarsAssumption, NEW d \in Int, NEW h, h = 2 * (d \div 2)
  PROVE  Values!PrintedDouble(h) = Values!PrintedDouble(d)
<1>1. h \in Int /\ 2 * (h \div 2) = h
  OBVIOUS
<1>2. QED
  BY <1>1 DEF Values!PrintedDouble

\* What is read from the text of a double.
LEMMA PrintedRead ==
  ASSUME Values!ScalarsAssumption, NEW d \in Int
  PROVE  /\ Values!WholeDouble(Values!PrintedDouble(d)) = 2 * (d \div 2)
         /\ Values!PrintedDouble(d).form \in {"exponent", "decimal", "real"}
         /\ Values!PrintedDouble(d).form = "decimal" =>
              Values!ToDouble(Values!PrintedDouble(d).value) = 2 * (d \div 2)
<1> DEFINE h == 2 * (d \div 2)
           t == Values!PrintedDouble(d)
<1>1. h \in Int
  OBVIOUS
<1>2. \/ t = Values!Text("exponent", h) \/ t = Values!Text("real", h)
      \/ Values!Magnitude(h) < 4 * Exponent /\ h % 4 = 0 /\ t = Values!Text("decimal", h \div 4)
  BY PrintedCases
<1> HIDE DEF h, t
<1>3. CASE t = Values!Text("exponent", h) \/ t = Values!Text("real", h)
  BY <1>3 DEF Values!Text, Values!WholeDouble, h, t
<1>4. CASE Values!Magnitude(h) < 4 * Exponent /\ h % 4 = 0 /\ t = Values!Text("decimal", h \div 4)
  <2> DEFINE v == h \div 4
  <2>1. v \in Int /\ h = 4 * v
    BY <1>1, <1>4
  <2>2. Values!Magnitude(v) <= 2^Precision
    <3>1. 2^Precision \in Int /\ Exponent \in Int /\ Exponent <= 2^Precision
      BY DEF Values!ScalarsAssumption
    <3> DEFINE limit == 2^Precision
    <3> HIDE DEF limit, v
    <3>2. limit \in Int /\ Exponent \in Int /\ Exponent <= limit
      BY <3>1 DEF limit
    <3>3. Values!Magnitude(v) <= limit
      BY <1>4, <2>1, <3>2 DEF Values!Magnitude
    <3>4. QED
      BY <3>3 DEF limit
  <2> HIDE DEF v
  <2>3. Values!ToDouble(v) = h
    BY <2>1, <2>2 DEF Values!ToDouble
  <2>4. t = Values!Text("decimal", v)
    BY <1>4 DEF v
  <2>5. QED
    BY <2>3, <2>4 DEF Values!Text, Values!WholeDouble, h, t
<1>5. QED
  BY <1>2, <1>3, <1>4

\* The reads of a made scalar follow its text.
LEMMA MadeReads ==
  ASSUME Values!ScalarsAssumption, NEW c, MadeScalar(c)
  PROVE  SameReads(c, Values!InitString(c.text))
<1> DEFINE again == Values!InitString(c.text)
<1>1. ASSUME c.type = "scalar", c.cache = Values!Parsed(c.text) PROVE SameReads(c, again)
  BY <1>1 DEF SameReads, Values!InitString, Values!Scalar, Values!GetInt, Values!GetBoolean,
     Values!GetDouble, Values!IsScalar
<1>2. ASSUME NEW t \in Values!AnyText, NEW style \in Values!Style, c = [Values!InitString(t) EXCEPT !.style = style]
      PROVE  SameReads(c, again)
  <2>1. c.type = "scalar" /\ c.text = t /\ c.cache = Values!Parsed(t)
    BY <1>2 DEF Values!InitString, Values!Scalar
  <2>2. QED
    BY <1>1, <2>1
<1>3. ASSUME NEW n \in Values!Int64, c = Values!InitInt(n) PROVE SameReads(c, again)
  <2>1. c.type = "scalar" /\ c.text = Values!Text("decimal", n)
        /\ c.cache = [Values!NoCache EXCEPT !.int = n, !.double = Values!ToDouble(n)]
    BY <1>3 DEF Values!InitInt, Values!Scalar
  <2>2. Values!Text("decimal", n).form = "decimal" /\ Values!Text("decimal", n).value = n
    BY DEF Values!Text
  <2>3. Values!IsCoreInt(Values!Text("decimal", n))
    BY <2>2 DEF Values!IsCoreInt, Values!Int64
  <2>4. Values!Parsed(Values!Text("decimal", n)) = [Values!NoCache EXCEPT !.int = n, !.double = Values!ToDouble(n)]
    BY <2>2, <2>3 DEF Values!Parsed
  <2>5. QED
    BY <1>1, <2>1, <2>4
<1>4. ASSUME NEW b \in BOOLEAN, c = Values!InitBoolean(b) PROVE SameReads(c, again)
  <2> DEFINE t == Values!Text("boolean", IF b THEN 1 ELSE 0)
  <2>1. c.type = "scalar" /\ c.text = t /\ c.cache = [Values!NoCache EXCEPT !.boolean = b]
    BY <1>4 DEF Values!InitBoolean, Values!Scalar
  <2>2. t.form = "boolean" /\ (t.value = 1) = b
    BY DEF Values!Text
  <2>3. Values!Parsed(t) = [Values!NoCache EXCEPT !.boolean = (t.value = 1)]
    BY <2>2 DEF Values!Parsed
  <2>4. Values!Parsed(t) = [Values!NoCache EXCEPT !.boolean = b]
    BY <2>2, <2>3
  <2> HIDE DEF t
  <2>5. QED
    BY <1>1, <2>1, <2>4
<1>5. ASSUME NEW d \in Int, c = Values!InitDouble(d) PROVE SameReads(c, again)
  <2> DEFINE t == Values!PrintedDouble(d)  h == 2 * (d \div 2)
  <2>1. c.type = "scalar" /\ c.text = t /\ c.cache = Cache(Absent, Absent, d)
    BY <1>5 DEF Values!InitDouble, Values!Scalar, Values!NoCache, Cache
  <2>2. again.type = "scalar" /\ again.text = t /\ again.cache = Values!Parsed(t)
    BY <2>1 DEF Values!InitString, Values!Scalar
  <2>3. t \in Values!AnyText /\ t.form \in {"exponent", "decimal", "real"} /\ Values!WholeDouble(t) = h
        /\ (t.form = "decimal" => Values!ToDouble(t.value) = h) /\ h \in Int
    BY PrintedCases, PrintedRead
  <2>4. Values!PrintedDouble(h) = Values!PrintedDouble(d)
    BY PrintedAgain
  <2> HIDE DEF t, h, again
  <2>5. Absent \notin Int /\ t.value \in Int
    BY <2>3 DEF Values!ScalarsAssumption, Values!AnyText
  <2>6. \/ Values!IsCoreInt(t) /\ Values!Parsed(t) = Cache(Absent, t.value, h)
        \/ ~Values!IsCoreInt(t) /\ Values!Parsed(t) = Cache(Absent, Absent, h)
    <3>1. Values!IsCoreInt(t) => t.form = "decimal"
      BY <2>3 DEF Values!IsCoreInt
    <3>2. QED
      BY <2>3, <3>1, ParsedCases
  <2>7. Values!GetInt(c) = Values!GetInt(again)
    BY <2>1, <2>2, <2>5, <2>6 DEF Values!GetInt, Values!IsScalar, Cache
  <2>8. Values!GetBoolean(c) = Values!GetBoolean(again)
    BY <2>1, <2>2, <2>6 DEF Values!GetBoolean, Values!IsScalar, Cache
  <2>9. Values!GetDouble(c) = d /\ Values!GetDouble(again) = h
    BY <2>1, <2>2, <2>3, <2>5, <2>6 DEF Values!GetDouble, Values!IsScalar, Cache
  <2>10. QED
    BY <2>4, <2>7, <2>8, <2>9 DEF SameReads, again
<1>6. QED
  BY <1>2, <1>3, <1>4, <1>5 DEF MadeScalar

\* The scalars that are made have one of these caches.
LEMMA MadeCases ==
  ASSUME Values!ScalarsAssumption, NEW c, MadeScalar(c)
  PROVE  \/ c.cache = Values!NoCache
         \/ \E b \in BOOLEAN : c.cache = Cache(b, Absent, Absent)
         \/ \E n \in Int : c.cache = Cache(Absent, n, Values!ToDouble(n))
         \/ \E d \in Int : c.cache = Cache(Absent, Absent, d)
<1>1. ASSUME NEW t \in Values!AnyText, NEW style \in Values!Style, c = [Values!InitString(t) EXCEPT !.style = style]
      PROVE  \/ c.cache = Values!NoCache
             \/ \E b \in BOOLEAN : c.cache = Cache(b, Absent, Absent)
             \/ \E n \in Int : c.cache = Cache(Absent, n, Values!ToDouble(n))
             \/ \E d \in Int : c.cache = Cache(Absent, Absent, d)
  <2>1. c.cache = Values!Parsed(t)
    BY <1>1 DEF Values!InitString, Values!Scalar
  <2>2. Values!WholeDouble(t) \in Int \cup {Absent} /\ Values!NoCache = Cache(Absent, Absent, Absent)
    BY WholeDoubleType DEF Values!NoCache, Cache
  <2>3. t.value \in Int
    BY DEF Values!AnyText
  <2>4. QED
    BY <2>1, <2>2, <2>3, ParsedCases
<1>2. ASSUME NEW n \in Values!Int64, c = Values!InitInt(n) PROVE n \in Int /\ c.cache = Cache(Absent, n, Values!ToDouble(n))
  <2>1. n \in Int
    BY DEF Values!Int64
  <2>2. c.cache = [Values!NoCache EXCEPT !.int = n, !.double = Values!ToDouble(n)]
    BY <1>2 DEF Values!InitInt, Values!Scalar
  <2>3. QED
    BY <2>1, <2>2, IntCache
<1>3. ASSUME NEW d \in Int, c = Values!InitDouble(d) PROVE c.cache = Cache(Absent, Absent, d)
  BY <1>3 DEF Values!InitDouble, Values!Scalar, Values!NoCache, Cache
<1>4. ASSUME NEW b \in BOOLEAN, c = Values!InitBoolean(b) PROVE c.cache = Cache(b, Absent, Absent)
  BY <1>4 DEF Values!InitBoolean, Values!Scalar, Values!NoCache, Cache
<1>5. QED
  BY <1>1, <1>2, <1>3, <1>4 DEF MadeScalar

\* An integer that was read from JSON is one of the scalars, whatever its width.
LEMMA IntType ==
  ASSUME Values!ScalarsAssumption, NEW n \in Int
  PROVE  Values!InitInt(n) \in Values!AnyScalar /\ Values!InitInt(n).cache = Cache(Absent, n, Values!ToDouble(n))
<1>1. Values!Text("decimal", n) \in Values!AnyText /\ "plain" \in Values!Style
  BY DEF Values!Text, Values!AnyText, Values!Form, Values!Style
<1>2. Cache(Absent, n, Values!ToDouble(n)) \in
        [boolean : BOOLEAN \cup {Absent}, int : Int \cup {Absent}, double : Int \cup {Absent}]
  BY ToDoubleType DEF Cache
<1>3. Values!InitInt(n) = Values!Scalar(Values!Text("decimal", n), "plain", Cache(Absent, n, Values!ToDouble(n)))
  BY IntCache DEF Values!InitInt
<1>4. QED
  BY <1>1, <1>2, <1>3 DEF Values!Scalar, Values!AnyScalar

\* Only a text that is no value of another type leaves nothing in the cache.
LEMMA UncachedText ==
  ASSUME Values!ScalarsAssumption, NEW c, MadeScalar(c), c.cache = Values!NoCache
  PROVE  Values!Parsed(c.text) = Values!NoCache
<1>1. Absent \notin Int /\ Absent \notin BOOLEAN
  BY DEF Values!ScalarsAssumption
<1>2. ASSUME NEW t \in Values!AnyText, NEW style \in Values!Style, c = [Values!InitString(t) EXCEPT !.style = style]
      PROVE  Values!Parsed(c.text) = Values!NoCache
  BY <1>2 DEF Values!InitString, Values!Scalar
<1>3. ASSUME NEW n \in Values!Int64, c = Values!InitInt(n) PROVE FALSE
  <2>1. c.cache = [Values!NoCache EXCEPT !.int = n, !.double = Values!ToDouble(n)]
    BY <1>3 DEF Values!InitInt, Values!Scalar
  <2>2. c.cache = Cache(Absent, n, Values!ToDouble(n))
    BY <2>1, IntCache
  <2>3. c.cache.int = n /\ n \in Int
    BY <2>2 DEF Cache, Values!Int64
  <2>4. QED
    BY <1>1, <2>3 DEF Values!NoCache
<1>4. ASSUME NEW d \in Int, c = Values!InitDouble(d) PROVE FALSE
  BY <1>1, <1>4 DEF Values!InitDouble, Values!Scalar, Values!NoCache
<1>5. ASSUME NEW b \in BOOLEAN, c = Values!InitBoolean(b) PROVE FALSE
  BY <1>1, <1>5 DEF Values!InitBoolean, Values!Scalar, Values!NoCache
<1>6. QED
  BY <1>2, <1>3, <1>4, <1>5 DEF MadeScalar

\* A scalar that becomes JSON and comes back has its values.
LEMMA JsonKeepsScalar ==
  ASSUME Values!ScalarsAssumption, NEW c, MadeScalar(c)
  PROVE  /\ Values!ScalarToJson(c) \in Values!JsonLeaf
         /\ Values!ScalarFromJson(Values!ScalarToJson(c)) \in Values!AnyScalar
         /\ Values!Typed(Values!ScalarFromJson(Values!ScalarToJson(c))) = Values!Typed(c)
<1> DEFINE j == Values!ScalarToJson(c)
<1>1. Values!NoCache = Cache(Absent, Absent, Absent) /\ Absent \notin Int /\ Absent \notin BOOLEAN
  BY DEF Values!NoCache, Cache, Values!ScalarsAssumption
<1>2. CASE c.cache = Values!NoCache
  <2>1. j = Values!Json("string", c.text) /\ c.text \in Values!AnyText
    BY <1>1, <1>2, MadeType DEF Values!ScalarToJson, Cache, Values!AnyScalar
  <2>2. j.kind = "string" /\ j.of = c.text /\ j \in Values!JsonLeaf
    BY <2>1 DEF Values!Json, Values!JsonLeaf
  <2> HIDE DEF j
  <2>3. Values!ScalarFromJson(j) = Values!InitString(c.text)
    BY <2>2 DEF Values!ScalarFromJson
  <2>4. MadeScalar(Values!InitString(c.text))
    <3>1. Values!InitString(c.text) = [Values!InitString(c.text) EXCEPT !.style = "any"] /\ "any" \in Values!Style
      BY DEF Values!InitString, Values!Scalar, Values!Style
    <3>2. QED
      BY <2>1, <3>1 DEF MadeScalar
  <2>5. Values!InitString(c.text).text = c.text /\ Values!Typed(c) = c.text
    BY <1>2 DEF Values!InitString, Values!Scalar, Values!Typed
  <2>6. Values!InitString(c.text).cache = Values!Parsed(c.text)
    BY DEF Values!InitString, Values!Scalar
  <2>7. Values!Parsed(c.text) = Values!NoCache
    BY <1>2, UncachedText
  <2>8. Values!InitString(c.text) \in Values!AnyScalar
    BY <2>4, MadeType
  <2>9. QED
    BY <1>2, <2>2, <2>3, <2>5, <2>6, <2>7, <2>8 DEF Values!Typed, j
<1>3. ASSUME NEW b \in BOOLEAN, c.cache = Cache(b, Absent, Absent)
      PROVE  /\ j \in Values!JsonLeaf /\ Values!ScalarFromJson(j) \in Values!AnyScalar
             /\ Values!Typed(Values!ScalarFromJson(j)) = Values!Typed(c)
  <2>1. j = Values!Json("boolean", b)
    BY <1>1, <1>3 DEF Values!ScalarToJson, Cache
  <2>2. j.kind = "boolean" /\ j.of = b /\ j \in Values!JsonLeaf
    BY <2>1 DEF Values!Json, Values!JsonLeaf
  <2> HIDE DEF j
  <2>3. Values!ScalarFromJson(j) = Values!InitBoolean(b)
    BY <2>2 DEF Values!ScalarFromJson
  <2>4. MadeScalar(Values!InitBoolean(b)) /\ Values!InitBoolean(b).cache = Cache(b, Absent, Absent)
    BY DEF MadeScalar, Values!InitBoolean, Values!Scalar, Values!NoCache, Cache
  <2>5. Cache(b, Absent, Absent) # Values!NoCache
    BY <1>1 DEF Cache
  <2>6. QED
    BY <1>3, <2>2, <2>3, <2>4, <2>5, MadeType DEF Values!Typed
<1>4. ASSUME NEW n \in Int, c.cache = Cache(Absent, n, Values!ToDouble(n))
      PROVE  /\ j \in Values!JsonLeaf /\ Values!ScalarFromJson(j) \in Values!AnyScalar
             /\ Values!Typed(Values!ScalarFromJson(j)) = Values!Typed(c)
  <2>1. j = Values!Json("int", n)
    BY <1>1, <1>4 DEF Values!ScalarToJson, Cache
  <2>2. j.kind = "int" /\ j.of = n /\ j \in Values!JsonLeaf
    BY <2>1 DEF Values!Json, Values!JsonLeaf
  <2> HIDE DEF j
  <2>3. Values!ScalarFromJson(j) = Values!InitInt(n)
    BY <2>2 DEF Values!ScalarFromJson
  <2>4. Cache(Absent, n, Values!ToDouble(n)) # Values!NoCache
    BY <1>1 DEF Cache
  <2>5. QED
    BY <1>4, <2>2, <2>3, <2>4, IntType DEF Values!Typed
<1>5. ASSUME NEW d \in Int, c.cache = Cache(Absent, Absent, d)
      PROVE  /\ j \in Values!JsonLeaf /\ Values!ScalarFromJson(j) \in Values!AnyScalar
             /\ Values!Typed(Values!ScalarFromJson(j)) = Values!Typed(c)
  <2>1. j = Values!Json("double", d)
    BY <1>1, <1>5 DEF Values!ScalarToJson, Cache
  <2>2. j.kind = "double" /\ j.of = d /\ j \in Values!JsonLeaf
    BY <2>1 DEF Values!Json, Values!JsonLeaf
  <2> HIDE DEF j
  <2>3. Values!ScalarFromJson(j) = Values!InitDouble(d)
    BY <2>2 DEF Values!ScalarFromJson
  <2>4. MadeScalar(Values!InitDouble(d)) /\ Values!InitDouble(d).cache = Cache(Absent, Absent, d)
    BY DEF MadeScalar, Values!InitDouble, Values!Scalar, Values!NoCache, Cache
  <2>5. Cache(Absent, Absent, d) # Values!NoCache
    BY <1>1 DEF Cache
  <2>6. QED
    BY <1>5, <2>2, <2>3, <2>4, <2>5, MadeType DEF Values!Typed
<1>6. QED
  BY <1>2, <1>3, <1>4, <1>5, MadeCases

-----------------------------------------------------------------------------
(* Trees: the recursive functions are what their definitions say. *)

ToJsonBody(f, n) ==
    LET c == n.content IN
    CASE c.type = "mapping"  ->
           Values!Json("object", [i \in DOMAIN c.members |->
                             Values!Pair(c.members[i].key, f[c.members[i].child])])
      [] c.type = "sequence" -> Values!Json("array", [i \in DOMAIN c.elements |-> f[c.elements[i]]])
      [] c.type = "scalar"   -> Values!ScalarToJson(c)
      [] OTHER               -> Values!Json("null", Absent)

\* What ToJson gives for a tree depends on what it gives for the leaves.
LEMMA ToJsonIsLocal ==
  ASSUME NEW f, NEW g, \A c \in Values!Leaf : f[c] = g[c], NEW n \in Values!Tree
  PROVE  ToJsonBody(f, n) = ToJsonBody(g, n)
<1>1. CASE n \in Values!Leaf
  BY <1>1, LeafType DEF ToJsonBody
<1>2. CASE n \in Values!Branch
  <2>1. CASE n.content.type = "mapping"
    BY <1>2, <2>1, ChildType DEF ToJsonBody
  <2>2. CASE n.content.type = "sequence"
    BY <1>2, <2>2, ChildType DEF ToJsonBody
  <2>3. QED
    BY <1>2, <2>1, <2>2, BranchType
<1>3. QED
  BY <1>1, <1>2 DEF Values!Tree

\* ToJson is what its definition says.
LEMMA ToJsonUnfolds == Values!ToJson = [n \in Values!Tree |-> ToJsonBody(Values!ToJson, n)]
<1> DEFINE H == [n \in Values!Tree |-> ToJsonBody(<<>>, n)]
           G == [n \in Values!Tree |-> ToJsonBody(H, n)]
<1>1. ASSUME NEW n \in Values!Leaf PROVE H[n] = G[n]
  BY <1>1, LeafType DEF Values!Tree, ToJsonBody
<1>2. ASSUME NEW n \in Values!Tree PROVE ToJsonBody(H, n) = ToJsonBody(G, n)
  <2> HIDE DEF H, G
  <2>1. QED
    BY <1>1, ToJsonIsLocal
<1>3. G = [n \in Values!Tree |-> ToJsonBody(G, n)]
  BY <1>2
<1> HIDE DEF G
<1>4. QED
  BY <1>3 DEF Values!ToJson, ToJsonBody

ScalarsInBody(f, n) ==
    LET c == n.content IN
    CASE c.type = "mapping"  -> UNION {f[c.members[i].child] : i \in DOMAIN c.members}
      [] c.type = "sequence" -> UNION {f[c.elements[i]] : i \in DOMAIN c.elements}
      [] c.type = "scalar"   -> {c}
      [] OTHER               -> {}

\* What ScalarsIn gives for a tree depends on what it gives for the leaves.
LEMMA ScalarsInIsLocal ==
  ASSUME NEW f, NEW g, \A c \in Values!Leaf : f[c] = g[c], NEW n \in Values!Tree
  PROVE  ScalarsInBody(f, n) = ScalarsInBody(g, n)
<1>1. CASE n \in Values!Leaf
  BY <1>1, LeafType DEF ScalarsInBody
<1>2. CASE n \in Values!Branch
  <2>1. CASE n.content.type = "mapping"
    BY <1>2, <2>1, ChildType DEF ScalarsInBody
  <2>2. CASE n.content.type = "sequence"
    BY <1>2, <2>2, ChildType DEF ScalarsInBody
  <2>3. QED
    BY <1>2, <2>1, <2>2, BranchType
<1>3. QED
  BY <1>1, <1>2 DEF Values!Tree

\* ScalarsIn is what its definition says.
LEMMA ScalarsInUnfolds == Values!ScalarsIn = [n \in Values!Tree |-> ScalarsInBody(Values!ScalarsIn, n)]
<1> DEFINE H == [n \in Values!Tree |-> ScalarsInBody(<<>>, n)]
           G == [n \in Values!Tree |-> ScalarsInBody(H, n)]
<1>1. ASSUME NEW n \in Values!Leaf PROVE H[n] = G[n]
  BY <1>1, LeafType DEF Values!Tree, ScalarsInBody
<1>2. ASSUME NEW n \in Values!Tree PROVE ScalarsInBody(H, n) = ScalarsInBody(G, n)
  <2> HIDE DEF H, G
  <2>1. QED
    BY <1>1, ScalarsInIsLocal
<1>3. G = [n \in Values!Tree |-> ScalarsInBody(G, n)]
  BY <1>2
<1> HIDE DEF G
<1>4. QED
  BY <1>3 DEF Values!ScalarsIn, ScalarsInBody

TypedTreeBody(f, n) ==
    LET c == n.content IN
    CASE c.type = "mapping"  ->
           [i \in DOMAIN c.members |-> <<c.members[i].key, f[c.members[i].child]>>]
      [] c.type = "sequence" -> [i \in DOMAIN c.elements |-> f[c.elements[i]]]
      [] c.type = "scalar"   -> <<"scalar", Values!Typed(c)>>
      [] OTHER               -> <<"null">>

\* What TypedTree gives for a tree depends on what it gives for the leaves.
LEMMA TypedTreeIsLocal ==
  ASSUME NEW f, NEW g, \A c \in Values!Leaf : f[c] = g[c], NEW n \in Values!Tree
  PROVE  TypedTreeBody(f, n) = TypedTreeBody(g, n)
<1>1. CASE n \in Values!Leaf
  BY <1>1, LeafType DEF TypedTreeBody
<1>2. CASE n \in Values!Branch
  <2>1. CASE n.content.type = "mapping"
    BY <1>2, <2>1, ChildType DEF TypedTreeBody
  <2>2. CASE n.content.type = "sequence"
    BY <1>2, <2>2, ChildType DEF TypedTreeBody
  <2>3. QED
    BY <1>2, <2>1, <2>2, BranchType
<1>3. QED
  BY <1>1, <1>2 DEF Values!Tree

\* TypedTree is what its definition says.
LEMMA TypedTreeUnfolds == Values!TypedTree = [n \in Values!Tree |-> TypedTreeBody(Values!TypedTree, n)]
<1> DEFINE H == [n \in Values!Tree |-> TypedTreeBody(<<>>, n)]
           G == [n \in Values!Tree |-> TypedTreeBody(H, n)]
<1>1. ASSUME NEW n \in Values!Leaf PROVE H[n] = G[n]
  BY <1>1, LeafType DEF Values!Tree, TypedTreeBody
<1>2. ASSUME NEW n \in Values!Tree PROVE TypedTreeBody(H, n) = TypedTreeBody(G, n)
  <2> HIDE DEF H, G
  <2>1. QED
    BY <1>1, TypedTreeIsLocal
<1>3. G = [n \in Values!Tree |-> TypedTreeBody(G, n)]
  BY <1>2
<1> HIDE DEF G
<1>4. QED
  BY <1>3 DEF Values!TypedTree, TypedTreeBody

FromJsonBody(f, j) ==
    Values!With({},
      CASE j.kind = "object" -> Values!MappingOf([i \in DOMAIN j.of |->
                                  Values!Pair(j.of[i].key, f[j.of[i].child])])
        [] j.kind = "array"  -> Values!SequenceOf([i \in DOMAIN j.of |-> f[j.of[i]]])
        [] OTHER             -> Values!ScalarFromJson(j))

\* The members of an object and the elements of an array are neither.
LEMMA JsonType ==
  ASSUME NEW j \in Values!JsonTree
  PROVE  /\ j \in Values!JsonLeaf => j.kind # "object" /\ j.kind # "array"
         /\ j.kind = "object" => \A i \in DOMAIN j.of :
              j.of[i].key \in Name /\ j.of[i].child \in Values!JsonLeaf
         /\ j.kind = "array" => \A i \in DOMAIN j.of : j.of[i] \in Values!JsonLeaf
         /\ j.kind # "object" /\ j.kind # "array" => j \in Values!JsonLeaf
<1>1. j \in Values!JsonLeaf => j.kind # "object" /\ j.kind # "array"
  BY DEF Values!JsonLeaf, Values!Json
<1>2. ASSUME j.kind = "object", NEW i \in DOMAIN j.of
      PROVE  j.of[i] \in [key : Name, child : Values!JsonLeaf]
  <2>1. j.of \in Seq([key : Name, child : Values!JsonLeaf])
    BY <1>1, <1>2 DEF Values!JsonTree
  <2>2. i \in 1..Len(j.of)
    BY <1>2, <2>1, LenProperties
  <2>3. QED
    BY <2>1, <2>2, ElementOfSeq
<1>3. ASSUME j.kind = "array", NEW i \in DOMAIN j.of
      PROVE  j.of[i] \in Values!JsonLeaf
  <2>1. j.of \in Seq(Values!JsonLeaf)
    BY <1>1, <1>3 DEF Values!JsonTree
  <2>2. i \in 1..Len(j.of)
    BY <1>3, <2>1, LenProperties
  <2>3. QED
    BY <2>1, <2>2, ElementOfSeq
<1>4. j.kind # "object" /\ j.kind # "array" => j \in Values!JsonLeaf
  BY DEF Values!JsonTree
<1>5. QED
  BY <1>1, <1>2, <1>3, <1>4

\* What FromJson gives depends on what it gives for the leaves.
LEMMA FromJsonIsLocal ==
  ASSUME NEW f, NEW g, \A c \in Values!JsonLeaf : f[c] = g[c], NEW j \in Values!JsonTree
  PROVE  FromJsonBody(f, j) = FromJsonBody(g, j)
<1>1. CASE j.kind = "object"
  BY <1>1, JsonType DEF FromJsonBody
<1>2. CASE j.kind = "array"
  BY <1>2, JsonType DEF FromJsonBody
<1>3. CASE j.kind # "object" /\ j.kind # "array"
  BY <1>3 DEF FromJsonBody
<1>4. QED
  BY <1>1, <1>2, <1>3

\* FromJson is what its definition says.
LEMMA FromJsonUnfolds == Values!FromJson = [j \in Values!JsonTree |-> FromJsonBody(Values!FromJson, j)]
<1> DEFINE H == [j \in Values!JsonTree |-> FromJsonBody(<<>>, j)]
           G == [j \in Values!JsonTree |-> FromJsonBody(H, j)]
<1>1. ASSUME NEW j \in Values!JsonLeaf PROVE H[j] = G[j]
  <2>1. j \in Values!JsonTree
    BY DEF Values!JsonTree
  <2>2. j.kind # "object" /\ j.kind # "array"
    BY <2>1, JsonType
  <2>3. QED
    BY <2>1, <2>2 DEF FromJsonBody
<1>2. ASSUME NEW j \in Values!JsonTree PROVE FromJsonBody(H, j) = FromJsonBody(G, j)
  <2> HIDE DEF H, G
  <2>1. QED
    BY <1>1, FromJsonIsLocal
<1>3. G = [j \in Values!JsonTree |-> FromJsonBody(G, j)]
  BY <1>2
<1> HIDE DEF G
<1>4. QED
  BY <1>3 DEF Values!FromJson, FromJsonBody

NodeEqualBody(f, pair) ==
    LET x == pair[1].content  y == pair[2].content IN
    /\ x.type = y.type
    /\ x.type = "scalar" => x.text = y.text
    /\ x.type = "sequence" =>
         /\ Len(x.elements) = Len(y.elements)
         /\ \A i \in DOMAIN x.elements : f[<<x.elements[i], y.elements[i]>>]
    /\ x.type = "mapping" =>
         /\ Len(x.members) = Len(y.members)
         /\ \A i \in DOMAIN x.members : \E j \in DOMAIN y.members :
              /\ x.members[i].key = y.members[j].key
              /\ f[<<x.members[i].child, y.members[j].child>>]

\* What NodeEqual gives depends on what it gives for the leaves.
LEMMA NodeEqualIsLocal ==
  ASSUME NEW f, NEW g, \A p \in Values!Leaf \X Values!Leaf : f[p] = g[p], NEW p \in Values!Tree \X Values!Tree
  PROVE  NodeEqualBody(f, p) = NodeEqualBody(g, p)
<1> DEFINE x == p[1].content  y == p[2].content
<1>1. p[1] \in Values!Tree /\ p[2] \in Values!Tree
  OBVIOUS
<1>2. ASSUME x.type # "sequence", x.type # "mapping"
      PROVE  NodeEqualBody(f, p) = NodeEqualBody(g, p)
  BY <1>2 DEF NodeEqualBody
<1>3. ASSUME x.type # y.type
      PROVE  NodeEqualBody(f, p) = NodeEqualBody(g, p)
  BY <1>3 DEF NodeEqualBody
<1>4. ASSUME x.type = "sequence", y.type = "sequence", Len(x.elements) = Len(y.elements)
      PROVE  NodeEqualBody(f, p) = NodeEqualBody(g, p)
  <2>1. p[1] \in Values!Branch /\ p[2] \in Values!Branch
    BY <1>1, <1>4, LeafType DEF Values!Tree
  <2>2. x.elements \in Seq(Values!Leaf) /\ y.elements \in Seq(Values!Leaf)
    BY <1>4, <2>1, BranchType
  <2>3. \A i \in DOMAIN x.elements : <<x.elements[i], y.elements[i]>> \in Values!Leaf \X Values!Leaf
    BY <1>4, <2>1, <2>2, ChildType, LenProperties
  <2>4. \A i \in DOMAIN x.elements :
          f[<<x.elements[i], y.elements[i]>>] = g[<<x.elements[i], y.elements[i]>>]
    BY <2>3
  <2> HIDE DEF x, y
  <2>5. (\A i \in DOMAIN x.elements : f[<<x.elements[i], y.elements[i]>>])
          = (\A i \in DOMAIN x.elements : g[<<x.elements[i], y.elements[i]>>])
    BY <2>4
  <2>6. QED
    BY <1>4, <2>5 DEF NodeEqualBody, x, y
<1>5. ASSUME x.type = "sequence", y.type = "sequence", Len(x.elements) # Len(y.elements)
      PROVE  NodeEqualBody(f, p) = NodeEqualBody(g, p)
  BY <1>5 DEF NodeEqualBody
<1>6. ASSUME x.type = "mapping", y.type = "mapping"
      PROVE  NodeEqualBody(f, p) = NodeEqualBody(g, p)
  <2>1. p[1] \in Values!Branch /\ p[2] \in Values!Branch
    BY <1>1, <1>6, LeafType DEF Values!Tree
  <2>2. \A i \in DOMAIN x.members : \A j \in DOMAIN y.members :
          <<x.members[i].child, y.members[j].child>> \in Values!Leaf \X Values!Leaf
    BY <1>6, <2>1, ChildType
  <2>3. \A i \in DOMAIN x.members : \A j \in DOMAIN y.members :
          f[<<x.members[i].child, y.members[j].child>>]
            = g[<<x.members[i].child, y.members[j].child>>]
    BY <2>2
  <2> DEFINE Some(h) == \A i \in DOMAIN x.members : \E j \in DOMAIN y.members :
                          /\ x.members[i].key = y.members[j].key
                          /\ h[<<x.members[i].child, y.members[j].child>>]
  <2>4. Some(f) = Some(g)
    <3> HIDE DEF x, y
    <3>1. QED
      BY <2>3
  <2>5. \A h : NodeEqualBody(h, p) = (Len(x.members) = Len(y.members) /\ Some(h))
    BY <1>6 DEF NodeEqualBody
  <2> HIDE DEF Some, x, y
  <2>6. QED
    BY <2>4, <2>5
<1>7. QED
  BY <1>2, <1>3, <1>4, <1>5, <1>6

\* NodeEqual is what its definition says.
LEMMA NodeEqualUnfolds == Values!NodeEqual = [p \in Values!Tree \X Values!Tree |-> NodeEqualBody(Values!NodeEqual, p)]
<1> DEFINE H == [p \in Values!Tree \X Values!Tree |-> NodeEqualBody(<<>>, p)]
           G == [p \in Values!Tree \X Values!Tree |-> NodeEqualBody(H, p)]
<1>1. ASSUME NEW p \in Values!Leaf \X Values!Leaf PROVE H[p] = G[p]
  <2>1. p[1].content.type # "mapping" /\ p[1].content.type # "sequence" /\ p \in Values!Tree \X Values!Tree
    BY LeafType DEF Values!Tree
  <2>2. NodeEqualBody(<<>>, p) = NodeEqualBody(H, p)
    BY <2>1 DEF NodeEqualBody
  <2>3. QED
    BY <2>1, <2>2
<1>2. ASSUME NEW p \in Values!Tree \X Values!Tree PROVE NodeEqualBody(H, p) = NodeEqualBody(G, p)
  <2> HIDE DEF H, G
  <2>1. QED
    BY <1>1, NodeEqualIsLocal
<1>3. G = [p \in Values!Tree \X Values!Tree |-> NodeEqualBody(G, p)]
  BY <1>2
<1>4. Values!NodeEqual = CHOOSE f : f = [p \in Values!Tree \X Values!Tree |-> NodeEqualBody(f, p)]
  BY Zenon DEF Values!NodeEqual, NodeEqualBody
<1> HIDE DEF G
<1>5. \E f : f = [p \in Values!Tree \X Values!Tree |-> NodeEqualBody(f, p)]
  BY <1>3
<1>6. QED
  BY <1>4, <1>5, Zenon

-----------------------------------------------------------------------------
(* What the setters build. *)

MadeLeaf(l) == l \in Values!Leaf /\ (l.content = Values!InitNull \/ MadeScalar(l.content))

LeavesOf(n) ==
    CASE n.content.type = "mapping"  -> {n.content.members[i].child : i \in DOMAIN n.content.members}
      [] n.content.type = "sequence" -> {n.content.elements[i] : i \in DOMAIN n.content.elements}
      [] OTHER                       -> {n}

\* The tree is one of those that the functions are about, and its scalars are what the
\* setters make.
TreeInv == node \in Values!Tree /\ \A l \in LeavesOf(node) : MadeLeaf(l)

\* A mapping of leaves.
LEMMA MappingMade ==
  ASSUME NEW meta \in SUBSET Values!Meta, NEW ms \in Seq([key : Name, child : Values!Leaf])
  PROVE  /\ Values!With(meta, Values!MappingOf(ms)) \in Values!Branch
         /\ LeavesOf(Values!With(meta, Values!MappingOf(ms))) = {ms[i].child : i \in 1..Len(ms)}
<1>1. DOMAIN ms = 1..Len(ms)
  BY LenProperties
<1>2. QED
  BY <1>1 DEF Values!With, Values!MappingOf, Values!Branch, LeavesOf

\* A sequence of leaves.
LEMMA SequenceMade ==
  ASSUME NEW meta \in SUBSET Values!Meta, NEW es \in Seq(Values!Leaf)
  PROVE  /\ Values!With(meta, Values!SequenceOf(es)) \in Values!Branch
         /\ LeavesOf(Values!With(meta, Values!SequenceOf(es))) = {es[i] : i \in 1..Len(es)}
<1>1. DOMAIN es = 1..Len(es)
  BY LenProperties
<1>2. QED
  BY <1>1 DEF Values!With, Values!SequenceOf, Values!Branch, LeavesOf

\* A leaf is its only leaf.
LEMMA LeafMade ==
  ASSUME Values!ScalarsAssumption, NEW meta \in SUBSET Values!Meta, NEW c, c = Values!InitNull \/ MadeScalar(c)
  PROVE  MadeLeaf(Values!With(meta, c)) /\ LeavesOf(Values!With(meta, c)) = {Values!With(meta, c)}
<1>1. Values!With(meta, c) \in Values!Leaf
  BY MadeType DEF Values!With, Values!Leaf
<1>2. Values!With(meta, c).content = c
  BY DEF Values!With
<1>3. QED
  BY <1>1, <1>2, LeafType DEF MadeLeaf, LeavesOf

\* The tree becomes a scalar.
LEMMA BecomesMade ==
  ASSUME Values!ScalarsAssumption, TreeInv, NEW c, MadeScalar(c), Values!Becomes(c)
  PROVE  TreeInv'
<1>1. Values!ClearInternal(node.meta) \in SUBSET Values!Meta
  BY DEF TreeInv, Values!Tree, Values!Leaf, Values!Branch, Values!ClearInternal
<1>2. QED
  BY <1>1, LeafMade DEF Values!Becomes, TreeInv, MadeLeaf, Values!Tree

\* Metadata is set.
LEMMA SetMetaMade ==
  ASSUME TreeInv, NEW m \in Values!Meta, NEW set, Values!SetMeta(m, set)
  PROVE  TreeInv'
<1> DEFINE new == IF set THEN node.meta \cup {m} ELSE node.meta \ {m}
<1>1. node' = [node EXCEPT !.meta = new]
  BY DEF Values!SetMeta
<1>2. new \in SUBSET Values!Meta
  BY DEF TreeInv, Values!Tree, Values!Leaf, Values!Branch
<1> HIDE DEF new
<1>3. node' = Values!With(new, node.content)
  BY <1>1 DEF TreeInv, Values!Tree, Values!Leaf, Values!Branch, Values!With
<1>4. CASE node \in Values!Leaf
  <2>1. LeavesOf(node) = {node}
    BY <1>4, LeafType DEF LeavesOf
  <2>2. node'.content = node.content /\ node' \in Values!Leaf
    BY <1>2, <1>3, <1>4 DEF Values!With, Values!Leaf
  <2>3. LeavesOf(node)' = {node'}
    BY <2>2, LeafType DEF LeavesOf
  <2>4. QED
    BY <2>1, <2>2, <2>3 DEF TreeInv, MadeLeaf, Values!Tree
<1>5. CASE node \in Values!Branch
  <2>1. node' \in Values!Branch /\ node'.content = node.content
    BY <1>2, <1>3, <1>5 DEF Values!With, Values!Branch
  <2>2. LeavesOf(node') = LeavesOf(node)
    BY <1>5, <2>1, BranchType DEF LeavesOf
  <2>3. QED
    BY <2>1, <2>2 DEF TreeInv, Values!Tree
<1>6. QED
  BY <1>4, <1>5 DEF TreeInv, Values!Tree

\* The tree is put into a container.
LEMMA ContainMade ==
  ASSUME TreeInv, NEW k \in Name, Values!Contain(k)
  PROVE  TreeInv'
<1>1. node \in Values!Leaf
  BY DEF TreeInv, Values!Tree, Values!Branch, Values!Contain, Values!IsScalar, Values!InitNull
<1>2. MadeLeaf(node)
  BY <1>1, LeafType DEF TreeInv, LeavesOf
<1>3. {} \in SUBSET Values!Meta
  OBVIOUS
<1>4. CASE node' = Values!With({}, Values!MappingOf(<<Values!Pair(k, node)>>))
  <2>1. Values!Pair(k, node) \in [key : Name, child : Values!Leaf] /\ Values!Pair(k, node).child = node
    BY <1>1 DEF Values!Pair
  <2> DEFINE ms == <<Values!Pair(k, node)>>
  <2>2. ms \in Seq([key : Name, child : Values!Leaf]) /\ {ms[i].child : i \in 1..Len(ms)} = {node}
    BY <2>1
  <2> HIDE DEF ms
  <2>3. node' \in Values!Branch /\ LeavesOf(node') = {node}
    BY <1>3, <1>4, <2>2, MappingMade DEF ms
  <2>4. QED
    BY <1>2, <2>3 DEF TreeInv, Values!Tree
<1>5. CASE node' = Values!With({}, Values!SequenceOf(<<node>>))
  <2> DEFINE es == <<node>>
  <2>1. es \in Seq(Values!Leaf) /\ {es[i] : i \in 1..Len(es)} = {node}
    BY <1>1
  <2> HIDE DEF es
  <2>2. node' \in Values!Branch /\ LeavesOf(node') = {node}
    BY <1>3, <1>5, <2>1, SequenceMade DEF es
  <2>3. QED
    BY <1>2, <2>2 DEF TreeInv, Values!Tree
<1>6. QED
  BY <1>4, <1>5 DEF Values!Contain

\* A leaf is added to a container.
LEMMA ExtendMade ==
  ASSUME TreeInv, NEW k \in Name, NEW child, MadeLeaf(child), Values!Extend(k, child)
  PROVE  TreeInv'
<1> DEFINE c == node.content
<1>1. node \in Values!Branch /\ node.meta \in SUBSET Values!Meta
  BY LeafType DEF TreeInv, Values!Tree, Values!Branch, Values!Extend
<1>2. child \in Values!Leaf
  BY DEF MadeLeaf
<1>3. CASE c.type = "mapping"
  <2> DEFINE ms == Append(c.members, Values!Pair(k, child))
  <2>1. c = Values!MappingOf(c.members) /\ c.members \in Seq([key : Name, child : Values!Leaf])
    BY <1>1, <1>3, BranchType
  <2>2. node' = [node EXCEPT !.content.members = ms]
    BY <1>3 DEF Values!Extend
  <2>3. node' = Values!With(node.meta, Values!MappingOf(ms))
    <3> HIDE DEF ms
    <3>1. QED
      BY <1>1, <2>1, <2>2 DEF Values!With, Values!MappingOf, Values!Branch
  <2>4. Values!Pair(k, child) \in [key : Name, child : Values!Leaf] /\ Values!Pair(k, child).child = child
    BY <1>2 DEF Values!Pair
  <2>5. ms \in Seq([key : Name, child : Values!Leaf]) /\ Len(ms) = Len(c.members) + 1
        /\ \A i \in 1..Len(ms) : ms[i].child = IF i <= Len(c.members) THEN c.members[i].child
                                               ELSE child
    BY <2>1, <2>4, AppendProperties, LenProperties
  <2>6. LeavesOf(node) = {c.members[i].child : i \in 1..Len(c.members)}
    BY <1>1, <1>3, <2>1, LenProperties DEF LeavesOf
  <2>7. node' \in Values!Branch /\ LeavesOf(node') = {ms[i].child : i \in 1..Len(ms)}
    <3> HIDE DEF ms
    <3>1. QED
      BY <1>1, <2>3, <2>5, MappingMade
  <2> HIDE DEF ms, c
  <2>8. \A l \in LeavesOf(node') : l \in LeavesOf(node) \/ l = child
    BY <2>1, <2>5, <2>6, <2>7, LenProperties
  <2>9. QED
    BY <2>7, <2>8 DEF TreeInv, Values!Tree
<1>4. CASE c.type = "sequence"
  <2> DEFINE es == Append(c.elements, child)
  <2>1. c = Values!SequenceOf(c.elements) /\ c.elements \in Seq(Values!Leaf)
    BY <1>1, <1>4, BranchType
  <2>2. node' = [node EXCEPT !.content.elements = es]
    BY <1>4 DEF Values!Extend
  <2>3. node' = Values!With(node.meta, Values!SequenceOf(es))
    <3> HIDE DEF es
    <3>1. QED
      BY <1>1, <2>1, <2>2 DEF Values!With, Values!SequenceOf, Values!Branch
  <2>4. es \in Seq(Values!Leaf) /\ Len(es) = Len(c.elements) + 1
        /\ \A i \in 1..Len(es) : es[i] = IF i <= Len(c.elements) THEN c.elements[i] ELSE child
    BY <1>2, <2>1, AppendProperties, LenProperties
  <2>5. LeavesOf(node) = {c.elements[i] : i \in 1..Len(c.elements)}
    BY <1>1, <1>4, <2>1, LenProperties DEF LeavesOf
  <2>6. node' \in Values!Branch /\ LeavesOf(node') = {es[i] : i \in 1..Len(es)}
    <3> HIDE DEF es
    <3>1. QED
      BY <1>1, <2>3, <2>4, SequenceMade
  <2> HIDE DEF es, c
  <2>7. \A l \in LeavesOf(node') : l \in LeavesOf(node) \/ l = child
    BY <2>1, <2>4, <2>5, <2>6, LenProperties
  <2>8. QED
    BY <2>6, <2>7 DEF TreeInv, Values!Tree
<1>5. QED
  BY <1>3, <1>4 DEF Values!Extend

\* The setters keep the tree as TreeInv says.
LEMMA ValuesStep ==
  ASSUME Values!ScalarsAssumption, Values!ValuesAssumption, TreeInv, Values!Next
  PROVE  TreeInv'
<1>1. ASSUME NEW t \in Values!Texts, NEW style \in {"any", "quoted"}, Values!SetString(t, style)
      PROVE  TreeInv'
  <2>1. Values!IntMin \in Int /\ Values!IntMax \in Int /\ 4 * Exponent \in Int /\ Value \subseteq Int
    BY DEF Values!ScalarsAssumption, Values!ValuesAssumption, Values!IntMin, Values!IntMax
  <2>2. \A form \in Values!Form, v \in Int : Values!Text(form, v) \in Values!AnyText
    BY DEF Values!Text, Values!AnyText
  <2>3. Values!Texts \subseteq Values!AnyText
    BY <2>1, <2>2 DEF Values!Texts, Values!Form
  <2>4. MadeScalar([Values!InitString(t) EXCEPT !.style = style])
    BY <2>3 DEF MadeScalar, Values!Style
  <2>5. QED
    BY <1>1, <2>4, BecomesMade DEF Values!SetString
<1>2. ASSUME NEW n \in Values!Int64, Values!SetInt(n) PROVE TreeInv'
  <2>1. MadeScalar(Values!InitInt(n))
    BY DEF MadeScalar
  <2>2. QED
    BY <1>2, <2>1, BecomesMade DEF Values!SetInt
<1>3. ASSUME NEW d \in Value, Values!SetDouble(d) PROVE TreeInv'
  <2>1. MadeScalar(Values!InitDouble(d))
    BY DEF MadeScalar, Values!ValuesAssumption
  <2>2. QED
    BY <1>3, <2>1, BecomesMade DEF Values!SetDouble
<1>4. ASSUME NEW b \in BOOLEAN, Values!SetBoolean(b) PROVE TreeInv'
  <2>1. MadeScalar(Values!InitBoolean(b))
    BY DEF MadeScalar
  <2>2. QED
    BY <1>4, <2>1, BecomesMade DEF Values!SetBoolean
<1>5. ASSUME NEW m \in Values!Meta, NEW set \in BOOLEAN, Values!SetMeta(m, set) PROVE TreeInv'
  BY <1>5, SetMetaMade
<1>6. ASSUME NEW k \in Name, Values!Contain(k) PROVE TreeInv'
  BY <1>6, ContainMade
<1>7. ASSUME NEW k \in Name, NEW child \in Values!Children, Values!Extend(k, child) PROVE TreeInv'
  <2>1. Values!IntMax \in Values!Int64 /\ "any" \in Values!Style /\ Values!Text("word", 0) \in Values!AnyText
    BY DEF Values!ScalarsAssumption, Values!IntMax, Values!IntMin, Values!Int64, Values!Style,
       Values!Text, Values!AnyText, Values!Form
  <2>2. MadeScalar(Values!InitInt(Values!IntMax))
    BY <2>1 DEF MadeScalar
  <2>3. Values!InitString(Values!Text("word", 0)) = [Values!InitString(Values!Text("word", 0)) EXCEPT !.style = "any"]
    BY DEF Values!InitString, Values!Scalar
  <2>4. MadeScalar(Values!InitString(Values!Text("word", 0)))
    BY <2>1, <2>3 DEF MadeScalar
  <2>5. PICK c \in {Values!InitNull, Values!InitInt(Values!IntMax), Values!InitString(Values!Text("word", 0))} : child = Values!With({}, c)
    BY DEF Values!Children
  <2>6. c = Values!InitNull \/ MadeScalar(c)
    BY <2>2, <2>4
  <2>7. {} \in SUBSET Values!Meta
    OBVIOUS
  <2>8. MadeLeaf(child)
    BY <2>5, <2>6, <2>7, LeafMade
  <2>9. QED
    BY <1>7, <2>8, ExtendMade
<1>8. QED
  BY <1>1, <1>2, <1>3, <1>4, <1>5, <1>6, <1>7 DEF Values!Next

\* Whatever is set and put together, the tree is one of those the functions are about and
\* its scalars are what the setters make (yaml-node.c:262-330, 692-790).
LEMMA TreesAreMade ==
  ASSUME Values!ScalarsAssumption, Values!ValuesAssumption
  PROVE  Values!Spec => []TreeInv
<1>1. Values!Init => TreeInv
  <2>1. {} \in SUBSET Values!Meta
    OBVIOUS
  <2>2. QED
    BY <2>1, LeafMade DEF Values!Init, TreeInv, Values!Tree, MadeLeaf
<1>2. TreeInv /\ [Values!Next]_node => TreeInv'
  <2>1. ASSUME TreeInv, UNCHANGED node PROVE TreeInv'
    BY <2>1 DEF TreeInv, LeavesOf
  <2>2. QED
    BY <2>1, ValuesStep
<1>3. QED
  BY <1>1, <1>2, PTL DEF Values!Spec

\* The scalars of a tree are those of its leaves.
LEMMA ScalarsOfLeaves ==
  ASSUME NEW n \in Values!Tree, NEW c \in Values!ScalarsIn[n], \A l \in LeavesOf(n) : l \in Values!Leaf
  PROVE  \E l \in LeavesOf(n) : l.content = c /\ c.type = "scalar"
<1>1. ASSUME NEW l \in Values!Leaf, NEW s \in Values!ScalarsIn[l] PROVE l.content = s /\ s.type = "scalar"
  <2>1. l \in Values!Tree /\ l.content.type # "mapping" /\ l.content.type # "sequence"
    BY LeafType DEF Values!Tree
  <2>2. Values!ScalarsIn[l] = ScalarsInBody(Values!ScalarsIn, l)
    BY <2>1, ScalarsInUnfolds
  <2>3. QED
    BY <1>1, <2>1, <2>2 DEF ScalarsInBody
<1>2. Values!ScalarsIn[n] = ScalarsInBody(Values!ScalarsIn, n)
  BY ScalarsInUnfolds
<1>3. CASE n \in Values!Leaf
  BY <1>1, <1>3, LeafType DEF LeavesOf
<1>4. CASE n.content.type = "mapping"
  <2>1. PICK i \in DOMAIN n.content.members : c \in Values!ScalarsIn[n.content.members[i].child]
    BY <1>2, <1>4 DEF ScalarsInBody
  <2>2. n.content.members[i].child \in LeavesOf(n)
    BY <1>4 DEF LeavesOf
  <2>3. QED
    BY <1>1, <2>1, <2>2
<1>5. CASE n.content.type = "sequence"
  <2>1. PICK i \in DOMAIN n.content.elements : c \in Values!ScalarsIn[n.content.elements[i]]
    BY <1>2, <1>5 DEF ScalarsInBody
  <2>2. n.content.elements[i] \in LeavesOf(n)
    BY <1>5 DEF LeavesOf
  <2>3. QED
    BY <1>1, <2>1, <2>2
<1>6. QED
  BY <1>3, <1>4, <1>5, BranchType DEF Values!Tree

\* Whatever was set before, in whatever order, the integer and the boolean that a scalar
\* gives are those of its text, and its double is that of its text up to what is printed,
\* for integers of any width (yaml-node.c:99-152, 262-330, 692-790).
LEMMA MadeScalarsFollowText ==
  ASSUME Values!ScalarsAssumption, Values!ValuesAssumption
  PROVE  Values!Spec => []Values!ReadsFollowText
<1>1. TreeInv => Values!ReadsFollowText
  <2> SUFFICES ASSUME TreeInv, NEW c \in Values!ScalarsIn[node]
               PROVE  SameReads(c, Values!InitString(c.text))
    BY DEF Values!ReadsFollowText, SameReads
  <2>1. PICK l \in LeavesOf(node) : l.content = c /\ c.type = "scalar"
    BY ScalarsOfLeaves DEF TreeInv, MadeLeaf
  <2>2. MadeScalar(c)
    BY <2>1 DEF TreeInv, MadeLeaf, Values!InitNull
  <2>3. QED
    BY <2>2, MadeReads
<1>2. QED
  BY <1>1, TreesAreMade, PTL

-----------------------------------------------------------------------------
(* Copies and JSON. *)

\* A copy is the same tree.
LEMMA CopyIsSame ==
  ASSUME NEW n \in Values!Tree
  PROVE  Values!Copy[n] = n
<1>1. ASSUME NEW m \in Values!Tree PROVE Values!Copy[m] = CopyBody(Values!Copy, m) /\ m = Values!With(m.meta, m.content)
  BY CopyUnfolds DEF Values!Tree, Values!Leaf, Values!Branch, Values!With
<1>2. ASSUME NEW l \in Values!Leaf PROVE Values!Copy[l] = l
  <2>1. l \in Values!Tree
    BY DEF Values!Tree
  <2>2. CopyBody(Values!Copy, l) = Values!With(l.meta, l.content)
    BY LeafType DEF CopyBody
  <2>3. QED
    BY <1>1, <2>1, <2>2
<1>3. ASSUME n \in Values!Branch, n.content.type = "mapping" PROVE Values!Copy[n] = n
  <2> DEFINE ms == n.content.members
             cs == [i \in DOMAIN ms |-> Values!Pair(ms[i].key, Values!Copy[ms[i].child])]
  <2>1. n.content = Values!MappingOf(ms) /\ ms \in Seq([key : Name, child : Values!Leaf])
    BY <1>3, BranchType
  <2>2. CopyBody(Values!Copy, n) = Values!With(n.meta, Values!MappingOf(cs))
    BY <1>3 DEF CopyBody
  <2>3. ASSUME NEW i \in DOMAIN ms PROVE cs[i] = ms[i]
    <3>1. ms[i] \in [key : Name, child : Values!Leaf]
      BY <2>1, LenProperties, ElementOfSeq
    <3>2. Values!Copy[ms[i].child] = ms[i].child
      BY <1>2, <3>1
    <3>3. QED
      BY <3>1, <3>2 DEF Values!Pair
  <2>4. cs = ms
    <3>1. ms = [i \in DOMAIN ms |-> ms[i]]
      BY <2>1, LenProperties
    <3>2. cs = [i \in DOMAIN ms |-> ms[i]]
      BY <2>3
    <3>3. QED
      BY <3>1, <3>2
  <2>5. QED
    BY <1>1, <2>1, <2>2, <2>4
<1>4. ASSUME n \in Values!Branch, n.content.type = "sequence" PROVE Values!Copy[n] = n
  <2> DEFINE es == n.content.elements
             cs == [i \in DOMAIN es |-> Values!Copy[es[i]]]
  <2>1. n.content = Values!SequenceOf(es) /\ es \in Seq(Values!Leaf)
    BY <1>4, BranchType
  <2>2. CopyBody(Values!Copy, n) = Values!With(n.meta, Values!SequenceOf(cs))
    BY <1>4 DEF CopyBody
  <2>3. cs = es
    <3>1. es = [i \in DOMAIN es |-> es[i]]
      BY <2>1, LenProperties
    <3>2. \A i \in DOMAIN es : Values!Copy[es[i]] = es[i]
      BY <1>2, <1>4, ChildType
    <3>3. QED
      BY <3>1, <3>2
  <2>4. QED
    BY <1>1, <2>1, <2>2, <2>3
<1>5. QED
  BY <1>2, <1>3, <1>4, BranchType DEF Values!Tree

\* A tree equals itself.
LEMMA EqualToItself ==
  ASSUME NEW n \in Values!Tree
  PROVE  Values!NodeEqual[<<n, n>>]
<1>1. ASSUME NEW m \in Values!Tree
      PROVE  Values!NodeEqual[<<m, m>>] <=>
               /\ m.content.type = "sequence" => \A i \in DOMAIN m.content.elements :
                    Values!NodeEqual[<<m.content.elements[i], m.content.elements[i]>>]
               /\ m.content.type = "mapping" =>
                    \A i \in DOMAIN m.content.members : \E j \in DOMAIN m.content.members :
                      /\ m.content.members[i].key = m.content.members[j].key
                      /\ Values!NodeEqual[<<m.content.members[i].child, m.content.members[j].child>>]
  <2>1. <<m, m>> \in Values!Tree \X Values!Tree /\ <<m, m>>[1] = m /\ <<m, m>>[2] = m
    OBVIOUS
  <2>2. Values!NodeEqual[<<m, m>>] = NodeEqualBody(Values!NodeEqual, <<m, m>>)
    BY <2>1, NodeEqualUnfolds
  <2>3. QED
    BY <2>1, <2>2 DEF NodeEqualBody
<1>2. ASSUME NEW l \in Values!Leaf PROVE Values!NodeEqual[<<l, l>>]
  BY <1>1, LeafType DEF Values!Tree
<1>3. CASE n \in Values!Branch
  <2>1. n.content.type = "sequence" => \A i \in DOMAIN n.content.elements :
          Values!NodeEqual[<<n.content.elements[i], n.content.elements[i]>>]
    BY <1>2, <1>3, ChildType
  <2>2. n.content.type = "mapping" => \A i \in DOMAIN n.content.members :
          Values!NodeEqual[<<n.content.members[i].child, n.content.members[i].child>>]
    BY <1>2, <1>3, ChildType
  <2>3. QED
    BY <1>1, <2>1, <2>2
<1>4. QED
  BY <1>2, <1>3 DEF Values!Tree

\* A leaf that becomes JSON and comes back is one with the same values.
LEMMA LeafThroughJson ==
  ASSUME Values!ScalarsAssumption, NEW l, MadeLeaf(l)
  PROVE  /\ Values!ToJson[l] \in Values!JsonLeaf
         /\ Values!FromJson[Values!ToJson[l]] \in Values!Leaf
         /\ Values!TypedTree[Values!FromJson[Values!ToJson[l]]] = Values!TypedTree[l]
<1> DEFINE j == Values!ToJson[l]  b == Values!FromJson[j]
<1>1. l \in Values!Leaf /\ l \in Values!Tree /\ l.content.type # "mapping" /\ l.content.type # "sequence"
  BY LeafType DEF MadeLeaf, Values!Tree
<1>2. j = ToJsonBody(Values!ToJson, l) /\ Values!TypedTree[l] = TypedTreeBody(Values!TypedTree, l)
  BY <1>1, ToJsonUnfolds, TypedTreeUnfolds
<1> HIDE DEF j
<1>3. ASSUME j \in Values!JsonLeaf, Values!ScalarFromJson(j) \in Values!AnyScalar \cup {Values!InitNull}
      PROVE  /\ b \in Values!Leaf /\ b.content = Values!ScalarFromJson(j)
             /\ Values!TypedTree[b] = TypedTreeBody(Values!TypedTree, b)
  <2>1. j \in Values!JsonTree /\ j.kind # "object" /\ j.kind # "array"
    BY <1>3, JsonType DEF Values!JsonTree
  <2>2. b = Values!With({}, Values!ScalarFromJson(j))
    BY <2>1, FromJsonUnfolds DEF FromJsonBody
  <2>3. b \in Values!Leaf /\ b.content = Values!ScalarFromJson(j)
    BY <1>3, <2>2 DEF Values!With, Values!Leaf
  <2>4. QED
    BY <2>3, TypedTreeUnfolds DEF Values!Tree
<1>4. ASSUME NEW n \in Values!Leaf, n.content.type = "scalar"
      PROVE  TypedTreeBody(Values!TypedTree, n) = <<"scalar", Values!Typed(n.content)>>
  BY <1>4 DEF TypedTreeBody
<1> HIDE DEF b
<1>5. CASE l.content = Values!InitNull
  <2>1. l.content.type = "null"
    BY <1>5 DEF Values!InitNull
  <2>2. j = Values!Json("null", Absent)
    BY <1>2, <2>1 DEF ToJsonBody
  <2>3. j \in Values!JsonLeaf /\ Values!ScalarFromJson(j) = Values!InitNull
    BY <2>2 DEF Values!Json, Values!JsonLeaf, Values!ScalarFromJson
  <2>4. b \in Values!Leaf /\ b.content = Values!InitNull /\ Values!TypedTree[b] = TypedTreeBody(Values!TypedTree, b)
    BY <1>3, <2>3
  <2>5. TypedTreeBody(Values!TypedTree, b) = <<"null">> /\ TypedTreeBody(Values!TypedTree, l) = <<"null">>
    BY <1>5, <2>1, <2>4 DEF TypedTreeBody
  <2>6. QED
    BY <1>2, <2>3, <2>4, <2>5 DEF j, b
<1>6. CASE MadeScalar(l.content)
  <2>1. l.content.type = "scalar"
    BY <1>6, MadeType
  <2>2. j = Values!ScalarToJson(l.content)
    BY <1>2, <2>1 DEF ToJsonBody
  <2>3. j \in Values!JsonLeaf /\ Values!ScalarFromJson(j) \in Values!AnyScalar
        /\ Values!Typed(Values!ScalarFromJson(j)) = Values!Typed(l.content)
    BY <1>6, <2>2, JsonKeepsScalar
  <2>4. b \in Values!Leaf /\ b.content = Values!ScalarFromJson(j) /\ Values!TypedTree[b] = TypedTreeBody(Values!TypedTree, b)
    BY <1>3, <2>3
  <2>5. b.content.type = "scalar"
    BY <2>3, <2>4 DEF Values!AnyScalar
  <2>6. Values!TypedTree[b] = <<"scalar", Values!Typed(l.content)>> /\ Values!TypedTree[l] = <<"scalar", Values!Typed(l.content)>>
    BY <1>1, <1>2, <1>4, <2>1, <2>3, <2>4, <2>5
  <2>7. QED
    BY <2>3, <2>4, <2>6 DEF j, b
<1>7. QED
  BY <1>5, <1>6 DEF MadeLeaf

\* So is a tree.
LEMMA TreeThroughJson ==
  ASSUME Values!ScalarsAssumption, NEW n \in Values!Tree, \A l \in LeavesOf(n) : MadeLeaf(l)
  PROVE  Values!TypedTree[Values!FromJson[Values!ToJson[n]]] = Values!TypedTree[n]
<1> DEFINE j == Values!ToJson[n]  b == Values!FromJson[j]
<1>1. j = ToJsonBody(Values!ToJson, n) /\ Values!TypedTree[n] = TypedTreeBody(Values!TypedTree, n)
  BY ToJsonUnfolds, TypedTreeUnfolds
<1>2. CASE n \in Values!Leaf
  BY <1>2, LeafType, LeafThroughJson DEF LeavesOf
<1>3. ASSUME n \in Values!Branch, n.content.type = "mapping" PROVE Values!TypedTree[b] = Values!TypedTree[n]
  <2> DEFINE ms == n.content.members
             js == [i \in DOMAIN ms |-> Values!Pair(ms[i].key, Values!ToJson[ms[i].child])]
             bs == [i \in DOMAIN js |-> Values!Pair(js[i].key, Values!FromJson[js[i].child])]
  <2>1. ms \in Seq([key : Name, child : Values!Leaf]) /\ DOMAIN ms = 1..Len(ms) /\ Len(ms) \in Nat
    BY <1>3, BranchType, LenProperties
  <2>2. ASSUME NEW i \in DOMAIN ms
        PROVE  /\ ms[i].key \in Name
               /\ Values!ToJson[ms[i].child] \in Values!JsonLeaf
               /\ Values!FromJson[Values!ToJson[ms[i].child]] \in Values!Leaf
               /\ Values!TypedTree[Values!FromJson[Values!ToJson[ms[i].child]]] = Values!TypedTree[ms[i].child]
    <3>1. ms[i].child \in LeavesOf(n) /\ ms[i].key \in Name
      BY <1>3, ChildType DEF LeavesOf
    <3>2. QED
      BY <3>1, LeafThroughJson
  <2>3. ASSUME NEW i \in DOMAIN ms
        PROVE  /\ js[i] = Values!Pair(ms[i].key, Values!ToJson[ms[i].child])
               /\ js[i] \in [key : Name, child : Values!JsonLeaf]
               /\ js[i].key = ms[i].key /\ js[i].child = Values!ToJson[ms[i].child]
    BY <2>2 DEF Values!Pair
  <2>4. js \in Seq([key : Name, child : Values!JsonLeaf]) /\ DOMAIN js = DOMAIN ms
    <3>1. js \in [1..Len(ms) -> [key : Name, child : Values!JsonLeaf]]
      BY <2>1, <2>3
    <3>2. QED
      BY <2>1, <3>1, SeqDef
  <2> HIDE DEF ms, js
  <2>5. ASSUME NEW i \in DOMAIN ms
        PROVE  /\ bs[i] = Values!Pair(ms[i].key, Values!FromJson[Values!ToJson[ms[i].child]])
               /\ bs[i] \in [key : Name, child : Values!Leaf]
               /\ bs[i].key = ms[i].key /\ bs[i].child = Values!FromJson[Values!ToJson[ms[i].child]]
    BY <2>2, <2>3, <2>4 DEF Values!Pair
  <2>6. bs \in Seq([key : Name, child : Values!Leaf]) /\ DOMAIN bs = DOMAIN ms
    <3>1. bs \in [1..Len(ms) -> [key : Name, child : Values!Leaf]]
      BY <2>1, <2>4, <2>5
    <3>2. QED
      BY <2>1, <2>4, <3>1, SeqDef
  <2> HIDE DEF bs
  <2>7. j = Values!Json("object", js)
    BY <1>1, <1>3 DEF ToJsonBody, js, ms
  <2>8. j \in Values!JsonTree /\ j.kind = "object" /\ j.of = js
    BY <2>4, <2>7 DEF Values!Json, Values!JsonTree
  <2>9. b = Values!With({}, Values!MappingOf(bs))
    BY <2>8, FromJsonUnfolds DEF FromJsonBody, bs
  <2>10. b \in Values!Branch /\ b.content.type = "mapping" /\ b.content.members = bs
    <3>1. {} \in SUBSET Values!Meta
      OBVIOUS
    <3>2. b \in Values!Branch
      BY <2>6, <2>9, <3>1, MappingMade
    <3>3. QED
      BY <2>9, <3>2 DEF Values!With, Values!MappingOf
  <2> HIDE DEF b, j
  <2>11. Values!TypedTree[b] = [i \in DOMAIN bs |-> <<bs[i].key, Values!TypedTree[bs[i].child]>>]
    BY <2>10, TypedTreeUnfolds DEF TypedTreeBody, Values!Tree
  <2>12. Values!TypedTree[n] = [i \in DOMAIN ms |-> <<ms[i].key, Values!TypedTree[ms[i].child]>>]
    BY <1>1, <1>3 DEF TypedTreeBody, ms
  <2>13. \A i \in DOMAIN ms : /\ bs[i].key = ms[i].key
                             /\ Values!TypedTree[bs[i].child] = Values!TypedTree[ms[i].child]
    BY <2>2, <2>5
  <2>14. QED
    BY <2>6, <2>11, <2>12, <2>13
<1>4. ASSUME n \in Values!Branch, n.content.type = "sequence" PROVE Values!TypedTree[b] = Values!TypedTree[n]
  <2> DEFINE es == n.content.elements
             js == [i \in DOMAIN es |-> Values!ToJson[es[i]]]
             bs == [i \in DOMAIN js |-> Values!FromJson[js[i]]]
  <2>1. es \in Seq(Values!Leaf) /\ DOMAIN es = 1..Len(es) /\ Len(es) \in Nat
    BY <1>4, BranchType, LenProperties
  <2>2. ASSUME NEW i \in DOMAIN es
        PROVE  /\ Values!ToJson[es[i]] \in Values!JsonLeaf
               /\ Values!FromJson[Values!ToJson[es[i]]] \in Values!Leaf
               /\ Values!TypedTree[Values!FromJson[Values!ToJson[es[i]]]] = Values!TypedTree[es[i]]
    <3>1. es[i] \in LeavesOf(n)
      BY <1>4 DEF LeavesOf
    <3>2. QED
      BY <3>1, LeafThroughJson
  <2>3. js \in Seq(Values!JsonLeaf) /\ DOMAIN js = DOMAIN es
    <3>1. js \in [1..Len(es) -> Values!JsonLeaf]
      BY <2>1, <2>2
    <3>2. QED
      BY <2>1, <3>1, SeqDef
  <2>4. \A i \in DOMAIN es : bs[i] = Values!FromJson[Values!ToJson[es[i]]]
    BY <2>3
  <2> HIDE DEF es, js
  <2>5. bs \in Seq(Values!Leaf) /\ DOMAIN bs = DOMAIN es
    <3>1. bs \in [1..Len(es) -> Values!Leaf]
      BY <2>1, <2>2, <2>3, <2>4
    <3>2. QED
      BY <2>1, <2>3, <3>1, SeqDef
  <2> HIDE DEF bs
  <2>6. j = Values!Json("array", js)
    BY <1>1, <1>4 DEF ToJsonBody, js, es
  <2>7. j \in Values!JsonTree /\ j.kind = "array" /\ j.of = js
    BY <2>3, <2>6 DEF Values!Json, Values!JsonTree
  <2>8. b = Values!With({}, Values!SequenceOf(bs))
    BY <2>7, FromJsonUnfolds DEF FromJsonBody, bs
  <2>9. b \in Values!Branch /\ b.content.type = "sequence" /\ b.content.elements = bs
    <3>1. {} \in SUBSET Values!Meta
      OBVIOUS
    <3>2. b \in Values!Branch
      BY <2>5, <2>8, <3>1, SequenceMade
    <3>3. QED
      BY <2>8, <3>2 DEF Values!With, Values!SequenceOf
  <2> HIDE DEF b, j
  <2>10. Values!TypedTree[b] = [i \in DOMAIN bs |-> Values!TypedTree[bs[i]]]
    <3>1. Values!TypedTree[b] = TypedTreeBody(Values!TypedTree, b)
      BY <2>9, TypedTreeUnfolds DEF Values!Tree
    <3>2. TypedTreeBody(Values!TypedTree, b) =
            [i \in DOMAIN b.content.elements |-> Values!TypedTree[b.content.elements[i]]]
      BY <2>9 DEF TypedTreeBody
    <3>3. QED
      BY <2>9, <3>1, <3>2
  <2>11. Values!TypedTree[n] = [i \in DOMAIN es |-> Values!TypedTree[es[i]]]
    BY <1>1, <1>4 DEF TypedTreeBody, es
  <2>12. \A i \in DOMAIN es : Values!TypedTree[bs[i]] = Values!TypedTree[es[i]]
    BY <2>2, <2>4
  <2>13. QED
    BY <2>5, <2>10, <2>11, <2>12
<1>5. QED
  BY <1>2, <1>3, <1>4, BranchType DEF Values!Tree

\* A tree of any number of members and elements keeps its shape and its typed values on
\* its way to JSON and back, whatever doubles and integers are in it, and a copy is the
\* same tree and equals the original (yaml-node.c:355-447, 918-1150).
LEMMA MadeTreesKeepValues ==
  ASSUME Values!ScalarsAssumption, Values!ValuesAssumption
  PROVE  Values!Spec => []Values!ConversionsKeepValues
<1>1. TreeInv => Values!ConversionsKeepValues
  BY TreeThroughJson, CopyIsSame, EqualToItself DEF TreeInv, Values!ConversionsKeepValues
<1>2. QED
  BY <1>1, TreesAreMade, PTL

-----------------------------------------------------------------------------
(* Schemas. *)

\* The schemas that a schema refers to exist.
Refers(c) ==
    /\ DOMAIN c = DOMAIN Schemas!Fresh
    /\ c.element_schema \in Schema \cup {Absent}
    /\ \A k \in DOMAIN c.properties : c.properties[k].schema \in Schema \cup {Absent}

SchemaInv == DOMAIN schema = Schema /\ \A s \in Schema : Refers(schema[s])

\* A simple setter sets neither the properties nor the schema of the elements.
LEMMA SettingsAreSimple ==
  ASSUME NEW field \in DOMAIN Schemas!Settings
  PROVE  field # "properties" /\ field # "element_schema" /\ field \in DOMAIN Schemas!Fresh
BY DEF Schemas!Settings, Schemas!Fresh

\* One schema changes.
LEMMA OneSchemaChanges ==
  ASSUME SchemaInv, NEW s \in Schema, NEW c, Refers(c), schema' = [schema EXCEPT ![s] = c]
  PROVE  SchemaInv'
BY DEF SchemaInv, Refers

\* The calls that describe a schema.
LEMMA SchemaStep ==
  ASSUME Schemas!SchemaAssumption, SchemaInv, Schemas!Next
  PROVE  SchemaInv'
<1> PICK s \in Schema :
      \/ \E field \in DOMAIN Schemas!Settings : \E value \in Schemas!Settings[field] : Schemas!SetField(s, field, value)
      \/ \E form \in {"word", "decimal"} : Schemas!AddEnumValue(s, form)
      \/ \E sub \in Schema : Schemas!SetElementSchema(s, sub)
      \/ \E k \in Name, required \in BOOLEAN :
           \/ \E type \in Schemas!Types : Schemas!AddProperty(s, k, type, required)
           \/ \E sub \in Schema : Schemas!AddPropertyWithSchema(s, k, sub, required)
  BY DEF Schemas!Next
<1> DEFINE c == schema[s]
<1>0. Refers(c)
  BY DEF SchemaInv
<1>1. ASSUME NEW field \in DOMAIN Schemas!Settings, NEW value, Schemas!SetField(s, field, value)
      PROVE  SchemaInv'
  <2> DEFINE new == [c EXCEPT ![field] = value]
  <2>1. schema' = [schema EXCEPT ![s] = new]
    BY <1>1 DEF Schemas!SetField
  <2>2. new.properties = c.properties /\ new.element_schema = c.element_schema
        /\ DOMAIN new = DOMAIN c
    BY <1>0, SettingsAreSimple DEF Refers
  <2>3. Refers(new)
    <3> HIDE DEF new, c
    <3>1. QED
      BY <1>0, <2>2 DEF Refers
  <2> HIDE DEF new
  <2>4. QED
    BY <2>1, <2>3, OneSchemaChanges
<1>2. ASSUME NEW form, Schemas!AddEnumValue(s, form)
      PROVE  SchemaInv'
  <2> DEFINE new == [c EXCEPT !.enum_values = @ \cup {form}]
  <2>1. schema' = [schema EXCEPT ![s] = new]
    BY <1>2 DEF Schemas!AddEnumValue, SchemaInv
  <2>2. Refers(new)
    BY <1>0 DEF Refers
  <2> HIDE DEF new
  <2>3. QED
    BY <2>1, <2>2, OneSchemaChanges
<1>3. ASSUME NEW sub \in Schema, Schemas!SetElementSchema(s, sub)
      PROVE  SchemaInv'
  <2> DEFINE mid == [c EXCEPT !.element_schema = sub]
             new == [mid EXCEPT !.element_type = schema[sub].expected_type]
  <2>1. schema' = [schema EXCEPT ![s] = new]
    BY <1>3 DEF Schemas!SetElementSchema, SchemaInv
  <2>2. Refers(mid)
    BY <1>0 DEF Refers, Schemas!Fresh
  <2>3. Refers(new)
    <3> HIDE DEF mid
    <3>1. QED
      BY <2>2 DEF Refers
  <2> HIDE DEF new
  <2>4. QED
    BY <2>1, <2>3, OneSchemaChanges
<1>4. ASSUME NEW k \in Name, NEW def, def.schema \in Schema \cup {Absent}, Schemas!Define(s, k, def)
      PROVE  SchemaInv'
  <2> DEFINE props == [j \in DOMAIN c.properties \cup {k} |-> IF j = k THEN def ELSE c.properties[j]]
             new == [c EXCEPT !.properties = props]
  <2>1. schema' = [schema EXCEPT ![s] = new]
    BY <1>4 DEF Schemas!Define, SchemaInv
  <2>2. \A j \in DOMAIN props : props[j].schema \in Schema \cup {Absent}
    BY <1>0, <1>4 DEF Refers
  <2>3. Refers(new)
    <3> HIDE DEF props
    <3>1. QED
      BY <1>0, <2>2 DEF Refers, Schemas!Fresh
  <2> HIDE DEF new
  <2>4. QED
    BY <2>1, <2>3, OneSchemaChanges
<1>5. ASSUME NEW k \in Name, NEW type, NEW required, Schemas!AddProperty(s, k, type, required)
      PROVE  SchemaInv'
  BY <1>4, <1>5 DEF Schemas!AddProperty
<1>6. ASSUME NEW k \in Name, NEW sub \in Schema, NEW required, Schemas!AddPropertyWithSchema(s, k, sub, required)
      PROVE  SchemaInv'
  BY <1>4, <1>6 DEF Schemas!AddPropertyWithSchema
<1>7. QED
  BY <1>1, <1>2, <1>3, <1>5, <1>6

\* However schemas are described, those that they refer to exist.
LEMMA SchemasRefer ==
  ASSUME Schemas!SchemaAssumption
  PROVE  Schemas!Spec => []SchemaInv
<1>1. Schemas!Init => SchemaInv
  BY DEF Schemas!Init, SchemaInv, Refers, Schemas!Fresh
<1>2. SchemaInv /\ [Schemas!Next]_(Schemas!vars) => SchemaInv'
  BY SchemaStep DEF Schemas!vars, SchemaInv, Refers
<1>3. QED
  BY <1>1, <1>2, PTL DEF Schemas!Spec

-----------------------------------------------------------------------------
(* The recursion. *)

Body(f, call) == Schemas!ValidateNode(f, schema[call[1]], call[2], call[3])

\* What is below a node, and where.
LEMMA BelowType ==
  ASSUME NEW K, NEW n \in Schemas!Bare \cup Schemas!Filled(K), NEW path \in Schemas!Path
  PROVE  /\ n \in Schemas!Bare => n.type \in {"scalar", "null"}
         /\ n \in Schemas!Filled(K) => n.type \in {"mapping", "sequence"}
         /\ n.type = "mapping" => \A i \in DOMAIN n.members :
              /\ n.members[i].key \in Name /\ n.members[i].child \in K
              /\ Append(path, n.members[i].key) \in Schemas!Path
         /\ n.type = "sequence" => \A i \in DOMAIN n.elements :
              n.elements[i] \in K /\ Append(path, i) \in Schemas!Path
<1>1. n \in Schemas!Bare => n.type \in {"scalar", "null"}
  BY DEF Schemas!Bare, Schemas!AnyScalar, Schemas!InitNull
<1>2. n \in Schemas!Filled(K) => n.type \in {"mapping", "sequence"}
  BY DEF Schemas!Filled
<1>3. \A e \in Name \cup Nat : Append(path, e) \in Schemas!Path
  BY AppendProperties DEF Schemas!Path
<1>4. ASSUME n.type = "mapping", NEW i \in DOMAIN n.members
      PROVE  n.members[i] \in [key : Name, child : K]
  <2>1. n.members \in Seq([key : Name, child : K])
    BY <1>1, <1>4 DEF Schemas!Filled
  <2>2. i \in 1..Len(n.members)
    BY <1>4, <2>1, LenProperties
  <2>3. QED
    BY <2>1, <2>2, ElementOfSeq
<1>5. ASSUME n.type = "sequence", NEW i \in DOMAIN n.elements
      PROVE  n.elements[i] \in K /\ i \in Nat
  <2>1. n.elements \in Seq(K)
    BY <1>1, <1>5 DEF Schemas!Filled
  <2>2. i \in 1..Len(n.elements) /\ Len(n.elements) \in Nat
    BY <1>5, <2>1, LenProperties
  <2>3. QED
    BY <2>1, <2>2, ElementOfSeq
<1>6. QED
  BY <1>1, <1>2, <1>3, <1>4, <1>5

\* They give the same for these nodes.
Agree(f, g, K) == \A x \in Schema \X K \X Schemas!Path : f[x] = g[x]

\* What Validate gives for a node depends on what it gives for what is below.
LEMMA ValidateIsLocal ==
  ASSUME SchemaInv, NEW K, NEW f, NEW g, Agree(f, g, K),
         NEW s \in Schema, NEW n \in Schemas!Bare \cup Schemas!Filled(K), NEW path \in Schemas!Path
  PROVE  Body(f, <<s, n, path>>) = Body(g, <<s, n, path>>)
<1> DEFINE c == schema[s]
<1>1. Refers(c)
  BY DEF SchemaInv
<1>2. ASSUME NEW type, NEW sub \in Schema \cup {Absent}, NEW m \in K, NEW q \in Schemas!Path
      PROVE  Schemas!Nested(f, type, sub, m, q) = Schemas!Nested(g, type, sub, m, q)
  BY DEF Schemas!Nested, Agree
<1>3. CASE n.type = "mapping"
  <2>1. ASSUME NEW i \in DOMAIN n.members
        PROVE  Schemas!ValidateMember(f, c, n.members[i], Append(path, n.members[i].key))
                 = Schemas!ValidateMember(g, c, n.members[i], Append(path, n.members[i].key))
    <3> DEFINE m == n.members[i]
    <3>1. m.child \in K /\ Append(path, m.key) \in Schemas!Path
      BY <1>3, BelowType
    <3>2. m.key \in DOMAIN c.properties => c.properties[m.key].schema \in Schema \cup {Absent}
      BY <1>1 DEF Refers
    <3> HIDE DEF m, c
    <3>3. QED
      BY <1>2, <3>1, <3>2 DEF Schemas!ValidateMember, m
  <2>2. Schemas!ValidateMapping(f, c, n, path) = Schemas!ValidateMapping(g, c, n, path)
    BY <2>1 DEF Schemas!ValidateMapping
  <2>3. QED
    BY <1>3, <2>2 DEF Body, Schemas!ValidateNode
<1>4. CASE n.type = "sequence"
  <2>1. ASSUME NEW i \in DOMAIN n.elements
        PROVE  Schemas!Nested(f, c.element_type, c.element_schema, n.elements[i], Append(path, i))
                 = Schemas!Nested(g, c.element_type, c.element_schema, n.elements[i], Append(path, i))
    <3>1. n.elements[i] \in K /\ Append(path, i) \in Schemas!Path
      BY <1>4, BelowType
    <3>2. c.element_schema \in Schema \cup {Absent}
      BY <1>1 DEF Refers
    <3> HIDE DEF c
    <3>3. QED
      BY <1>2, <3>1, <3>2
  <2>2. Schemas!ValidateSequence(f, c, n, path) = Schemas!ValidateSequence(g, c, n, path)
    BY <2>1 DEF Schemas!ValidateSequence
  <2>3. QED
    BY <1>4, <2>2 DEF Body, Schemas!ValidateNode
<1>5. CASE n.type \in {"scalar", "null"}
  BY <1>5 DEF Body, Schemas!ValidateNode
<1>6. QED
  BY <1>3, <1>4, <1>5, BelowType

\* Validate is what its definition says.
LEMMA ValidateUnfolds ==
  ASSUME SchemaInv
  PROVE  \A x \in Schema \X Schemas!Deep \X Schemas!Path : Schemas!Validate[x] = Body(Schemas!Validate, x)
<1> DEFINE CallsOf(K) == Schema \X K \X Schemas!Path
           F == [x \in CallsOf(Schemas!Deep) |-> Body(<<>>, x)]
           G == [x \in CallsOf(Schemas!Deep) |-> Body(F, x)]
           H == [x \in CallsOf(Schemas!Deep) |-> Body(G, x)]
<1>1. Schemas!Bare \subseteq Schemas!Shallow /\ Schemas!Shallow \subseteq Schemas!Deep
      /\ Schemas!Shallow = Schemas!Bare \cup Schemas!Filled(Schemas!Bare) /\ Schemas!Deep = Schemas!Bare \cup Schemas!Filled(Schemas!Bare) \cup Schemas!Filled(Schemas!Shallow)
  BY DEF Schemas!Shallow, Schemas!Deep
<1>2. Schemas!Filled(Schemas!Bare) \subseteq Schemas!Filled(Schemas!Shallow)
  <2>1. ASSUME NEW S, NEW T, S \subseteq T PROVE Seq(S) \subseteq Seq(T)
    BY <2>1, SeqDef
  <2>2. [key : Name, child : Schemas!Bare] \subseteq [key : Name, child : Schemas!Shallow]
    BY <1>1
  <2>3. Seq([key : Name, child : Schemas!Bare]) \subseteq Seq([key : Name, child : Schemas!Shallow])
    BY <2>1, <2>2
  <2>4. Seq(Schemas!Bare) \subseteq Seq(Schemas!Shallow)
    BY <1>1, <2>1
  <2>5. QED
    BY <2>3, <2>4 DEF Schemas!Filled
<1>3. Schemas!Validate = CHOOSE f : f = [x \in CallsOf(Schemas!Deep) |-> Body(f, x)]
  BY DEF Schemas!Validate, Body
<1>4. ASSUME NEW K, K \subseteq Schemas!Deep, NEW f, NEW g, \A x \in CallsOf(K) : f[x] = g[x],
             NEW N, N \subseteq Schemas!Bare \cup Schemas!Filled(K), NEW x \in CallsOf(N)
      PROVE  Body(f, x) = Body(g, x)
  <2>1. x = <<x[1], x[2], x[3]>> /\ x[1] \in Schema /\ x[2] \in N /\ x[3] \in Schemas!Path
    BY <1>4
  <2>2. x[2] \in Schemas!Bare \cup Schemas!Filled(K)
    BY <1>4, <2>1
  <2>3. Body(f, <<x[1], x[2], x[3]>>) = Body(g, <<x[1], x[2], x[3]>>)
    <3>1. Agree(f, g, K)
      BY <1>4 DEF Agree
    <3> HIDE DEF CallsOf
    <3>2. QED
      BY <2>1, <2>2, <3>1, ValidateIsLocal
  <2>4. QED
    BY <2>1, <2>3
<1>5. \A x \in CallsOf(Schemas!Bare) : Body(<<>>, x) = Body(F, x)
  <2> HIDE DEF F
  <2>1. \A x \in CallsOf({}) : <<>>[x] = F[x]
    OBVIOUS
  <2>2. {} \subseteq Schemas!Deep /\ Schemas!Bare \subseteq Schemas!Bare \cup Schemas!Filled({})
    OBVIOUS
  <2> HIDE DEF CallsOf
  <2>3. QED
    BY <1>4, <2>1, <2>2
<1>6. \A x \in CallsOf(Schemas!Bare) : F[x] = G[x]
  BY <1>1, <1>5
<1>7. \A x \in CallsOf(Schemas!Shallow) : Body(F, x) = Body(G, x)
  <2> HIDE DEF F, G, CallsOf
  <2>1. Schemas!Bare \subseteq Schemas!Deep /\ Schemas!Shallow \subseteq Schemas!Bare \cup Schemas!Filled(Schemas!Bare)
    BY <1>1
  <2>2. QED
    BY <1>4, <1>6, <2>1
<1>8. \A x \in CallsOf(Schemas!Shallow) : G[x] = H[x]
  BY <1>1, <1>7
<1>9. \A x \in CallsOf(Schemas!Deep) : Body(G, x) = Body(H, x)
  <2> HIDE DEF G, H, CallsOf
  <2>1. Schemas!Shallow \subseteq Schemas!Deep /\ Schemas!Deep \subseteq Schemas!Bare \cup Schemas!Filled(Schemas!Shallow)
    BY <1>1, <1>2
  <2>2. QED
    BY <1>4, <1>8, <2>1
<1>10. H = [x \in CallsOf(Schemas!Deep) |-> Body(H, x)]
  BY <1>9
<1> HIDE DEF H
<1>11. Schemas!Validate = [x \in CallsOf(Schemas!Deep) |-> Body(Schemas!Validate, x)]
  BY <1>3, <1>10
<1>12. QED
  BY <1>11

-----------------------------------------------------------------------------
(* What is reported. *)

\* A result is right if it is Valid where nothing is wrong, and otherwise something that
\* is wrong.
Right(results, defects) ==
    /\ Schemas!Valid \notin defects
    /\ defects = {} => results = {Schemas!Valid}
    /\ defects # {} => results # {} /\ results \subseteq defects

\* The first result that is not Valid is right, if each is right and together they tell
\* of all the defects.
LEMMA FirstErrorIsRight ==
  ASSUME NEW n \in Nat, NEW results, DOMAIN results = 1..n, NEW wrong,
         \A i \in 1..n : Right(results[i], wrong[i])
  PROVE  Right(Schemas!FirstError(results), UNION {wrong[i] : i \in 1..n})
<1> DEFINE bad == {i \in 1..n : results[i] # {Schemas!Valid}}
           all == UNION {wrong[i] : i \in 1..n}
<1>1. \A i \in 1..n : Schemas!Valid \notin wrong[i]
  BY DEF Right
<1>2. Schemas!Valid \notin all
  BY <1>1
<1>3. CASE bad = {}
  <2>1. \A i \in 1..n : wrong[i] = {}
    BY <1>3 DEF Right
  <2>2. all = {}
    BY <2>1
  <2>3. Schemas!FirstError(results) = {Schemas!Valid}
    BY <1>3 DEF Schemas!FirstError
  <2>4. QED
    BY <2>2, <2>3 DEF Right
<1>4. CASE bad # {}
  <2> DEFINE first == CHOOSE i \in bad : \A j \in bad : i <= j
  <2>1. \E i \in bad : \A j \in bad : i <= j
    <3>1. bad \in SUBSET Nat
      BY <1>4
    <3>2. QED
      BY <1>4, <3>1, Smallest
  <2>2. first \in bad
    BY <2>1
  <2> HIDE DEF first
  <2>3. Schemas!FirstError(results) = results[first]
    BY <1>4 DEF Schemas!FirstError, first
  <2>4. results[first] # {Schemas!Valid} /\ first \in 1..n /\ Right(results[first], wrong[first])
    BY <2>2
  <2>5. wrong[first] # {} /\ results[first] # {} /\ results[first] \subseteq wrong[first]
    BY <2>4 DEF Right
  <2>6. wrong[first] \subseteq all
    BY <2>4
  <2>7. all # {}
    BY <2>5, <2>6
  <2> HIDE DEF all
  <2>8. Right(Schemas!FirstError(results), all)
    BY <1>2, <2>3, <2>5, <2>6, <2>7 DEF Right
  <2>9. QED
    BY <2>8 DEF all
<1>5. QED
  BY <1>3, <1>4

\* The defects of a place, and of those inside it as E tells.
DefectsWith(E, p) == Schemas!Defects(p) \cup UNION {E[q] : q \in {r \in Schemas!Inside(p) : r.schema # Absent}}

\* Validate is right about these nodes, as E tells.
RightAbout(E, K) ==
    \A s \in Schema, n \in K, path \in Schemas!Path :
      Right(Schemas!Validate[<<s, n, path>>], E[Schemas!Place(s, n, path)])

NestedDefects(E, type, sub, n, at) ==
    (IF n.type # type /\ type # "null" THEN {Schemas!Error("type mismatch", at)} ELSE {}) \cup
    (IF sub = Absent THEN {} ELSE E[Schemas!Place(sub, n, at)])

\* What is found of a member or an element is right.
LEMMA NestedIsRight ==
  ASSUME NEW E, NEW K, RightAbout(E, K), NEW type, NEW sub \in Schema \cup {Absent},
         NEW n \in K, NEW at \in Schemas!Path
  PROVE  Right(Schemas!Nested(Schemas!Validate, type, sub, n, at), NestedDefects(E, type, sub, n, at))
<1> DEFINE mismatch == {Schemas!Error("type mismatch", at)}
           below == IF sub = Absent THEN {} ELSE E[Schemas!Place(sub, n, at)]
           found == IF sub = Absent THEN {Schemas!Valid} ELSE Schemas!Validate[<<sub, n, at>>]
<1>1. Schemas!Valid \notin mismatch
  BY DEF Schemas!Valid, Schemas!Error
<1>2. Right(found, below)
  BY DEF RightAbout, Right
<1>3. CASE n.type # type /\ type # "null"
  <2>1. Schemas!Nested(Schemas!Validate, type, sub, n, at) = mismatch
    BY <1>3 DEF Schemas!Nested
  <2>2. NestedDefects(E, type, sub, n, at) = mismatch \cup below
    BY <1>3 DEF NestedDefects
  <2> HIDE DEF below
  <2>3. QED
    BY <1>1, <1>2, <2>1, <2>2 DEF Right
<1>4. CASE ~(n.type # type /\ type # "null")
  <2>1. Schemas!Nested(Schemas!Validate, type, sub, n, at) = found
    BY <1>4 DEF Schemas!Nested
  <2>2. NestedDefects(E, type, sub, n, at) = below
    BY <1>4 DEF NestedDefects
  <2>3. QED
    BY <1>2, <2>1, <2>2
<1>5. QED
  BY <1>3, <1>4

MemberDefects(E, c, m, at) ==
    IF m.key \in DOMAIN c.properties
      THEN NestedDefects(E, c.properties[m.key].type, c.properties[m.key].schema, m.child, at)
    ELSE IF c.allow_additional THEN {} ELSE {Schemas!Error("constraint violation", at)}

\* The defects of a mapping that lacks nothing are those of its members.
LEMMA DefectsOfMembers ==
  ASSUME NEW E, NEW s \in Schema, NEW n, NEW path, s # Absent, n.type = "mapping",
         n.type = schema[s].expected_type, Schemas!Missing(schema[s], n) = {}
  PROVE  DefectsWith(E, Schemas!Place(s, n, path)) =
           UNION {MemberDefects(E, schema[s], n.members[i], Append(path, n.members[i].key)) :
                    i \in DOMAIN n.members}
<1> DEFINE c == schema[s]  p == Schemas!Place(s, n, path)
           at(m) == Append(path, m.key)
           Wrong(m) == /\ m.child.type # c.properties[m.key].type
                       /\ c.properties[m.key].type # "null"
<1>1. p.schema = s /\ p.node = n /\ p.path = path
  BY DEF Schemas!Place
<1>2. Schemas!Range(n.members) = {n.members[i] : i \in DOMAIN n.members}
  BY DEF Schemas!Range
<1> HIDE DEF p, c
<1>3. Schemas!Defects(p) =
        {Schemas!Error("constraint violation", at(m)) :
           m \in {x \in Schemas!Range(n.members) : ~c.allow_additional /\ x.key \notin DOMAIN c.properties}} \cup
        {Schemas!Error("type mismatch", at(m)) :
           m \in {x \in Schemas!Range(n.members) : x.key \in DOMAIN c.properties /\ Wrong(x)}}
  BY <1>1 DEF Schemas!Defects, c
<1>4. Schemas!Inside(p) = {Schemas!Place(c.properties[m.key].schema, m.child, at(m)) :
                     m \in {x \in Schemas!Range(n.members) : x.key \in DOMAIN c.properties}}
  BY <1>1 DEF Schemas!Inside, c
<1>5. ASSUME NEW i \in DOMAIN n.members, NEW d \in MemberDefects(E, c, n.members[i], at(n.members[i]))
      PROVE  d \in DefectsWith(E, p)
  <2> DEFINE m == n.members[i]
  <2>1. m \in Schemas!Range(n.members)
    BY <1>2
  <2>2. CASE m.key \notin DOMAIN c.properties
    BY <1>3, <1>5, <2>1, <2>2 DEF MemberDefects, DefectsWith
  <2>3. CASE m.key \in DOMAIN c.properties
    <3> DEFINE q == Schemas!Place(c.properties[m.key].schema, m.child, at(m))
    <3>1. q \in Schemas!Inside(p) /\ q.schema = c.properties[m.key].schema
      BY <1>4, <2>1, <2>3 DEF Schemas!Place
    <3>2. d \in NestedDefects(E, c.properties[m.key].type, c.properties[m.key].schema, m.child, at(m))
      BY <1>5, <2>3 DEF MemberDefects
    <3>3. CASE d \in E[q] /\ q.schema # Absent
      <4> HIDE DEF q
      <4>1. QED
        BY <3>1, <3>3 DEF DefectsWith
    <3>4. CASE d = Schemas!Error("type mismatch", at(m)) /\ Wrong(m)
      BY <1>3, <2>1, <2>3, <3>4 DEF DefectsWith
    <3>5. QED
      BY <3>1, <3>2, <3>3, <3>4 DEF NestedDefects
  <2>4. QED
    BY <2>2, <2>3
<1>6. ASSUME NEW d \in DefectsWith(E, p)
      PROVE  \E i \in DOMAIN n.members : d \in MemberDefects(E, c, n.members[i], at(n.members[i]))
  <2>1. CASE d \in Schemas!Defects(p)
    <3>1. PICK m \in Schemas!Range(n.members) :
            \/ /\ ~c.allow_additional /\ m.key \notin DOMAIN c.properties
               /\ d = Schemas!Error("constraint violation", at(m))
            \/ /\ m.key \in DOMAIN c.properties /\ Wrong(m)
               /\ d = Schemas!Error("type mismatch", at(m))
      BY <1>3, <2>1
    <3>2. d \in MemberDefects(E, c, m, at(m))
      BY <3>1 DEF MemberDefects, NestedDefects
    <3>3. QED
      BY <1>2, <3>1, <3>2
  <2>2. ASSUME NEW q \in Schemas!Inside(p), q.schema # Absent, d \in E[q]
        PROVE  \E i \in DOMAIN n.members : d \in MemberDefects(E, c, n.members[i], at(n.members[i]))
    <3>1. PICK i \in DOMAIN n.members :
            /\ n.members[i].key \in DOMAIN c.properties
            /\ q = Schemas!Place(c.properties[n.members[i].key].schema, n.members[i].child, at(n.members[i]))
      BY <1>2, <1>4, <2>2
    <3>2. q.schema = c.properties[n.members[i].key].schema
      BY <3>1 DEF Schemas!Place
    <3>3. QED
      BY <2>2, <3>1, <3>2 DEF MemberDefects, NestedDefects
  <2>3. QED
    BY <1>6, <2>1, <2>2 DEF DefectsWith
<1>7. QED
  BY <1>5, <1>6 DEF p, c

ElementDefects(E, c, n, i, path) ==
    NestedDefects(E, c.element_type, c.element_schema, n.elements[i], Append(path, i))

\* The defects of a sequence that has a length it may have are those of its elements.
LEMMA DefectsOfElements ==
  ASSUME NEW E, NEW s \in Schema, NEW n, NEW path, s # Absent, n.type = "sequence",
         n.type = schema[s].expected_type, Schemas!LengthConforms(schema[s], n)
  PROVE  DefectsWith(E, Schemas!Place(s, n, path)) =
           UNION {ElementDefects(E, schema[s], n, i, path) : i \in DOMAIN n.elements}
<1> DEFINE c == schema[s]  p == Schemas!Place(s, n, path)
           Wrong(i) == n.elements[i].type # c.element_type /\ c.element_type # "null"
           q(i) == Schemas!Place(c.element_schema, n.elements[i], Append(path, i))
<1>1. p.schema = s /\ p.node = n /\ p.path = path
  BY DEF Schemas!Place
<1>2. \A i : q(i).schema = c.element_schema
  BY DEF Schemas!Place
<1> HIDE DEF p, c
<1>3. Schemas!Defects(p) = {Schemas!Error("type mismatch", Append(path, i)) : i \in {j \in DOMAIN n.elements : Wrong(j)}}
  BY <1>1 DEF Schemas!Defects, c
<1>4. Schemas!Inside(p) = {q(i) : i \in DOMAIN n.elements}
  BY <1>1 DEF Schemas!Inside, c
<1> HIDE DEF q
<1>5. \A i \in DOMAIN n.elements :
        ElementDefects(E, c, n, i, path) =
          (IF Wrong(i) THEN {Schemas!Error("type mismatch", Append(path, i))} ELSE {}) \cup
          (IF c.element_schema = Absent THEN {} ELSE E[q(i)])
  BY DEF ElementDefects, NestedDefects, q
<1>6. ASSUME NEW i \in DOMAIN n.elements, NEW d \in ElementDefects(E, c, n, i, path)
      PROVE  d \in DefectsWith(E, p)
  <2>1. CASE Wrong(i) /\ d = Schemas!Error("type mismatch", Append(path, i))
    BY <1>3, <2>1 DEF DefectsWith
  <2>2. CASE c.element_schema # Absent /\ d \in E[q(i)]
    BY <1>2, <1>4, <2>2 DEF DefectsWith
  <2>3. QED
    BY <1>5, <1>6, <2>1, <2>2
<1>7. ASSUME NEW d \in DefectsWith(E, p)
      PROVE  \E i \in DOMAIN n.elements : d \in ElementDefects(E, c, n, i, path)
  <2>1. CASE d \in Schemas!Defects(p)
    <3>1. PICK i \in DOMAIN n.elements : Wrong(i) /\ d = Schemas!Error("type mismatch", Append(path, i))
      BY <1>3, <2>1
    <3>2. QED
      BY <1>5, <3>1
  <2>2. ASSUME NEW r \in Schemas!Inside(p), r.schema # Absent, d \in E[r]
        PROVE  \E i \in DOMAIN n.elements : d \in ElementDefects(E, c, n, i, path)
    <3>1. PICK i \in DOMAIN n.elements : r = q(i)
      BY <1>4, <2>2
    <3>2. c.element_schema # Absent
      BY <1>2, <2>2, <3>1
    <3>3. QED
      BY <1>5, <2>2, <3>1, <3>2
  <2>3. QED
    BY <1>7, <2>1, <2>2 DEF DefectsWith
<1>8. QED
  BY <1>6, <1>7 DEF p, c

\* A place of a schema and one of these nodes.
PlaceOf(q, K) == \E m \in K, at \in Schemas!Path : q.schema \in Schema /\ q = Schemas!Place(q.schema, m, at)

\* What is inside a place that a schema describes.
LEMMA InsideIsBelow ==
  ASSUME SchemaInv, NEW K, NEW s \in Schema, s # Absent, NEW n \in Schemas!Bare \cup Schemas!Filled(K),
         NEW path \in Schemas!Path, NEW q \in Schemas!Inside(Schemas!Place(s, n, path)), q.schema # Absent
  PROVE  PlaceOf(q, K)
<1> DEFINE c == schema[s]  p == Schemas!Place(s, n, path)
<1>1. p.schema = s /\ p.node = n /\ p.path = path
  BY DEF Schemas!Place
<1>2. Refers(c)
  BY DEF SchemaInv
<1> HIDE DEF p
<1>3. CASE n.type = "mapping"
  <2>1. Schemas!Inside(p) \subseteq {Schemas!Place(c.properties[m.key].schema, m.child, Append(path, m.key)) :
                       m \in {x \in Schemas!Range(n.members) : x.key \in DOMAIN c.properties}}
    BY <1>1, <1>3 DEF Schemas!Inside
  <2>2. Schemas!Range(n.members) = {n.members[i] : i \in DOMAIN n.members}
    BY DEF Schemas!Range
  <2>3. PICK i \in DOMAIN n.members :
          /\ n.members[i].key \in DOMAIN c.properties
          /\ q = Schemas!Place(c.properties[n.members[i].key].schema, n.members[i].child,
                       Append(path, n.members[i].key))
    <3> HIDE DEF c
    <3>1. QED
      BY <2>1, <2>2 DEF p
  <2>4. n.members[i].child \in K /\ Append(path, n.members[i].key) \in Schemas!Path
    BY <1>3, BelowType
  <2>5. q.schema = c.properties[n.members[i].key].schema
    BY <2>3 DEF Schemas!Place
  <2>6. q.schema \in Schema
    BY <1>2, <2>3, <2>5 DEF Refers
  <2>7. QED
    BY <2>3, <2>4, <2>5, <2>6 DEF PlaceOf
<1>4. CASE n.type = "sequence"
  <2>1. Schemas!Inside(p) \subseteq {Schemas!Place(c.element_schema, n.elements[i], Append(path, i)) :
                               i \in DOMAIN n.elements}
    BY <1>1, <1>4 DEF Schemas!Inside
  <2>2. PICK i \in DOMAIN n.elements : q = Schemas!Place(c.element_schema, n.elements[i], Append(path, i))
    <3> HIDE DEF c
    <3>1. QED
      BY <2>1 DEF p
  <2>3. n.elements[i] \in K /\ Append(path, i) \in Schemas!Path
    BY <1>4, BelowType
  <2>4. q.schema = c.element_schema
    BY <2>2 DEF Schemas!Place
  <2>5. q.schema \in Schema
    BY <1>2, <2>4 DEF Refers
  <2>6. QED
    BY <2>2, <2>3, <2>4, <2>5 DEF PlaceOf
<1>5. CASE n.type \notin {"mapping", "sequence"}
  <2>1. Schemas!Inside(p) = {}
    BY <1>1, <1>5 DEF Schemas!Inside
  <2>2. QED
    BY <2>1 DEF p
<1>6. QED
  BY <1>3, <1>4, <1>5

\* To be Valid is no defect.
LEMMA ValidIsNoDefect ==
  ASSUME SchemaInv, NEW E, NEW K, RightAbout(E, K), NEW s \in Schema, s # Absent,
         NEW n \in Schemas!Bare \cup Schemas!Filled(K), NEW path \in Schemas!Path
  PROVE  Schemas!Valid \notin DefectsWith(E, Schemas!Place(s, n, path))
<1> DEFINE c == schema[s]  p == Schemas!Place(s, n, path)
<1>1. \A at : /\ Schemas!Error("type mismatch", at) # Schemas!Valid /\ Schemas!Error("constraint violation", at) # Schemas!Valid
              /\ Schemas!Error("missing required", at) # Schemas!Valid
  BY DEF Schemas!Error, Schemas!Valid
<1>2. Schemas!Valid \notin Schemas!Defects(p)
  <2> HIDE DEF p
  <2>1. QED
    BY <1>1 DEF Schemas!Defects
<1>3. ASSUME NEW q \in Schemas!Inside(p), q.schema # Absent
      PROVE  Schemas!Valid \notin E[q]
  <2>1. PICK m \in K, at \in Schemas!Path : q.schema \in Schema /\ q = Schemas!Place(q.schema, m, at)
    <3>1. q \in Schemas!Inside(Schemas!Place(s, n, path)) /\ q.schema # Absent
      BY <1>3
    <3> HIDE DEF p
    <3>2. PlaceOf(q, K)
      BY <3>1, InsideIsBelow
    <3>3. QED
      BY <3>2 DEF PlaceOf
  <2>2. QED
    BY <2>1 DEF RightAbout, Right
<1> HIDE DEF p
<1>4. QED
  BY <1>2, <1>3 DEF DefectsWith, p

\* What is reported of a node is right, if what is reported of those below is.
LEMMA ValidateIsRight ==
  ASSUME Schemas!SchemaAssumption, SchemaInv, NEW E, NEW K, RightAbout(E, K),
         NEW s \in Schema, NEW n \in Schemas!Bare \cup Schemas!Filled(K), n \in Schemas!Deep, NEW path \in Schemas!Path
  PROVE  Right(Schemas!Validate[<<s, n, path>>], DefectsWith(E, Schemas!Place(s, n, path)))
<1> DEFINE c == schema[s]  p == Schemas!Place(s, n, path)
<1>1. p.schema = s /\ p.node = n /\ p.path = path /\ s # Absent
  BY DEF Schemas!Place, Schemas!SchemaAssumption
<1>2. Schemas!Validate[<<s, n, path>>] = Schemas!ValidateNode(Schemas!Validate, c, n, path)
  <2>1. <<s, n, path>> \in Schema \X Schemas!Deep \X Schemas!Path
    OBVIOUS
  <2>2. QED
    BY <2>1, ValidateUnfolds DEF Body
<1>3. Refers(c)
  BY DEF SchemaInv
<1> HIDE DEF p, c
<1>4. CASE n.type # c.expected_type
  <2>1. Schemas!Inside(p) = {}
    BY <1>1, <1>4 DEF Schemas!Inside, c
  <2>2. CASE n.type = "null"
    BY <1>1, <1>2, <1>4, <2>1, <2>2 DEF Schemas!ValidateNode, Schemas!Defects, DefectsWith,
       Right, p
  <2>3. CASE n.type # "null"
    <3>1. Schemas!Defects(p) = {Schemas!Error("type mismatch", path)}
      BY <1>1, <1>4, <2>3 DEF Schemas!Defects, c
    <3>2. DefectsWith(E, p) = {Schemas!Error("type mismatch", path)}
      BY <2>1, <3>1 DEF DefectsWith
    <3>3. Schemas!ValidateNode(Schemas!Validate, c, n, path) = {Schemas!Error("type mismatch", path)}
      BY <1>4, <2>3 DEF Schemas!ValidateNode
    <3>4. QED
      BY <1>2, <3>2, <3>3 DEF Right, Schemas!Valid, Schemas!Error, p
  <2>4. QED
    BY <2>2, <2>3
<1>5. CASE n.type = c.expected_type /\ n.type = "mapping"
  <2> DEFINE at(i) == Append(path, n.members[i].key)
             results == [i \in DOMAIN n.members |-> Schemas!ValidateMember(Schemas!Validate, c, n.members[i], at(i))]
             wrong == [i \in DOMAIN n.members |-> MemberDefects(E, c, n.members[i], at(i))]
  <2>1. Schemas!ValidateNode(Schemas!Validate, c, n, path) = Schemas!ValidateMapping(Schemas!Validate, c, n, path)
    BY <1>5 DEF Schemas!ValidateNode
  <2>2. ASSUME NEW i \in DOMAIN n.members PROVE Right(results[i], wrong[i])
    <3> DEFINE m == n.members[i]
    <3>1. m.child \in K /\ at(i) \in Schemas!Path
      BY <1>5, BelowType
    <3>2. CASE m.key \in DOMAIN c.properties
      <4>1. c.properties[m.key].schema \in Schema \cup {Absent}
        BY <1>3, <3>2 DEF Refers
      <4> HIDE DEF m, at
      <4>2. Right(Schemas!Nested(Schemas!Validate, c.properties[m.key].type, c.properties[m.key].schema, m.child, at(i)),
                  NestedDefects(E, c.properties[m.key].type, c.properties[m.key].schema, m.child, at(i)))
        BY <3>1, <4>1, NestedIsRight
      <4>3. QED
        BY <3>2, <4>2 DEF Schemas!ValidateMember, MemberDefects, m
    <3>3. CASE m.key \notin DOMAIN c.properties
      BY <3>3 DEF Schemas!ValidateMember, MemberDefects, Right, Schemas!Valid, Schemas!Error
    <3>4. QED
      BY <3>2, <3>3
  <2>3. CASE Schemas!Missing(c, n) # {}
    <3> DEFINE missing == {Schemas!Error("missing required", Append(path, k)) : k \in Schemas!Missing(c, n)}
    <3>1. Schemas!Validate[<<s, n, path>>] = missing
      BY <1>2, <2>1, <2>3 DEF Schemas!ValidateMapping
    <3>2. missing # {} /\ missing \subseteq DefectsWith(E, p)
      BY <1>1, <1>5, <2>3 DEF DefectsWith, Schemas!Defects, c
    <3>3. Schemas!Valid \notin DefectsWith(E, p)
      BY <1>1, ValidIsNoDefect DEF p
    <3> HIDE DEF missing
    <3>4. QED
      BY <3>1, <3>2, <3>3 DEF Right, p
  <2>4. CASE Schemas!Missing(c, n) = {}
    <3>1. Schemas!Validate[<<s, n, path>>] = Schemas!FirstError(results)
      BY <1>2, <2>1, <2>4 DEF Schemas!ValidateMapping
    <3>2. DefectsWith(E, p) = UNION {wrong[i] : i \in DOMAIN n.members}
      <4>0. s # Absent /\ n.type = "mapping" /\ n.type = schema[s].expected_type
            /\ Schemas!Missing(schema[s], n) = {}
        BY <1>1, <1>5, <2>4 DEF c
      <4> HIDE DEF at, results, wrong
      <4>1. DefectsWith(E, Schemas!Place(s, n, path)) =
              UNION {MemberDefects(E, schema[s], n.members[i], Append(path, n.members[i].key)) :
                       i \in DOMAIN n.members}
        BY <4>0, DefectsOfMembers
      <4>2. QED
        BY <4>1 DEF p, c, at, wrong
    <3>3. DOMAIN n.members = 1..Len(n.members) /\ Len(n.members) \in Nat
      <4>1. n.members \in Seq([key : Name, child : K])
        BY <1>5, BelowType DEF Schemas!Filled
      <4>2. QED
        BY <4>1, LenProperties
    <3> HIDE DEF results, wrong
    <3>4. DOMAIN results = 1..Len(n.members)
      BY <3>3 DEF results
    <3>5. Right(Schemas!FirstError(results), UNION {wrong[i] : i \in 1..Len(n.members)})
      BY <2>2, <3>3, <3>4, FirstErrorIsRight
    <3>6. QED
      BY <3>1, <3>2, <3>3, <3>5 DEF p
  <2>5. QED
    BY <2>3, <2>4
<1>6. CASE n.type = c.expected_type /\ n.type = "sequence"
  <2> DEFINE results == [i \in DOMAIN n.elements |->
                           Schemas!Nested(Schemas!Validate, c.element_type, c.element_schema, n.elements[i],
                                  Append(path, i))]
             wrong == [i \in DOMAIN n.elements |-> ElementDefects(E, c, n, i, path)]
  <2>1. Schemas!ValidateNode(Schemas!Validate, c, n, path) = Schemas!ValidateSequence(Schemas!Validate, c, n, path)
    BY <1>6 DEF Schemas!ValidateNode
  <2>2. ASSUME NEW i \in DOMAIN n.elements PROVE Right(results[i], wrong[i])
    <3>1. n.elements[i] \in K /\ Append(path, i) \in Schemas!Path
      BY <1>6, BelowType
    <3>2. c.element_schema \in Schema \cup {Absent}
      BY <1>3 DEF Refers
    <3>3. Right(Schemas!Nested(Schemas!Validate, c.element_type, c.element_schema, n.elements[i], Append(path, i)),
                NestedDefects(E, c.element_type, c.element_schema, n.elements[i], Append(path, i)))
      BY <3>1, <3>2, NestedIsRight
    <3>4. QED
      BY <3>3 DEF ElementDefects
  <2>3. CASE ~Schemas!LengthConforms(c, n)
    <3> DEFINE e == Schemas!Error("constraint violation", path)
    <3>1. Schemas!Validate[<<s, n, path>>] = {e}
      BY <1>2, <2>1, <2>3 DEF Schemas!ValidateSequence
    <3>2. e \in Schemas!Defects(p)
      BY <1>1, <1>6, <2>3 DEF Schemas!Defects, c
    <3>3. e \in DefectsWith(E, p)
      BY <3>2 DEF DefectsWith
    <3>4. Schemas!Valid \notin DefectsWith(E, p)
      BY <1>1, ValidIsNoDefect DEF p
    <3> HIDE DEF e
    <3>5. QED
      BY <3>1, <3>3, <3>4 DEF Right, p
  <2>4. CASE Schemas!LengthConforms(c, n)
    <3>1. Schemas!Validate[<<s, n, path>>] = Schemas!FirstError(results)
      BY <1>2, <2>1, <2>4 DEF Schemas!ValidateSequence
    <3>2. DefectsWith(E, p) = UNION {wrong[i] : i \in DOMAIN n.elements}
      <4>0. s # Absent /\ n.type = "sequence" /\ n.type = schema[s].expected_type
            /\ Schemas!LengthConforms(schema[s], n)
        BY <1>1, <1>6, <2>4 DEF c
      <4> HIDE DEF results, wrong
      <4>1. DefectsWith(E, Schemas!Place(s, n, path)) =
              UNION {ElementDefects(E, schema[s], n, i, path) : i \in DOMAIN n.elements}
        BY <4>0, DefectsOfElements
      <4>2. QED
        BY <4>1 DEF p, c, wrong
    <3>3. DOMAIN n.elements = 1..Len(n.elements) /\ Len(n.elements) \in Nat
      <4>1. n.elements \in Seq(K)
        BY <1>6, BelowType DEF Schemas!Filled
      <4>2. QED
        BY <4>1, LenProperties
    <3> HIDE DEF results, wrong
    <3>4. DOMAIN results = 1..Len(n.elements)
      BY <3>3 DEF results
    <3>5. Right(Schemas!FirstError(results), UNION {wrong[i] : i \in 1..Len(n.elements)})
      BY <2>2, <3>3, <3>4, FirstErrorIsRight
    <3>6. QED
      BY <3>1, <3>2, <3>3, <3>5 DEF p
  <2>5. QED
    BY <2>3, <2>4
<1>7. CASE n.type = c.expected_type /\ n.type \in {"scalar", "null"}
  <2>1. Schemas!Inside(p) = {}
    BY <1>1, <1>7 DEF Schemas!Inside, c
  <2>2. DefectsWith(E, p) = IF n.type = "null" \/ Schemas!ScalarConforms(c, n) THEN {}
                            ELSE {Schemas!Error("constraint violation", path)}
    BY <1>1, <1>7, <2>1 DEF Schemas!Defects, DefectsWith, c
  <2>3. Schemas!ValidateNode(Schemas!Validate, c, n, path) =
          IF n.type = "null" \/ Schemas!ScalarConforms(c, n) THEN {Schemas!Valid}
          ELSE {Schemas!Error("constraint violation", path)}
    BY <1>7 DEF Schemas!ValidateNode
  <2>4. CASE n.type = "null" \/ Schemas!ScalarConforms(c, n)
    BY <1>2, <2>2, <2>3, <2>4 DEF Right, p
  <2>5. CASE ~(n.type = "null" \/ Schemas!ScalarConforms(c, n))
    <3>1. /\ DefectsWith(E, p) = {Schemas!Error("constraint violation", path)}
          /\ Schemas!Validate[<<s, n, path>>] = {Schemas!Error("constraint violation", path)}
      BY <1>2, <2>2, <2>3, <2>5
    <3>2. Schemas!Error("constraint violation", path) # Schemas!Valid
      BY DEF Schemas!Error, Schemas!Valid
    <3>3. QED
      BY <3>1, <3>2 DEF Right, p
  <2>6. QED
    BY <2>4, <2>5
<1>8. QED
  BY <1>4, <1>5, <1>6, <1>7, BelowType

-----------------------------------------------------------------------------
(* What is reported of a tree. *)

PlacesOf(K) == {Schemas!Place(s, n, path) : s \in Schema, n \in K, path \in Schemas!Path}

DefectsOfBare    == [q \in PlacesOf(Schemas!Bare) |-> DefectsWith(<<>>, q)]
DefectsOfShallow == [q \in PlacesOf(Schemas!Shallow) |-> DefectsWith(DefectsOfBare, q)]

\* Validate is right about nodes that are no containers, and about those that are if they
\* contain no containers.
LEMMA ValidateIsRightBelow ==
  ASSUME Schemas!SchemaAssumption, SchemaInv
  PROVE  RightAbout(DefectsOfBare, Schemas!Bare) /\ RightAbout(DefectsOfShallow, Schemas!Shallow)
<1>1. Schemas!Bare \subseteq Schemas!Deep /\ Schemas!Shallow \subseteq Schemas!Deep /\ Schemas!Shallow = Schemas!Bare \cup Schemas!Filled(Schemas!Bare)
  BY DEF Schemas!Shallow, Schemas!Deep
<1>2. RightAbout(DefectsOfBare, Schemas!Bare)
  <2>1. RightAbout(<<>>, {})
    BY DEF RightAbout
  <2>2. ASSUME NEW s \in Schema, NEW n \in Schemas!Bare, NEW path \in Schemas!Path
        PROVE  Right(Schemas!Validate[<<s, n, path>>], DefectsOfBare[Schemas!Place(s, n, path)])
    <3>1. n \in Schemas!Bare \cup Schemas!Filled({}) /\ n \in Schemas!Deep
      BY <1>1
    <3>2. Right(Schemas!Validate[<<s, n, path>>], DefectsWith(<<>>, Schemas!Place(s, n, path)))
      BY <2>1, <3>1, ValidateIsRight
    <3>3. Schemas!Place(s, n, path) \in PlacesOf(Schemas!Bare)
      BY DEF PlacesOf
    <3>4. QED
      BY <3>2, <3>3 DEF DefectsOfBare
  <2>3. QED
    BY <2>2 DEF RightAbout
<1>3. ASSUME NEW s \in Schema, NEW n \in Schemas!Shallow, NEW path \in Schemas!Path
      PROVE  Right(Schemas!Validate[<<s, n, path>>], DefectsOfShallow[Schemas!Place(s, n, path)])
  <2>1. n \in Schemas!Bare \cup Schemas!Filled(Schemas!Bare) /\ n \in Schemas!Deep
    BY <1>1
  <2>2. Right(Schemas!Validate[<<s, n, path>>], DefectsWith(DefectsOfBare, Schemas!Place(s, n, path)))
    BY <1>2, <2>1, ValidateIsRight
  <2>3. Schemas!Place(s, n, path) \in PlacesOf(Schemas!Shallow)
    BY DEF PlacesOf
  <2>4. QED
    BY <2>2, <2>3 DEF DefectsOfShallow
<1>4. QED
  BY <1>2, <1>3 DEF RightAbout

\* The defects of a tree are those of its places.
LEMMA DefectsOfTree ==
  ASSUME Schemas!SchemaAssumption, SchemaInv, NEW s \in Schema, NEW n \in Schemas!Bare \cup Schemas!Filled(Schemas!Shallow)
  PROVE  UNION {Schemas!Defects(p) : p \in Schemas!Places(s, n)} = DefectsWith(DefectsOfShallow, Schemas!Place(s, n, <<>>))
<1> DEFINE top == Schemas!Place(s, n, <<>>)
           Described(p) == p.schema # Absent
           middle == {q \in Schemas!Inside(top) : Described(q)}
           bottom == UNION {{r \in Schemas!Inside(q) : Described(r)} : q \in middle}
<1>0. <<>> \in Schemas!Path /\ s # Absent
  BY EmptySeq DEF Schemas!Path, Schemas!SchemaAssumption
<1>1. \A p : ~Described(p) => Schemas!Inside(p) = {}
  BY DEF Schemas!Inside
<1>2. Schemas!Places(s, n) = {top} \cup middle \cup bottom
  <2>1. Described(top)
    BY <1>0 DEF Schemas!Place
  <2>2. Schemas!Places(s, n) = {p \in {top} \cup Schemas!Inside(top) \cup UNION {Schemas!Inside(p) : p \in Schemas!Inside(top)} : Described(p)}
    BY DEF Schemas!Places
  <2> HIDE DEF top
  <2>3. QED
    BY <1>1, <2>1, <2>2
<1>3. ASSUME NEW q \in middle
      PROVE  DefectsOfShallow[q] = DefectsWith(DefectsOfBare, q)
  <2>1. PlaceOf(q, Schemas!Shallow)
    <3>1. q \in Schemas!Inside(top) /\ q.schema # Absent
      OBVIOUS
    <3>2. QED
      BY <1>0, <3>1, InsideIsBelow
  <2>2. q \in PlacesOf(Schemas!Shallow)
    BY <2>1 DEF PlaceOf, PlacesOf
  <2>3. QED
    BY <2>2 DEF DefectsOfShallow
<1>4. ASSUME NEW q \in middle, NEW r \in Schemas!Inside(q), Described(r)
      PROVE  DefectsOfBare[r] = Schemas!Defects(r)
  <2>1. PlaceOf(q, Schemas!Shallow)
    <3>1. q \in Schemas!Inside(top) /\ q.schema # Absent
      OBVIOUS
    <3>2. QED
      BY <1>0, <3>1, InsideIsBelow
  <2>2. PICK m \in Schemas!Shallow, at \in Schemas!Path : q.schema \in Schema /\ q = Schemas!Place(q.schema, m, at)
    BY <2>1 DEF PlaceOf
  <2>3. m \in Schemas!Bare \cup Schemas!Filled(Schemas!Bare) /\ q.schema # Absent
    BY <2>2 DEF Schemas!Shallow, Schemas!SchemaAssumption
  <2>4. PlaceOf(r, Schemas!Bare)
    <3>1. r \in Schemas!Inside(Schemas!Place(q.schema, m, at)) /\ r.schema # Absent
      BY <1>4, <2>2
    <3> HIDE DEF middle
    <3>2. QED
      BY <2>2, <2>3, <3>1, InsideIsBelow
  <2>5. r \in PlacesOf(Schemas!Bare)
    BY <2>4 DEF PlaceOf, PlacesOf
  <2>6. r.node \in Schemas!Bare
    BY <2>4 DEF PlaceOf, Schemas!Place
  <2>7. r.node.type \in {"scalar", "null"}
    BY <2>6 DEF Schemas!Bare, Schemas!AnyScalar, Schemas!InitNull
  <2>8. Schemas!Inside(r) = {}
    BY <2>7 DEF Schemas!Inside
  <2>9. DefectsWith(<<>>, r) = Schemas!Defects(r)
    BY <2>8 DEF DefectsWith
  <2>10. QED
    BY <2>5, <2>9 DEF DefectsOfBare
<1>5. ASSUME NEW q \in middle
      PROVE  DefectsOfShallow[q] = Schemas!Defects(q) \cup UNION {Schemas!Defects(r) : r \in {x \in Schemas!Inside(q) : Described(x)}}
  <2>1. DefectsWith(DefectsOfBare, q) =
          Schemas!Defects(q) \cup UNION {DefectsOfBare[r] : r \in {x \in Schemas!Inside(q) : x.schema # Absent}}
    BY DEF DefectsWith
  <2> HIDE DEF middle
  <2>2. QED
    BY <1>3, <1>4, <2>1
<1>6. DefectsWith(DefectsOfShallow, top) = Schemas!Defects(top) \cup UNION {DefectsOfShallow[q] : q \in middle}
  BY DEF DefectsWith
<1>7. DefectsWith(DefectsOfShallow, top) =
        Schemas!Defects(top) \cup (UNION {Schemas!Defects(q) : q \in middle}) \cup UNION {Schemas!Defects(r) : r \in bottom}
  <2> HIDE DEF middle, top
  <2>1. ASSUME NEW q \in middle, NEW d
        PROVE  d \in DefectsOfShallow[q] <=>
                 d \in Schemas!Defects(q) \/ \E r \in {x \in Schemas!Inside(q) : Described(x)} : d \in Schemas!Defects(r)
    BY <1>5
  <2>2. \A r : r \in bottom <=> \E q \in middle : r \in {x \in Schemas!Inside(q) : Described(x)}
    OBVIOUS
  <2> HIDE DEF Described, bottom
  <2>3. ASSUME NEW d
        PROVE  d \in DefectsWith(DefectsOfShallow, top) <=>
                 \/ d \in Schemas!Defects(top)
                 \/ \E q \in middle : d \in Schemas!Defects(q)
                 \/ \E r \in bottom : d \in Schemas!Defects(r)
    <3>1. d \in DefectsWith(DefectsOfShallow, top) <=>
            d \in Schemas!Defects(top) \/ \E q \in middle : d \in DefectsOfShallow[q]
      BY <1>6
    <3>2. (\E q \in middle : d \in DefectsOfShallow[q]) <=>
            \E q \in middle :
              d \in Schemas!Defects(q) \/ \E r \in {x \in Schemas!Inside(q) : Described(x)} : d \in Schemas!Defects(r)
      BY <2>1
    <3>3. (\E r \in bottom : d \in Schemas!Defects(r)) <=>
            \E q \in middle : \E r \in {x \in Schemas!Inside(q) : Described(x)} : d \in Schemas!Defects(r)
      BY <2>2
    <3>4. QED
      BY <3>1, <3>2, <3>3
  <2> DEFINE A == DefectsWith(DefectsOfShallow, top)
             B == UNION {Schemas!Defects(q) : q \in middle}
             C == UNION {Schemas!Defects(r) : r \in bottom}
  <2>4. \A d : (d \in B <=> \E q \in middle : d \in Schemas!Defects(q)) /\ (d \in C <=> \E r \in bottom : d \in Schemas!Defects(r))
    OBVIOUS
  <2> HIDE DEF A, B, C
  <2>5. \A d : d \in A <=> d \in Schemas!Defects(top) \cup B \cup C
    BY <2>3, <2>4 DEF A
  <2>6. A = Schemas!Defects(top) \cup B \cup C
    BY <2>5
  <2>7. QED
    BY <2>6 DEF A, B, C
<1>8. QED
  <2> HIDE DEF middle, bottom, top
  <2>1. UNION {Schemas!Defects(p) : p \in {top} \cup middle \cup bottom} =
          Schemas!Defects(top) \cup (UNION {Schemas!Defects(q) : q \in middle}) \cup UNION {Schemas!Defects(r) : r \in bottom}
    <3>1. ASSUME NEW d
          PROVE  (\E p \in {top} \cup middle \cup bottom : d \in Schemas!Defects(p)) <=>
                   \/ d \in Schemas!Defects(top)
                   \/ \E q \in middle : d \in Schemas!Defects(q)
                   \/ \E r \in bottom : d \in Schemas!Defects(r)
      OBVIOUS
    <3> DEFINE A == UNION {Schemas!Defects(p) : p \in {top} \cup middle \cup bottom}
               B == UNION {Schemas!Defects(q) : q \in middle}
               C == UNION {Schemas!Defects(r) : r \in bottom}
    <3>2. \A d : /\ d \in A <=> \E p \in {top} \cup middle \cup bottom : d \in Schemas!Defects(p)
                 /\ d \in B <=> \E q \in middle : d \in Schemas!Defects(q)
                 /\ d \in C <=> \E r \in bottom : d \in Schemas!Defects(r)
      OBVIOUS
    <3> HIDE DEF A, B, C
    <3>3. \A d : d \in A <=> d \in Schemas!Defects(top) \cup B \cup C
      BY <3>1, <3>2
    <3>4. A = Schemas!Defects(top) \cup B \cup C
      BY <3>3
    <3>5. QED
      BY <3>4 DEF A, B, C
  <2>2. QED
    BY <1>2, <1>7, <2>1 DEF top

\* The trees are of the nodes that Validate is told of.
LEMMA TreesAreDeep ==
  ASSUME Schemas!ScalarsAssumption
  PROVE  Schemas!Trees \subseteq Schemas!Bare \cup Schemas!Filled(Schemas!Shallow)
<1> DEFINE Child == Schemas!Leaves \cup Schemas!Containers
<1>1. Schemas!Leaves \subseteq Schemas!Bare
  <2>1. Schemas!InitInt(0) \in Schemas!AnyScalar
    <3>1. Schemas!ToDouble(0) \in Int
      BY DEF Schemas!ToDouble, Schemas!Magnitude
    <3>2. [Schemas!NoCache EXCEPT !.int = 0, !.double = Schemas!ToDouble(0)]
            = [boolean |-> Absent, int |-> 0, double |-> Schemas!ToDouble(0)]
      <4> DEFINE r == [boolean |-> Absent, int |-> 0, double |-> Absent]
      <4>1. [Schemas!NoCache EXCEPT !.int = 0] = r
        BY DEF Schemas!NoCache
      <4>2. [Schemas!NoCache EXCEPT !.int = 0, !.double = Schemas!ToDouble(0)] = [r EXCEPT !.double = Schemas!ToDouble(0)]
        BY <4>1
      <4>3. QED
        BY <4>2
    <3> DEFINE cache == [boolean |-> Absent, int |-> 0, double |-> Schemas!ToDouble(0)]
    <3>3. cache \in [boolean : BOOLEAN \cup {Absent}, int : Int \cup {Absent}, double : Int \cup {Absent}]
      BY <3>1
    <3>4. Schemas!Text("decimal", 0) \in Schemas!AnyText /\ "plain" \in Schemas!Style
      BY DEF Schemas!AnyText, Schemas!Text, Schemas!Form, Schemas!Style
    <3> HIDE DEF cache
    <3>5. Schemas!Scalar(Schemas!Text("decimal", 0), "plain", cache) \in Schemas!AnyScalar
      BY <3>3, <3>4 DEF Schemas!Scalar, Schemas!AnyScalar
    <3>6. QED
      BY <3>2, <3>5 DEF Schemas!InitInt, cache
  <2>2. Schemas!InitString(Schemas!Text("word", 0)) \in Schemas!AnyScalar
    <3>1. Schemas!Parsed(Schemas!Text("word", 0)) = [Schemas!NoCache EXCEPT !.double = Absent]
      BY DEF Schemas!Parsed, Schemas!IsCoreInt, Schemas!WholeDouble, Schemas!Text
    <3>2. QED
      BY <3>1 DEF Schemas!InitString, Schemas!Scalar, Schemas!AnyScalar, Schemas!AnyText,
         Schemas!Text, Schemas!Form, Schemas!Style, Schemas!NoCache
  <2>3. QED
    BY <2>1, <2>2 DEF Schemas!Leaves, Schemas!Bare
<1>2. ASSUME NEW S, NEW x \in S, NEW k \in Name
      PROVE  /\ Schemas!MappingOf(<<Schemas!Pair(k, x)>>) \in Schemas!Filled(S)
             /\ \A l \in Name, y \in S : Schemas!MappingOf(<<Schemas!Pair(k, x), Schemas!Pair(l, y)>>) \in Schemas!Filled(S)
  <2>1. \A l \in Name, y \in S : Schemas!Pair(l, y) \in [key : Name, child : S]
    BY DEF Schemas!Pair
  <2>2. /\ <<Schemas!Pair(k, x)>> \in Seq([key : Name, child : S])
        /\ \A l \in Name, y \in S : <<Schemas!Pair(k, x), Schemas!Pair(l, y)>> \in Seq([key : Name, child : S])
    BY <2>1
  <2>3. \A z \in Seq([key : Name, child : S]) : Schemas!MappingOf(z) \in Schemas!Filled(S)
    BY DEF Schemas!Filled, Schemas!MappingOf
  <2>4. QED
    BY <2>2, <2>3
<1>3. ASSUME NEW S, NEW x \in S
      PROVE  Schemas!SequenceOf(<<x>>) \in Schemas!Filled(S) /\ \A y \in S : Schemas!SequenceOf(<<x, y>>) \in Schemas!Filled(S)
  <2>1. <<x>> \in Seq(S) /\ \A y \in S : <<x, y>> \in Seq(S)
    OBVIOUS
  <2>2. \A z \in Seq(S) : Schemas!SequenceOf(z) \in Schemas!Filled(S)
    BY DEF Schemas!Filled, Schemas!SequenceOf
  <2>3. QED
    BY <2>1, <2>2
<1>4. ASSUME NEW S, Schemas!Leaves \subseteq S PROVE Schemas!Containers \subseteq Schemas!Filled(S)
  <2>1. \A k \in Name, x \in Schemas!Leaves : Schemas!MappingOf(<<Schemas!Pair(k, x)>>) \in Schemas!Filled(S)
    BY <1>2, <1>4
  <2>2. \A x \in Schemas!Leaves : Schemas!SequenceOf(<<x>>) \in Schemas!Filled(S)
    BY <1>3, <1>4
  <2> DEFINE F(k, x) == Schemas!MappingOf(<<Schemas!Pair(k, x)>>)
             M == {F(k, x) : k \in Name, x \in Schemas!Leaves}
             E == {Schemas!SequenceOf(<<x>>) : x \in Schemas!Leaves}
  <2>3. M \subseteq Schemas!Filled(S) /\ E \subseteq Schemas!Filled(S)
    <3>1. ASSUME NEW e \in M PROVE e \in Schemas!Filled(S)
      <4> HIDE DEF F
      <4>1. PICK k \in Name, x \in Schemas!Leaves : e = F(k, x)
        BY <3>1
      <4>2. QED
        BY <2>1, <4>1 DEF F
    <3>2. ASSUME NEW e \in E PROVE e \in Schemas!Filled(S)
      BY <2>2, <3>2
    <3>3. QED
      BY <3>1, <3>2
  <2>4. Schemas!Containers = M \cup E
    BY DEF Schemas!Containers
  <2>5. QED
    BY <2>3, <2>4
<1>5. Child \subseteq Schemas!Shallow /\ Schemas!InitInt(0) \in Schemas!Shallow
  <2>1. Schemas!Leaves \subseteq Schemas!Shallow /\ Schemas!InitInt(0) \in Schemas!Leaves
    BY <1>1 DEF Schemas!Shallow, Schemas!Leaves
  <2>2. Schemas!Containers \subseteq Schemas!Shallow
    BY <1>1, <1>4 DEF Schemas!Shallow
  <2>3. QED
    BY <2>1, <2>2
<1>6. Schemas!Containers \subseteq Schemas!Filled(Schemas!Shallow)
  BY <1>4, <1>5
<1> HIDE DEF Child
<1>7. {Schemas!MappingOf(<<Schemas!Pair(p[1], Schemas!InitInt(0)), Schemas!Pair(p[2], y)>>) :
         p \in {q \in Name \X Name : q[1] # q[2]}, y \in Child} \subseteq Schemas!Filled(Schemas!Shallow)
  <2> DEFINE F(p, y) == Schemas!MappingOf(<<Schemas!Pair(p[1], Schemas!InitInt(0)), Schemas!Pair(p[2], y)>>)
             M == {F(p, y) : p \in {q \in Name \X Name : q[1] # q[2]}, y \in Child}
  <2>1. \A k \in Name, l \in Name, y \in Child :
          Schemas!MappingOf(<<Schemas!Pair(k, Schemas!InitInt(0)), Schemas!Pair(l, y)>>) \in Schemas!Filled(Schemas!Shallow)
    BY <1>2, <1>5
  <2>2. \A p \in Name \X Name : p[1] \in Name /\ p[2] \in Name
    OBVIOUS
  <2>3. ASSUME NEW e \in M PROVE e \in Schemas!Filled(Schemas!Shallow)
    <3> HIDE DEF F
    <3>1. PICK p \in {q \in Name \X Name : q[1] # q[2]}, y \in Child : e = F(p, y)
      BY <2>3
    <3>2. QED
      BY <2>1, <2>2, <3>1 DEF F
  <2>4. QED
    BY <2>3
<1>8. {Schemas!SequenceOf(<<Schemas!InitInt(0), y>>) : y \in Child} \subseteq Schemas!Filled(Schemas!Shallow)
  BY <1>3, <1>5
<1>9. Schemas!MappingOf(<<>>) \in Schemas!Filled(Schemas!Shallow) /\ Schemas!SequenceOf(<<>>) \in Schemas!Filled(Schemas!Shallow)
  BY EmptySeq DEF Schemas!Filled, Schemas!MappingOf, Schemas!SequenceOf
<1> DEFINE A == {Schemas!SequenceOf(<<Schemas!InitInt(0), y>>) : y \in Child}
           B == {Schemas!MappingOf(<<Schemas!Pair(p[1], Schemas!InitInt(0)), Schemas!Pair(p[2], y)>>) :
                   p \in {q \in Name \X Name : q[1] # q[2]}, y \in Child}
<1>10. Schemas!Trees = Schemas!Leaves \cup Schemas!Containers \cup {Schemas!MappingOf(<<>>), Schemas!SequenceOf(<<>>)} \cup A \cup B
  BY DEF Schemas!Trees, Child
<1> HIDE DEF A, B
<1>11. A \subseteq Schemas!Filled(Schemas!Shallow) /\ B \subseteq Schemas!Filled(Schemas!Shallow)
  BY <1>7, <1>8 DEF A, B
<1>12. QED
  BY <1>1, <1>6, <1>9, <1>10, <1>11

\* A tree is accepted if nothing in it is wrong, and otherwise what is reported is wrong.
LEMMA ReportsWhatIsWrong ==
  ASSUME Schemas!ScalarsAssumption, Schemas!SchemaAssumption, SchemaInv
  PROVE  Schemas!ReportsDefects
<1> SUFFICES ASSUME NEW t \in Schemas!Trees
             PROVE  LET defects == UNION {Schemas!Defects(p) : p \in Schemas!Places(Root, t)}
                        results == Schemas!Validate[<<Root, t, <<>> >>] IN
                    IF defects = {} THEN results = {Schemas!Valid}
                    ELSE results # {} /\ results \subseteq defects
  BY DEF Schemas!ReportsDefects
<1>1. Root \in Schema /\ t \in Schemas!Bare \cup Schemas!Filled(Schemas!Shallow) /\ <<>> \in Schemas!Path
  BY TreesAreDeep, EmptySeq DEF Schemas!SchemaAssumption, Schemas!Path
<1>2. t \in Schemas!Deep
  BY <1>1 DEF Schemas!Deep, Schemas!Shallow
<1>3. RightAbout(DefectsOfShallow, Schemas!Shallow)
  BY ValidateIsRightBelow
<1>4. Right(Schemas!Validate[<<Root, t, <<>> >>], DefectsWith(DefectsOfShallow, Schemas!Place(Root, t, <<>>)))
  BY <1>1, <1>2, <1>3, ValidateIsRight
<1>5. UNION {Schemas!Defects(p) : p \in Schemas!Places(Root, t)} = DefectsWith(DefectsOfShallow, Schemas!Place(Root, t, <<>>))
  BY <1>1, DefectsOfTree
<1>6. QED
  BY <1>4, <1>5 DEF Right

\* However schemas are described, and whatever schemas use each other or themselves: a
\* tree is accepted if nothing in it is wrong, and otherwise what is reported is wrong
\* and is where the path says (yaml-schema.c:458-870).
LEMMA SchemasReportDefects ==
  ASSUME Schemas!ScalarsAssumption, Schemas!SchemaAssumption
  PROVE  Schemas!Spec => []Schemas!ReportsDefects
<1>1. SchemaInv => Schemas!ReportsDefects
  BY ReportsWhatIsWrong
<1>2. QED
  BY <1>1, SchemasRefer, PTL

-----------------------------------------------------------------------------
(* Objects. *)

\* An instance counts as the rest does.
LEMMA SameCounts ==
  /\ \A S : Objects!Cardinality(S) = Cardinality(S)
  /\ \A S : Objects!Range(S) = Range(S)
<1>1. \A S : Objects!Cardinality(S) = Cardinality(S)
  BY DEF Objects!Cardinality, Cardinality
<1>2. QED
  BY <1>1 DEF Objects!Range, Range

\* How many of these places are not behind this one.
Rank(places, i) == Cardinality({j \in places : j <= i})

\* Every number up to how many places there are is the rank of one place.
LEMMA RanksAreUnique ==
  ASSUME NEW n \in Nat, NEW places \in SUBSET (1..n)
  PROVE  /\ Cardinality(places) \in Nat
         /\ \A i \in places : Rank(places, i) \in 1..Cardinality(places)
         /\ \A i, j \in places : Rank(places, i) = Rank(places, j) => i = j
         /\ \A k \in 1..Cardinality(places) : \E i \in places : Rank(places, i) = k
<1> DEFINE upTo(i) == {x \in places : x <= i}
           f == [i \in places |-> Rank(places, i)]
           T == 1..Cardinality(places)
<1>1. IsFiniteSet(1..n)
  BY FS_Interval
<1>2. IsFiniteSet(places) /\ Cardinality(places) \in Nat
  BY <1>1, FS_Subset, FS_CardinalityType
<1>3. ASSUME NEW i \in places
      PROVE  IsFiniteSet(upTo(i)) /\ Rank(places, i) \in T
  <2>1. upTo(i) \in SUBSET places /\ i \in upTo(i)
    OBVIOUS
  <2> DEFINE U == upTo(i)
  <2> HIDE DEF U
  <2>2. U \in SUBSET places /\ U # {}
    BY <2>1 DEF U
  <2>3. IsFiniteSet(U) /\ Cardinality(U) <= Cardinality(places) /\ Cardinality(U) \in Nat
    BY <1>2, <2>2, FS_Subset, FS_CardinalityType
  <2>4. Cardinality(U) # 0
    BY <2>2, <2>3, FS_EmptySet
  <2>5. Cardinality(U) \in T
    BY <1>2, <2>3, <2>4
  <2>6. QED
    BY <2>3, <2>5 DEF U, Rank
<1>4. ASSUME NEW i \in places, NEW j \in places, i < j
      PROVE  Rank(places, i) # Rank(places, j)
  <2> DEFINE U == upTo(i)  V == upTo(j)
  <2>1. U \in SUBSET V /\ j \in V /\ j \notin U
    <3>1. \A y \in places : y \in Int
      OBVIOUS
    <3>2. i \in Int /\ j \in Int /\ ~(j <= i) /\ j <= j
      BY <1>4, <3>1
    <3>3. \A y \in places : y <= i => y <= j
      BY <1>4, <3>1, <3>2
    <3>4. QED
      BY <3>2, <3>3
  <2>2. IsFiniteSet(V)
    BY <1>3
  <2>3. Rank(places, i) = Cardinality(U) /\ Rank(places, j) = Cardinality(V)
    BY DEF Rank
  <2> HIDE DEF U, V
  <2>4. QED
    BY <2>1, <2>2, <2>3, FS_Subset
<1>5. \A i, j \in places : Rank(places, i) = Rank(places, j) => i = j
  BY <1>4
<1>6. f \in Injection(places, T)
  BY <1>3, <1>5 DEF Injection, IsInjective
<1>7. IsFiniteSet(T) /\ Cardinality(T) = Cardinality(places)
  BY <1>2, FS_Interval
<1>8. f \in Surjection(places, T)
  <2> HIDE DEF f, T
  <2>1. QED
    BY <1>6, <1>7, FS_Injection
<1>9. QED
  BY <1>2, <1>3, <1>5, <1>8 DEF Surjection

\* Whether these are elements of the sequence at the places, and all of those.
TakenFrom(c, s, places) == \A k \in DOMAIN c : \E i \in places : c[k] = s[i]
AllTaken(c, s, places)  == \A i \in places : \E k \in DOMAIN c : c[k] = s[i]

\* What is chosen of a sequence: all that is at the places, and all of it if they are all.
LEMMA ChosenElements ==
  ASSUME NEW n \in Nat, NEW places \in SUBSET (1..n), NEW s
  PROVE  /\ \E m \in Nat : DOMAIN Objects!Chosen(s, places) = 1..m
         /\ TakenFrom(Objects!Chosen(s, places), s, places) /\ AllTaken(Objects!Chosen(s, places), s, places)
         /\ places = 1..n => /\ DOMAIN Objects!Chosen(s, places) = 1..n
                            /\ \A i \in 1..n : Objects!Chosen(s, places)[i] = s[i]
<1> DEFINE m == Cardinality(places)
           at(k) == CHOOSE i \in places : Rank(places, i) = k
<1>1. Objects!Chosen(s, places) = [k \in 1..m |-> s[at(k)]]
  <2> DEFINE objectsAt(k) == CHOOSE i \in places : Objects!Cardinality({j \in places : j <= i}) = k
  <2>1. \A i : Objects!Cardinality({j \in places : j <= i}) = Rank(places, i)
    BY SameCounts DEF Rank
  <2>2. \A k : objectsAt(k) = at(k)
    BY <2>1
  <2>3. Objects!Chosen(s, places) = [k \in 1..Objects!Cardinality(places) |-> s[objectsAt(k)]]
    BY DEF Objects!Chosen
  <2>4. Objects!Cardinality(places) = m
    BY SameCounts
  <2> HIDE DEF m, at, objectsAt
  <2>5. QED
    BY <2>2, <2>3, <2>4
<1>2. m \in Nat /\ \A k \in 1..m : at(k) \in places /\ Rank(places, at(k)) = k
  BY RanksAreUnique
<1>3. \A i \in places : Rank(places, i) \in 1..m /\ at(Rank(places, i)) = i
  BY <1>2, RanksAreUnique
<1>4. ASSUME places = 1..n PROVE m = n /\ \A i \in 1..n : at(i) = i
  <2>1. IsFiniteSet(1..n) /\ Cardinality(1..n) = n
    BY FS_Interval
  <2>2. ASSUME NEW i \in 1..n PROVE Rank(places, i) = i
    <3>1. {j \in places : j <= i} = 1..i
      BY <1>4
    <3>2. Cardinality(1..i) = i
      BY FS_Interval
    <3>3. QED
      BY <3>1, <3>2 DEF Rank
  <2>3. m = n
    BY <1>4, <2>1
  <2> HIDE DEF m, at
  <2>4. QED
    BY <1>3, <1>4, <2>2, <2>3
<1> HIDE DEF m, at
<1>5. ASSUME places = 1..n
      PROVE  DOMAIN Objects!Chosen(s, places) = 1..n /\ \A i \in 1..n : Objects!Chosen(s, places)[i] = s[i]
  BY <1>1, <1>4, <1>5
<1>6. /\ \E m1 \in Nat : DOMAIN Objects!Chosen(s, places) = 1..m1
      /\ TakenFrom(Objects!Chosen(s, places), s, places) /\ AllTaken(Objects!Chosen(s, places), s, places)
  BY <1>1, <1>2, <1>3 DEF TakenFrom, AllTaken
<1>7. QED
  BY <1>5, <1>6

\* All of a sequence.
LEMMA AllChosen ==
  ASSUME NEW n \in Nat, NEW s
  PROVE  DOMAIN Objects!Chosen(s, 1..n) = 1..n /\ \A i \in 1..n : Objects!Chosen(s, 1..n)[i] = s[i]
<1> DEFINE all == 1..n
<1>1. all \in SUBSET (1..n) /\ all = 1..n
  OBVIOUS
<1> HIDE DEF all
<1>2. DOMAIN Objects!Chosen(s, all) = 1..n /\ \A i \in 1..n : Objects!Chosen(s, all)[i] = s[i]
  BY <1>1, ChosenElements
<1>3. QED
  BY <1>1, <1>2

-----------------------------------------------------------------------------
(* Scalars. *)

\* Scalars are made, printed and read as values are.
LEMMA SameScalars ==
  /\ \A t : Objects!InitString(t) = Values!InitString(t)
  /\ \A n : Objects!InitInt(n) = Values!InitInt(n)
  /\ \A d : Objects!InitDouble(d) = Values!InitDouble(d) /\ Objects!PrintedDouble(d) = Values!PrintedDouble(d)
  /\ \A b : Objects!InitBoolean(b) = Values!InitBoolean(b)
  /\ \A n : /\ Objects!GetInt(n) = Values!GetInt(n) /\ Objects!GetDouble(n) = Values!GetDouble(n)
            /\ Objects!GetBoolean(n) = Values!GetBoolean(n)
<1>1. /\ \A n : Objects!ToDouble(n) = Values!ToDouble(n)
      /\ \A f, v : Objects!Text(f, v) = Values!Text(f, v)
      /\ \A n : Objects!Magnitude(n) = Values!Magnitude(n)
      /\ Objects!NoCache = Values!NoCache /\ Objects!IntMin = Values!IntMin /\ Objects!IntMax = Values!IntMax
  BY DEF Objects!ToDouble, Values!ToDouble, Objects!Text, Values!Text, Objects!Magnitude,
     Values!Magnitude, Objects!NoCache, Values!NoCache, Objects!IntMin, Values!IntMin,
     Objects!IntMax, Values!IntMax
<1>2. \A t : Objects!IsCoreInt(t) = Values!IsCoreInt(t)
  BY <1>1 DEF Objects!IsCoreInt, Values!IsCoreInt
<1>3. \A t : Objects!WholeDouble(t) = Values!WholeDouble(t)
  BY <1>1 DEF Objects!WholeDouble, Values!WholeDouble
<1>4. \A t : Objects!Parsed(t) = Values!Parsed(t)
  BY <1>1, <1>2, <1>3 DEF Objects!Parsed, Values!Parsed
<1>5. \A d : Objects!PrintedDouble(d) = Values!PrintedDouble(d)
  BY <1>1 DEF Objects!PrintedDouble, Values!PrintedDouble
<1>6. \A t, s, c : Objects!Scalar(t, s, c) = Values!Scalar(t, s, c)
  BY DEF Objects!Scalar, Values!Scalar
<1>7. \A t : Objects!LeadingInt(t) = Values!LeadingInt(t)
  <2>1. \A d : Objects!Truncated(d) = Values!Truncated(d)
    BY <1>1 DEF Objects!Truncated, Values!Truncated
  <2>2. QED
    BY <1>1, <2>1 DEF Objects!LeadingInt, Values!LeadingInt
<1>8. \A n : Objects!IsScalar(n) = Values!IsScalar(n)
  BY DEF Objects!IsScalar, Values!IsScalar
<1>9. \A n : Objects!GetInt(n) = Values!GetInt(n)
  BY <1>2, <1>7, <1>8 DEF Objects!GetInt, Values!GetInt
<1>10. \A n : Objects!GetDouble(n) = Values!GetDouble(n)
  BY <1>1, <1>3, <1>7, <1>8 DEF Objects!GetDouble, Values!GetDouble
<1>11. \A n : Objects!GetBoolean(n) = Values!GetBoolean(n)
  BY <1>8 DEF Objects!GetBoolean, Values!GetBoolean
<1>12. /\ \A t : Objects!InitString(t) = Values!InitString(t)
       /\ \A n : Objects!InitInt(n) = Values!InitInt(n)
       /\ \A d : Objects!InitDouble(d) = Values!InitDouble(d)
       /\ \A b : Objects!InitBoolean(b) = Values!InitBoolean(b)
  BY <1>1, <1>4, <1>5, <1>6 DEF Objects!InitString, Values!InitString, Objects!InitInt,
     Values!InitInt, Objects!InitDouble, Values!InitDouble, Objects!InitBoolean,
     Values!InitBoolean
<1>13. QED
  BY <1>5, <1>9, <1>10, <1>11, <1>12

\* Numbers that wrap around.
LEMMA Wrapped ==
  ASSUME NEW h \in Nat, h > 0
  PROVE  /\ \A n \in Int : n % (2 * h) \in 0..(2 * h - 1)
         /\ \A n \in 0..(2 * h - 1) : n % (2 * h) = n
         /\ \A n \in (-h)..(-1) : n % (2 * h) = n + 2 * h
<1>1. ASSUME NEW n \in Int PROVE n % (2 * h) \in 0..(2 * h - 1)
  OBVIOUS
<1>2. ASSUME NEW n \in 0..(2 * h - 1) PROVE n % (2 * h) = n
  OBVIOUS
<1>3. ASSUME NEW n \in (-h)..(-1) PROVE n % (2 * h) = n + 2 * h
  OBVIOUS
<1>4. QED
  BY <1>1, <1>2, <1>3

\* Half of the numbers with so many bits.
IsHalf(half, bits) == half = 2^(bits - 1)

\* Casts to integers with this many bits.
Signed(n, bits)   == Objects!Cast(n, bits, TRUE)
Unsigned(n, bits) == Objects!Cast(n, bits, FALSE)

\* A cast keeps the numbers that have the bits, and one that is undone gives back the
\* number.
LEMMA CastKeeps ==
  ASSUME NEW bits, NEW half \in Nat, half > 0, IsHalf(half, bits)
  PROVE  /\ \A n \in Int : /\ Signed(n, bits) \in (-half)..(half - 1)
                            /\ Unsigned(n, bits) \in 0..(2 * half - 1)
         /\ \A n \in (-half)..(half - 1) : Signed(n, bits) = n
         /\ \A n \in 0..(2 * half - 1) : /\ Signed(n, bits) \in (-half)..(half - 1)
                                         /\ Unsigned(Signed(n, bits), bits) = n
<1> DEFINE wrap(n) == n % (2 * half)
           signed(n) == Signed(n, bits)
           unsigned(n) == Unsigned(n, bits)
<1>1. /\ \A n : signed(n) = IF wrap(n) >= half THEN wrap(n) - 2 * half ELSE wrap(n)
      /\ \A n : unsigned(n) = wrap(n)
  BY Zenon DEF Objects!Cast, IsHalf, Signed, Unsigned
<1>2. /\ \A n \in Int : wrap(n) \in 0..(2 * half - 1)
      /\ \A n \in 0..(2 * half - 1) : wrap(n) = n
      /\ \A n \in (-half)..(-1) : wrap(n) = n + 2 * half
  BY Wrapped
<1> HIDE DEF wrap, signed, unsigned
<1>3. ASSUME NEW n \in Int PROVE signed(n) \in (-half)..(half - 1)
  <2>1. wrap(n) \in 0..(2 * half - 1)
    BY <1>2
  <2>2. QED
    BY <1>1, <2>1
<1>4. ASSUME NEW n \in (-half)..(half - 1) PROVE signed(n) = n
  <2>1. CASE n >= 0
    <3>1. wrap(n) = n /\ n < half
      BY <1>2, <2>1
    <3>2. QED
      BY <1>1, <3>1
  <2>2. CASE n < 0
    <3>1. wrap(n) = n + 2 * half
      BY <1>2, <2>2
    <3>2. n + 2 * half >= half /\ n + 2 * half - 2 * half = n
      OBVIOUS
    <3>3. QED
      BY <1>1, <3>1, <3>2
  <2>3. n \in Int /\ (n >= 0 \/ n < 0)
    OBVIOUS
  <2>4. QED
    BY <2>1, <2>2, <2>3
<1>5. ASSUME NEW n \in 0..(2 * half - 1) PROVE unsigned(signed(n)) = n
  <2>0. wrap(n) = n /\ n \in Int
    BY <1>2
  <2>1. CASE n < half
    <3>1. signed(n) = n
      BY <1>1, <2>0, <2>1
    <3>2. QED
      BY <1>1, <2>0, <3>1
  <2>2. CASE n >= half
    <3>1. signed(n) = n - 2 * half /\ n - 2 * half \in (-half)..(-1)
      BY <1>1, <2>0, <2>2
    <3>2. wrap(n - 2 * half) = (n - 2 * half) + 2 * half
      BY <1>2, <3>1
    <3>3. QED
      BY <1>1, <2>0, <3>1, <3>2
  <2>3. n < half \/ n >= half
    BY <2>0
  <2>4. QED
    BY <2>1, <2>2, <2>3
<1>6. \A n \in 0..(2 * half - 1) : n \in Int
  OBVIOUS
<1>7. /\ \A n \in Int : signed(n) \in (-half)..(half - 1) /\ unsigned(n) \in 0..(2 * half - 1)
      /\ \A n \in (-half)..(half - 1) : signed(n) = n
      /\ \A n \in 0..(2 * half - 1) : /\ signed(n) \in (-half)..(half - 1)
                                      /\ unsigned(signed(n)) = n
  BY <1>1, <1>2, <1>3, <1>4, <1>5, <1>6
<1>8. QED
  BY <1>7, Zenon DEF signed, unsigned

\* What the scalars are that are made.
LEMMA ScalarShapes ==
  /\ \A f, v : Objects!Text(f, v).form = f /\ Objects!Text(f, v).value = v
  /\ \A t : /\ Objects!InitString(t).type = "scalar" /\ Objects!InitString(t).text = t
            /\ Objects!InitString(t).cache = Objects!Parsed(t)
  /\ \A n : /\ Objects!InitInt(n).type = "scalar" /\ Objects!InitInt(n).text = Objects!Text("decimal", n)
            /\ Objects!InitInt(n).cache.int = n /\ Objects!InitInt(n).cache.double = Objects!ToDouble(n)
  /\ \A d : /\ Objects!InitDouble(d).type = "scalar" /\ Objects!InitDouble(d).text = Objects!PrintedDouble(d)
            /\ Objects!InitDouble(d).cache.double = d /\ Objects!InitDouble(d).cache.int = Absent
  /\ \A b : /\ Objects!InitBoolean(b).type = "scalar"
            /\ Objects!InitBoolean(b).text = Objects!Text("boolean", IF b THEN 1 ELSE 0)
            /\ Objects!InitBoolean(b).cache.boolean = b /\ Objects!InitBoolean(b).cache.int = Absent
<1>1. \A f, v : Objects!Text(f, v).form = f /\ Objects!Text(f, v).value = v
  BY DEF Objects!Text
<1>2. \A t : /\ Objects!InitString(t).type = "scalar" /\ Objects!InitString(t).text = t
             /\ Objects!InitString(t).cache = Objects!Parsed(t)
  BY DEF Objects!InitString, Objects!Scalar
<1>3. ASSUME NEW n
      PROVE  /\ Objects!InitInt(n).type = "scalar" /\ Objects!InitInt(n).text = Objects!Text("decimal", n)
             /\ Objects!InitInt(n).cache.int = n /\ Objects!InitInt(n).cache.double = Objects!ToDouble(n)
  BY DEF Objects!InitInt, Objects!Scalar, Objects!NoCache
<1>4. ASSUME NEW d
      PROVE  /\ Objects!InitDouble(d).type = "scalar" /\ Objects!InitDouble(d).text = Objects!PrintedDouble(d)
             /\ Objects!InitDouble(d).cache.double = d /\ Objects!InitDouble(d).cache.int = Absent
  BY DEF Objects!InitDouble, Objects!Scalar, Objects!NoCache
<1>5. ASSUME NEW b
      PROVE  /\ Objects!InitBoolean(b).type = "scalar"
             /\ Objects!InitBoolean(b).text = Objects!Text("boolean", IF b THEN 1 ELSE 0)
             /\ Objects!InitBoolean(b).cache.boolean = b /\ Objects!InitBoolean(b).cache.int = Absent
  BY DEF Objects!InitBoolean, Objects!Scalar, Objects!NoCache
<1>6. QED
  BY <1>1, <1>2, <1>3, <1>4, <1>5

\* What a text makes of scalars.
LEMMA WrittenScalars ==
  /\ \A n : n.type \notin {"mapping", "sequence"} => Objects!WrittenValue(n) = Objects!WrittenScalar(n)
  /\ \A t : t.form # "null" => Objects!WrittenScalar(Objects!InitString(t)) = Objects!InitString(t)
  /\ \A t : t.form = "null" => Objects!WrittenScalar(Objects!InitString(t)) = Objects!InitNull
  /\ \A n : Objects!WrittenScalar(Objects!InitInt(n)) = Objects!InitString(Objects!InitInt(n).text)
  /\ \A d \in Int : Objects!WrittenScalar(Objects!InitDouble(d)) = Objects!InitString(Objects!InitDouble(d).text)
  /\ \A b : Objects!WrittenScalar(Objects!InitBoolean(b)) = Objects!InitString(Objects!InitBoolean(b).text)
  /\ Objects!WrittenScalar(Objects!InitNull) = Objects!InitNull
<1>1. \A n : n.type \notin {"mapping", "sequence"} => Objects!WrittenValue(n) = Objects!WrittenScalar(n)
  BY DEF Objects!WrittenValue, Objects!WrittenWith
<1>2. \A d \in Int : Objects!PrintedDouble(d).form # "null"
  BY ScalarShapes DEF Objects!PrintedDouble
<1>3. \A n : n.type = "scalar" =>
        Objects!WrittenScalar(n) = IF n.text.form = "null" THEN Objects!InitNull ELSE Objects!InitString(n.text)
  BY DEF Objects!WrittenScalar
<1>4. Objects!WrittenScalar(Objects!InitNull) = Objects!InitNull
  BY DEF Objects!WrittenScalar, Objects!InitNull
<1>5. \A d \in Int : Objects!WrittenScalar(Objects!InitDouble(d)) = Objects!InitString(Objects!InitDouble(d).text)
  BY <1>2, <1>3, ScalarShapes
<1>6. /\ \A t : t.form # "null" => Objects!WrittenScalar(Objects!InitString(t)) = Objects!InitString(t)
      /\ \A t : t.form = "null" => Objects!WrittenScalar(Objects!InitString(t)) = Objects!InitNull
  BY <1>3, ScalarShapes
<1>7. \A n : Objects!WrittenScalar(Objects!InitInt(n)) = Objects!InitString(Objects!InitInt(n).text)
  BY <1>3, ScalarShapes
<1>8. \A b : Objects!WrittenScalar(Objects!InitBoolean(b)) = Objects!InitString(Objects!InitBoolean(b).text)
  BY <1>3, ScalarShapes
<1>9. QED
  BY <1>1, <1>4, <1>5, <1>6, <1>7, <1>8

\* Integers, doubles and booleans are given back, by the scalar and by its text.
LEMMA ScalarsBack ==
  ASSUME Values!ScalarsAssumption
  PROVE  /\ \A n \in Objects!IntMin..Objects!IntMax :
              /\ Objects!GetInt(Objects!InitInt(n)) = n
              /\ Objects!GetInt(Objects!InitString(Objects!InitInt(n).text)) = n
         /\ \A d \in Int :
              /\ Objects!GetDouble(Objects!InitDouble(d)) = d
              /\ Objects!PrintedDouble(Objects!GetDouble(Objects!InitString(Objects!InitDouble(d).text))) = Objects!PrintedDouble(d)
         /\ \A b \in BOOLEAN : /\ Objects!GetBoolean(Objects!InitBoolean(b)) = b
                               /\ Objects!GetBoolean(Objects!InitString(Objects!InitBoolean(b).text)) = b
<1>1. \A c : MadeScalar(c) => SameReads(c, Values!InitString(c.text))
  BY MadeReads
<1>2. ASSUME NEW c, MadeScalar(c)
      PROVE  /\ Objects!GetInt(Objects!InitString(c.text)) = Objects!GetInt(c)
             /\ Objects!GetBoolean(Objects!InitString(c.text)) = Objects!GetBoolean(c)
             /\ Objects!PrintedDouble(Objects!GetDouble(Objects!InitString(c.text))) = Objects!PrintedDouble(Objects!GetDouble(c))
  <2>1. SameReads(c, Values!InitString(c.text))
    BY <1>1, <1>2
  <2>2. QED
    BY <2>1, SameScalars DEF SameReads
<1>3. ASSUME NEW n \in Objects!IntMin..Objects!IntMax
      PROVE  Objects!GetInt(Objects!InitInt(n)) = n /\ MadeScalar(Objects!InitInt(n))
  <2>1. n # Absent
    BY DEF Values!ScalarsAssumption
  <2>2. Objects!GetInt(Objects!InitInt(n)) = n
    BY <2>1, ScalarShapes DEF Objects!GetInt, Objects!IsScalar
  <2>3. n \in Values!Int64
    BY DEF Values!Int64, Values!IntMin, Values!IntMax, Objects!IntMin, Objects!IntMax
  <2>4. MadeScalar(Objects!InitInt(n))
    BY <2>3, SameScalars DEF MadeScalar
  <2>5. QED
    BY <2>2, <2>4
<1>4. ASSUME NEW d \in Int
      PROVE  Objects!GetDouble(Objects!InitDouble(d)) = d /\ MadeScalar(Objects!InitDouble(d))
  <2>1. d # Absent
    BY DEF Values!ScalarsAssumption
  <2>2. Objects!GetDouble(Objects!InitDouble(d)) = d
    BY <2>1, ScalarShapes DEF Objects!GetDouble, Objects!IsScalar
  <2>3. MadeScalar(Objects!InitDouble(d))
    BY SameScalars DEF MadeScalar
  <2>4. QED
    BY <2>2, <2>3
<1>5. ASSUME NEW b \in BOOLEAN
      PROVE  Objects!GetBoolean(Objects!InitBoolean(b)) = b /\ MadeScalar(Objects!InitBoolean(b))
  <2>1. b # Absent
    BY DEF Values!ScalarsAssumption
  <2>2. Objects!InitBoolean(b).cache.boolean = b /\ Objects!InitBoolean(b).type = "scalar"
    BY ScalarShapes
  <2>3. Objects!GetBoolean(Objects!InitBoolean(b)) <=> b
    BY <2>1, <2>2 DEF Objects!GetBoolean, Objects!IsScalar
  <2>4. Objects!GetBoolean(Objects!InitBoolean(b)) \in BOOLEAN
    BY DEF Objects!GetBoolean
  <2>5. Objects!GetBoolean(Objects!InitBoolean(b)) = b
    BY <2>3, <2>4
  <2>6. MadeScalar(Objects!InitBoolean(b))
    BY SameScalars DEF MadeScalar
  <2>7. QED
    BY <2>5, <2>6
<1>6. QED
  BY <1>2, <1>3, <1>4, <1>5

-----------------------------------------------------------------------------
(* Values of properties. *)

\* What is made of a node.
ValueIn(type, default, n) == Objects!DeserializeProperty(type, default, n).value
HandledIn(type, default, n) == Objects!DeserializeProperty(type, default, n).handled

\* What is made of it by type.
LEMMA DeserializedValue ==
  ASSUME NEW default, NEW n, n.type # "null"
  PROVE  /\ ValueIn("boolean", default, n) = Objects!GetBoolean(n)
         /\ ValueIn("int", default, n) = Signed(Objects!GetInt(n), Narrow)
         /\ ValueIn("uint64", default, n) = Unsigned(Objects!GetInt(n), Width)
         /\ ValueIn("double", default, n) = Objects!GetDouble(n)
         /\ ValueIn("string", default, n) = Objects!GetString(n)
         /\ ValueIn("strv", default, n) =
              IF n.type = "sequence" THEN Objects!TextsIn(n.elements) ELSE Absent
         /\ ValueIn("enum", default, n) = Objects!EnumOf(n)
         /\ ValueIn("flags", default, n) = Objects!FlagsOf(n)
         /\ ValueIn("masks", default, n) = Objects!FlagsOf(n)
         /\ ValueIn("node", default, n) = n
<1>1. ValueIn("boolean", default, n) = Objects!GetBoolean(n)
  BY DEF ValueIn, Objects!DeserializeProperty
<1>2. ValueIn("int", default, n) = Signed(Objects!GetInt(n), Narrow)
  BY DEF ValueIn, Objects!DeserializeProperty, Signed
<1>3. ValueIn("uint64", default, n) = Unsigned(Objects!GetInt(n), Width)
  BY DEF ValueIn, Objects!DeserializeProperty, Unsigned
<1>4. ValueIn("double", default, n) = Objects!GetDouble(n)
  BY DEF ValueIn, Objects!DeserializeProperty
<1>5. ValueIn("string", default, n) = Objects!GetString(n)
  BY DEF ValueIn, Objects!DeserializeProperty
<1>6. ValueIn("strv", default, n) = IF n.type = "sequence" THEN Objects!TextsIn(n.elements) ELSE Absent
  BY DEF ValueIn, Objects!DeserializeProperty
<1>7. ValueIn("enum", default, n) = Objects!EnumOf(n)
  BY DEF ValueIn, Objects!DeserializeProperty
<1>8. ValueIn("flags", default, n) = Objects!FlagsOf(n) /\ ValueIn("masks", default, n) = Objects!FlagsOf(n)
  BY DEF ValueIn, Objects!DeserializeProperty
<1>9. ValueIn("node", default, n) = n
  BY DEF ValueIn, Objects!DeserializeProperty
<1>10. QED
  BY <1>1, <1>2, <1>3, <1>4, <1>5, <1>6, <1>7, <1>8, <1>9

\* Null is the default, and objects are not handled.
LEMMA DeserializedOtherwise ==
  ASSUME NEW type, NEW default, NEW n
  PROVE  /\ n.type = "null" => HandledIn(type, default, n) /\ ValueIn(type, default, n) = default
         /\ type \notin {"object", "other"} => HandledIn(type, default, n)
         /\ n.type # "null" /\ type = "object" => ~HandledIn(type, default, n)
<1>1. CASE n.type = "null"
  <2>1. Objects!DeserializeProperty(type, default, n) = [handled |-> TRUE, value |-> default]
    BY <1>1, Zenon DEF Objects!DeserializeProperty
  <2>2. QED
    BY <1>1, <2>1 DEF HandledIn, ValueIn
<1>2. CASE n.type # "null"
  <2>1. HandledIn(type, default, n) = (type \notin {"object", "other"})
    BY <1>2 DEF HandledIn, Objects!DeserializeProperty
  <2>2. QED
    BY <1>2, <2>1
<1>3. QED
  BY <1>1, <1>2

\* Half of the numbers with so many bits, hidden from the provers, which know no powers.
Half(bits) == 2^(bits - 1)

\* The bounds of integers.
LEMMA Bounds ==
  ASSUME Objects!GObjectAssumption
  PROVE  /\ Half(Width) \in Nat /\ Half(Narrow) \in Nat
         /\ Half(Narrow) > 1 /\ Half(Narrow) <= Half(Width)
         /\ IsHalf(Half(Width), Width) /\ IsHalf(Half(Narrow), Narrow)
         /\ Objects!IntMin..Objects!IntMax = (-Half(Width))..(Half(Width) - 1)
<1>1. Half(Width) \in Nat /\ Half(Narrow) \in 2..Half(Width)
  BY DEF Objects!GObjectAssumption, Half
<1>2. IsHalf(Half(Width), Width) /\ IsHalf(Half(Narrow), Narrow)
  BY DEF IsHalf, Half
<1>3. Objects!IntMin = -Half(Width) /\ Objects!IntMax = Half(Width) - 1
  BY DEF Objects!IntMin, Objects!IntMax, Half
<1>4. QED
  BY <1>1, <1>2, <1>3

\* What an object may hold in a property of a type.
Fits(type, v) ==
  /\ type = "boolean" => v \in BOOLEAN
  /\ type = "int" => v \in (-Half(Narrow))..(Half(Narrow) - 1)
  /\ type = "uint64" => v \in 0..(2 * Half(Width) - 1)
  /\ type = "double" => v \in Int
  /\ type = "strv" => v = Absent \/ \E n \in Nat : v = [i \in 1..n |-> v[i]]
  /\ type = "enum" => v \in Objects!Enum
  /\ type \in {"flags", "masks"} => v \in SUBSET Objects!Bits
  /\ type = "node" => v = Absent \/ (v.type # "null" /\ (v.type = "scalar" => v.text.form # "null"))

\* What may be relied on of a property, whose value begins as its default.
LEMMA PropertyTable ==
  ASSUME Objects!GObjectAssumption, NEW p \in DOMAIN Objects!Property
  PROVE  LET d == Objects!Property[p] IN
         /\ d.type \in {"boolean", "int", "uint64", "double", "string", "strv", "enum",
                        "flags", "masks", "node", "object"}
         /\ d.custom => d.type = "enum"
         /\ d.writable \in BOOLEAN /\ d.construct_only \in BOOLEAN /\ d.custom \in BOOLEAN
         /\ ~Objects!Skipped(p) => d.writable
         /\ Fits(d.type, d.default)
<1> DEFINE d == Objects!Property[p]
<1> SUFFICES /\ d.type \in {"boolean", "int", "uint64", "double", "string", "strv", "enum",
                            "flags", "masks", "node", "object"}
             /\ d.custom => d.type = "enum"
             /\ d.writable \in BOOLEAN /\ d.construct_only \in BOOLEAN /\ d.custom \in BOOLEAN
             /\ ~Objects!Skipped(p) => d.writable
             /\ Fits(d.type, d.default)
  OBVIOUS
<1>1. p = "flag" \/ p = "count" \/ p = "size" \/ p = "ratio" \/ p = "label" \/ p = "title"
      \/ p = "names" \/ p = "mode" \/ p = "options" \/ p = "access" \/ p = "tree" \/ p = "peer"
      \/ p = "id" \/ p = "kind" \/ p = "unit" \/ p = "status" \/ p = "secret" \/ p = "cache"
  BY DEF Objects!Property
<1>2. CASE p = "flag"
  <2>1. d = Objects!Plain("boolean", FALSE)
    BY <1>2 DEF Objects!Property
  <2>2. QED
    BY <2>1 DEF Objects!Plain, Fits, Objects!Skipped
<1>3. CASE p = "count"
  <2>1. d = Objects!Plain("int", 1)
    BY <1>3 DEF Objects!Property
  <2>2. QED
    BY <2>1, Bounds DEF Objects!Plain, Fits, Objects!Skipped
<1>4. CASE p = "size"
  <2>1. d = Objects!Plain("uint64", 0)
    BY <1>4 DEF Objects!Property
  <2>2. QED
    BY <2>1, Bounds DEF Objects!Plain, Fits, Objects!Skipped
<1>5. CASE p = "ratio"
  <2>1. d = Objects!Plain("double", 4)
    BY <1>5 DEF Objects!Property
  <2>2. QED
    BY <2>1 DEF Objects!Plain, Fits, Objects!Skipped
<1>6. CASE p = "label"
  <2>1. d = Objects!Plain("string", Absent)
    BY <1>6 DEF Objects!Property
  <2>2. QED
    BY <2>1 DEF Objects!Plain, Fits, Objects!Skipped
<1>7. CASE p = "title"
  <2>1. d = Objects!Plain("string", Objects!Text("word", 0))
    BY <1>7 DEF Objects!Property
  <2>2. QED
    BY <2>1 DEF Objects!Plain, Fits, Objects!Skipped
<1>8. CASE p = "names"
  <2>1. d = Objects!Plain("strv", Absent)
    BY <1>8 DEF Objects!Property
  <2>2. QED
    BY <2>1 DEF Objects!Plain, Fits, Objects!Skipped
<1>9. CASE p = "mode"
  <2>1. d = Objects!Plain("enum", 1)
    BY <1>9 DEF Objects!Property
  <2>2. QED
    BY <2>1 DEF Objects!Plain, Fits, Objects!Skipped, Objects!Enum
<1>10. CASE p = "options"
  <2>1. d = Objects!Plain("flags", {})
    BY <1>10 DEF Objects!Property
  <2>2. QED
    BY <2>1 DEF Objects!Plain, Fits, Objects!Skipped
<1>11. CASE p = "access"
  <2>1. d = Objects!Plain("masks", {})
    BY <1>11 DEF Objects!Property
  <2>2. QED
    BY <2>1 DEF Objects!Plain, Fits, Objects!Skipped
<1>12. CASE p = "tree"
  <2>1. d = Objects!Plain("node", Absent)
    BY <1>12 DEF Objects!Property
  <2>2. QED
    BY <2>1 DEF Objects!Plain, Fits, Objects!Skipped
<1>13. CASE p = "peer"
  <2>1. d = Objects!Plain("object", Absent)
    BY <1>13 DEF Objects!Property
  <2>2. QED
    BY <2>1 DEF Objects!Plain, Fits, Objects!Skipped
<1>14. CASE p = "id"
  <2>1. d = [Objects!Plain("int", 0) EXCEPT !.construct_only = TRUE]
    BY <1>14 DEF Objects!Property
  <2>2. QED
    BY <2>1, Bounds DEF Objects!Plain, Fits, Objects!Skipped
<1>15. CASE p = "kind"
  <2>1. d = [Objects!Plain("enum", 0) EXCEPT !.construct_only = TRUE, !.custom = TRUE]
    BY <1>15 DEF Objects!Property
  <2>2. QED
    BY <2>1 DEF Objects!Plain, Fits, Objects!Skipped, Objects!Enum
<1>16. CASE p = "unit"
  <2>1. d = [Objects!Plain("enum", 0) EXCEPT !.custom = TRUE]
    BY <1>16 DEF Objects!Property
  <2>2. QED
    BY <2>1 DEF Objects!Plain, Fits, Objects!Skipped, Objects!Enum
<1>17. CASE p = "status"
  <2>1. d = [Objects!Plain("int", 0) EXCEPT !.writable = FALSE]
    BY <1>17 DEF Objects!Property
  <2>2. QED
    BY <2>1, Bounds DEF Objects!Plain, Fits, Objects!Skipped
<1>18. CASE p = "secret"
  <2>1. d = [Objects!Plain("int", 0) EXCEPT !.readable = FALSE]
    BY <1>18 DEF Objects!Property
  <2>2. QED
    BY <2>1, Bounds DEF Objects!Plain, Fits, Objects!Skipped
<1>19. CASE p = "cache"
  <2>1. d = [Objects!Plain("int", 0) EXCEPT !.listed = FALSE]
    BY <1>19 DEF Objects!Property
  <2>2. QED
    BY <2>1, Bounds DEF Objects!Plain, Fits, Objects!Skipped
<1>20. QED
  BY <1>1, <1>2, <1>3, <1>4, <1>5, <1>6, <1>7, <1>8, <1>9, <1>10, <1>11, <1>12, <1>13,
     <1>14, <1>15, <1>16, <1>17, <1>18, <1>19

\* The value that an object or its text gives back.
Back(type, default, v) == ValueIn(type, default, Objects!SerializeProperty(type, v))
Read(type, default, v) == ValueIn(type, default, Objects!WrittenValue(Objects!SerializeProperty(type, v)))

\* A value that is written as a scalar, which is not null, is read from its text.
LEMMA ReadScalar ==
  ASSUME NEW type, NEW default, NEW v, NEW n, Objects!SerializeProperty(type, v) = n,
         n.type = "scalar", n.text.form # "null"
  PROVE  /\ n.type # "null" /\ Back(type, default, v) = ValueIn(type, default, n)
         /\ Objects!InitString(n.text).type # "null"
         /\ Read(type, default, v) = ValueIn(type, default, Objects!InitString(n.text))
<1>1. Objects!WrittenValue(n) = Objects!InitString(n.text)
  BY WrittenScalars DEF Objects!WrittenScalar
<1>2. Objects!InitString(n.text).type # "null"
  BY ScalarShapes
<1>3. QED
  BY <1>1, <1>2 DEF Back, Read

\* Booleans come back.
LEMMA BooleansBack ==
  ASSUME Values!ScalarsAssumption, NEW default, NEW v \in BOOLEAN
  PROVE  Back("boolean", default, v) = v /\ Read("boolean", default, v) = v
<1> DEFINE n == Objects!InitBoolean(v)
<1>1. Objects!SerializeProperty("boolean", v) = n
  BY DEF Objects!SerializeProperty
<1>2. n.type = "scalar" /\ n.text.form # "null"
  BY ScalarShapes
<1>3. Objects!GetBoolean(n) = v /\ Objects!GetBoolean(Objects!InitString(n.text)) = v
  BY ScalarsBack
<1> HIDE DEF n
<1>4. QED
  BY <1>1, <1>2, <1>3, ReadScalar, DeserializedValue

\* Integers that an object may hold come back, and so do those without a sign.
LEMMA IntegersBack ==
  ASSUME Values!ScalarsAssumption, Objects!GObjectAssumption, NEW default
  PROVE  /\ \A v \in (-Half(Narrow))..(Half(Narrow) - 1) :
              Back("int", default, v) = v /\ Read("int", default, v) = v
         /\ \A v \in 0..(2 * Half(Width) - 1) :
              Back("uint64", default, v) = v /\ Read("uint64", default, v) = v
<1>1. ASSUME NEW v \in (-Half(Narrow))..(Half(Narrow) - 1)
      PROVE  Back("int", default, v) = v /\ Read("int", default, v) = v
  <2> DEFINE n == Objects!InitInt(v)
  <2>1. Objects!SerializeProperty("int", v) = n
    BY DEF Objects!SerializeProperty
  <2>2. n.type = "scalar" /\ n.text.form # "null"
    BY ScalarShapes
  <2>3. v \in Objects!IntMin..Objects!IntMax
    <3>1. Half(Width) \in Nat /\ Half(Narrow) \in Nat /\ Half(Narrow) <= Half(Width)
      BY Bounds
    <3>2. v \in (-Half(Width))..(Half(Width) - 1)
      BY <3>1
    <3>3. QED
      BY <3>2, Bounds
  <2>4. Objects!GetInt(n) = v /\ Objects!GetInt(Objects!InitString(n.text)) = v
    BY <2>3, ScalarsBack
  <2>5. Signed(v, Narrow) = v
    <3>1. Half(Narrow) \in Nat /\ Half(Narrow) > 0 /\ IsHalf(Half(Narrow), Narrow)
      BY Bounds
    <3>2. QED
      BY <3>1, CastKeeps
  <2> HIDE DEF n
  <2>6. ValueIn("int", default, n) = v /\ ValueIn("int", default, Objects!InitString(n.text)) = v
    BY <2>2, <2>4, <2>5, <2>1, ReadScalar, DeserializedValue
  <2>7. QED
    BY <2>1, <2>2, <2>6, ReadScalar
<1>2. ASSUME NEW v \in 0..(2 * Half(Width) - 1)
      PROVE  Back("uint64", default, v) = v /\ Read("uint64", default, v) = v
  <2> DEFINE c == Signed(v, Width)
             n == Objects!InitInt(c)
  <2>1. Objects!SerializeProperty("uint64", v) = n
    BY Zenon DEF Objects!SerializeProperty, Signed
  <2>2. n.type = "scalar" /\ n.text.form # "null"
    <3> HIDE DEF c
    <3>1. QED
      BY ScalarShapes
  <2>3. Half(Width) \in Nat /\ Half(Width) > 0 /\ IsHalf(Half(Width), Width)
    BY Bounds
  <2>4. c \in (-Half(Width))..(Half(Width) - 1) /\ Unsigned(c, Width) = v
    BY <2>3, CastKeeps
  <2>5. c \in Objects!IntMin..Objects!IntMax
    BY <2>4, Bounds
  <2> HIDE DEF c
  <2>6. Objects!GetInt(n) = c /\ Objects!GetInt(Objects!InitString(n.text)) = c
    BY <2>5, ScalarsBack
  <2> HIDE DEF n
  <2>7. ValueIn("uint64", default, n) = v /\ ValueIn("uint64", default, Objects!InitString(n.text)) = v
    BY <2>2, <2>4, <2>6, <2>1, ReadScalar, DeserializedValue
  <2>8. QED
    BY <2>1, <2>2, <2>7, ReadScalar
<1>3. QED
  BY <1>1, <1>2

\* A double comes back, and what is printed of it does from its text.
LEMMA DoublesBack ==
  ASSUME Values!ScalarsAssumption, NEW default, NEW v \in Int
  PROVE  /\ Back("double", default, v) = v
         /\ Objects!PrintedDouble(Read("double", default, v)) = Objects!PrintedDouble(v)
<1> DEFINE n == Objects!InitDouble(v)
<1>1. Objects!SerializeProperty("double", v) = n
  BY DEF Objects!SerializeProperty
<1>2. n.type = "scalar" /\ n.text.form # "null"
  BY ScalarShapes DEF Objects!PrintedDouble
<1>3. Objects!GetDouble(n) = v /\ Objects!PrintedDouble(Objects!GetDouble(Objects!InitString(n.text))) = Objects!PrintedDouble(v)
  BY ScalarsBack
<1> HIDE DEF n
<1>4. QED
  BY <1>1, <1>2, <1>3, ReadScalar, DeserializedValue

\* A name that is not null, or the nick of a value, comes back.
LEMMA NamesBack ==
  ASSUME NEW default
  PROVE  /\ \A v : v = Absent =>
              Back("string", default, v) = default /\ Read("string", default, v) = default
         /\ \A v : v # Absent =>
              /\ Back("string", default, v) = v
              /\ v.form # "null" => Read("string", default, v) = v
         /\ \A v : Back("enum", default, v) = v /\ Read("enum", default, v) = v
<1>1. ASSUME NEW v, v = Absent
      PROVE  Back("string", default, v) = default /\ Read("string", default, v) = default
  <2>1. Objects!SerializeProperty("string", v) = Objects!InitNull
    BY <1>1 DEF Objects!SerializeProperty
  <2>2. Objects!InitNull.type = "null" /\ Objects!WrittenValue(Objects!InitNull) = Objects!InitNull
    BY WrittenScalars DEF Objects!InitNull
  <2>3. QED
    BY <2>1, <2>2, DeserializedOtherwise DEF Back, Read
<1>2. ASSUME NEW v, v # Absent
      PROVE  /\ Back("string", default, v) = v
             /\ v.form # "null" => Read("string", default, v) = v
  <2>1. Objects!SerializeProperty("string", v) = Objects!InitString(v)
    BY <1>2 DEF Objects!SerializeProperty
  <2>2. Objects!InitString(v).type = "scalar" /\ Objects!InitString(v).text = v
    BY ScalarShapes
  <2>3. Objects!GetString(Objects!InitString(v)) = v
    BY <2>2 DEF Objects!GetString, Objects!IsScalar
  <2>4. ValueIn("string", default, Objects!InitString(v)) = v
    BY <2>2, <2>3, DeserializedValue
  <2>5. Back("string", default, v) = v
    BY <2>1, <2>4 DEF Back
  <2>6. ASSUME v.form # "null" PROVE Read("string", default, v) = v
    BY <2>1, <2>2, <2>4, <2>6, ReadScalar
  <2>7. QED
    BY <2>5, <2>6
<1>3. ASSUME NEW v
      PROVE  Back("enum", default, v) = v /\ Read("enum", default, v) = v
  <2> DEFINE n == Objects!InitString(Objects!Nick(v))
  <2>1. Objects!SerializeProperty("enum", v) = n
    BY DEF Objects!SerializeProperty
  <2>2. n.type = "scalar" /\ n.text = Objects!Nick(v) /\ Objects!Nick(v).form = "nick" /\ Objects!Nick(v).value = v
    BY ScalarShapes DEF Objects!Nick
  <2>3. Objects!EnumOf(n) = v
    BY <2>2 DEF Objects!EnumOf, Objects!IsScalar
  <2>4. Objects!InitString(n.text) = n
    BY <2>2
  <2> HIDE DEF n
  <2>5. QED
    BY <2>1, <2>2, <2>3, <2>4, ReadScalar, DeserializedValue
<1>4. QED
  BY <1>1, <1>2, <1>3

\* The texts of what is chosen of some nodes are chosen of their texts.
LEMMA ChosenTexts ==
  ASSUME NEW n \in Nat, NEW places \in SUBSET (1..n), NEW nodes, NEW texts,
         \A i \in places : nodes[i].text = texts[i]
  PROVE  [k \in DOMAIN Objects!Chosen(nodes, places) |-> Objects!Chosen(nodes, places)[k].text]
           = Objects!Chosen(texts, places)
<1> DEFINE m == Cardinality(places)
           at(k) == CHOOSE i \in places : Rank(places, i) = k
<1>1. ASSUME NEW s PROVE Objects!Chosen(s, places) = [k \in 1..m |-> s[at(k)]]
  <2> DEFINE objectsAt(k) == CHOOSE i \in places : Objects!Cardinality({j \in places : j <= i}) = k
  <2>1. \A i : Objects!Cardinality({j \in places : j <= i}) = Rank(places, i)
    BY SameCounts DEF Rank
  <2>2. \A k : objectsAt(k) = at(k)
    BY <2>1
  <2>3. Objects!Chosen(s, places) = [k \in 1..Objects!Cardinality(places) |-> s[objectsAt(k)]]
    BY DEF Objects!Chosen
  <2>4. Objects!Cardinality(places) = m
    BY SameCounts
  <2> HIDE DEF m, at, objectsAt
  <2>5. QED
    BY <2>2, <2>3, <2>4
<1>2. \A k \in 1..m : at(k) \in places
  BY RanksAreUnique
<1> HIDE DEF m, at
<1>3. Objects!Chosen(nodes, places) = [k \in 1..m |-> nodes[at(k)]]
      /\ Objects!Chosen(texts, places) = [k \in 1..m |-> texts[at(k)]]
  BY <1>1
<1>4. QED
  BY <1>2, <1>3

\* A sequence of this length, and where no word null is in it.
IsList(texts, n) == texts = [i \in 1..n |-> texts[i]]
NotNull(texts)   == {i \in DOMAIN texts : texts[i].form # "null"}

\* The strings of a list come back, and those that are not null come back from its text.
LEMMA StringsBack ==
  ASSUME NEW n \in Nat, NEW texts, IsList(texts, n)
  PROVE  /\ Objects!Strings(texts).type = "sequence" /\ Objects!WrittenValue(Objects!Strings(texts)).type = "sequence"
         /\ Objects!TextsIn(Objects!Strings(texts).elements) = texts
         /\ Objects!TextsIn(Objects!WrittenValue(Objects!Strings(texts)).elements)
              = Objects!Chosen(texts, NotNull(texts))
<1> DEFINE made(i) == Objects!InitString(texts[i])
           read(i) == Objects!WrittenScalar(made(i))
           nodes == [i \in 1..n |-> made(i)]
           reads == [i \in 1..n |-> read(i)]
           named == {i \in 1..n : texts[i].form # "null"}
<1>0. texts = [i \in 1..n |-> texts[i]]
  BY DEF IsList
<1>1. DOMAIN texts = 1..n /\ NotNull(texts) = named
  BY <1>0 DEF NotNull
<1>2. Objects!Strings(texts).type = "sequence" /\ Objects!Strings(texts).elements = nodes
  BY <1>1 DEF Objects!Strings, Objects!SequenceOf
<1>3. \A i : made(i).type = "scalar" /\ made(i).text = texts[i]
  BY ScalarShapes
<1>4. /\ \A i : texts[i].form # "null" => read(i) = made(i)
      /\ \A i : texts[i].form = "null" => read(i).type = "null"
  BY WrittenScalars DEF Objects!InitNull
<1>5. /\ Objects!WrittenValue(Objects!Strings(texts)).type = "sequence"
      /\ Objects!WrittenValue(Objects!Strings(texts)).elements = reads
  <2>1. Objects!WrittenValue(Objects!Strings(texts)) =
          Objects!SequenceOf([i \in DOMAIN Objects!Strings(texts).elements |-> Objects!WrittenScalar(Objects!Strings(texts).elements[i])])
    BY <1>2 DEF Objects!WrittenValue, Objects!WrittenWith
  <2>2. [i \in DOMAIN Objects!Strings(texts).elements |-> Objects!WrittenScalar(Objects!Strings(texts).elements[i])] = reads
    <3> HIDE DEF made
    <3>1. QED
      BY <1>2
  <2>3. Objects!WrittenValue(Objects!Strings(texts)) = Objects!SequenceOf(reads)
    BY <2>1, <2>2
  <2> HIDE DEF reads
  <2>4. QED
    BY <2>3 DEF Objects!SequenceOf
<1> HIDE DEF made, read
<1>6. \A i \in 1..n : nodes[i] = made(i) /\ reads[i] = read(i)
  OBVIOUS
<1>7. DOMAIN nodes = 1..n /\ DOMAIN reads = 1..n
  OBVIOUS
<1> HIDE DEF nodes, reads
<1>8. Objects!TextsIn(nodes) = texts
  <2>1. {i \in DOMAIN nodes : Objects!IsScalar(nodes[i])} = 1..n
    BY <1>3, <1>6, <1>7 DEF Objects!IsScalar
  <2>2. Objects!TextsIn(nodes) = [k \in DOMAIN Objects!Chosen(nodes, 1..n) |-> Objects!Chosen(nodes, 1..n)[k].text]
    BY <2>1 DEF Objects!TextsIn
  <2>3. DOMAIN Objects!Chosen(nodes, 1..n) = 1..n /\ \A i \in 1..n : Objects!Chosen(nodes, 1..n)[i] = nodes[i]
    BY AllChosen
  <2>4. Objects!TextsIn(nodes) = [k \in 1..n |-> nodes[k].text]
    BY <2>2, <2>3
  <2>5. \A i \in 1..n : nodes[i].text = texts[i]
    BY <1>3, <1>6
  <2>6. QED
    BY <1>0, <2>4, <2>5
<1>9. Objects!TextsIn(reads) = Objects!Chosen(texts, named)
  <2>1. {i \in DOMAIN reads : Objects!IsScalar(reads[i])} = named
    <3>1. \A i \in 1..n : reads[i].type = "scalar" <=> texts[i].form # "null"
      BY <1>3, <1>4, <1>6
    <3>2. QED
      BY <1>7, <3>1 DEF Objects!IsScalar
  <2>2. Objects!TextsIn(reads) = [k \in DOMAIN Objects!Chosen(reads, named) |-> Objects!Chosen(reads, named)[k].text]
    BY <2>1 DEF Objects!TextsIn
  <2>3. \A i \in named : reads[i].text = texts[i]
    BY <1>3, <1>4, <1>6
  <2>4. named \in SUBSET (1..n)
    OBVIOUS
  <2> HIDE DEF named
  <2>5. [k \in DOMAIN Objects!Chosen(reads, named) |-> Objects!Chosen(reads, named)[k].text] = Objects!Chosen(texts, named)
    BY <2>3, <2>4, ChosenTexts
  <2>6. QED
    BY <2>2, <2>5
<1>10. QED
  BY <1>1, <1>2, <1>5, <1>8, <1>9

\* The bits of a list of nicks.
LEMMA BitsOfNicks ==
  ASSUME NEW listed, NEW m \in Nat, NEW F, listed.type = "sequence",
         DOMAIN Objects!TextsIn(listed.elements) = 1..m,
         \A k \in 1..m : Objects!TextsIn(listed.elements)[k] = Objects!Nick(F[k])
  PROVE  \A b : b \in Objects!FlagsOf(listed) <=> \E k \in 1..m : b \in F[k]
<1> DEFINE ts == Objects!TextsIn(listed.elements)
           named == {x \in Objects!Range(ts) : x.form \in {"nick", "name"}}
<1>1. \A k \in 1..m : ts[k].form = "nick" /\ ts[k].value = F[k]
  <2>1. \A k : Objects!Nick(F[k]).form = "nick" /\ Objects!Nick(F[k]).value = F[k]
    BY DEF Objects!Nick, Objects!Text
  <2>2. \A k \in 1..m : ts[k] = Objects!Nick(F[k])
    OBVIOUS
  <2> HIDE DEF ts
  <2>3. QED
    BY <2>1, <2>2
<1>2. \A x : x \in Objects!Range(ts) <=> \E k \in 1..m : x = ts[k]
  BY SameCounts DEF Range
<1>3. Objects!FlagsOf(listed) = UNION {t.value : t \in named}
  BY DEF Objects!FlagsOf
<1> HIDE DEF ts
<1>4. \A x : x \in named <=> \E k \in 1..m : x = ts[k]
  BY <1>1, <1>2
<1> HIDE DEF named
<1>5. ASSUME NEW b PROVE b \in Objects!FlagsOf(listed) <=> \E t \in named : b \in t.value
  BY <1>3
<1>6. QED
  BY <1>1, <1>4, <1>5

\* Flags come back, and those of a class with values of several bits at least.
LEMMA FlagsBack ==
  ASSUME NEW default, NEW v \in SUBSET Objects!Bits
  PROVE  /\ Back("flags", default, v) = v /\ Read("flags", default, v) = v
         /\ v \subseteq Back("masks", default, v) /\ v \subseteq Read("masks", default, v)
         /\ \A type \in {"flags", "masks"} :
              Back(type, default, v) \subseteq Objects!Bits /\ Read(type, default, v) \subseteq Objects!Bits
<1> DEFINE F(type) == Objects!FlagsToNode(type, v)
           texts(type) == [i \in DOMAIN F(type) |-> Objects!Nick(F(type)[i])]
           list(type) == Objects!Strings(texts(type))
<1>1. ASSUME NEW type \in {"flags", "masks"}
      PROVE  /\ \E m \in Nat : DOMAIN F(type) = 1..m
             /\ \A b \in v : \E k \in DOMAIN F(type) : b \in F(type)[k]
             /\ type = "flags" => \A k \in DOMAIN F(type) : F(type)[k] \subseteq v
             /\ \A k \in DOMAIN F(type) : F(type)[k] \subseteq Objects!Bits
  <2> DEFINE s == Objects!Values(type)
             n == IF type = "masks" THEN 3 ELSE 2
             at == {i \in DOMAIN s : s[i] \cap v # {}}
  <2>1. /\ n \in Nat /\ DOMAIN s = 1..n /\ \A b \in v : b \in 1..n /\ s[b] = {b}
        /\ type = "flags" => \A i \in 1..n : s[i] = {i}
        /\ \A i \in 1..n : s[i] \subseteq Objects!Bits
    <3>1. CASE type = "flags"
      <4>1. s = <<{1}, {2}>> /\ n = 2 /\ \A b \in v : b = 1 \/ b = 2
        BY <3>1 DEF Objects!Values, Objects!Bits
      <4> HIDE DEF s, n
      <4>2. QED
        BY <4>1 DEF Objects!Bits
    <3>2. CASE type = "masks"
      <4>1. s = <<{1}, {2}, {1, 2}>> /\ n = 3 /\ \A b \in v : b = 1 \/ b = 2
        BY <3>2 DEF Objects!Values, Objects!Bits
      <4> HIDE DEF s, n
      <4>2. QED
        BY <3>2, <4>1 DEF Objects!Bits
    <3>3. QED
      BY <3>1, <3>2
  <2>2. F(type) = Objects!Chosen(s, at)
    BY DEF Objects!FlagsToNode
  <2> HIDE DEF s, n
  <2>3. at \in SUBSET (1..n) /\ \A b \in v : b \in at
    BY <2>1
  <2>4. \A i \in at : s[i] \cap v # {}
    OBVIOUS
  <2> HIDE DEF at, F
  <2>5. /\ \E m \in Nat : DOMAIN F(type) = 1..m
        /\ \A k \in DOMAIN F(type) : \E i \in at : F(type)[k] = s[i]
        /\ \A i \in at : \E k \in DOMAIN F(type) : F(type)[k] = s[i]
    <3>1. n \in Nat /\ at \in SUBSET (1..n)
      BY <2>1, <2>3
    <3>2. \E m \in Nat : DOMAIN Objects!Chosen(s, at) = 1..m
      BY <3>1, ChosenElements
    <3>3. TakenFrom(Objects!Chosen(s, at), s, at) /\ AllTaken(Objects!Chosen(s, at), s, at)
      BY <3>1, ChosenElements
    <3>4. QED
      BY <2>2, <3>2, <3>3 DEF TakenFrom, AllTaken
  <2>6. \A b \in v : \E k \in DOMAIN F(type) : b \in F(type)[k]
    BY <2>1, <2>3, <2>5
  <2>7. ASSUME type = "flags", NEW k \in DOMAIN F(type) PROVE F(type)[k] \subseteq v
    <3>1. PICK i \in at : F(type)[k] = s[i]
      BY <2>5
    <3>2. s[i] = {i} /\ s[i] \cap v # {}
      BY <2>1, <2>3, <2>4, <2>7
    <3>3. QED
      BY <3>1, <3>2
  <2>8. \A k \in DOMAIN F(type) : F(type)[k] \subseteq Objects!Bits
    BY <2>1, <2>3, <2>5
  <2>9. QED
    BY <2>5, <2>6, <2>7, <2>8
<1>2. ASSUME NEW type \in {"flags", "masks"}
      PROVE  /\ Back(type, default, v) = Objects!FlagsOf(list(type))
             /\ Read(type, default, v) = Objects!FlagsOf(Objects!WrittenValue(list(type)))
             /\ \A b : b \in Objects!FlagsOf(list(type))
                         <=> \E k \in DOMAIN F(type) : b \in F(type)[k]
             /\ \A b : b \in Objects!FlagsOf(Objects!WrittenValue(list(type)))
                         <=> \E k \in DOMAIN F(type) : b \in F(type)[k]
  <2>1. PICK m \in Nat : DOMAIN F(type) = 1..m
    BY <1>1
  <2>2. Objects!SerializeProperty(type, v) = list(type)
    BY DEF Objects!SerializeProperty
  <2> DEFINE ts == texts(type)  G == F(type)
             named == {i \in DOMAIN ts : ts[i].form # "null"}
  <2>3. DOMAIN ts = 1..m /\ ts = [i \in 1..m |-> ts[i]] /\ \A i \in 1..m : ts[i] = Objects!Nick(G[i])
    BY <2>1
  <2> HIDE DEF ts, G
  <2>4. named = 1..m
    BY <2>3 DEF Objects!Nick, Objects!Text
  <2> DEFINE a == Objects!Strings(ts)  w == Objects!WrittenValue(Objects!Strings(ts))
  <2>5. /\ a.type = "sequence" /\ w.type = "sequence"
        /\ Objects!TextsIn(a.elements) = ts /\ Objects!TextsIn(w.elements) = Objects!Chosen(ts, named)
    <3>1. IsList(ts, m) /\ named = NotNull(ts)
      BY <2>3 DEF IsList, NotNull
    <3>2. QED
      BY <3>1, StringsBack
  <2> HIDE DEF a, w, named
  <2>6. DOMAIN Objects!TextsIn(w.elements) = 1..m /\ \A k \in 1..m : Objects!TextsIn(w.elements)[k] = ts[k]
    BY <2>4, <2>5, AllChosen
  <2>7. \A b : b \in Objects!FlagsOf(a) <=> \E k \in 1..m : b \in G[k]
    BY <2>3, <2>5, BitsOfNicks
  <2>8. \A b : b \in Objects!FlagsOf(w) <=> \E k \in 1..m : b \in G[k]
    <3>1. \A k \in 1..m : Objects!TextsIn(w.elements)[k] = Objects!Nick(G[k])
      BY <2>3, <2>6
    <3>2. QED
      BY <2>5, <2>6, <3>1, BitsOfNicks
  <2>9. ValueIn(type, default, a) = Objects!FlagsOf(a) /\ ValueIn(type, default, w) = Objects!FlagsOf(w)
    BY <2>5, DeserializedValue
  <2>10. a = list(type) /\ w = Objects!WrittenValue(list(type))
    BY DEF a, w, ts
  <2>11. Back(type, default, v) = Objects!FlagsOf(a) /\ Read(type, default, v) = Objects!FlagsOf(w)
    BY <2>2, <2>9, <2>10 DEF Back, Read
  <2> HIDE DEF list
  <2>12. QED
    BY <2>1, <2>7, <2>8, <2>10, <2>11 DEF G
<1> HIDE DEF F, texts, list
<1>3. \A type \in {"flags", "masks"} :
        v \subseteq Objects!FlagsOf(list(type)) /\ v \subseteq Objects!FlagsOf(Objects!WrittenValue(list(type)))
  BY <1>1, <1>2
<1>4. Objects!FlagsOf(list("flags")) = v /\ Objects!FlagsOf(Objects!WrittenValue(list("flags"))) = v
  BY <1>1, <1>2
<1>5. ASSUME NEW type \in {"flags", "masks"}
      PROVE  Back(type, default, v) \subseteq Objects!Bits /\ Read(type, default, v) \subseteq Objects!Bits
  BY <1>1, <1>2
<1>6. QED
  BY <1>2, <1>3, <1>4, <1>5

\* A node that no text makes null comes back, and what it is written as from its text.
LEMMA NodesBack ==
  ASSUME NEW default
  PROVE  /\ \A v : v = Absent =>
              Back("node", default, v) = default /\ Read("node", default, v) = default
         /\ \A v : v # Absent /\ Fits("node", v) =>
              Back("node", default, v) = v /\ Read("node", default, v) = Objects!WrittenValue(v)
<1>1. ASSUME NEW v, v = Absent
      PROVE  Back("node", default, v) = default /\ Read("node", default, v) = default
  <2>1. Objects!SerializeProperty("node", v) = Objects!InitNull
    BY <1>1 DEF Objects!SerializeProperty
  <2>2. Objects!InitNull.type = "null" /\ Objects!WrittenValue(Objects!InitNull) = Objects!InitNull
    BY WrittenScalars DEF Objects!InitNull
  <2>3. QED
    BY <2>1, <2>2, DeserializedOtherwise DEF Back, Read
<1>2. ASSUME NEW v, v # Absent, Fits("node", v)
      PROVE  Back("node", default, v) = v /\ Read("node", default, v) = Objects!WrittenValue(v)
  <2>1. Objects!SerializeProperty("node", v) = v
    BY <1>2 DEF Objects!SerializeProperty
  <2>2. v.type # "null" /\ (v.type = "scalar" => v.text.form # "null")
    BY <1>2 DEF Fits
  <2>3. Objects!WrittenValue(v).type # "null"
    <3>1. CASE v.type \in {"mapping", "sequence"}
      <4>1. Objects!WrittenValue(v).type \in {"mapping", "sequence"}
        BY <3>1 DEF Objects!WrittenValue, Objects!WrittenWith, Objects!MappingOf,
           Objects!SequenceOf
      <4>2. QED
        BY <4>1
    <3>2. CASE v.type \notin {"mapping", "sequence"}
      <4>1. Objects!WrittenValue(v) = Objects!WrittenScalar(v)
        BY <3>2, WrittenScalars
      <4>2. CASE v.type = "scalar"
        BY <2>2, <4>1, <4>2, ScalarShapes DEF Objects!WrittenScalar
      <4>3. CASE v.type # "scalar"
        BY <2>2, <4>1, <4>3 DEF Objects!WrittenScalar
      <4>4. QED
        BY <4>2, <4>3
    <3>3. QED
      BY <3>1, <3>2
  <2>4. ValueIn("node", default, v) = v
        /\ ValueIn("node", default, Objects!WrittenValue(v)) = Objects!WrittenValue(v)
    BY <2>2, <2>3, DeserializedValue
  <2>5. QED
    BY <2>1, <2>4 DEF Back, Read
<1>3. QED
  BY <1>1, <1>2

\* Strings come back as a list.
LEMMA ListsBack ==
  ASSUME NEW default, NEW v, v # Absent, Fits("strv", v)
  PROVE  /\ Back("strv", default, v) = v
         /\ Read("strv", default, v) = Objects!Chosen(v, {i \in DOMAIN v : v[i].form # "null"})
<1>1. PICK n \in Nat : v = [i \in 1..n |-> v[i]]
  BY DEF Fits
<1>2. Objects!SerializeProperty("strv", v) = Objects!Strings(v)
  BY DEF Objects!SerializeProperty
<1> DEFINE a == Objects!Strings(v)  w == Objects!WrittenValue(Objects!Strings(v))
<1>3. /\ a.type = "sequence" /\ w.type = "sequence" /\ Objects!TextsIn(a.elements) = v
      /\ Objects!TextsIn(w.elements) = Objects!Chosen(v, {i \in DOMAIN v : v[i].form # "null"})
  <2>1. IsList(v, n)
    BY <1>1 DEF IsList
  <2>2. /\ a.type = "sequence" /\ w.type = "sequence" /\ Objects!TextsIn(a.elements) = v
        /\ Objects!TextsIn(w.elements) = Objects!Chosen(v, NotNull(v))
    BY <2>1, StringsBack
  <2>3. QED
    BY <2>2 DEF NotNull
<1>4. Back("strv", default, v) = ValueIn("strv", default, a)
      /\ Read("strv", default, v) = ValueIn("strv", default, w)
  BY <1>2 DEF Back, Read
<1> HIDE DEF a, w
<1>5. ValueIn("strv", default, a) = Objects!TextsIn(a.elements)
      /\ ValueIn("strv", default, w) = Objects!TextsIn(w.elements)
  BY <1>3, DeserializedValue
<1>6. QED
  BY <1>3, <1>4, <1>5

\* What a property is set to for a node, if its class does not convert it.
LEMMA MemberValue ==
  ASSUME Objects!GObjectAssumption, NEW p \in DOMAIN Objects!Property, NEW n,
         ~(Objects!Property[p].custom /\ ~Objects!Property[p].construct_only)
  PROVE  LET d == Objects!Property[p] IN
         /\ d.type \notin {"object", "enum", "flags", "masks"} =>
              Objects!FromMember(p, n) = ValueIn(d.type, d.default, n)
         /\ d.type \in {"flags", "masks"} =>
              Objects!FromMember(p, n) = IF ValueIn(d.type, d.default, n) \subseteq Objects!Bits
                                   THEN ValueIn(d.type, d.default, n) ELSE d.default
         /\ d.type = "enum" =>
              Objects!FromMember(p, n) = IF ValueIn(d.type, d.default, n) \in Objects!Enum
                                   THEN ValueIn(d.type, d.default, n) ELSE d.default
         /\ d.type = "object" => Objects!FromMember(p, n) = d.default
<1> DEFINE d == Objects!Property[p]
           r == Objects!DeserializeProperty(d.type, d.default, n)
           value == ValueIn(d.type, d.default, n)
<1>1. Objects!FromMember(p, n) = IF r.handled THEN Objects!Conforming(d.type, d.default, r.value) ELSE d.default
  BY DEF Objects!FromMember
<1>2. r.value = value /\ r.handled = HandledIn(d.type, d.default, n)
  BY DEF ValueIn, HandledIn
<1>3. d.type # "other"
  BY PropertyTable
<1>4. CASE d.type = "object"
  <2>1. Objects!FromMember(p, n) = d.default
    <3>1. CASE n.type = "null"
      <4>1. value = d.default
        BY <3>1, DeserializedOtherwise
      <4>2. Objects!Conforming(d.type, d.default, value) = value
        BY <1>4 DEF Objects!Conforming
      <4> HIDE DEF r, value
      <4>3. QED
        BY <1>1, <1>2, <4>1, <4>2
    <3>2. CASE n.type # "null"
      <4>1. ~HandledIn(d.type, d.default, n)
        BY <1>4, <3>2, DeserializedOtherwise
      <4> HIDE DEF r
      <4>2. QED
        BY <1>1, <1>2, <4>1
    <3>3. QED
      BY <3>1, <3>2
  <2>2. QED
    BY <1>4, <2>1
<1>5. CASE d.type # "object"
  <2>1. HandledIn(d.type, d.default, n)
    BY <1>3, <1>5, DeserializedOtherwise
  <2> HIDE DEF r, value
  <2>2. Objects!FromMember(p, n) = Objects!Conforming(d.type, d.default, value)
    BY <1>1, <1>2, <2>1
  <2>3. Objects!Conforming(d.type, d.default, value) =
          IF d.type = "enum" THEN (IF value \in Objects!Enum THEN value ELSE d.default)
          ELSE IF d.type \in {"flags", "masks"}
            THEN (IF value \subseteq Objects!Bits THEN value ELSE d.default)
          ELSE value
    BY DEF Objects!Conforming
  <2> HIDE DEF d
  <2>4. /\ d.type \notin {"enum", "flags", "masks"} => Objects!FromMember(p, n) = value
        /\ d.type \in {"flags", "masks"} =>
             Objects!FromMember(p, n) = IF value \subseteq Objects!Bits THEN value ELSE d.default
        /\ d.type = "enum" => Objects!FromMember(p, n) = IF value \in Objects!Enum THEN value ELSE d.default
    BY <2>2, <2>3
  <2>5. QED
    BY <1>5, <2>4 DEF d, value
<1>6. QED
  BY <1>4, <1>5

\* The member that is made for a value.
Member(p, v) ==
  IF Objects!Property[p].custom THEN Objects!CustomSerialize(v) ELSE Objects!SerializeProperty(Objects!Property[p].type, v)

\* Whether a value of a property is given back, see ObjectsRoundTrip.
Kept(p, v, w) == IF Objects!Property[p].type = "masks" THEN v \subseteq w ELSE w = v

\* What is converted by the class comes back.
LEMMA CustomBack ==
  ASSUME Values!ScalarsAssumption, Objects!GObjectAssumption, NEW p \in DOMAIN Objects!Property, NEW v,
         Objects!Property[p].custom, ~Objects!Property[p].construct_only, Fits("enum", v)
  PROVE  Objects!FromMember(p, Member(p, v)) = v /\ Objects!FromMember(p, Objects!WrittenValue(Member(p, v))) = v
<1> DEFINE n == Objects!InitString(Objects!Text("word", v))
<1>1. Member(p, v) = n /\ Objects!Property[p].type = "enum"
  BY PropertyTable DEF Member, Objects!CustomSerialize
<1>2. n.type = "scalar" /\ n.text = Objects!Text("word", v) /\ n.cache = Objects!Parsed(Objects!Text("word", v))
  BY ScalarShapes
<1>3. Objects!Text("word", v).form = "word" /\ Objects!Text("word", v).value = v
  BY DEF Objects!Text
<1>4. Objects!GetInt(n) = v
  <2>1. ~Objects!IsCoreInt(n.text)
    BY <1>2, <1>3 DEF Objects!IsCoreInt
  <2>2. n.cache.int = Absent
    BY <1>2, <1>3, <2>1 DEF Objects!Parsed, Objects!NoCache
  <2>3. Objects!LeadingInt(n.text) = v
    BY <1>2, <1>3 DEF Objects!LeadingInt
  <2> HIDE DEF n
  <2>4. QED
    BY <1>2, <2>1, <2>2, <2>3 DEF Objects!GetInt, Objects!IsScalar
<1>5. Objects!WrittenValue(n) = n
  BY <1>2, <1>3, WrittenScalars
<1>6. v \in Objects!Enum
  BY DEF Fits
<1> HIDE DEF n
<1>7. Objects!FromMember(p, n) = v
  BY <1>1, <1>4, <1>6 DEF Objects!FromMember, Objects!CustomDeserialize, Objects!Conforming
<1>8. QED
  BY <1>1, <1>5, <1>7

\* Whatever an object may hold in a property that YAML holds comes back.
LEMMA MembersBack ==
  ASSUME Values!ScalarsAssumption, Objects!GObjectAssumption, NEW p \in DOMAIN Objects!Property, NEW v,
         Fits(Objects!Property[p].type, v), Objects!Property[p].type # "object",
         ~(Objects!Property[p].construct_only /\ Objects!Property[p].custom),
         v = Absent => Objects!Property[p].default = Absent /\ Objects!Property[p].type # "strv"
  PROVE  /\ Kept(p, v, Objects!FromMember(p, Member(p, v)))
         /\ Objects!SameAsText(p, v, Objects!FromMember(p, Objects!WrittenValue(Member(p, v))))
<1> DEFINE d == Objects!Property[p]
           back == Objects!FromMember(p, Member(p, v))
           read == Objects!FromMember(p, Objects!WrittenValue(Member(p, v)))
<1>1. CASE d.custom
  <2>1. d.type = "enum" /\ ~d.construct_only
    BY <1>1, PropertyTable
  <2>2. back = v /\ read = v
    BY <1>1, <2>1, CustomBack
  <2> HIDE DEF back, read
  <2>3. QED
    BY <2>1, <2>2 DEF Kept, Objects!SameAsText, back, read
<1>2. CASE ~d.custom
  <2> DEFINE n == Objects!SerializeProperty(d.type, v)
  <2>1. Member(p, v) = n
    BY <1>2 DEF Member
  <2>2. d.type \notin {"object", "enum", "flags", "masks"} =>
          back = Back(d.type, d.default, v) /\ read = Read(d.type, d.default, v)
    BY <1>2, <2>1, MemberValue DEF Back, Read
  <2>3. d.type = "enum" => back = v /\ read = v
    <3>1. ASSUME d.type = "enum" PROVE v \in Objects!Enum
      BY <3>1 DEF Fits
    <3>2. Back("enum", d.default, v) = v /\ Read("enum", d.default, v) = v
      BY NamesBack
    <3>3. QED
      BY <1>2, <2>1, <3>1, <3>2, MemberValue DEF Back, Read
  <2>4. d.type \in {"boolean", "int", "uint64", "double", "string", "strv", "enum", "flags",
                    "masks", "node"}
    BY PropertyTable
  <2> HIDE DEF back, read
  <2>5. CASE d.type = "enum"
    BY <2>3, <2>5 DEF Kept, Objects!SameAsText, back, read
  <2>6. CASE d.type = "boolean"
    <3>1. back = v /\ read = v
      BY <2>2, <2>6, BooleansBack DEF Fits
    <3>2. QED
      BY <2>6, <3>1 DEF Kept, Objects!SameAsText, back, read
  <2>7. CASE d.type \in {"int", "uint64"}
    <3>1. back = v /\ read = v
      BY <2>2, <2>7, IntegersBack DEF Fits
    <3>2. QED
      BY <2>7, <3>1 DEF Kept, Objects!SameAsText, back, read
  <2>8. CASE d.type = "double"
    <3>1. back = v /\ Objects!PrintedDouble(read) = Objects!PrintedDouble(v)
      BY <2>2, <2>8, DoublesBack DEF Fits
    <3>2. QED
      BY <2>8, <3>1 DEF Kept, Objects!SameAsText, back, read
  <2>9. CASE d.type = "string"
    <3>1. back = v /\ (v = read \/ (v # Absent /\ v.form = "null"))
      BY <2>2, <2>9, NamesBack
    <3>2. QED
      BY <2>9, <3>1 DEF Kept, Objects!SameAsText, back, read
  <2>10. CASE d.type = "strv"
    <3>1. back = v /\ read = Objects!Chosen(v, NotNull(v))
      BY <2>2, <2>10, ListsBack DEF NotNull
    <3>2. QED
      BY <2>10, <3>1 DEF Kept, Objects!SameAsText, back, read, NotNull
  <2>11. CASE d.type \in {"flags", "masks"}
    <3>1. v \in SUBSET Objects!Bits
      BY <2>11 DEF Fits
    <3>2. /\ d.type = "flags" => Back(d.type, d.default, v) = v /\ Read(d.type, d.default, v) = v
          /\ d.type = "masks" => /\ v \subseteq Back(d.type, d.default, v)
                                 /\ v \subseteq Read(d.type, d.default, v)
          /\ Back(d.type, d.default, v) \subseteq Objects!Bits
          /\ Read(d.type, d.default, v) \subseteq Objects!Bits
      BY <2>11, <3>1, FlagsBack
    <3>3. /\ back = IF Back(d.type, d.default, v) \subseteq Objects!Bits
                      THEN Back(d.type, d.default, v) ELSE d.default
          /\ read = IF Read(d.type, d.default, v) \subseteq Objects!Bits
                      THEN Read(d.type, d.default, v) ELSE d.default
      BY <1>2, <2>1, <2>11, MemberValue DEF Back, Read, back, read
    <3>4. QED
      BY <2>11, <3>2, <3>3 DEF Kept, Objects!SameAsText, back, read
  <2>12. CASE d.type = "node"
    <3>1. back = v /\ (v # Absent => read = Objects!WrittenValue(v))
      BY <2>2, <2>12, NodesBack
    <3>2. QED
      BY <2>12, <3>1 DEF Kept, Objects!SameAsText, back, read
  <2>13. QED
    BY <2>4, <2>5, <2>6, <2>7, <2>8, <2>9, <2>10, <2>11, <2>12
<1>3. QED
  BY <1>1, <1>2

\* The elements of a finite set in a sequence.
LEMMA ListedAsSequence ==
  ASSUME NEW P, IsFiniteSet(P)
  PROVE  /\ DOMAIN Objects!SetToSeq(P) = 1..Cardinality(P)
         /\ \A i \in DOMAIN Objects!SetToSeq(P) : Objects!SetToSeq(P)[i] \in P
         /\ \A p \in P : \E i \in DOMAIN Objects!SetToSeq(P) : Objects!SetToSeq(P)[i] = p
<1> DEFINE T == 1..Cardinality(P)
           is(f) == f \in [T -> P] /\ \A a, b \in T : f[a] = f[b] => a = b
<1>1. Cardinality(P) \in Nat /\ \E f : is(f)
  <2>1. Cardinality(P) \in Nat /\ ExistsBijection(T, P)
    BY FS_CardinalityType
  <2>2. PICK f \in Bijection(T, P) : TRUE
    BY <2>1 DEF ExistsBijection
  <2>3. is(f)
    BY <2>2 DEF Bijection, Injection, IsInjective
  <2> HIDE DEF is
  <2>4. QED
    BY <2>1, <2>3
<1>2. \A f \in [T -> P] : Objects!IsInjective(f) <=> is(f)
  BY DEF Objects!IsInjective
<1>3. Objects!SetToSeq(P) = CHOOSE f \in [T -> P] : Objects!IsInjective(f)
  BY SameCounts DEF Objects!SetToSeq
<1> DEFINE s == Objects!SetToSeq(P)
<1>4. is(s)
  <2>1. \E f \in [T -> P] : Objects!IsInjective(f)
    BY <1>1, <1>2
  <2>2. s \in [T -> P] /\ Objects!IsInjective(s)
    BY <1>3, <2>1
  <2>3. QED
    BY <1>2, <2>2
<1>5. s \in Injection(T, P)
  BY <1>4 DEF Injection, IsInjective
<1>6. IsFiniteSet(T) /\ Cardinality(T) = Cardinality(P)
  BY <1>1, FS_Interval
<1> HIDE DEF T, s
<1>7. s \in Surjection(T, P)
  BY <1>5, <1>6, FS_Injection
<1>8. QED
  BY <1>4, <1>7 DEF Surjection, T, s

\* Whether a tree has a member for a property, and what such members are.
HasMemberFor(tree, p) == Objects!Places(tree, p) # {}
IsMember(tree, p, n)  == \A i \in Objects!Places(tree, p) : tree.members[i].child = n

\* What is written for a property is found in the tree, and so it is in its text.
LEMMA WrittenMembers ==
  ASSUME NEW o, IsFiniteSet(DOMAIN o), NEW p \in DOMAIN o, ~Objects!Skipped(p)
  PROVE  /\ HasMemberFor(Objects!Serialize(o), p) /\ IsMember(Objects!Serialize(o), p, Member(p, o[p]))
         /\ HasMemberFor(Objects!Written(Objects!Serialize(o)), p)
         /\ IsMember(Objects!Written(Objects!Serialize(o)), p, Objects!WrittenValue(Member(p, o[p])))
<1> DEFINE P == {q \in DOMAIN o : ~Objects!Skipped(q)}
           names == Objects!SetToSeq(P)
           made(i) == Member(names[i], o[names[i]])
           read(i) == Objects!WrittenValue(made(i))
           ms == [i \in DOMAIN names |-> Objects!Pair(names[i], made(i))]
           ws == [i \in DOMAIN names |-> Objects!Pair(names[i], read(i))]
           tree == Objects!Serialize(o)
           text == Objects!Written(Objects!Serialize(o))
<1>1. PICK j \in DOMAIN names : names[j] = p
  <2>1. IsFiniteSet(P) /\ p \in P
    BY FS_Subset
  <2> HIDE DEF P
  <2>2. QED
    BY <2>1, ListedAsSequence
<1>2. tree.type = "mapping" /\ tree.members = ms
  <2>1. tree = Objects!MappingOf([i \in DOMAIN names |->
          Objects!Pair(names[i], IF Objects!Property[names[i]].custom
                           THEN Objects!CustomSerialize(o[names[i]])
                           ELSE Objects!SerializeProperty(Objects!Property[names[i]].type, o[names[i]]))])
    BY DEF Objects!Serialize
  <2>2. tree = Objects!MappingOf(ms)
    BY <2>1 DEF Member
  <2> HIDE DEF ms, tree
  <2>3. QED
    BY <2>2 DEF Objects!MappingOf
<1> HIDE DEF tree
<1>3. text.members = ws
  <2>1. text = Objects!MappingOf([i \in DOMAIN tree.members |->
                 Objects!Pair(tree.members[i].key, Objects!WrittenValue(tree.members[i].child))])
    BY <1>2 DEF Objects!Written, Objects!WrittenWith, tree
  <2> HIDE DEF text, names, made
  <2>2. \A i \in DOMAIN names : ms[i].key = names[i] /\ ms[i].child = made(i)
    BY DEF Objects!Pair
  <2>3. DOMAIN ms = DOMAIN names
    OBVIOUS
  <2> HIDE DEF ms
  <2>4. text = Objects!MappingOf(ws)
    BY <1>2, <2>1, <2>2, <2>3
  <2> HIDE DEF ws
  <2>5. QED
    BY <2>4 DEF Objects!MappingOf
<1> HIDE DEF text, names
<1>4. /\ DOMAIN ms = DOMAIN names /\ DOMAIN ws = DOMAIN names
      /\ \A i \in DOMAIN names : /\ ms[i].key = names[i] /\ ms[i].child = made(i)
                                 /\ ws[i].key = names[i] /\ ws[i].child = read(i)
  <2> HIDE DEF made, read
  <2>1. QED
    BY DEF Objects!Pair
<1>5. \A i \in DOMAIN names : names[i] = p =>
        made(i) = Member(p, o[p]) /\ read(i) = Objects!WrittenValue(Member(p, o[p]))
  OBVIOUS
<1> HIDE DEF made, read, ms, ws
<1>6. /\ \A i : i \in Objects!Places(tree, p) <=> i \in DOMAIN names /\ names[i] = p
      /\ \A i : i \in Objects!Places(text, p) <=> i \in DOMAIN names /\ names[i] = p
  BY <1>2, <1>3, <1>4 DEF Objects!Places
<1>7. HasMemberFor(tree, p) /\ HasMemberFor(text, p)
  BY <1>1, <1>6 DEF HasMemberFor
<1>8. IsMember(tree, p, Member(p, o[p])) /\ IsMember(text, p, Objects!WrittenValue(Member(p, o[p])))
  BY <1>2, <1>3, <1>4, <1>5, <1>6 DEF IsMember
<1>9. QED
  BY <1>7, <1>8 DEF tree, text

\* What an object is made of that a tree has a member for.
LEMMA MadeOfMembers ==
  ASSUME NEW c, NEW p \in c, NEW tree, NEW n,
         HasMemberFor(tree, p), IsMember(tree, p, n), Objects!Property[p].writable
  PROVE  Objects!Deserialize(c, tree)[p] = Objects!FromMember(p, n)
<1>1. PICK k : k \in Objects!Places(tree, p)
  BY DEF HasMemberFor
<1> DEFINE i == CHOOSE j \in Objects!Places(tree, p) : TRUE
<1>2. i \in Objects!Places(tree, p)
  BY <1>1
<1> HIDE DEF i
<1>3. tree.members[i].child = n
  BY <1>2 DEF IsMember
<1>4. Objects!Deserialize(c, tree)[p] = Objects!FromMember(p, tree.members[i].child)
  BY DEF Objects!Deserialize, HasMemberFor, i
<1>5. QED
  BY <1>3, <1>4

-----------------------------------------------------------------------------
(* What an object holds. *)

\* A scalar with a number in its text, and none or a number beside it.
Numeric(n) ==
  /\ n.type = "scalar" /\ n.text.value \in Int
  /\ n.cache.int \in Int \cup {Absent} /\ n.cache.double \in Int \cup {Absent}

\* Numbers are read from it.
LEMMA NumbersRead ==
  ASSUME Objects!GObjectAssumption, NEW n, Numeric(n)
  PROVE  Objects!GetInt(n) \in Int /\ Objects!GetDouble(n) \in Int
<1>1. ASSUME NEW x \in Int PROVE Objects!ToDouble(x) \in Int
  BY DEF Objects!ToDouble, Objects!Magnitude
<1>2. Objects!LeadingInt(n.text) \in Int
  <2>1. Objects!IntMin \in Int /\ Objects!IntMax \in Int
    <3>1. Half(Width) \in Nat
      BY Bounds
    <3>2. QED
      BY <3>1 DEF Half, Objects!IntMin, Objects!IntMax
  <2>2. Objects!Truncated(n.text.value) \in Int
    BY DEF Numeric, Objects!Truncated, Objects!Magnitude
  <2> DEFINE t == n.text
  <2>3. t.value \in Int
    BY DEF Numeric
  <2> HIDE DEF t
  <2>4. Objects!LeadingInt(t) \in Int
    BY <2>1, <2>2, <2>3 DEF Objects!LeadingInt, t
  <2>5. QED
    BY <2>4 DEF t
<1>3. Objects!WholeDouble(n.text) \in Int \cup {Absent}
  <2>1. n.text.value \in Int /\ Objects!ToDouble(n.text.value) \in Int
    BY <1>1 DEF Numeric
  <2>2. QED
    BY <2>1 DEF Objects!WholeDouble
<1>4. Objects!GetInt(n) \in Int
  BY <1>2 DEF Objects!GetInt, Objects!IsScalar, Numeric
<1>5. Objects!GetDouble(n) \in Int
  <2>1. Objects!ToDouble(Objects!LeadingInt(n.text)) \in Int
    BY <1>1, <1>2
  <2>2. QED
    BY <1>3, <2>1 DEF Objects!GetDouble, Objects!IsScalar, Numeric
<1>6. QED
  BY <1>4, <1>5

\* Scalars with numbers.
LEMMA NumericScalars ==
  /\ \A x \in Int : Numeric(Objects!InitInt(x))
  /\ \A d \in Int : Numeric(Objects!InitDouble(d))
  /\ Numeric(Objects!InitBoolean(TRUE))
  /\ \A f, x : x \in Int => Numeric(Objects!InitString(Objects!Text(f, x)))
<1>1. ASSUME NEW x \in Int PROVE Objects!ToDouble(x) \in Int
  BY DEF Objects!ToDouble, Objects!Magnitude
<1>2. ASSUME NEW x \in Int PROVE Numeric(Objects!InitInt(x))
  <2>1. Objects!ToDouble(x) \in Int
    BY <1>1
  <2>2. QED
    BY <2>1, ScalarShapes DEF Numeric
<1>3. ASSUME NEW d \in Int PROVE Numeric(Objects!InitDouble(d))
  <2>1. Objects!PrintedDouble(d).value \in Int
    BY DEF Objects!PrintedDouble, Objects!Text, Objects!Magnitude
  <2>2. QED
    BY <2>1, ScalarShapes DEF Numeric
<1>4. Numeric(Objects!InitBoolean(TRUE))
  BY DEF Numeric, Objects!InitBoolean, Objects!Scalar, Objects!NoCache, Objects!Text
<1>5. ASSUME NEW f, NEW x \in Int PROVE Numeric(Objects!InitString(Objects!Text(f, x)))
  <2> DEFINE t == Objects!Text(f, x)
  <2>1. t.form = f /\ t.value = x
    BY DEF Objects!Text
  <2> HIDE DEF t
  <2>2. Objects!WholeDouble(t) \in Int \cup {Absent} /\ Objects!ToDouble(t.value) \in Int
    BY <1>1, <2>1 DEF Objects!WholeDouble
  <2>3. Objects!Parsed(t).int \in Int \cup {Absent} /\ Objects!Parsed(t).double \in Int \cup {Absent}
    BY <2>1, <2>2 DEF Objects!Parsed, Objects!NoCache
  <2>4. Numeric(Objects!InitString(t))
    BY <2>1, <2>3, ScalarShapes DEF Numeric
  <2>5. QED
    BY <2>4 DEF t
<1>6. QED
  BY <1>2, <1>3, <1>4, <1>5

\* What may be relied on of a member written by hand.
Usable(n) ==
  /\ Objects!GetInt(n) \in Int /\ Objects!GetDouble(n) \in Int
  /\ n.type = "scalar" => n.text.form # "null"
  /\ n.type = "sequence" => \E m \in Nat : DOMAIN n.elements = 1..m

\* Members written by hand are such.
LEMMA HandwrittenMembers ==
  ASSUME Values!ScalarsAssumption, Objects!GObjectAssumption, NEW n \in Objects!Handwritten
  PROVE  Usable(n)
<1>1. ASSUME NEW x, Numeric(x), x.text.form # "null" PROVE Usable(x)
  <2>1. Objects!GetInt(x) \in Int /\ Objects!GetDouble(x) \in Int /\ x.type = "scalar"
    BY <1>1, NumbersRead DEF Numeric
  <2>2. QED
    BY <1>1, <2>1 DEF Usable
<1>2. ASSUME NEW x, x.type \notin {"scalar", "sequence"} PROVE Usable(x)
  <2>1. Objects!GetInt(x) \in Int /\ Objects!GetDouble(x) \in Int
    BY <1>2 DEF Objects!GetInt, Objects!GetDouble, Objects!IsScalar
  <2>2. QED
    BY <1>2, <2>1 DEF Usable
<1>3. CASE n = Objects!InitNull \/ n = Objects!MappingOf(<<>>)
  <2>1. n.type \notin {"scalar", "sequence"}
    BY <1>3 DEF Objects!InitNull, Objects!MappingOf
  <2>2. QED
    BY <1>2, <2>1
<1>4. CASE n = Objects!InitInt(Objects!IntMax) \/ n = Objects!InitInt(1)
  <2>1. Objects!IntMax \in Int
    <3>1. Half(Width) \in Nat
      BY Bounds
    <3>2. QED
      BY <3>1 DEF Half, Objects!IntMax
  <2>2. Numeric(n)
    BY <1>4, <2>1, NumericScalars
  <2>3. n.text.form # "null"
    BY <1>4, ScalarShapes
  <2>4. QED
    BY <1>1, <2>2, <2>3
<1>5. CASE n = Objects!InitDouble(6)
  <2>1. Objects!PrintedDouble(6).form # "null"
    BY ScalarShapes DEF Objects!PrintedDouble
  <2>2. Numeric(n) /\ n.text.form # "null"
    BY <1>5, <2>1, NumericScalars, ScalarShapes
  <2>3. QED
    BY <1>1, <2>2
<1>6. CASE n = Objects!InitBoolean(TRUE)
  <2>1. n.text.form # "null"
    BY <1>6 DEF Objects!InitBoolean, Objects!Scalar, Objects!Text
  <2>2. Numeric(n)
    BY <1>6, NumericScalars
  <2>3. QED
    BY <1>1, <2>1, <2>2
<1>7. CASE n = Objects!InitString(Objects!Text("word", 1)) \/ n = Objects!InitString(Objects!Text("name", 1))
  <2>1. Numeric(n) /\ n.text.form # "null"
    BY <1>7, NumericScalars, ScalarShapes
  <2>2. QED
    BY <1>1, <2>1
<1>8. CASE n = Objects!SequenceOf(<<Objects!InitNull, Objects!InitString(Objects!Text("name", {1}))>>)
  <2> DEFINE s == <<Objects!InitNull, Objects!InitString(Objects!Text("name", {1}))>>
  <2>1. DOMAIN s = 1..2
    OBVIOUS
  <2> HIDE DEF s
  <2>2. n.type = "sequence" /\ n.elements = s
    BY <1>8 DEF Objects!SequenceOf, s
  <2>3. Objects!GetInt(n) \in Int /\ Objects!GetDouble(n) \in Int
    BY <2>2 DEF Objects!GetInt, Objects!GetDouble, Objects!IsScalar
  <2>4. QED
    BY <2>1, <2>2, <2>3 DEF Usable
<1>9. QED
  BY <1>3, <1>4, <1>5, <1>6, <1>7, <1>8 DEF Objects!Handwritten

\* What is made of a usable node fits its property.
LEMMA ReadMembersFit ==
  ASSUME Objects!GObjectAssumption, NEW p \in DOMAIN Objects!Property, NEW n, Usable(n)
  PROVE  Fits(Objects!Property[p].type, Objects!FromMember(p, n))
<1> DEFINE d == Objects!Property[p]
           v == Objects!FromMember(p, n)
           value == ValueIn(d.type, d.default, n)
<1>1. Fits(d.type, d.default)
  BY PropertyTable
<1>2. CASE d.type = "enum"
  <2>1. v \in Objects!Enum \/ v = d.default
    <3>1. CASE d.custom /\ ~d.construct_only
      BY <1>2, <3>1 DEF Objects!FromMember, Objects!CustomDeserialize, Objects!Conforming
    <3>2. CASE ~(d.custom /\ ~d.construct_only)
      <4> HIDE DEF v
      <4>1. v = IF value \in Objects!Enum THEN value ELSE d.default
        BY <1>2, <3>2, MemberValue DEF v
      <4>2. QED
        BY <4>1
    <3>3. QED
      BY <3>1, <3>2
  <2> HIDE DEF v
  <2>2. v \in Objects!Enum
    BY <1>1, <1>2, <2>1 DEF Fits
  <2>3. QED
    BY <1>2, <2>2 DEF Fits, v
<1>3. CASE d.type # "enum"
  <2>1. ~(d.custom /\ ~d.construct_only)
    BY <1>3, PropertyTable
  <2>2. /\ d.type = "object" => v = d.default
        /\ d.type \notin {"object", "flags", "masks"} => v = value
        /\ d.type \in {"flags", "masks"} => v = IF value \subseteq Objects!Bits THEN value ELSE d.default
    BY <1>3, <2>1, MemberValue
  <2>3. CASE n.type = "null"
    <3>1. value = d.default
      BY <2>3, DeserializedOtherwise
    <3> HIDE DEF v, value
    <3>2. QED
      BY <1>1, <2>2, <3>1 DEF v
  <2>4. CASE n.type # "null"
    <3> HIDE DEF v
    <3>1. Objects!GetInt(n) \in Int /\ Objects!GetDouble(n) \in Int
      BY DEF Usable
    <3>2. CASE d.type = "boolean"
      <4>1. value = Objects!GetBoolean(n)
        BY <2>4, <3>2, DeserializedValue
      <4>2. Objects!GetBoolean(n) \in BOOLEAN
        BY DEF Objects!GetBoolean
      <4>3. v \in BOOLEAN
        BY <2>2, <3>2, <4>1, <4>2
      <4>4. QED
        BY <3>2, <4>3 DEF Fits, v
    <3>3. CASE d.type = "int"
      <4>1. value = Signed(Objects!GetInt(n), Narrow)
        BY <2>4, <3>3, DeserializedValue
      <4>2. Half(Narrow) \in Nat /\ Half(Narrow) > 0 /\ IsHalf(Half(Narrow), Narrow)
        BY Bounds
      <4>3. v \in (-Half(Narrow))..(Half(Narrow) - 1)
        BY <2>2, <3>1, <3>3, <4>1, <4>2, CastKeeps
      <4>4. QED
        BY <3>3, <4>3 DEF Fits, v
    <3>4. CASE d.type = "uint64"
      <4>1. value = Unsigned(Objects!GetInt(n), Width)
        BY <2>4, <3>4, DeserializedValue
      <4>2. Half(Width) \in Nat /\ Half(Width) > 0 /\ IsHalf(Half(Width), Width)
        BY Bounds
      <4>3. v \in 0..(2 * Half(Width) - 1)
        BY <2>2, <3>1, <3>4, <4>1, <4>2, CastKeeps
      <4>4. QED
        BY <3>4, <4>3 DEF Fits, v
    <3>5. CASE d.type = "double"
      <4>1. v = Objects!GetDouble(n)
        BY <2>2, <2>4, <3>5, DeserializedValue
      <4>2. QED
        BY <3>1, <3>5, <4>1 DEF Fits, v
    <3>6. CASE d.type = "strv"
      <4>1. v = IF n.type = "sequence" THEN Objects!TextsIn(n.elements) ELSE Absent
        BY <2>2, <2>4, <3>6, DeserializedValue
      <4>2. ASSUME n.type = "sequence"
            PROVE  \E m \in Nat : v = [i \in 1..m |-> v[i]]
        <5>1. PICK k \in Nat : DOMAIN n.elements = 1..k
          BY <4>2 DEF Usable
        <5> DEFINE at == {i \in DOMAIN n.elements : Objects!IsScalar(n.elements[i])}
                   c == Objects!Chosen(n.elements, at)
        <5>2. v = [i \in DOMAIN c |-> c[i].text]
          BY <4>1, <4>2 DEF Objects!TextsIn
        <5>3. at \in SUBSET (1..k)
          BY <5>1
        <5> HIDE DEF at
        <5>4. PICK m \in Nat : DOMAIN c = 1..m
          BY <5>3, ChosenElements
        <5> HIDE DEF c
        <5>5. v = [i \in 1..m |-> v[i]]
          BY <5>2, <5>4
        <5>6. QED
          BY <5>5
      <4>3. v = Absent \/ \E m \in Nat : v = [i \in 1..m |-> v[i]]
        BY <4>1, <4>2
      <4>4. QED
        BY <3>6, <4>3 DEF Fits, v
    <3>7. CASE d.type \in {"flags", "masks"}
      <4>1. d.default \in SUBSET Objects!Bits
        BY <1>1, <3>7 DEF Fits
      <4>2. v \in SUBSET Objects!Bits
        BY <2>2, <3>7, <4>1
      <4>3. QED
        BY <3>7, <4>2 DEF Fits, v
    <3>8. CASE d.type = "node"
      <4>1. v = n
        BY <2>2, <2>4, <3>8, DeserializedValue
      <4>2. QED
        BY <2>4, <3>8, <4>1 DEF Fits, Usable, v
    <3>9. CASE d.type \in {"string", "object"}
      BY <3>9 DEF Fits
    <3>10. d.type \in {"boolean", "int", "uint64", "double", "string", "strv", "flags", "masks",
                       "node", "object"}
      BY <1>3, PropertyTable
    <3>11. QED
      BY <3>2, <3>3, <3>4, <3>5, <3>6, <3>7, <3>8, <3>9, <3>10
  <2>5. QED
    BY <2>3, <2>4
<1>4. QED
  BY <1>2, <1>3

\* What may be set fits as well.
LEMMA DomainsFit ==
  ASSUME Values!ScalarsAssumption, Objects!GObjectAssumption, NEW type, NEW v \in Objects!Domain(type),
         type \in {"boolean", "int", "uint64", "double", "string", "strv", "enum", "flags",
                   "masks", "node", "object"}
  PROVE  Fits(type, v)
<1>1. CASE type = "boolean"
  BY <1>1 DEF Objects!Domain, Fits
<1>2. CASE type = "int"
  BY <1>2 DEF Objects!Domain, Fits, Half
<1>3. CASE type = "uint64"
  BY <1>3 DEF Objects!Domain, Fits, Half
<1>4. CASE type = "double"
  <2>1. Exponent \in Int
    BY DEF Values!ScalarsAssumption
  <2>2. v \in Int
    BY <1>4, <2>1 DEF Objects!Domain
  <2>3. QED
    BY <1>4, <2>2 DEF Fits
<1>5. CASE type \in {"string", "object"}
  BY <1>5 DEF Fits
<1>6. CASE type = "strv"
  <2>1. v = Absent \/ v = <<>> \/ v = <<Objects!Text("word", 0), Objects!Text("null", 0)>>
    BY <1>6 DEF Objects!Domain
  <2>2. ASSUME v = <<>> PROVE \E m \in Nat : v = [i \in 1..m |-> v[i]]
    <3>1. v = [i \in 1..0 |-> v[i]]
      BY <2>2
    <3>2. QED
      BY <3>1
  <2>3. ASSUME v = <<Objects!Text("word", 0), Objects!Text("null", 0)>>
        PROVE  \E m \in Nat : v = [i \in 1..m |-> v[i]]
    <3> DEFINE a == Objects!Text("word", 0)  b == Objects!Text("null", 0)
    <3>1. v = <<a, b>>
      BY <2>3
    <3> HIDE DEF a, b
    <3>2. v = [i \in 1..2 |-> v[i]]
      BY <3>1
    <3>3. QED
      BY <3>2
  <2>4. QED
    BY <1>6, <2>1, <2>2, <2>3 DEF Fits
<1>7. CASE type = "enum"
  BY <1>7 DEF Objects!Domain, Fits
<1>8. CASE type \in {"flags", "masks"}
  BY <1>8 DEF Objects!Domain, Fits
<1>9. CASE type = "node"
  <2>1. v = Absent \/ v = Objects!InitInt(Objects!IntMax) \/ v = Objects!SequenceOf(<<Objects!InitNull>>)
    BY <1>9 DEF Objects!Domain
  <2>2. ASSUME v = Objects!InitInt(Objects!IntMax) PROVE v.type = "scalar" /\ v.text.form = "decimal"
    BY <2>2, ScalarShapes
  <2>3. ASSUME v = Objects!SequenceOf(<<Objects!InitNull>>) PROVE v.type = "sequence"
    BY <2>3 DEF Objects!SequenceOf
  <2>4. v = Absent \/ (v.type # "null" /\ (v.type = "scalar" => v.text.form # "null"))
    BY <2>1, <2>2, <2>3
  <2>5. QED
    BY <1>9, <2>4 DEF Fits
<1>10. QED
  BY <1>1, <1>2, <1>3, <1>4, <1>5, <1>6, <1>7, <1>8, <1>9

\* An object has the properties of its class, and each value fits.
ObjectInv ==
  object # Absent =>
    /\ class \subseteq DOMAIN Objects!Property /\ IsFiniteSet(class) /\ DOMAIN object = class
    /\ \A p \in class : Fits(Objects!Property[p].type, object[p])

\* Whatever is done with an object, its values fit.
LEMMA ObjectsFit ==
  ASSUME Values!ScalarsAssumption, Objects!GObjectAssumption
  PROVE  Objects!Spec => []ObjectInv
<1>1. Objects!Init => ObjectInv
  BY DEF Objects!Init, ObjectInv
<1>2. ASSUME ObjectInv, Objects!Next PROVE ObjectInv'
  <2>1. ASSUME NEW x \in DOMAIN Objects!Property, NEW y \in DOMAIN Objects!Property, Objects!New({x, y})
        PROVE  ObjectInv'
    <3> DEFINE c == {x, y}
    <3>1. class' = c /\ object' = [p \in c |-> Objects!Property[p].default]
      BY <2>1 DEF Objects!New
    <3>2. IsFiniteSet(c)
      <4>1. IsFiniteSet({x}) /\ c = {x} \cup {y}
        BY FS_Singleton
      <4> HIDE DEF c
      <4>2. QED
        BY <4>1, FS_AddElement
    <3>3. c \subseteq DOMAIN Objects!Property
      OBVIOUS
    <3> HIDE DEF c
    <3>4. \A p \in c : Fits(Objects!Property[p].type, Objects!Property[p].default)
      BY <3>3, PropertyTable
    <3>5. DOMAIN object' = c /\ \A p \in c : object'[p] = Objects!Property[p].default
      BY <3>1
    <3>6. QED
      BY <3>1, <3>2, <3>3, <3>4, <3>5 DEF ObjectInv
  <2>2. ASSUME NEW p \in class, NEW v \in Objects!Domain(Objects!Property[p].type), Objects!SetProperty(p, v)
        PROVE  ObjectInv'
    <3>1. object # Absent /\ class' = class /\ object' = [object EXCEPT ![p] = v]
      BY <2>2 DEF Objects!SetProperty
    <3>2. /\ class \subseteq DOMAIN Objects!Property /\ IsFiniteSet(class) /\ DOMAIN object = class
          /\ \A q \in class : Fits(Objects!Property[q].type, object[q])
      BY <1>2, <3>1 DEF ObjectInv
    <3>3. Fits(Objects!Property[p].type, v)
      BY <2>2, <3>2, DomainsFit, PropertyTable
    <3>4. DOMAIN object' = class /\ \A q \in class : object'[q] = IF q = p THEN v ELSE object[q]
      BY <3>1, <3>2
    <3>5. \A q \in class : Fits(Objects!Property[q].type, object'[q])
      BY <3>2, <3>3, <3>4
    <3>6. QED
      BY <3>1, <3>2, <3>4, <3>5 DEF ObjectInv
  <2>3. ASSUME NEW p \in class, NEW n \in Objects!Handwritten, Objects!Load(Objects!MappingOf(<<Objects!Pair(p, n)>>))
        PROVE  ObjectInv'
    <3> DEFINE tree == Objects!MappingOf(<<Objects!Pair(p, n)>>)
    <3>1. object # Absent /\ class' = class /\ object' = Objects!Deserialize(class, tree)
      BY <2>3 DEF Objects!Load
    <3>2. class \subseteq DOMAIN Objects!Property /\ IsFiniteSet(class)
      BY <1>2, <3>1 DEF ObjectInv
    <3>3. \A q : \A i \in Objects!Places(tree, q) : tree.members[i].child = n
      <4>1. tree.members = <<Objects!Pair(p, n)>>
        BY DEF Objects!MappingOf
      <4> HIDE DEF tree
      <4>2. DOMAIN tree.members = {1} /\ tree.members[1] = Objects!Pair(p, n)
        BY <4>1
      <4>3. tree.members[1].child = n
        BY <4>2 DEF Objects!Pair
      <4>4. QED
        BY <4>2, <4>3 DEF Objects!Places
    <3> HIDE DEF tree
    <3>4. DOMAIN object' = class
      BY <3>1 DEF Objects!Deserialize
    <3>5. ASSUME NEW q \in class PROVE Fits(Objects!Property[q].type, object'[q])
      <4>1. q \in DOMAIN Objects!Property
        BY <3>2
      <4>2. CASE Objects!Property[q].writable /\ HasMemberFor(tree, q)
        <5>1. object'[q] = Objects!FromMember(q, n)
          BY <3>1, <3>3, <4>2, MadeOfMembers DEF IsMember
        <5>2. QED
          BY <4>1, <5>1, HandwrittenMembers, ReadMembersFit
      <4>3. CASE ~(Objects!Property[q].writable /\ HasMemberFor(tree, q))
        <5>1. object'[q] = Objects!Property[q].default
          BY <3>1, <4>3 DEF Objects!Deserialize, HasMemberFor
        <5>2. QED
          BY <4>1, <5>1, PropertyTable
      <4>4. QED
        BY <4>2, <4>3
    <3>6. QED
      BY <3>1, <3>2, <3>4, <3>5 DEF ObjectInv
  <2>4. ASSUME NEW c \in {{x, y} : x \in DOMAIN Objects!Property, y \in DOMAIN Objects!Property}, Objects!New(c)
        PROVE  ObjectInv'
    <3>1. PICK x \in DOMAIN Objects!Property, y \in DOMAIN Objects!Property : c = {x, y}
      OBVIOUS
    <3>2. QED
      BY <2>1, <2>4, <3>1
  <2>5. CASE \E c \in {{x, y} : x \in DOMAIN Objects!Property, y \in DOMAIN Objects!Property} : Objects!New(c)
    BY <2>4, <2>5
  <2>6. CASE \E p \in class :
               \/ \E v \in Objects!Domain(Objects!Property[p].type) : Objects!SetProperty(p, v)
               \/ \E n \in Objects!Handwritten : Objects!Load(Objects!MappingOf(<<Objects!Pair(p, n)>>))
    BY <2>2, <2>3, <2>6
  <2>7. QED
    BY <1>2, <2>5, <2>6 DEF Objects!Next
<1>3. ObjectInv /\ UNCHANGED Objects!vars => ObjectInv'
  BY DEF Objects!vars, ObjectInv
<1>4. QED
  BY <1>1, <1>2, <1>3, PTL DEF Objects!Spec

\* An object whose values fit is given back by its tree and by its text.
LEMMA ObjectsComeBack ==
  ASSUME Values!ScalarsAssumption, Objects!GObjectAssumption, ObjectInv
  PROVE  Objects!ObjectsRoundTrip
<1>1. SUFFICES ASSUME object # Absent, NEW p \in class, Objects!Held(p)
               PROVE  LET tree == Objects!Serialize(object)
                          back == Objects!Deserialize(class, tree)
                          read == Objects!Deserialize(class, Objects!Written(tree)) IN
                      /\ Kept(p, object[p], back[p])
                      /\ Objects!SameAsText(p, object[p], read[p])
  BY DEF Objects!ObjectsRoundTrip, Kept
<1> DEFINE v == object[p]
           tree == Objects!Serialize(object)
           text == Objects!Written(tree)
<1>2. /\ p \in DOMAIN Objects!Property /\ IsFiniteSet(DOMAIN object) /\ DOMAIN object = class
      /\ Fits(Objects!Property[p].type, v)
  BY <1>1 DEF ObjectInv
<1>3. /\ ~Objects!Skipped(p) /\ Objects!Property[p].type # "object"
      /\ ~(Objects!Property[p].construct_only /\ Objects!Property[p].custom)
      /\ v = Absent => Objects!Property[p].default = Absent /\ Objects!Property[p].type # "strv"
  BY <1>1 DEF Objects!Held
<1>4. Objects!Property[p].writable
  BY <1>2, <1>3, PropertyTable
<1>5. /\ HasMemberFor(tree, p) /\ IsMember(tree, p, Member(p, v))
      /\ HasMemberFor(text, p) /\ IsMember(text, p, Objects!WrittenValue(Member(p, v)))
  BY <1>1, <1>2, <1>3, WrittenMembers
<1> HIDE DEF v, text, tree
<1>6. /\ Objects!Deserialize(class, tree)[p] = Objects!FromMember(p, Member(p, v))
      /\ Objects!Deserialize(class, text)[p] = Objects!FromMember(p, Objects!WrittenValue(Member(p, v)))
  BY <1>1, <1>4, <1>5, MadeOfMembers
<1>7. /\ Kept(p, v, Objects!FromMember(p, Member(p, v)))
      /\ Objects!SameAsText(p, v, Objects!FromMember(p, Objects!WrittenValue(Member(p, v))))
  BY <1>2, <1>3, MembersBack
<1>8. QED
  BY <1>6, <1>7 DEF v, text, tree

-----------------------------------------------------------------------------
(* Together. *)

\* A component that is not in focus stays as it begins, so each of them behaves as its
\* own specification says.
LEMMA ComponentsBehave == DataSpec => Values!Spec /\ Schemas!Spec /\ Objects!Spec
<1>1. DataInit => Values!Init /\ Schemas!Init /\ Objects!Init
  BY DEF DataInit
<1>2. [DataNext]_dataVars => [Values!Next]_node
  BY DEF DataNext, dataVars
<1>3. [DataNext]_dataVars => [Schemas!Next]_(Schemas!vars)
  BY DEF DataNext, dataVars, Schemas!vars
<1>4. [DataNext]_dataVars => [Objects!Next]_(Objects!vars)
  BY DEF DataNext, dataVars, Objects!vars
<1>5. QED
  BY <1>1, <1>2, <1>3, <1>4, PTL DEF DataSpec, Values!Spec, Schemas!Spec, Objects!Spec

\* Whatever was set before, in whatever order, the integer and the boolean that a scalar
\* gives are those of its text, and its double is that of its text up to what is printed,
\* for integers of any width (yaml-node.c:99-152, 262-330, 692-790).
THEOREM ReadsAlwaysFollowText == DataSpec => []ReadsFollowText
<1>1. Values!ReadsFollowText => ReadsFollowText
  BY DEF ReadsFollowText
<1>2. QED
  BY <1>1, ComponentsBehave, MadeScalarsFollowText, DataAssumption, PTL

\* A tree of any number of members and elements keeps its shape and its typed values on
\* its way to JSON and back, whatever doubles and integers are in it, and a copy is the
\* same tree and equals the original (yaml-node.c:355-447, 918-1150).
THEOREM ConversionsAlwaysKeepValues == DataSpec => []ConversionsKeepValues
<1>1. Values!ConversionsKeepValues => ConversionsKeepValues
  BY DEF ConversionsKeepValues
<1>2. QED
  BY <1>1, ComponentsBehave, MadeTreesKeepValues, DataAssumption, PTL

\* However schemas are described, and whatever schemas use each other or themselves: a
\* tree (of those in Trees) is accepted if nothing in it is wrong, and
\* otherwise what is reported is wrong and is where the path says (yaml-schema.c:458-870).
THEOREM DefectsAreReported == DataSpec => []ReportsDefects
<1>1. Schemas!ReportsDefects => ReportsDefects
  BY DEF ReportsDefects
<1>2. Schemas!ScalarsAssumption
  BY DataAssumption DEF Schemas!ScalarsAssumption, Values!ScalarsAssumption, Schemas!IntMax,
     Values!IntMax
<1>3. QED
  BY <1>1, <1>2, ComponentsBehave, SchemasReportDefects, DataAssumption, PTL

\* Whatever was set on an object or loaded into it, what YAML holds of it has the same
\* values when it is made again from its tree, and those its text gives when it is made
\* from that, for integers of any width (yaml-serializable.c:289-764,
\* yaml-gobject.c:125-520).
THEOREM ObjectsSurvive == DataSpec => []ObjectsRoundTrip
<1>1. ObjectInv => Objects!ObjectsRoundTrip
  BY ObjectsComeBack, DataAssumption
<1>2. Objects!ObjectsRoundTrip => ObjectsRoundTrip
  BY DEF ObjectsRoundTrip
<1>3. QED
  BY <1>1, <1>2, ComponentsBehave, ObjectsFit, DataAssumption, PTL

=============================================================================
