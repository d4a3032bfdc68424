--------------------------- MODULE YamlHeapProofs ---------------------------
(***************************************************************************)
(* Proofs about YamlHeap, for any number of objects, keys, threads and     *)
(* variables.                                                              *)
(***************************************************************************)
EXTENDS MCYamlHeap, FiniteFacts

Holding == [Slot -> Object \cup {Null}]

\* The number of references to o in h; RefCountsExact compares it with refCount.
CountIn(h, o) == Cardinality({s \in Slot : h[s] = o})

-----------------------------------------------------------------------------
(* Counting references. *)

\* There are finitely many places a reference can be in.
LEMMA SlotsFinite == IsFiniteSet(Slot)
<1>1. IsFiniteSet(Local)
  BY HeapAssumption, FS_Product DEF Local
<1>2. IsFiniteSet(Node) /\ IsFiniteSet(Mapping) /\ IsFiniteSet(Sequence)
  BY HeapAssumption, FS_Subset DEF Object, Container
<1>3. IsFiniteSet(DataSlot)
  BY <1>2, FS_Singleton, FS_Product DEF DataSlot
<1>4. IsFiniteSet(MemberSlot)
  BY <1>2, HeapAssumption, FS_Product DEF MemberSlot
<1>5. IsFiniteSet(Position)
  BY HeapAssumption, FS_Interval DEF Position
<1>6. IsFiniteSet(ElementSlot)
  BY <1>2, <1>5, FS_Product DEF ElementSlot
<1>7. QED
  BY <1>1, <1>3, <1>4, <1>6, FS_Union DEF Slot

\* A count is a natural number, and is positive when somebody holds the object.
LEMMA CountIsNat ==
  ASSUME NEW h, NEW o
  PROVE  /\ IsFiniteSet({s \in Slot : h[s] = o})
         /\ CountIn(h, o) \in Nat
         /\ CountIn(h, o) = 0 <=> \A s \in Slot : h[s] # o
<1>1. IsFiniteSet({s \in Slot : h[s] = o})
  BY SlotsFinite, FS_Subset
<1>2. QED
  BY <1>1, FS_CardinalityType, FS_EmptySet DEF CountIn

\* What storing x in a slot does to the count of every object.
LEMMA CountAfterStore ==
  ASSUME NEW h \in Holding, NEW s \in Slot, NEW x, NEW o
  PROVE  CountIn([h EXCEPT ![s] = x], o)
           = IF x = o THEN IF h[s] = o THEN CountIn(h, o) ELSE CountIn(h, o) + 1
                      ELSE IF h[s] = o THEN CountIn(h, o) - 1 ELSE CountIn(h, o)
<1> DEFINE g == [h EXCEPT ![s] = x]
           S == {r \in Slot : h[r] = o}
           T == {r \in Slot : g[r] = o}
<1>0. \A r \in Slot : g[r] = IF r = s THEN x ELSE h[r]
  BY DEF Holding
<1>1. IsFiniteSet(S)
  BY SlotsFinite, FS_Subset
<1>2. CASE x = o
  <2>1. T = S \cup {s}
    BY <1>0, <1>2
  <2>2. Cardinality(T) = IF s \in S THEN Cardinality(S) ELSE Cardinality(S) + 1
    BY <1>1, <2>1, FS_AddElement
  <2>3. QED
    BY <2>2, <1>2 DEF CountIn
<1>3. CASE x # o
  <2>1. T = S \ {s}
    BY <1>0, <1>3
  <2>2. Cardinality(T) = IF s \in S THEN Cardinality(S) - 1 ELSE Cardinality(S)
    BY <1>1, <2>1, FS_RemoveElement
  <2>3. QED
    BY <2>2, <1>3 DEF CountIn
<1>4. QED
  BY <1>2, <1>3

\* The fields of a sequence are its positions.
LEMMA SequenceFields ==
  ASSUME NEW q \in Sequence
  PROVE  /\ \A j \in Position : <<q, j>> \in Slot
         /\ \A s \in Slot : s[1] = q => s = <<q, s[2]>> /\ s[2] \in Position
<1>1. \A j \in Position : <<q, j>> \in Slot
  BY DEF Slot, ElementSlot
<1>2. ASSUME NEW s \in Slot, s[1] = q
      PROVE  s \in ElementSlot
  BY <1>2, HeapAssumption
     DEF Slot, Local, DataSlot, MemberSlot, ElementSlot, Object, Container
<1>3. QED
  BY <1>1, <1>2 DEF ElementSlot

\* Removing an element keeps the references to everything else: the elements
\* behind it move, none is lost and none is duplicated.
LEMMA CountAfterShift ==
  ASSUME holds \in Holding, NEW q \in Sequence, NEW i \in Position, NEW o \in Object
  PROVE  CountIn(ElementsWithout(q, i), o)
           = IF holds[<<q, i>>] = o THEN CountIn(holds, o) - 1 ELSE CountIn(holds, o)
<1> DEFINE h == ElementsWithout(q, i)
           A == {s \in Slot : holds[s] = o}
           B == {s \in Slot : h[s] = o}
           Old(s) == IF s[1] = q /\ s[2] >= i THEN <<q, s[2] + 1>> ELSE s
           f == [s \in B |-> Old(s)]
<1>1. \A s \in Slot : s[1] = q => s = <<q, s[2]>> /\ s[2] \in 1..MaxLength
  BY SequenceFields DEF Position
<1>2. \A j \in 1..MaxLength : <<q, j>> \in Slot
  BY SequenceFields DEF Position
<1>3. MaxLength \in Nat /\ i \in 1..MaxLength /\ o # Null
  BY HeapAssumption DEF Position
<1>4. ASSUME NEW s \in B
      PROVE  /\ Old(s) \in A \ {<<q, i>>}
             /\ s[1] = q /\ s[2] >= i => s[2] < MaxLength
  <2>1. CASE s[1] = q /\ s[2] >= i
    <3>1. s[2] < MaxLength /\ holds[<<q, s[2] + 1>>] = o
      BY <2>1, <1>3 DEF ElementsWithout
    <3>2. s[2] \in Int /\ s[2] + 1 \in 1..MaxLength /\ s[2] + 1 # i
      BY <2>1, <3>1, <1>1, <1>3
    <3>3. <<q, s[2] + 1>> \in A /\ <<q, s[2] + 1>> # <<q, i>>
      BY <3>1, <3>2, <1>2
    <3>4. QED
      BY <3>3, <3>1, <2>1
  <2>2. CASE ~(s[1] = q /\ s[2] >= i)
    <3>1. holds[s] = o
      BY <2>2 DEF ElementsWithout
    <3>2. s # <<q, i>>
      BY <2>2, <1>3
    <3>3. QED
      BY <3>1, <3>2, <2>2
  <2>3. QED
    BY <2>1, <2>2
<1>5. f \in [B -> A \ {<<q, i>>}]
  BY <1>4
<1>6. ASSUME NEW s \in B, NEW r \in B, f[s] = f[r]
      PROVE  s = r
  <2>1. Old(s) = Old(r)
    BY <1>6
  <2>2. CASE s[1] = q /\ r[1] = q
    <3>1. s = <<q, s[2]>> /\ r = <<q, r[2]>> /\ s[2] \in Int /\ r[2] \in Int
      BY <2>2, <1>1
    <3>2. Old(s)[2] = Old(r)[2]
      BY <2>1
    <3>3. s[2] = r[2]
      BY <3>1, <3>2, <2>2, <1>3
    <3>4. QED
      BY <3>1, <3>3
  <2>3. CASE s[1] # q /\ r[1] # q
    BY <2>1, <2>3
  <2>4. CASE s[1] = q /\ r[1] # q
    <3>1. Old(s)[1] = q
      BY <2>4, <1>1
    <3>2. QED
      BY <2>1, <2>4, <3>1
  <2>5. CASE s[1] # q /\ r[1] = q
    <3>1. Old(r)[1] = q
      BY <2>5, <1>1
    <3>2. QED
      BY <2>1, <2>5, <3>1
  <2>6. QED
    BY <2>2, <2>3, <2>4, <2>5
<1>7. ASSUME NEW a \in A \ {<<q, i>>}
      PROVE  \E s \in B : f[s] = a
  <2>1. CASE a[1] = q /\ a[2] > i
    <3> DEFINE s == <<q, a[2] - 1>>
    <3>1. a = <<q, a[2]>> /\ a[2] \in 1..MaxLength /\ a[2] - 1 \in 1..MaxLength
      BY <2>1, <1>1, <1>3
    <3>2. s \in Slot /\ s[1] = q /\ s[2] >= i /\ s[2] < MaxLength /\ s[2] + 1 = a[2]
      BY <3>1, <2>1, <1>2, <1>3
    <3>3. s \in B
      BY <3>1, <3>2 DEF ElementsWithout
    <3>4. f[s] = a
      BY <3>1, <3>2, <3>3
    <3>5. QED
      BY <3>3, <3>4
  <2>2. CASE ~(a[1] = q /\ a[2] > i)
    <3>1. ~(a[1] = q /\ a[2] >= i)
      BY <2>2, <1>1, <1>3
    <3>2. a \in B
      BY <3>1 DEF ElementsWithout
    <3>3. QED
      BY <3>1, <3>2
  <2>3. QED
    BY <2>1, <2>2
<1>8. f \in Bijection(B, A \ {<<q, i>>})
  BY <1>5, <1>6, <1>7 DEF Bijection, Injection, Surjection, IsInjective
<1>9. IsFiniteSet(B) /\ IsFiniteSet(A)
  BY SlotsFinite, FS_Subset
<1>10. Cardinality(A \ {<<q, i>>}) = Cardinality(B)
  BY <1>8, <1>9, FS_Bijection DEF ExistsBijection
<1>11. Cardinality(A \ {<<q, i>>})
         = IF <<q, i>> \in A THEN Cardinality(A) - 1 ELSE Cardinality(A)
  BY <1>9, FS_RemoveElement
<1>12. <<q, i>> \in A <=> holds[<<q, i>>] = o
  BY <1>2, <1>3
<1>13. QED
  BY <1>10, <1>11, <1>12 DEF CountIn

-----------------------------------------------------------------------------
(* Slots and what a thread can see. *)

\* The kinds of slots, and the fields of each kind of object.
LEMMA SlotKinds ==
  /\ Local \cap (DataSlot \cup MemberSlot \cup ElementSlot) = {}
  /\ DataSlot \cap (MemberSlot \cup ElementSlot) = {}
  /\ \A t \in Thread, v \in Variable : <<t, v>> \in Local
  /\ \A n \in Node : <<n, "data">> \in DataSlot
  /\ \A m \in Mapping, k \in Key : <<m, k>> \in MemberSlot
  /\ \A q \in Sequence, j \in Position : <<q, j>> \in ElementSlot
  /\ \A s \in Local : s[1] \in Thread /\ s[1] \notin Object
  /\ \A s \in DataSlot : s[1] \in Node /\ s = <<s[1], "data">>
  /\ \A s \in MemberSlot \cup ElementSlot : s[1] \in Container /\ s[1] \notin Node
BY HeapAssumption DEF Local, DataSlot, MemberSlot, ElementSlot, Object, Container

\* The type of a reference table.
HoldsOK(h) ==
    /\ h \in Holding
    /\ \A s \in DataSlot : h[s] \in Container \cup {Null}
    /\ \A s \in MemberSlot \cup ElementSlot : h[s] \in Node \cup {Null}

\* A store of the right type keeps the type.
LEMMA StoreTyped ==
  ASSUME NEW h, HoldsOK(h), NEW s \in Slot, NEW x \in Object \cup {Null},
         s \in DataSlot => x \in Container \cup {Null},
         s \in MemberSlot \cup ElementSlot => x \in Node \cup {Null}
  PROVE  HoldsOK([h EXCEPT ![s] = x])
BY SlotKinds DEF HoldsOK, Holding, Slot

\* Every reference is to a live object, and a live object is counted.
LEMMA NothingDangles ==
  ASSUME TypeOK, RefCountsExact, LiveIffCounted
  PROVE  /\ NoDangling
         /\ \A s \in Slot : holds[s] # Null => holds[s] \in Object /\ refCount[holds[s]] > 0
<1>1. ASSUME NEW s \in Slot, holds[s] # Null
      PROVE  /\ holds[s] \in Object /\ refCount[holds[s]] > 0
             /\ status[holds[s]] = "live"
  <2>1. holds[s] \in Object
    BY <1>1 DEF TypeOK
  <2>2. refCount[holds[s]] = CountIn(holds, holds[s])
    BY <2>1 DEF RefCountsExact, CountIn, Owners
  <2> DEFINE o == holds[s]
  <2> HIDE DEF o
  <2>a. CountIn(holds, o) \in Nat /\ (CountIn(holds, o) = 0 <=> \A r \in Slot : holds[r] # o)
    BY CountIsNat
  <2>3. refCount[holds[s]] \in Nat /\ refCount[holds[s]] # 0
    BY <2>1, <2>2, <2>a DEF o
  <2>4. QED
    BY <2>1, <2>3 DEF LiveIffCounted
<1>2. QED
  BY <1>1 DEF NoDangling

\* What a thread can see is alive.
LEMMA VisibleIsLive ==
  ASSUME TypeOK, RefCountsExact, LiveIffCounted,
         NEW t \in Thread, NEW o \in Visible(t)
  PROVE  o \in Object /\ status[o] = "live" /\ refCount[o] > 0
<1>1. \E s \in Slot : holds[s] = o /\ o # Null
  <2>1. CASE o \in Owned(t)
    <3>1. PICK v \in Variable : holds[<<t, v>>] = o /\ o # Null
      BY <2>1 DEF Owned
    <3>2. <<t, v>> \in Slot
      BY SlotKinds DEF Slot
    <3>3. QED
      BY <3>1, <3>2
  <2>2. CASE o \notin Owned(t)
    <3>1. PICK p \in Owned(t) : o \in ChildrenOf(p)
      BY <2>2 DEF Visible
    <3>2. QED
      BY <3>1 DEF ChildrenOf, FieldsOf
  <2>3. QED
    BY <2>1, <2>2
<1>2. NoDangling /\ \A s \in Slot : holds[s] # Null => holds[s] \in Object /\ refCount[holds[s]] > 0
  BY NothingDangles
<1>3. QED
  BY <1>1, <1>2 DEF NoDangling

\* The counters as CountIn sees them.
LEMMA RefCountsAsCounts ==
  /\ RefCountsExact <=> \A o \in Object : refCount[o] = CountIn(holds, o)
  /\ RefCountsExact' <=> \A o \in Object : refCount'[o] = CountIn(holds', o)
BY DEF RefCountsExact, CountIn, Owners

-----------------------------------------------------------------------------
(* The effect of an unref on the counters and the call stacks. *)

UnrefResult(t) ==
    /\ refCount' \in [Object -> Nat]
    /\ status' \in [Object -> {"free", "live", "dying"}]
    /\ destroying' \in [Thread -> Object \cup {Null}]
    /\ caller' \in [Object -> Object \cup {Null}]
    /\ LiveIffCounted'
    /\ StacksAreDisjoint'
    /\ \A x \in Object : status'[x] = "free" <=> status[x] = "free"
    /\ \A u \in Thread : u # t => destroying'[u] = destroying[u]

LEMMA UnrefEffect ==
  ASSUME TypeOK, LiveIffCounted, StacksAreDisjoint,
         NEW t \in Thread, NEW o \in Object, NEW counts \in [Object -> Nat],
         \A x \in Object : counts[x] > 0 <=> refCount[x] > 0,
         counts[o] > 0, Unref(t, o, counts)
  PROVE  /\ UnrefResult(t)
         /\ \A x \in Object : refCount'[x] = IF x = o THEN counts[x] - 1 ELSE counts[x]
<1>1. refCount' = [counts EXCEPT ![o] = @ - 1] /\ refCount' \in [Object -> Nat]
  BY DEF Unref
<1>2. status[o] = "live" /\ caller[o] = Null
  BY DEF LiveIffCounted, StacksAreDisjoint, TypeOK
<1>3. CASE counts[o] = 1
  <2>1. /\ status' = [status EXCEPT ![o] = "dying"]
        /\ caller' = [caller EXCEPT ![o] = destroying[t]]
        /\ destroying' = [destroying EXCEPT ![t] = o]
    BY <1>3 DEF Unref
  <2>2. LiveIffCounted'
    BY <1>1, <1>2, <1>3, <2>1 DEF LiveIffCounted, TypeOK
  <2>3. \A x \in Object : caller[x] # o
    BY <1>2, HeapAssumption DEF StacksAreDisjoint
  <2>4. \A u \in Thread : destroying[u] # o
    BY <1>2, HeapAssumption DEF StacksAreDisjoint
  <2>5. StacksAreDisjoint'
    BY <2>1, <2>3, <2>4, <1>2, HeapAssumption DEF StacksAreDisjoint, TypeOK
  <2>6. QED
    BY <1>1, <1>2, <2>1, <2>2, <2>5 DEF UnrefResult, TypeOK
<1>4. CASE counts[o] # 1
  <2>1. UNCHANGED <<status, caller, destroying>>
    BY <1>4 DEF Unref
  <2>2. LiveIffCounted'
    BY <1>1, <1>2, <1>4, <2>1 DEF LiveIffCounted, TypeOK
  <2>3. StacksAreDisjoint'
    BY <2>1 DEF StacksAreDisjoint
  <2>4. QED
    BY <1>1, <2>1, <2>2, <2>3 DEF UnrefResult, TypeOK
<1>5. QED
  BY <1>3, <1>4

LEMMA UnrefIfSetEffect ==
  ASSUME TypeOK, LiveIffCounted, StacksAreDisjoint,
         NEW t \in Thread, NEW o \in Object \cup {Null}, NEW counts \in [Object -> Nat],
         \A x \in Object : counts[x] > 0 <=> refCount[x] > 0,
         o # Null => counts[o] > 0, UnrefIfSet(t, o, counts)
  PROVE  /\ UnrefResult(t)
         /\ \A x \in Object : refCount'[x] = IF x = o THEN counts[x] - 1 ELSE counts[x]
<1>1. CASE o = Null
  <2>1. refCount' = counts /\ UNCHANGED <<status, caller, destroying>>
    BY <1>1 DEF UnrefIfSet
  <2>2. LiveIffCounted'
    BY <2>1 DEF LiveIffCounted
  <2>3. StacksAreDisjoint'
    BY <2>1 DEF StacksAreDisjoint
  <2>4. o \notin Object
    BY <1>1, HeapAssumption
  <2>5. QED
    BY <2>1, <2>2, <2>3, <2>4 DEF UnrefResult, TypeOK
<1>2. CASE o # Null
  BY <1>2, UnrefEffect DEF UnrefIfSet
<1>3. QED
  BY <1>1, <1>2

-----------------------------------------------------------------------------
(* One store into a slot, and what it leaves alone. *)

\* The same for the reference table of the moment.
LEMMA CountAfterStoreHere ==
  ASSUME TypeOK, NEW s \in Slot, NEW x
  PROVE  \A y \in Object :
           CountIn([holds EXCEPT ![s] = x], y)
             = IF x = y THEN IF holds[s] = y THEN CountIn(holds, y) ELSE CountIn(holds, y) + 1
                        ELSE IF holds[s] = y THEN CountIn(holds, y) - 1 ELSE CountIn(holds, y)
<1>1. holds \in Holding
  BY DEF TypeOK, Holding
<1>2. QED
  BY <1>1, CountAfterStore

\* The counters follow a store when they change by what the store adds and drops.
LEMMA CountsFollowStore ==
  ASSUME TypeOK, RefCountsExact, NEW s \in Slot, NEW x,
         holds' = [holds EXCEPT ![s] = x],
         \A y \in Object : refCount'[y] = refCount[y] + (IF x = y THEN 1 ELSE 0)
                                                      - (IF holds[s] = y THEN 1 ELSE 0)
  PROVE  RefCountsExact'
<1>1. holds \in Holding
  BY DEF TypeOK, Holding
<1>2. ASSUME NEW y \in Object
      PROVE  refCount'[y] = CountIn(holds', y)
  <2>1. refCount[y] = CountIn(holds, y) /\ refCount[y] \in Nat
    BY RefCountsAsCounts DEF TypeOK
  <2>2. CountIn(holds', y)
          = IF x = y THEN IF holds[s] = y THEN CountIn(holds, y) ELSE CountIn(holds, y) + 1
                     ELSE IF holds[s] = y THEN CountIn(holds, y) - 1 ELSE CountIn(holds, y)
    BY CountAfterStoreHere
  <2>3. QED
    BY <2>1, <2>2
<1>3. QED
  BY <1>2, RefCountsAsCounts

\* A store into a variable or into an object that exists leaves free memory empty.
LEMMA EmptyFollowsStore ==
  ASSUME TypeOK, FreeIsEmpty, NEW s \in Slot, NEW x,
         holds' = [holds EXCEPT ![s] = x],
         s \in Local \/ status[s[1]] # "free",
         \A o \in Object : status'[o] = "free" => status[o] = "free"
  PROVE  FreeIsEmpty'
<1>1. ASSUME NEW o \in Object, status'[o] = "free", NEW r \in Slot, r[1] = o
      PROVE  holds'[r] = Null
  <2>1. r # s
    BY <1>1, SlotKinds
  <2>2. holds[r] = Null
    BY <1>1 DEF FreeIsEmpty, FieldsOf
  <2>3. QED
    BY <2>1, <2>2 DEF TypeOK
<1>2. QED
  BY <1>1 DEF FreeIsEmpty, FieldsOf

\* The steps of other threads, and of destructors, do not disturb an assignment
\* that is still to come.
LEMMA AssignKept ==
  ASSUME TypeOK, RefCountsExact, LiveIffCounted, OneCall, AssignIsSafe,
         assign' = assign,
         assign # NoAssign =>
           /\ writer' = writer
           /\ \A v \in Variable : holds[<<writer, v>>] # Null
                => holds'[<<writer, v>>] = holds[<<writer, v>>],
         \A s \in Slot \ Local : status[s[1]] = "live" => holds'[s] = holds[s],
         \A o \in Object : status[o] = "live" => immutable'[o] = immutable[o]
  PROVE  AssignIsSafe'
<1> SUFFICES ASSUME assign # NoAssign
             PROVE  AssignIsSafe'
  BY DEF AssignIsSafe
<1> DEFINE n == assign.node
<1>1. n \in Node /\ assign.container \in Container /\ writer \in Thread
  BY HeapAssumption DEF TypeOK, OneCall
<1>2. NoDangling
  BY NothingDangles
<1>3. PICK v \in Variable :
        LET o == holds[<<writer, v>>] IN
        \/ o = n
        \/ o \in Container /\ \E s \in FieldsOf(o) : holds[s] = n
  BY DEF AssignIsSafe
<1> DEFINE o == holds[<<writer, v>>]
<1>4. <<writer, v>> \in Slot /\ <<n, "data">> \in Slot \ Local
  BY <1>1, SlotKinds DEF Slot
<1>5. o \in Object
  BY <1>1, <1>3 DEF Object
<1>6. o # Null /\ n # Null
  BY <1>1, <1>5, HeapAssumption DEF Object
<1>7. holds'[<<writer, v>>] = o
  BY <1>6
<1>8. status[o] = "live"
  BY <1>2, <1>4, <1>6 DEF NoDangling
<1>9. /\ status[n] = "live"
      /\ \/ o = n
         \/ o \in Container /\ \E s \in FieldsOf(o) : holds'[s] = n
  <2>1. CASE o = n
    BY <1>8, <2>1
  <2>2. CASE o \in Container /\ \E s \in FieldsOf(o) : holds[s] = n
    <3>1. PICK s \in Slot : s[1] = o /\ holds[s] = n
      BY <2>2 DEF FieldsOf
    <3>2. s \in Slot \ Local
      BY <3>1, <1>5, SlotKinds
    <3>3. holds'[s] = n
      BY <3>1, <3>2, <1>8
    <3>4. status[n] = "live"
      BY <3>1, <1>2, <1>6 DEF NoDangling
    <3>5. QED
      BY <2>2, <3>1, <3>3, <3>4 DEF FieldsOf
  <2>3. QED
    BY <1>3, <2>1, <2>2
<1>10. holds'[<<n, "data">>] = Null /\ ~immutable'[n]
  <2>1. holds[<<n, "data">>] = Null /\ ~immutable[n]
    BY DEF AssignIsSafe
  <2>2. <<n, "data">>[1] = n /\ n \in Object
    BY <1>1 DEF Object
  <2>3. QED
    BY <2>1, <2>2, <1>4, <1>9
<1>11. PICK w \in Variable : /\ holds[<<writer, w>>] = assign.container
                             /\ assign.taken \in {Null, w}
  BY DEF AssignIsSafe
<1>12. holds'[<<writer, w>>] = assign.container
  BY <1>1, <1>11, HeapAssumption DEF Object
<1>13. writer' = writer
  OBVIOUS
<1>14. \E u \in Variable :
         LET p == holds'[<<writer', u>>] IN
         \/ p = n
         \/ p \in Container /\ \E s \in FieldsOf(p) : holds'[s] = n
  BY <1>7, <1>9, <1>13
<1>15. \E u \in Variable : /\ holds'[<<writer', u>>] = assign.container
                           /\ assign.taken \in {Null, u}
  BY <1>11, <1>12, <1>13
<1>16. QED
  BY <1>10, <1>14, <1>15 DEF AssignIsSafe, FieldsOf


-----------------------------------------------------------------------------
(* The steps that store one reference and drop what was there. *)

Stores(s, x) == holds' = [holds EXCEPT ![s] = x]

\* What such a step keeps, whoever takes it.
HeapKept ==
    /\ HoldsOK(holds')
    /\ RefCountsExact'
    /\ LiveIffCounted'
    /\ FreeIsEmpty'
    /\ StacksAreDisjoint'
    /\ refCount' \in [Object -> Nat]
    /\ status' \in [Object -> {"free", "live", "dying"}]
    /\ destroying' \in [Thread -> Object \cup {Null}]
    /\ caller' \in [Object -> Object \cup {Null}]

LEMMA StoreAndUnref ==
  ASSUME CountInv, NEW t \in Thread, NEW s \in Slot, NEW x \in Object \cup {Null},
         NEW counts,
         s \in DataSlot => x \in Container \cup {Null},
         s \in MemberSlot \cup ElementSlot => x \in Node \cup {Null},
         x = Null => counts = refCount,
         x # Null => counts = Incremented(x) /\ refCount[x] > 0,
         Stores(s, x), UnrefIfSet(t, holds[s], counts),
         s \in Local \/ status[s[1]] # "free"
  PROVE  HeapKept /\ UnrefResult(t)
<1> USE DEF CountInv
<1>1. HoldsOK(holds')
  <2>1. HoldsOK(holds)
    BY DEF HoldsOK, Holding, TypeOK
  <2>2. HoldsOK([holds EXCEPT ![s] = x])
    BY <2>1, StoreTyped
  <2>3. QED
    BY <2>2 DEF Stores
<1>2. /\ counts \in [Object -> Nat]
      /\ \A y \in Object : counts[y] = IF x = y THEN refCount[y] + 1 ELSE refCount[y]
  BY HeapAssumption DEF Incremented, TypeOK
<1>3. \A y \in Object : counts[y] > 0 <=> refCount[y] > 0
  BY <1>2 DEF TypeOK
<1>4. holds[s] \in Object \cup {Null} /\ (holds[s] # Null => counts[holds[s]] > 0)
  BY <1>3, NothingDangles DEF TypeOK
<1>5. /\ UnrefResult(t)
      /\ \A y \in Object : refCount'[y] = IF y = holds[s] THEN counts[y] - 1 ELSE counts[y]
  <2> DEFINE o == holds[s]
  <2>1. o \in Object \cup {Null} /\ (o # Null => counts[o] > 0) /\ UnrefIfSet(t, o, counts)
    BY <1>4
  <2> HIDE DEF o
  <2>2. /\ UnrefResult(t)
        /\ \A y \in Object : refCount'[y] = IF y = o THEN counts[y] - 1 ELSE counts[y]
    BY <2>1, <1>2, <1>3, UnrefIfSetEffect
  <2>3. QED
    BY <2>2 DEF o
<1>6. RefCountsExact'
  <2>1. \A y \in Object : refCount'[y] = refCount[y] + (IF x = y THEN 1 ELSE 0)
                                                    - (IF holds[s] = y THEN 1 ELSE 0)
    BY <1>2, <1>5 DEF TypeOK
  <2>2. TypeOK /\ RefCountsExact /\ holds' = [holds EXCEPT ![s] = x]
    BY DEF Stores
  <2> HIDE DEF CountInv
  <2>3. QED
    BY <2>1, <2>2, CountsFollowStore
<1>7. FreeIsEmpty'
  BY <1>5, EmptyFollowsStore DEF Stores, UnrefResult
<1>8. QED
  BY <1>1, <1>5, <1>6, <1>7 DEF HeapKept, UnrefResult

\* The rest of the invariant, once the heap is seen to.
LEMMA InvFromParts ==
  ASSUME HeapKept, OneCall', AssignIsSafe',
         immutable' \in [Object -> BOOLEAN],
         writer' \in Thread \cup {Null},
         sealing' \in SUBSET Object,
         assign' = NoAssign \/ assign' \in [node : Node, container : Container,
                                               taken : Variable \cup {Null}]
  PROVE  CountInv'
BY DEF HeapKept, HoldsOK, Holding, CountInv, TypeOK

-----------------------------------------------------------------------------
(* Every step keeps the invariant: references. *)

\* A call that modifies nothing else: unref of a variable, refused or not.
LEMMA DropKeeps ==
  ASSUME CountInv, NEW t \in Thread, NEW v \in Variable,
         Idle(t), holds[<<t, v>>] # Null,
         holds' = [holds EXCEPT ![<<t, v>>] = Null],
         Unref(t, holds[<<t, v>>], refCount),
         UNCHANGED <<immutable, writer, sealing, assign>>
  PROVE  CountInv'
<1> USE DEF CountInv
<1>1. <<t, v>> \in Slot /\ <<t, v>> \in Local
  BY SlotKinds DEF Slot
<1>2. HeapKept /\ UnrefResult(t)
  <2>1. Stores(<<t, v>>, Null) /\ UnrefIfSet(t, holds[<<t, v>>], refCount)
    BY DEF Stores, UnrefIfSet
  <2>2. QED
    BY <1>1, <2>1, SlotKinds, StoreAndUnref
<1>3. OneCall'
  BY <1>2, HeapAssumption DEF OneCall, UnrefResult, Idle, TypeOK
<1>4. AssignIsSafe'
  <2>1. \A w \in Variable : assign # NoAssign => holds'[<<writer, w>>] = holds[<<writer, w>>]
    BY DEF TypeOK, Idle
  <2>2. \A s \in Slot \ Local : holds'[s] = holds[s]
    BY <1>1 DEF TypeOK
  <2>3. QED
    BY <2>1, <2>2, AssignKept
<1>5. QED
  BY <1>2, <1>3, <1>4, InvFromParts DEF TypeOK

\* A new reference in a variable, to a live object.
LEMMA RefKeeps ==
  ASSUME CountInv, NEW t \in Thread, NEW o \in Object, NEW u \in Thread, NEW v \in Variable,
         Ref(t, o, u, v)
  PROVE  CountInv'
<1> USE DEF CountInv
<1>1. <<u, v>> \in Slot /\ <<u, v>> \in Local
  BY SlotKinds DEF Slot
<1>2. refCount[o] > 0
  BY VisibleIsLive DEF Ref
<1>3. HeapKept
  <2>1. Stores(<<u, v>>, o) /\ UnrefIfSet(t, holds[<<u, v>>], Incremented(o))
    BY DEF Stores, UnrefIfSet, Ref
  <2>2. QED
    BY <1>1, <1>2, <2>1, SlotKinds, HeapAssumption, StoreAndUnref
<1>4. OneCall'
  BY DEF Ref, OneCall
<1>5. AssignIsSafe'
  <2>1. \A s \in Slot : holds[s] # Null => holds'[s] = holds[s]
    BY <1>1 DEF TypeOK, Ref
  <2>2. \A s \in Slot \ Local : holds'[s] = holds[s]
    BY <1>1 DEF TypeOK, Ref
  <2>3. \A w \in Variable : holds[<<writer, w>>] # Null => holds'[<<writer, w>>] = holds[<<writer, w>>]
    BY DEF TypeOK, Ref
  <2>4. QED
    BY <2>2, <2>3, AssignKept DEF Ref
<1>6. QED
  BY <1>3, <1>4, <1>5, InvFromParts DEF Ref, TypeOK

\* A fresh object has no owner but the variable that receives it.
LEMMA NewKeeps ==
  ASSUME CountInv, NEW t \in Thread, NEW v \in Variable, NEW o \in Object, New(t, v, o)
  PROVE  CountInv'
<1> USE DEF CountInv
<1>1. <<t, v>> \in Slot /\ <<t, v>> \in Local
  BY SlotKinds DEF Slot
<1>2. refCount[o] = 0 /\ refCount' = [refCount EXCEPT ![o] = 1]
  BY DEF New, LiveIffCounted, TypeOK
<1>3. HoldsOK(holds')
  <2>1. HoldsOK(holds)
    BY DEF HoldsOK, Holding, TypeOK
  <2>2. HoldsOK([holds EXCEPT ![<<t, v>>] = o])
    BY <1>1, <2>1, SlotKinds, StoreTyped
  <2>3. QED
    BY <2>2 DEF New
<1>4. RefCountsExact'
  <2>1. \A y \in Object : refCount'[y] = refCount[y] + (IF o = y THEN 1 ELSE 0)
                                       - (IF holds[<<t, v>>] = y THEN 1 ELSE 0)
    BY <1>2, HeapAssumption DEF TypeOK, New
  <2>2. holds' = [holds EXCEPT ![<<t, v>>] = o]
    BY DEF New
  <2>3. QED
    BY <1>1, <2>1, <2>2, CountsFollowStore
<1>5. LiveIffCounted'
  BY <1>2 DEF New, LiveIffCounted, TypeOK
<1>6. FreeIsEmpty'
  BY <1>1, EmptyFollowsStore DEF New, TypeOK
<1>7. StacksAreDisjoint'
  BY HeapAssumption DEF New, StacksAreDisjoint, TypeOK
<1>8. OneCall'
  BY DEF New, OneCall
<1>9. AssignIsSafe'
  <2>1. \A s \in Slot \ Local : holds'[s] = holds[s]
    BY <1>1 DEF TypeOK, New
  <2>2. \A w \in Variable : holds[<<writer, w>>] # Null => holds'[<<writer, w>>] = holds[<<writer, w>>]
    BY DEF TypeOK, New
  <2>3. \A x \in Object : status[x] = "live" => immutable'[x] = immutable[x]
    BY DEF New, TypeOK
  <2>4. QED
    BY <2>1, <2>2, <2>3, AssignKept DEF New
<1>10. HeapKept
  BY <1>2, <1>3, <1>4, <1>5, <1>6, <1>7 DEF HeapKept, New, TypeOK
<1>11. QED
  BY <1>8, <1>9, <1>10, InvFromParts DEF New, TypeOK

-----------------------------------------------------------------------------
(* Every step keeps the invariant: modifying calls. *)

\* No other call is in progress when one begins, and the writer is the caller
\* when the call begins or returns.
LEMMA WriterAlone ==
  ASSUME CountInv, NEW t \in Thread, Idle(t), writer = Null,
         writer' \in {Null, t}, UNCHANGED <<sealing, assign>>
  PROVE  OneCall' /\ AssignIsSafe' /\ assign = NoAssign /\ sealing = {}
<1>1. assign = NoAssign /\ sealing = {}
  BY DEF CountInv, OneCall
<1>2. QED
  BY <1>1 DEF OneCall, AssignIsSafe

\* Calls that store one reference, drop the previous one and return.
LEMMA StoreCallKeeps ==
  ASSUME CountInv, NEW t \in Thread, NEW o \in Object, MayWrite(t, o),
         NEW s \in Slot, s[1] = o, NEW x \in Object \cup {Null}, NEW counts,
         s \in DataSlot => x \in Container \cup {Null},
         s \in MemberSlot \cup ElementSlot => x \in Node \cup {Null},
         x = Null => counts = refCount,
         x # Null => counts = Incremented(x) /\ x \in Visible(t),
         Stores(s, x), UnrefIfSet(t, holds[s], counts),
         writer' \in {Null, t}, UNCHANGED <<immutable, sealing, assign>>
  PROVE  CountInv'
<1> USE DEF CountInv
<1>1. status[o] = "live"
  BY VisibleIsLive DEF MayWrite
<1>2. x # Null => refCount[x] > 0
  BY VisibleIsLive
<1>3. HeapKept
  BY <1>1, <1>2, StoreAndUnref
<1>4. OneCall' /\ AssignIsSafe'
  BY WriterAlone DEF MayWrite
<1>5. QED
  BY <1>3, <1>4, InvFromParts DEF TypeOK

LEMMA SetMemberKeeps ==
  ASSUME CountInv, NEW t \in Thread, NEW m \in Mapping, NEW k \in Key, NEW n \in Node,
         SetMember(t, m, k, n)
  PROVE  CountInv'
<1>1. /\ <<m, k>> \in Slot /\ <<m, k>>[1] = m /\ <<m, k>> \notin DataSlot
      /\ m \in Object /\ n \in Object /\ n # Null
  BY SlotKinds, HeapAssumption DEF Slot, Object, Container
<1>2. /\ Stores(<<m, k>>, n) /\ UnrefIfSet(t, holds[<<m, k>>], Incremented(n))
      /\ MayWrite(t, m) /\ n \in Visible(t) /\ writer' \in {Null, t}
      /\ UNCHANGED <<immutable, sealing, assign>>
  BY DEF SetMember, Stores, WriterReturns
<1>3. QED
  BY <1>1, <1>2, StoreCallKeeps

LEMMA RemoveMemberKeeps ==
  ASSUME CountInv, NEW t \in Thread, NEW m \in Mapping, NEW k \in Key,
         RemoveMember(t, m, k)
  PROVE  CountInv'
<1>1. <<m, k>> \in Slot /\ <<m, k>>[1] = m /\ <<m, k>> \notin DataSlot /\ m \in Object
  BY SlotKinds, HeapAssumption DEF Slot, Object, Container
<1>2. /\ Stores(<<m, k>>, Null) /\ UnrefIfSet(t, holds[<<m, k>>], refCount)
      /\ MayWrite(t, m) /\ writer' \in {Null, t}
      /\ UNCHANGED <<immutable, sealing, assign>>
  BY DEF RemoveMember, Stores, UnrefIfSet, WriterReturns
<1>3. QED
  BY <1>1, <1>2, StoreCallKeeps

LEMMA SetScalarKeeps ==
  ASSUME CountInv, NEW t \in Thread, NEW n \in Node, SetScalar(t, n)
  PROVE  CountInv'
<1>1. <<n, "data">> \in Slot /\ <<n, "data">>[1] = n /\ n \in Object
  BY SlotKinds DEF Slot, Object
<1>2. /\ Stores(<<n, "data">>, Null) /\ UnrefIfSet(t, holds[<<n, "data">>], refCount)
      /\ MayWrite(t, n) /\ writer' \in {Null, t}
      /\ UNCHANGED <<immutable, sealing, assign>>
  BY DEF SetScalar, Stores, WriterReturns
<1>3. QED
  BY <1>1, <1>2, StoreCallKeeps

LEMMA AddElementKeeps ==
  ASSUME CountInv, NEW t \in Thread, NEW q \in Sequence, NEW i \in Position, NEW n \in Node,
         AddElement(t, q, i, n)
  PROVE  CountInv'
<1>1. /\ <<q, i>> \in Slot /\ <<q, i>>[1] = q /\ <<q, i>> \notin DataSlot
      /\ q \in Object /\ n \in Object /\ n # Null
  BY SlotKinds, HeapAssumption DEF Slot, Object, Container
<1>2. /\ Stores(<<q, i>>, n) /\ UnrefIfSet(t, holds[<<q, i>>], Incremented(n))
      /\ MayWrite(t, q) /\ n \in Visible(t) /\ writer' \in {Null, t}
      /\ UNCHANGED <<immutable, sealing, assign>>
  BY DEF AddElement, Stores, UnrefIfSet, MayWrite
<1>3. QED
  BY <1>1, <1>2, StoreCallKeeps

LEMMA RemoveElementKeeps ==
  ASSUME CountInv, NEW t \in Thread, NEW q \in Sequence, NEW i \in Position,
         RemoveElement(t, q, i)
  PROVE  CountInv'
<1> USE DEF CountInv
<1>1. MayWrite(t, q) /\ holds[<<q, i>>] # Null /\ writer' \in {Null, t}
  BY DEF RemoveElement, WriterReturns
<1>2. <<q, i>> \in Slot /\ q \in Object /\ status[q] = "live"
  BY <1>1, SlotKinds, VisibleIsLive DEF Slot, Object, Container, MayWrite
<1>3. holds[<<q, i>>] \in Object /\ refCount[holds[<<q, i>>]] > 0
  BY <1>1, <1>2, NothingDangles
<1>4. /\ UnrefResult(t)
      /\ \A x \in Object : refCount'[x] = IF x = holds[<<q, i>>] THEN refCount[x] - 1 ELSE refCount[x]
  <2>1. refCount \in [Object -> Nat] /\ Unref(t, holds[<<q, i>>], refCount)
    BY DEF TypeOK, RemoveElement
  <2>2. QED
    BY <1>3, <2>1, UnrefEffect
<1>5. \A s \in Slot : holds'[s] = IF s[1] = q /\ s[2] >= i
                                    THEN IF s[2] < MaxLength THEN holds[<<q, s[2] + 1>>] ELSE Null
                                    ELSE holds[s]
  BY DEF RemoveElement, ElementsWithout
<1>6. HoldsOK(holds')
  <2>1. \A s \in Slot : s[1] = q => s \in ElementSlot /\ s[2] \in 1..MaxLength
    BY SequenceFields DEF ElementSlot, Position
  <2>2. \A j \in 1..MaxLength : holds[<<q, j>>] \in Node \cup {Null}
    BY SlotKinds DEF TypeOK, Position
  <2>3. \A s \in Slot : s[1] = q => holds'[s] \in Node \cup {Null}
    <3>1. ASSUME NEW s \in Slot, s[1] = q, s[2] >= i, s[2] < MaxLength
          PROVE  holds[<<q, s[2] + 1>>] \in Node \cup {Null}
      <4>1. s[2] + 1 \in 1..MaxLength
        BY <3>1, <2>1, HeapAssumption
      <4>2. QED
        BY <4>1, <2>2
    <3>2. \A s \in ElementSlot : holds[s] \in Node \cup {Null}
      BY DEF TypeOK
    <3>3. QED
      BY <3>1, <3>2, <2>1, <1>5
  <2>4. \A s \in Slot : s[1] # q => holds'[s] = holds[s]
    BY <1>5
  <2>5. holds' \in Holding
    <3>1. holds' = [s \in Slot |-> holds'[s]]
      BY DEF RemoveElement, ElementsWithout
    <3>2. \A s \in Slot : holds'[s] \in Object \cup {Null}
      BY <2>3, <2>4 DEF TypeOK, Object
    <3>3. QED
      BY <3>1, <3>2 DEF Holding
  <2>6. \A s \in DataSlot : holds'[s] \in Container \cup {Null}
    BY <2>1, <2>4, SlotKinds DEF TypeOK, Slot
  <2>7. \A s \in MemberSlot \cup ElementSlot : holds'[s] \in Node \cup {Null}
    BY <2>3, <2>4 DEF TypeOK, Slot
  <2>8. QED
    BY <2>5, <2>6, <2>7 DEF HoldsOK
<1>7. RefCountsExact'
  <2>1. \A o \in Object : CountIn(ElementsWithout(q, i), o)
           = IF holds[<<q, i>>] = o THEN CountIn(holds, o) - 1 ELSE CountIn(holds, o)
    BY CountAfterShift DEF TypeOK, Holding
  <2>2. \A o \in Object : refCount[o] = CountIn(holds, o)
    BY RefCountsAsCounts
  <2>3. \A o \in Object : refCount'[o] = CountIn(ElementsWithout(q, i), o)
    BY <2>1, <2>2, <1>4
  <2>4. holds' = ElementsWithout(q, i)
    BY DEF RemoveElement
  <2>5. \A o \in Object : refCount'[o] = CountIn(holds', o)
    BY <2>3, <2>4
  <2>6. QED
    BY <2>5, RefCountsAsCounts
<1>8. FreeIsEmpty'
  <2>1. ASSUME NEW o \in Object, status'[o] = "free", NEW s \in Slot, s[1] = o
        PROVE  holds'[s] = Null
    BY <2>1, <1>2, <1>4, <1>5 DEF FreeIsEmpty, FieldsOf, UnrefResult
  <2>2. QED
    BY <2>1 DEF FreeIsEmpty, FieldsOf
<1>9. HeapKept
  BY <1>4, <1>6, <1>7, <1>8 DEF HeapKept, UnrefResult
<1>10. OneCall' /\ AssignIsSafe'
  BY <1>1, WriterAlone DEF RemoveElement, MayWrite
<1>11. QED
  BY <1>1, <1>9, <1>10, InvFromParts DEF RemoveElement, TypeOK

\* A node the caller sees stays in its reach while the container of that node is
\* cleared: no data slot is on the way to it.
LEMMA NodeStaysReached ==
  ASSUME CountInv, NEW t \in Thread, NEW n \in Node, n \in Visible(t),
         Stores(<<n, "data">>, Null)
  PROVE  \E v \in Variable :
           LET o == holds'[<<t, v>>] IN
           \/ o = n
           \/ o \in Container /\ \E s \in FieldsOf(o) : holds'[s] = n
<1> USE DEF CountInv
<1>1. <<n, "data">> \in DataSlot /\ DataSlot \subseteq Slot
  BY SlotKinds DEF Slot
<1>2. \A s \in Slot \ DataSlot : holds'[s] = holds[s]
  BY <1>1 DEF Stores, TypeOK
<1>3. \A v \in Variable : <<t, v>> \in Slot \ DataSlot
  BY SlotKinds DEF Slot
<1>4. CASE n \in Owned(t)
  BY <1>2, <1>3, <1>4 DEF Owned
<1>5. CASE n \notin Owned(t)
  <2>1. PICK p \in Owned(t) : n \in ChildrenOf(p)
    BY <1>5 DEF Visible
  <2>2. PICK v \in Variable : holds[<<t, v>>] = p /\ p # Null
    BY <2>1 DEF Owned
  <2>3. PICK s \in Slot : s[1] = p /\ holds[s] = n
    BY <2>1 DEF ChildrenOf, FieldsOf
  <2>4. n \notin Container \cup {Null}
    BY HeapAssumption DEF Object
  <2>5. s \notin DataSlot
    BY <2>3, <2>4 DEF TypeOK
  <2>6. p \in Object
    BY <2>2, <1>3 DEF TypeOK
  <2>7. p \in Container
    BY <2>3, <2>5, <2>6, SlotKinds DEF Slot
  <2>8. holds'[<<t, v>>] = p /\ holds'[s] = n /\ s \in FieldsOf(p)
    BY <1>2, <1>3, <2>2, <2>3, <2>5 DEF FieldsOf
  <2>9. QED
    BY <2>7, <2>8
<1>6. QED
  BY <1>4, <1>5

\* The first half of set_* and take_*: the container to come is owned by a
\* variable of the caller.
LEMMA ClearInternalKeeps ==
  ASSUME CountInv, NEW t \in Thread, NEW n \in Node, NEW v \in Variable, NEW taken,
         taken \in {Null, v}, MayWrite(t, n), holds[<<t, v>>] \in Container,
         Stores(<<n, "data">>, Null), UnrefIfSet(t, holds[<<n, "data">>], refCount),
         writer' = t, UNCHANGED <<immutable, sealing>>,
         assign' = [node |-> n, container |-> holds[<<t, v>>], taken |-> taken]
  PROVE  CountInv'
<1> USE DEF CountInv
<1>1. <<n, "data">> \in Slot /\ <<n, "data">> \in DataSlot /\ n \in Object
  BY SlotKinds DEF Slot, Object
<1>2. n \in Visible(t) /\ ~immutable[n] /\ writer = Null /\ status[n] = "live"
  BY VisibleIsLive DEF MayWrite
<1>3. HeapKept
  <2> DEFINE s == <<n, "data">>
  <2>1. /\ s \in Slot /\ s \notin MemberSlot \cup ElementSlot /\ status[s[1]] # "free"
        /\ Stores(s, Null) /\ UnrefIfSet(t, holds[s], refCount)
    BY <1>1, <1>2, SlotKinds
  <2> HIDE DEF s
  <2>2. QED
    BY <2>1, StoreAndUnref
<1>4. OneCall'
  BY <1>2, HeapAssumption DEF OneCall
<1>5. holds'[<<t, v>>] = holds[<<t, v>>] /\ holds'[<<n, "data">>] = Null
  BY <1>1, SlotKinds DEF Stores, TypeOK, Slot
<1>6. \E w \in Variable :
        LET o == holds'[<<t, w>>] IN
        \/ o = n
        \/ o \in Container /\ \E s \in FieldsOf(o) : holds'[s] = n
  BY <1>2, NodeStaysReached
<1>7. /\ assign'.node = n /\ assign'.container = holds'[<<t, v>>] /\ assign'.taken \in {Null, v}
      /\ immutable' = immutable /\ writer' = t
  BY <1>5
<1>8. AssignIsSafe'
  <2>1. \E w \in Variable :
          LET o == holds'[<<writer', w>>] IN
          \/ o = assign'.node
          \/ o \in Container /\ \E s \in FieldsOf(o) : holds'[s] = assign'.node
    BY <1>6, <1>7
  <2>2. holds'[<<assign'.node, "data">>] = Null /\ ~immutable'[assign'.node]
    BY <1>2, <1>5, <1>7
  <2>3. \E w \in Variable : /\ holds'[<<writer', w>>] = assign'.container
                            /\ assign'.taken \in {Null, w}
    BY <1>7
  <2>4. QED
    BY <2>1, <2>2, <2>3 DEF AssignIsSafe, FieldsOf
<1>9. assign' \in [node : Node, container : Container, taken : Variable \cup {Null}]
  OBVIOUS
<1>10. QED
  BY <1>3, <1>4, <1>8, <1>9, InvFromParts DEF TypeOK

LEMMA SetContainerKeeps ==
  ASSUME CountInv, ~BorrowedArguments,
         NEW t \in Thread, NEW n \in Node, NEW c \in Container, SetContainer(t, n, c)
  PROVE  CountInv'
<1>1. PICK v \in Variable : holds[<<t, v>>] = c
  BY DEF SetContainer, Owned
<1>2. /\ Stores(<<n, "data">>, Null) /\ UnrefIfSet(t, holds[<<n, "data">>], refCount)
      /\ MayWrite(t, n) /\ writer' = t /\ UNCHANGED <<immutable, sealing>>
      /\ assign' = [node |-> n, container |-> holds[<<t, v>>], taken |-> Null]
  BY <1>1 DEF SetContainer, Stores
<1>3. QED
  BY <1>1, <1>2, ClearInternalKeeps

LEMMA TakeContainerKeeps ==
  ASSUME CountInv, NEW t \in Thread, NEW n \in Node, NEW v \in Variable,
         TakeContainer(t, n, v)
  PROVE  CountInv'
<1>1. /\ Stores(<<n, "data">>, Null) /\ UnrefIfSet(t, holds[<<n, "data">>], refCount)
      /\ MayWrite(t, n) /\ writer' = t /\ UNCHANGED <<immutable, sealing>>
      /\ assign' = [node |-> n, container |-> holds[<<t, v>>], taken |-> v]
      /\ holds[<<t, v>>] \in Container
  BY DEF TakeContainer, Stores
<1>2. QED
  BY <1>1, ClearInternalKeeps

-----------------------------------------------------------------------------
(* Every step keeps the invariant: two references stored at once. *)

\* The reference table after two stores into different slots.
Stored(s, x, r, y) == [holds EXCEPT ![s] = x, ![r] = y]

\* The counters follow them.
LEMMA CountAfterTwoStores ==
  ASSUME TypeOK, NEW s \in Slot, NEW r \in Slot, s # r,
         NEW x \in Object \cup {Null}, NEW y
  PROVE  \A o \in Object :
           CountIn(Stored(s, x, r, y), o)
             = CountIn(holds, o) + (IF x = o THEN 1 ELSE 0) - (IF holds[s] = o THEN 1 ELSE 0)
                                 + (IF y = o THEN 1 ELSE 0) - (IF holds[r] = o THEN 1 ELSE 0)
<1> DEFINE h == [holds EXCEPT ![s] = x]
<1>1. holds \in Holding /\ h \in Holding /\ h[r] = holds[r]
  BY DEF TypeOK, Holding
<1>2. ASSUME NEW o \in Object
      PROVE  CountIn([h EXCEPT ![r] = y], o)
               = CountIn(holds, o) + (IF x = o THEN 1 ELSE 0) - (IF holds[s] = o THEN 1 ELSE 0)
                                   + (IF y = o THEN 1 ELSE 0) - (IF holds[r] = o THEN 1 ELSE 0)
  <2>1. CountIn(holds, o) \in Nat
    BY CountIsNat
  <2>2. CountIn(h, o)
          = IF x = o THEN IF holds[s] = o THEN CountIn(holds, o) ELSE CountIn(holds, o) + 1
                     ELSE IF holds[s] = o THEN CountIn(holds, o) - 1 ELSE CountIn(holds, o)
    BY CountAfterStoreHere
  <2> HIDE DEF h
  <2>3. CountIn([h EXCEPT ![r] = y], o)
          = IF y = o THEN IF h[r] = o THEN CountIn(h, o) ELSE CountIn(h, o) + 1
                     ELSE IF h[r] = o THEN CountIn(h, o) - 1 ELSE CountIn(h, o)
    BY <1>1, CountAfterStore
  <2>4. QED
    BY <1>1, <2>1, <2>2, <2>3
<1>3. Stored(s, x, r, y) = [h EXCEPT ![r] = y]
  BY DEF Stored
<1>4. QED
  BY <1>2, <1>3

LEMMA CountsFollowTwoStores ==
  ASSUME TypeOK, RefCountsExact, NEW s \in Slot, NEW r \in Slot, s # r,
         NEW x \in Object \cup {Null}, NEW y,
         holds' = Stored(s, x, r, y),
         \A o \in Object : refCount'[o] = refCount[o]
            + (IF x = o THEN 1 ELSE 0) - (IF holds[s] = o THEN 1 ELSE 0)
            + (IF y = o THEN 1 ELSE 0) - (IF holds[r] = o THEN 1 ELSE 0)
  PROVE  RefCountsExact'
<1>1. \A o \in Object : refCount[o] = CountIn(holds, o)
  BY RefCountsAsCounts
<1>2. \A o \in Object : CountIn(Stored(s, x, r, y), o)
          = CountIn(holds, o) + (IF x = o THEN 1 ELSE 0) - (IF holds[s] = o THEN 1 ELSE 0)
                              + (IF y = o THEN 1 ELSE 0) - (IF holds[r] = o THEN 1 ELSE 0)
  BY CountAfterTwoStores
<1>3. \A o \in Object : CountIn(holds', o) = refCount'[o]
  BY <1>1, <1>2
<1>4. QED
  BY <1>3, RefCountsAsCounts

\* A node born with a container.
LEMMA NewHoldingKeeps ==
  ASSUME CountInv, NEW t \in Thread, NEW v \in Variable, NEW n \in Node, NEW c \in Container,
         NewHolding(t, v, n, c)
  PROVE  CountInv'
<1> USE DEF CountInv
<1> DEFINE s == <<t, v>>
           r == <<n, "data">>
<1>1. /\ s \in Slot /\ r \in Slot /\ s # r /\ s \in Local /\ r \in DataSlot
      /\ r \notin MemberSlot \cup ElementSlot /\ s \notin DataSlot \cup MemberSlot \cup ElementSlot
      /\ n \in Object /\ c \in Object /\ n # c /\ n # Null /\ c # Null
  BY SlotKinds, HeapAssumption DEF Slot, Object, Container
<1>2. status[n] = "free" /\ holds[s] = Null /\ (status[c] = "free" \/ status[c] = "live")
  BY VisibleIsLive DEF NewHolding
<1>3. holds[r] = Null
  BY <1>1, <1>2 DEF FreeIsEmpty, FieldsOf
<1>4. refCount[n] = 0 /\ (refCount[c] > 0 <=> status[c] = "live") /\ refCount[c] \in Nat
  BY <1>1, <1>2 DEF LiveIffCounted, TypeOK
<1>5. refCount' = [refCount EXCEPT ![n] = 1, ![c] = refCount[c] + 1]
  BY <1>1 DEF NewHolding, TypeOK
<1>6. holds' = [holds EXCEPT ![s] = n, ![r] = c]
  BY DEF NewHolding
<1>7. \A z \in Slot : holds'[z] = IF z = r THEN c ELSE IF z = s THEN n ELSE holds[z]
  BY <1>1, <1>6 DEF TypeOK
<1>8. HoldsOK(holds')
  <2>1. holds' \in Holding
    BY <1>1, <1>6 DEF TypeOK, Holding
  <2>2. QED
    BY <1>1, <1>7, <2>1 DEF TypeOK, HoldsOK, Slot
<1>9. RefCountsExact'
  <2>1. \A o \in Object : refCount'[o] = refCount[o]
            + (IF n = o THEN 1 ELSE 0) - (IF holds[s] = o THEN 1 ELSE 0)
            + (IF c = o THEN 1 ELSE 0) - (IF holds[r] = o THEN 1 ELSE 0)
    BY <1>1, <1>2, <1>3, <1>4, <1>5, HeapAssumption DEF TypeOK
  <2> HIDE DEF s, r
  <2>2. holds' = Stored(s, n, r, c)
    BY <1>6 DEF Stored
  <2>3. QED
    BY <1>1, <2>1, <2>2, CountsFollowTwoStores
<1>10. LiveIffCounted'
  BY <1>1, <1>4, <1>5 DEF NewHolding, LiveIffCounted, TypeOK
<1>11. FreeIsEmpty'
  <2>1. ASSUME NEW o \in Object, status'[o] = "free", NEW z \in Slot, z[1] = o
        PROVE  holds'[z] = Null
    <3>1. o # n /\ status[o] = "free"
      BY <1>1, <2>1 DEF NewHolding, TypeOK
    <3>2. z # r /\ z # s
      BY <3>1, <2>1, <1>1, SlotKinds
    <3>3. QED
      BY <3>1, <3>2, <2>1, <1>7 DEF FreeIsEmpty, FieldsOf
  <2>2. QED
    BY <2>1 DEF FreeIsEmpty, FieldsOf
<1>12. StacksAreDisjoint'
  <2>1. \A o \in Object : status'[o] = "dying" <=> status[o] = "dying"
    BY <1>1, <1>2 DEF NewHolding, TypeOK
  <2>2. UNCHANGED <<destroying, caller>>
    BY DEF NewHolding
  <2>3. QED
    BY <2>1, <2>2, HeapAssumption DEF StacksAreDisjoint, TypeOK
<1>13. OneCall'
  BY DEF NewHolding, OneCall
<1>14. AssignIsSafe'
  <2>1. \A z \in Slot : holds[z] # Null => holds'[z] = holds[z]
    BY <1>2, <1>3, <1>7
  <2>2. \A z \in Slot \ Local : status[z[1]] = "live" => holds'[z] = holds[z]
    BY <1>1, <1>2, <1>7
  <2>3. \A o \in Object : status[o] = "live" => immutable'[o] = immutable[o]
    BY <1>1, <1>2 DEF NewHolding, TypeOK
  <2>4. assign # NoAssign => writer \in Thread
    BY DEF OneCall, TypeOK
  <2>5. \A w \in Variable : assign # NoAssign => (holds[<<writer, w>>] # Null => holds'[<<writer, w>>] = holds[<<writer, w>>])
    BY <2>1, <2>4, SlotKinds DEF Slot
  <2>6. QED
    BY <2>2, <2>3, <2>5, AssignKept DEF NewHolding
<1>15. HeapKept
  BY <1>1, <1>4, <1>5, <1>8, <1>9, <1>10, <1>11, <1>12 DEF HeapKept, NewHolding, TypeOK
<1>16. QED
  BY <1>13, <1>14, <1>15, InvFromParts DEF NewHolding, TypeOK

\* The second half of set_* and take_*.
LEMMA FinishAssignKeeps ==
  ASSUME CountInv, NEW t \in Thread, FinishAssign(t)
  PROVE  CountInv'
<1> USE DEF CountInv
<1> DEFINE n == assign.node
           c == assign.container
           r == <<n, "data">>
<1>1. /\ assign # NoAssign /\ writer = t /\ writer' = Null /\ assign' = NoAssign
      /\ n \in Node /\ c \in Container /\ sealing = {}
      /\ UNCHANGED <<status, immutable, destroying, caller, sealing>>
  BY DEF FinishAssign, TypeOK, OneCall
<1>2. /\ r \in Slot /\ r \in DataSlot /\ r \notin Local \cup MemberSlot \cup ElementSlot
      /\ n \in Object /\ c \in Object /\ c # Null /\ n # Null /\ holds[r] = Null /\ ~immutable[n]
  BY <1>1, SlotKinds, HeapAssumption DEF Slot, Object, Container, AssignIsSafe
<1>3. PICK v \in Variable : holds[<<t, v>>] = c /\ assign.taken \in {Null, v}
  BY <1>1 DEF AssignIsSafe
<1>4. <<t, v>> \in Slot /\ <<t, v>> \in Local /\ v # Null
  BY SlotKinds, HeapAssumption DEF Slot
<1>5. refCount[c] > 0
  BY <1>2, <1>3, <1>4, NothingDangles
<1>6. status[n] = "live"
  <2>1. \E s \in Slot : holds[s] = n
    <3>1. PICK w \in Variable :
            LET o == holds[<<t, w>>] IN
            \/ o = n
            \/ o \in Container /\ \E s \in FieldsOf(o) : holds[s] = n
      BY <1>1 DEF AssignIsSafe
    <3>2. <<t, w>> \in Slot
      BY SlotKinds DEF Slot
    <3>3. QED
      BY <3>1, <3>2 DEF FieldsOf
  <2>2. QED
    BY <1>2, <2>1, NothingDangles DEF NoDangling
<1>7. AssignIsSafe' /\ OneCall'
  BY <1>1 DEF AssignIsSafe, OneCall
<1>8. StacksAreDisjoint'
  BY <1>1 DEF StacksAreDisjoint
<1>9. CASE assign.taken = Null
  <2>1. holds' = [holds EXCEPT ![r] = c] /\ refCount' = Incremented(c)
    BY <1>9 DEF FinishAssign
  <2>2. Stores(r, c) /\ UnrefIfSet(t, holds[r], Incremented(c))
    BY <1>1, <1>2, <2>1 DEF Stores, UnrefIfSet
  <2>3. HeapKept
    <3>1. r[1] = n
      OBVIOUS
    <3> HIDE DEF r, n, c
    <3>2. QED
      BY <1>1, <1>2, <1>5, <1>6, <2>2, <3>1, StoreAndUnref
  <2>4. QED
    BY <1>1, <1>7, <2>3, InvFromParts DEF TypeOK
<1>10. CASE assign.taken # Null
  <2> DEFINE s == <<t, v>>
  <2>1. assign.taken = v
    BY <1>3, <1>10
  <2>2. holds' = [holds EXCEPT ![r] = c, ![s] = Null] /\ refCount' = refCount
    BY <1>10, <2>1 DEF FinishAssign
  <2>3. r # s
    BY <1>2, <1>4
  <2>4. \A z \in Slot : holds'[z] = IF z = s THEN Null ELSE IF z = r THEN c ELSE holds[z]
    BY <1>2, <1>4, <2>2, <2>3 DEF TypeOK
  <2>5. HoldsOK(holds')
    <3>1. holds' \in Holding
      BY <1>2, <2>2 DEF TypeOK, Holding
    <3>2. QED
      BY <1>1, <1>2, <2>4, <3>1 DEF TypeOK, HoldsOK, Slot
  <2>6. RefCountsExact'
    <3>1. \A o \in Object : refCount'[o] = refCount[o]
              + (IF c = o THEN 1 ELSE 0) - (IF holds[r] = o THEN 1 ELSE 0)
              + (IF Null = o THEN 1 ELSE 0) - (IF holds[s] = o THEN 1 ELSE 0)
      BY <1>2, <1>3, <2>2, HeapAssumption DEF TypeOK
    <3> HIDE DEF s, r, c
    <3>2. holds' = Stored(r, c, s, Null)
      BY <2>2 DEF Stored
    <3>3. s \in Slot /\ r \in Slot /\ c \in Object
      BY <1>2, <1>4 DEF s
    <3>4. QED
      BY <2>3, <3>1, <3>2, <3>3, CountsFollowTwoStores
  <2>7. LiveIffCounted'
    BY <1>1, <2>2 DEF LiveIffCounted
  <2>8. FreeIsEmpty'
    <3>1. ASSUME NEW o \in Object, status'[o] = "free", NEW z \in Slot, z[1] = o
          PROVE  holds'[z] = Null
      BY <3>1, <1>1, <1>6, <2>4 DEF FreeIsEmpty, FieldsOf
    <3>2. QED
      BY <3>1 DEF FreeIsEmpty, FieldsOf
  <2>9. HeapKept
    BY <1>1, <1>8, <2>2, <2>5, <2>6, <2>7, <2>8 DEF HeapKept, TypeOK
  <2>10. QED
    BY <1>1, <1>7, <2>9, InvFromParts DEF TypeOK
<1>11. QED
  BY <1>9, <1>10

-----------------------------------------------------------------------------
(* Every step keeps the invariant: destructors and sealing. *)

LEMMA DestroyFieldKeeps ==
  ASSUME CountInv, NEW t \in Thread, DestroyField(t)
  PROVE  CountInv'
<1> USE DEF CountInv
<1> DEFINE o == destroying[t]
<1>1. PICK s \in FieldsOf(o) : /\ holds[s] # Null
                               /\ holds' = [holds EXCEPT ![s] = Null]
                               /\ Unref(t, holds[s], refCount)
  BY DEF DestroyField, NextField
<1>2. o \in Object /\ o # Null /\ status[o] = "dying" /\ s \in Slot /\ s[1] = o
  BY <1>1 DEF DestroyField, TypeOK, StacksAreDisjoint, FieldsOf
<1>3. s \notin Local
  BY <1>2, SlotKinds
<1>4. HeapKept /\ UnrefResult(t)
  <2>1. Stores(s, Null) /\ UnrefIfSet(t, holds[s], refCount)
    BY <1>1 DEF Stores, UnrefIfSet
  <2>2. QED
    BY <1>2, <2>1, StoreAndUnref
<1>5. UNCHANGED <<immutable, writer, sealing, assign>>
  BY DEF DestroyField
<1>6. OneCall'
  <2>1. sealing # {} => writer # t /\ writer \in Thread
    BY <1>2 DEF OneCall, TypeOK
  <2>2. QED
    BY <1>4, <1>5, <2>1 DEF OneCall, UnrefResult
<1>7. AssignIsSafe'
  <2>1. \A r \in Slot : r # s => holds'[r] = holds[r]
    BY <1>1 DEF TypeOK
  <2>2. \A r \in Slot \ Local : status[r[1]] = "live" => holds'[r] = holds[r]
    BY <1>2, <2>1
  <2>3. assign # NoAssign => writer \in Thread
    BY DEF OneCall, TypeOK
  <2>4. \A w \in Variable : assign # NoAssign => holds'[<<writer, w>>] = holds[<<writer, w>>]
    BY <1>3, <2>1, <2>3, SlotKinds DEF Slot
  <2>5. QED
    BY <1>5, <2>2, <2>4, AssignKept
<1>8. QED
  BY <1>4, <1>5, <1>6, <1>7, InvFromParts DEF TypeOK

LEMMA FreeObjectKeeps ==
  ASSUME CountInv, NEW t \in Thread, FreeObject(t)
  PROVE  CountInv'
<1> USE DEF CountInv
<1> DEFINE o == destroying[t]
<1>1. /\ o \in Object /\ o # Null /\ status[o] = "dying"
      /\ \A s \in FieldsOf(o) : holds[s] = Null
      /\ status' = [status EXCEPT ![o] = "free"]
      /\ immutable' = [immutable EXCEPT ![o] = FALSE]
      /\ destroying' = [destroying EXCEPT ![t] = caller[o]]
      /\ caller' = [caller EXCEPT ![o] = Null]
      /\ UNCHANGED <<holds, refCount, sealing, assign>>
      /\ writer' \in {writer, Null} /\ (writer # t \/ assign # NoAssign => writer' = writer)
  BY DEF FreeObject, TypeOK, StacksAreDisjoint
<1>2. \A p \in Object : caller[p] # o
  BY <1>1 DEF StacksAreDisjoint
<1>3. StacksAreDisjoint'
  <2>1. \A u \in Thread : destroying'[u] # Null => status'[destroying'[u]] = "dying"
    <3>1. ASSUME NEW u \in Thread, destroying'[u] # Null
          PROVE  status'[destroying'[u]] = "dying"
      <4>1. CASE u = t
        BY <1>1, <1>2, <3>1, <4>1 DEF StacksAreDisjoint, TypeOK
      <4>2. CASE u # t
        BY <1>1, <3>1, <4>2 DEF StacksAreDisjoint, TypeOK
      <4>3. QED
        BY <4>1, <4>2
    <3>2. QED
      BY <3>1
  <2>2. \A p \in Object : caller'[p] # Null => status'[p] = "dying" /\ status'[caller'[p]] = "dying"
    BY <1>1, <1>2 DEF StacksAreDisjoint, TypeOK
  <2>3. \A u, w \in Thread : destroying'[u] = destroying'[w] /\ destroying'[u] # Null => u = w
    BY <1>1 DEF StacksAreDisjoint, TypeOK
  <2>4. \A p, q \in Object : caller'[p] = caller'[q] /\ caller'[p] # Null => p = q
    BY <1>1 DEF StacksAreDisjoint, TypeOK
  <2>5. \A u \in Thread, p \in Object : destroying'[u] # Null => destroying'[u] # caller'[p]
    <3>1. ASSUME NEW u \in Thread, NEW p \in Object, destroying'[u] # Null, destroying'[u] = caller'[p]
          PROVE  FALSE
      <4>1. p # o /\ caller'[p] = caller[p]
        BY <1>1, <3>1 DEF TypeOK
      <4>2. CASE u = t
        BY <1>1, <3>1, <4>1, <4>2 DEF StacksAreDisjoint, TypeOK
      <4>3. CASE u # t
        BY <1>1, <3>1, <4>1, <4>3 DEF StacksAreDisjoint, TypeOK
      <4>4. QED
        BY <4>2, <4>3
    <3>2. QED
      BY <3>1
  <2>6. QED
    BY <2>1, <2>2, <2>3, <2>4, <2>5 DEF StacksAreDisjoint
<1>4. LiveIffCounted' /\ RefCountsExact'
  BY <1>1 DEF LiveIffCounted, TypeOK, RefCountsExact, Owners
<1>5. FreeIsEmpty'
  BY <1>1 DEF FreeIsEmpty, FieldsOf, TypeOK
<1>6. OneCall'
  <2>1. sealing # {} => writer # t /\ writer \in Thread
    BY <1>1 DEF OneCall, TypeOK
  <2>2. QED
    BY <1>1, <2>1 DEF OneCall, TypeOK
<1>7. AssignIsSafe'
  <2>1. \A p \in Object : status[p] = "live" => immutable'[p] = immutable[p]
    BY <1>1 DEF TypeOK
  <2>2. QED
    BY <1>1, <2>1, AssignKept
<1>8. HeapKept
  BY <1>1, <1>3, <1>4, <1>5 DEF HeapKept, HoldsOK, Holding, TypeOK
<1>9. QED
  BY <1>1, <1>6, <1>7, <1>8, InvFromParts DEF TypeOK

\* Sealing moves no reference.
LEMMA HeapUntouched ==
  ASSUME CountInv, UNCHANGED <<holds, refCount, status, destroying, caller>>
  PROVE  HeapKept
BY DEF HeapKept, HoldsOK, Holding, CountInv, TypeOK, RefCountsExact, Owners, LiveIffCounted,
       FreeIsEmpty, FieldsOf, StacksAreDisjoint

LEMMA SealKeeps ==
  ASSUME CountInv, NEW t \in Thread, NEW o \in Object, Seal(t, o)
  PROVE  CountInv'
<1> USE DEF CountInv
<1>1. /\ UNCHANGED <<holds, refCount, status, immutable, destroying, caller, assign>>
      /\ writer' = t /\ sealing' = {o} /\ destroying[t] = Null /\ assign = NoAssign
  BY DEF Seal, Idle, OneCall
<1>2. OneCall' /\ AssignIsSafe'
  BY <1>1, HeapAssumption DEF OneCall, AssignIsSafe
<1>3. QED
  BY <1>1, <1>2, HeapUntouched, InvFromParts DEF TypeOK

LEMMA SealObjectKeeps ==
  ASSUME CountInv, NEW t \in Thread, SealObject(t)
  PROVE  CountInv'
<1> USE DEF CountInv
<1>1. PICK o \in sealing :
        /\ immutable' = [immutable EXCEPT ![o] = TRUE]
        /\ sealing' = (sealing \ {o}) \cup (IF immutable[o] THEN {} ELSE ChildrenOf(o))
  BY DEF SealObject
<1>2. /\ UNCHANGED <<holds, refCount, status, destroying, caller, assign>>
      /\ writer = t /\ writer' = IF sealing' = {} THEN Null ELSE t
  BY DEF SealObject
<1>3. destroying[t] = Null /\ assign = NoAssign
  BY <1>1, <1>2 DEF OneCall
<1>4. sealing' \in SUBSET Object
  BY <1>1 DEF TypeOK, ChildrenOf, FieldsOf
<1>5. OneCall' /\ AssignIsSafe'
  BY <1>2, <1>3, HeapAssumption DEF OneCall, AssignIsSafe
<1>6. QED
  BY <1>1, <1>2, <1>4, <1>5, HeapUntouched, InvFromParts DEF TypeOK

-----------------------------------------------------------------------------
(* The theorems. *)

LEMMA InitCounts == Init => CountInv
<1> SUFFICES ASSUME Init PROVE CountInv
  OBVIOUS
<1>1. TypeOK
  BY SlotKinds, HeapAssumption DEF Init, TypeOK, Slot
<1>2. RefCountsExact
  <2>1. \A o \in Object : CountIn(holds, o) = 0
    BY CountIsNat, HeapAssumption DEF Init
  <2>2. QED
    BY <2>1, RefCountsAsCounts DEF Init
<1>3. LiveIffCounted /\ FreeIsEmpty /\ OneCall /\ AssignIsSafe
  BY DEF Init, LiveIffCounted, FreeIsEmpty, FieldsOf, OneCall, AssignIsSafe
<1>4. StacksAreDisjoint
  BY DEF Init, StacksAreDisjoint
<1>5. QED
  BY <1>1, <1>2, <1>3, <1>4 DEF CountInv

\* Every step of every thread, whatever the others are in the middle of.
LEMMA NextCounts == ASSUME ~BorrowedArguments, CountInv, [Next]_vars PROVE CountInv'
<1>1. CASE UNCHANGED vars
  BY <1>1 DEF vars, CountInv, TypeOK, RefCountsExact, Owners, LiveIffCounted, FreeIsEmpty,
              FieldsOf, StacksAreDisjoint, OneCall, AssignIsSafe
<1>2. ASSUME NEW t \in Thread, Call(t)
      PROVE  CountInv'
  <2>1. CASE \E v \in Variable : \E o \in Object : New(t, v, o)
    BY <2>1, NewKeeps
  <2>2. CASE \E v \in Variable, n \in Node, c \in Container : NewHolding(t, v, n, c)
    BY <2>2, NewHoldingKeeps
  <2>3. CASE \E o \in Object, u \in Thread, v \in Variable : Ref(t, o, u, v)
    BY <2>3, RefKeeps
  <2>4. CASE \E v \in Variable : Drop(t, v)
    BY <2>4, DropKeeps DEF Drop
  <2>5. CASE \E m \in Mapping, k \in Key, n \in Node : SetMember(t, m, k, n)
    BY <2>5, SetMemberKeeps
  <2>6. CASE \E m \in Mapping, k \in Key : RemoveMember(t, m, k)
    BY <2>6, RemoveMemberKeeps
  <2>7. CASE \E q \in Sequence, i \in Position, n \in Node : AddElement(t, q, i, n)
    BY <2>7, AddElementKeeps
  <2>8. CASE \E q \in Sequence, i \in Position : RemoveElement(t, q, i)
    BY <2>8, RemoveElementKeeps
  <2>9. CASE \E n \in Node : SetScalar(t, n)
    BY <2>9, SetScalarKeeps
  <2>10. CASE \E n \in Node, c \in Container : SetContainer(t, n, c)
    BY <2>10, SetContainerKeeps
  <2>11. CASE \E n \in Node, v \in Variable : TakeContainer(t, n, v)
    BY <2>11, TakeContainerKeeps
  <2>12. CASE \E n \in Node, v \in Variable : TakeRefused(t, n, v)
    <3>1. PICK n \in Node, v \in Variable : TakeRefused(t, n, v)
      BY <2>12
    <3>2. holds[<<t, v>>] # Null
      BY <3>1, HeapAssumption DEF TakeRefused, Object
    <3>3. QED
      BY <3>1, <3>2, DropKeeps DEF TakeRefused
  <2>13. CASE \E o \in Object : Seal(t, o)
    BY <2>13, SealKeeps
  <2>14. QED
    BY <1>2, <2>1, <2>2, <2>3, <2>4, <2>5, <2>6, <2>7, <2>8, <2>9, <2>10, <2>11, <2>12, <2>13
       DEF Call
<1>3. ASSUME NEW t \in Thread, Continue(t)
      PROVE  CountInv'
  BY <1>3, DestroyFieldKeeps, FreeObjectKeeps, FinishAssignKeeps, SealObjectKeeps DEF Continue
<1>4. QED
  BY <1>1, <1>2, <1>3 DEF Next

\* The invariant the theorems below are parts of.
THEOREM CountsCorrect == ~BorrowedArguments /\ Spec => []CountInv
<1>1. ASSUME ~BorrowedArguments
      PROVE  Spec => []CountInv
  <2>1. Init => CountInv
    BY InitCounts
  <2>2. CountInv /\ [Next]_vars => CountInv'
    BY <1>1, NextCounts
  <2>3. QED
    BY <2>1, <2>2, PTL DEF Spec
<1>2. QED
  BY <1>1

\* The fields keep the types of the C structs, and no counter goes below zero
\* (yaml-private.h:27-114).
THEOREM TypeCorrect == ~BorrowedArguments /\ Spec => []TypeOK
<1>1. CountInv => TypeOK
  BY DEF CountInv
<1>2. QED
  BY <1>1, CountsCorrect, PTL

\* ref_count is the number of references at every moment, for any number of
\* threads and objects: every ref has its unref in the functions of yaml-node.c,
\* yaml-mapping.c and yaml-sequence.c.
THEOREM CountersTellTheTruth == ~BorrowedArguments /\ Spec => []RefCountsExact
<1>1. CountInv => RefCountsExact
  BY DEF CountInv
<1>2. QED
  BY <1>1, CountsCorrect, PTL

\* No owned reference is to memory that was freed or is being freed.
THEOREM NoUseAfterFree == ~BorrowedArguments /\ Spec => []NoDangling
<1>1. CountInv => NoDangling
  BY NothingDangles DEF CountInv
<1>2. QED
  BY <1>1, CountsCorrect, PTL

-----------------------------------------------------------------------------
(* Calls in progress: what is sealed stays as it is, and is sealed all the way down;   *)
(* what a call will still touch is alive when it gets there.                            *)

\* What every step but the recursion of seal does to the sealed objects: it
\* leaves their fields and their flag alone, and adds none.
SealedUntouched ==
  \A o \in Object :
    /\ immutable[o] /\ status[o] = "live"
         => immutable'[o] /\ \A s \in FieldsOf(o) : holds'[s] = holds[s]
    /\ immutable'[o] /\ status'[o] = "live" => immutable[o] /\ status[o] = "live"

-----------------------------------------------------------------------------
(* Steps that leave the sealed objects alone. *)

\* unref only ever ends lives.
LEMMA UnrefMakesNoneLive ==
  ASSUME TypeOK, NEW t \in Thread, NEW o, NEW counts,
         UnrefIfSet(t, o, counts) \/ Unref(t, o, counts)
  PROVE  \A p \in Object : status'[p] = "live" => status[p] = "live"
BY DEF UnrefIfSet, Unref, TypeOK

\* A step that stores into one slot, which is no field of a sealed object.
LEMMA StoreElsewhere ==
  ASSUME TypeOK, NEW s \in Slot, NEW x, Stores(s, x),
         s \in Local \/ ~immutable[s[1]] \/ status[s[1]] # "live",
         \A p \in Object : status'[p] = "live" => status[p] = "live",
         immutable' = immutable
  PROVE  SealedUntouched
<1>1. \A r \in Slot : r # s => holds'[r] = holds[r]
  BY DEF Stores, TypeOK
<1>2. ASSUME NEW o \in Object, immutable[o], status[o] = "live", NEW r \in Slot, r[1] = o
      PROVE  holds'[r] = holds[r]
  <2>1. r # s
    BY <1>2, SlotKinds
  <2>2. QED
    BY <1>1, <2>1
<1>3. QED
  BY <1>2 DEF SealedUntouched, FieldsOf

LEMMA CallLeavesSealed ==
  ASSUME CountInv, NEW t \in Thread, Call(t)
  PROVE  SealedUntouched
<1> USE DEF CountInv
<1>1. ASSUME NEW v \in Variable, NEW o \in Object, New(t, v, o)
      PROVE  SealedUntouched
  <2>1. \A s \in Slot : s \notin Local => holds'[s] = holds[s]
    BY <1>1, SlotKinds DEF New, TypeOK
  <2>2. \A p \in Object : \A s \in FieldsOf(p) : s \in Slot /\ s \notin Local
    BY SlotKinds DEF FieldsOf
  <2>3. \A p \in Object : p # o => immutable'[p] = immutable[p] /\ status'[p] = status[p]
    BY <1>1 DEF New, TypeOK
  <2>4. status[o] = "free" /\ ~immutable'[o]
    BY <1>1 DEF New, TypeOK
  <2>5. QED
    BY <2>1, <2>2, <2>3, <2>4 DEF SealedUntouched
<1>2. ASSUME NEW v \in Variable, NEW n \in Node, NEW c \in Container, NewHolding(t, v, n, c)
      PROVE  SealedUntouched
  <2>1. \A s \in Slot : s \notin Local /\ s # <<n, "data">> => holds'[s] = holds[s]
    BY <1>2, SlotKinds DEF NewHolding, TypeOK
  <2>2. \A p \in Object : p # n => \A s \in FieldsOf(p) : s \in Slot /\ s \notin Local /\ s # <<n, "data">>
    BY SlotKinds DEF FieldsOf
  <2>3. \A p \in Object : p # n /\ p # c => immutable'[p] = immutable[p] /\ status'[p] = status[p]
    BY <1>2 DEF NewHolding, TypeOK
  <2>4. n # c /\ n \in Object /\ c \in Object
    BY HeapAssumption DEF Object, Container
  <2>5. status[n] = "free" /\ ~immutable'[n]
    BY <1>2, <2>4 DEF NewHolding, TypeOK
  <2>6. immutable'[c] <=> immutable[c] /\ status[c] = "live"
    BY <1>2, <2>4 DEF NewHolding, TypeOK
  <2>7. QED
    BY <2>1, <2>2, <2>3, <2>4, <2>5, <2>6 DEF SealedUntouched
<1>3. ASSUME NEW o \in Object, NEW u \in Thread, NEW v \in Variable, Ref(t, o, u, v)
      PROVE  SealedUntouched
  <2>1. <<u, v>> \in Local /\ <<u, v>> \in Slot
    BY SlotKinds DEF Slot
  <2>2. Stores(<<u, v>>, o) /\ UNCHANGED <<status, immutable>>
    BY <1>3 DEF Ref, Stores
  <2>3. QED
    BY <2>1, <2>2, StoreElsewhere
<1>4. ASSUME NEW v \in Variable,
             holds' = [holds EXCEPT ![<<t, v>>] = Null],
             Unref(t, holds[<<t, v>>], refCount), UNCHANGED immutable
      PROVE  SealedUntouched
  <2>1. <<t, v>> \in Local /\ <<t, v>> \in Slot
    BY SlotKinds DEF Slot
  <2>2. Stores(<<t, v>>, Null)
    BY <1>4 DEF Stores
  <2>3. QED
    BY <1>4, <2>1, <2>2, StoreElsewhere, UnrefMakesNoneLive
<1>5. ASSUME NEW o \in Object, MayWrite(t, o), NEW s \in Slot, s[1] = o, NEW x, Stores(s, x),
             \A p \in Object : status'[p] = "live" => status[p] = "live",
             UNCHANGED immutable
      PROVE  SealedUntouched
  BY <1>5, StoreElsewhere DEF MayWrite
<1>6. ASSUME NEW m \in Mapping, NEW k \in Key, NEW n \in Node, SetMember(t, m, k, n)
      PROVE  SealedUntouched
  <2>1. <<m, k>> \in Slot /\ <<m, k>>[1] = m /\ m \in Object
    BY SlotKinds DEF Slot, Object, Container
  <2>2. /\ MayWrite(t, m) /\ Stores(<<m, k>>, n) /\ UNCHANGED immutable
        /\ UnrefIfSet(t, holds[<<m, k>>], Incremented(n))
    BY <1>6 DEF SetMember, Stores
  <2>3. QED
    BY <1>5, <2>1, <2>2, UnrefMakesNoneLive
<1>7. ASSUME NEW m \in Mapping, NEW k \in Key, RemoveMember(t, m, k)
      PROVE  SealedUntouched
  <2>1. <<m, k>> \in Slot /\ <<m, k>>[1] = m /\ m \in Object
    BY SlotKinds DEF Slot, Object, Container
  <2>2. /\ MayWrite(t, m) /\ Stores(<<m, k>>, Null) /\ UNCHANGED immutable
        /\ Unref(t, holds[<<m, k>>], refCount)
    BY <1>7 DEF RemoveMember, Stores
  <2>3. QED
    BY <1>5, <2>1, <2>2, UnrefMakesNoneLive
<1>8. ASSUME NEW q \in Sequence, NEW i \in Position, NEW n \in Node, AddElement(t, q, i, n)
      PROVE  SealedUntouched
  <2>1. <<q, i>> \in Slot /\ <<q, i>>[1] = q /\ q \in Object
    BY SlotKinds DEF Slot, Object, Container
  <2>2. MayWrite(t, q) /\ Stores(<<q, i>>, n) /\ UNCHANGED <<immutable, status>>
    BY <1>8 DEF AddElement, Stores
  <2>3. QED
    BY <1>5, <2>1, <2>2
<1>9. ASSUME NEW q \in Sequence, NEW i \in Position, RemoveElement(t, q, i)
      PROVE  SealedUntouched
  <2>1. MayWrite(t, q) /\ UNCHANGED immutable /\ Unref(t, holds[<<q, i>>], refCount)
    BY <1>9 DEF RemoveElement
  <2>2. \A p \in Object : status'[p] = "live" => status[p] = "live"
    BY <2>1, UnrefMakesNoneLive
  <2>3. \A s \in Slot : s[1] # q => holds'[s] = holds[s]
    BY <1>9 DEF RemoveElement, ElementsWithout
  <2>4. ~immutable[q]
    BY <2>1 DEF MayWrite
  <2>5. QED
    BY <2>1, <2>2, <2>3, <2>4 DEF SealedUntouched, FieldsOf
<1>10. ASSUME NEW n \in Node, MayWrite(t, n), Stores(<<n, "data">>, Null),
              UnrefIfSet(t, holds[<<n, "data">>], refCount), UNCHANGED immutable
       PROVE  SealedUntouched
  <2>1. <<n, "data">> \in Slot /\ <<n, "data">>[1] = n /\ n \in Object
    BY SlotKinds DEF Slot, Object
  <2>2. QED
    BY <1>5, <1>10, <2>1, UnrefMakesNoneLive
<1>11. ASSUME NEW o \in Object, Seal(t, o)
       PROVE  SealedUntouched
  BY <1>11 DEF Seal, SealedUntouched
<1>12. QED
  <2>1. CASE \/ \E v \in Variable : \E o \in Object : New(t, v, o)
             \/ \E v \in Variable, n \in Node, c \in Container : NewHolding(t, v, n, c)
             \/ \E o \in Object, u \in Thread, v \in Variable : Ref(t, o, u, v)
    BY <2>1, <1>1, <1>2, <1>3
  <2>2. CASE \/ \E v \in Variable : Drop(t, v)
             \/ \E n \in Node, v \in Variable : TakeRefused(t, n, v)
    BY <2>2, <1>4 DEF Drop, TakeRefused
  <2>3. CASE \/ \E m \in Mapping, k \in Key, n \in Node : SetMember(t, m, k, n)
             \/ \E m \in Mapping, k \in Key : RemoveMember(t, m, k)
             \/ \E q \in Sequence, i \in Position, n \in Node : AddElement(t, q, i, n)
             \/ \E q \in Sequence, i \in Position : RemoveElement(t, q, i)
             \/ \E o \in Object : Seal(t, o)
    BY <2>3, <1>6, <1>7, <1>8, <1>9, <1>11
  <2>4. CASE \/ \E n \in Node : SetScalar(t, n)
             \/ \E n \in Node, c \in Container : SetContainer(t, n, c)
             \/ \E n \in Node, v \in Variable : TakeContainer(t, n, v)
    BY <2>4, <1>10 DEF SetScalar, SetContainer, TakeContainer, Stores
  <2>5. QED
    BY <2>1, <2>2, <2>3, <2>4 DEF Call

\* Destructors only touch dying objects, and the half-made assignment is to a
\* mutable node.
LEMMA ContinueLeavesSealed ==
  ASSUME CountInv, NEW t \in Thread, DestroyField(t) \/ FreeObject(t) \/ FinishAssign(t)
  PROVE  SealedUntouched
<1> USE DEF CountInv
<1>1. CASE DestroyField(t)
  <2>1. PICK s \in FieldsOf(destroying[t]) :
          Stores(s, Null) /\ Unref(t, holds[s], refCount)
    BY <1>1 DEF DestroyField, Stores
  <2>2. s \in Slot /\ s[1] = destroying[t] /\ status[destroying[t]] = "dying"
    BY <1>1 DEF DestroyField, FieldsOf, StacksAreDisjoint
  <2>3. UNCHANGED immutable
    BY <1>1 DEF DestroyField
  <2>4. QED
    BY <2>1, <2>2, <2>3, StoreElsewhere, UnrefMakesNoneLive
<1>2. CASE FreeObject(t)
  <2> DEFINE o == destroying[t]
  <2>1. o \in Object /\ status[o] = "dying"
    BY <1>2 DEF FreeObject, StacksAreDisjoint, TypeOK
  <2>2. /\ holds' = holds
        /\ status' = [status EXCEPT ![o] = "free"]
        /\ immutable' = [immutable EXCEPT ![o] = FALSE]
    BY <1>2 DEF FreeObject
  <2>3. QED
    BY <2>1, <2>2 DEF SealedUntouched, TypeOK
<1>3. CASE FinishAssign(t)
  <2> DEFINE n == assign.node
             r == <<n, "data">>
  <2>1. assign # NoAssign /\ writer = t /\ UNCHANGED <<status, immutable>>
    BY <1>3 DEF FinishAssign
  <2>2. n \in Node /\ n \in Object /\ ~immutable[n] /\ assign.taken \in Variable \cup {Null}
    BY <2>1 DEF TypeOK, AssignIsSafe, Object
  <2>3. r \in Slot /\ r[1] = n
    BY <2>2, SlotKinds DEF Slot
  <2>4. \A s \in Slot : s \notin Local /\ s # r => holds'[s] = holds[s]
    <3>1. CASE assign.taken = Null
      BY <3>1, <1>3, <2>3 DEF FinishAssign, TypeOK
    <3>2. CASE assign.taken # Null
      <4>1. <<t, assign.taken>> \in Local
        BY <3>2, <2>2, SlotKinds
      <4>2. QED
        BY <3>2, <4>1, <1>3, <2>3 DEF FinishAssign, TypeOK
    <3>3. QED
      BY <3>1, <3>2
  <2>5. \A o \in Object : o # n => \A s \in FieldsOf(o) : holds'[s] = holds[s]
    <3>1. ASSUME NEW o \in Object, o # n, NEW s \in FieldsOf(o)
          PROVE  holds'[s] = holds[s]
      <4>1. s \in Slot /\ s \notin Local /\ s # r
        BY <3>1, SlotKinds DEF FieldsOf
      <4>2. QED
        BY <4>1, <2>4
    <3>2. QED
      BY <3>1
  <2>6. QED
    BY <2>1, <2>2, <2>5 DEF SealedUntouched
<1>4. QED
  BY <1>1, <1>2, <1>3

-----------------------------------------------------------------------------
(* Sealed objects are not changed. *)

SealedStay ==
  \A o \in Object :
     immutable[o] /\ status[o] = "live"
       => /\ \A s \in FieldsOf(o) : holds'[s] = holds[s]
          /\ status'[o] = "live" => immutable'[o]

LEMMA StepLeavesSealed == ASSUME CountInv, [Next]_vars PROVE [SealedStay]_vars
<1>1. CASE UNCHANGED vars
  BY <1>1
<1>2. CASE \E t \in Thread : Call(t)
  BY <1>2, CallLeavesSealed DEF SealedUntouched, SealedStay
<1>3. CASE \E t \in Thread : DestroyField(t) \/ FreeObject(t) \/ FinishAssign(t)
  BY <1>3, ContinueLeavesSealed DEF SealedUntouched, SealedStay
<1>4. CASE \E t \in Thread : SealObject(t)
  BY <1>4 DEF SealObject, SealedStay, CountInv, TypeOK
<1>5. QED
  BY <1>1, <1>2, <1>3, <1>4 DEF Next, Continue

\* An immutable object cannot be modified and may be read by every thread
\* without synchronization, for any number of threads (yaml-mapping.h:30-32).
THEOREM SealedNeverChanges == ~BorrowedArguments /\ Spec => SealedFrozen
<1>1. CountInv /\ [Next]_vars => [SealedStay]_vars
  BY StepLeavesSealed
<1>2. ~BorrowedArguments /\ Spec => [][SealedStay]_vars
  BY <1>1, CountsCorrect, PTL DEF Spec
<1>3. QED
  BY <1>2 DEF SealedFrozen, SealedStay

-----------------------------------------------------------------------------
(* Sealing reaches everything below. *)

SealInv == CountInv /\ SealedClosed

\* A child of a live object is alive.
LEMMA ChildrenAreLive ==
  ASSUME CountInv, NEW o \in Object, NEW c \in ChildrenOf(o)
  PROVE  c \in Object /\ status[c] = "live"
<1>1. PICK s \in Slot : holds[s] = c /\ c # Null
  BY DEF ChildrenOf, FieldsOf
<1>2. QED
  BY <1>1, NothingDangles DEF CountInv, NoDangling

LEMMA ClosedKept ==
  ASSUME SealInv, SealedUntouched, sealing \subseteq sealing'
  PROVE  SealedClosed'
<1>1. ASSUME NEW o \in Object, immutable'[o], status'[o] = "live",
             NEW s \in FieldsOf(o), holds'[s] # Null
      PROVE  immutable'[holds'[s]] \/ holds'[s] \in sealing'
  <2>1. immutable[o] /\ status[o] = "live" /\ holds'[s] = holds[s]
    BY <1>1 DEF SealedUntouched
  <2>2. holds[s] \in ChildrenOf(o)
    BY <1>1, <2>1 DEF ChildrenOf
  <2>3. holds[s] \in Object /\ status[holds[s]] = "live"
    BY <2>2, ChildrenAreLive DEF SealInv
  <2>4. immutable[holds[s]] \/ holds[s] \in sealing
    BY <2>1, <2>2 DEF SealInv, SealedClosed
  <2>5. QED
    BY <2>1, <2>3, <2>4 DEF SealedUntouched
<1>2. QED
  BY <1>1 DEF SealedClosed, ChildrenOf, FieldsOf

LEMMA SealObjectCloses ==
  ASSUME SealInv, NEW t \in Thread, SealObject(t)
  PROVE  SealedClosed'
<1>1. PICK o \in sealing :
        /\ immutable' = [immutable EXCEPT ![o] = TRUE]
        /\ sealing' = (sealing \ {o}) \cup (IF immutable[o] THEN {} ELSE ChildrenOf(o))
        /\ UNCHANGED <<holds, status>>
  BY DEF SealObject
<1>2. o \in Object
  BY DEF SealInv, CountInv, TypeOK
<1>3. ASSUME NEW p \in Object, immutable'[p], status[p] = "live", NEW c \in ChildrenOf(p)
      PROVE  immutable'[c] \/ c \in sealing'
  <2>1. c \in Object
    BY ChildrenAreLive DEF SealInv
  <2>2. CASE immutable[p]
    BY <2>1, <2>2, <1>1, <1>2, <1>3 DEF SealInv, SealedClosed, CountInv, TypeOK
  <2>3. CASE ~immutable[p]
    <3>1. p = o
      BY <2>3, <1>1, <1>2, <1>3 DEF SealInv, CountInv, TypeOK
    <3>2. QED
      BY <3>1, <2>3, <1>1
  <2>4. QED
    BY <2>2, <2>3
<1>4. QED
  BY <1>1, <1>3 DEF SealedClosed, ChildrenOf, FieldsOf

LEMMA NextCloses == ASSUME ~BorrowedArguments, SealInv, [Next]_vars PROVE SealInv'
<1>1. CountInv'
  BY NextCounts DEF SealInv
<1>2. CASE UNCHANGED vars
  BY <1>1, <1>2 DEF vars, SealInv, SealedClosed, ChildrenOf, FieldsOf
<1>3. ASSUME NEW t \in Thread, Call(t)
      PROVE  SealedClosed'
  <2>1. SealedUntouched
    BY <1>3, CallLeavesSealed DEF SealInv
  <2>2. sealing \subseteq sealing'
    <3>1. CASE \E o \in Object : Seal(t, o)
      BY <3>1 DEF Seal, SealInv, CountInv, OneCall
    <3>2. CASE ~\E o \in Object : Seal(t, o)
      BY <3>2, <1>3 DEF Call, New, NewHolding, Ref, Drop, SetMember, RemoveMember, AddElement,
                        RemoveElement, SetScalar, SetContainer, TakeContainer, TakeRefused
    <3>3. QED
      BY <3>1, <3>2
  <2>3. QED
    BY <2>1, <2>2, ClosedKept
<1>4. ASSUME NEW t \in Thread, DestroyField(t) \/ FreeObject(t) \/ FinishAssign(t)
      PROVE  SealedClosed'
  <2>1. SealedUntouched
    BY <1>4, ContinueLeavesSealed DEF SealInv
  <2>2. sealing' = sealing
    BY <1>4 DEF DestroyField, FreeObject, FinishAssign
  <2>3. QED
    BY <2>1, <2>2, ClosedKept
<1>5. QED
  BY <1>1, <1>2, <1>3, <1>4, SealObjectCloses DEF Next, Continue, SealInv

\* "Once sealed, a node and all its children cannot be modified"
\* (yaml-node.h:31-32): below a sealed object everything is sealed, or the seal
\* in progress is on its way there; on graphs with aliases and cycles as well.
THEOREM SealReachesAll == ~BorrowedArguments /\ Spec => []SealedClosed
<1>1. ASSUME ~BorrowedArguments
      PROVE  Spec => []SealedClosed
  <2>1. Init => SealInv
    BY InitCounts DEF Init, SealInv, SealedClosed
  <2>2. SealInv /\ [Next]_vars => SealInv'
    BY <1>1, NextCloses
  <2>3. SealInv => SealedClosed
    BY DEF SealInv
  <2>4. QED
    BY <2>1, <2>2, <2>3, PTL DEF Spec
<1>2. QED
  BY <1>1

-----------------------------------------------------------------------------
(* What a call in progress will still touch is alive. *)

\* A set of objects that keeps itself and what the thread owns reachable.
Supports(R) ==
    /\ R \in SUBSET Object
    /\ sealing \subseteq R
    /\ \A r \in R : r \in Owned(writer) \/ \E p \in R : r \in ChildrenOf(p)

\* The members of such a set are held, so they are alive.
LEMMA SupportIsLive ==
  ASSUME CountInv, writer \in Thread, NEW R, Supports(R)
  PROVE  \A r \in R : r \in Object /\ r # Null /\ status[r] = "live"
<1>1. ASSUME NEW r \in R
      PROVE  r \in Object /\ r # Null /\ status[r] = "live"
  <2>1. r \in Object
    BY DEF Supports
  <2>2. CASE r \in Owned(writer)
    <3>1. r \in Visible(writer)
      BY <2>2 DEF Visible
    <3>2. QED
      BY <2>1, <3>1, VisibleIsLive, HeapAssumption DEF CountInv
  <2>3. CASE \E p \in R : r \in ChildrenOf(p)
    <3>1. PICK p \in Object : r \in ChildrenOf(p)
      BY <2>3 DEF Supports
    <3>2. QED
      BY <2>1, <3>1, ChildrenAreLive, HeapAssumption
  <2>4. QED
    BY <2>2, <2>3 DEF Supports
<1>2. QED
  BY <1>1

\* A step keeps the set when it leaves alone what the writer owns and the
\* fields of live objects.
LEMMA SupportKept ==
  ASSUME CountInv, SealSupported, UNCHANGED <<sealing, writer>>,
         sealing # {} => \A v \in Variable : holds[<<writer, v>>] # Null
                            => holds'[<<writer, v>>] = holds[<<writer, v>>],
         \A s \in Slot \ Local : status[s[1]] = "live" => holds'[s] = holds[s]
  PROVE  SealSupported'
<1> SUFFICES ASSUME sealing # {}
             PROVE  \E R \in SUBSET Object :
                      /\ sealing' \subseteq R
                      /\ \A r \in R : \/ r \in Owned(writer)'
                                      \/ \E p \in R : r \in ChildrenOf(p)'
  BY DEF SealSupported
<1>1. writer \in Thread
  BY DEF CountInv, OneCall, TypeOK
<1>2. PICK R : Supports(R)
  BY DEF SealSupported, Supports
<1>3. \A r \in R : r \in Object /\ r # Null /\ status[r] = "live"
  BY <1>1, <1>2, SupportIsLive
<1>4. ASSUME NEW r \in R, r \in Owned(writer)
      PROVE  r \in Owned(writer)'
  BY <1>4 DEF Owned
<1>5. ASSUME NEW r \in R, NEW p \in R, r \in ChildrenOf(p)
      PROVE  r \in ChildrenOf(p)'
  <2>1. PICK s \in Slot : s[1] = p /\ holds[s] = r /\ r # Null
    BY <1>5 DEF ChildrenOf, FieldsOf
  <2>2. s \notin Local
    BY <2>1, <1>3, SlotKinds
  <2>3. holds'[s] = r
    BY <2>1, <2>2, <1>3
  <2>4. QED
    BY <2>1, <2>3 DEF ChildrenOf, FieldsOf
<1>6. sealing' \subseteq R /\ R \in SUBSET Object
  BY <1>2 DEF Supports
<1>7. \A r \in R : r \in Owned(writer)' \/ \E p \in R : r \in ChildrenOf(p)'
  BY <1>2, <1>4, <1>5 DEF Supports
<1>8. QED
  BY <1>6, <1>7

\* While a seal is in progress nobody modifies an object: the other threads only
\* make objects and references and drop their own.
LEMMA CallSupports ==
  ASSUME CountInv, SealSupported, NEW t \in Thread, Call(t)
  PROVE  SealSupported'
<1> USE DEF CountInv
<1>1. CASE sealing' = {}
  BY <1>1 DEF SealSupported
<1>2. CASE \E o \in Object : Seal(t, o)
  <2>1. PICK o \in Object : Seal(t, o)
    BY <1>2
  <2>2. writer' = t /\ sealing' = {o} /\ UNCHANGED holds /\ o \in Visible(t)
    BY <2>1 DEF Seal
  <2>3. Owned(writer)' = Owned(t) /\ \A p : ChildrenOf(p)' = ChildrenOf(p)
    BY <2>2 DEF Owned, ChildrenOf, FieldsOf
  <2>4. PICK p \in Object : p \in Owned(t) /\ (o = p \/ o \in ChildrenOf(p))
    <3>1. \A p \in Owned(t) : p \in Object
      BY VisibleIsLive DEF Visible
    <3>2. QED
      BY <2>2, <3>1 DEF Visible
  <2> DEFINE R == {o, p}
  <2>5. R \in SUBSET Object /\ {o} \subseteq R
    OBVIOUS
  <2>6. \A r \in R : r \in Owned(t) \/ \E q \in R : r \in ChildrenOf(q)
    BY <2>4
  <2> HIDE DEF R
  <2>7. QED
    BY <2>2, <2>3, <2>5, <2>6 DEF SealSupported
<1>3. CASE sealing' # {} /\ ~\E o \in Object : Seal(t, o)
  <2>1. sealing' = sealing
    BY <1>3 DEF Call, New, NewHolding, Ref, Drop, SetMember, RemoveMember, AddElement,
                RemoveElement, SetScalar, SetContainer, TakeContainer, TakeRefused
  <2>2. writer # Null /\ writer \in Thread
    BY <1>3, <2>1 DEF OneCall, TypeOK
  <2>3. ASSUME NEW v \in Variable, NEW o \in Object, New(t, v, o)
        PROVE  SealSupported'
    <3>1. \A s \in Slot : holds[s] # Null => holds'[s] = holds[s]
      BY <2>3 DEF New, TypeOK
    <3>2. \A s \in Slot \ Local : holds'[s] = holds[s]
      BY <2>3, SlotKinds DEF New, TypeOK
    <3>3. \A w \in Variable : <<writer, w>> \in Slot
      BY <2>2, SlotKinds DEF Slot
    <3>4. QED
      BY <2>3, <3>1, <3>2, <3>3, SupportKept DEF New
  <2>4. ASSUME NEW v \in Variable, NEW n \in Node, NEW c \in Container, NewHolding(t, v, n, c)
        PROVE  SealSupported'
    <3>1. \A w \in Variable : <<writer, w>> \in Slot /\ <<writer, w>> # <<n, "data">>
      BY <2>2, SlotKinds DEF Slot
    <3>2. \A w \in Variable : holds[<<writer, w>>] # Null
                                => holds'[<<writer, w>>] = holds[<<writer, w>>]
      BY <2>4, <3>1 DEF NewHolding, TypeOK
    <3>3. \A s \in Slot \ Local : s[1] # n => holds'[s] = holds[s]
      BY <2>4, SlotKinds DEF NewHolding, TypeOK
    <3>4. status[n] # "live"
      BY <2>4 DEF NewHolding
    <3>5. QED
      BY <2>4, <3>2, <3>3, <3>4, SupportKept DEF NewHolding
  <2>5. ASSUME NEW o \in Object, NEW u \in Thread, NEW v \in Variable, Ref(t, o, u, v)
        PROVE  SealSupported'
    <3>1. \A s \in Slot : holds[s] # Null => holds'[s] = holds[s]
      BY <2>5 DEF Ref, TypeOK
    <3>2. \A s \in Slot \ Local : holds'[s] = holds[s]
      BY <2>5, SlotKinds DEF Ref, TypeOK
    <3>3. \A w \in Variable : <<writer, w>> \in Slot
      BY <2>2, SlotKinds DEF Slot
    <3>4. QED
      BY <2>5, <3>1, <3>2, <3>3, SupportKept DEF Ref
  <2>6. ASSUME NEW v \in Variable, Idle(t), UNCHANGED <<sealing, writer>>,
               holds' = [holds EXCEPT ![<<t, v>>] = Null]
        PROVE  SealSupported'
    <3>1. \A w \in Variable : <<writer, w>> \in Slot /\ <<writer, w>> # <<t, v>>
      BY <2>2, <2>6, SlotKinds DEF Slot, Idle
    <3>2. \A w \in Variable : holds'[<<writer, w>>] = holds[<<writer, w>>]
      BY <2>6, <3>1 DEF TypeOK
    <3>3. \A s \in Slot \ Local : holds'[s] = holds[s]
      BY <2>6, SlotKinds DEF TypeOK
    <3>4. QED
      BY <2>6, <3>2, <3>3, SupportKept
  <2>7. ~\E o \in Object : MayWrite(t, o)
    BY <2>2 DEF MayWrite
  <2>8. \/ \E v \in Variable : \E o \in Object : New(t, v, o)
        \/ \E v \in Variable, n \in Node, c \in Container : NewHolding(t, v, n, c)
        \/ \E o \in Object, u \in Thread, v \in Variable : Ref(t, o, u, v)
        \/ \E v \in Variable : Drop(t, v)
        \/ \E n \in Node, v \in Variable : TakeRefused(t, n, v)
    BY <1>3, <2>7 DEF Call, SetMember, RemoveMember, AddElement, RemoveElement, SetScalar,
                      SetContainer, TakeContainer, Object, Container
  <2>9. QED
    BY <2>3, <2>4, <2>5, <2>6, <2>8 DEF Drop, TakeRefused
<1>4. QED
  BY <1>1, <1>2, <1>3

\* Destructors touch dying objects, which the set has none of.
LEMMA DestructorSupports ==
  ASSUME CountInv, SealSupported, NEW t \in Thread,
         DestroyField(t) \/ FreeObject(t) \/ FinishAssign(t)
  PROVE  SealSupported'
<1> USE DEF CountInv
<1>1. sealing' = sealing
  BY DEF DestroyField, FreeObject, FinishAssign
<1>2. CASE sealing = {}
  BY <1>1, <1>2 DEF SealSupported
<1>3. CASE sealing # {}
  <2>1. writer # Null /\ writer \in Thread /\ destroying[writer] = Null /\ assign = NoAssign
    BY <1>3 DEF OneCall, TypeOK
  <2>2. CASE DestroyField(t)
    <3>1. PICK s \in FieldsOf(destroying[t]) : holds' = [holds EXCEPT ![s] = Null]
      BY <2>2 DEF DestroyField
    <3>2. s \in Slot /\ s[1] = destroying[t] /\ destroying[t] \in Object
          /\ status[destroying[t]] = "dying"
      BY <2>2 DEF DestroyField, FieldsOf, StacksAreDisjoint, TypeOK
    <3>3. s \notin Local
      BY <3>2, SlotKinds
    <3>4. \A w \in Variable : <<writer, w>> \in Slot /\ <<writer, w>> # s
      BY <2>1, <3>3, SlotKinds DEF Slot
    <3>5. \A w \in Variable : holds'[<<writer, w>>] = holds[<<writer, w>>]
      BY <3>1, <3>4 DEF TypeOK
    <3>6. \A r \in Slot \ Local : status[r[1]] = "live" => holds'[r] = holds[r]
      BY <3>1, <3>2 DEF TypeOK
    <3>7. QED
      BY <2>2, <3>5, <3>6, SupportKept DEF DestroyField
  <2>3. CASE FreeObject(t)
    <3>1. UNCHANGED <<holds, writer, sealing>>
      BY <2>1, <2>3 DEF FreeObject
    <3>2. QED
      BY <3>1, SupportKept
  <2>4. CASE FinishAssign(t)
    BY <2>1, <2>4 DEF FinishAssign
  <2>5. QED
    BY <2>2, <2>3, <2>4
<1>4. QED
  BY <1>2, <1>3

\* The recursion moves on to the children of a member: they join the set.
LEMMA SealObjectSupports ==
  ASSUME CountInv, SealSupported, NEW t \in Thread, SealObject(t)
  PROVE  SealSupported'
<1> USE DEF CountInv
<1>1. PICK o \in sealing :
        sealing' = (sealing \ {o}) \cup (IF immutable[o] THEN {} ELSE ChildrenOf(o))
  BY DEF SealObject
<1>2. CASE sealing' = {}
  BY <1>2 DEF SealSupported
<1>3. CASE sealing' # {}
  <2>1. UNCHANGED <<holds, writer>>
    BY <1>3 DEF SealObject
  <2>2. \A p : Owned(p)' = Owned(p) /\ ChildrenOf(p)' = ChildrenOf(p)
    BY <2>1 DEF Owned, ChildrenOf, FieldsOf
  <2>3. PICK R \in SUBSET Object :
          /\ sealing \subseteq R
          /\ \A r \in R : r \in Owned(writer) \/ \E p \in R : r \in ChildrenOf(p)
    BY <1>1 DEF SealSupported
  <2> DEFINE Q == R \cup ChildrenOf(o)
  <2>4. ChildrenOf(o) \subseteq Object
    BY DEF ChildrenOf, FieldsOf, TypeOK
  <2>5. Q \in SUBSET Object /\ sealing' \subseteq Q
    BY <1>1, <2>3, <2>4
  <2>6. \A r \in Q : r \in Owned(writer) \/ \E p \in Q : r \in ChildrenOf(p)
    BY <2>3
  <2>7. QED
    BY <2>1, <2>2, <2>5, <2>6 DEF SealSupported
<1>4. QED
  BY <1>2, <1>3

\* The objects a call in progress will still touch are alive when it gets to
\* them: the node and the container of yaml_node_set_mapping outlive the
\* clear_internal in between, and no thread frees what seal is on its way to.
THEOREM CallsAreSafe == ~BorrowedArguments /\ Spec => []CallsTouchLiveObjects
<1> DEFINE TouchInv == CountInv /\ SealSupported
<1>1. Init => TouchInv
  BY InitCounts DEF Init, SealSupported
<1>2. ASSUME ~BorrowedArguments, TouchInv, [Next]_vars
      PROVE  TouchInv'
  <2>1. CountInv'
    BY <1>2, NextCounts
  <2>2. CASE UNCHANGED vars
    <3>1. UNCHANGED <<holds, sealing, writer>>
      BY <2>2 DEF vars
    <3>2. SealSupported'
      BY <1>2, <3>1, SupportKept
    <3>3. QED
      BY <2>1, <3>2
  <2>3. CASE Next
    <3>1. PICK t \in Thread : Call(t) \/ Continue(t)
      BY <2>3 DEF Next
    <3>2. SealSupported'
      BY <1>2, <3>1, CallSupports, DestructorSupports, SealObjectSupports DEF Continue
    <3>3. QED
      BY <2>1, <3>2
  <2>4. QED
    BY <1>2, <2>1, <2>2, <2>3
<1>3. ASSUME TouchInv
      PROVE  CallsTouchLiveObjects
  <2>1. \A o \in sealing : status[o] = "live"
    <3>1. CASE sealing = {}
      BY <3>1
    <3>2. CASE sealing # {}
      <4>1. writer \in Thread
        BY <1>3, <3>2 DEF CountInv, OneCall, TypeOK
      <4>2. PICK R : Supports(R)
        BY <1>3, <3>2 DEF SealSupported, Supports
      <4>3. QED
        BY <1>3, <4>1, <4>2, SupportIsLive DEF Supports
    <3>3. QED
      BY <3>1, <3>2
  <2>2. ASSUME assign # NoAssign
        PROVE  status[assign.node] = "live" /\ status[assign.container] = "live"
    <3>1. NoDangling
      BY <1>3, NothingDangles DEF CountInv
    <3>2. /\ writer \in Thread
          /\ assign.node \in Node /\ assign.container \in Container
      BY <1>3, <2>2 DEF CountInv, OneCall, TypeOK
    <3>3. assign.node # Null /\ assign.container # Null
      BY <3>2, HeapAssumption DEF Object
    <3>4. \A v \in Variable : <<writer, v>> \in Slot
      BY <3>2, SlotKinds DEF Slot
    <3>5. status[assign.container] = "live"
      BY <1>3, <2>2, <3>1, <3>3, <3>4 DEF CountInv, AssignIsSafe, NoDangling
    <3>6. \E s \in Slot : holds[s] = assign.node
      BY <1>3, <2>2, <3>4 DEF CountInv, AssignIsSafe, FieldsOf
    <3>7. QED
      BY <3>1, <3>3, <3>5, <3>6 DEF NoDangling
  <2>3. QED
    BY <2>1, <2>2 DEF CallsTouchLiveObjects
<1> HIDE DEF TouchInv
<1>4. ~BorrowedArguments /\ TouchInv /\ [Next]_vars => TouchInv'
  BY <1>2
<1>5. ~BorrowedArguments /\ Spec => []TouchInv
  <2>1. ASSUME ~BorrowedArguments
        PROVE  Spec => []TouchInv
    <3>1. TouchInv /\ [Next]_vars => TouchInv'
      BY <1>4, <2>1
    <3>2. QED
      BY <1>1, <3>1, PTL DEF Spec
  <2>2. QED
    BY <2>1
<1>6. TouchInv => CallsTouchLiveObjects
  BY <1>3
<1>7. QED
  BY <1>5, <1>6, PTL

-----------------------------------------------------------------------------
(* The safety part of the ownership contract of YamlOwnership, with the variable exists *)
(* read as the objects that are not free: every step of every thread is a step of the   *)
(* contract.  And what is not reachable any more is below a reference cycle.            *)

IsHeld(o) == \E s \in Slot : holds[s] = o

\* What a step other than the return of memory does: references are copied from
\* places where they are, or are to fresh memory, and no object goes away.
CopiesReferences ==
    /\ \A s \in Slot : holds'[s] # Null => IsHeld(holds'[s]) \/ status[holds'[s]] = "free"
    /\ \A o \in Object : status'[o] = "free" => status[o] = "free"
    /\ \A o \in Object : status[o] = "free" => status'[o] \in {"free", "live"}

\* Such a step is a step of the contract.
LEMMA CopyIsReference ==
  ASSUME CountInv, CountInv', CopiesReferences
  PROVE  Contract!Reference
<1> DEFINE E == {o \in Object : status[o] # "free"}
<1>1. holds' \in [Slot -> Object \cup {Null}]
  BY DEF CountInv, TypeOK
<1>2. E \subseteq E'
  BY DEF CopiesReferences
<1>3. NoDangling'
  <2>1. TypeOK' /\ RefCountsExact' /\ LiveIffCounted'
    BY DEF CountInv
  <2>2. \A s \in Slot : holds'[s] # Null => holds'[s] \in Object /\ refCount'[holds'[s]] # 0
    <3>1. ASSUME NEW s \in Slot, holds'[s] # Null
          PROVE  holds'[s] \in Object /\ refCount'[holds'[s]] # 0
      <4> DEFINE o == holds'[s]
      <4>1. o \in Object
        BY <1>1, <3>1
      <4>2. refCount'[o] = CountIn(holds', o)
        BY <2>1, <4>1, RefCountsAsCounts
      <4>3. CountIn(holds', o) # 0
        BY CountIsNat
      <4>4. QED
        BY <4>1, <4>2, <4>3
    <3>2. QED
      BY <3>1
  <2>3. \A o \in Object : refCount'[o] \in Nat
    BY <2>1 DEF TypeOK
  <2>4. QED
    BY <2>1, <2>2, <2>3 DEF NoDangling, LiveIffCounted
<1>4. ASSUME NEW s \in Slot, holds'[s] # Null
      PROVE  holds'[s] \in E' /\ (holds'[s] \in E => IsHeld(holds'[s]))
  <2>1. holds'[s] \in Object /\ status'[holds'[s]] = "live"
    BY <1>1, <1>3, <1>4 DEF NoDangling
  <2>2. QED
    BY <2>1, <1>4 DEF CopiesReferences
<1>5. ASSUME NEW o \in E' \ E
      PROVE  \E s \in Slot : holds'[s] = o
  <2>1. o \in Object /\ status'[o] = "live"
    BY <1>5 DEF CopiesReferences
  <2>2. refCount'[o] > 0 /\ refCount'[o] \in Nat
    BY <2>1 DEF CountInv, TypeOK, LiveIffCounted
  <2>3. refCount'[o] = CountIn(holds', o)
    BY <2>1, RefCountsAsCounts DEF CountInv
  <2>4. CountIn(holds', o) # 0
    BY <2>2, <2>3
  <2>5. QED
    BY <2>4, CountIsNat
<1>6. QED
  BY <1>1, <1>2, <1>4, <1>5 DEF Contract!Reference, Contract!IsOwned, IsHeld

-----------------------------------------------------------------------------
(* The steps that copy references. *)

\* unref returns no memory.
LEMMA UnrefFreesNothing ==
  ASSUME TypeOK, NEW t \in Thread, NEW o \in Object \cup {Null}, NEW counts,
         UnrefIfSet(t, o, counts) \/ Unref(t, o, counts),
         o # Null => status[o] = "live"
  PROVE  \A p \in Object : /\ status'[p] = "free" => status[p] = "free"
                           /\ status[p] = "free" => status'[p] = "free"
<1>1. status' = status \/ status' = [status EXCEPT ![o] = "dying"]
  BY DEF UnrefIfSet, Unref
<1>2. \A p \in Object : p = o => status[p] = "live"
  BY HeapAssumption
<1>3. QED
  BY <1>1, <1>2 DEF TypeOK

\* A store of a reference that is held somewhere, or of Null.
LEMMA StoreCopies ==
  ASSUME TypeOK, NEW s \in Slot, NEW x, Stores(s, x), x = Null \/ IsHeld(x),
         \A p \in Object : /\ status'[p] = "free" => status[p] = "free"
                           /\ status[p] = "free" => status'[p] = "free"
  PROVE  CopiesReferences
<1>1. \A r \in Slot : holds'[r] = IF r = s THEN x ELSE holds[r]
  BY DEF Stores, TypeOK
<1>2. QED
  BY <1>1 DEF CopiesReferences, IsHeld

\* What a thread sees is held somewhere.
LEMMA VisibleIsHeld ==
  ASSUME NEW t \in Thread, NEW o \in Visible(t)
  PROVE  IsHeld(o) /\ o # Null
<1>1. CASE o \in Owned(t)
  <2>1. \A v \in Variable : <<t, v>> \in Slot
    BY SlotKinds DEF Slot
  <2>2. QED
    BY <1>1, <2>1 DEF Owned, IsHeld
<1>2. CASE o \notin Owned(t)
  BY <1>2 DEF Visible, ChildrenOf, FieldsOf, IsHeld
<1>3. QED
  BY <1>1, <1>2

\* What a slot holds is alive.
LEMMA HeldIsLive ==
  ASSUME CountInv, NEW s \in Slot, holds[s] # Null
  PROVE  holds[s] \in Object /\ status[holds[s]] = "live"
BY NothingDangles DEF CountInv, NoDangling

LEMMA CallCopies ==
  ASSUME CountInv, NEW t \in Thread, Call(t)
  PROVE  CopiesReferences
<1> USE DEF CountInv
<1>1. ASSUME NEW v \in Variable, NEW o \in Object, New(t, v, o)
      PROVE  CopiesReferences
  <2>1. \A s \in Slot : holds'[s] \in {o, holds[s]}
    BY <1>1 DEF New, TypeOK
  <2>2. status[o] = "free" /\ \A p \in Object : status'[p] = IF p = o THEN "live" ELSE status[p]
    BY <1>1 DEF New, TypeOK
  <2>3. QED
    BY <2>1, <2>2 DEF CopiesReferences, IsHeld
<1>2. ASSUME NEW v \in Variable, NEW n \in Node, NEW c \in Container, NewHolding(t, v, n, c)
      PROVE  CopiesReferences
  <2>1. \A s \in Slot : holds'[s] \in {n, c, holds[s]}
    BY <1>2 DEF NewHolding, TypeOK
  <2>2. n \in Object /\ c \in Object
    BY DEF Object
  <2>3. /\ status[n] = "free"
        /\ \A p \in Object : status'[p] = IF p \in {n, c} THEN "live" ELSE status[p]
    BY <1>2, <2>2 DEF NewHolding, TypeOK
  <2>4. IsHeld(c) \/ status[c] = "free"
    BY <1>2, VisibleIsHeld DEF NewHolding
  <2>5. QED
    BY <2>1, <2>2, <2>3, <2>4 DEF CopiesReferences, IsHeld
<1>3. ASSUME NEW s \in Slot, NEW x, Stores(s, x), x = Null \/ x \in Visible(t),
             NEW r \in Slot, NEW counts,
             UnrefIfSet(t, holds[r], counts) \/ (holds[r] # Null /\ Unref(t, holds[r], counts))
      PROVE  CopiesReferences
  <2>1. holds[r] \in Object \cup {Null} /\ (holds[r] # Null => status[holds[r]] = "live")
    BY HeldIsLive
  <2>2. x = Null \/ IsHeld(x)
    BY <1>3, VisibleIsHeld
  <2>3. \A p \in Object : /\ status'[p] = "free" => status[p] = "free"
                          /\ status[p] = "free" => status'[p] = "free"
    BY <1>3, <2>1, UnrefFreesNothing
  <2>4. QED
    BY <1>3, <2>2, <2>3, StoreCopies
<1>4. ASSUME NEW s \in Slot, NEW x \in Visible(t), Stores(s, x), UNCHANGED status
      PROVE  CopiesReferences
  BY <1>4, VisibleIsHeld, StoreCopies
<1>5. CASE \E v \in Variable : \E o \in Object : New(t, v, o)
  BY <1>5, <1>1
<1>6. CASE \E v \in Variable, n \in Node, c \in Container : NewHolding(t, v, n, c)
  BY <1>6, <1>2
<1>7. CASE \E o \in Object, u \in Thread, v \in Variable : Ref(t, o, u, v)
  BY <1>7, <1>4, SlotKinds DEF Ref, Stores, Slot
<1>8. CASE \/ \E v \in Variable : Drop(t, v)
           \/ \E n \in Node, v \in Variable : TakeRefused(t, n, v)
  <2>1. PICK v \in Variable : /\ Stores(<<t, v>>, Null) /\ holds[<<t, v>>] # Null
                              /\ Unref(t, holds[<<t, v>>], refCount)
    BY <1>8, HeapAssumption DEF Drop, TakeRefused, Stores, Object
  <2>2. <<t, v>> \in Slot
    BY SlotKinds DEF Slot
  <2>3. QED
    BY <2>1, <2>2, <1>3
<1>9. CASE \/ \E m \in Mapping, k \in Key, n \in Node : SetMember(t, m, k, n)
           \/ \E m \in Mapping, k \in Key : RemoveMember(t, m, k)
  <2>1. PICK m \in Mapping, k \in Key :
          \/ \E n \in Node : SetMember(t, m, k, n)
          \/ RemoveMember(t, m, k)
    BY <1>9
  <2>2. <<m, k>> \in Slot
    BY SlotKinds DEF Slot
  <2>3. QED
    BY <2>1, <2>2, <1>3 DEF SetMember, RemoveMember, Stores
<1>10. CASE \E q \in Sequence, i \in Position, n \in Node : AddElement(t, q, i, n)
  BY <1>10, <1>4, SlotKinds DEF AddElement, Stores, Slot
<1>11. CASE \E q \in Sequence, i \in Position : RemoveElement(t, q, i)
  <2>1. PICK q \in Sequence, i \in Position : RemoveElement(t, q, i)
    BY <1>11
  <2>2. /\ holds' = ElementsWithout(q, i)
        /\ holds[<<q, i>>] # Null
        /\ Unref(t, holds[<<q, i>>], refCount)
    BY <2>1 DEF RemoveElement
  <2>3. <<q, i>> \in Slot
    BY SlotKinds DEF Slot
  <2>4. \A s \in Slot : holds'[s] # Null => IsHeld(holds'[s])
    <3>1. ASSUME NEW s \in Slot, holds'[s] # Null
          PROVE  IsHeld(holds'[s])
      <4>1. CASE s[1] = q /\ s[2] >= i
        <5>1. s[2] \in 1..MaxLength /\ MaxLength \in Nat
          BY <4>1, SequenceFields, HeapAssumption DEF Position
        <5>2. s[2] < MaxLength /\ holds'[s] = holds[<<q, s[2] + 1>>]
          BY <2>2, <3>1, <4>1 DEF ElementsWithout
        <5>3. s[2] + 1 \in Position
          BY <5>1, <5>2 DEF Position
        <5>4. <<q, s[2] + 1>> \in Slot
          BY <5>3, SequenceFields
        <5>5. QED
          BY <5>2, <5>4 DEF IsHeld
      <4>2. CASE ~(s[1] = q /\ s[2] >= i)
        BY <2>2, <4>2 DEF ElementsWithout, IsHeld
      <4>3. QED
        BY <4>1, <4>2
    <3>2. QED
      BY <3>1
  <2>5. \A p \in Object : /\ status'[p] = "free" => status[p] = "free"
                          /\ status[p] = "free" => status'[p] = "free"
    BY <2>2, <2>3, HeldIsLive, UnrefFreesNothing
  <2>6. QED
    BY <2>4, <2>5 DEF CopiesReferences
<1>12. CASE \/ \E n \in Node : SetScalar(t, n)
            \/ \E n \in Node, c \in Container : SetContainer(t, n, c)
            \/ \E n \in Node, v \in Variable : TakeContainer(t, n, v)
  <2>1. PICK n \in Node : /\ Stores(<<n, "data">>, Null)
                          /\ UnrefIfSet(t, holds[<<n, "data">>], refCount)
    BY <1>12 DEF SetScalar, SetContainer, TakeContainer, Stores
  <2>2. <<n, "data">> \in Slot
    BY SlotKinds DEF Slot
  <2>3. QED
    BY <2>1, <2>2, <1>3
<1>13. CASE \E o \in Object : Seal(t, o)
  BY <1>13 DEF Seal, CopiesReferences, IsHeld
<1>14. QED
  BY <1>5, <1>6, <1>7, <1>8, <1>9, <1>10, <1>11, <1>12, <1>13 DEF Call

\* A destructor drops references; an assignment and a seal move none away.
LEMMA ContinueCopies ==
  ASSUME CountInv, NEW t \in Thread, DestroyField(t) \/ FinishAssign(t) \/ SealObject(t)
  PROVE  CopiesReferences
<1> USE DEF CountInv
<1>1. CASE DestroyField(t)
  <2>1. PICK s \in FieldsOf(destroying[t]) : /\ holds[s] # Null
                                             /\ Stores(s, Null)
                                             /\ Unref(t, holds[s], refCount)
    BY <1>1 DEF DestroyField, NextField, Stores
  <2>2. s \in Slot
    BY DEF FieldsOf
  <2>3. QED
    BY <2>1, <2>2, HeldIsLive, UnrefFreesNothing, StoreCopies
<1>2. CASE FinishAssign(t)
  <2> DEFINE r == <<assign.node, "data">>
  <2>1. assign # NoAssign /\ writer = t /\ UNCHANGED status
    BY <1>2 DEF FinishAssign
  <2>2. PICK v \in Variable : holds[<<t, v>>] = assign.container
    BY <2>1 DEF AssignIsSafe
  <2>3. IsHeld(assign.container)
    BY <2>2, SlotKinds DEF Slot, IsHeld
  <2>4. \A s \in Slot : holds'[s] \in {assign.container, Null, holds[s]}
    BY <1>2 DEF FinishAssign, TypeOK
  <2>5. QED
    BY <2>1, <2>3, <2>4 DEF CopiesReferences, IsHeld
<1>3. CASE SealObject(t)
  BY <1>3 DEF SealObject, CopiesReferences, IsHeld
<1>4. QED
  BY <1>1, <1>2, <1>3

\* The return of memory.
LEMMA FreeIsFree ==
  ASSUME CountInv, NEW t \in Thread, FreeObject(t)
  PROVE  \E o \in Object : Contract!Free(o)
<1> DEFINE o == destroying[t]
<1>1. o \in Object /\ status[o] = "dying"
  BY DEF FreeObject, CountInv, StacksAreDisjoint, TypeOK
<1>2. ~IsHeld(o)
  <2>1. o # Null
    BY DEF FreeObject
  <2>2. QED
    BY <1>1, <2>1, HeldIsLive DEF IsHeld
<1>3. /\ \A s \in Slot : s[1] = o => holds[s] = Null
      /\ UNCHANGED holds
      /\ status' = [status EXCEPT ![o] = "free"]
  BY DEF FreeObject, FieldsOf
<1>4. {p \in Object : status'[p] # "free"} = {p \in Object : status[p] # "free"} \ {o}
  BY <1>1, <1>3 DEF CountInv, TypeOK
<1>5. QED
  BY <1>1, <1>2, <1>3, <1>4 DEF Contract!Free, Contract!IsOwned, IsHeld

-----------------------------------------------------------------------------
(* The refinement. *)

LEMMA InitContract == Init => Contract!Init
BY DEF Init, Contract!Init

LEMMA StepContract ==
  ASSUME ~BorrowedArguments, CountInv, [Next]_vars
  PROVE  [Contract!Next]_Contract!vars
<1>1. CASE UNCHANGED vars
  BY <1>1 DEF vars, Contract!vars
<1>2. CASE \E t \in Thread : FreeObject(t)
  BY <1>2, FreeIsFree DEF Contract!Next
<1>3. CASE \E t \in Thread : \/ Call(t) \/ DestroyField(t) \/ FinishAssign(t) \/ SealObject(t)
  <2>1. CopiesReferences
    BY <1>3, CallCopies, ContinueCopies
  <2>2. CountInv'
    BY NextCounts
  <2>3. QED
    BY <2>1, <2>2, CopyIsReference DEF Contract!Next
<1>4. QED
  BY <1>1, <1>2, <1>3 DEF Next, Continue

\* The heap implements the ownership contract, except for the promise that
\* garbage goes away, which needs fairness: a reference is only made from one that
\* exists or to a fresh object, and memory is returned only when nothing refers to
\* it and it refers to nothing, for any number of threads and objects.
THEOREM OwnershipImplemented ==
  ~BorrowedArguments /\ Spec => Contract!Init /\ [][Contract!Next]_Contract!vars
<1>1. ~BorrowedArguments /\ CountInv /\ [Next]_vars => [Contract!Next]_Contract!vars
  BY StepContract
<1>2. ASSUME ~BorrowedArguments
      PROVE  Spec => Contract!Init /\ [][Contract!Next]_Contract!vars
  <2>1. CountInv /\ [Next]_vars => [Contract!Next]_Contract!vars
    BY <1>1, <1>2
  <2>2. Spec => []CountInv
    BY <1>2, CountsCorrect
  <2>3. QED
    BY <2>1, <2>2, InitContract, PTL DEF Spec
<1>3. QED
  BY <1>2

-----------------------------------------------------------------------------
(* Leaks. *)

\* An allocated object is held by a variable or by another allocated object, or
\* it is in its destructor.
LEMMA AllocatedIsHeld ==
  ASSUME CountInv, NEW o \in Object, status[o] # "free", o \notin Roots
  PROVE  \E p \in Object : status[p] # "free" /\ o \in ChildrenOf(p)
<1> USE DEF CountInv
<1>1. status[o] = "live"
  <2>1. status[o] # "dying"
    BY DEF Roots
  <2>2. status[o] \in {"free", "live", "dying"}
    BY DEF TypeOK
  <2>3. QED
    BY <2>1, <2>2
<1>2. refCount[o] > 0 /\ refCount[o] = CountIn(holds, o) /\ refCount[o] \in Nat
  BY <1>1, RefCountsAsCounts DEF LiveIffCounted, TypeOK
<1>3. CountIn(holds, o) # 0
  BY <1>2
<1>4. PICK s \in Slot : holds[s] = o
  BY <1>3, CountIsNat
<1>5. s \notin Local
  <2>1. ASSUME s \in Local
        PROVE  o \in UNION {Owned(t) : t \in Thread}
    <3>1. PICK t \in Thread, v \in Variable : s = <<t, v>>
      BY <2>1 DEF Local
    <3>2. QED
      BY <3>1, <1>4, HeapAssumption DEF Owned
  <2>2. QED
    BY <2>1 DEF Roots
<1>6. s[1] \in Object
  BY <1>5, SlotKinds DEF Slot, Object, Container
<1>7. status[s[1]] # "free"
  BY <1>4, <1>6, HeapAssumption DEF FreeIsEmpty, FieldsOf
<1>8. o \in ChildrenOf(s[1])
  BY <1>4, HeapAssumption DEF ChildrenOf, FieldsOf
<1>9. QED
  BY <1>6, <1>7, <1>8

LEMMA ChildrenAreGraph ==
  ASSUME CountInv
  PROVE  /\ IsGraph(Children) /\ DOMAIN Children = Object
         /\ \A o \in Object : Children[o] = ChildrenOf(o)
<1>1. \A o \in Object : ChildrenOf(o) \in SUBSET Object
  BY HeldIsLive DEF ChildrenOf, FieldsOf
<1>2. QED
  BY <1>1, HeapAssumption DEF Children, IsGraph

\* A reference-counted heap leaks exactly what reference counting is known to
\* leak: an object that no variable and no running destructor reaches is on a
\* reference cycle or below one, for any number of threads and objects.
THEOREM OnlyCyclesLeak == ~BorrowedArguments /\ Spec => []LeaksOnlyBelowCycles
<1>1. ASSUME CountInv
      PROVE  LeaksOnlyBelowCycles
  <2> DEFINE A == {o \in Object : status[o] # "free"}
             Z == Reach(Children, Roots \cup OnCycle)
             B == A \ Z
  <2>1. /\ IsGraph(Children) /\ DOMAIN Children = Object
        /\ \A o \in Object : Children[o] = ChildrenOf(o)
    BY <1>1, ChildrenAreGraph
  <2>2. Roots \cup OnCycle \subseteq Object
    <3>1. \A t \in Thread : Owned(t) \subseteq Object
      BY <1>1, VisibleIsLive DEF Visible, CountInv
    <3>2. Roots \subseteq Object
      BY <3>1 DEF Roots
    <3>3. OnCycle \subseteq Object
      BY <2>1 DEF OnCycle, OnCycleOf
    <3>4. QED
      BY <3>2, <3>3
  <2>3. Closed(Children, Z) /\ Roots \cup OnCycle \subseteq Z
    BY <2>1, <2>2, ReachClosed, ReachBounded
  <2> HIDE DEF Z
  <2>4. ASSUME NEW b \in B
        PROVE  \E p \in B : b \in Children[p]
    <3>1. b \in Object /\ status[b] # "free" /\ b \notin Roots
      BY <2>3, <2>4
    <3>2. PICK p \in Object : status[p] # "free" /\ b \in ChildrenOf(p)
      BY <1>1, <3>1, AllocatedIsHeld
    <3>3. p \notin Z
      BY <2>1, <2>3, <2>4, <3>2 DEF Closed
    <3>4. QED
      BY <2>1, <3>2, <3>3
  <2>5. B = {}
    <3> SUFFICES ASSUME B # {} PROVE FALSE
      OBVIOUS
    <3>1. B \in SUBSET DOMAIN Children
      BY <2>1
    <3> HIDE DEF B
    <3>2. PICK b \in B : b \in OnCycleOf(Children)
      BY <2>1, <2>4, <3>1, CycleAmongPredecessors
    <3>3. QED
      BY <2>3, <3>2 DEF OnCycle, B
  <2>6. QED
    BY <2>5 DEF LeaksOnlyBelowCycles, Z
<1>2. CountInv => LeaksOnlyBelowCycles
  BY <1>1
<1>3. QED
  BY <1>2, CountsCorrect, PTL

=============================================================================
