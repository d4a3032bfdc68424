------------------------- MODULE YamlConvertProofs -------------------------
(***************************************************************************)
(* Proofs about YamlConvert, for sources of any number of documents of any *)
(* size and shape: the counters are exact, each node is converted once,    *)
(* documents are made of their own nodes and stay as they were announced,  *)
(* nothing else is left at the end, and nothing is lost in between.        *)
(***************************************************************************)
EXTENDS YamlConvert, YamlTreeProofs

Keys == Key \cup {Element}

\* Nodes and frames whose references go to D.
NodeSet(D)  == [fields : Seq([key : Keys, child : D]), refs : Int, sealed : BOOLEAN,
                document : Nat, ynode : YNode]
FrameSet(D) == [ynode : YNode, node : D, next : Nat \ {0}]

IsHeap(h) ==
    /\ Len(h) \in Nat /\ DOMAIN h = 1..Len(h)
    /\ h \in [DOMAIN h -> NodeSet(DOMAIN h)]
    /\ \A n \in DOMAIN h : OnceNamed(h[n].fields)

\* What a step does not change.
SameNodes(h, g) == DOMAIN g = DOMAIN h /\ Len(g) = Len(h)
                     /\ \A m \in DOMAIN h : g[m].document = h[m].document
                                             /\ g[m].ynode = h[m].ynode
SameSeals(h, g) == \A m \in DOMAIN h : g[m].sealed = h[m].sealed
SameRefs(h, g)  == \A m \in DOMAIN h : g[m].refs = h[m].refs

OneMore(h, g, n) == \A m \in DOMAIN h : g[m].refs = h[m].refs + Same(n, m)
SealsMore(h, g, X) == \A m \in DOMAIN h : g[m].sealed = (h[m].sealed \/ m \in X)

OneLess(h, g, n) == \A m \in DOMAIN h : g[m].refs = h[m].refs - Same(n, m)
FieldsFreed(h, g) ==
    \A m \in DOMAIN h : g[m].fields = h[m].fields \/ (g[m].fields = <<>> /\ g[m].refs = 0)
ReleasedOnce(h, nodes, g, rest) ==
    \A m \in DOMAIN h :
      Places(rest, m) + Uses(g, m) = Places(nodes, m) + Uses(h, m) - Same(Head(nodes), m)

LastFrees(h, g, n) == h[n].refs = 1 => g[n].fields = <<>>

Grown(h, g, y) ==
    /\ Len(g) = Len(h) + 1 /\ DOMAIN g = DOMAIN h \cup {Len(h) + 1} /\ Len(h) + 1 \notin DOMAIN h
    /\ \A m \in DOMAIN h : g[m] = h[m]
    /\ g[Len(h) + 1] = Fresh(y)

Taken(h, n) == [h EXCEPT ![n].refs = @ + 1]
StoredAt(h, p, key, n) == [h EXCEPT ![p].fields = Stored(@, key, n), ![n].refs = @ + 1]

-----------------------------------------------------------------------------
(* Heaps. *)

\* The fields of a node of a heap.
LEMMA NodeFields ==
  ASSUME NEW h, IsHeap(h)
  PROVE  /\ IsTree(h, Keys)
         /\ \A n \in DOMAIN h :
              /\ h[n] \in NodeSet(DOMAIN h) /\ OnceNamed(h[n].fields)
              /\ h[n].document \in Nat /\ h[n].refs \in Int
              /\ h[n].fields \in Seq([key : Keys, child : DOMAIN h])
              /\ h[n].sealed \in BOOLEAN /\ h[n].ynode \in YNode
<1>1. \A n \in DOMAIN h : h[n] \in NodeSet(DOMAIN h) /\ OnceNamed(h[n].fields)
  BY DEF IsHeap
<1>2. \A n \in DOMAIN h :
              /\ h[n].document \in Nat /\ h[n].refs \in Int
              /\ h[n].fields \in Seq([key : Keys, child : DOMAIN h])
              /\ h[n].sealed \in BOOLEAN /\ h[n].ynode \in YNode
  BY <1>1 DEF NodeSet
<1>3. IsTree(h, Keys)
  BY <1>2 DEF IsTree, IsHeap
<1>4. QED
  BY <1>1, <1>2, <1>3

\* A heap with other nodes in the same places.
LEMMA HeapChanged ==
  ASSUME NEW h, IsHeap(h), NEW g, g \in [DOMAIN h -> NodeSet(DOMAIN h)],
         \A n \in DOMAIN h : OnceNamed(g[n].fields)
  PROVE  IsHeap(g) /\ DOMAIN g = DOMAIN h /\ Len(g) = Len(h)
<1> DEFINE k == Len(h)
<1>1. k \in Nat /\ DOMAIN h = 1..k /\ DOMAIN g = 1..k
  BY DEF IsHeap
<1>2. g = [i \in 1..k |-> g[i]] /\ \A i \in 1..k : g[i] \in NodeSet(DOMAIN h)
  BY <1>1
<1> HIDE DEF k
<1>3. g \in Seq(NodeSet(DOMAIN h)) /\ Len(g) = k
  BY <1>1, <1>2, IsASeq
<1>4. QED
  BY <1>1, <1>3 DEF IsHeap, k

\* A reference that is taken.
LEMMA TakenIs ==
  ASSUME NEW h, IsHeap(h), NEW n \in DOMAIN h, NEW g, g = Taken(h, n)
  PROVE  /\ IsHeap(g) /\ SameNodes(h, g) /\ SameFields(h, g) /\ SameSeals(h, g)
         /\ OneMore(h, g, n)
<1>1. /\ \A m \in DOMAIN h : h[m] \in NodeSet(DOMAIN h) /\ OnceNamed(h[m].fields)
                             /\ h[m].refs \in Int
      /\ h \in [DOMAIN h -> NodeSet(DOMAIN h)]
  BY NodeFields DEF IsHeap
<1>2. \A m \in DOMAIN h : g[m] = IF m = n THEN [h[n] EXCEPT !.refs = @ + 1] ELSE h[m]
  BY <1>1 DEF Taken
<1>3. [h[n] EXCEPT !.refs = @ + 1] \in NodeSet(DOMAIN h)
  <2>1. h[n] \in NodeSet(DOMAIN h) /\ h[n].refs + 1 \in Int
    BY <1>1
  <2> HIDE DEF Keys
  <2>2. QED
    BY <2>1 DEF NodeSet
<1>4. /\ [h[n] EXCEPT !.refs = @ + 1].fields = h[n].fields
      /\ [h[n] EXCEPT !.refs = @ + 1].document = h[n].document
      /\ [h[n] EXCEPT !.refs = @ + 1].sealed = h[n].sealed
      /\ [h[n] EXCEPT !.refs = @ + 1].ynode = h[n].ynode
      /\ [h[n] EXCEPT !.refs = @ + 1].refs = h[n].refs + 1
  BY <1>1 DEF NodeSet
<1>5. g \in [DOMAIN h -> NodeSet(DOMAIN h)]
  BY <1>1, <1>3 DEF Taken
<1>6. \A m \in DOMAIN h :
              /\ g[m].fields = h[m].fields /\ g[m].document = h[m].document
              /\ g[m].sealed = h[m].sealed /\ g[m].ynode = h[m].ynode
              /\ g[m].refs = h[m].refs + Same(n, m)
  <2> SUFFICES ASSUME NEW m \in DOMAIN h
               PROVE  /\ g[m].fields = h[m].fields /\ g[m].document = h[m].document
                      /\ g[m].sealed = h[m].sealed /\ g[m].ynode = h[m].ynode
                      /\ g[m].refs = h[m].refs + Same(n, m)
    OBVIOUS
  <2>1. CASE m = n
    BY <1>1, <1>2, <1>4, <2>1 DEF Same
  <2>2. CASE m # n
    BY <1>1, <1>2, <2>2 DEF Same
  <2>3. QED
    BY <2>1, <2>2
<1> HIDE DEF IsHeap
<1>7. IsHeap(g) /\ DOMAIN g = DOMAIN h /\ Len(g) = Len(h)
  BY <1>1, <1>5, <1>6, HeapChanged
<1>8. QED
  BY <1>6, <1>7 DEF SameNodes, SameFields, SameSeals, OneMore

\* A node that is made.
LEMMA GrownIs ==
  ASSUME NEW h, IsHeap(h), NEW y \in YNode, NEW g, g = Append(h, Fresh(y)), Len(documents) \in Nat
  PROVE  IsHeap(g) /\ Grown(h, g, y)
<1> DEFINE k == Len(h)
           D == DOMAIN h
           E == 1..(k + 1)
           T == UNION {NodeSet(D), {Fresh(y)}}
<1>1. /\ k \in Nat /\ D = 1..k /\ h \in [1..k -> NodeSet(D)]
      /\ \A m \in D : h[m] \in NodeSet(D) /\ OnceNamed(h[m].fields)
  BY DEF IsHeap
<1>2. D \subseteq E /\ E = D \cup {k + 1} /\ k + 1 \notin D
  BY <1>1
<1>3. h \in Seq(T) /\ Fresh(y) \in T
  <2>1. h \in [1..k -> T]
    BY <1>1
  <2> HIDE DEF k, T
  <2>2. h \in Seq(T)
    BY <1>1, <2>1
  <2>3. QED
    BY <2>2 DEF T
<1>4. NodeSet(D) \subseteq NodeSet(E)
  <2> SUFFICES ASSUME NEW r \in NodeSet(D) PROVE r \in NodeSet(E)
    OBVIOUS
  <2>1. /\ r.document \in Nat /\ r.refs \in Int /\ r.fields \in Seq([key : Keys, child : D])
        /\ r.sealed \in BOOLEAN /\ r.ynode \in YNode
        /\ r = [document |-> r.document, fields |-> r.fields, refs |-> r.refs, sealed |-> r.sealed,
                ynode |-> r.ynode]
    BY DEF NodeSet
  <2>2. [key : Keys, child : D] \subseteq [key : Keys, child : E]
    BY <1>2
  <2>3. r.fields \in Seq([key : Keys, child : E])
    BY <2>1, <2>2, SeqMonotonic
  <2>4. QED
    BY <2>1, <2>3 DEF NodeSet
<1>5. Fresh(y) \in NodeSet(E)
  <2>1. <<>> \in Seq([key : Keys, child : E])
    OBVIOUS
  <2>2. QED
    BY <2>1 DEF Fresh, NodeSet
<1> HIDE DEF T
<1>6. /\ g \in Seq(T) /\ Len(g) = k + 1 /\ g[k + 1] = Fresh(y)
      /\ \A m \in 1..k : g[m] = h[m]
  BY <1>3, AppendProperties
<1>7. g \in [E -> T]
  <2>1. g \in [1..Len(g) -> T]
    BY <1>6, LenProperties
  <2>2. QED
    BY <1>6, <2>1
<1>8. \A m \in E : g[m] \in NodeSet(E) /\ OnceNamed(g[m].fields)
  <2>1. OnceNamed(Fresh(y).fields)
    BY DEF Fresh, OnceNamed
  <2>2. \A m \in D : g[m] \in NodeSet(E) /\ OnceNamed(g[m].fields)
    BY <1>1, <1>4, <1>6
  <2>3. g[k + 1] \in NodeSet(E) /\ OnceNamed(g[k + 1].fields)
    BY <1>5, <1>6, <2>1
  <2>4. QED
    BY <1>2, <2>2, <2>3
<1>9. k + 1 \in Nat
  BY <1>1
<1> HIDE DEF E, k
<1>10. IsHeap(g)
  <2>1. DOMAIN g = E /\ E = 1..Len(g) /\ Len(g) \in Nat
    BY <1>6, <1>7, <1>9 DEF E
  <2>2. QED
    BY <1>7, <1>8, <2>1 DEF IsHeap
<1>11. DOMAIN g = D \cup {k + 1}
  BY <1>2, <1>7
<1>12. QED
  BY <1>1, <1>2, <1>6, <1>10, <1>11 DEF k, Grown

\* What is sealed.
LEMMA SealedIs ==
  ASSUME NEW h, IsHeap(h), NEW n \in DOMAIN h
  PROVE  /\ IsHeap(SealIn(h, n)) /\ SameNodes(h, SealIn(h, n)) /\ SameFields(h, SealIn(h, n))
         /\ SameRefs(h, SealIn(h, n))
         /\ SealsMore(h, SealIn(h, n), ReachIn(h, {n}))
<1> DEFINE g == SealIn(h, n)
           tree == ReachIn(h, {n})
<1>1. g = [m \in DOMAIN h |-> [h[m] EXCEPT !.sealed = @ \/ m \in tree]]
  BY DEF SealIn
<1> HIDE DEF tree, g
<1>2. ASSUME NEW m \in DOMAIN h
      PROVE  /\ g[m] \in NodeSet(DOMAIN h)
             /\ g[m].fields = h[m].fields /\ g[m].document = h[m].document
             /\ g[m].refs = h[m].refs /\ g[m].ynode = h[m].ynode
             /\ g[m].sealed = (h[m].sealed \/ m \in tree)
  <2> DEFINE b == h[m].sealed \/ m \in tree
  <2>1. /\ h[m].document \in Nat /\ h[m].refs \in Int
        /\ h[m].fields \in Seq([key : Keys, child : DOMAIN h])
        /\ h[m].sealed \in BOOLEAN /\ h[m].ynode \in YNode
        /\ h[m] \in NodeSet(DOMAIN h)
    BY NodeFields
  <2>2. b \in BOOLEAN
    OBVIOUS
  <2>3. g[m] = [h[m] EXCEPT !.sealed = b]
    BY <1>1
  <2> HIDE DEF b
  <2>4. g[m] = [document |-> h[m].document, fields |-> h[m].fields, refs |-> h[m].refs,
                sealed |-> b, ynode |-> h[m].ynode]
    BY <2>1, <2>3 DEF NodeSet
  <2>5. g[m] \in NodeSet(DOMAIN h)
    BY <2>1, <2>2, <2>4 DEF NodeSet
  <2>6. g[m].sealed = b
    BY <2>4
  <2>7. QED
    BY <2>4, <2>5, <2>6 DEF b
<1>3. g \in [DOMAIN h -> NodeSet(DOMAIN h)]
  BY <1>1, <1>2
<1>4. \A m \in DOMAIN h : OnceNamed(g[m].fields)
  <2>1. \A m \in DOMAIN h : OnceNamed(h[m].fields)
    BY NodeFields
  <2>2. QED
    BY <1>2, <2>1
<1>5. IsHeap(g) /\ DOMAIN g = DOMAIN h /\ Len(g) = Len(h)
  BY <1>3, <1>4, HeapChanged
<1>6. QED
  BY <1>2, <1>5 DEF tree, g, SameNodes, SameFields, SameRefs, SealsMore

\* A node that is stored in another.
LEMMA NodeStoredIs ==
  ASSUME NEW h, IsHeap(h), NEW n \in DOMAIN h, NEW p \in DOMAIN h, NEW key \in Keys,
         NEW g, g = StoredAt(h, p, key, n)
  PROVE  /\ IsHeap(g) /\ SameNodes(h, g) /\ SameSeals(h, g)
         /\ OneMore(h, g, n)
         /\ SameFieldsBut(h, g, p) /\ g[p].fields = Stored(h[p].fields, key, n)
<1> DEFINE f == Stored(h[p].fields, key, n)
           new == [h[p] EXCEPT !.fields = f]
           a == [h EXCEPT ![p] = new]
<1>1. /\ h[p].document \in Nat /\ h[p].refs \in Int
      /\ h[p].fields \in Seq([key : Keys, child : DOMAIN h]) /\ OnceNamed(h[p].fields)
      /\ h[p].sealed \in BOOLEAN /\ h[p].ynode \in YNode
      /\ h[p] \in NodeSet(DOMAIN h)
  BY NodeFields
<1>2. f \in Seq([key : Keys, child : DOMAIN h]) /\ OnceNamed(f)
  BY <1>1, StoredIs
<1>3. h \in [DOMAIN h -> NodeSet(DOMAIN h)]
  BY DEF IsHeap
<1>4. g = Taken(a, n)
  BY <1>3 DEF Taken, StoredAt
<1> HIDE DEF f
<1>5. new = [document |-> h[p].document, fields |-> f, refs |-> h[p].refs, sealed |-> h[p].sealed,
             ynode |-> h[p].ynode]
  BY <1>1 DEF NodeSet
<1>6. new \in NodeSet(DOMAIN h)
  BY <1>1, <1>2, <1>5 DEF NodeSet
<1>7. /\ new.document = h[p].document /\ new.fields = f /\ new.refs = h[p].refs
      /\ new.sealed = h[p].sealed /\ new.ynode = h[p].ynode
  BY <1>5
<1> HIDE DEF new
<1>8. /\ a \in [DOMAIN h -> NodeSet(DOMAIN h)]
      /\ \A m \in DOMAIN h : a[m] = IF m = p THEN new ELSE h[m]
  BY <1>3, <1>6
<1>9. \A m \in DOMAIN h : OnceNamed(a[m].fields)
  BY <1>2, <1>7, <1>8, NodeFields
<1> HIDE DEF a
<1>10. IsHeap(a) /\ DOMAIN a = DOMAIN h /\ Len(a) = Len(h)
  BY <1>8, <1>9, HeapChanged
<1>11. /\ IsHeap(g) /\ SameNodes(a, g) /\ SameFields(a, g) /\ SameSeals(a, g)
       /\ OneMore(a, g, n)
  <2>1. n \in DOMAIN a
    BY <1>10
  <2>2. QED
    BY <1>4, <1>10, <2>1, TakenIs
<1>12. SameNodes(h, g) /\ SameSeals(h, g)
  <2>1. SameNodes(h, g)
    BY <1>7, <1>8, <1>10, <1>11 DEF SameNodes
  <2>2. SameSeals(h, g)
    BY <1>7, <1>8, <1>10, <1>11 DEF SameSeals
  <2>3. QED
    BY <2>1, <2>2
<1>13. OneMore(h, g, n)
  BY <1>7, <1>8, <1>10, <1>11 DEF OneMore
<1>14. SameFieldsBut(h, g, p) /\ g[p].fields = f
  BY <1>7, <1>8, <1>10, <1>11 DEF SameFields, SameFieldsBut
<1>15. QED
  BY <1>11, <1>12, <1>13, <1>14 DEF f

\* yaml_node_unref gives up one reference, or those of a node that it frees instead.
LEMMA UnrefIs ==
  ASSUME NEW h, IsHeap(h), NEW nodes \in Seq(DOMAIN h), nodes # <<>>,
         NEW g, g = UnrefFirst(h, nodes).heap, NEW rest, rest = UnrefFirst(h, nodes).nodes
  PROVE  /\ IsHeap(g) /\ SameNodes(h, g) /\ SameSeals(h, g)
         /\ FieldsFreed(h, g) /\ OneLess(h, g, Head(nodes))
         /\ rest \in Seq(DOMAIN h) /\ ReleasedOnce(h, nodes, g, rest)
         /\ LastFrees(h, g, Head(nodes))
<1> DEFINE n == Head(nodes)
           D == DOMAIN h
           r == IF h[n].refs = 1 THEN 0 ELSE h[n].refs - 1
           f == IF h[n].refs = 1 THEN <<>> ELSE h[n].fields
           new == [document |-> h[n].document, fields |-> f, refs |-> r, sealed |-> h[n].sealed,
                   ynode |-> h[n].ynode]
<1>1. n \in D /\ Tail(nodes) \in Seq(D)
  BY HeadTailProperties
<1>2. /\ h[n].document \in Nat /\ h[n].refs \in Int
      /\ h[n].fields \in Seq([key : Keys, child : D]) /\ OnceNamed(h[n].fields)
      /\ h[n].sealed \in BOOLEAN /\ h[n].ynode \in YNode
      /\ h[n] \in NodeSet(D) /\ IsTree(h, Keys)
  BY <1>1, NodeFields
<1>3. h \in [D -> NodeSet(D)] /\ Len(h) \in Nat /\ D = 1..Len(h)
  BY DEF IsHeap
<1>4. r \in Int /\ r = h[n].refs - 1
  BY <1>2
<1>5. f \in Seq([key : Keys, child : D]) /\ OnceNamed(f)
  BY <1>2 DEF OnceNamed
<1>6. g = [h EXCEPT ![n] = new]
  <2>1. CASE h[n].refs = 1
    <3>1. g = [h EXCEPT ![n].refs = 0, ![n].fields = <<>>]
      BY <2>1 DEF UnrefFirst
    <3>2. g[n] = new /\ g = [h EXCEPT ![n] = g[n]]
      <4>1. g[n] = [h[n] EXCEPT !.refs = 0, !.fields = <<>>]
        BY <1>1, <1>3, <3>1
      <4>2. [h[n] EXCEPT !.refs = 0, !.fields = <<>>] = new
        <5>1. h[n] = [document |-> h[n].document, fields |-> h[n].fields, refs |-> h[n].refs,
                      sealed |-> h[n].sealed, ynode |-> h[n].ynode]
          BY <1>2 DEF NodeSet
        <5>2. [h[n] EXCEPT !.refs = 0, !.fields = <<>>]
                = [document |-> h[n].document, fields |-> <<>>, refs |-> 0,
                   sealed |-> h[n].sealed, ynode |-> h[n].ynode]
          <6> DEFINE e1 == [h[n] EXCEPT !.refs = 0]
          <6>1. e1 = [document |-> h[n].document, fields |-> h[n].fields, refs |-> 0,
                      sealed |-> h[n].sealed, ynode |-> h[n].ynode]
            BY <5>1
          <6>2. [h[n] EXCEPT !.refs = 0, !.fields = <<>>] = [e1 EXCEPT !.fields = <<>>]
            BY DEF e1
          <6> HIDE DEF e1
          <6>3. [e1 EXCEPT !.fields = <<>>]
                  = [document |-> h[n].document, fields |-> <<>>, refs |-> 0,
                     sealed |-> h[n].sealed, ynode |-> h[n].ynode]
            BY <6>1
          <6>4. QED
            BY <6>2, <6>3
        <5>3. r = 0 /\ f = <<>>
          BY <2>1
        <5>4. QED
          BY <5>2, <5>3
      <4>3. g = [h EXCEPT ![n] = g[n]]
        BY <1>1, <1>3, <3>1
      <4>4. QED
        BY <4>1, <4>2, <4>3
    <3>3. QED
      BY <3>2
  <2>2. CASE h[n].refs # 1
    <3>1. g = [h EXCEPT ![n].refs = @ - 1]
      BY <2>2 DEF UnrefFirst
    <3>2. g[n] = new /\ g = [h EXCEPT ![n] = g[n]]
      BY <1>1, <1>2, <1>3, <2>2, <3>1 DEF NodeSet
    <3>3. QED
      BY <3>2
  <2>3. QED
    BY <2>1, <2>2
<1>7. rest = IF h[n].refs = 1 THEN ChildrenIn(h, n) \o Tail(nodes) ELSE Tail(nodes)
  BY DEF UnrefFirst
<1>8. h[n].refs = 1 => f = <<>> /\ r = 0
  OBVIOUS
<1>9. h[n].refs # 1 => f = h[n].fields
  OBVIOUS
<1> HIDE DEF r, f
<1>10. new \in NodeSet(D)
  BY <1>2, <1>4, <1>5 DEF NodeSet
<1>11. /\ new.document = h[n].document /\ new.fields = f /\ new.refs = r
       /\ new.sealed = h[n].sealed /\ new.ynode = h[n].ynode
  OBVIOUS
<1> HIDE DEF new, n, D
<1>12. /\ g \in [D -> NodeSet(D)]
       /\ \A m \in D : g[m] = IF m = n THEN new ELSE h[m]
  BY <1>1, <1>3, <1>6, <1>10
<1>13. \A m \in D : OnceNamed(g[m].fields)
  <2>1. \A m \in D : OnceNamed(h[m].fields)
    BY DEF IsHeap, D
  <2>2. QED
    BY <1>5, <1>11, <1>12, <2>1
<1>14. IsHeap(g) /\ DOMAIN g = D /\ Len(g) = Len(h)
  BY <1>12, <1>13, HeapChanged DEF D
<1>15. SameNodes(h, g)
  BY <1>11, <1>12, <1>14 DEF SameNodes, D
<1>16. SameSeals(h, g)
  BY <1>11, <1>12, <1>14 DEF SameSeals, D
<1>18. FieldsFreed(h, g)
  <2> SUFFICES ASSUME NEW m \in D
               PROVE  g[m].fields = h[m].fields \/ (g[m].fields = <<>> /\ g[m].refs = 0)
    BY DEF FieldsFreed, D
  <2>1. CASE m # n
    <3>1. g[m] = h[m]
      BY <1>12, <2>1
    <3>2. QED
      BY <3>1
  <2>2. CASE m = n /\ h[n].refs = 1
    BY <1>8, <1>11, <1>12, <2>2
  <2>3. CASE m = n /\ h[n].refs # 1
    <3>1. g[m].fields = f /\ f = h[m].fields
      BY <1>9, <1>11, <1>12, <2>3
    <3>2. QED
      BY <3>1
  <2>4. QED
    BY <2>1, <2>2, <2>3
<1>19. \A m \in D : h[m].refs \in Int
  BY NodeFields DEF D
<1>20. OneLess(h, g, n)
  <2> SUFFICES ASSUME NEW m \in D PROVE g[m].refs = h[m].refs - Same(n, m)
    BY DEF OneLess, D
  <2>1. CASE m = n
    BY <1>4, <1>11, <1>12, <2>1 DEF Same
  <2>2. CASE m # n
    BY <1>12, <1>19, <2>2 DEF Same
  <2>3. QED
    BY <2>1, <2>2
<1>21. ChildrenIn(h, n) \in Seq(D)
  BY <1>1, <1>2, ChildrenAre DEF D
<1>22. rest \in Seq(D)
  BY <1>1, <1>7, <1>21, ConcatProperties
<1>23. IsTree(g, Keys)
  BY <1>14, NodeFields
<1>24. nodes \in Seq(D) /\ nodes # <<>> /\ n = Head(nodes)
  BY DEF D, n
<1>25. ASSUME NEW m \in D
       PROVE  Places(rest, m) + Uses(g, m) = Places(nodes, m) + Uses(h, m) - Same(n, m)
  <2>1. Places(nodes, m) = Same(n, m) + Places(Tail(nodes), m) /\ Places(Tail(nodes), m) \in Nat
    BY <1>24, PlacesOfTail
  <2>2. Same(n, m) \in Int
    BY DEF Same
  <2>3. CASE h[n].refs = 1
    <3>1. Places(rest, m) = Places(ChildrenIn(h, n), m) + Places(Tail(nodes), m)
      <4>1. Places(ChildrenIn(h, n) \o Tail(nodes), m)
              = Places(ChildrenIn(h, n), m) + Places(Tail(nodes), m)
        BY <1>1, <1>21, PlacesOfBoth
      <4>2. QED
        BY <1>7, <2>3, <4>1
    <3>2. SameFieldsBut(h, g, n)
      BY <1>12 DEF D, SameFieldsBut
    <3>3. /\ Uses(g, m) = Uses(h, m) + Places(ChildrenIn(g, n), m) - Places(ChildrenIn(h, n), m)
          /\ Uses(g, m) \in Nat /\ Uses(h, m) \in Nat
          /\ Places(ChildrenIn(g, n), m) \in Nat /\ Places(ChildrenIn(h, n), m) \in Nat
      <4>1. n \in DOMAIN h /\ DOMAIN g = DOMAIN h
        BY <1>1, <1>14 DEF D
      <4>2. QED
        BY <1>2, <1>23, <3>2, <4>1, UsesMove
    <3>4. ChildrenIn(g, n) = <<>>
      <4>1. g[n].fields = <<>>
        BY <1>1, <1>8, <1>11, <1>12, <2>3
      <4>2. QED
        BY <4>1 DEF ChildrenIn
    <3>5. Places(ChildrenIn(g, n), m) = 0
      BY <3>4, PlacesOfNone
    <3>6. QED
      BY <2>1, <2>2, <3>1, <3>3, <3>5
  <2>4. CASE h[n].refs # 1
    <3>1. SameFields(h, g)
      BY <1>9, <1>11, <1>12, <2>4 DEF D, SameFields
    <3>2. Uses(g, m) = Uses(h, m)
      BY <1>14, <3>1, UsesSame DEF D
    <3>3. Uses(h, m) \in Nat
      BY <1>2, PairsAreFinite
    <3>4. QED
      BY <1>7, <2>1, <2>2, <2>4, <3>2, <3>3
  <2>5. QED
    BY <2>3, <2>4
<1>26. ReleasedOnce(h, nodes, g, rest)
  BY <1>25 DEF ReleasedOnce, D, n
<1>27. LastFrees(h, g, n)
  BY <1>1, <1>8, <1>11, <1>12 DEF LastFrees
<1>28. QED
  BY <1>27, <1>14, <1>15, <1>16, <1>18, <1>20, <1>22, <1>26 DEF D, n

-----------------------------------------------------------------------------
(* The parts of the state. *)

NodesOf(frames) == [i \in DOMAIN frames |-> frames[i].node]
Named(table, n) == Cardinality({y \in YNode : table[y] = n})

IsDocument(d) ==
    d \in [root : YNode, fields : [YNode -> Seq([key : Keys \cup {Complex}, child : YNode])]]

\* No libyaml node is being converted twice at a time.
IsStack(h, frames) ==
    /\ frames \in Seq(FrameSet(DOMAIN h))
    /\ \A i, j \in DOMAIN frames : frames[i].ynode = frames[j].ynode => i = j
    /\ \A i \in DOMAIN frames : h[frames[i].node].ynode = frames[i].ynode

\* All but the last of them wait for a child.
Waits(d, f) ==
    f.next \in DOMAIN d.fields[f.ynode] /\ d.fields[f.ynode][f.next].key \in Keys
AllWait(d, frames) == \A i \in DOMAIN frames : i # Len(frames) => Waits(d, frames[i])

IsTable(h, table) == table \in [YNode -> DOMAIN h \cup {Null, InProgress}]
Entered(table, y, x) == [table EXCEPT ![y] = x]
IsEmpty(table)    == \A y \in YNode : table[y] = Null

\* The entries of the table are of different nodes, and what is being converted is
\* marked.
Tabled(h, table)      == \A y \in YNode : table[y] \in DOMAIN h => h[table[y]].ynode = y
Marked(frames, table) == \A i \in DOMAIN frames : table[frames[i].ynode] = InProgress

\* What there is in which phase.
Phases(ph, frames, table, rel) ==
    /\ ph \in {"loading", "converting", "destroying", "ended"}
    /\ frames # <<>> => ph = "converting"
    /\ ph \in {"loading", "ended"} => rel = <<>>
    /\ ph \in {"destroying", "ended"} => IsEmpty(table)
    /\ ph = "converting" /\ frames = <<>> => IsEmpty(table)

Fits ==
    /\ IsHeap(heap) /\ IsDocument(doc)
    /\ IsStack(heap, stack) /\ AllWait(doc, stack) /\ IsTable(heap, anchors)
    /\ Tabled(heap, anchors) /\ Marked(stack, anchors)
    /\ documents \in Seq(DOMAIN heap) /\ releasing \in Seq(DOMAIN heap)
    /\ Phases(phase, stack, anchors, releasing)

\* References from the stack, the table and the documents.
Kept(frames, table, docs, n) == Places(NodesOf(frames), n) + Named(table, n) + Places(docs, n)
SameKept(h, frames, table, after, new, docs) ==
    \A n \in DOMAIN h : Kept(after, new, docs, n) = Kept(frames, table, docs, n)

\* The counters of a heap are the references from the parts of the state.
Balanced(h, frames, table, docs, rel) ==
    \A n \in DOMAIN h :
      h[n].refs = Kept(frames, table, docs, n) + Places(rel, n) + Uses(h, n)

Counted == Balanced(heap, stack, anchors, documents, releasing)

\* The frames are those of the same nodes.
SameFrames(frames, after) ==
    /\ Len(after) = Len(frames) /\ DOMAIN after = DOMAIN frames
    /\ \A i \in DOMAIN frames : after[i].ynode = frames[i].ynode /\ after[i].node = frames[i].node

\* A node is a number, and the marks of the table are none.
LEMMA NodesAreNumbers ==
  ASSUME NEW h, IsHeap(h)
  PROVE  DOMAIN h \subseteq Nat /\ Null \notin DOMAIN h /\ InProgress \notin DOMAIN h
<1>1. DOMAIN h \subseteq Nat
  BY DEF IsHeap
<1>2. QED
  BY <1>1, ConvertAssumption

\* The stack and its nodes.
LEMMA FramesAre ==
  ASSUME NEW D, NEW frames \in Seq(FrameSet(D))
  PROVE  /\ NodesOf(frames) \in Seq(D) /\ Len(frames) \in Nat
         /\ DOMAIN frames = 1..Len(frames)
         /\ Len(NodesOf(frames)) = Len(frames) /\ DOMAIN NodesOf(frames) = DOMAIN frames
         /\ \A i \in DOMAIN frames :
              /\ frames[i] \in FrameSet(D) /\ frames[i].node \in D /\ frames[i].ynode \in YNode
              /\ frames[i].next \in Nat \ {0} /\ NodesOf(frames)[i] = frames[i].node
<1> DEFINE k == Len(frames)
           c == [i \in 1..k |-> frames[i].node]
<1>1. k \in Nat /\ DOMAIN frames = 1..k /\ \A i \in 1..k : frames[i] \in FrameSet(D)
  BY LenProperties, ElementOfSeq
<1>2. \A i \in 1..k : /\ frames[i].node \in D /\ frames[i].ynode \in YNode
                      /\ frames[i].next \in Nat \ {0}
  BY <1>1 DEF FrameSet
<1>3. NodesOf(frames) = c
  BY <1>1 DEF NodesOf
<1>4. \A i \in 1..k : c[i] = frames[i].node
  OBVIOUS
<1> HIDE DEF k
<1>5. c \in Seq(D) /\ Len(c) = k
  BY <1>1, <1>2, IsASeq
<1>6. DOMAIN NodesOf(frames) = DOMAIN frames
  BY DEF NodesOf
<1> HIDE DEF c
<1>7. QED
  BY <1>1, <1>2, <1>3, <1>4, <1>5, <1>6 DEF k

\* The stack has a node more.
MoreNodes(frames, new, x) ==
    \A m : Places(NodesOf(new), m) = Places(NodesOf(frames), m) + Same(x, m)

\* The frame is on the stack.
FrameOn(frames, new, frame) ==
    /\ Len(new) = Len(frames) + 1 /\ new # <<>> /\ DOMAIN new = 1..(Len(frames) + 1)
    /\ \A i \in DOMAIN frames : new[i] = frames[i]
    /\ new[Len(frames) + 1] = frame

\* A frame that is pushed.
LEMMA FramePushed ==
  ASSUME NEW D, NEW frames \in Seq(FrameSet(D)), NEW frame \in FrameSet(D),
         NEW new, new = Append(frames, frame)
  PROVE  new \in Seq(FrameSet(D)) /\ FrameOn(frames, new, frame)
         /\ MoreNodes(frames, new, frame.node)
<1> DEFINE k == Len(frames)
           a == NodesOf(new)
           b == Append(NodesOf(frames), frame.node)
<1>1. k \in Nat /\ frame.node \in D /\ DOMAIN frames = 1..k
  BY LenProperties DEF FrameSet
<1>2. /\ NodesOf(frames) \in Seq(D) /\ Len(NodesOf(frames)) = k
      /\ \A i \in 1..k : NodesOf(frames)[i] = frames[i].node
  BY <1>1, FramesAre DEF NodesOf
<1>3. /\ new \in Seq(FrameSet(D)) /\ Len(new) = k + 1
      /\ \A i \in 1..k : new[i] = frames[i]
      /\ new[k + 1] = frame
  BY AppendProperties
<1> HIDE DEF k
<1>4. a \in Seq(D) /\ Len(a) = k + 1
  <2>1. a \in Seq(D) /\ Len(a) = Len(new)
    BY <1>3, FramesAre
  <2>2. QED
    BY <1>3, <2>1
<1>5. b \in Seq(D) /\ Len(b) = k + 1 /\ b[k + 1] = frame.node
      /\ \A i \in 1..k : b[i] = frames[i].node
  <2>1. /\ b \in Seq(D) /\ Len(b) = Len(NodesOf(frames)) + 1
        /\ \A i \in 1..Len(NodesOf(frames)) : b[i] = NodesOf(frames)[i]
        /\ b[Len(NodesOf(frames)) + 1] = frame.node
    BY <1>1, <1>2, AppendProperties
  <2>2. QED
    BY <1>2, <2>1
<1>6. DOMAIN new = 1..(k + 1) /\ new # <<>>
  BY <1>1, <1>3, LenProperties
<1>7. \A i \in 1..(k + 1) : a[i] = b[i]
  <2> SUFFICES ASSUME NEW i \in 1..(k + 1) PROVE a[i] = b[i]
    OBVIOUS
  <2>1. i = k + 1 \/ i \in 1..k
    BY <1>1
  <2>2. a[i] = new[i].node
    BY <1>6 DEF NodesOf
  <2>3. QED
    BY <1>3, <1>5, <2>1, <2>2
<1> HIDE DEF a, b
<1>8. a = b
  BY <1>4, <1>5, <1>7, SeqEqual
<1>9. \A m : Places(b, m) = Places(NodesOf(frames), m) + Same(frame.node, m)
  BY <1>1, <1>2, PlacesOfAppended DEF b
<1>10. QED
  BY <1>1, <1>3, <1>6, <1>8, <1>9 DEF a, k, MoreNodes, FrameOn

\* The last frame and those below it.
LEMMA FramePopped ==
  ASSUME NEW D, NEW frames \in Seq(FrameSet(D)), frames # <<>>
  PROVE  /\ Front(frames) \in Seq(FrameSet(D)) /\ Last(frames) \in FrameSet(D)
         /\ Last(frames) = frames[Len(frames)] /\ Len(frames) \in Nat \ {0}
         /\ Len(frames) \in DOMAIN frames
         /\ Len(Front(frames)) = Len(frames) - 1 /\ DOMAIN Front(frames) = 1..(Len(frames) - 1)
         /\ \A i \in 1..(Len(frames) - 1) : Front(frames)[i] = frames[i] /\ i \in DOMAIN frames
         /\ MoreNodes(Front(frames), frames, Last(frames).node)
<1> DEFINE front == Front(frames)
           last == Last(frames)
           k == Len(frames)
<1>1. /\ frames = Append(front, last) /\ front \in Seq(FrameSet(D)) /\ last \in FrameSet(D)
      /\ last = frames[k] /\ Len(front) = k - 1 /\ k \in Nat \ {0}
      /\ \A i \in 1..(k - 1) : front[i] = frames[i]
  BY FrontIs
<1> HIDE DEF front, last
<1>2. MoreNodes(front, frames, last.node)
  BY <1>1, FramePushed
<1>3. DOMAIN front = 1..(k - 1) /\ DOMAIN frames = 1..k
  <2>1. DOMAIN front = 1..Len(front) /\ DOMAIN frames = 1..k
    BY <1>1, LenProperties
  <2>2. QED
    BY <1>1, <2>1
<1>4. k \in DOMAIN frames /\ \A i \in 1..(k - 1) : i \in DOMAIN frames
  BY <1>1, <1>3
<1>5. QED
  BY <1>1, <1>2, <1>3, <1>4 DEF front, last

\* The last frame goes on to the next field.
LEMMA NextFieldIs ==
  ASSUME NEW D, NEW frames \in Seq(FrameSet(D)), frames # <<>>, NEW after, after = NextField(frames)
  PROVE  /\ after \in Seq(FrameSet(D)) /\ SameFrames(frames, after) /\ after # <<>>
         /\ \A i \in DOMAIN frames : i # Len(frames) => after[i] = frames[i]
         /\ NodesOf(after) = NodesOf(frames)
<1> DEFINE k == Len(frames)
           f == frames[k]
           new == [f EXCEPT !.next = @ + 1]
<1>1. k \in Nat \ {0} /\ DOMAIN frames = 1..k /\ \A i \in 1..k : frames[i] \in FrameSet(D)
  BY LenProperties, ElementOfSeq, EmptySeq
<1>2. k \in 1..k /\ f \in FrameSet(D)
  BY <1>1
<1>3. new \in FrameSet(D) /\ new.node = f.node /\ new.ynode = f.ynode
  <2>1. /\ f = [ynode |-> f.ynode, node |-> f.node, next |-> f.next]
        /\ f.ynode \in YNode /\ f.node \in D /\ f.next + 1 \in Nat \ {0}
    BY <1>2 DEF FrameSet
  <2>2. new = [ynode |-> f.ynode, node |-> f.node, next |-> f.next + 1]
    BY <2>1
  <2>3. QED
    BY <2>1, <2>2 DEF FrameSet
<1>4. after = [frames EXCEPT ![k] = new]
  BY DEF NextField
<1>5. DOMAIN after = 1..k /\ \A i \in 1..k : after[i] = IF i = k THEN new ELSE frames[i]
  BY <1>1, <1>4
<1> HIDE DEF new
<1>6. after \in [1..k -> FrameSet(D)]
  <2>1. after = [i \in 1..k |-> after[i]]
    BY <1>1, <1>4
  <2>2. \A i \in 1..k : after[i] \in FrameSet(D)
    BY <1>1, <1>3, <1>5
  <2>3. QED
    BY <2>1, <2>2
<1>7. after \in Seq(FrameSet(D)) /\ Len(after) = k
  <2> HIDE DEF k, f
  <2>1. after = [i \in 1..k |-> after[i]] /\ \A i \in 1..k : after[i] \in FrameSet(D)
    BY <1>6
  <2>2. QED
    BY <1>1, <2>1, IsASeq
<1>8. \A i \in 1..k : after[i].ynode = frames[i].ynode /\ after[i].node = frames[i].node
  BY <1>3, <1>5
<1>9. NodesOf(after) = NodesOf(frames)
  BY <1>1, <1>5, <1>8 DEF NodesOf
<1>10. after # <<>>
  <2>1. Len(<<>>) = 0
    OBVIOUS
  <2>2. QED
    BY <1>1, <1>7, <2>1
<1>11. QED
  BY <1>1, <1>5, <1>7, <1>8, <1>9, <1>10 DEF SameFrames

\* The table holds only so many references.
LEMMA NamedIs ==
  ASSUME NEW table, NEW n
  PROVE  IsFiniteSet({y \in YNode : table[y] = n}) /\ Named(table, n) \in Nat
<1>1. {y \in YNode : table[y] = n} \in SUBSET YNode
  OBVIOUS
<1>2. IsFiniteSet({y \in YNode : table[y] = n})
  BY <1>1, ConvertAssumption, FS_Subset
<1>3. QED
  BY <1>2, FS_CardinalityType DEF Named

\* An entry of the table that changes.
LEMMA NamedMoves ==
  ASSUME NEW T, NEW table \in [YNode -> T], NEW y \in YNode, NEW x, NEW n,
         NEW new, new = Entered(table, y, x)
  PROVE  Named(new, n) = Named(table, n) + Same(x, n) - Same(table[y], n)
<1> DEFINE A == {z \in YNode : table[z] = n}
           B == {z \in YNode : new[z] = n}
<1>1. A \ {y} = B \ {y}
  BY DEF Entered
<1>2. (y \in A <=> table[y] = n) /\ (y \in B <=> x = n)
  BY DEF Entered
<1>3. IsFiniteSet(A)
  BY NamedIs
<1>4. Named(table, n) = Cardinality(A) /\ Named(new, n) = Cardinality(B)
  BY DEF Named
<1> HIDE DEF A, B
<1>5. /\ Cardinality(A) \in Nat /\ Cardinality(B) \in Nat
      /\ Cardinality(B) = Cardinality(A) + (IF y \in B THEN 1 ELSE 0) - (IF y \in A THEN 1 ELSE 0)
  BY <1>1, <1>3, OneDiffers
<1>6. QED
  BY <1>2, <1>4, <1>5 DEF Same

\* An empty table holds nothing.
LEMMA NamedNone ==
  ASSUME NEW table, IsEmpty(table), NEW n, n # Null
  PROVE  Named(table, n) = 0
<1>1. {y \in YNode : table[y] = n} = {}
  BY DEF IsEmpty
<1>2. QED
  BY <1>1, FS_EmptySet DEF Named

\* When the table is emptied, each node is listed once.
LEMMA MemoIs ==
  ASSUME IsHeap(heap), IsTable(heap, anchors), Tabled(heap, anchors)
  PROVE  /\ MemoNodes \in Seq(DOMAIN heap)
         /\ \A n \in DOMAIN heap : Places(MemoNodes, n) = Named(anchors, n)
<1> DEFINE B == {anchors[y] : y \in YNode} \ {Null, InProgress}
           f == [y \in YNode |-> anchors[y]]
<1>1. B \subseteq DOMAIN heap
  BY DEF IsTable
<1>2. IsFiniteSet(B)
  <2>1. {anchors[y] : y \in YNode} = {f[y] : y \in YNode}
    OBVIOUS
  <2>2. IsFiniteSet(DOMAIN heap)
    BY FS_Interval DEF IsHeap
  <2>3. QED
    BY <1>1, <2>2, FS_Subset
<1>3. MemoNodes = SetToSeq(B)
  BY DEF MemoNodes
<1>4. ASSUME NEW n \in DOMAIN heap
      PROVE  (IF n \in B THEN 1 ELSE 0) = Named(anchors, n)
  <2>1. CASE n \in B
    <3>1. PICK y \in YNode : anchors[y] = n
      BY <2>1
    <3>2. \A z \in YNode : anchors[z] = n => z = y
      BY <3>1 DEF Tabled
    <3>3. {z \in YNode : anchors[z] = n} = {y}
      BY <3>1, <3>2
    <3>4. QED
      BY <2>1, <3>3, FS_Singleton DEF Named
  <2>2. CASE n \notin B
    <3>1. n # Null /\ n # InProgress
      BY NodesAreNumbers
    <3>2. {z \in YNode : anchors[z] = n} = {}
      BY <2>2, <3>1
    <3>3. QED
      BY <2>2, <3>2, FS_EmptySet DEF Named
  <2>3. QED
    BY <2>1, <2>2
<1> HIDE DEF B
<1>5. QED
  BY <1>1, <1>2, <1>3, <1>4, PlacesOfSet

-----------------------------------------------------------------------------
(* The shapes of the state. *)

\* What libyaml composes is a document.
LEMMA DocumentsAre == \A d \in Document : IsDocument(d)
<1> DEFINE F == [key : Keys \cup {Complex}, child : YNode]
<1>1. SequenceFields \subseteq Seq(F)
  <2> DEFINE S == {[key |-> Element, child |-> y] : y \in YNode}
  <2>1. S \subseteq F
    BY DEF Keys
  <2> HIDE DEF S, F
  <2>2. ASSUME NEW m \in 0..MaxElements, NEW s \in [1..m -> S]
        PROVE  s \in Seq(F)
    <3>1. m \in Nat
      BY ConvertAssumption
    <3>2. s = [i \in 1..m |-> s[i]] /\ \A i \in 1..m : s[i] \in F
      BY <2>1
    <3>3. QED
      BY <3>1, <3>2, IsASeq
  <2>3. SequenceFields = UNION {[1..m -> S] : m \in 0..MaxElements}
    BY DEF SequenceFields, SeqOf, S
  <2>4. QED
    BY <2>2, <2>3
<1>2. ASSUME NEW max \in Nat
      PROVE  MappingFields(max) \subseteq Seq(F)
  <2> DEFINE S == {[key |-> k, child |-> y] : k \in Key \cup {Complex}, y \in YNode}
  <2>1. S \subseteq F
    BY DEF Keys
  <2> HIDE DEF S, F
  <2>2. ASSUME NEW m \in 0..max, NEW s \in [1..m -> S]
        PROVE  s \in Seq(F)
    <3>1. m \in Nat
      OBVIOUS
    <3>2. s = [i \in 1..m |-> s[i]] /\ \A i \in 1..m : s[i] \in F
      BY <2>1
    <3>3. QED
      BY <3>1, <3>2, IsASeq
  <2>3. MappingFields(max) = UNION {[1..m -> S] : m \in 0..max}
    BY DEF MappingFields, SeqOf, S
  <2>4. QED
    BY <2>2, <2>3
<1> HIDE DEF F
<1>3. ASSUME NEW g \in Graphs
      PROVE  g \in [YNode -> Seq(F)]
  <2>1. PICK fields \in SequenceFields \cup MappingFields(MaxPairs),
             below \in [YNode \ {Root} -> SequenceFields \cup MappingFields(MaxPairsBelow)] :
          g = [y \in YNode |-> IF y = Root THEN fields ELSE below[y]]
    BY DEF Graphs
  <2>2. fields \in Seq(F)
    BY <1>1, <1>2, ConvertAssumption
  <2>3. \A y \in YNode \ {Root} : below[y] \in Seq(F)
    BY <1>1, <1>2, ConvertAssumption
  <2>4. QED
    BY <2>1, <2>2, <2>3
<1>4. ASSUME NEW d \in Document
      PROVE  IsDocument(d)
  <2>1. PICK f \in Graphs : d = [root |-> Root, fields |-> f]
    BY DEF Document
  <2>2. Root \in YNode
    BY ConvertAssumption
  <2>3. QED
    BY <1>3, <2>1, <2>2 DEF IsDocument, F
<1>5. QED
  BY <1>4

\* It begins with nothing.
LEMMA InitFits == Init => Fits /\ Counted
<1> SUFFICES ASSUME Init PROVE Fits /\ Counted
  OBVIOUS
<1>1. heap = <<>> /\ DOMAIN heap = {} /\ Len(heap) = 0 /\ stack = <<>> /\ DOMAIN stack = {}
      /\ documents = <<>> /\ releasing = <<>> /\ phase = "loading"
      /\ anchors = [y \in YNode |-> Null]
  BY DEF Init
<1>2. IsHeap(heap)
  BY <1>1 DEF IsHeap
<1>3. IsDocument(doc)
  <2>1. PICK y \in YNode : doc = [root |-> y, fields |-> [z \in YNode |-> <<>>]]
    BY DEF Init
  <2>2. <<>> \in Seq([key : Keys \cup {Complex}, child : YNode])
    OBVIOUS
  <2>3. QED
    BY <2>1, <2>2 DEF IsDocument
<1>4. stack \in Seq(FrameSet(DOMAIN heap)) /\ documents \in Seq(DOMAIN heap)
      /\ releasing \in Seq(DOMAIN heap)
  BY <1>1
<1>5. /\ IsStack(heap, stack) /\ AllWait(doc, stack) /\ IsTable(heap, anchors)
      /\ Tabled(heap, anchors) /\ Marked(stack, anchors)
  BY <1>1, <1>4 DEF IsStack, AllWait, IsTable, Tabled, Marked
<1>6. Phases(phase, stack, anchors, releasing)
  BY <1>1 DEF Phases
<1>7. Counted
  BY <1>1 DEF Counted, Balanced
<1>8. QED
  BY <1>2, <1>3, <1>4, <1>5, <1>6, <1>7 DEF Fits

-----------------------------------------------------------------------------
(* The steps: the shapes of the state and the counters. *)

\* The node that is being converted.
LEMMA TopIs ==
  ASSUME Fits, stack # <<>>
  PROVE  /\ Top = stack[Len(stack)] /\ Len(stack) \in DOMAIN stack
         /\ Top \in FrameSet(DOMAIN heap) /\ Top.node \in DOMAIN heap /\ Top.ynode \in YNode
         /\ Top.next \in Nat \ {0} /\ phase = "converting"
         /\ heap[Top.node].ynode = Top.ynode
         /\ ~Done => /\ Top.next \in DOMAIN doc.fields[Top.ynode]
                     /\ TopField.key \in Keys \cup {Complex} /\ TopField.child \in YNode
<1>1. stack \in Seq(FrameSet(DOMAIN heap)) /\ IsDocument(doc)
  BY DEF Fits, IsStack
<1>2. /\ Top = stack[Len(stack)] /\ Top \in FrameSet(DOMAIN heap) /\ Len(stack) \in DOMAIN stack
  BY <1>1, FramePopped DEF Top
<1>3. Top.node \in DOMAIN heap /\ Top.ynode \in YNode /\ Top.next \in Nat \ {0}
  BY <1>2 DEF FrameSet
<1>4. phase = "converting" /\ heap[Top.node].ynode = Top.ynode
  BY <1>2 DEF Fits, Phases, IsStack
<1>5. ASSUME ~Done
      PROVE  /\ Top.next \in DOMAIN doc.fields[Top.ynode]
             /\ TopField.key \in Keys \cup {Complex} /\ TopField.child \in YNode
  <2> DEFINE f == doc.fields[Top.ynode]
  <2>1. f \in Seq([key : Keys \cup {Complex}, child : YNode])
    BY <1>1, <1>3 DEF IsDocument
  <2>2. Len(f) \in Nat /\ DOMAIN f = 1..Len(f)
    BY <2>1, LenProperties
  <2>3. Top.next \in 1..Len(f)
    BY <1>3, <1>5, <2>2 DEF Done
  <2>4. f[Top.next] \in [key : Keys \cup {Complex}, child : YNode]
    BY <2>1, <2>3, ElementOfSeq
  <2>5. QED
    BY <2>2, <2>3, <2>4 DEF TopField
<1>6. QED
  BY <1>2, <1>3, <1>4, <1>5

\* What refers to the heap still does when its nodes are the same.
LEMMA PartsStay ==
  ASSUME NEW h, NEW g, SameNodes(h, g), NEW frames, IsStack(h, frames),
         NEW after \in Seq(FrameSet(DOMAIN h)), SameFrames(frames, after),
         NEW table, IsTable(h, table), Tabled(h, table), Marked(frames, table)
  PROVE  /\ IsStack(g, after) /\ IsTable(g, table) /\ Tabled(g, table) /\ Marked(after, table)
         /\ DOMAIN g = DOMAIN h
<1>1. DOMAIN g = DOMAIN h /\ \A m \in DOMAIN h : g[m].ynode = h[m].ynode
  BY DEF SameNodes
<1>2. /\ DOMAIN after = DOMAIN frames
      /\ \A i \in DOMAIN frames : after[i].ynode = frames[i].ynode /\ after[i].node = frames[i].node
  BY DEF SameFrames
<1>3. \A i \in DOMAIN frames : frames[i].node \in DOMAIN h
  BY FramesAre DEF IsStack
<1>4. IsStack(g, after)
  BY <1>1, <1>2, <1>3 DEF IsStack
<1>5. IsTable(g, table) /\ Tabled(g, table)
  BY <1>1 DEF IsTable, Tabled
<1>6. Marked(after, table)
  BY <1>2 DEF Marked
<1>7. QED
  BY <1>1, <1>4, <1>5, <1>6

\* The same frames are themselves.
LEMMA FramesSame == \A frames : SameFrames(frames, frames)
BY DEF SameFrames

\* The last frame goes on.
LEMMA StackGoesOn ==
  ASSUME NEW D, NEW frames \in Seq(FrameSet(D)), frames # <<>>, AllWait(doc, frames)
  PROVE  /\ NextField(frames) \in Seq(FrameSet(D)) /\ SameFrames(frames, NextField(frames))
         /\ NextField(frames) # <<>> /\ AllWait(doc, NextField(frames))
         /\ NodesOf(NextField(frames)) = NodesOf(frames)
<1> DEFINE after == NextField(frames)
<1>1. after = NextField(frames)
  OBVIOUS
<1> HIDE DEF after
<1>2. /\ after \in Seq(FrameSet(D)) /\ SameFrames(frames, after) /\ after # <<>>
      /\ \A i \in DOMAIN frames : i # Len(frames) => after[i] = frames[i]
      /\ NodesOf(after) = NodesOf(frames)
  BY <1>1, NextFieldIs
<1>3. AllWait(doc, after)
  BY <1>2 DEF AllWait, SameFrames
<1>4. QED
  BY <1>1, <1>2, <1>3

\* The parts of the counters are numbers.
LEMMA NumbersAre ==
  ASSUME NEW h, IsHeap(h), NEW frames, IsStack(h, frames), NEW table,
         NEW docs \in Seq(DOMAIN h), NEW rel \in Seq(DOMAIN h), NEW n
  PROVE  /\ Kept(frames, table, docs, n) \in Nat /\ Places(NodesOf(frames), n) \in Nat
         /\ Named(table, n) \in Nat /\ Places(docs, n) \in Nat
         /\ Places(rel, n) \in Nat /\ Uses(h, n) \in Nat
<1>1. Places(NodesOf(frames), n) \in Nat
  <2>1. NodesOf(frames) \in Seq(DOMAIN h)
    BY FramesAre DEF IsStack
  <2>2. QED
    BY <2>1, PlacesAreFinite
<1>2. Named(table, n) \in Nat
  BY NamedIs
<1>3. Places(docs, n) \in Nat /\ Places(rel, n) \in Nat
  BY PlacesAreFinite
<1>4. Uses(h, n) \in Nat
  <2>1. IsTree(h, Keys)
    BY NodeFields
  <2>2. QED
    BY <2>1, PairsAreFinite
<1>5. QED
  BY <1>1, <1>2, <1>3, <1>4 DEF Kept

\* A field is left out.
LEMMA SkipKeeps ==
  ASSUME Fits, stack # <<>>, stack' = NextField(stack),
         UNCHANGED <<phase, doc, anchors, heap, documents, releasing>>
  PROVE  Fits' /\ (Counted => Counted')
<1>1. /\ IsHeap(heap) /\ IsDocument(doc) /\ IsStack(heap, stack) /\ AllWait(doc, stack)
      /\ IsTable(heap, anchors) /\ Tabled(heap, anchors) /\ Marked(stack, anchors)
      /\ documents \in Seq(DOMAIN heap) /\ releasing \in Seq(DOMAIN heap)
      /\ Phases(phase, stack, anchors, releasing)
  BY DEF Fits
<1>2. /\ stack' \in Seq(FrameSet(DOMAIN heap)) /\ SameFrames(stack, stack')
      /\ stack' # <<>> /\ AllWait(doc, stack') /\ NodesOf(stack') = NodesOf(stack)
  BY <1>1, StackGoesOn DEF IsStack
<1>3. SameNodes(heap, heap)
  BY DEF SameNodes
<1>4. IsStack(heap, stack') /\ Marked(stack', anchors)
  BY <1>1, <1>2, <1>3, PartsStay
<1>5. Phases(phase, stack', anchors, releasing)
  BY <1>1, <1>2 DEF Phases
<1>6. Fits'
  BY <1>1, <1>2, <1>4, <1>5 DEF Fits
<1>7. Counted => Counted'
  BY <1>2 DEF Counted, Balanced, Kept
<1>8. QED
  BY <1>6, <1>7

\* The table is emptied, and what it held is to be released.
LEMMA ClearKeeps ==
  ASSUME Fits, phase = "loading", phase' \in {"converting", "destroying"}, IsDocument(doc'),
         anchors' = [y \in YNode |-> Null], releasing' = MemoNodes,
         UNCHANGED <<stack, heap, documents>>
  PROVE  Fits' /\ (Counted => Counted')
<1>1. /\ IsHeap(heap) /\ IsStack(heap, stack) /\ IsTable(heap, anchors) /\ Tabled(heap, anchors)
      /\ documents \in Seq(DOMAIN heap) /\ releasing \in Seq(DOMAIN heap)
      /\ stack = <<>> /\ releasing = <<>>
  BY DEF Fits, Phases
<1>2. /\ MemoNodes \in Seq(DOMAIN heap)
      /\ \A n \in DOMAIN heap : Places(MemoNodes, n) = Named(anchors, n)
  BY <1>1, MemoIs
<1>3. IsEmpty(anchors') /\ Null \notin DOMAIN heap
  BY <1>1, NodesAreNumbers DEF IsEmpty
<1>4. IsTable(heap, anchors') /\ Tabled(heap, anchors') /\ Marked(stack', anchors')
      /\ AllWait(doc', stack')
  <2>1. DOMAIN stack' = {}
    BY <1>1
  <2>2. QED
    BY <1>3, <2>1 DEF IsTable, Tabled, Marked, AllWait, IsEmpty
<1>5. Phases(phase', stack', anchors', releasing')
  BY <1>1, <1>3 DEF Phases
<1>6. Fits'
  BY <1>1, <1>2, <1>4, <1>5 DEF Fits
<1>7. ASSUME Counted PROVE Counted'
  <2> SUFFICES ASSUME NEW n \in DOMAIN heap
               PROVE  heap[n].refs = Kept(stack, anchors', documents, n) + Places(MemoNodes, n)
                                       + Uses(heap, n)
    BY DEF Counted, Balanced
  <2>1. heap[n].refs = Kept(stack, anchors, documents, n) + Places(releasing, n) + Uses(heap, n)
    BY <1>7 DEF Counted, Balanced
  <2>2. Places(releasing, n) = 0 /\ Named(anchors', n) = 0
    <3>1. n # Null
      BY <1>3
    <3>2. Named(anchors', n) = 0
      BY <1>3, <3>1, NamedNone
    <3>3. QED
      BY <1>1, <3>2, PlacesOfNone
  <2>3. /\ Places(NodesOf(stack), n) \in Nat /\ Named(anchors, n) \in Nat
        /\ Places(documents, n) \in Nat /\ Uses(heap, n) \in Nat
    BY <1>1, NumbersAre
  <2>4. QED
    BY <1>2, <2>1, <2>2, <2>3 DEF Kept
<1>8. QED
  BY <1>6, <1>7

\* A node is made and its conversion begins.
LEMMA PushKeeps ==
  ASSUME Fits, NEW y \in YNode, anchors[y] = Null, phase = "converting", releasing = <<>>,
         stack # <<>> => Waits(doc, Top),
         heap' = Append(heap, Fresh(y)), anchors' = [anchors EXCEPT ![y] = InProgress],
         stack' = Append(stack, [ynode |-> y, node |-> Len(heap) + 1, next |-> 1]),
         UNCHANGED <<phase, doc, documents, releasing>>
  PROVE  Fits' /\ (Counted => Counted') /\ Grown(heap, heap', y)
<1> DEFINE k == Len(heap) + 1
           frame == [ynode |-> y, node |-> k, next |-> 1]
           D == DOMAIN heap
<1>1. /\ IsHeap(heap) /\ IsDocument(doc) /\ IsStack(heap, stack) /\ IsTable(heap, anchors)
      /\ Tabled(heap, anchors) /\ Marked(stack, anchors) /\ AllWait(doc, stack)
      /\ documents \in Seq(D) /\ releasing \in Seq(D)
  BY DEF Fits
<1>2. IsHeap(heap') /\ Grown(heap, heap', y)
  <2>1. Len(documents) \in Nat
    BY <1>1, LenProperties
  <2>2. QED
    BY <1>1, <2>1, GrownIs
<1>3. /\ DOMAIN heap' = D \cup {k} /\ k \notin D /\ \A m \in D : heap'[m] = heap[m]
      /\ heap'[k] = Fresh(y) /\ k \in Nat
  BY <1>1, <1>2 DEF Grown, IsHeap
<1>4. /\ stack \in Seq(FrameSet(DOMAIN heap'))
      /\ documents \in Seq(DOMAIN heap') /\ releasing \in Seq(DOMAIN heap')
  <2>1. FrameSet(D) \subseteq FrameSet(DOMAIN heap')
    BY <1>3 DEF FrameSet
  <2>2. QED
    BY <1>1, <1>3, <2>1, SeqMonotonic DEF IsStack
<1>5. frame \in FrameSet(DOMAIN heap') /\ frame.node = k /\ frame.ynode = y
  BY <1>3 DEF FrameSet
<1> HIDE DEF D, frame
<1>6. /\ stack' \in Seq(FrameSet(DOMAIN heap')) /\ Len(stack') = Len(stack) + 1 /\ stack' # <<>>
      /\ \A i \in DOMAIN stack : stack'[i] = stack[i]
      /\ stack'[Len(stack) + 1] = frame
      /\ DOMAIN stack' = 1..(Len(stack) + 1)
      /\ MoreNodes(stack, stack', k)
  <2> DEFINE E == DOMAIN heap'
             new == stack'
  <2>1. new = Append(stack, frame)
    BY DEF frame
  <2>2. stack \in Seq(FrameSet(E)) /\ frame \in FrameSet(E)
    BY <1>4, <1>5
  <2> HIDE DEF E, new
  <2>3. new \in Seq(FrameSet(E)) /\ FrameOn(stack, new, frame) /\ MoreNodes(stack, new, frame.node)
    BY <2>1, <2>2, FramePushed
  <2>4. QED
    BY <1>5, <2>3 DEF E, new, FrameOn
<1>7. Len(stack) \in Nat /\ DOMAIN stack = 1..Len(stack)
  BY <1>1, FramesAre DEF IsStack
<1>8. \A i \in DOMAIN stack' : i \in DOMAIN stack \/ i = Len(stack) + 1
  BY <1>6, <1>7
<1>9. Null # InProgress /\ Null \notin DOMAIN heap' /\ InProgress \notin DOMAIN heap'
  BY <1>2, NodesAreNumbers, ConvertAssumption
<1>10. \A i \in DOMAIN stack : stack[i].ynode # y /\ stack[i].node \in D /\ stack[i].ynode \in YNode
  <2>1. \A i \in DOMAIN stack : stack[i].ynode # y
    BY <1>1, <1>9 DEF Marked
  <2>2. QED
    BY <1>1, <2>1, FramesAre DEF IsStack, D
<1>11. IsStack(heap', stack')
  <2>1. \A i, j \in DOMAIN stack' : stack'[i].ynode = stack'[j].ynode => i = j
    <3>1. \A i, j \in DOMAIN stack : stack'[i].ynode = stack'[j].ynode => i = j
      BY <1>1, <1>6 DEF IsStack
    <3>2. \A i \in DOMAIN stack : stack'[i].ynode # stack'[Len(stack) + 1].ynode
      BY <1>5, <1>6, <1>10
    <3>3. QED
      BY <1>8, <3>1, <3>2
  <2>2. \A i \in DOMAIN stack' : heap'[stack'[i].node].ynode = stack'[i].ynode
    <3>1. \A i \in DOMAIN stack : heap'[stack'[i].node].ynode = stack'[i].ynode
      BY <1>1, <1>3, <1>6, <1>10 DEF IsStack
    <3>2. heap'[stack'[Len(stack) + 1].node].ynode = stack'[Len(stack) + 1].ynode
      BY <1>3, <1>5, <1>6 DEF Fresh
    <3>3. QED
      BY <1>8, <3>1, <3>2
  <2>3. QED
    BY <1>6, <2>1, <2>2 DEF IsStack
<1>12. AllWait(doc, stack')
  <2> SUFFICES ASSUME NEW i \in DOMAIN stack', i # Len(stack') PROVE Waits(doc, stack'[i])
    BY DEF AllWait
  <2>1. i \in DOMAIN stack /\ stack'[i] = stack[i]
    BY <1>6, <1>8
  <2>2. CASE i = Len(stack)
    <3>1. stack # <<>>
      <4>1. DOMAIN <<>> = {}
        OBVIOUS
      <4>2. QED
        BY <2>1, <4>1
    <3>2. Top = stack[i]
      BY <2>2 DEF Top, Last
    <3>3. QED
      BY <2>1, <3>1, <3>2
  <2>3. CASE i # Len(stack)
    BY <1>1, <2>1, <2>3 DEF AllWait
  <2>4. QED
    BY <2>2, <2>3
<1>13. /\ \A z \in YNode : anchors'[z] = IF z = y THEN InProgress ELSE anchors[z]
       /\ anchors' \in [YNode -> DOMAIN heap' \cup {Null, InProgress}]
       /\ anchors \in [YNode -> D \cup {Null, InProgress}]
  BY <1>1, <1>3 DEF IsTable, D
<1>14. IsTable(heap', anchors')
  BY <1>13 DEF IsTable
<1>15. Tabled(heap', anchors')
  <2> SUFFICES ASSUME NEW z \in YNode, anchors'[z] \in DOMAIN heap'
               PROVE  heap'[anchors'[z]].ynode = z
    BY DEF Tabled
  <2>1. z # y /\ anchors'[z] = anchors[z]
    BY <1>9, <1>13
  <2>2. anchors[z] \in D
    BY <1>9, <1>13, <2>1
  <2>3. QED
    BY <1>1, <1>3, <2>1, <2>2 DEF Tabled, D
<1>16. Marked(stack', anchors')
  <2> SUFFICES ASSUME NEW i \in DOMAIN stack' PROVE anchors'[stack'[i].ynode] = InProgress
    BY DEF Marked
  <2>1. CASE i \in DOMAIN stack
    BY <1>1, <1>6, <1>10, <1>13, <2>1 DEF Marked
  <2>2. CASE i = Len(stack) + 1
    BY <1>5, <1>6, <1>13, <2>2
  <2>3. QED
    BY <1>8, <2>1, <2>2
<1>17. Phases(phase', stack', anchors', releasing')
  BY <1>6 DEF Phases
<1>18. Fits'
  BY <1>1, <1>2, <1>4, <1>11, <1>12, <1>14, <1>15, <1>16, <1>17 DEF Fits
<1>19. IsTree(heap, Keys)
  BY <1>1, NodeFields
<1>20. ASSUME NEW m PROVE Uses(heap', m) = Uses(heap, m)
  <2>1. heap'[k].fields = <<>>
    BY <1>3 DEF Fresh
  <2>2. QED
    BY <1>3, <2>1, UsesGrow DEF D
<1>21. ASSUME Counted, NEW m \in DOMAIN heap'
       PROVE  heap'[m].refs = Kept(stack', anchors', documents, m) + Places(releasing, m)
                                + Uses(heap', m)
  <2>1. Places(NodesOf(stack'), m) = Places(NodesOf(stack), m) + Same(k, m)
    BY <1>6 DEF MoreNodes
  <2>2. Named(anchors', m) = Named(anchors, m)
    <3>1. Named(anchors', m) = Named(anchors, m) + Same(InProgress, m) - Same(anchors[y], m)
      <4> DEFINE T == D \cup {Null, InProgress}
                 new == anchors'
      <4>1. anchors \in [YNode -> T] /\ new = Entered(anchors, y, InProgress)
        BY <1>13 DEF Entered
      <4> HIDE DEF T, new
      <4>2. Named(new, m) = Named(anchors, m) + Same(InProgress, m) - Same(anchors[y], m)
        BY <4>1, NamedMoves
      <4>3. QED
        BY <4>2 DEF new
    <3>2. Same(InProgress, m) = 0 /\ Same(anchors[y], m) = 0
      BY <1>9 DEF Same
    <3>3. Named(anchors, m) \in Nat
      BY NamedIs
    <3>4. QED
      BY <3>1, <3>2, <3>3
  <2>3. /\ Places(NodesOf(stack), m) \in Nat /\ Named(anchors, m) \in Nat
        /\ Places(documents, m) \in Nat /\ Places(releasing, m) \in Nat /\ Uses(heap, m) \in Nat
    BY <1>1, NumbersAre DEF D
  <2>4. CASE m \in D
    <3>1. heap[m].refs = Kept(stack, anchors, documents, m) + Places(releasing, m) + Uses(heap, m)
      BY <1>21, <2>4 DEF Counted, Balanced, D
    <3>2. heap'[m].refs = heap[m].refs /\ Same(k, m) = 0
      BY <1>3, <2>4 DEF Same
    <3>3. QED
      BY <1>20, <2>1, <2>2, <2>3, <3>1, <3>2 DEF Kept
  <2>5. CASE m = k
    <3>1. Places(NodesOf(stack), m) = 0 /\ Places(documents, m) = 0 /\ Places(releasing, m) = 0
      <4>1. NodesOf(stack) \in Seq(D)
        BY <1>1, FramesAre DEF IsStack, D
      <4>2. QED
        BY <1>1, <1>3, <2>5, <4>1, PlacesOutside
    <3>2. Named(anchors, m) = 0
      <4>1. {z \in YNode : anchors[z] = m} = {}
        BY <1>3, <1>9, <1>13, <2>5
      <4>2. QED
        BY <4>1, FS_EmptySet DEF Named
    <3>3. Uses(heap, m) = 0
      <4>1. \A x \in DOMAIN heap : \A i \in DOMAIN heap[x].fields : heap[x].fields[i].child \in D
        <5>1. \A x \in DOMAIN heap : \A i \in DOMAIN heap[x].fields :
                heap[x].fields[i] \in [key : Keys, child : DOMAIN heap]
          BY <1>19, FieldsAre
        <5>2. QED
          BY <5>1 DEF D
      <4>2. \A x \in DOMAIN heap : \A i \in DOMAIN heap[x].fields : heap[x].fields[i].child # m
        BY <1>3, <2>5, <4>1
      <4>3. QED
        BY <1>19, <4>2, UnusedIs
    <3>4. heap'[m].refs = 1 /\ Same(k, m) = 1
      BY <1>3, <2>5 DEF Fresh, Same
    <3>5. QED
      BY <1>20, <2>1, <2>2, <3>1, <3>2, <3>3, <3>4 DEF Kept
  <2>6. QED
    BY <1>3, <2>4, <2>5
<1>22. Counted => Counted'
  BY <1>21 DEF Counted, Balanced
<1>23. QED
  BY <1>2, <1>18, <1>22

\* The counters when a node is stored in another and the parts of the state, all but
\* what is to be released, refer as often to every node.
LEMMA BalanceStored ==
  ASSUME NEW h, IsHeap(h), NEW n \in DOMAIN h, NEW p \in DOMAIN h, NEW key \in Keys,
         NEW g, g = StoredAt(h, p, key, n),
         NEW rel, rel = Replaced(h[p].fields, key),
         NEW frames, NEW after, NEW table, NEW new, NEW docs, NEW old, old = <<>>,
         SameKept(h, frames, table, after, new, docs),
         \A m \in DOMAIN h : Kept(frames, table, docs, m) \in Nat,
         Balanced(h, frames, table, docs, old)
  PROVE  Balanced(g, after, new, docs, rel)
<1>1. /\ IsHeap(g) /\ SameNodes(h, g) /\ OneMore(h, g, n)
      /\ SameFieldsBut(h, g, p) /\ g[p].fields = Stored(h[p].fields, key, n)
  BY NodeStoredIs
<1>2. IsTree(h, Keys) /\ IsTree(g, Keys) /\ DOMAIN g = DOMAIN h
  BY <1>1, NodeFields DEF SameNodes
<1>3. h[p].fields \in Seq([key : Keys, child : DOMAIN h]) /\ OnceNamed(h[p].fields)
  BY NodeFields
<1>4. rel \in Seq(DOMAIN h) /\ StoredOnce(h[p].fields, key, n)
  BY <1>3, StoredIs
<1>5. ChildrenIn(h, p) = Kids(h[p].fields) /\ ChildrenIn(g, p) = Kids(Stored(h[p].fields, key, n))
  BY <1>1 DEF ChildrenIn, Kids
<1>6. ASSUME NEW m \in DOMAIN h
      PROVE  g[m].refs = Kept(after, new, docs, m) + Places(rel, m) + Uses(g, m)
  <2>1. h[m].refs = Kept(frames, table, docs, m) + Places(old, m) + Uses(h, m)
    BY DEF Balanced
  <2>2. /\ Kept(after, new, docs, m) = Kept(frames, table, docs, m)
        /\ Kept(frames, table, docs, m) \in Nat
    BY DEF SameKept
  <2>3. g[m].refs = h[m].refs + Same(n, m)
    BY <1>1 DEF OneMore
  <2>4. /\ Uses(g, m) = Uses(h, m) + Places(ChildrenIn(g, p), m) - Places(ChildrenIn(h, p), m)
        /\ Uses(g, m) \in Nat /\ Uses(h, m) \in Nat
        /\ Places(ChildrenIn(g, p), m) \in Nat /\ Places(ChildrenIn(h, p), m) \in Nat
    BY <1>1, <1>2, UsesMove
  <2>5. Places(ChildrenIn(g, p), m) = Places(ChildrenIn(h, p), m) + Same(n, m) - Places(rel, m)
    BY <1>4, <1>5 DEF StoredOnce
  <2>6. Places(rel, m) \in Nat /\ Places(old, m) = 0 /\ Same(n, m) \in Nat
    BY <1>4, PlacesAreFinite, PlacesOfNone DEF Same
  <2> DEFINE a == Kept(frames, table, docs, m)
             b == Places(rel, m)
             c == Places(ChildrenIn(h, p), m)
             e == Same(n, m)
  <2> HIDE DEF a, b, c, e
  <2>7. h[m].refs = a + Uses(h, m) /\ a \in Nat
    BY <2>1, <2>2, <2>4, <2>6 DEF a
  <2>8. Uses(g, m) = Uses(h, m) + (c + e - b) - c /\ c \in Nat /\ e \in Nat /\ b \in Nat
    BY <2>4, <2>5, <2>6 DEF b, c, e
  <2>9. g[m].refs = (a + Uses(h, m)) + e
    BY <2>3, <2>7 DEF e
  <2>10. g[m].refs = a + b + Uses(g, m)
    BY <2>4, <2>7, <2>8, <2>9
  <2>11. QED
    BY <2>2, <2>10 DEF a, b
<1>7. QED
  BY <1>2, <1>6 DEF Balanced

\* A node that was converted before is stored.
LEMMA ShareKeeps ==
  ASSUME Fits, NEW y \in YNode, Share(y)
  PROVE  /\ Fits' /\ (Counted => Counted')
         /\ heap' = StoredAt(heap, Top.node, TopField.key, anchors[y])
<1> DEFINE n == anchors[y]
           p == Top.node
           key == TopField.key
           g == heap'
<1>1. /\ stack # <<>> /\ releasing = <<>> /\ ~Done /\ key # Complex /\ TopField.child = y
      /\ n \in DOMAIN heap
      /\ releasing' = Replaced(heap[p].fields, key) /\ stack' = NextField(stack)
      /\ UNCHANGED <<broken, phase, success, doc, anchors, documents>>
  BY DEF Share, AtField, YamlNode
<1>2. g = StoredAt(heap, p, key, n)
  BY DEF Share, StoredAt
<1>3. /\ IsHeap(heap) /\ IsDocument(doc) /\ IsStack(heap, stack) /\ AllWait(doc, stack)
      /\ IsTable(heap, anchors) /\ Tabled(heap, anchors) /\ Marked(stack, anchors)
      /\ documents \in Seq(DOMAIN heap) /\ releasing \in Seq(DOMAIN heap)
      /\ Phases(phase, stack, anchors, releasing)
  BY DEF Fits
<1>4. p \in DOMAIN heap /\ key \in Keys /\ phase = "converting"
  <2>1. p \in DOMAIN heap /\ key \in Keys \cup {Complex} /\ phase = "converting"
    BY <1>1, TopIs
  <2>2. QED
    BY <1>1, <2>1
<1> HIDE DEF n, p, key, g
<1>5. IsHeap(g) /\ SameNodes(heap, g)
  BY <1>1, <1>2, <1>3, <1>4, NodeStoredIs
<1>6. /\ stack' \in Seq(FrameSet(DOMAIN heap)) /\ SameFrames(stack, stack')
      /\ stack' # <<>> /\ AllWait(doc, stack') /\ NodesOf(stack') = NodesOf(stack)
  BY <1>1, <1>3, StackGoesOn DEF IsStack
<1>7. /\ IsStack(g, stack') /\ IsTable(g, anchors) /\ Tabled(g, anchors) /\ Marked(stack', anchors)
      /\ DOMAIN g = DOMAIN heap
  BY <1>3, <1>5, <1>6, PartsStay
<1>8. releasing' \in Seq(DOMAIN heap)
  <2>1. heap[p].fields \in Seq([key : Keys, child : DOMAIN heap]) /\ OnceNamed(heap[p].fields)
    BY <1>3, <1>4, NodeFields
  <2>2. Replaced(heap[p].fields, key) \in Seq(DOMAIN heap)
    BY <1>1, <1>4, <2>1, StoredIs
  <2>3. QED
    BY <1>1, <2>2
<1>9. Phases(phase, stack', anchors, releasing')
  BY <1>4, <1>6 DEF Phases
<1>10. Fits'
  BY <1>1, <1>3, <1>5, <1>6, <1>7, <1>8, <1>9 DEF Fits, g
<1>11. ASSUME Counted PROVE Counted'
  <2>1. SameKept(heap, stack, anchors, stack', anchors, documents)
    BY <1>6 DEF SameKept, Kept
  <2>2. \A m \in DOMAIN heap : Kept(stack, anchors, documents, m) \in Nat
    BY <1>3, NumbersAre
  <2>3. Balanced(heap, stack, anchors, documents, releasing)
    BY <1>11 DEF Counted
  <2> DEFINE rel == releasing'
             after == stack'
  <2>4. /\ rel = Replaced(heap[p].fields, key)
        /\ SameKept(heap, stack, anchors, after, anchors, documents)
    BY <1>1, <2>1
  <2> HIDE DEF rel, after
  <2>5. Balanced(g, after, anchors, documents, rel)
    BY <1>1, <1>2, <1>3, <1>4, <2>2, <2>3, <2>4, BalanceStored
  <2>6. QED
    BY <1>1, <2>5 DEF Counted, g, after, rel
<1>12. QED
  BY <1>2, <1>10, <1>11 DEF g, n, p, key

\* A node is converted: what holds of the stack and the table without its frame.
LEMMA ReturnFrames ==
  ASSUME Fits, stack # <<>>, NEW new, new = Entered(anchors, Top.ynode, Top.node)
  PROVE  /\ IsTable(heap, new) /\ Tabled(heap, new)
         /\ IsStack(heap, Front(stack)) /\ Marked(Front(stack), new)
         /\ \A i \in DOMAIN Front(stack) : Waits(doc, Front(stack)[i])
         /\ \A m \in DOMAIN heap :
              /\ Places(NodesOf(stack), m) = Places(NodesOf(Front(stack)), m) + Same(Top.node, m)
              /\ Named(new, m) = Named(anchors, m) + Same(Top.node, m)
              /\ Places(NodesOf(Front(stack)), m) \in Nat /\ Named(anchors, m) \in Nat
<1> DEFINE front == Front(stack)
           k == Len(stack)
           D == DOMAIN heap
<1>1. /\ IsHeap(heap) /\ IsStack(heap, stack) /\ AllWait(doc, stack)
      /\ IsTable(heap, anchors) /\ Tabled(heap, anchors) /\ Marked(stack, anchors)
  BY DEF Fits
<1>2. /\ front \in Seq(FrameSet(D)) /\ Top \in FrameSet(D) /\ Top = stack[k] /\ k \in Nat \ {0}
      /\ k \in DOMAIN stack /\ DOMAIN front = 1..(k - 1)
      /\ \A i \in 1..(k - 1) : front[i] = stack[i] /\ i \in DOMAIN stack
      /\ MoreNodes(front, stack, Top.node)
  BY <1>1, FramePopped DEF IsStack, Top
<1>3. Top.node \in D /\ Top.ynode \in YNode /\ heap[Top.node].ynode = Top.ynode
  BY TopIs
<1>4. /\ anchors \in [YNode -> D \cup {Null, InProgress}]
      /\ new \in [YNode -> D \cup {Null, InProgress}]
      /\ \A z \in YNode : new[z] = IF z = Top.ynode THEN Top.node ELSE anchors[z]
  BY <1>1, <1>3 DEF IsTable, Entered
<1>5. Tabled(heap, new)
  <2> SUFFICES ASSUME NEW z \in YNode, new[z] \in DOMAIN heap
               PROVE  heap[new[z]].ynode = z
    BY DEF Tabled
  <2>1. CASE z = Top.ynode
    BY <1>3, <1>4, <2>1
  <2>2. CASE z # Top.ynode
    BY <1>1, <1>4, <2>2 DEF Tabled
  <2>3. QED
    BY <2>1, <2>2
<1> HIDE DEF front, D
<1>6. IsStack(heap, front)
  BY <1>1, <1>2 DEF IsStack, D
<1>7. Marked(front, new)
  <2> SUFFICES ASSUME NEW i \in DOMAIN front PROVE new[front[i].ynode] = InProgress
    BY DEF Marked
  <2>1. front[i] = stack[i] /\ i \in DOMAIN stack /\ i # k
    BY <1>2
  <2>2. stack[i].ynode # Top.ynode
    BY <1>1, <1>2, <2>1 DEF IsStack
  <2>3. anchors[stack[i].ynode] = InProgress /\ stack[i].ynode \in YNode
    BY <1>1, <2>1, FramesAre DEF Marked, IsStack
  <2>4. QED
    BY <1>4, <2>1, <2>2, <2>3
<1>8. \A i \in DOMAIN front : Waits(doc, front[i])
  <2> SUFFICES ASSUME NEW i \in DOMAIN front PROVE Waits(doc, front[i])
    OBVIOUS
  <2>1. front[i] = stack[i] /\ i \in DOMAIN stack /\ i # k
    BY <1>2
  <2>2. QED
    BY <1>1, <2>1 DEF AllWait
<1>9. ASSUME NEW m \in DOMAIN heap
      PROVE  /\ Places(NodesOf(stack), m) = Places(NodesOf(front), m) + Same(Top.node, m)
             /\ Named(new, m) = Named(anchors, m) + Same(Top.node, m)
             /\ Places(NodesOf(front), m) \in Nat /\ Named(anchors, m) \in Nat
  <2>1. Places(NodesOf(stack), m) = Places(NodesOf(front), m) + Same(Top.node, m)
    BY <1>2 DEF MoreNodes
  <2>2. Named(new, m) = Named(anchors, m) + Same(Top.node, m) - Same(anchors[Top.ynode], m)
    <3> DEFINE T == D \cup {Null, InProgress}
               x == Top.node
               z == Top.ynode
    <3>1. anchors \in [YNode -> T] /\ new = Entered(anchors, z, x) /\ z \in YNode
      BY <1>3, <1>4
    <3> HIDE DEF T, x, z
    <3>2. Named(new, m) = Named(anchors, m) + Same(x, m) - Same(anchors[z], m)
      BY <3>1, NamedMoves
    <3>3. QED
      BY <3>2 DEF x, z
  <2>3. Same(anchors[Top.ynode], m) = 0
    <3>1. anchors[Top.ynode] = InProgress
      BY <1>1, <1>2 DEF Marked
    <3>2. QED
      BY <1>1, <3>1, NodesAreNumbers DEF Same
  <2>4. Places(NodesOf(front), m) \in Nat
    <3>1. NodesOf(front) \in Seq(D)
      BY <1>2, FramesAre
    <3>2. QED
      BY <3>1, PlacesAreFinite
  <2>5. Named(anchors, m) \in Nat /\ Same(Top.node, m) \in Nat
    BY NamedIs DEF Same
  <2>6. QED
    BY <2>1, <2>2, <2>3, <2>4, <2>5
<1>10. IsTable(heap, new)
  BY <1>4 DEF IsTable, D
<1>11. QED
  BY <1>5, <1>6, <1>7, <1>8, <1>9, <1>10 DEF front

\* The node that Return stores, and where.
Caller    == stack[Len(stack) - 1]
CallerKey == doc.fields[Caller.ynode][Caller.next].key

\* A node that is converted is stored in the caller's.
LEMMA ReturnKeeps ==
  ASSUME Fits, Return
  PROVE  /\ Fits' /\ (Counted => Counted')
         /\ heap' = StoredAt(heap, Caller.node, CallerKey, Top.node)
         /\ Caller.node \in DOMAIN heap /\ CallerKey \in Keys /\ Top.node \in DOMAIN heap
         /\ Caller.ynode # Top.ynode
         /\ anchors' = Entered(anchors, Top.ynode, Top.node)
<1> DEFINE n == Top.node
           p == Caller.node
           key == CallerKey
           g == heap'
           front == Front(stack)
           new == anchors'
           after == stack'
           k == Len(stack)
<1>1. /\ k > 1 /\ releasing = <<>>
      /\ releasing' = Replaced(heap[p].fields, key) /\ after = NextField(front)
      /\ UNCHANGED <<broken, phase, success, doc, documents>>
  BY DEF Return, Caller, CallerKey
<1>2. g = StoredAt(heap, p, key, n) /\ new = Entered(anchors, Top.ynode, n)
  BY DEF Return, StoredAt, Caller, CallerKey, Entered
<1>3. /\ IsHeap(heap) /\ IsDocument(doc) /\ IsStack(heap, stack) /\ AllWait(doc, stack)
      /\ IsTable(heap, anchors) /\ documents \in Seq(DOMAIN heap)
      /\ releasing \in Seq(DOMAIN heap) /\ Phases(phase, stack, anchors, releasing)
  BY DEF Fits
<1>4. stack # <<>>
  BY <1>1
<1>5. /\ k \in Nat \ {0} /\ front \in Seq(FrameSet(DOMAIN heap)) /\ DOMAIN front = 1..(k - 1)
      /\ \A i \in 1..(k - 1) : front[i] = stack[i] /\ i \in DOMAIN stack
      /\ Len(front) = k - 1 /\ Top = stack[k] /\ k \in DOMAIN stack
  BY <1>3, <1>4, FramePopped DEF IsStack, Top
<1>6. k - 1 \in 1..(k - 1) /\ k - 1 \in DOMAIN stack /\ k - 1 # k
  BY <1>1, <1>5
<1>7. Caller = stack[k - 1] /\ Caller \in FrameSet(DOMAIN heap) /\ p \in DOMAIN heap
      /\ Caller.ynode # Top.ynode
  <2>1. Caller = stack[k - 1]
    BY DEF Caller
  <2>2. Caller \in FrameSet(DOMAIN heap) /\ Caller.node \in DOMAIN heap
    BY <1>3, <1>6, <2>1, FramesAre DEF IsStack
  <2>3. Caller.ynode # Top.ynode
    BY <1>3, <1>5, <1>6, <2>1 DEF IsStack
  <2>4. QED
    BY <2>1, <2>2, <2>3
<1>8. key \in Keys
  <2>1. Waits(doc, Caller)
    BY <1>3, <1>6, <1>7 DEF AllWait
  <2>2. QED
    BY <2>1 DEF Waits, CallerKey
<1>9. n \in DOMAIN heap /\ phase = "converting"
  BY <1>4, TopIs
<1>10. /\ IsTable(heap, new) /\ Tabled(heap, new)
       /\ IsStack(heap, front) /\ Marked(front, new)
       /\ \A i \in DOMAIN front : Waits(doc, front[i])
       /\ \A m \in DOMAIN heap :
            /\ Places(NodesOf(stack), m) = Places(NodesOf(front), m) + Same(n, m)
            /\ Named(new, m) = Named(anchors, m) + Same(n, m)
            /\ Places(NodesOf(front), m) \in Nat /\ Named(anchors, m) \in Nat
  <2> HIDE DEF new
  <2>1. QED
    BY <1>2, <1>4, ReturnFrames
<1>11. front # <<>>
  <2>1. Len(<<>>) = 0
    OBVIOUS
  <2>2. QED
    BY <1>1, <1>5, <2>1
<1> HIDE DEF n, p, key, g, front, new, k
<1>12. IsHeap(g) /\ SameNodes(heap, g)
  BY <1>2, <1>3, <1>7, <1>8, <1>9, NodeStoredIs
<1>13. /\ after \in Seq(FrameSet(DOMAIN heap)) /\ SameFrames(front, after)
       /\ after # <<>> /\ AllWait(doc, after) /\ NodesOf(after) = NodesOf(front)
  <2>1. AllWait(doc, front)
    BY <1>10 DEF AllWait
  <2>2. QED
    BY <1>1, <1>5, <1>11, <2>1, StackGoesOn
<1> HIDE DEF after
<1>14. /\ IsStack(g, after) /\ IsTable(g, new) /\ Tabled(g, new) /\ Marked(after, new)
       /\ DOMAIN g = DOMAIN heap
  BY <1>10, <1>12, <1>13, PartsStay
<1>15. releasing' \in Seq(DOMAIN heap)
  <2>1. heap[p].fields \in Seq([key : Keys, child : DOMAIN heap]) /\ OnceNamed(heap[p].fields)
    BY <1>3, <1>7, NodeFields
  <2>2. Replaced(heap[p].fields, key) \in Seq(DOMAIN heap)
    BY <1>8, <1>9, <2>1, StoredIs
  <2>3. QED
    BY <1>1, <2>2
<1>16. Phases(phase, after, new, releasing')
  BY <1>9, <1>13 DEF Phases
<1>17. Fits'
  BY <1>1, <1>3, <1>12, <1>13, <1>14, <1>15, <1>16 DEF Fits, g, after, new
<1>18. ASSUME Counted PROVE Counted'
  <2>1. SameKept(heap, stack, anchors, after, new, documents)
    <3> SUFFICES ASSUME NEW m \in DOMAIN heap
                 PROVE  Kept(after, new, documents, m) = Kept(stack, anchors, documents, m)
      BY DEF SameKept
    <3>1. /\ Places(NodesOf(stack), m) = Places(NodesOf(front), m) + Same(n, m)
          /\ Named(new, m) = Named(anchors, m) + Same(n, m)
          /\ Places(NodesOf(front), m) \in Nat /\ Named(anchors, m) \in Nat
      BY <1>10
    <3>2. Places(documents, m) \in Nat /\ Same(n, m) \in Nat
      BY <1>3, PlacesAreFinite DEF Same
    <3>3. QED
      BY <1>13, <3>1, <3>2 DEF Kept
  <2>2. \A m \in DOMAIN heap : Kept(stack, anchors, documents, m) \in Nat
    BY <1>3, NumbersAre
  <2>3. Balanced(heap, stack, anchors, documents, releasing)
    BY <1>18 DEF Counted
  <2> DEFINE rel == releasing'
  <2>4. rel = Replaced(heap[p].fields, key)
    BY <1>1
  <2> HIDE DEF rel
  <2>5. Balanced(g, after, new, documents, rel)
    BY <1>1, <1>2, <1>3, <1>7, <1>8, <1>9, <2>1, <2>2, <2>3, <2>4, BalanceStored
  <2>6. QED
    BY <1>1, <2>5 DEF Counted, g, after, new, rel
<1>19. QED
  BY <1>2, <1>7, <1>8, <1>9, <1>17, <1>18 DEF g, n, p, key, new

\* What an immutable parser seals.
Sealing(h, n) == IF Immutable THEN SealIn(h, n) ELSE h

\* The heap of a document that is finished.
LEMMA FinishedIs ==
  ASSUME NEW h, IsHeap(h), NEW n \in DOMAIN h, NEW g, g = Taken(Sealing(h, n), n)
  PROVE  /\ IsHeap(g) /\ SameNodes(h, g) /\ SameFields(h, g) /\ OneMore(h, g, n)
         /\ SealsMore(h, g, IF Immutable THEN ReachIn(h, {n}) ELSE {})
<1> DEFINE s == Sealing(h, n)
           X == IF Immutable THEN ReachIn(h, {n}) ELSE {}
<1>1. \A m \in DOMAIN h : h[m].sealed \in BOOLEAN
  BY NodeFields
<1>2. /\ IsHeap(s) /\ SameNodes(h, s) /\ SameFields(h, s) /\ SameRefs(h, s) /\ SealsMore(h, s, X)
  <2>1. CASE Immutable
    BY <2>1, SealedIs DEF Sealing
  <2>2. CASE ~Immutable
    BY <1>1, <2>2 DEF Sealing, SameNodes, SameFields, SameRefs, SealsMore
  <2>3. QED
    BY <2>1, <2>2
<1>3. g = Taken(s, n)
  OBVIOUS
<1> HIDE DEF s, X
<1>4. DOMAIN s = DOMAIN h
  BY <1>2 DEF SameNodes
<1>5. /\ IsHeap(g) /\ SameNodes(s, g) /\ SameFields(s, g) /\ SameSeals(s, g) /\ OneMore(s, g, n)
  BY <1>2, <1>3, <1>4, TakenIs
<1>6. SameNodes(h, g)
  BY <1>2, <1>5 DEF SameNodes
<1>7. SameFields(h, g)
  BY <1>2, <1>4, <1>5 DEF SameFields
<1>8. OneMore(h, g, n)
  BY <1>2, <1>4, <1>5 DEF OneMore, SameRefs
<1>9. SealsMore(h, g, X)
  BY <1>2, <1>4, <1>5 DEF SealsMore, SameSeals
<1>10. QED
  BY <1>5, <1>6, <1>7, <1>8, <1>9 DEF X

\* The root is converted.
LEMMA FinishKeeps ==
  ASSUME Fits, FinishDocument
  PROVE  /\ Fits' /\ (Counted => Counted')
         /\ Top.node \in DOMAIN heap /\ heap' = Taken(Sealing(heap, Top.node), Top.node)
         /\ anchors' = Entered(anchors, Top.ynode, Top.node)
         /\ stack # <<>> /\ DOMAIN stack = {1} /\ Top = stack[1] /\ documents \in Seq(DOMAIN heap)
<1> DEFINE n == Top.node
           g == heap'
           new == anchors'
           front == Front(stack)
<1>1. /\ Len(stack) = 1 /\ releasing = <<>> /\ documents' = Append(documents, n)
      /\ stack' = <<>> /\ phase' = "loading" /\ UNCHANGED <<broken, success, doc, releasing>>
  BY DEF FinishDocument
<1>2. g = Taken(Sealing(heap, n), n) /\ new = Entered(anchors, Top.ynode, n)
  <2>1. g = [(IF Immutable THEN SealIn(heap, Top.node) ELSE heap) EXCEPT ![Top.node].refs = @ + 1]
    BY DEF FinishDocument
  <2>2. new = [anchors EXCEPT ![Top.ynode] = Top.node]
    BY DEF FinishDocument
  <2>3. QED
    BY <2>1, <2>2 DEF Taken, Sealing, Entered
<1>3. /\ IsHeap(heap) /\ IsDocument(doc) /\ IsStack(heap, stack)
      /\ documents \in Seq(DOMAIN heap)
  BY DEF Fits
<1>4. stack # <<>>
  BY <1>1
<1>5. n \in DOMAIN heap
  BY <1>4, TopIs
<1>6. /\ IsTable(heap, new) /\ Tabled(heap, new)
      /\ \A m \in DOMAIN heap :
           /\ Places(NodesOf(stack), m) = Places(NodesOf(front), m) + Same(n, m)
           /\ Named(new, m) = Named(anchors, m) + Same(n, m)
           /\ Places(NodesOf(front), m) \in Nat /\ Named(anchors, m) \in Nat
  <2> HIDE DEF new
  <2>1. QED
    BY <1>2, <1>4, ReturnFrames
<1>7. DOMAIN stack = {1} /\ Top = stack[1] /\ front = <<>>
  <2>1. /\ front \in Seq(FrameSet(DOMAIN heap)) /\ Len(front) = Len(stack) - 1
        /\ Top = stack[Len(stack)]
    BY <1>3, <1>4, FramePopped DEF IsStack, Top
  <2>2. DOMAIN stack = 1..Len(stack)
    BY <1>3, FramesAre DEF IsStack
  <2>3. front = <<>>
    BY <1>1, <2>1, EmptySeq
  <2>4. QED
    BY <1>1, <2>1, <2>2, <2>3
<1>8. NodesOf(<<>>) = <<>>
  BY DEF NodesOf
<1> HIDE DEF n, g, new
<1>9. /\ IsHeap(g) /\ SameNodes(heap, g) /\ SameFields(heap, g) /\ OneMore(heap, g, n)
  BY <1>2, <1>3, <1>5, FinishedIs
<1>10. DOMAIN g = DOMAIN heap /\ \A m \in DOMAIN heap : g[m].ynode = heap[m].ynode
  BY <1>9 DEF SameNodes
<1>11. IsTable(g, new) /\ Tabled(g, new)
  BY <1>6, <1>10 DEF IsTable, Tabled
<1>12. IsStack(g, stack') /\ AllWait(doc, stack') /\ Marked(stack', new)
  <2>1. stack' \in Seq(FrameSet(DOMAIN g)) /\ DOMAIN stack' = {}
    BY <1>1
  <2>2. QED
    BY <2>1 DEF IsStack, AllWait, Marked
<1>13. documents' \in Seq(DOMAIN g) /\ releasing' \in Seq(DOMAIN g)
  BY <1>1, <1>3, <1>5, <1>10, AppendProperties
<1>14. Phases(phase', stack', new, releasing')
  BY <1>1 DEF Phases
<1>15. Fits'
  BY <1>1, <1>3, <1>9, <1>11, <1>12, <1>13, <1>14 DEF Fits, g, new
<1>16. ASSUME Counted, NEW m \in DOMAIN heap
       PROVE  g[m].refs = Kept(stack', new, documents', m) + Places(releasing', m) + Uses(g, m)
  <2>1. heap[m].refs = Kept(stack, anchors, documents, m) + Places(releasing, m) + Uses(heap, m)
    BY <1>16 DEF Counted, Balanced
  <2>2. g[m].refs = heap[m].refs + Same(n, m)
    BY <1>9 DEF OneMore
  <2>3. Uses(g, m) = Uses(heap, m)
    BY <1>9, <1>10, UsesSame
  <2>4. Places(documents', m) = Places(documents, m) + Same(n, m)
    BY <1>1, <1>3, <1>5, PlacesOfAppended
  <2>5. /\ Places(NodesOf(stack), m) = Places(NodesOf(front), m) + Same(n, m)
        /\ Named(new, m) = Named(anchors, m) + Same(n, m)
        /\ Places(NodesOf(front), m) \in Nat /\ Named(anchors, m) \in Nat
    BY <1>6
  <2>6. Places(NodesOf(front), m) = 0 /\ Places(NodesOf(stack'), m) = 0 /\ Places(releasing, m) = 0
    BY <1>1, <1>7, <1>8, PlacesOfNone
  <2>7. Places(documents, m) \in Nat /\ Same(n, m) \in Nat /\ Uses(heap, m) \in Nat
    <3>1. IsTree(heap, Keys)
      BY <1>3, NodeFields
    <3>2. QED
      BY <1>3, <3>1, PlacesAreFinite, PairsAreFinite DEF Same
  <2>8. releasing' = releasing
    BY <1>1
  <2>9. Kept(stack, anchors, documents, m) = Same(n, m) + Named(anchors, m) + Places(documents, m)
    BY <2>5, <2>6, <2>7 DEF Kept
  <2>10. Kept(stack', new, documents', m)
           = (Named(anchors, m) + Same(n, m)) + (Places(documents, m) + Same(n, m))
    BY <2>4, <2>5, <2>6, <2>7 DEF Kept
  <2> HIDE DEF front
  <2> DEFINE a == Named(anchors, m)
             b == Places(documents, m)
             c == Uses(heap, m)
             e == Same(n, m)
  <2>11. a \in Nat /\ b \in Nat /\ c \in Nat /\ e \in Nat
    BY <2>5, <2>7
  <2>12. heap[m].refs = (e + a + b) + 0 + c /\ g[m].refs = heap[m].refs + e
    BY <2>1, <2>2, <2>6, <2>9
  <2>13. Kept(stack', new, documents', m) = (a + e) + (b + e) /\ Uses(g, m) = c
         /\ Places(releasing', m) = 0
    BY <2>3, <2>6, <2>8, <2>10
  <2> HIDE DEF a, b, c, e
  <2>14. QED
    BY <2>11, <2>12, <2>13
<1>17. Counted => Counted'
  BY <1>10, <1>16 DEF Counted, Balanced, g, new
<1>18. QED
  BY <1>2, <1>3, <1>4, <1>5, <1>7, <1>15, <1>17 DEF g, n, new

\* A reference is dropped.
LEMMA ReleaseKeeps ==
  ASSUME Fits, Release
  PROVE  /\ Fits' /\ (Counted => Counted')
         /\ SameNodes(heap, heap') /\ SameSeals(heap, heap') /\ FieldsFreed(heap, heap')
         /\ OneLess(heap, heap', Head(releasing)) /\ LastFrees(heap, heap', Head(releasing))
         /\ ReleasedOnce(heap, releasing, heap', releasing')
         /\ releasing \in Seq(DOMAIN heap) /\ releasing # <<>>
         /\ UNCHANGED <<broken, phase, success, doc, anchors, stack, documents>>
<1> DEFINE g == heap'
           rest == releasing'
<1>1. /\ releasing # <<>>
      /\ g = UnrefFirst(heap, releasing).heap /\ rest = UnrefFirst(heap, releasing).nodes
      /\ UNCHANGED <<broken, phase, success, doc, anchors, stack, documents>>
  BY DEF Release
<1>2. /\ IsHeap(heap) /\ IsDocument(doc) /\ IsStack(heap, stack) /\ AllWait(doc, stack)
      /\ IsTable(heap, anchors) /\ Tabled(heap, anchors) /\ Marked(stack, anchors)
      /\ documents \in Seq(DOMAIN heap) /\ releasing \in Seq(DOMAIN heap)
      /\ Phases(phase, stack, anchors, releasing)
  BY DEF Fits
<1> HIDE DEF g, rest
<1>3. /\ IsHeap(g) /\ SameNodes(heap, g) /\ SameSeals(heap, g)
      /\ FieldsFreed(heap, g) /\ OneLess(heap, g, Head(releasing))
      /\ rest \in Seq(DOMAIN heap) /\ ReleasedOnce(heap, releasing, g, rest)
      /\ LastFrees(heap, g, Head(releasing))
  BY <1>1, <1>2, UnrefIs
<1>4. stack \in Seq(FrameSet(DOMAIN heap)) /\ SameFrames(stack, stack)
  BY <1>2, FramesSame DEF IsStack
<1>5. /\ IsStack(g, stack) /\ IsTable(g, anchors) /\ Tabled(g, anchors) /\ DOMAIN g = DOMAIN heap
  BY <1>2, <1>3, <1>4, PartsStay
<1>6. Phases(phase, stack, anchors, rest)
  BY <1>1, <1>2 DEF Phases
<1>7. Fits'
  BY <1>1, <1>2, <1>3, <1>5, <1>6 DEF Fits, g, rest
<1>8. ASSUME Counted, NEW m \in DOMAIN heap
      PROVE  g[m].refs = Kept(stack, anchors, documents, m) + Places(rest, m) + Uses(g, m)
  <2>1. heap[m].refs = Kept(stack, anchors, documents, m) + Places(releasing, m) + Uses(heap, m)
    BY <1>8 DEF Counted, Balanced
  <2>2. g[m].refs = heap[m].refs - Same(Head(releasing), m)
    BY <1>3 DEF OneLess
  <2>3. Places(rest, m) + Uses(g, m)
          = Places(releasing, m) + Uses(heap, m) - Same(Head(releasing), m)
    BY <1>3 DEF ReleasedOnce
  <2>4. /\ Kept(stack, anchors, documents, m) \in Nat /\ Places(releasing, m) \in Nat
        /\ Uses(heap, m) \in Nat /\ Same(Head(releasing), m) \in Nat
    BY <1>2, NumbersAre DEF Same
  <2>5. Places(rest, m) \in Nat /\ Uses(g, m) \in Nat
    <3>1. IsTree(g, Keys)
      BY <1>3, NodeFields
    <3>2. QED
      BY <1>3, <3>1, PlacesAreFinite, PairsAreFinite
  <2>6. QED
    BY <2>1, <2>2, <2>3, <2>4, <2>5
<1>9. Counted => Counted'
  BY <1>1, <1>5, <1>8 DEF Counted, Balanced, g, rest
<1>10. QED
  BY <1>1, <1>2, <1>3, <1>7, <1>9 DEF g, rest

\* The kinds of steps: the table is emptied, a node is made, a field is left out,
\* or the state stays but for the phase.
Clears ==
    /\ phase = "loading" /\ phase' \in {"converting", "destroying"} /\ IsDocument(doc')
    /\ anchors' = [y \in YNode |-> Null] /\ releasing' = MemoNodes
    /\ UNCHANGED <<stack, heap, documents>>
Pushes(y) ==
    /\ y \in YNode /\ anchors[y] = Null /\ phase = "converting" /\ releasing = <<>>
    /\ stack # <<>> => Waits(doc, Top) /\ TopField.child = y
    /\ heap' = Append(heap, Fresh(y)) /\ anchors' = [anchors EXCEPT ![y] = InProgress]
    /\ stack' = Append(stack, [ynode |-> y, node |-> Len(heap) + 1, next |-> 1])
    /\ UNCHANGED <<phase, doc, documents, releasing>>
Skips ==
    /\ stack # <<>> /\ ~Done /\ (TopField.key = Complex \/ anchors[TopField.child] = InProgress)
    /\ stack' = NextField(stack)
    /\ UNCHANGED <<phase, doc, anchors, heap, documents, releasing>>
Rests ==
    /\ phase' = phase \/ (phase = "destroying" /\ phase' = "ended" /\ releasing = <<>>)
    /\ UNCHANGED <<doc, anchors, stack, heap, documents, releasing>>

\* A step is of one of these kinds, or stores, finishes or drops something.
LEMMA StepKinds ==
  ASSUME Fits, [Next]_vars
  PROVE  \/ Clears \/ Skips \/ Rests \/ FinishDocument \/ Return \/ Release
         \/ \E y \in YNode : Pushes(y) \/ Share(y)
<1>1. CASE BeginDocument
  <2>1. IsDocument(doc')
    BY <1>1, DocumentsAre DEF BeginDocument
  <2>2. Clears
    BY <1>1, <2>1 DEF BeginDocument, Clears
  <2>3. QED
    BY <2>2
<1>2. CASE EndOfStream \/ ParseError
  <2>1. IsDocument(doc')
    BY <1>2 DEF EndOfStream, ParseError, Fits
  <2>2. Clears
    BY <1>2, <2>1 DEF EndOfStream, ParseError, Clears
  <2>3. QED
    BY <2>2
<1>3. CASE ConvertRoot
  <2>1. doc.root \in YNode /\ anchors[doc.root] = Null /\ Len(stack) = 0
    <3>1. doc.root \in YNode /\ Phases(phase, stack, anchors, releasing)
      BY DEF Fits, IsDocument
    <3>2. IsEmpty(anchors) /\ stack = <<>>
      BY <1>3, <3>1 DEF ConvertRoot, Phases
    <3>3. QED
      BY <3>1, <3>2 DEF IsEmpty
  <2> DEFINE frame == [ynode |-> doc.root, node |-> Len(heap) + 1, next |-> 1]
  <2>2. stack' = Append(stack, frame)
    <3>1. stack' = <<frame>> /\ stack = <<>>
      BY <1>3 DEF ConvertRoot
    <3> HIDE DEF frame
    <3>2. QED
      BY <3>1
  <2>3. Pushes(doc.root)
    BY <1>3, <2>1, <2>2 DEF ConvertRoot, Pushes
  <2>4. QED
    BY <2>1, <2>3
<1>4. CASE ParseEnd
  <2>1. Rests
    BY <1>4 DEF ParseEnd, Rests
  <2>2. QED
    BY <2>1
<1>5. CASE SkipPair
  <2>1. Skips
    BY <1>5 DEF SkipPair, Skips
  <2>2. QED
    BY <2>1
<1>6. ASSUME NEW y \in YNode, RefuseCycle(y)
      PROVE  Skips
  BY <1>6 DEF RefuseCycle, AtField, Skips
<1>7. ASSUME NEW y \in YNode, Descend(y)
      PROVE  Pushes(y)
  <2>1. /\ stack # <<>> /\ releasing = <<>> /\ ~Done /\ TopField.key # Complex
        /\ TopField.child = y /\ anchors[y] = Null
    BY <1>7 DEF Descend, AtField
  <2>2. /\ phase = "converting" /\ Top.next \in DOMAIN doc.fields[Top.ynode]
        /\ TopField.key \in Keys \cup {Complex}
    BY <2>1, TopIs
  <2>3. Waits(doc, Top)
    BY <2>1, <2>2 DEF Waits, TopField
  <2>4. QED
    BY <1>7, <2>1, <2>2, <2>3 DEF Descend, Pushes
<1>8. CASE UNCHANGED vars
  <2>1. Rests
    BY <1>8 DEF vars, Rests
  <2>2. QED
    BY <2>1
<1>9. QED
  BY <1>1, <1>2, <1>3, <1>4, <1>5, <1>6, <1>7, <1>8 DEF Next

\* Every step keeps the shapes and the counters.
LEMMA StepFits ==
  ASSUME Fits, [Next]_vars
  PROVE  Fits' /\ (Counted => Counted')
<1>1. CASE Clears
  BY <1>1, ClearKeeps DEF Clears
<1>2. ASSUME NEW y \in YNode, Pushes(y)
      PROVE  Fits' /\ (Counted => Counted')
  BY <1>2, PushKeeps DEF Pushes
<1>3. CASE Skips
  BY <1>3, SkipKeeps DEF Skips
<1>4. CASE Rests
  <2>1. phase' = phase \/ (phase' = "ended" /\ releasing = <<>> /\ phase = "destroying")
    BY <1>4 DEF Rests
  <2>2. Phases(phase', stack, anchors, releasing)
    BY <2>1 DEF Fits, Phases
  <2>3. UNCHANGED <<doc, anchors, stack, heap, documents, releasing>>
    BY <1>4 DEF Rests
  <2>4. QED
    BY <2>2, <2>3 DEF Fits, Counted
<1>5. CASE FinishDocument
  BY <1>5, FinishKeeps
<1>6. CASE Return
  BY <1>6, ReturnKeeps
<1>7. CASE Release
  BY <1>7, ReleaseKeeps
<1>8. ASSUME NEW y \in YNode, Share(y)
      PROVE  Fits' /\ (Counted => Counted')
  BY <1>8, ShareKeeps
<1>9. QED
  BY <1>1, <1>2, <1>3, <1>4, <1>5, <1>6, <1>7, <1>8, StepKinds

\* The counters are exact.
LEMMA CountedIs == Fits /\ Counted => RefsExact
<1> SUFFICES ASSUME Fits, Counted, NEW n \in YamlNode PROVE heap[n].refs = References(n)
  BY DEF RefsExact
<1>1. heap[n].refs = Kept(stack, anchors, documents, n) + Places(releasing, n) + Uses(heap, n)
  BY DEF Counted, Balanced, YamlNode
<1>2. /\ Places(NodesOf(stack), n) \in Nat /\ Named(anchors, n) \in Nat
      /\ Places(documents, n) \in Nat /\ Places(releasing, n) \in Nat /\ Uses(heap, n) \in Nat
  BY NumbersAre DEF Fits
<1>3. Places(NodesOf(stack), n) = Cardinality({i \in DOMAIN stack : stack[i].node = n})
  <2>1. {i \in DOMAIN NodesOf(stack) : NodesOf(stack)[i] = n}
          = {i \in DOMAIN stack : stack[i].node = n}
    BY DEF NodesOf
  <2>2. QED
    BY <2>1 DEF Places
<1> DEFINE a == Places(NodesOf(stack), n)
           b == Named(anchors, n)
           c == Places(documents, n)
           d == Places(releasing, n)
           e == Uses(heap, n)
<1>4. heap[n].refs = (a + b + c) + d + e
  BY <1>1 DEF Kept
<1>5. References(n) = (((e + b) + a) + c) + d
  BY <1>3 DEF References, Named
<1>6. a \in Nat /\ b \in Nat /\ c \in Nat /\ d \in Nat /\ e \in Nat
  BY <1>2
<1> HIDE DEF a, b, c, d, e
<1>7. QED
  BY <1>4, <1>5, <1>6

\* Every reference the conversion takes - for the caller, for the table, for the
\* container - is dropped exactly once, whatever is shared, refused or replaced.
THEOREM ConvertRefsExact == Spec => []RefsExact
<1> DEFINE Inv == Fits /\ Counted
<1>1. Init => Inv
  BY InitFits
<1>2. Inv /\ [Next]_vars => Inv'
  BY StepFits
<1>3. Inv => RefsExact
  BY CountedIs
<1> HIDE DEF Inv
<1>4. QED
  BY <1>1, <1>2, <1>3, PTL DEF Spec

-----------------------------------------------------------------------------
(* Where nodes come from.  A node has the number of its document; the      *)
(* nodes of the document that is being converted are in the table or on    *)
(* the stack, so a libyaml node that is not in the table has none yet.     *)

Current(h, docs, n) == h[n].document = Len(docs) + 1
OnStack(frames, n)  == \E i \in DOMAIN frames : frames[i].node = n

Dated(h, frames, docs) ==
    \A n \in DOMAIN h : /\ h[n].document <= Len(docs) + 1
                        /\ Current(h, docs, n) => frames # <<>>
Held(h, frames, table, docs) ==
    \A n \in DOMAIN h : Current(h, docs, n) => table[h[n].ynode] = n \/ OnStack(frames, n)
Young(h, frames, table, docs) ==
    /\ frames # <<>> => \A y \in YNode : table[y] \in DOMAIN h => Current(h, docs, table[y])
    /\ \A n : OnStack(frames, n) => Current(h, docs, n)

Within(h) ==
    \A n \in DOMAIN h : \A i \in DOMAIN h[n].fields :
      h[h[n].fields[i].child].document = h[n].document
Rooted(h, docs) == \A i \in DOMAIN docs : h[docs[i]].document = i
Once(h) ==
    \A m, n \in DOMAIN h : h[m].document = h[n].document /\ h[m].ynode = h[n].ynode => m = n

Origin ==
    /\ Dated(heap, stack, documents) /\ Held(heap, stack, anchors, documents)
    /\ Young(heap, stack, anchors, documents)
    /\ Within(heap) /\ Rooted(heap, documents) /\ Once(heap)

\* A node x is stored in p, which is on the stack.
Stores(p, x) ==
    /\ p \in DOMAIN heap /\ x \in DOMAIN heap /\ p # x
    /\ OnStack(stack, p) /\ ~OnStack(stack', x)
    /\ \A n : OnStack(stack', n) => OnStack(stack, n)
    /\ OnStack(stack, x) \/ \E y \in YNode : anchors[y] = x
    /\ SameNodes(heap, heap') /\ SameSeals(heap, heap') /\ OneMore(heap, heap', x)
    /\ AddsOnly(heap, heap', p, x) /\ SameFieldsBut(heap, heap', p)
    /\ stack # <<>> /\ stack' # <<>> /\ UNCHANGED documents

\* What a node that is stored changes.
LEMMA StoreAdds ==
  ASSUME NEW h, IsHeap(h), NEW n \in DOMAIN h, NEW p \in DOMAIN h, NEW key \in Keys,
         NEW g, g = StoredAt(h, p, key, n)
  PROVE  /\ SameNodes(h, g) /\ SameSeals(h, g) /\ OneMore(h, g, n)
         /\ AddsOnly(h, g, p, n) /\ SameFieldsBut(h, g, p)
<1>1. /\ IsHeap(g) /\ SameNodes(h, g) /\ SameSeals(h, g) /\ OneMore(h, g, n)
      /\ SameFieldsBut(h, g, p) /\ g[p].fields = Stored(h[p].fields, key, n)
  BY NodeStoredIs
<1>2. DOMAIN g = DOMAIN h
  BY <1>1 DEF SameNodes
<1>3. NothingElse(h[p].fields, key, n)
  <2>1. h[p].fields \in Seq([key : Keys, child : DOMAIN h]) /\ OnceNamed(h[p].fields)
    BY NodeFields
  <2>2. QED
    BY <2>1, StoredIs
<1>4. AddsOnly(h, g, p, n)
  <2> SUFFICES ASSUME NEW m \in DOMAIN h, NEW i \in DOMAIN g[m].fields
               PROVE  \/ \E j \in DOMAIN h[m].fields : g[m].fields[i].child = h[m].fields[j].child
                      \/ m = p /\ g[m].fields[i].child = n
    BY <1>2 DEF AddsOnly
  <2>1. CASE m # p
    <3>1. g[m].fields = h[m].fields
      BY <1>1, <2>1 DEF SameFieldsBut
    <3>2. QED
      BY <3>1
  <2>2. CASE m = p
    BY <1>1, <1>3, <2>2 DEF NothingElse
  <2>3. QED
    BY <2>1, <2>2
<1>5. QED
  BY <1>1, <1>4

\* A converted node that is met again is stored, and it is not on the stack.
LEMMA ShareStores ==
  ASSUME Fits, NEW y \in YNode, Share(y)
  PROVE  Stores(Top.node, anchors[y]) /\ UNCHANGED anchors
<1> DEFINE n == anchors[y]
           p == Top.node
           key == TopField.key
           g == heap'
<1>1. /\ stack # <<>> /\ ~Done /\ key # Complex /\ n \in DOMAIN heap
      /\ stack' = NextField(stack) /\ UNCHANGED <<anchors, documents>>
  BY DEF Share, AtField, YamlNode
<1>2. g = StoredAt(heap, p, key, n)
  BY DEF Share, StoredAt
<1>3. /\ IsHeap(heap) /\ IsStack(heap, stack) /\ Tabled(heap, anchors) /\ Marked(stack, anchors)
      /\ stack \in Seq(FrameSet(DOMAIN heap))
  BY DEF Fits, IsStack
<1>4. p \in DOMAIN heap /\ key \in Keys /\ OnStack(stack, p)
  <2>1. /\ p \in DOMAIN heap /\ key \in Keys \cup {Complex}
        /\ Top = stack[Len(stack)] /\ Len(stack) \in DOMAIN stack
    BY <1>1, TopIs
  <2>2. QED
    BY <1>1, <2>1 DEF OnStack
<1>5. ~OnStack(stack, n)
  <2> SUFFICES ASSUME NEW i \in DOMAIN stack, stack[i].node = n PROVE FALSE
    BY DEF OnStack
  <2>1. stack[i].ynode = heap[n].ynode /\ heap[n].ynode = y
    BY <1>1, <1>3 DEF IsStack, Tabled
  <2>2. n = InProgress
    BY <1>3, <2>1 DEF Marked
  <2>3. QED
    BY <1>1, <1>3, <2>2, NodesAreNumbers
<1> HIDE DEF g, n, p, key
<1>6. /\ SameNodes(heap, g) /\ SameSeals(heap, g) /\ OneMore(heap, g, n)
      /\ AddsOnly(heap, g, p, n) /\ SameFieldsBut(heap, g, p)
  BY <1>1, <1>2, <1>3, <1>4, StoreAdds
<1>7. SameFrames(stack, stack') /\ stack' # <<>>
  BY <1>1, <1>3, NextFieldIs
<1>8. \A m : OnStack(stack', m) => OnStack(stack, m)
  BY <1>7 DEF OnStack, SameFrames
<1>9. p # n
  BY <1>4, <1>5
<1>10. \E z \in YNode : anchors[z] = n
  BY DEF n
<1>11. Stores(p, n)
  BY <1>1, <1>4, <1>5, <1>6, <1>7, <1>8, <1>9, <1>10 DEF Stores, g
<1>12. QED
  BY <1>1, <1>11 DEF n, p

\* A node that is converted is stored, and it leaves the stack.
LEMMA ReturnStores ==
  ASSUME Fits, Return
  PROVE  /\ Stores(Caller.node, Top.node)
         /\ \A n : OnStack(stack, n) => n = Top.node \/ OnStack(stack', n)
         /\ anchors' = Entered(anchors, Top.ynode, Top.node)
         /\ Top.ynode \in YNode /\ heap[Top.node].ynode = Top.ynode
         /\ anchors[Top.ynode] = InProgress
<1> DEFINE n == Top.node
           p == Caller.node
           key == CallerKey
           g == heap'
           front == Front(stack)
           k == Len(stack)
<1>1. /\ k > 1 /\ stack' = NextField(front) /\ UNCHANGED documents
  BY DEF Return
<1>2. /\ g = StoredAt(heap, p, key, n) /\ p \in DOMAIN heap /\ key \in Keys /\ n \in DOMAIN heap
      /\ Caller.ynode # Top.ynode /\ anchors' = Entered(anchors, Top.ynode, n)
  BY ReturnKeeps
<1>3. /\ IsHeap(heap) /\ IsStack(heap, stack) /\ Marked(stack, anchors)
      /\ stack \in Seq(FrameSet(DOMAIN heap))
  BY DEF Fits, IsStack
<1>4. stack # <<>>
  BY <1>1
<1>5. /\ k \in Nat \ {0} /\ front \in Seq(FrameSet(DOMAIN heap)) /\ DOMAIN front = 1..(k - 1)
      /\ \A i \in 1..(k - 1) : front[i] = stack[i] /\ i \in DOMAIN stack
      /\ Len(front) = k - 1 /\ Top = stack[k] /\ k \in DOMAIN stack
  BY <1>3, <1>4, FramePopped DEF Top
<1>6. DOMAIN stack = 1..k
  BY <1>3, FramesAre
<1>7. Top.ynode \in YNode /\ heap[n].ynode = Top.ynode /\ anchors[Top.ynode] = InProgress
  <2>1. Top.ynode \in YNode /\ heap[n].ynode = Top.ynode
    BY <1>4, TopIs
  <2>2. anchors[Top.ynode] = InProgress
    BY <1>3, <1>5 DEF Marked
  <2>3. QED
    BY <2>1, <2>2
<1>8. front # <<>>
  <2>1. Len(<<>>) = 0
    OBVIOUS
  <2>2. QED
    BY <1>1, <1>5, <2>1
<1> HIDE DEF g, key, front
<1>9. SameFrames(front, stack') /\ stack' # <<>>
  BY <1>1, <1>5, <1>8, NextFieldIs
<1>10. \A m : OnStack(stack', m) <=> \E i \in 1..(k - 1) : stack[i].node = m
  BY <1>5, <1>9 DEF OnStack, SameFrames
<1>11. \A m : OnStack(stack', m) => OnStack(stack, m)
  BY <1>5, <1>10 DEF OnStack
<1>12. \A m : OnStack(stack, m) => m = n \/ OnStack(stack', m)
  <2> SUFFICES ASSUME NEW m, NEW i \in DOMAIN stack, stack[i].node = m, m # n
               PROVE  OnStack(stack', m)
    BY DEF OnStack
  <2>1. i # k
    BY <1>5
  <2>2. i \in 1..(k - 1)
    BY <1>5, <1>6, <2>1
  <2>3. QED
    BY <1>10, <2>2
<1>13. ~OnStack(stack', n)
  <2> SUFFICES ASSUME NEW i \in 1..(k - 1), stack[i].node = n PROVE FALSE
    BY <1>10
  <2>1. i \in DOMAIN stack /\ i # k
    BY <1>5
  <2>2. stack[i].ynode = Top.ynode
    BY <1>3, <1>7, <2>1 DEF IsStack
  <2>3. QED
    BY <1>3, <1>5, <2>1, <2>2 DEF IsStack
<1>14. OnStack(stack, n) /\ OnStack(stack, p)
  <2>1. OnStack(stack, n)
    BY <1>5 DEF OnStack
  <2>2. k - 1 \in 1..(k - 1) /\ Caller = stack[k - 1]
    BY <1>1, <1>5 DEF Caller
  <2>3. QED
    BY <1>5, <2>1, <2>2 DEF OnStack
<1>15. p # n
  <2>1. k - 1 \in 1..(k - 1) /\ Caller = stack[k - 1]
    BY <1>1, <1>5 DEF Caller
  <2>2. OnStack(stack', p)
    BY <1>10, <2>1
  <2>3. QED
    BY <1>13, <2>2
<1> HIDE DEF n, p, k
<1>16. /\ SameNodes(heap, g) /\ SameSeals(heap, g) /\ OneMore(heap, g, n)
       /\ AddsOnly(heap, g, p, n) /\ SameFieldsBut(heap, g, p)
  BY <1>2, <1>3, StoreAdds
<1>17. Stores(p, n)
  BY <1>1, <1>2, <1>4, <1>9, <1>11, <1>13, <1>14, <1>15, <1>16 DEF Stores, g
<1>18. QED
  BY <1>2, <1>7, <1>12, <1>17 DEF n, p

\* It begins with no nodes.
LEMMA InitOrigin == Init => Origin
<1> SUFFICES ASSUME Init PROVE Origin
  OBVIOUS
<1>1. DOMAIN heap = {} /\ DOMAIN stack = {} /\ DOMAIN documents = {} /\ stack = <<>>
  BY DEF Init
<1>2. /\ Dated(heap, stack, documents) /\ Held(heap, stack, anchors, documents)
      /\ Within(heap) /\ Rooted(heap, documents) /\ Once(heap)
  BY <1>1 DEF Dated, Held, Within, Rooted, Once
<1>3. Young(heap, stack, anchors, documents)
  BY <1>1 DEF Young, OnStack
<1>4. QED
  BY <1>2, <1>3 DEF Origin

\* When a node is stored.
LEMMA OriginStored ==
  ASSUME Fits, Origin, NEW p, NEW x, Stores(p, x)
  PROVE  /\ Dated(heap', stack', documents') /\ Within(heap') /\ Rooted(heap', documents')
         /\ Once(heap') /\ DOMAIN heap' = DOMAIN heap
         /\ \A n \in DOMAIN heap : /\ Current(heap', documents', n) <=> Current(heap, documents, n)
                                   /\ heap'[n].ynode = heap[n].ynode
         /\ Current(heap, documents, p) /\ Current(heap, documents, x)
<1>1. /\ p \in DOMAIN heap /\ x \in DOMAIN heap /\ documents' = documents
      /\ SameNodes(heap, heap') /\ AddsOnly(heap, heap', p, x)
      /\ stack # <<>> /\ stack' # <<>>
  BY DEF Stores
<1>2. /\ DOMAIN heap' = DOMAIN heap
      /\ \A m \in DOMAIN heap : heap'[m].document = heap[m].document
                                 /\ heap'[m].ynode = heap[m].ynode
  BY <1>1 DEF SameNodes
<1>3. Current(heap, documents, p)
  BY DEF Stores, Origin, Young
<1>4. Current(heap, documents, x)
  <2>1. CASE OnStack(stack, x)
    BY <2>1 DEF Origin, Young
  <2>2. CASE \E y \in YNode : anchors[y] = x
    BY <1>1, <2>2 DEF Origin, Young
  <2>3. QED
    BY <2>1, <2>2 DEF Stores
<1>5. \A i \in DOMAIN documents : documents[i] \in DOMAIN heap
  <2>1. documents \in Seq(DOMAIN heap)
    BY DEF Fits
  <2>2. DOMAIN documents = 1..Len(documents)
    BY <2>1, LenProperties
  <2>3. QED
    BY <2>1, <2>2, ElementOfSeq
<1>6. /\ Once(heap') /\ Rooted(heap', documents)
      /\ \A n \in DOMAIN heap : Current(heap', documents, n) <=> Current(heap, documents, n)
  BY <1>2, <1>5 DEF Once, Rooted, Current, Origin
<1>7. Dated(heap', stack', documents)
  BY <1>1, <1>2, <1>6 DEF Dated, Origin
<1>8. Within(heap')
  <2> SUFFICES ASSUME NEW n \in DOMAIN heap, NEW i \in DOMAIN heap'[n].fields
               PROVE  heap'[heap'[n].fields[i].child].document = heap'[n].document
    BY <1>2 DEF Within
  <2>1. CASE \E j \in DOMAIN heap[n].fields : heap'[n].fields[i].child = heap[n].fields[j].child
    <3>1. PICK j \in DOMAIN heap[n].fields : heap'[n].fields[i].child = heap[n].fields[j].child
      BY <2>1
    <3>2. heap[heap[n].fields[j].child].document = heap[n].document
      BY DEF Origin, Within
    <3>3. heap[n].fields[j].child \in DOMAIN heap
      <4>1. IsTree(heap, Keys)
        BY NodeFields DEF Fits
      <4>2. heap[n].fields[j] \in [key : Keys, child : DOMAIN heap]
        BY <4>1, FieldsAre
      <4>3. QED
        BY <4>2
    <3>4. QED
      BY <1>2, <3>1, <3>2, <3>3
  <2>2. CASE n = p /\ heap'[n].fields[i].child = x
    BY <1>1, <1>2, <1>3, <1>4, <2>2 DEF Current
  <2>3. QED
    BY <1>1, <2>1, <2>2 DEF AddsOnly
<1>9. QED
  BY <1>1, <1>2, <1>3, <1>4, <1>6, <1>7, <1>8

\* When a converted node is met again.
LEMMA OriginShared ==
  ASSUME Fits, Origin, NEW y \in YNode, Share(y)
  PROVE  Origin'
<1> DEFINE p == Top.node
           x == anchors[y]
<1>1. Stores(p, x) /\ anchors' = anchors
  BY ShareStores
<1> HIDE DEF p, x
<1>2. /\ Dated(heap', stack', documents') /\ Within(heap') /\ Rooted(heap', documents')
      /\ Once(heap') /\ DOMAIN heap' = DOMAIN heap
      /\ \A n \in DOMAIN heap : /\ Current(heap', documents', n) <=> Current(heap, documents, n)
                                /\ heap'[n].ynode = heap[n].ynode
  BY <1>1, OriginStored
<1>3. stack # <<>> /\ stack' = NextField(stack) /\ stack \in Seq(FrameSet(DOMAIN heap))
  BY DEF Share, AtField, Fits, IsStack
<1>4. \A n : OnStack(stack', n) <=> OnStack(stack, n)
  <2>1. SameFrames(stack, stack')
    BY <1>3, NextFieldIs
  <2>2. QED
    BY <2>1 DEF OnStack, SameFrames
<1>5. Held(heap', stack', anchors', documents')
  BY <1>1, <1>2, <1>4 DEF Held, Origin
<1>6. Young(heap', stack', anchors', documents')
  <2>1. \A n : OnStack(stack, n) => n \in DOMAIN heap
    BY <1>3, FramesAre DEF OnStack
  <2>2. QED
    BY <1>1, <1>2, <1>3, <1>4, <2>1 DEF Young, Origin
<1>7. QED
  BY <1>2, <1>5, <1>6 DEF Origin

\* When a node is converted.
LEMMA OriginReturned ==
  ASSUME Fits, Origin, Return
  PROVE  Origin'
<1> DEFINE p == Caller.node
           x == Top.node
           z == Top.ynode
           new == anchors'
           after == stack'
<1>1. /\ Stores(p, x) /\ \A n : OnStack(stack, n) => n = x \/ OnStack(after, n)
      /\ new = Entered(anchors, z, x) /\ z \in YNode /\ heap[x].ynode = z
      /\ anchors[z] = InProgress
  BY ReturnStores
<1>2. /\ IsHeap(heap) /\ anchors \in [YNode -> DOMAIN heap \cup {Null, InProgress}]
      /\ stack \in Seq(FrameSet(DOMAIN heap))
  BY DEF Fits, IsTable, IsStack
<1>3. \A y \in YNode : new[y] = IF y = z THEN x ELSE anchors[y]
  BY <1>1, <1>2 DEF Entered
<1> HIDE DEF p, x, z, new
<1>4. /\ Dated(heap', stack', documents') /\ Within(heap') /\ Rooted(heap', documents')
      /\ Once(heap') /\ DOMAIN heap' = DOMAIN heap
      /\ \A n \in DOMAIN heap : /\ Current(heap', documents', n) <=> Current(heap, documents, n)
                                /\ heap'[n].ynode = heap[n].ynode
      /\ Current(heap, documents, x)
  BY <1>1, OriginStored
<1>5. x \in DOMAIN heap /\ stack # <<>> /\ \A n : OnStack(after, n) => OnStack(stack, n)
  BY <1>1 DEF Stores, after
<1>6. Held(heap', after, new, documents')
  <2> SUFFICES ASSUME NEW n \in DOMAIN heap, Current(heap, documents, n)
               PROVE  new[heap[n].ynode] = n \/ OnStack(after, n)
    BY <1>4 DEF Held
  <2>1. heap[n].ynode \in YNode
    BY <1>2, NodeFields
  <2>2. anchors[heap[n].ynode] = n \/ OnStack(stack, n)
    BY DEF Origin, Held
  <2>3. CASE n = x
    BY <1>1, <1>3, <2>3
  <2>4. CASE anchors[heap[n].ynode] = n
    <3>1. heap[n].ynode # z
      BY <1>1, <1>2, <2>4, NodesAreNumbers
    <3>2. QED
      BY <1>3, <2>1, <2>4, <3>1
  <2>5. QED
    BY <1>1, <2>2, <2>3, <2>4
<1>7. Young(heap', after, new, documents')
  <2>1. \A n : OnStack(after, n) => Current(heap', documents', n)
    <3>1. \A n : OnStack(stack, n) => n \in DOMAIN heap
      BY <1>2, FramesAre DEF OnStack
    <3>2. QED
      BY <1>4, <1>5, <3>1 DEF Origin, Young
  <2>2. ASSUME NEW y \in YNode, new[y] \in DOMAIN heap
        PROVE  Current(heap', documents', new[y])
    <3>1. CASE y = z
      BY <1>3, <1>4, <1>5, <3>1
    <3>2. CASE y # z
      <4>1. new[y] = anchors[y] /\ anchors[y] \in DOMAIN heap
        BY <1>3, <2>2, <3>2
      <4>2. Current(heap, documents, anchors[y])
        BY <1>5, <4>1 DEF Origin, Young
      <4>3. QED
        BY <1>4, <4>1, <4>2
    <3>3. QED
      BY <3>1, <3>2
  <2>3. QED
    BY <1>4, <2>1, <2>2 DEF Young
<1>8. QED
  BY <1>4, <1>6, <1>7 DEF Origin, new, after

\* What there is of the stack and of the documents, and of what a node contains, is
\* in the heap.
LEMMA PartsAreNodes ==
  ASSUME Fits
  PROVE  /\ \A n : OnStack(stack, n) => n \in DOMAIN heap
         /\ \A i \in DOMAIN documents : documents[i] \in DOMAIN heap
         /\ Len(documents) \in Nat /\ DOMAIN documents = 1..Len(documents)
         /\ \A n \in DOMAIN heap : \A i \in DOMAIN heap[n].fields :
              heap[n].fields[i].child \in DOMAIN heap
<1>1. stack \in Seq(FrameSet(DOMAIN heap)) /\ documents \in Seq(DOMAIN heap) /\ IsTree(heap, Keys)
  BY NodeFields DEF Fits, IsStack
<1>2. \A n : OnStack(stack, n) => n \in DOMAIN heap
  BY <1>1, FramesAre DEF OnStack
<1>3. Len(documents) \in Nat /\ DOMAIN documents = 1..Len(documents)
  BY <1>1, LenProperties
<1>4. \A i \in DOMAIN documents : documents[i] \in DOMAIN heap
  BY <1>1, <1>3, ElementOfSeq
<1>5. ASSUME NEW n \in DOMAIN heap, NEW i \in DOMAIN heap[n].fields
      PROVE  heap[n].fields[i].child \in DOMAIN heap
  <2>1. heap[n].fields[i] \in [key : Keys, child : DOMAIN heap]
    BY <1>1, FieldsAre
  <2>2. QED
    BY <2>1
<1>6. QED
  BY <1>2, <1>3, <1>4, <1>5

\* The new node on the stack.
LEMMA PushedOn ==
  ASSUME Fits, NEW y \in YNode, Pushes(y)
  PROVE  /\ Grown(heap, heap', y) /\ stack' # <<>>
         /\ \A n : OnStack(stack', n) <=> OnStack(stack, n) \/ n = Len(heap) + 1
         /\ \A z \in YNode : anchors'[z] = IF z = y THEN InProgress ELSE anchors[z]
         /\ anchors[y] = Null /\ UNCHANGED documents
<1>1. Grown(heap, heap', y)
  BY PushKeeps DEF Pushes
<1>2. stack' # <<>> /\ \A n : OnStack(stack', n) <=> OnStack(stack, n) \/ n = Len(heap) + 1
  <2> DEFINE frame == [ynode |-> y, node |-> Len(heap) + 1, next |-> 1]
             E == DOMAIN heap'
             new == stack'
             k == Len(stack)
  <2>1. new = Append(stack, frame)
    BY DEF Pushes
  <2>2. DOMAIN heap \subseteq E /\ Len(heap) + 1 \in E
    BY <1>1 DEF Grown
  <2>3. FrameSet(DOMAIN heap) \subseteq FrameSet(E)
    BY <2>2 DEF FrameSet
  <2>4. stack \in Seq(FrameSet(E))
    BY <2>3, SeqMonotonic DEF Fits, IsStack
  <2>5. frame \in FrameSet(E) /\ frame.node = Len(heap) + 1
    BY <2>2 DEF FrameSet
  <2> HIDE DEF frame, E, new
  <2>6. FrameOn(stack, new, frame)
    BY <2>1, <2>4, <2>5, FramePushed
  <2>7. k \in Nat /\ DOMAIN stack = 1..k
    BY <2>4, FramesAre
  <2>8. /\ new # <<>> /\ DOMAIN new = 1..(k + 1) /\ \A i \in 1..k : new[i] = stack[i]
        /\ new[k + 1] = frame
    BY <2>6, <2>7 DEF FrameOn
  <2> HIDE DEF k
  <2>9. \A i : i \in 1..(k + 1) <=> i \in 1..k \/ i = k + 1
    BY <2>7 DEF k
  <2>10. QED
    BY <2>5, <2>7, <2>8, <2>9 DEF OnStack, new
<1>3. \A z \in YNode : anchors'[z] = IF z = y THEN InProgress ELSE anchors[z]
  BY DEF Pushes, Fits, IsTable
<1>4. QED
  BY <1>1, <1>2, <1>3 DEF Pushes

\* When a node is made.
LEMMA OriginPushed ==
  ASSUME Fits, Origin, NEW y \in YNode, Pushes(y)
  PROVE  Origin'
<1> DEFINE k == Len(heap) + 1
           D == DOMAIN heap
<1>1. /\ DOMAIN heap' = D \cup {k} /\ k \notin D
      /\ \A m \in D : heap'[m] = heap[m]
      /\ heap'[k] = Fresh(y) /\ stack' # <<>>
      /\ \A n : OnStack(stack', n) <=> OnStack(stack, n) \/ n = k
      /\ \A z \in YNode : anchors'[z] = IF z = y THEN InProgress ELSE anchors[z]
      /\ anchors[y] = Null /\ documents' = documents
  BY PushedOn DEF Grown
<1>2. /\ \A n : OnStack(stack, n) => n \in D
      /\ \A i \in DOMAIN documents : documents[i] \in D
      /\ Len(documents) \in Nat
      /\ \A n \in D : \A i \in DOMAIN heap[n].fields : heap[n].fields[i].child \in D
  BY PartsAreNodes
<1>3. /\ Null \notin D /\ InProgress \notin D /\ Null # InProgress
      /\ InProgress \notin DOMAIN heap' /\ Null \notin DOMAIN heap'
      /\ \A n \in D : heap[n].ynode \in YNode
  <2>1. IsHeap(heap) /\ IsHeap(heap')
    BY PushKeeps DEF Pushes, Fits
  <2>2. QED
    BY <2>1, NodesAreNumbers, NodeFields, ConvertAssumption
<1>4. heap'[k].document = Len(documents) + 1 /\ heap'[k].ynode = y /\ heap'[k].fields = <<>>
  BY <1>1 DEF Fresh
<1>5. /\ Current(heap', documents, k)
      /\ \A n \in D : Current(heap', documents, n) <=> Current(heap, documents, n)
  BY <1>1, <1>4 DEF Current
<1> HIDE DEF D, k
<1>6. ASSUME NEW n \in D, Current(heap, documents, n)
      PROVE  heap[n].ynode # y
  <2>1. CASE anchors[heap[n].ynode] = n
    BY <1>1, <1>3, <2>1
  <2>2. CASE OnStack(stack, n)
    <3>1. PICK i \in DOMAIN stack : stack[i].node = n
      BY <2>2 DEF OnStack
    <3>2. heap[n].ynode = stack[i].ynode /\ anchors[stack[i].ynode] = InProgress
      BY <3>1 DEF Fits, IsStack, Marked
    <3>3. QED
      BY <1>1, <1>3, <3>2
  <2>3. QED
    BY <1>6, <2>1, <2>2 DEF Origin, Held, D
<1>7. Dated(heap', stack', documents)
  <2>1. \A n \in D : heap'[n].document <= Len(documents) + 1
    BY <1>1 DEF Origin, Dated, D
  <2>2. heap'[k].document <= Len(documents) + 1
    BY <1>2, <1>4
  <2>3. QED
    BY <1>1, <2>1, <2>2 DEF Dated
<1>8. Held(heap', stack', anchors', documents)
  <2> SUFFICES ASSUME NEW n \in D \cup {k}, Current(heap', documents, n)
               PROVE  anchors'[heap'[n].ynode] = n \/ OnStack(stack', n)
    BY <1>1 DEF Held
  <2>1. CASE n = k
    BY <1>1, <2>1
  <2>2. CASE n \in D
    <3>1. Current(heap, documents, n) /\ heap'[n].ynode = heap[n].ynode
      BY <1>1, <1>5, <2>2
    <3>2. heap[n].ynode # y /\ heap[n].ynode \in YNode
      BY <1>3, <1>6, <2>2, <3>1
    <3>3. anchors[heap[n].ynode] = n \/ OnStack(stack, n)
      BY <2>2, <3>1 DEF Origin, Held, D
    <3>4. QED
      BY <1>1, <3>1, <3>2, <3>3
  <2>3. QED
    BY <2>1, <2>2
<1>9. Young(heap', stack', anchors', documents)
  <2>1. \A n : OnStack(stack', n) => Current(heap', documents, n)
    BY <1>1, <1>2, <1>5 DEF Origin, Young
  <2>2. ASSUME NEW z \in YNode, anchors'[z] \in D \cup {k}
        PROVE  Current(heap', documents, anchors'[z])
    <3>1. z # y /\ anchors'[z] = anchors[z]
      BY <1>1, <1>3, <2>2
    <3>2. anchors[z] # k
      <4>1. anchors[z] \in D \cup {Null, InProgress}
        BY DEF Fits, IsTable, D
      <4>2. QED
        BY <1>1, <1>3, <4>1
    <3>3. anchors[z] \in D
      BY <2>2, <3>1, <3>2
    <3>4. Current(heap, documents, anchors[z])
      <4>1. stack # <<>>
        <5>1. CASE stack = <<>>
          <6>1. IsEmpty(anchors)
            BY <5>1 DEF Fits, Phases, Pushes
          <6>2. QED
            BY <1>3, <3>3, <6>1 DEF IsEmpty
        <5>2. QED
          BY <5>1
      <4>2. QED
        BY <3>3, <4>1 DEF Origin, Young, D
    <3>5. QED
      BY <1>5, <3>1, <3>3, <3>4
  <2>3. QED
    BY <1>1, <2>1, <2>2 DEF Young
<1>10. Within(heap')
  <2> SUFFICES ASSUME NEW n \in D \cup {k}, NEW i \in DOMAIN heap'[n].fields
               PROVE  heap'[heap'[n].fields[i].child].document = heap'[n].document
    BY <1>1 DEF Within
  <2>1. CASE n = k
    <3>1. DOMAIN heap'[n].fields = {}
      BY <1>4, <2>1
    <3>2. QED
      BY <3>1
  <2>2. CASE n \in D
    <3>1. heap'[n] = heap[n] /\ heap[n].fields[i].child \in D
      BY <1>1, <1>2, <2>2
    <3>2. heap[heap[n].fields[i].child].document = heap[n].document
      BY <2>2, <3>1 DEF Origin, Within, D
    <3>3. QED
      BY <1>1, <3>1, <3>2
  <2>3. QED
    BY <2>1, <2>2
<1>11. Rooted(heap', documents)
  BY <1>1, <1>2 DEF Rooted, Origin
<1>12. Once(heap')
  <2> SUFFICES ASSUME NEW m \in D \cup {k}, NEW n \in D \cup {k},
                      heap'[m].document = heap'[n].document, heap'[m].ynode = heap'[n].ynode
               PROVE  m = n
    BY <1>1 DEF Once
  <2>1. CASE m \in D /\ n \in D
    BY <1>1, <2>1 DEF Origin, Once, D
  <2>2. CASE m = k /\ n \in D
    BY <1>1, <1>4, <1>6, <2>2 DEF Current
  <2>3. CASE m \in D /\ n = k
    BY <1>1, <1>4, <1>6, <2>3 DEF Current
  <2>4. QED
    BY <2>1, <2>2, <2>3
<1>13. QED
  BY <1>1, <1>7, <1>8, <1>9, <1>10, <1>11, <1>12 DEF Origin

\* When a document is finished.
LEMMA OriginFinished ==
  ASSUME Fits, Origin, FinishDocument
  PROVE  Origin'
<1> DEFINE n == Top.node
           k == Len(documents)
<1>1. /\ n \in DOMAIN heap /\ heap' = Taken(Sealing(heap, n), n)
      /\ Top = stack[1] /\ DOMAIN stack = {1}
      /\ documents' = Append(documents, n) /\ stack' = <<>> /\ documents \in Seq(DOMAIN heap)
  BY FinishKeeps DEF FinishDocument
<1>2. SameNodes(heap, heap') /\ SameFields(heap, heap')
  BY <1>1, FinishedIs DEF Fits
<1>3. /\ DOMAIN heap' = DOMAIN heap
      /\ \A m \in DOMAIN heap : /\ heap'[m].document = heap[m].document
                                /\ heap'[m].ynode = heap[m].ynode
                                /\ heap'[m].fields = heap[m].fields
  BY <1>2 DEF SameNodes, SameFields
<1>4. Current(heap, documents, n)
  <2>1. OnStack(stack, n)
    BY <1>1 DEF OnStack
  <2>2. QED
    BY <2>1 DEF Origin, Young
<1> HIDE DEF n
<1>5. /\ k \in Nat /\ DOMAIN documents = 1..k /\ DOMAIN documents' = 1..(k + 1)
      /\ Len(documents') = k + 1 /\ \A i \in 1..k : documents'[i] = documents[i]
      /\ documents'[k + 1] = n
  <2>1. documents' \in Seq(DOMAIN heap)
    BY <1>1, AppendProperties
  <2>2. QED
    BY <1>1, <2>1, LenProperties, AppendProperties
<1>6. \A m \in DOMAIN heap : /\ ~Current(heap', documents', m)
                             /\ heap'[m].document <= Len(documents') + 1
  <2> SUFFICES ASSUME NEW m \in DOMAIN heap
               PROVE  heap[m].document # k + 2 /\ heap[m].document <= k + 2
    BY <1>3, <1>5 DEF Current
  <2>1. heap[m].document <= k + 1 /\ heap[m].document \in Nat
    BY NodeFields DEF Origin, Dated, Fits
  <2>2. QED
    BY <1>5, <2>1
<1>7. /\ Dated(heap', stack', documents') /\ Held(heap', stack', anchors', documents')
      /\ Young(heap', stack', anchors', documents')
  <2>1. DOMAIN stack' = {}
    BY <1>1
  <2>2. QED
    BY <1>1, <1>3, <1>6, <2>1 DEF Dated, Held, Young, OnStack
<1>8. Rooted(heap', documents')
  <2> SUFFICES ASSUME NEW i \in 1..(k + 1) PROVE heap'[documents'[i]].document = i
    BY <1>5 DEF Rooted
  <2>1. CASE i = k + 1
    BY <1>1, <1>3, <1>4, <1>5, <2>1 DEF Current
  <2>2. CASE i # k + 1
    <3>1. i \in 1..k
      BY <1>5, <2>2
    <3>2. heap[documents[i]].document = i /\ documents[i] \in DOMAIN heap
      BY <1>5, <3>1, PartsAreNodes DEF Origin, Rooted
    <3>3. QED
      BY <1>3, <1>5, <3>1, <3>2
  <2>3. QED
    BY <2>1, <2>2
<1>9. Within(heap')
  BY <1>3, PartsAreNodes DEF Within, Origin
<1>10. Once(heap')
  BY <1>3 DEF Once, Origin
<1>11. QED
  BY <1>7, <1>8, <1>9, <1>10 DEF Origin

\* When the nodes lose fields, or nothing about them changes.
LEMMA OriginShrinks ==
  ASSUME Fits, Origin, SameNodes(heap, heap'), FieldsFreed(heap, heap'),
         UNCHANGED <<anchors, documents>>,
         \A n : OnStack(stack', n) <=> OnStack(stack, n), stack' # <<>> <=> stack # <<>>
  PROVE  Origin'
<1>1. /\ DOMAIN heap' = DOMAIN heap
      /\ \A m \in DOMAIN heap : /\ heap'[m].document = heap[m].document
                                /\ heap'[m].ynode = heap[m].ynode
      /\ anchors' = anchors /\ documents' = documents
      /\ \A n : OnStack(stack', n) <=> OnStack(stack, n)
      /\ stack' # <<>> <=> stack # <<>>
  BY DEF SameNodes
<1>2. \A n \in DOMAIN heap : Current(heap', documents, n) <=> Current(heap, documents, n)
  BY <1>1 DEF Current
<1>3. Dated(heap', stack', documents)
  BY <1>1, <1>2 DEF Dated, Origin
<1>4. Held(heap', stack', anchors, documents)
  BY <1>1, <1>2 DEF Held, Origin
<1>5. Young(heap', stack', anchors, documents)
  BY <1>1, <1>2, PartsAreNodes DEF Young, Origin
<1>6. Within(heap')
  <2> SUFFICES ASSUME NEW n \in DOMAIN heap, NEW i \in DOMAIN heap'[n].fields
               PROVE  heap'[heap'[n].fields[i].child].document = heap'[n].document
    BY <1>1 DEF Within
  <2>1. heap'[n].fields = heap[n].fields
    <3>1. CASE heap'[n].fields = <<>>
      <4>1. DOMAIN heap'[n].fields = {}
        BY <3>1
      <4>2. QED
        BY <4>1
    <3>2. QED
      BY <3>1 DEF FieldsFreed
  <2>2. /\ heap[n].fields[i].child \in DOMAIN heap
        /\ heap[heap[n].fields[i].child].document = heap[n].document
    BY <2>1, PartsAreNodes DEF Origin, Within
  <2>3. QED
    BY <1>1, <2>1, <2>2
<1>7. Rooted(heap', documents)
  BY <1>1, PartsAreNodes DEF Rooted, Origin
<1>8. Once(heap')
  BY <1>1 DEF Once, Origin
<1>9. QED
  BY <1>1, <1>3, <1>4, <1>5, <1>6, <1>7, <1>8 DEF Origin

\* The steps that leave the heap as it is.
LEMMA HeapStays ==
  ASSUME Fits, Clears \/ Skips \/ Rests
  PROVE  /\ heap' = heap /\ documents' = documents
         /\ \A n : OnStack(stack', n) <=> OnStack(stack, n)
         /\ stack' # <<>> <=> stack # <<>>
         /\ anchors' # anchors => stack = <<>> /\ phase = "loading"
<1>1. CASE Clears
  <2>1. stack = <<>>
    BY <1>1 DEF Clears, Fits, Phases
  <2>2. QED
    BY <1>1, <2>1 DEF Clears
<1>2. CASE Skips
  <2>1. stack # <<>> /\ stack' = NextField(stack) /\ stack \in Seq(FrameSet(DOMAIN heap))
        /\ UNCHANGED <<heap, documents, anchors>>
    BY <1>2 DEF Skips, Fits, IsStack
  <2>2. SameFrames(stack, stack') /\ stack' # <<>>
    BY <2>1, NextFieldIs
  <2>3. QED
    BY <2>1, <2>2 DEF OnStack, SameFrames
<1>3. CASE Rests
  BY <1>3 DEF Rests
<1>4. QED
  BY <1>1, <1>2, <1>3

\* Every step keeps it.
LEMMA StepOrigin ==
  ASSUME Fits, Origin, [Next]_vars
  PROVE  Origin'
<1>1. CASE Clears \/ Skips \/ Rests
  <2>1. /\ heap' = heap /\ documents' = documents
        /\ \A n : OnStack(stack', n) <=> OnStack(stack, n)
        /\ stack' # <<>> <=> stack # <<>>
        /\ anchors' # anchors => stack = <<>> /\ phase = "loading"
    BY <1>1, HeapStays
  <2>2. SameNodes(heap, heap') /\ FieldsFreed(heap, heap')
    BY <2>1 DEF SameNodes, FieldsFreed
  <2>3. CASE anchors' = anchors
    BY <2>1, <2>2, <2>3, OriginShrinks
  <2>4. CASE stack = <<>>
    <3>1. \A n \in DOMAIN heap : ~Current(heap, documents, n)
      BY <2>4 DEF Origin, Dated
    <3>2. stack' = <<>>
      BY <2>1, <2>4
    <3>3. Held(heap', stack', anchors', documents')
      BY <2>1, <3>1 DEF Held, Current
    <3>4. Young(heap', stack', anchors', documents')
      BY <3>2 DEF Young, OnStack
    <3>5. QED
      BY <2>1, <2>4, <3>2, <3>3, <3>4 DEF Origin
  <2>5. QED
    BY <2>1, <2>3, <2>4
<1>2. ASSUME NEW y \in YNode, Pushes(y)
      PROVE  Origin'
  BY <1>2, OriginPushed
<1>3. ASSUME NEW y \in YNode, Share(y)
      PROVE  Origin'
  BY <1>3, OriginShared
<1>4. CASE Return
  BY <1>4, OriginReturned
<1>5. CASE FinishDocument
  BY <1>5, OriginFinished
<1>6. CASE Release
  <2>1. /\ SameNodes(heap, heap') /\ FieldsFreed(heap, heap')
        /\ UNCHANGED <<anchors, stack, documents>>
    BY <1>6, ReleaseKeeps
  <2>2. QED
    BY <2>1, OriginShrinks
<1>7. QED
  BY <1>1, <1>2, <1>3, <1>4, <1>5, <1>6, StepKinds

\* Within a document each libyaml node is converted at most once.
THEOREM ConvertConvertedOnce == Spec => []ConvertedOnce
<1> DEFINE Inv == Fits /\ Origin
<1>1. Init => Inv
  BY InitFits, InitOrigin
<1>2. Inv /\ [Next]_vars => Inv'
  BY StepFits, StepOrigin
<1>3. Inv => ConvertedOnce
  BY DEF Origin, Once, ConvertedOnce, YamlNode
<1> HIDE DEF Inv
<1>4. QED
  BY <1>1, <1>2, <1>3, PTL DEF Spec

\* A document contains its own nodes: what is reached from a root within its document
\* is all that is reached.
LEMMA OwnReached ==
  ASSUME Fits, Origin, NEW i \in DOMAIN documents, NEW n \in ReachIn(heap, {documents[i]})
  PROVE  n \in DOMAIN heap /\ heap[n].document = i
<1> DEFINE next == ChildSets(heap)
           X == {m \in DOMAIN heap : heap[m].document = i}
           T == {documents[i]}
<1>1. IsTree(heap, Keys)
  BY NodeFields DEF Fits
<1>2. /\ IsGraph(next) /\ DOMAIN next = DOMAIN heap
      /\ \A m \in DOMAIN heap : \A c :
           c \in next[m] <=> \E j \in DOMAIN heap[m].fields : c = heap[m].fields[j].child
  BY <1>1, HeapIsGraph
<1>3. T \in SUBSET DOMAIN next /\ T \subseteq X
  <2>1. documents[i] \in DOMAIN heap /\ heap[documents[i]].document = i
    BY PartsAreNodes DEF Origin, Rooted
  <2>2. QED
    BY <1>2, <2>1
<1>4. Closed(next, X)
  <2> SUFFICES ASSUME NEW m \in X, NEW c \in next[m] PROVE c \in X
    BY DEF Closed
  <2>1. PICK j \in DOMAIN heap[m].fields : c = heap[m].fields[j].child
    BY <1>2
  <2>2. c \in DOMAIN heap /\ heap[c].document = heap[m].document
    BY <2>1, PartsAreNodes DEF Origin, Within
  <2>3. QED
    BY <2>2
<1>5. n \in Reach(next, T)
  BY DEF ReachIn
<1> HIDE DEF next, X, T
<1>6. Reach(next, T) \subseteq X
  BY <1>2, <1>3, <1>4, ReachLeast
<1>7. QED
  BY <1>5, <1>6 DEF X

\* A document contains nodes of its own only, never one the table kept of another.
THEOREM ConvertOwnNodes == Spec => []OwnNodes
<1> DEFINE Inv == Fits /\ Origin
<1>1. Init => Inv
  BY InitFits, InitOrigin
<1>2. Inv /\ [Next]_vars => Inv'
  BY StepFits, StepOrigin
<1>3. Inv => OwnNodes
  BY OwnReached DEF OwnNodes
<1> HIDE DEF Inv
<1>4. QED
  BY <1>1, <1>2, <1>3, PTL DEF Spec

-----------------------------------------------------------------------------
(* What nodes contain, and which are sealed.  A node that is being         *)
(* converted is in nothing yet, and so no node can come to contain itself. *)

Alone(h, frames) == \A n : OnStack(frames, n) => Unused(h, n)
Freed(h)         == \A n \in DOMAIN h : h[n].refs = 0 => h[n].fields = <<>>

Unsealed(h, docs) == \A n \in DOMAIN h : Current(h, docs, n) => ~h[n].sealed
SealsClosed(h) ==
    \A n \in DOMAIN h : \A i \in DOMAIN h[n].fields :
      h[n].sealed => h[h[n].fields[i].child].sealed
RootsSealed(h, docs) == Immutable => \A i \in DOMAIN docs : h[docs[i]].sealed
SealsNone(h)         == ~Immutable => \A n \in DOMAIN h : ~h[n].sealed

Shape ==
    /\ Alone(heap, stack) /\ Grounded(heap) /\ Freed(heap)
    /\ Unsealed(heap, documents) /\ SealsClosed(heap) /\ RootsSealed(heap, documents)
    /\ SealsNone(heap)

\* What is somewhere in a sequence has a place there.
LEMMA PlacesOfElement ==
  ASSUME NEW S, NEW s \in Seq(S), NEW i \in DOMAIN s
  PROVE  Places(s, s[i]) \in Nat \ {0}
<1>1. IsFiniteSet(At(s, s[i])) /\ Places(s, s[i]) = Cardinality(At(s, s[i]))
      /\ Places(s, s[i]) \in Nat
  BY PlacesAreFinite
<1>2. At(s, s[i]) # {}
  BY DEF At
<1>3. QED
  BY <1>1, <1>2, FS_EmptySet

\* A reference is counted: no counter is negative, and that of a node on the stack, in
\* the documents, in another node or about to be released is not zero.
LEMMA CountersAre ==
  ASSUME Fits, Counted, NEW n \in DOMAIN heap
  PROVE  /\ heap[n].refs \in Nat
         /\ OnStack(stack, n) => heap[n].refs # 0
         /\ (\E i \in DOMAIN documents : documents[i] = n) \/ ~Unused(heap, n)
              => heap[n].refs # 0 /\ (releasing # <<>> /\ Head(releasing) = n => heap[n].refs # 1)
         /\ stack = <<>> /\ IsEmpty(anchors) /\ releasing = <<>> /\ heap[n].refs # 0
              => (\E i \in DOMAIN documents : documents[i] = n) \/ ~Unused(heap, n)
<1>1. /\ IsHeap(heap) /\ stack \in Seq(FrameSet(DOMAIN heap)) /\ documents \in Seq(DOMAIN heap)
      /\ releasing \in Seq(DOMAIN heap) /\ IsTree(heap, Keys) /\ IsStack(heap, stack)
  BY NodeFields DEF Fits, IsStack
<1> DEFINE a == Places(NodesOf(stack), n)
           b == Named(anchors, n)
           c == Places(documents, n)
           d == Places(releasing, n)
           e == Uses(heap, n)
<1>2. heap[n].refs = (a + b + c) + d + e
  BY DEF Counted, Balanced, Kept
<1>3. a \in Nat /\ b \in Nat /\ c \in Nat /\ d \in Nat /\ e \in Nat
  BY <1>1, NumbersAre
<1>4. OnStack(stack, n) => a # 0
  <2> SUFFICES ASSUME NEW i \in DOMAIN stack, stack[i].node = n PROVE a # 0
    BY DEF OnStack
  <2>1. NodesOf(stack) \in Seq(DOMAIN heap) /\ i \in DOMAIN NodesOf(stack) /\ NodesOf(stack)[i] = n
    BY <1>1, FramesAre
  <2>2. QED
    BY <2>1, PlacesOfElement
<1>5. (\E i \in DOMAIN documents : documents[i] = n) <=> c # 0
  <2>1. ASSUME NEW i \in DOMAIN documents, documents[i] = n PROVE c # 0
    BY <1>1, <2>1, PlacesOfElement
  <2>2. ASSUME \A i \in DOMAIN documents : documents[i] # n PROVE c = 0
    <3>1. {i \in DOMAIN documents : documents[i] = n} = {}
      BY <2>2
    <3>2. QED
      BY <3>1, FS_EmptySet DEF Places
  <2>3. QED
    BY <2>1, <2>2
<1>6. Unused(heap, n) <=> e = 0
  BY <1>1, UnusedIs DEF Unused
<1>7. releasing # <<>> /\ Head(releasing) = n => d # 0
  <2> SUFFICES ASSUME releasing # <<>>, Head(releasing) = n PROVE d # 0
    OBVIOUS
  <2>1. d = Same(n, n) + Places(Tail(releasing), n) /\ Places(Tail(releasing), n) \in Nat
    BY <1>1, PlacesOfTail
  <2>2. QED
    BY <2>1 DEF Same
<1>8. stack = <<>> /\ IsEmpty(anchors) /\ releasing = <<>> => a = 0 /\ b = 0 /\ d = 0
  <2> SUFFICES ASSUME stack = <<>>, IsEmpty(anchors), releasing = <<>>
               PROVE  a = 0 /\ b = 0 /\ d = 0
    OBVIOUS
  <2>1. a = 0 /\ d = 0
    <3>1. NodesOf(<<>>) = <<>>
      BY DEF NodesOf
    <3>2. QED
      BY <3>1, PlacesOfNone
  <2>2. b = 0
    <3>1. n # Null
      BY <1>1, NodesAreNumbers
    <3>2. QED
      BY <3>1, NamedNone
  <2>3. QED
    BY <2>1, <2>2
<1> HIDE DEF a, b, c, d, e
<1>9. QED
  BY <1>2, <1>3, <1>4, <1>5, <1>6, <1>7, <1>8

\* It begins with no nodes.
LEMMA InitShape == Init => Shape
<1> SUFFICES ASSUME Init PROVE Shape
  OBVIOUS
<1>1. DOMAIN heap = {} /\ DOMAIN stack = {} /\ DOMAIN documents = {}
  BY DEF Init
<1>2. Alone(heap, stack) /\ Grounded(heap) /\ Freed(heap)
  BY <1>1 DEF Alone, OnStack, Grounded, Freed
<1>3. /\ Unsealed(heap, documents) /\ SealsClosed(heap) /\ RootsSealed(heap, documents)
      /\ SealsNone(heap)
  BY <1>1 DEF Unsealed, SealsClosed, RootsSealed, SealsNone
<1>4. QED
  BY <1>2, <1>3 DEF Shape

\* When a node is stored in another: that one is still being converted, so it is in
\* nothing and not sealed.
LEMMA ShapeStored ==
  ASSUME Fits, Counted, Origin, Shape, NEW p, NEW x, Stores(p, x)
  PROVE  Shape'
<1>1. /\ p \in DOMAIN heap /\ x \in DOMAIN heap /\ p # x /\ OnStack(stack, p)
      /\ ~OnStack(stack', x) /\ \A n : OnStack(stack', n) => OnStack(stack, n)
      /\ AddsOnly(heap, heap', p, x) /\ documents' = documents
      /\ DOMAIN heap' = DOMAIN heap
      /\ \A m \in DOMAIN heap :
           /\ heap'[m].sealed = heap[m].sealed /\ heap'[m].refs = heap[m].refs + Same(x, m)
           /\ m # p => heap'[m].fields = heap[m].fields
  BY DEF Stores, SameNodes, SameSeals, OneMore, SameFieldsBut
<1>2. \A m \in DOMAIN heap : \A i \in DOMAIN heap'[m].fields :
        \/ \E j \in DOMAIN heap[m].fields : heap'[m].fields[i].child = heap[m].fields[j].child
        \/ m = p /\ heap'[m].fields[i].child = x
  BY <1>1 DEF AddsOnly
<1>3. /\ \A n \in DOMAIN heap : Current(heap', documents, n) <=> Current(heap, documents, n)
      /\ Current(heap, documents, p)
  BY <1>1, OriginStored
<1>4. Alone(heap', stack')
  <2> SUFFICES ASSUME NEW n, OnStack(stack', n), NEW m \in DOMAIN heap,
                      NEW i \in DOMAIN heap'[m].fields
               PROVE  heap'[m].fields[i].child # n
    BY <1>1 DEF Alone, Unused
  <2>1. n # x /\ Unused(heap, n)
    BY <1>1 DEF Shape, Alone
  <2>2. QED
    BY <1>2, <2>1 DEF Unused
<1>5. Grounded(heap')
  <2>1. Unused(heap, p)
    BY <1>1 DEF Shape, Alone
  <2>2. QED
    BY <1>1, <2>1, GroundedStays DEF Shape
<1>6. Freed(heap')
  <2> SUFFICES ASSUME NEW m \in DOMAIN heap, heap'[m].refs = 0 PROVE heap'[m].fields = <<>>
    BY <1>1 DEF Freed
  <2>1. heap[m].refs \in Nat /\ heap'[m].refs = heap[m].refs + Same(x, m) /\ Same(x, m) \in Nat
    BY <1>1, CountersAre DEF Same
  <2>2. heap[m].refs = 0
    BY <2>1
  <2>3. m # p
    BY <1>1, <2>2, CountersAre
  <2>4. QED
    BY <1>1, <2>2, <2>3 DEF Shape, Freed
<1>7. Unsealed(heap', documents)
  BY <1>1, <1>3 DEF Shape, Unsealed
<1>8. SealsClosed(heap')
  <2> SUFFICES ASSUME NEW m \in DOMAIN heap, NEW i \in DOMAIN heap'[m].fields, heap'[m].sealed
               PROVE  heap'[heap'[m].fields[i].child].sealed
    BY <1>1 DEF SealsClosed
  <2>1. heap[m].sealed /\ m # p
    BY <1>1, <1>3 DEF Shape, Unsealed
  <2>2. heap'[m].fields = heap[m].fields
    BY <1>1, <2>1
  <2>3. heap[m].fields[i].child \in DOMAIN heap /\ heap[heap[m].fields[i].child].sealed
    BY <2>1, <2>2, PartsAreNodes DEF Shape, SealsClosed
  <2>4. QED
    BY <1>1, <2>2, <2>3
<1>9. RootsSealed(heap', documents) /\ SealsNone(heap')
  BY <1>1, PartsAreNodes DEF Shape, RootsSealed, SealsNone
<1>10. QED
  BY <1>1, <1>4, <1>5, <1>6, <1>7, <1>8, <1>9 DEF Shape

\* When a node is made.
LEMMA ShapePushed ==
  ASSUME Fits, Shape, NEW y \in YNode, Pushes(y)
  PROVE  Shape'
<1> DEFINE k == Len(heap) + 1
           D == DOMAIN heap
<1>1. /\ DOMAIN heap' = D \cup {k} /\ k \notin D
      /\ \A m \in D : heap'[m] = heap[m]
      /\ heap'[k] = Fresh(y) /\ documents' = documents
      /\ \A n : OnStack(stack', n) <=> OnStack(stack, n) \/ n = k
  BY PushedOn DEF Grown
<1>2. /\ \A i \in DOMAIN documents : documents[i] \in D
      /\ \A n \in D : \A i \in DOMAIN heap[n].fields : heap[n].fields[i].child \in D
  BY PartsAreNodes
<1>3. heap'[k].fields = <<>> /\ heap'[k].sealed = FALSE /\ heap'[k].refs = 1
      /\ DOMAIN heap'[k].fields = {}
  <2>1. heap'[k].fields = <<>> /\ heap'[k].sealed = FALSE /\ heap'[k].refs = 1
    BY <1>1 DEF Fresh
  <2>2. QED
    BY <2>1
<1>4. k # k + 1
  BY DEF Fits, IsHeap
<1> HIDE DEF D, k
<1>5. Unused(heap, k)
  BY <1>1, <1>2 DEF Unused, D
<1>6. Alone(heap', stack')
  <2> SUFFICES ASSUME NEW n, OnStack(stack', n), NEW m \in D \cup {k},
                      NEW i \in DOMAIN heap'[m].fields
               PROVE  heap'[m].fields[i].child # n
    BY <1>1 DEF Alone, Unused
  <2>1. Unused(heap, n)
    BY <1>1, <1>5 DEF Shape, Alone
  <2>2. m \in D /\ heap'[m] = heap[m]
    BY <1>1, <1>3
  <2>3. QED
    BY <2>1, <2>2 DEF Unused, D
<1>7. Grounded(heap')
  <2> DEFINE x == k + 1
  <2>1. AddsOnly(heap, heap', k, x)
    <3>1. \A m \in DOMAIN heap' \ DOMAIN heap : heap'[m].fields = <<>>
      BY <1>1, <1>3 DEF D
    <3>2. \A m \in DOMAIN heap : \A i \in DOMAIN heap'[m].fields :
            \E j \in DOMAIN heap[m].fields : heap'[m].fields[i].child = heap[m].fields[j].child
      BY <1>1 DEF D
    <3>3. QED
      BY <1>1, <3>1, <3>2 DEF AddsOnly, D
  <2>2. x # k
    BY <1>4
  <2> HIDE DEF x
  <2>3. QED
    BY <1>5, <2>1, <2>2, GroundedStays DEF Shape
<1>8. Freed(heap')
  BY <1>1, <1>3 DEF Shape, Freed, D
<1>9. Unsealed(heap', documents)
  BY <1>1, <1>3 DEF Shape, Unsealed, Current, D
<1>10. SealsClosed(heap')
  <2> SUFFICES ASSUME NEW m \in D \cup {k}, NEW i \in DOMAIN heap'[m].fields, heap'[m].sealed
               PROVE  heap'[heap'[m].fields[i].child].sealed
    BY <1>1 DEF SealsClosed
  <2>1. m \in D /\ heap'[m] = heap[m]
    BY <1>1, <1>3
  <2>2. heap[m].fields[i].child \in D /\ heap[heap[m].fields[i].child].sealed
    BY <1>2, <2>1 DEF Shape, SealsClosed, D
  <2>3. QED
    BY <1>1, <2>1, <2>2
<1>11. RootsSealed(heap', documents)
  BY <1>1, <1>2 DEF Shape, RootsSealed
<1>12. SealsNone(heap')
  BY <1>1, <1>3 DEF Shape, SealsNone, D
<1>13. QED
  BY <1>1, <1>6, <1>7, <1>8, <1>9, <1>10, <1>11, <1>12 DEF Shape

\* When a document is finished, and sealed with all that is in it.
LEMMA ShapeFinished ==
  ASSUME Fits, Counted, Origin, Shape, FinishDocument
  PROVE  Shape'
<1> DEFINE n == Top.node
           X == IF Immutable THEN ReachIn(heap, {n}) ELSE {}
           k == Len(documents)
<1>1. /\ n \in DOMAIN heap /\ heap' = Taken(Sealing(heap, n), n)
      /\ documents' = Append(documents, n) /\ stack' = <<>> /\ documents \in Seq(DOMAIN heap)
  BY FinishKeeps DEF FinishDocument
<1>2. SameNodes(heap, heap') /\ SameFields(heap, heap') /\ OneMore(heap, heap', n)
      /\ SealsMore(heap, heap', X)
  BY <1>1, FinishedIs DEF Fits
<1>3. IsTree(heap, Keys)
  BY NodeFields DEF Fits
<1>4. Immutable => /\ n \in X
                   /\ \A m \in X : \A i \in DOMAIN heap[m].fields : heap[m].fields[i].child \in X
  <2> SUFFICES ASSUME Immutable
               PROVE  /\ n \in X
                      /\ \A m \in X : \A i \in DOMAIN heap[m].fields : heap[m].fields[i].child \in X
    OBVIOUS
  <2> DEFINE v == n
  <2>1. v \in DOMAIN heap
    BY <1>1
  <2> HIDE DEF v
  <2>2. /\ v \in ReachIn(heap, {v})
        /\ \A m \in ReachIn(heap, {v}) : \A i \in DOMAIN heap[m].fields :
             heap[m].fields[i].child \in ReachIn(heap, {v})
    BY <1>3, <2>1, SealedTree
  <2>3. QED
    BY <2>2 DEF v
<1>5. ~Immutable => X = {}
  OBVIOUS
<1> HIDE DEF n, X
<1>6. /\ DOMAIN heap' = DOMAIN heap
      /\ \A m \in DOMAIN heap : /\ heap'[m].document = heap[m].document
                                /\ heap'[m].fields = heap[m].fields
                                /\ heap'[m].refs = heap[m].refs + Same(n, m)
                                /\ heap'[m].sealed = (heap[m].sealed \/ m \in X)
  BY <1>2 DEF SameNodes, SameFields, OneMore, SealsMore
<1>7. /\ k \in Nat /\ DOMAIN documents = 1..k /\ DOMAIN documents' = 1..(k + 1)
      /\ Len(documents') = k + 1 /\ \A i \in 1..k : documents'[i] = documents[i]
      /\ documents'[k + 1] = n
  <2>1. documents' \in Seq(DOMAIN heap)
    BY <1>1, AppendProperties
  <2>2. QED
    BY <1>1, <2>1, LenProperties, AppendProperties
<1>8. Alone(heap', stack')
  <2>1. DOMAIN stack' = {}
    BY <1>1
  <2>2. QED
    BY <2>1 DEF Alone, OnStack
<1>9. Grounded(heap')
  BY <1>6, GroundedShrinks DEF Shape
<1>10. Freed(heap')
  <2> SUFFICES ASSUME NEW m \in DOMAIN heap, heap'[m].refs = 0 PROVE heap[m].fields = <<>>
    BY <1>6 DEF Freed
  <2>1. heap[m].refs \in Nat /\ heap'[m].refs = heap[m].refs + Same(n, m) /\ Same(n, m) \in Nat
    BY <1>6, CountersAre DEF Same
  <2>2. heap[m].refs = 0
    BY <2>1
  <2>3. QED
    BY <2>2 DEF Shape, Freed
<1>11. Unsealed(heap', documents')
  <2> SUFFICES ASSUME NEW m \in DOMAIN heap PROVE heap[m].document # k + 2
    BY <1>6, <1>7 DEF Unsealed, Current
  <2>1. heap[m].document <= k + 1 /\ heap[m].document \in Nat
    BY NodeFields DEF Origin, Dated, Fits
  <2>2. QED
    BY <1>7, <2>1
<1>12. SealsClosed(heap')
  <2> SUFFICES ASSUME NEW m \in DOMAIN heap, NEW i \in DOMAIN heap[m].fields, heap'[m].sealed
               PROVE  heap'[heap[m].fields[i].child].sealed
    BY <1>6 DEF SealsClosed
  <2>1. heap[m].fields[i].child \in DOMAIN heap
    BY PartsAreNodes
  <2>2. CASE heap[m].sealed
    <3>1. heap[heap[m].fields[i].child].sealed
      BY <2>2 DEF Shape, SealsClosed
    <3>2. QED
      BY <1>6, <2>1, <3>1
  <2>3. CASE m \in X
    <3>1. heap[m].fields[i].child \in X
      BY <1>4, <1>5, <2>3
    <3>2. QED
      BY <1>6, <2>1, <3>1
  <2>4. QED
    BY <1>6, <2>2, <2>3
<1>13. RootsSealed(heap', documents')
  <2> SUFFICES ASSUME Immutable, NEW i \in 1..(k + 1) PROVE heap'[documents'[i]].sealed
    BY <1>7 DEF RootsSealed
  <2>1. CASE i = k + 1
    BY <1>1, <1>4, <1>6, <1>7, <2>1
  <2>2. CASE i # k + 1
    <3>1. i \in 1..k
      BY <1>7, <2>2
    <3>2. heap[documents[i]].sealed /\ documents[i] \in DOMAIN heap
      BY <1>7, <3>1, PartsAreNodes DEF Shape, RootsSealed
    <3>3. QED
      BY <1>6, <1>7, <3>1, <3>2
  <2>3. QED
    BY <2>1, <2>2
<1>14. SealsNone(heap')
  BY <1>5, <1>6 DEF Shape, SealsNone
<1>15. QED
  BY <1>8, <1>9, <1>10, <1>11, <1>12, <1>13, <1>14 DEF Shape

\* When a reference is dropped.
LEMMA ShapeReleased ==
  ASSUME Fits, Counted, Shape, Release
  PROVE  Shape'
<1> DEFINE n == Head(releasing)
<1>1. /\ SameNodes(heap, heap') /\ SameSeals(heap, heap') /\ FieldsFreed(heap, heap')
      /\ OneLess(heap, heap', n) /\ LastFrees(heap, heap', n)
      /\ UNCHANGED <<stack, documents>>
  BY ReleaseKeeps
<1> HIDE DEF n
<1>2. /\ DOMAIN heap' = DOMAIN heap
      /\ \A m \in DOMAIN heap : /\ heap'[m].document = heap[m].document
                                /\ heap'[m].sealed = heap[m].sealed
                                /\ heap'[m].refs = heap[m].refs - Same(n, m)
                                /\ heap'[m].fields = heap[m].fields \/ heap'[m].fields = <<>>
  BY <1>1 DEF SameNodes, SameSeals, FieldsFreed, OneLess
<1>3. \A m \in DOMAIN heap : \A i \in DOMAIN heap'[m].fields : heap'[m].fields = heap[m].fields
  <2> SUFFICES ASSUME NEW m \in DOMAIN heap, NEW i \in DOMAIN heap'[m].fields
               PROVE  heap'[m].fields = heap[m].fields
    OBVIOUS
  <2>1. CASE heap'[m].fields = <<>>
    <3>1. DOMAIN heap'[m].fields = {}
      BY <2>1
    <3>2. QED
      BY <3>1
  <2>2. QED
    BY <1>2, <2>1
<1>4. Alone(heap', stack')
  <2> SUFFICES ASSUME NEW v, OnStack(stack, v), NEW m \in DOMAIN heap,
                      NEW i \in DOMAIN heap'[m].fields
               PROVE  heap'[m].fields[i].child # v
    BY <1>1, <1>2 DEF Alone, Unused
  <2>1. Unused(heap, v)
    BY DEF Shape, Alone
  <2>2. heap'[m].fields = heap[m].fields
    BY <1>3
  <2>3. QED
    BY <2>1, <2>2 DEF Unused
<1>5. Grounded(heap')
  <2>1. \A m \in DOMAIN heap : \A i \in DOMAIN heap'[m].fields :
          \E j \in DOMAIN heap[m].fields : heap'[m].fields[i].child = heap[m].fields[j].child
    BY <1>3
  <2>2. QED
    BY <1>2, <2>1, GroundedShrinks DEF Shape
<1>6. Freed(heap')
  <2> SUFFICES ASSUME NEW m \in DOMAIN heap, heap'[m].refs = 0 PROVE heap'[m].fields = <<>>
    BY <1>2 DEF Freed
  <2>1. heap[m].refs \in Nat /\ heap'[m].refs = heap[m].refs - Same(n, m)
    BY <1>2, CountersAre
  <2>2. CASE n = m
    <3>1. heap[m].refs = 1
      BY <2>1, <2>2 DEF Same
    <3>2. QED
      BY <1>1, <2>2, <3>1 DEF LastFrees
  <2>3. CASE n # m
    <3>1. heap[m].refs = 0
      BY <2>1, <2>3 DEF Same
    <3>2. heap[m].fields = <<>>
      BY <3>1 DEF Shape, Freed
    <3>3. QED
      BY <1>2, <3>2
  <2>4. QED
    BY <2>2, <2>3
<1>7. Unsealed(heap', documents)
  BY <1>2 DEF Shape, Unsealed, Current
<1>8. SealsClosed(heap')
  <2> SUFFICES ASSUME NEW m \in DOMAIN heap, NEW i \in DOMAIN heap'[m].fields, heap'[m].sealed
               PROVE  heap'[heap'[m].fields[i].child].sealed
    BY <1>2 DEF SealsClosed
  <2>1. heap'[m].fields = heap[m].fields /\ heap[m].sealed
    BY <1>2, <1>3
  <2>2. heap[m].fields[i].child \in DOMAIN heap /\ heap[heap[m].fields[i].child].sealed
    BY <2>1, PartsAreNodes DEF Shape, SealsClosed
  <2>3. QED
    BY <1>2, <2>1, <2>2
<1>9. RootsSealed(heap', documents) /\ SealsNone(heap')
  BY <1>2, PartsAreNodes DEF Shape, RootsSealed, SealsNone
<1>10. QED
  BY <1>1, <1>4, <1>5, <1>6, <1>7, <1>8, <1>9 DEF Shape

\* Every step keeps it.
LEMMA StepShape ==
  ASSUME Fits, Counted, Origin, Shape, [Next]_vars
  PROVE  Shape'
<1>1. CASE Clears \/ Skips \/ Rests
  <2>1. /\ heap' = heap /\ documents' = documents
        /\ \A n : OnStack(stack', n) <=> OnStack(stack, n)
    BY <1>1, HeapStays
  <2>2. Alone(heap', stack')
    BY <2>1 DEF Shape, Alone
  <2>3. QED
    BY <2>1, <2>2 DEF Shape
<1>2. ASSUME NEW y \in YNode, Pushes(y)
      PROVE  Shape'
  BY <1>2, ShapePushed
<1>3. ASSUME NEW y \in YNode, Share(y)
      PROVE  Shape'
  BY <1>3, ShareStores, ShapeStored
<1>4. CASE Return
  BY <1>4, ReturnStores, ShapeStored
<1>5. CASE FinishDocument
  BY <1>5, ShapeFinished
<1>6. CASE Release
  BY <1>6, ShapeReleased
<1>7. QED
  BY <1>1, <1>2, <1>3, <1>4, <1>5, <1>6, StepKinds

\* What the documents contain: finished nodes, each a root or in a node, and sealed if
\* the parser is immutable.
LEMMA AnnouncedIs ==
  ASSUME Fits, Origin, Shape
  PROVE  /\ Range(documents) \subseteq DOMAIN heap
         /\ \A n \in ReachIn(heap, Range(documents)) :
              /\ n \in DOMAIN heap /\ ~Current(heap, documents, n)
              /\ (\E i \in DOMAIN documents : documents[i] = n) \/ ~Unused(heap, n)
              /\ Immutable => heap[n].sealed
         /\ \A i \in DOMAIN documents : documents[i] \in ReachIn(heap, Range(documents))
         /\ \A m \in ReachIn(heap, Range(documents)) : \A i \in DOMAIN heap[m].fields :
              heap[m].fields[i].child \in ReachIn(heap, Range(documents))
<1> DEFINE next == ChildSets(heap)
           T == Range(documents)
           R == ReachIn(heap, T)
           IsRoot(m) == \E i \in DOMAIN documents : documents[i] = m
           X == {m \in DOMAIN heap : /\ ~Current(heap, documents, m)
                                     /\ IsRoot(m) \/ ~Unused(heap, m)
                                     /\ Immutable => heap[m].sealed}
<1>1. IsTree(heap, Keys)
  BY NodeFields DEF Fits
<1>2. /\ IsGraph(next) /\ DOMAIN next = DOMAIN heap
      /\ \A m \in DOMAIN heap : \A c :
           c \in next[m] <=> \E j \in DOMAIN heap[m].fields : c = heap[m].fields[j].child
  BY <1>1, HeapIsGraph
<1>3. \A m : m \in T <=> IsRoot(m)
  BY DEF Range
<1>4. T \subseteq DOMAIN heap
  BY <1>3, PartsAreNodes
<1>5. T \subseteq X
  <2> SUFFICES ASSUME NEW i \in DOMAIN documents
               PROVE  documents[i] \in X
    BY <1>3
  <2>1. /\ documents[i] \in DOMAIN heap /\ heap[documents[i]].document = i
        /\ i \in 1..Len(documents) /\ Len(documents) \in Nat
    BY PartsAreNodes DEF Origin, Rooted
  <2>2. ~Current(heap, documents, documents[i])
    BY <2>1 DEF Current
  <2>3. Immutable => heap[documents[i]].sealed
    BY DEF Shape, RootsSealed
  <2>4. QED
    BY <2>1, <2>2, <2>3
<1>6. Closed(next, X)
  <2> SUFFICES ASSUME NEW m \in X, NEW c \in next[m] PROVE c \in X
    BY DEF Closed
  <2>1. PICK j \in DOMAIN heap[m].fields : c = heap[m].fields[j].child
    BY <1>2
  <2>2. c \in DOMAIN heap /\ heap[c].document = heap[m].document
    BY <2>1, PartsAreNodes DEF Origin, Within
  <2>3. ~Current(heap, documents, c)
    BY <2>2 DEF Current
  <2>4. ~Unused(heap, c)
    BY <2>1 DEF Unused
  <2>5. Immutable => heap[c].sealed
    BY <2>1 DEF Shape, SealsClosed
  <2>6. QED
    BY <2>2, <2>3, <2>4, <2>5
<1>7. R = Reach(next, T) /\ T \in SUBSET DOMAIN next
  BY <1>2, <1>4 DEF ReachIn
<1> HIDE DEF next, T, R, X
<1>8. R \subseteq X /\ R \in SUBSET DOMAIN heap /\ T \subseteq R /\ Closed(next, R)
  BY <1>2, <1>5, <1>6, <1>7, ReachLeast, ReachBounded, ReachClosed
<1>9. \A m \in R : \A i \in DOMAIN heap[m].fields : heap[m].fields[i].child \in R
  BY <1>2, <1>8 DEF Closed
<1>10. \A n \in R : /\ n \in DOMAIN heap /\ ~Current(heap, documents, n)
                    /\ IsRoot(n) \/ ~Unused(heap, n)
                    /\ Immutable => heap[n].sealed
  BY <1>8 DEF X
<1>11. \A i \in DOMAIN documents : documents[i] \in R
  BY <1>3, <1>8
<1>12. QED
  BY <1>4, <1>9, <1>10, <1>11 DEF T, R

\* A step leaves what the documents contain as it is.
LEMMA AnnouncedKept ==
  ASSUME Fits, Counted, Origin, Shape, [Next]_vars, NEW n \in ReachIn(heap, Range(documents))
  PROVE  /\ heap'[n].fields = heap[n].fields /\ heap'[n].refs > 0
         /\ heap'[n].sealed = heap[n].sealed
<1>1. /\ n \in DOMAIN heap /\ ~Current(heap, documents, n)
      /\ (\E i \in DOMAIN documents : documents[i] = n) \/ ~Unused(heap, n)
      /\ Immutable => heap[n].sealed
  BY AnnouncedIs
<1>2. /\ heap[n].refs \in Nat /\ heap[n].refs # 0
      /\ releasing # <<>> /\ Head(releasing) = n => heap[n].refs # 1
  BY <1>1, CountersAre
<1>3. heap[n].sealed \in BOOLEAN
  BY <1>1, NodeFields DEF Fits
<1>4. CASE Clears \/ Skips \/ Rests
  <2>1. heap' = heap
    BY <1>4, HeapStays
  <2>2. QED
    BY <1>2, <2>1
<1>5. ASSUME NEW y \in YNode, Pushes(y)
      PROVE  /\ heap'[n].fields = heap[n].fields /\ heap'[n].refs > 0
             /\ heap'[n].sealed = heap[n].sealed
  <2>1. heap'[n] = heap[n]
    BY <1>1, <1>5, PushedOn DEF Grown
  <2>2. QED
    BY <1>2, <2>1
<1>6. ASSUME NEW p, NEW x, Stores(p, x)
      PROVE  /\ heap'[n].fields = heap[n].fields /\ heap'[n].refs > 0
             /\ heap'[n].sealed = heap[n].sealed
  <2>1. n # p
    BY <1>1, <1>6, OriginStored
  <2>2. /\ heap'[n].fields = heap[n].fields /\ heap'[n].sealed = heap[n].sealed
        /\ heap'[n].refs = heap[n].refs + Same(x, n)
    BY <1>1, <1>6, <2>1 DEF Stores, SameFieldsBut, SameSeals, OneMore
  <2>3. QED
    BY <1>2, <2>2 DEF Same
<1>7. CASE FinishDocument
  <2> DEFINE v == Top.node
             X == IF Immutable THEN ReachIn(heap, {v}) ELSE {}
  <2>1. v \in DOMAIN heap /\ heap' = Taken(Sealing(heap, v), v)
    BY <1>7, FinishKeeps
  <2>2. SameFields(heap, heap') /\ OneMore(heap, heap', v) /\ SealsMore(heap, heap', X)
    BY <2>1, FinishedIs DEF Fits
  <2>3. ~Immutable => X = {}
    OBVIOUS
  <2> HIDE DEF v, X
  <2>4. /\ heap'[n].fields = heap[n].fields /\ heap'[n].refs = heap[n].refs + Same(v, n)
        /\ heap'[n].sealed = (heap[n].sealed \/ n \in X)
    BY <1>1, <2>2 DEF SameFields, OneMore, SealsMore
  <2>5. heap'[n].sealed = heap[n].sealed
    <3>1. CASE Immutable
      BY <1>1, <1>3, <2>4, <3>1
    <3>2. CASE ~Immutable
      BY <1>3, <2>3, <2>4, <3>2
    <3>3. QED
      BY <3>1, <3>2
  <2>6. heap'[n].refs > 0
    BY <1>2, <2>4 DEF Same
  <2>7. QED
    BY <2>4, <2>5, <2>6
<1>8. CASE Release
  <2>1. /\ SameSeals(heap, heap') /\ FieldsFreed(heap, heap')
        /\ OneLess(heap, heap', Head(releasing)) /\ releasing # <<>>
    BY <1>8, ReleaseKeeps
  <2>2. /\ heap'[n].sealed = heap[n].sealed
        /\ heap'[n].refs = heap[n].refs - Same(Head(releasing), n)
        /\ heap'[n].fields = heap[n].fields \/ heap'[n].refs = 0
    BY <1>1, <2>1 DEF SameSeals, FieldsFreed, OneLess
  <2>3. heap'[n].refs > 0
    BY <1>2, <2>1, <2>2 DEF Same
  <2>4. QED
    BY <2>2, <2>3
<1>9. ASSUME NEW y \in YNode, Share(y)
      PROVE  /\ heap'[n].fields = heap[n].fields /\ heap'[n].refs > 0
             /\ heap'[n].sealed = heap[n].sealed
  BY <1>6, <1>9, ShareStores
<1>10. CASE Return
  BY <1>6, <1>10, ReturnStores
<1>11. QED
  BY <1>4, <1>5, <1>7, <1>8, <1>9, <1>10, StepKinds

\* A document is not touched any more once the parser has announced it, however the
\* rest of the source is parsed.
THEOREM ConvertAnnouncedStays == Spec => AnnouncedStays
<1> DEFINE Inv == Fits /\ Counted /\ Origin /\ Shape
           Stays == \A n \in ReachIn(heap, Range(documents)) :
                      /\ heap'[n].fields = heap[n].fields /\ heap'[n].refs > 0
                      /\ heap'[n].sealed = heap[n].sealed
<1>1. Init => Inv
  BY InitFits, InitOrigin, InitShape
<1>2. Inv /\ [Next]_vars => Inv'
  BY StepFits, StepOrigin, StepShape
<1>3. Inv /\ [Next]_vars => [Stays]_vars
  BY AnnouncedKept
<1>4. AnnouncedStays <=> [][Stays]_vars
  BY DEF AnnouncedStays
<1> HIDE DEF Inv, Stays
<1>5. QED
  BY <1>1, <1>2, <1>3, <1>4, PTL DEF Spec

\* At the end, what is left has a root or another node above it that is left, and as no
\* node contains itself, it is in a document.
LEMMA LeftIs ==
  ASSUME Fits, Counted, Origin, Shape
  PROVE  NothingElseLeft
<1> DEFINE R == ReachIn(heap, Range(documents))
           next == ChildSets(heap)
<1> SUFFICES ASSUME phase = "ended"
             PROVE  /\ AcyclicIn(heap)
                    /\ \A n \in DOMAIN heap : /\ heap[n].refs > 0 <=> n \in R
                                              /\ n \in R => heap[n].sealed = Immutable
  BY DEF NothingElseLeft, YamlNode
<1>1. stack = <<>> /\ IsEmpty(anchors) /\ releasing = <<>>
  BY DEF Fits, Phases
<1>2. IsTree(heap, Keys)
  BY NodeFields DEF Fits
<1>3. AcyclicIn(heap)
  BY <1>2, GroundedIsAcyclic DEF Shape
<1>4. /\ IsGraph(next) /\ DOMAIN next = DOMAIN heap
      /\ \A m \in DOMAIN heap : \A c :
           c \in next[m] <=> \E j \in DOMAIN heap[m].fields : c = heap[m].fields[j].child
  BY <1>2, HeapIsGraph
<1>5. OnCycleOf(next) = {}
  BY <1>3 DEF AcyclicIn
<1>6. /\ \A n \in R : /\ n \in DOMAIN heap
                      /\ (\E i \in DOMAIN documents : documents[i] = n) \/ ~Unused(heap, n)
                      /\ Immutable => heap[n].sealed
      /\ \A i \in DOMAIN documents : documents[i] \in R
      /\ \A m \in R : \A i \in DOMAIN heap[m].fields : heap[m].fields[i].child \in R
  BY AnnouncedIs
<1> HIDE DEF R, next
<1>7. ASSUME NEW n \in DOMAIN heap, n \in R
      PROVE  heap[n].refs > 0 /\ heap[n].sealed = Immutable
  <2>1. heap[n].refs \in Nat /\ heap[n].refs # 0
    BY <1>6, <1>7, CountersAre
  <2>2. heap[n].sealed \in BOOLEAN /\ Immutable \in BOOLEAN
    BY NodeFields, ConvertAssumption DEF Fits
  <2>3. CASE Immutable
    <3>1. heap[n].sealed
      BY <1>6, <1>7, <2>3
    <3>2. QED
      BY <2>1, <2>2, <2>3, <3>1
  <2>4. CASE ~Immutable
    <3>1. ~heap[n].sealed
      BY <2>4 DEF Shape, SealsNone
    <3>2. QED
      BY <2>1, <2>2, <2>4, <3>1
  <2>5. QED
    BY <2>3, <2>4
<1>8. ASSUME NEW n \in DOMAIN heap, heap[n].refs > 0, n \notin R
      PROVE  FALSE
  <2> DEFINE B == {b \in DOMAIN heap : heap[b].refs > 0 /\ b \notin R}
  <2>1. ASSUME NEW b \in B
        PROVE  \E p \in B : b \in next[p]
    <3>1. heap[b].refs \in Nat /\ heap[b].refs # 0
      BY CountersAre
    <3>2. (\E i \in DOMAIN documents : documents[i] = b) \/ ~Unused(heap, b)
      BY <1>1, <3>1, CountersAre
    <3>3. ~Unused(heap, b)
      BY <1>6, <3>2
    <3>4. PICK p \in DOMAIN heap : \E i \in DOMAIN heap[p].fields : heap[p].fields[i].child = b
      BY <3>3 DEF Unused
    <3>5. b \in next[p] /\ p \notin R
      BY <1>4, <1>6, <3>4
    <3>6. heap[p].refs \in Nat /\ heap[p].refs # 0
      <4>1. heap[p].fields # <<>>
        <5>1. DOMAIN <<>> = {}
          OBVIOUS
        <5>2. QED
          BY <3>4, <5>1
      <4>2. heap[p].refs # 0
        BY <4>1 DEF Shape, Freed
      <4>3. heap[p].refs \in Nat
        BY CountersAre
      <4>4. QED
        BY <4>2, <4>3
    <3>7. QED
      BY <3>4, <3>5, <3>6
  <2>2. B \in SUBSET DOMAIN next /\ B # {}
    BY <1>4, <1>8
  <2> HIDE DEF B
  <2>3. \E b \in B : b \in OnCycleOf(next)
    BY <1>4, <2>1, <2>2, CycleAmongPredecessors
  <2>4. QED
    BY <1>5, <2>3
<1>9. QED
  BY <1>3, <1>7, <1>8, CountersAre

\* After the parse only what the documents contain is left, and all of it, sealed if the
\* parser is immutable; no node contains itself.
THEOREM ConvertNothingElseLeft == Spec => []NothingElseLeft
<1> DEFINE Inv == Fits /\ Counted /\ Origin /\ Shape
<1>1. Init => Inv
  BY InitFits, InitOrigin, InitShape
<1>2. Inv /\ [Next]_vars => Inv'
  BY StepFits, StepOrigin, StepShape
<1>3. Inv => NothingElseLeft
  BY LeftIs
<1> HIDE DEF Inv
<1>4. QED
  BY <1>1, <1>2, <1>3, PTL DEF Spec

-----------------------------------------------------------------------------
(* What converted nodes are built of.  The stack is a path in the document, *)
(* so a libyaml node that is in work leads to the one at the top.           *)

YFields == Seq([key : Keys \cup {Complex}, child : YNode])

\* Two tables with the same nodes.
SameNames(D, table, new) == \A y \in YNode : table[y] \in D => new[y] = table[y]

\* Each field comes from the place `at' says.
Placed(f, yf, T, table, at) ==
    /\ at \in [DOMAIN f -> FirstPlaces(yf, T)]
    /\ \A i \in FirstPlaces(yf, T) : \E p \in DOMAIN f : at[p] = i
    /\ \A p, q \in DOMAIN f : p < q => at[p] < at[q]
    /\ \A p \in DOMAIN f : \E last \in SameKey(yf, T, at[p]) :
         /\ \A j \in SameKey(yf, T, at[p]) : j <= last
         /\ f[p] = [key |-> yf[last].key, child |-> table[yf[last].child]]

\* A node is built of places if there is such a function.
LEMMA PlacedIs ==
  \A f, yf, T, table : Built(f, yf, T, table) <=> \E at : Placed(f, yf, T, table, at)
BY DEF Built, Placed

\* A later place has no influence on the others but those with its key.
LEMMA LaterPlace ==
  ASSUME NEW n \in Nat, NEW T \in SUBSET (1..(n - 1)), NEW yf
  PROVE  /\ \A i \in T :
              /\ \A j : j \in SameKey(yf, T \cup {n}, i)
                          <=> \/ j \in SameKey(yf, T, i)
                              \/ j = n /\ yf[i].key # Element /\ yf[n].key = yf[i].key
              /\ i \in FirstPlaces(yf, T \cup {n}) <=> i \in FirstPlaces(yf, T)
         /\ \A j : j \in SameKey(yf, T \cup {n}, n)
                     <=> j = n \/ (j \in T /\ yf[n].key # Element /\ yf[j].key = yf[n].key)
         /\ n \in FirstPlaces(yf, T \cup {n})
              <=> \A j \in T : yf[n].key = Element \/ yf[j].key # yf[n].key
         /\ FirstPlaces(yf, T) \subseteq T /\ n \notin T
<1>1. \A i \in T : i \in Nat /\ i < n
  OBVIOUS
<1>2. n \notin T
  BY <1>1
<1>3. \A i \in T : \A j : j \in SameKey(yf, T \cup {n}, i)
                            <=> \/ j \in SameKey(yf, T, i)
                                \/ j = n /\ yf[i].key # Element /\ yf[n].key = yf[i].key
  BY <1>2 DEF SameKey
<1>4. \A j : j \in SameKey(yf, T \cup {n}, n)
               <=> j = n \/ (j \in T /\ yf[n].key # Element /\ yf[j].key = yf[n].key)
  BY DEF SameKey
<1>5. \A i \in T : i \in FirstPlaces(yf, T \cup {n}) <=> i \in FirstPlaces(yf, T)
  BY <1>1, <1>3 DEF FirstPlaces
<1>6. n \in FirstPlaces(yf, T \cup {n})
        <=> \A j \in T : yf[n].key = Element \/ yf[j].key # yf[n].key
  <2>1. n \in FirstPlaces(yf, T \cup {n}) <=> \A j \in SameKey(yf, T \cup {n}, n) : n <= j
    BY DEF FirstPlaces
  <2>2. \A j \in T : ~(n <= j)
    BY <1>1
  <2>3. n <= n
    OBVIOUS
  <2>4. ASSUME NEW j \in T, yf[n].key # Element, yf[j].key = yf[n].key
        PROVE  n \notin FirstPlaces(yf, T \cup {n})
    <3>1. j \in SameKey(yf, T \cup {n}, n)
      BY <1>4, <2>4
    <3>2. QED
      BY <2>1, <2>2, <3>1
  <2>5. ASSUME \A j \in T : yf[n].key = Element \/ yf[j].key # yf[n].key
        PROVE  n \in FirstPlaces(yf, T \cup {n})
    <3>1. \A j \in SameKey(yf, T \cup {n}, n) : j = n
      BY <1>4, <2>5
    <3>2. QED
      BY <2>1, <2>3, <3>1
  <2>6. QED
    BY <2>4, <2>5
<1>7. FirstPlaces(yf, T) \subseteq T
  BY DEF FirstPlaces
<1>8. QED
  BY <1>2, <1>3, <1>4, <1>5, <1>6, <1>7

\* A field has the key of its place.
LEMMA PlacedKeys ==
  ASSUME NEW f, NEW yf, NEW T, NEW table, NEW at, Placed(f, yf, T, table, at), NEW p \in DOMAIN f
  PROVE  f[p].key = yf[at[p]].key /\ at[p] \in FirstPlaces(yf, T) /\ at[p] \in T
<1>1. at[p] \in FirstPlaces(yf, T) /\ at[p] \in T
  BY DEF Placed, FirstPlaces
<1>2. PICK last \in SameKey(yf, T, at[p]) :
         f[p] = [key |-> yf[last].key, child |-> table[yf[last].child]]
  BY DEF Placed
<1>3. yf[last].key = yf[at[p]].key
  BY <1>2 DEF SameKey
<1>4. QED
  BY <1>1, <1>2, <1>3

\* The same nodes in the table are the same fields.
LEMMA PlacedNames ==
  ASSUME NEW D, NEW f \in Seq([key : Keys, child : D]), NEW yf \in YFields,
         NEW T \in SUBSET DOMAIN yf, NEW table, NEW new, SameNames(D, table, new),
         NEW at, Placed(f, yf, T, table, at)
  PROVE  Placed(f, yf, T, new, at)
<1>1. ASSUME NEW p \in DOMAIN f
      PROVE  \E last \in SameKey(yf, T, at[p]) :
               /\ \A j \in SameKey(yf, T, at[p]) : j <= last
               /\ f[p] = [key |-> yf[last].key, child |-> new[yf[last].child]]
  <2>1. PICK last \in SameKey(yf, T, at[p]) :
           /\ \A j \in SameKey(yf, T, at[p]) : j <= last
           /\ f[p] = [key |-> yf[last].key, child |-> table[yf[last].child]]
    BY DEF Placed
  <2>2. f[p].child \in D /\ f[p].child = table[yf[last].child]
    <3>1. f[p] \in [key : Keys, child : D]
      BY LenProperties, ElementOfSeq
    <3>2. QED
      BY <2>1, <3>1
  <2>3. yf[last].child \in YNode
    <3>1. last \in DOMAIN yf
      BY DEF SameKey
    <3>2. yf[last] \in [key : Keys \cup {Complex}, child : YNode]
      BY <3>1, LenProperties, ElementOfSeq DEF YFields
    <3>3. QED
      BY <3>2
  <2>4. new[yf[last].child] = table[yf[last].child]
    BY <2>2, <2>3 DEF SameNames
  <2>5. QED
    BY <2>1, <2>4
<1>2. QED
  BY <1>1 DEF Placed

\* An element, or a key that is new, comes last.
LEMMA BuiltAtEnd ==
  ASSUME NEW S, NEW f \in Seq(S), NEW yf, NEW n \in Nat, NEW T \in SUBSET (1..(n - 1)),
         NEW table, NEW at, Placed(f, yf, T, table, at),
         \A j \in T : yf[n].key = Element \/ yf[j].key # yf[n].key,
         NEW new \in S, new = [key |-> yf[n].key, child |-> table[yf[n].child]],
         NEW g, g = Append(f, new)
  PROVE  Built(g, yf, T \cup {n}, table)
<1> DEFINE k == Len(f)
           U == T \cup {n}
           to == [p \in 1..(k + 1) |-> IF p = k + 1 THEN n ELSE at[p]]
           F == FirstPlaces(yf, T)
           G == FirstPlaces(yf, U)
<1>1. /\ k \in Nat /\ DOMAIN f = 1..k /\ DOMAIN g = 1..(k + 1)
      /\ \A p \in 1..k : g[p] = f[p]
      /\ g[k + 1] = new
  <2>1. k \in Nat /\ DOMAIN f = 1..k
    BY LenProperties
  <2>2. /\ g \in Seq(S) /\ Len(g) = k + 1 /\ \A p \in 1..k : g[p] = f[p]
        /\ g[k + 1] = new
    BY AppendProperties
  <2>3. DOMAIN g = 1..(k + 1)
    BY <2>2, LenProperties
  <2>4. QED
    BY <2>1, <2>2, <2>3
<1>2. \A i \in T : i \in Nat /\ i < n
  OBVIOUS
<1>3. /\ \A i \in T : \A j : j \in SameKey(yf, U, i) <=> j \in SameKey(yf, T, i)
      /\ \A j : j \in SameKey(yf, U, n) <=> j = n
      /\ \A i \in T : i \in G <=> i \in F
      /\ n \in G /\ F \subseteq T /\ n \notin T /\ G \subseteq U
  <2>1. /\ \A i \in T :
             /\ \A j : j \in SameKey(yf, U, i)
                         <=> \/ j \in SameKey(yf, T, i)
                             \/ j = n /\ yf[i].key # Element /\ yf[n].key = yf[i].key
             /\ i \in G <=> i \in F
        /\ \A j : j \in SameKey(yf, U, n)
                    <=> j = n \/ (j \in T /\ yf[n].key # Element /\ yf[j].key = yf[n].key)
        /\ n \in G <=> \A j \in T : yf[n].key = Element \/ yf[j].key # yf[n].key
        /\ F \subseteq T /\ n \notin T
    BY LaterPlace
  <2>2. G \subseteq U
    BY DEF FirstPlaces
  <2> HIDE DEF F, G, U
  <2>3. n \in G
    BY <2>1
  <2>4. \A j : j \in SameKey(yf, U, n) <=> j = n
    BY <2>1
  <2>5. \A i \in T : \A j : j \in SameKey(yf, U, i) <=> j \in SameKey(yf, T, i)
    <3> SUFFICES ASSUME NEW i \in T, NEW j PROVE j \in SameKey(yf, U, i) <=> j \in SameKey(yf, T, i)
      OBVIOUS
    <3>1. ~(yf[i].key # Element /\ yf[n].key = yf[i].key)
      OBVIOUS
    <3>2. QED
      BY <2>1, <3>1
  <2>6. QED
    BY <2>1, <2>2, <2>3, <2>4, <2>5
<1>4. /\ at \in [1..k -> F]
      /\ \A i \in F : \E p \in 1..k : at[p] = i
      /\ \A p, q \in 1..k : p < q => at[p] < at[q]
      /\ \A p \in 1..k : \E last \in SameKey(yf, T, at[p]) :
           /\ \A j \in SameKey(yf, T, at[p]) : j <= last
           /\ f[p] = [key |-> yf[last].key, child |-> table[yf[last].child]]
  BY <1>1 DEF Placed
<1> HIDE DEF F, G, U, k
<1>5. /\ DOMAIN to = 1..(k + 1) /\ to[k + 1] = n
      /\ \A p \in 1..k : to[p] = at[p] /\ at[p] \in F /\ at[p] \in T
  <2>1. DOMAIN to = 1..(k + 1) /\ to[k + 1] = n
    BY <1>1
  <2>2. \A p \in 1..k : to[p] = at[p]
    BY <1>1
  <2>3. \A p \in 1..k : at[p] \in F /\ at[p] \in T
    BY <1>3, <1>4
  <2>4. QED
    BY <2>1, <2>2, <2>3
<1>6. \A p \in 1..(k + 1) : p = k + 1 \/ p \in 1..k
  BY <1>1
<1>7. to \in [1..(k + 1) -> G]
  <2>1. \A p \in 1..(k + 1) : to[p] \in G
    BY <1>3, <1>5, <1>6
  <2>2. QED
    BY <2>1
<1> HIDE DEF to
<1>8. \A i \in G : \E p \in 1..(k + 1) : to[p] = i
  <2> SUFFICES ASSUME NEW i \in G PROVE \E p \in 1..(k + 1) : to[p] = i
    OBVIOUS
  <2>1. CASE i = n
    BY <1>1, <1>5, <2>1
  <2>2. CASE i \in F
    <3>1. PICK p \in 1..k : at[p] = i
      BY <1>4, <2>2
    <3>2. p \in 1..(k + 1)
      BY <1>1
    <3>3. QED
      BY <1>5, <3>1, <3>2
  <2>3. i = n \/ i \in F
    BY <1>3 DEF U
  <2>4. QED
    BY <2>1, <2>2, <2>3
<1>9. \A p, q \in 1..(k + 1) : p < q => to[p] < to[q]
  <2> SUFFICES ASSUME NEW p \in 1..(k + 1), NEW q \in 1..(k + 1), p < q PROVE to[p] < to[q]
    OBVIOUS
  <2>1. p \in 1..k
    BY <1>1
  <2>2. CASE q \in 1..k
    BY <1>4, <1>5, <2>1, <2>2
  <2>3. CASE q = k + 1
    BY <1>2, <1>5, <2>1, <2>3
  <2>4. QED
    BY <1>6, <2>2, <2>3
<1>10. ASSUME NEW p \in 1..(k + 1)
       PROVE  \E last \in SameKey(yf, U, to[p]) :
                /\ \A j \in SameKey(yf, U, to[p]) : j <= last
                /\ g[p] = [key |-> yf[last].key, child |-> table[yf[last].child]]
  <2>1. CASE p = k + 1
    <3>1. to[p] = n /\ g[p] = new
      BY <1>1, <1>5, <2>1
    <3>2. n \in SameKey(yf, U, n) /\ \A j \in SameKey(yf, U, n) : j <= n
      BY <1>3
    <3>3. QED
      BY <3>1, <3>2
  <2>2. CASE p \in 1..k
    <3>1. to[p] = at[p] /\ at[p] \in T /\ g[p] = f[p]
      BY <1>1, <1>5, <2>2
    <3>2. PICK last \in SameKey(yf, T, at[p]) :
             /\ \A j \in SameKey(yf, T, at[p]) : j <= last
             /\ f[p] = [key |-> yf[last].key, child |-> table[yf[last].child]]
      BY <1>4, <2>2
    <3>3. \A j : j \in SameKey(yf, U, at[p]) <=> j \in SameKey(yf, T, at[p])
      BY <1>3, <3>1
    <3>4. QED
      BY <3>1, <3>2, <3>3
  <2>3. QED
    BY <1>6, <2>1, <2>2
<1>11. Placed(g, yf, U, table, to)
  BY <1>1, <1>7, <1>8, <1>9, <1>10 DEF Placed, G
<1>12. QED
  BY <1>11, PlacedIs DEF U

\* A key that was there has another value in its place.
LEMMA BuiltInPlace ==
  ASSUME NEW S, NEW f \in Seq(S), NEW yf, NEW n \in Nat, NEW T \in SUBSET (1..(n - 1)),
         NEW table, NEW at, Placed(f, yf, T, table, at),
         NEW key, key = yf[n].key, key # Element, NEW known \in T, yf[known].key = key,
         NEW new, new = [key |-> key, child |-> table[yf[n].child]],
         NEW g, g = [p \in DOMAIN f |-> IF f[p].key = key THEN new ELSE f[p]]
  PROVE  Built(g, yf, T \cup {n}, table)
<1> DEFINE U == T \cup {n}
           F == FirstPlaces(yf, T)
           G == FirstPlaces(yf, U)
<1>1. /\ \A i \in T :
           /\ \A j : j \in SameKey(yf, U, i)
                       <=> \/ j \in SameKey(yf, T, i)
                           \/ j = n /\ yf[i].key # Element /\ yf[n].key = yf[i].key
           /\ i \in G <=> i \in F
      /\ n \in G <=> \A j \in T : yf[n].key = Element \/ yf[j].key # yf[n].key
      /\ F \subseteq T
  BY LaterPlace
<1>2. G \subseteq U
  BY DEF FirstPlaces
<1>3. \A p \in DOMAIN f : f[p].key = yf[at[p]].key /\ at[p] \in F /\ at[p] \in T
  BY PlacedKeys
<1>4. \A i \in T : i \in Nat /\ i < n
  OBVIOUS
<1> HIDE DEF F, G, U
<1>5. G = F
  <2>1. n \notin G
    BY <1>1
  <2>2. \A i \in G : i \in T
    BY <1>2, <2>1 DEF U
  <2>3. QED
    BY <1>1, <2>2
<1>6. DOMAIN g = DOMAIN f /\ \A p \in DOMAIN f : g[p] = IF f[p].key = key THEN new ELSE f[p]
  OBVIOUS
<1>7. ASSUME NEW p \in DOMAIN f
      PROVE  \E last \in SameKey(yf, U, at[p]) :
               /\ \A j \in SameKey(yf, U, at[p]) : j <= last
               /\ g[p] = [key |-> yf[last].key, child |-> table[yf[last].child]]
  <2> DEFINE i == at[p]
  <2>1. i \in T /\ f[p].key = yf[i].key
    BY <1>3
  <2>2. \A j : j \in SameKey(yf, U, i)
                 <=> \/ j \in SameKey(yf, T, i)
                     \/ j = n /\ yf[i].key # Element /\ yf[n].key = yf[i].key
    BY <1>1, <2>1
  <2>3. PICK last \in SameKey(yf, T, i) :
           /\ \A j \in SameKey(yf, T, i) : j <= last
           /\ f[p] = [key |-> yf[last].key, child |-> table[yf[last].child]]
    BY DEF Placed
  <2> HIDE DEF i
  <2>4. CASE yf[i].key = key
    <3>1. n \in SameKey(yf, U, i)
      BY <2>2, <2>4
    <3>2. \A j \in SameKey(yf, U, i) : j <= n
      <4> SUFFICES ASSUME NEW j \in SameKey(yf, U, i) PROVE j <= n
        OBVIOUS
      <4>1. j = n \/ j \in T
        BY DEF SameKey, U
      <4>2. CASE j \in T
        BY <1>4, <4>2
      <4>3. CASE j = n
        BY <4>3
      <4>4. QED
        BY <4>1, <4>2, <4>3
    <3>3. g[p] = [key |-> yf[n].key, child |-> table[yf[n].child]]
      BY <1>6, <2>1, <2>4
    <3>4. QED
      BY <3>1, <3>2, <3>3 DEF i
  <2>5. CASE yf[i].key # key
    <3>1. \A j : j \in SameKey(yf, U, i) <=> j \in SameKey(yf, T, i)
      BY <2>2, <2>5
    <3>2. g[p] = f[p]
      BY <1>6, <2>1, <2>5
    <3>3. QED
      BY <2>3, <3>1, <3>2 DEF i
  <2>6. QED
    BY <2>4, <2>5
<1>8. Placed(g, yf, U, table, at)
  <2>1. /\ at \in [DOMAIN f -> F]
        /\ \A i \in F : \E p \in DOMAIN f : at[p] = i
        /\ \A p, q \in DOMAIN f : p < q => at[p] < at[q]
    BY DEF Placed, F
  <2>2. /\ at \in [DOMAIN g -> G]
        /\ \A i \in G : \E p \in DOMAIN g : at[p] = i
        /\ \A p, q \in DOMAIN g : p < q => at[p] < at[q]
    BY <1>5, <1>6, <2>1
  <2>3. QED
    BY <1>6, <1>7, <2>2 DEF Placed, G
<1>9. QED
  BY <1>8, PlacedIs DEF U

\* A field of the libyaml node that is stored.
LEMMA BuiltGrows ==
  ASSUME NEW D, NEW f \in Seq([key : Keys, child : D]), NEW yf, NEW n \in Nat,
         NEW T \in SUBSET (1..(n - 1)), NEW table, Built(f, yf, T, table),
         NEW key \in Keys, key = yf[n].key, NEW c \in D, c = table[yf[n].child],
         NEW g, g = Stored(f, key, c)
  PROVE  Built(g, yf, T \cup {n}, table)
<1> DEFINE new == [key |-> key, child |-> c]
           S == [key : Keys, child : D]
<1>1. PICK at : Placed(f, yf, T, table, at)
  BY PlacedIs
<1>2. new \in S /\ f \in Seq(S) /\ new = [key |-> yf[n].key, child |-> table[yf[n].child]]
  OBVIOUS
<1>3. CASE \A j \in T : key = Element \/ yf[j].key # key
  <2>1. key = Element \/ \A p \in DOMAIN f : f[p].key # key
    <3>1. \A p \in DOMAIN f : f[p].key = yf[at[p]].key /\ at[p] \in T
      BY <1>1, PlacedKeys
    <3>2. QED
      BY <1>3, <3>1
  <2>2. g = Append(f, new)
    BY <2>1 DEF Stored
  <2> HIDE DEF new, S
  <2>3. QED
    BY <1>1, <1>2, <1>3, <2>2, BuiltAtEnd
<1>4. CASE ~\A j \in T : key = Element \/ yf[j].key # key
  <2>1. PICK known \in T : key # Element /\ yf[known].key = key
    BY <1>4
  <2>2. \E p \in DOMAIN f : f[p].key = key
    <3> DEFINE K == SameKey(yf, T, known)
    <3>1. K \in SUBSET Nat /\ K # {}
      <4>1. T \subseteq Nat /\ known \in K
        BY DEF SameKey
      <4>2. K \subseteq T
        BY DEF SameKey
      <4>3. QED
        BY <4>1, <4>2
    <3>2. PICK i \in K : \A j \in K : i <= j
      BY <3>1, Smallest
    <3>3. i \in T /\ yf[i].key = key
      BY <2>1 DEF SameKey
    <3>4. \A j \in SameKey(yf, T, i) : j \in K
      BY <2>1, <3>3 DEF SameKey
    <3>5. i \in FirstPlaces(yf, T)
      BY <3>2, <3>3, <3>4 DEF FirstPlaces
    <3>6. PICK p \in DOMAIN f : at[p] = i
      BY <1>1, <3>5 DEF Placed
    <3>7. f[p].key = yf[at[p]].key
      BY <1>1, PlacedKeys
    <3>8. QED
      BY <3>3, <3>6, <3>7
  <2>3. g = [p \in DOMAIN f |-> IF f[p].key = key THEN new ELSE f[p]]
    BY <2>1, <2>2 DEF Stored
  <2>4. new = [key |-> key, child |-> table[yf[n].child]] /\ f \in Seq(S)
    OBVIOUS
  <2> HIDE DEF new, S
  <2>5. QED
    BY <1>1, <2>1, <2>3, <2>4, BuiltInPlace
<1>5. QED
  BY <1>3, <1>4

\* The stack is a path, and its end is what is in work.
Linked(d, frames) ==
    \A i \in DOMAIN frames : i # Len(frames) =>
      d.fields[frames[i].ynode][frames[i].next].child = frames[i + 1].ynode
InWork(frames, table) ==
    \A y \in YNode : table[y] = InProgress => \E i \in DOMAIN frames : frames[i].ynode = y

\* A node on the stack has the fields that were visited, one in the table has all.
Halfway(h, d, frames, table) ==
    \A i \in DOMAIN frames :
      /\ frames[i].next <= Len(d.fields[frames[i].ynode]) + 1
      /\ Rendered(h[frames[i].node].fields, d, table, frames[i].ynode, frames[i].next)
Complete(h, d, table) ==
    \A y \in YNode : table[y] \in DOMAIN h =>
      Rendered(h[table[y]].fields, d, table, y, Len(d.fields[y]) + 1)

Told ==
    /\ Linked(doc, stack) /\ InWork(stack, anchors)
    /\ Halfway(heap, doc, stack, anchors) /\ Complete(heap, doc, anchors)

\* The fields of a libyaml node.
LEMMA YFieldsAre ==
  ASSUME NEW d, IsDocument(d), NEW y \in YNode
  PROVE  /\ d.fields[y] \in YFields /\ Len(d.fields[y]) \in Nat
         /\ DOMAIN d.fields[y] = 1..Len(d.fields[y])
         /\ \A i \in DOMAIN d.fields[y] : d.fields[y][i].child \in YNode
<1>1. d.fields[y] \in YFields
  BY DEF IsDocument, YFields
<1>2. Len(d.fields[y]) \in Nat /\ DOMAIN d.fields[y] = 1..Len(d.fields[y])
  BY <1>1, LenProperties DEF YFields
<1>3. ASSUME NEW i \in DOMAIN d.fields[y]
      PROVE  d.fields[y][i].child \in YNode
  <2>1. d.fields[y][i] \in [key : Keys \cup {Complex}, child : YNode]
    BY <1>1, <1>2, ElementOfSeq DEF YFields
  <2>2. QED
    BY <2>1
<1>4. QED
  BY <1>1, <1>2, <1>3

\* The same nodes in the table are the same fields.
LEMMA RenderedNames ==
  ASSUME NEW D, NEW f \in Seq([key : Keys, child : D]), NEW d, IsDocument(d), NEW y \in YNode,
         NEW next \in Nat \ {0}, next <= Len(d.fields[y]) + 1,
         NEW table, NEW new, SameNames(D, table, new), Rendered(f, d, table, y, next)
  PROVE  Rendered(f, d, new, y, next)
<1>1. PICK T \in SUBSET (1..(next - 1)) :
         /\ \A i \in 1..(next - 1) :
              IF i \in T
                THEN d.fields[y][i].key # Complex
                ELSE \/ d.fields[y][i].key = Complex
                     \/ y \in ReachedFrom(d.fields, d.fields[y][i].child)
         /\ Built(f, d.fields[y], T, table)
  BY DEF Rendered
<1>2. PICK at : Placed(f, d.fields[y], T, table, at)
  BY <1>1, PlacedIs
<1>3. d.fields[y] \in YFields /\ T \in SUBSET DOMAIN d.fields[y]
  <2>1. /\ d.fields[y] \in YFields /\ Len(d.fields[y]) \in Nat
        /\ DOMAIN d.fields[y] = 1..Len(d.fields[y])
    BY YFieldsAre
  <2>2. 1..(next - 1) \subseteq 1..Len(d.fields[y])
    BY <2>1
  <2>3. QED
    BY <2>1, <2>2
<1> DEFINE yf == d.fields[y]
<1>4. yf \in YFields /\ T \in SUBSET DOMAIN yf /\ Placed(f, yf, T, table, at)
  BY <1>2, <1>3
<1> HIDE DEF yf
<1>5. Placed(f, yf, T, new, at)
  BY <1>4, PlacedNames
<1>6. Built(f, d.fields[y], T, new)
  BY <1>5, PlacedIs DEF yf
<1>7. QED
  BY <1>1, <1>6 DEF Rendered

\* A field that is left out.
LEMMA RenderedSkips ==
  ASSUME NEW f, NEW d, NEW y \in YNode, NEW next \in Nat \ {0}, NEW table,
         \/ d.fields[y][next].key = Complex
         \/ y \in ReachedFrom(d.fields, d.fields[y][next].child),
         Rendered(f, d, table, y, next)
  PROVE  Rendered(f, d, table, y, next + 1)
<1>1. PICK T \in SUBSET (1..(next - 1)) :
         /\ \A i \in 1..(next - 1) :
              IF i \in T
                THEN d.fields[y][i].key # Complex
                ELSE \/ d.fields[y][i].key = Complex
                     \/ y \in ReachedFrom(d.fields, d.fields[y][i].child)
         /\ Built(f, d.fields[y], T, table)
  BY DEF Rendered
<1>2. (next + 1) - 1 = next /\ next \notin T
  OBVIOUS
<1>3. T \in SUBSET (1..next) /\ \A i \in 1..next : i = next \/ i \in 1..(next - 1)
  OBVIOUS
<1>4. \A i \in 1..next :
        IF i \in T
          THEN d.fields[y][i].key # Complex
          ELSE \/ d.fields[y][i].key = Complex
               \/ y \in ReachedFrom(d.fields, d.fields[y][i].child)
  BY <1>1, <1>2, <1>3
<1>5. QED
  BY <1>1, <1>2, <1>3, <1>4 DEF Rendered

\* A field that is stored.
LEMMA RenderedGrows ==
  ASSUME NEW D, NEW f \in Seq([key : Keys, child : D]), NEW d, NEW y \in YNode,
         NEW next \in Nat \ {0}, NEW table, Rendered(f, d, table, y, next),
         NEW key \in Keys, key = d.fields[y][next].key,
         NEW c \in D, c = table[d.fields[y][next].child], NEW g, g = Stored(f, key, c)
  PROVE  Rendered(g, d, table, y, next + 1)
<1>1. PICK T \in SUBSET (1..(next - 1)) :
         /\ \A i \in 1..(next - 1) :
              IF i \in T
                THEN d.fields[y][i].key # Complex
                ELSE \/ d.fields[y][i].key = Complex
                     \/ y \in ReachedFrom(d.fields, d.fields[y][i].child)
         /\ Built(f, d.fields[y], T, table)
  BY DEF Rendered
<1> DEFINE yf == d.fields[y]
           U == T \cup {next}
<1>2. Built(f, yf, T, table) /\ key = yf[next].key /\ c = table[yf[next].child] /\ next \in Nat
  BY <1>1
<1>3. Built(g, yf, U, table)
  <2> HIDE DEF yf
  <2>1. QED
    BY <1>2, BuiltGrows
<1>4. key # Complex
  BY ConvertAssumption DEF Keys
<1>5. /\ (next + 1) - 1 = next /\ U \in SUBSET (1..next)
      /\ \A i \in 1..next : i = next \/ (i \in 1..(next - 1) /\ (i \in U <=> i \in T))
  <2>1. (next + 1) - 1 = next /\ next \in 1..next
    OBVIOUS
  <2>2. 1..(next - 1) \subseteq 1..next
    OBVIOUS
  <2>3. \A i \in 1..next : i = next \/ (i \in 1..(next - 1) /\ i # next)
    OBVIOUS
  <2>4. QED
    BY <2>1, <2>2, <2>3
<1>6. \A i \in 1..next :
        IF i \in U
          THEN d.fields[y][i].key # Complex
          ELSE \/ d.fields[y][i].key = Complex
               \/ y \in ReachedFrom(d.fields, d.fields[y][i].child)
  <2> SUFFICES ASSUME NEW i \in 1..next
               PROVE  IF i \in U
                        THEN d.fields[y][i].key # Complex
                        ELSE \/ d.fields[y][i].key = Complex
                             \/ y \in ReachedFrom(d.fields, d.fields[y][i].child)
    OBVIOUS
  <2>1. CASE i = next
    BY <1>2, <1>4, <2>1
  <2>2. CASE i \in 1..(next - 1) /\ (i \in U <=> i \in T)
    BY <1>1, <2>2
  <2>3. QED
    BY <1>5, <2>1, <2>2
<1>7. QED
  BY <1>3, <1>5, <1>6 DEF Rendered

\* A node without fields, before its first one.
LEMMA RenderedFirst ==
  ASSUME NEW d, NEW y \in YNode, NEW table
  PROVE  Rendered(<<>>, d, table, y, 1)
<1> DEFINE yf == d.fields[y]
           at == [p \in {} |-> p]
<1>1. FirstPlaces(yf, {}) = {}
  BY DEF FirstPlaces
<1>2. DOMAIN <<>> = {}
  OBVIOUS
<1>3. Placed(<<>>, yf, {}, table, at)
  BY <1>1, <1>2 DEF Placed
<1>4. Built(<<>>, yf, {}, table)
  BY <1>3, PlacedIs
<1>5. 1..(1 - 1) = {}
  OBVIOUS
<1>6. QED
  BY <1>4, <1>5 DEF Rendered

\* What is on the stack leads to its end.
LEMMA PathLeads ==
  ASSUME Fits, Linked(doc, stack), NEW i \in DOMAIN stack
  PROVE  Top.ynode \in ReachedFrom(doc.fields, stack[i].ynode)
<1> DEFINE next == YChildren(doc.fields)
           y == stack[i].ynode
           R == Reach(next, {y})
           k == Len(stack)
           Bad == {j \in i..k : stack[j].ynode \notin R}
<1>1. /\ stack \in Seq(FrameSet(DOMAIN heap)) /\ IsDocument(doc) /\ AllWait(doc, stack)
      /\ k \in Nat /\ DOMAIN stack = 1..k /\ i \in 1..k
      /\ \A j \in 1..k : stack[j].ynode \in YNode
  <2>1. stack \in Seq(FrameSet(DOMAIN heap)) /\ IsDocument(doc) /\ AllWait(doc, stack)
    BY DEF Fits, IsStack
  <2>2. k \in Nat /\ DOMAIN stack = 1..k /\ \A j \in DOMAIN stack : stack[j].ynode \in YNode
    BY <2>1, FramesAre
  <2>3. QED
    BY <2>1, <2>2
<1>2. IsGraph(next) /\ DOMAIN next = YNode
  <2>1. \A z \in YNode : next[z] \subseteq YNode
    BY <1>1, YFieldsAre DEF YChildren
  <2>2. DOMAIN next = YNode
    BY DEF YChildren
  <2>3. next \in [YNode -> SUBSET YNode]
    <3>1. next = [z \in YNode |-> next[z]]
      BY DEF YChildren
    <3>2. QED
      BY <2>1, <3>1
  <2>4. QED
    BY <2>2, <2>3, ConvertAssumption DEF IsGraph
<1>3. {y} \in SUBSET DOMAIN next
  BY <1>1, <1>2
<1>4. y \in R /\ Closed(next, R)
  <2>1. {y} \subseteq R /\ Closed(next, R)
    BY <1>2, <1>3, ReachBounded, ReachClosed
  <2>2. QED
    BY <2>1
<1>5. ASSUME NEW j \in 1..k, j # k, stack[j].ynode \in R
      PROVE  stack[j + 1].ynode \in R
  <2>1. Waits(doc, stack[j])
    BY <1>1, <1>5 DEF AllWait
  <2>2. doc.fields[stack[j].ynode][stack[j].next].child = stack[j + 1].ynode
    BY <1>1, <1>5 DEF Linked
  <2>3. stack[j + 1].ynode \in next[stack[j].ynode]
    <3>1. stack[j].ynode \in YNode /\ stack[j].next \in DOMAIN doc.fields[stack[j].ynode]
      BY <1>1, <2>1 DEF Waits
    <3>2. QED
      BY <2>2, <3>1 DEF YChildren
  <2>4. QED
    BY <1>4, <1>5, <2>3 DEF Closed
<1> HIDE DEF next, R, k
<1>6. Bad = {}
  <2> SUFFICES ASSUME Bad # {} PROVE FALSE
    OBVIOUS
  <2>1. Bad \in SUBSET Nat
    BY <1>1
  <2>2. PICK j \in Bad : \A m \in Bad : j <= m
    BY <2>1, Smallest
  <2>3. j \in i..k /\ stack[j].ynode \notin R /\ j # i
    BY <1>4
  <2>4. j - 1 \in 1..k /\ j - 1 \in i..k /\ j - 1 # k /\ ~(j <= j - 1) /\ (j - 1) + 1 = j
    BY <1>1, <2>3
  <2>5. j - 1 \notin Bad
    BY <2>2, <2>4
  <2>6. stack[j - 1].ynode \in R
    BY <2>4, <2>5
  <2>7. stack[(j - 1) + 1].ynode \in R
    BY <1>5, <2>4, <2>6
  <2>8. QED
    BY <2>3, <2>4, <2>7
<1>7. stack[k].ynode \in R /\ k \in 1..k
  <2>1. k \in 1..k /\ k \in i..k
    BY <1>1
  <2>2. QED
    BY <1>6, <2>1
<1>8. Top = stack[k]
  <2>1. stack # <<>>
    OBVIOUS
  <2>2. QED
    BY <2>1, TopIs DEF k
<1>9. QED
  BY <1>7, <1>8 DEF ReachedFrom, R, next

\* A node in the table is not on the stack, and another is in each place of it.
LEMMA ApartAre ==
  ASSUME Fits
  PROVE  /\ \A i \in DOMAIN stack : \A y \in YNode :
              anchors[y] \in DOMAIN heap => anchors[y] # stack[i].node
         /\ \A i, j \in DOMAIN stack : stack[i].node = stack[j].node => i = j
<1>1. /\ IsHeap(heap) /\ IsStack(heap, stack) /\ Tabled(heap, anchors) /\ Marked(stack, anchors)
  BY DEF Fits
<1>2. ASSUME NEW i \in DOMAIN stack, NEW y \in YNode, anchors[y] \in DOMAIN heap,
             anchors[y] = stack[i].node
      PROVE  FALSE
  <2>1. heap[stack[i].node].ynode = stack[i].ynode /\ heap[anchors[y]].ynode = y
    BY <1>1, <1>2 DEF IsStack, Tabled
  <2>2. anchors[y] = InProgress
    BY <1>1, <1>2, <2>1 DEF Marked
  <2>3. QED
    BY <1>1, <1>2, <2>2, NodesAreNumbers
<1>3. \A i, j \in DOMAIN stack : stack[i].node = stack[j].node => i = j
  BY <1>1 DEF IsStack
<1>4. QED
  BY <1>2, <1>3

\* Nodes on the stack and in the table that a step leaves alone.
InUse(n) == OnStack(stack, n) \/ \E y \in YNode : anchors[y] = n
Untouched(g, p) == \A n \in DOMAIN heap : n # p /\ InUse(n) => g[n].fields = heap[n].fields

\* They still have the fields they should have.
LEMMA OthersStay ==
  ASSUME Fits, Told, NEW new, SameNames(DOMAIN heap, anchors, new), NEW g, NEW p, Untouched(g, p)
  PROVE  /\ \A i \in DOMAIN stack : stack[i].node # p =>
              Rendered(g[stack[i].node].fields, doc, new, stack[i].ynode, stack[i].next)
         /\ \A y \in YNode : anchors[y] \in DOMAIN heap /\ anchors[y] # p =>
              Rendered(g[anchors[y]].fields, doc, new, y, Len(doc.fields[y]) + 1)
<1>1. /\ IsHeap(heap) /\ IsDocument(doc) /\ stack \in Seq(FrameSet(DOMAIN heap))
  BY DEF Fits, IsStack
<1>2. ASSUME NEW i \in DOMAIN stack, stack[i].node # p
      PROVE  Rendered(g[stack[i].node].fields, doc, new, stack[i].ynode, stack[i].next)
  <2> DEFINE n == stack[i].node
             f == heap[n].fields
             y == stack[i].ynode
             next == stack[i].next
  <2>1. n \in DOMAIN heap /\ y \in YNode /\ next \in Nat \ {0}
    BY <1>1, FramesAre
  <2>2. g[n].fields = f
    BY <1>2, <2>1 DEF Untouched, InUse, OnStack
  <2>3. f \in Seq([key : Keys, child : DOMAIN heap])
    BY <1>1, <2>1, NodeFields
  <2>4. next <= Len(doc.fields[y]) + 1 /\ Rendered(f, doc, anchors, y, next)
    BY DEF Told, Halfway
  <2> HIDE DEF n, f, y, next
  <2>5. Rendered(f, doc, new, y, next)
    BY <1>1, <2>1, <2>3, <2>4, RenderedNames
  <2>6. QED
    BY <2>2, <2>5 DEF n, y, next
<1>3. ASSUME NEW y \in YNode, anchors[y] \in DOMAIN heap, anchors[y] # p
      PROVE  Rendered(g[anchors[y]].fields, doc, new, y, Len(doc.fields[y]) + 1)
  <2> DEFINE n == anchors[y]
             f == heap[n].fields
             next == Len(doc.fields[y]) + 1
  <2>1. n \in DOMAIN heap /\ g[n].fields = f
    BY <1>3 DEF Untouched, InUse
  <2>2. next \in Nat \ {0} /\ next <= Len(doc.fields[y]) + 1
    BY <1>1, YFieldsAre
  <2>3. f \in Seq([key : Keys, child : DOMAIN heap])
    BY <1>1, <2>1, NodeFields
  <2>4. Rendered(f, doc, anchors, y, next)
    BY <1>3 DEF Told, Complete
  <2> HIDE DEF n, f, next
  <2>5. Rendered(f, doc, new, y, next)
    BY <1>1, <2>2, <2>3, <2>4, RenderedNames
  <2>6. QED
    BY <2>1, <2>5 DEF n, next
<1>4. QED
  BY <1>2, <1>3

\* The last frame is one field further.
LEMMA NextIs ==
  ASSUME NEW D, NEW frames \in Seq(FrameSet(D)), frames # <<>>
  PROVE  /\ DOMAIN NextField(frames) = DOMAIN frames /\ Len(NextField(frames)) = Len(frames)
         /\ \A i \in DOMAIN frames :
              /\ NextField(frames)[i].ynode = frames[i].ynode
              /\ NextField(frames)[i].node = frames[i].node
              /\ NextField(frames)[i].next
                   = IF i = Len(frames) THEN frames[i].next + 1 ELSE frames[i].next
<1> DEFINE after == NextField(frames)
<1>1. after = NextField(frames)
  OBVIOUS
<1>2. \A i \in DOMAIN frames :
        after[i].next = IF i = Len(frames) THEN frames[i].next + 1 ELSE frames[i].next
  <2>1. \A i \in DOMAIN frames : frames[i] \in FrameSet(D)
    BY FramesAre
  <2>2. QED
    BY <2>1 DEF NextField, FrameSet
<1> HIDE DEF after
<1>3. SameFrames(frames, after)
  BY <1>1, NextFieldIs
<1>4. QED
  BY <1>1, <1>2, <1>3 DEF SameFrames

\* A field is left out because of its key, or because it leads back.
LEMMA ToldSkipped ==
  ASSUME Fits, Told, Skips
  PROVE  Told'
<1> DEFINE k == Len(stack)
           after == stack'
           y == Top.ynode
           f == heap[Top.node].fields
           next == Top.next
<1>1. /\ stack # <<>> /\ ~Done /\ (TopField.key = Complex \/ anchors[TopField.child] = InProgress)
      /\ after = NextField(stack) /\ UNCHANGED <<doc, anchors, heap>>
  BY DEF Skips
<1>2. /\ Top = stack[k] /\ k \in DOMAIN stack /\ y \in YNode /\ next \in Nat \ {0}
      /\ next \in DOMAIN doc.fields[y] /\ TopField.child \in YNode
      /\ TopField = doc.fields[y][next]
  BY <1>1, TopIs DEF TopField
<1>3. stack \in Seq(FrameSet(DOMAIN heap)) /\ IsDocument(doc)
  BY DEF Fits, IsStack
<1>4. /\ DOMAIN after = DOMAIN stack /\ Len(after) = k
      /\ \A i \in DOMAIN stack :
           /\ after[i].ynode = stack[i].ynode /\ after[i].node = stack[i].node
           /\ after[i].next = IF i = k THEN stack[i].next + 1 ELSE stack[i].next
  BY <1>1, <1>3, NextIs
<1>5. DOMAIN stack = 1..k /\ k \in Nat
  BY <1>3, FramesAre
<1>6. Linked(doc, after)
  <2> SUFFICES ASSUME NEW i \in DOMAIN stack, i # k
               PROVE  doc.fields[after[i].ynode][after[i].next].child = after[i + 1].ynode
    BY <1>4 DEF Linked
  <2>1. i + 1 \in DOMAIN stack
    BY <1>5
  <2>2. doc.fields[stack[i].ynode][stack[i].next].child = stack[i + 1].ynode
    BY DEF Told, Linked
  <2>3. QED
    BY <1>4, <2>1, <2>2
<1>7. InWork(after, anchors)
  BY <1>4 DEF Told, InWork
<1>8. \/ doc.fields[y][next].key = Complex
      \/ y \in ReachedFrom(doc.fields, doc.fields[y][next].child)
  <2>1. CASE anchors[TopField.child] = InProgress
    <3>1. PICK i \in DOMAIN stack : stack[i].ynode = TopField.child
      BY <1>2, <2>1 DEF Told, InWork
    <3>2. y \in ReachedFrom(doc.fields, stack[i].ynode)
      BY PathLeads DEF Told
    <3>3. QED
      BY <1>2, <3>1, <3>2
  <2>2. QED
    BY <1>1, <1>2, <2>1
<1>9. Rendered(f, doc, anchors, y, next)
  BY <1>2 DEF Told, Halfway
<1> HIDE DEF f, y, next, k, after
<1>10. Rendered(f, doc, anchors, y, next + 1)
  BY <1>2, <1>8, <1>9, RenderedSkips
<1>11. Halfway(heap, doc, after, anchors)
  <2> SUFFICES ASSUME NEW i \in DOMAIN stack
               PROVE  /\ after[i].next <= Len(doc.fields[after[i].ynode]) + 1
                      /\ Rendered(heap[after[i].node].fields, doc, anchors, after[i].ynode,
                                  after[i].next)
    BY <1>4 DEF Halfway
  <2>1. CASE i = k
    <3>1. after[i].ynode = y /\ after[i].next = next + 1 /\ after[i].node = Top.node
      BY <1>2, <1>4, <2>1 DEF y, next
    <3>2. next + 1 <= Len(doc.fields[y]) + 1
      BY <1>2, <1>3, YFieldsAre
    <3>3. QED
      BY <1>10, <3>1, <3>2 DEF f
  <2>2. CASE i # k
    BY <1>4, <2>2 DEF Told, Halfway
  <2>3. QED
    BY <2>1, <2>2
<1>12. QED
  BY <1>1, <1>6, <1>7, <1>11 DEF Told, after

\* A converted node that is met again is stored.
LEMMA ToldShared ==
  ASSUME Fits, Told, NEW z \in YNode, Share(z)
  PROVE  Told'
<1> DEFINE k == Len(stack)
           after == stack'
           y == Top.ynode
           p == Top.node
           f == heap[p].fields
           next == Top.next
           key == TopField.key
           n == anchors[z]
           g == heap'
<1>1. /\ stack # <<>> /\ ~Done /\ key # Complex /\ TopField.child = z
      /\ n \in DOMAIN heap /\ after = NextField(stack) /\ UNCHANGED <<doc, anchors>>
  BY DEF Share, AtField, YamlNode
<1>2. g = StoredAt(heap, p, key, n)
  BY DEF Share, StoredAt
<1>3. /\ Top = stack[k] /\ k \in DOMAIN stack /\ y \in YNode /\ next \in Nat \ {0}
      /\ next \in DOMAIN doc.fields[y] /\ p \in DOMAIN heap
      /\ TopField = doc.fields[y][next] /\ key \in Keys \cup {Complex}
  BY <1>1, TopIs DEF TopField
<1>4. stack \in Seq(FrameSet(DOMAIN heap)) /\ IsDocument(doc) /\ IsHeap(heap)
  BY DEF Fits, IsStack
<1>5. /\ DOMAIN after = DOMAIN stack /\ Len(after) = k
      /\ \A i \in DOMAIN stack :
           /\ after[i].ynode = stack[i].ynode /\ after[i].node = stack[i].node
           /\ after[i].next = IF i = k THEN stack[i].next + 1 ELSE stack[i].next
  BY <1>1, <1>4, NextIs
<1>6. DOMAIN stack = 1..k /\ k \in Nat
  BY <1>4, FramesAre
<1>7. Linked(doc, after)
  <2> SUFFICES ASSUME NEW i \in DOMAIN stack, i # k
               PROVE  doc.fields[after[i].ynode][after[i].next].child = after[i + 1].ynode
    BY <1>5 DEF Linked
  <2>1. i + 1 \in DOMAIN stack
    BY <1>6
  <2>2. doc.fields[stack[i].ynode][stack[i].next].child = stack[i + 1].ynode
    BY DEF Told, Linked
  <2>3. QED
    BY <1>5, <2>1, <2>2
<1>8. InWork(after, anchors)
  BY <1>5 DEF Told, InWork
<1>9. Rendered(f, doc, anchors, y, next)
  BY <1>3 DEF Told, Halfway
<1>10. /\ key \in Keys /\ key = doc.fields[y][next].key
       /\ n = anchors[doc.fields[y][next].child]
  BY <1>1, <1>3
<1>11. f \in Seq([key : Keys, child : DOMAIN heap])
  BY <1>3, <1>4, NodeFields
<1> HIDE DEF f, y, next, k, after, key, n, p, g
<1>12. SameNodes(heap, g) /\ SameFieldsBut(heap, g, p) /\ g[p].fields = Stored(f, key, n)
  BY <1>1, <1>2, <1>3, <1>4, <1>10, NodeStoredIs DEF f
<1>13. Rendered(g[p].fields, doc, anchors, y, next + 1)
  BY <1>1, <1>3, <1>9, <1>10, <1>11, <1>12, RenderedGrows
<1>14. Untouched(g, p) /\ SameNames(DOMAIN heap, anchors, anchors)
  BY <1>12 DEF Untouched, SameFieldsBut, SameNames
<1>15. /\ \A i \in DOMAIN stack : stack[i].node # p =>
            Rendered(g[stack[i].node].fields, doc, anchors, stack[i].ynode, stack[i].next)
       /\ \A x \in YNode : anchors[x] \in DOMAIN heap /\ anchors[x] # p =>
            Rendered(g[anchors[x]].fields, doc, anchors, x, Len(doc.fields[x]) + 1)
  BY <1>14, OthersStay
<1>16. /\ \A i \in DOMAIN stack : i # k => stack[i].node # p
       /\ \A x \in YNode : anchors[x] \in DOMAIN heap => anchors[x] # p
  BY <1>3, ApartAre DEF p
<1>17. Halfway(g, doc, after, anchors)
  <2> SUFFICES ASSUME NEW i \in DOMAIN stack
               PROVE  /\ after[i].next <= Len(doc.fields[after[i].ynode]) + 1
                      /\ Rendered(g[after[i].node].fields, doc, anchors, after[i].ynode,
                                  after[i].next)
    BY <1>5 DEF Halfway
  <2>1. CASE i = k
    <3>1. after[i].ynode = y /\ after[i].next = next + 1 /\ after[i].node = p
      BY <1>3, <1>5, <2>1 DEF y, next, p
    <3>2. next + 1 <= Len(doc.fields[y]) + 1
      BY <1>3, <1>4, YFieldsAre
    <3>3. QED
      BY <1>13, <3>1, <3>2
  <2>2. CASE i # k
    <3>1. stack[i].next <= Len(doc.fields[stack[i].ynode]) + 1
      BY DEF Told, Halfway
    <3>2. Rendered(g[stack[i].node].fields, doc, anchors, stack[i].ynode, stack[i].next)
      BY <1>15, <1>16, <2>2
    <3>3. QED
      BY <1>5, <2>2, <3>1, <3>2
  <2>3. QED
    BY <2>1, <2>2
<1>18. Complete(g, doc, anchors)
  <2>1. DOMAIN g = DOMAIN heap
    BY <1>12 DEF SameNodes
  <2>2. QED
    BY <1>15, <1>16, <2>1 DEF Complete
<1>19. QED
  BY <1>1, <1>7, <1>8, <1>17, <1>18 DEF Told, after, g

\* The node at the top has all its fields when it is done.
LEMMA DoneIs ==
  ASSUME Fits, Told, stack # <<>>, Done
  PROVE  Top.next = Len(doc.fields[Top.ynode]) + 1
<1>1. /\ Top = stack[Len(stack)] /\ Len(stack) \in DOMAIN stack /\ Top.ynode \in YNode
      /\ Top.next \in Nat \ {0}
  BY TopIs
<1>2. Top.next <= Len(doc.fields[Top.ynode]) + 1
  BY <1>1 DEF Told, Halfway
<1>3. Len(doc.fields[Top.ynode]) \in Nat
  BY <1>1, YFieldsAre DEF Fits
<1>4. QED
  BY <1>1, <1>2, <1>3 DEF Done

\* The table with the node at the top.
LEMMA EnteredIs ==
  ASSUME Fits, stack # <<>>, NEW new, new = Entered(anchors, Top.ynode, Top.node)
  PROVE  /\ SameNames(DOMAIN heap, anchors, new)
         /\ \A x \in YNode : new[x] = IF x = Top.ynode THEN Top.node ELSE anchors[x]
<1>1. /\ Top = stack[Len(stack)] /\ Len(stack) \in DOMAIN stack
  BY TopIs
<1>2. /\ anchors \in [YNode -> DOMAIN heap \cup {Null, InProgress}] /\ IsHeap(heap)
      /\ Marked(stack, anchors)
  BY DEF Fits, IsTable
<1>3. anchors[Top.ynode] = InProgress /\ InProgress \notin DOMAIN heap
  BY <1>1, <1>2, NodesAreNumbers DEF Marked
<1>4. \A x \in YNode : new[x] = IF x = Top.ynode THEN Top.node ELSE anchors[x]
  BY <1>2 DEF Entered
<1>5. SameNames(DOMAIN heap, anchors, new)
  BY <1>3, <1>4 DEF SameNames
<1>6. QED
  BY <1>4, <1>5

\* A node that is converted is stored in the caller's, and it is in the table.
LEMMA ToldReturned ==
  ASSUME Fits, Told, Return
  PROVE  Told'
<1> DEFINE k == Len(stack)
           front == Front(stack)
           after == stack'
           new == anchors'
           n == Top.node
           z == Top.ynode
           p == Caller.node
           y == Caller.ynode
           next == Caller.next
           key == CallerKey
           f == heap[p].fields
           g == heap'
<1>1. k > 1 /\ Done /\ after = NextField(front) /\ UNCHANGED doc
  BY DEF Return
<1>2. /\ g = StoredAt(heap, p, key, n) /\ p \in DOMAIN heap /\ key \in Keys /\ n \in DOMAIN heap
      /\ new = Entered(anchors, z, n)
  BY ReturnKeeps
<1>3. stack \in Seq(FrameSet(DOMAIN heap)) /\ IsDocument(doc) /\ IsHeap(heap) /\ AllWait(doc, stack)
  BY DEF Fits, IsStack
<1>4. stack # <<>>
  BY <1>1
<1>5. /\ k \in Nat \ {0} /\ front \in Seq(FrameSet(DOMAIN heap)) /\ DOMAIN front = 1..(k - 1)
      /\ \A i \in 1..(k - 1) : front[i] = stack[i] /\ i \in DOMAIN stack
      /\ Len(front) = k - 1 /\ Top = stack[k] /\ k \in DOMAIN stack
  BY <1>3, <1>4, FramePopped DEF Top
<1>6. DOMAIN stack = 1..k
  BY <1>3, FramesAre
<1>7. front # <<>>
  <2>1. Len(<<>>) = 0
    OBVIOUS
  <2>2. QED
    BY <1>1, <1>5, <2>1
<1>8. k - 1 \in 1..(k - 1) /\ k - 1 \in DOMAIN stack /\ Caller = stack[k - 1] /\ k - 1 # k
      /\ (k - 1) + 1 = k
  <2>1. k - 1 \in 1..(k - 1) /\ k - 1 # k /\ (k - 1) + 1 = k
    BY <1>1, <1>5
  <2>2. QED
    BY <1>5, <2>1 DEF Caller
<1>9. y \in YNode /\ next \in Nat \ {0} /\ next \in DOMAIN doc.fields[y]
  <2>1. y \in YNode /\ next \in Nat \ {0}
    <3>1. \A i \in DOMAIN stack : stack[i].ynode \in YNode /\ stack[i].next \in Nat \ {0}
      BY <1>3, FramesAre
    <3>2. QED
      BY <1>8, <3>1
  <2>2. Waits(doc, stack[k - 1])
    BY <1>3, <1>8 DEF AllWait
  <2>3. QED
    BY <1>8, <2>1, <2>2 DEF Waits
<1>10. key = doc.fields[y][next].key
  BY DEF CallerKey
<1>11. doc.fields[y][next].child = z
  <2>1. doc.fields[stack[k - 1].ynode][stack[k - 1].next].child = stack[(k - 1) + 1].ynode
    BY <1>8 DEF Told, Linked
  <2>2. QED
    BY <1>5, <1>8, <2>1
<1> HIDE DEF front, after, g, key
<1>12. SameNames(DOMAIN heap, anchors, new)
       /\ \A x \in YNode : new[x] = IF x = z THEN n ELSE anchors[x]
  <2> HIDE DEF new
  <2>1. QED
    BY <1>2, <1>4, EnteredIs
<1>13. z \in YNode
  BY <1>4, TopIs
<1>14. Rendered(f, doc, anchors, y, next)
  BY <1>8 DEF Told, Halfway
<1>15. p # n
  BY <1>5, <1>8, ApartAre
<1>16. f \in Seq([key : Keys, child : DOMAIN heap])
  BY <1>2, <1>3, NodeFields
<1>17. next <= Len(doc.fields[y]) + 1 /\ next + 1 <= Len(doc.fields[y]) + 1
  BY <1>3, <1>9, YFieldsAre
<1>18. /\ DOMAIN after = DOMAIN front /\ Len(after) = k - 1
       /\ \A i \in DOMAIN front :
            /\ after[i].ynode = front[i].ynode /\ after[i].node = front[i].node
            /\ after[i].next = IF i = k - 1 THEN front[i].next + 1 ELSE front[i].next
  BY <1>1, <1>5, <1>7, NextIs
<1>19. /\ DOMAIN after = 1..(k - 1)
       /\ \A i \in 1..(k - 1) :
            /\ after[i].ynode = stack[i].ynode /\ after[i].node = stack[i].node
            /\ after[i].next = IF i = k - 1 THEN stack[i].next + 1 ELSE stack[i].next
  BY <1>5, <1>18
<1>20. /\ \A i \in 1..(k - 1) : i # k - 1 => stack[i].node # p
       /\ \A x \in YNode : anchors[x] \in DOMAIN heap => anchors[x] # p
  BY <1>5, <1>8, ApartAre
<1>21. \A i \in 1..(k - 1) : i # k - 1 => i + 1 \in 1..(k - 1)
  BY <1>5
<1>22. Linked(doc, after)
  <2> SUFFICES ASSUME NEW i \in 1..(k - 1), i # k - 1
               PROVE  doc.fields[after[i].ynode][after[i].next].child = after[i + 1].ynode
    BY <1>18, <1>19 DEF Linked
  <2>1. i \in DOMAIN stack /\ i # k
    BY <1>5, <1>6
  <2>2. doc.fields[stack[i].ynode][stack[i].next].child = stack[i + 1].ynode
    BY <2>1 DEF Told, Linked
  <2>3. QED
    BY <1>19, <1>21, <2>2
<1>23. InWork(after, new)
  <2> SUFFICES ASSUME NEW x \in YNode, new[x] = InProgress
               PROVE  \E i \in 1..(k - 1) : after[i].ynode = x
    BY <1>19 DEF InWork
  <2>1. x # z /\ anchors[x] = InProgress
    <3>1. n # InProgress
      BY <1>2, <1>3, NodesAreNumbers
    <3>2. QED
      BY <1>12, <3>1
  <2>2. PICK i \in DOMAIN stack : stack[i].ynode = x
    BY <2>1 DEF Told, InWork
  <2>3. i # k
    BY <1>5, <2>1, <2>2
  <2>4. i \in 1..(k - 1)
    BY <1>5, <1>6, <2>3
  <2>5. QED
    BY <1>19, <2>2, <2>4
<1> HIDE DEF n, z, p, y, next, f, k, new
<1>24. SameNodes(heap, g) /\ SameFieldsBut(heap, g, p) /\ g[p].fields = Stored(f, key, n)
  BY <1>2, <1>3, NodeStoredIs DEF f
<1>25. Rendered(g[p].fields, doc, new, y, next + 1)
  <2>1. Rendered(f, doc, new, y, next)
    BY <1>3, <1>9, <1>12, <1>14, <1>16, <1>17, RenderedNames
  <2>2. n = new[doc.fields[y][next].child]
    BY <1>11, <1>12, <1>13
  <2>3. QED
    BY <1>2, <1>9, <1>10, <1>16, <1>24, <2>1, <2>2, RenderedGrows
<1>26. Untouched(g, p)
  BY <1>24 DEF Untouched, SameFieldsBut
<1>27. /\ \A i \in DOMAIN stack : stack[i].node # p =>
            Rendered(g[stack[i].node].fields, doc, new, stack[i].ynode, stack[i].next)
       /\ \A x \in YNode : anchors[x] \in DOMAIN heap /\ anchors[x] # p =>
            Rendered(g[anchors[x]].fields, doc, new, x, Len(doc.fields[x]) + 1)
  BY <1>12, <1>26, OthersStay
<1>28. Halfway(g, doc, after, new)
  <2> SUFFICES ASSUME NEW i \in 1..(k - 1)
               PROVE  /\ after[i].next <= Len(doc.fields[after[i].ynode]) + 1
                      /\ Rendered(g[after[i].node].fields, doc, new, after[i].ynode, after[i].next)
    BY <1>19 DEF Halfway
  <2>1. CASE i = k - 1
    <3>1. after[i].ynode = y /\ after[i].next = next + 1 /\ after[i].node = p
      BY <1>8, <1>19, <2>1 DEF y, next, p
    <3>2. QED
      BY <1>17, <1>25, <3>1
  <2>2. CASE i # k - 1
    <3>1. i \in DOMAIN stack
      BY <1>5
    <3>2. stack[i].next <= Len(doc.fields[stack[i].ynode]) + 1
      BY <3>1 DEF Told, Halfway
    <3>3. Rendered(g[stack[i].node].fields, doc, new, stack[i].ynode, stack[i].next)
      BY <1>20, <1>27, <2>2, <3>1
    <3>4. QED
      BY <1>19, <2>2, <3>2, <3>3
  <2>3. QED
    BY <2>1, <2>2
<1>29. Complete(g, doc, new)
  <2> SUFFICES ASSUME NEW x \in YNode, new[x] \in DOMAIN heap
               PROVE  Rendered(g[new[x]].fields, doc, new, x, Len(doc.fields[x]) + 1)
    BY <1>24 DEF Complete, SameNodes
  <2>1. CASE x = z
    <3>1. k \in DOMAIN stack /\ stack[k].node = n /\ stack[k].ynode = z
      BY <1>5 DEF n, z
    <3>2. Rendered(g[stack[k].node].fields, doc, new, stack[k].ynode, stack[k].next)
      BY <1>15, <1>27, <3>1
    <3>3. stack[k].next = Len(doc.fields[z]) + 1
      BY <1>1, <1>4, <1>5, DoneIs DEF z
    <3>4. QED
      BY <1>12, <2>1, <3>1, <3>2, <3>3
  <2>2. CASE x # z
    BY <1>12, <1>20, <1>27, <2>2
  <2>3. QED
    BY <2>1, <2>2
<1>30. QED
  BY <1>1, <1>22, <1>23, <1>28, <1>29 DEF Told, after, g, new

\* A node is made and its conversion begins.
LEMMA ToldPushed ==
  ASSUME Fits, Told, NEW y \in YNode, Pushes(y)
  PROVE  Told'
<1> DEFINE k == Len(stack)
           x == Len(heap) + 1
           frame == [ynode |-> y, node |-> x, next |-> 1]
           after == stack'
           new == anchors'
           g == heap'
           D == DOMAIN heap
           E == DOMAIN heap'
<1>1. /\ stack # <<>> => Waits(doc, Top) /\ TopField.child = y
      /\ after = Append(stack, frame) /\ UNCHANGED doc
  BY DEF Pushes
<1>2. /\ E = D \cup {x} /\ x \notin D /\ g[x] = Fresh(y) /\ \A m \in D : g[m] = heap[m]
      /\ \A z \in YNode : new[z] = IF z = y THEN InProgress ELSE anchors[z]
      /\ anchors[y] = Null
  BY PushedOn DEF Grown
<1>3. /\ IsHeap(heap) /\ IsDocument(doc) /\ stack \in Seq(FrameSet(D))
      /\ anchors \in [YNode -> D \cup {Null, InProgress}]
  BY DEF Fits, IsStack, IsTable
<1>4. IsHeap(g)
  BY PushKeeps DEF Pushes, Fits
<1>5. Null \notin D /\ InProgress \notin D /\ InProgress \notin E
  BY <1>3, <1>4, NodesAreNumbers
<1>6. k \in Nat /\ DOMAIN stack = 1..k /\ \A i \in DOMAIN stack : stack[i].node \in D
  BY <1>3, FramesAre
<1>7. /\ DOMAIN after = 1..(k + 1) /\ Len(after) = k + 1
      /\ \A i \in 1..k : after[i] = stack[i]
      /\ after[k + 1] = frame
  <2>1. FrameSet(D) \subseteq FrameSet(E) /\ frame \in FrameSet(E)
    BY <1>2 DEF FrameSet
  <2>2. stack \in Seq(FrameSet(E))
    BY <1>3, <2>1, SeqMonotonic
  <2> HIDE DEF frame, E, after
  <2>3. FrameOn(stack, after, frame)
    BY <1>1, <2>1, <2>2, FramePushed
  <2>4. QED
    BY <1>6, <2>3 DEF FrameOn
<1>8. frame.ynode = y /\ frame.node = x /\ frame.next = 1
  OBVIOUS
<1> HIDE DEF frame, x, k, after, new, g, E
<1>9. SameNames(D, anchors, new)
  BY <1>2, <1>5 DEF SameNames
<1>10. Untouched(g, x)
  BY <1>2 DEF Untouched
<1>11. /\ \A i \in DOMAIN stack : stack[i].node # x =>
            Rendered(g[stack[i].node].fields, doc, new, stack[i].ynode, stack[i].next)
       /\ \A z \in YNode : anchors[z] \in D /\ anchors[z] # x =>
            Rendered(g[anchors[z]].fields, doc, new, z, Len(doc.fields[z]) + 1)
  <2> HIDE DEF D
  <2>1. SameNames(DOMAIN heap, anchors, new)
    BY <1>9 DEF D
  <2>2. QED
    BY <1>10, <2>1, OthersStay DEF D
<1>12. \A i \in 1..(k + 1) : i = k + 1 \/ i \in 1..k
  BY <1>6
<1>13. Linked(doc, after)
  <2> SUFFICES ASSUME NEW i \in 1..k
               PROVE  doc.fields[after[i].ynode][after[i].next].child = after[i + 1].ynode
    BY <1>7, <1>12 DEF Linked
  <2>1. CASE i = k
    <3>1. stack # <<>>
      BY <1>6
    <3>2. Top = stack[k] /\ TopField.child = y
      BY <1>1, <3>1, TopIs DEF k
    <3>3. QED
      BY <1>7, <1>8, <2>1, <3>2 DEF TopField
  <2>2. CASE i # k
    <3>1. i + 1 \in 1..k
      BY <1>6, <2>2
    <3>2. doc.fields[stack[i].ynode][stack[i].next].child = stack[i + 1].ynode
      BY <1>6, <2>2 DEF Told, Linked, k
    <3>3. QED
      BY <1>7, <3>1, <3>2
  <2>3. QED
    BY <2>1, <2>2
<1>14. InWork(after, new)
  <2> SUFFICES ASSUME NEW z \in YNode, new[z] = InProgress
               PROVE  \E i \in 1..(k + 1) : after[i].ynode = z
    BY <1>7 DEF InWork
  <2>1. CASE z = y
    BY <1>6, <1>7, <1>8, <2>1
  <2>2. CASE z # y
    <3>1. PICK i \in 1..k : stack[i].ynode = z
      BY <1>2, <1>6, <2>2 DEF Told, InWork
    <3>2. i \in 1..(k + 1)
      BY <1>6
    <3>3. QED
      BY <1>7, <3>1, <3>2
  <2>3. QED
    BY <2>1, <2>2
<1>15. Halfway(g, doc, after, new)
  <2> SUFFICES ASSUME NEW i \in 1..(k + 1)
               PROVE  /\ after[i].next <= Len(doc.fields[after[i].ynode]) + 1
                      /\ Rendered(g[after[i].node].fields, doc, new, after[i].ynode, after[i].next)
    BY <1>7 DEF Halfway
  <2>1. CASE i = k + 1
    <3>1. after[i].ynode = y /\ after[i].node = x /\ after[i].next = 1
      BY <1>7, <1>8, <2>1
    <3>2. g[x].fields = <<>>
      BY <1>2 DEF Fresh
    <3>3. Rendered(<<>>, doc, new, y, 1)
      BY RenderedFirst
    <3>4. 1 <= Len(doc.fields[y]) + 1
      BY <1>3, YFieldsAre
    <3>5. QED
      BY <3>1, <3>2, <3>3, <3>4
  <2>2. CASE i \in 1..k
    <3>1. stack[i].node # x /\ after[i] = stack[i] /\ i \in DOMAIN stack
      BY <1>2, <1>6, <1>7, <2>2
    <3>2. stack[i].next <= Len(doc.fields[stack[i].ynode]) + 1
      BY <3>1 DEF Told, Halfway
    <3>3. QED
      BY <1>11, <3>1, <3>2
  <2>3. QED
    BY <1>12, <2>1, <2>2
<1>16. Complete(g, doc, new)
  <2> SUFFICES ASSUME NEW z \in YNode, new[z] \in E
               PROVE  Rendered(g[new[z]].fields, doc, new, z, Len(doc.fields[z]) + 1)
    BY DEF Complete, E, g
  <2>1. z # y
    BY <1>2, <1>5
  <2>2. new[z] = anchors[z] /\ anchors[z] \in D \cup {Null, InProgress}
    BY <1>2, <1>3, <2>1
  <2>3. anchors[z] # InProgress
    BY <1>5, <2>2
  <2>4. CASE anchors[z] \in D
    BY <1>2, <1>11, <2>2, <2>4
  <2>5. CASE anchors[z] = Null
    <3>1. Null \notin E
      BY <1>4, NodesAreNumbers DEF E, g
    <3>2. QED
      BY <2>2, <2>5, <3>1
  <2>6. QED
    BY <2>2, <2>3, <2>4, <2>5
<1>17. QED
  BY <1>1, <1>13, <1>14, <1>15, <1>16 DEF Told, after, g, new

\* The root is converted, and it is in the table.
LEMMA ToldFinished ==
  ASSUME Fits, Told, FinishDocument
  PROVE  Told'
<1> DEFINE n == Top.node
           z == Top.ynode
           new == anchors'
           g == heap'
<1>1. Done /\ stack' = <<>> /\ UNCHANGED doc
  BY DEF FinishDocument
<1>2. /\ n \in DOMAIN heap /\ g = Taken(Sealing(heap, n), n) /\ new = Entered(anchors, z, n)
      /\ stack # <<>> /\ DOMAIN stack = {1} /\ Top = stack[1]
  BY FinishKeeps
<1>3. IsHeap(heap)
  BY DEF Fits
<1>4. /\ SameNames(DOMAIN heap, anchors, new)
      /\ \A x \in YNode : new[x] = IF x = z THEN n ELSE anchors[x]
  <2> HIDE DEF new
  <2>1. QED
    BY <1>2, EnteredIs
<1>5. SameNodes(heap, g) /\ SameFields(heap, g)
  <2> HIDE DEF g, n
  <2>1. QED
    BY <1>2, <1>3, FinishedIs
<1>6. Len(heap) + 1 \notin DOMAIN heap
  BY <1>3 DEF IsHeap
<1>7. Untouched(g, Len(heap) + 1)
  BY <1>5 DEF Untouched, SameFields
<1> HIDE DEF n, z, new, g
<1>8. /\ \A i \in DOMAIN stack : stack[i].node # Len(heap) + 1 =>
           Rendered(g[stack[i].node].fields, doc, new, stack[i].ynode, stack[i].next)
      /\ \A x \in YNode : anchors[x] \in DOMAIN heap /\ anchors[x] # Len(heap) + 1 =>
           Rendered(g[anchors[x]].fields, doc, new, x, Len(doc.fields[x]) + 1)
  BY <1>4, <1>7, OthersStay
<1>9. Complete(g, doc, new)
  <2> SUFFICES ASSUME NEW x \in YNode, new[x] \in DOMAIN heap
               PROVE  Rendered(g[new[x]].fields, doc, new, x, Len(doc.fields[x]) + 1)
    BY <1>5 DEF Complete, SameNodes
  <2>1. CASE x = z
    <3>1. 1 \in DOMAIN stack /\ stack[1].node = n /\ stack[1].ynode = z
      BY <1>2 DEF n, z
    <3>2. Rendered(g[stack[1].node].fields, doc, new, stack[1].ynode, stack[1].next)
      BY <1>2, <1>6, <1>8, <3>1
    <3>3. stack[1].next = Len(doc.fields[z]) + 1
      BY <1>1, <1>2, DoneIs DEF z
    <3>4. QED
      BY <1>4, <2>1, <3>1, <3>2, <3>3
  <2>2. CASE x # z
    BY <1>4, <1>6, <1>8, <2>2
  <2>3. QED
    BY <2>1, <2>2
<1>10. InWork(stack', new)
  <2> SUFFICES ASSUME NEW x \in YNode, new[x] = InProgress PROVE FALSE
    BY DEF InWork
  <2>1. x # z /\ anchors[x] = InProgress
    <3>1. n # InProgress
      BY <1>2, <1>3, NodesAreNumbers DEF n
    <3>2. QED
      BY <1>4, <3>1
  <2>2. PICK i \in DOMAIN stack : stack[i].ynode = x
    BY <2>1 DEF Told, InWork
  <2>3. i = 1
    BY <1>2
  <2>4. QED
    BY <1>2, <2>1, <2>2, <2>3 DEF z
<1>11. DOMAIN stack' = {}
  BY <1>1
<1>12. Linked(doc, stack') /\ Halfway(g, doc, stack', new)
  BY <1>11 DEF Linked, Halfway
<1>13. QED
  BY <1>1, <1>9, <1>10, <1>12 DEF Told, g, new

\* A reference that is released is not the last one to a node in use.
LEMMA ReleaseSpares ==
  ASSUME Fits, Counted, Release
  PROVE  \A n \in DOMAIN heap : InUse(n) => heap'[n].fields = heap[n].fields
<1> SUFFICES ASSUME NEW n \in DOMAIN heap, InUse(n)
             PROVE  heap'[n].fields = heap[n].fields
  OBVIOUS
<1>1. /\ FieldsFreed(heap, heap') /\ OneLess(heap, heap', Head(releasing))
      /\ releasing \in Seq(DOMAIN heap) /\ releasing # <<>>
  BY ReleaseKeeps
<1>2. /\ IsHeap(heap) /\ IsStack(heap, stack) /\ documents \in Seq(DOMAIN heap)
      /\ stack \in Seq(FrameSet(DOMAIN heap))
  BY DEF Fits, IsStack
<1> DEFINE a == Places(NodesOf(stack), n)
           b == Named(anchors, n)
           c == Places(documents, n)
           d == Places(releasing, n)
           e == Uses(heap, n)
           s == Same(Head(releasing), n)
<1>3. heap[n].refs = (a + b + c) + d + e
  BY DEF Counted, Balanced, Kept
<1>4. a \in Nat /\ b \in Nat /\ c \in Nat /\ d \in Nat /\ e \in Nat
  BY <1>1, <1>2, NumbersAre
<1>5. d = s + Places(Tail(releasing), n) /\ Places(Tail(releasing), n) \in Nat
  BY <1>1, PlacesOfTail
<1>6. a # 0 \/ b # 0
  <2>1. CASE OnStack(stack, n)
    <3>1. PICK i \in DOMAIN stack : stack[i].node = n
      BY <2>1 DEF OnStack
    <3>2. NodesOf(stack) \in Seq(DOMAIN heap) /\ i \in DOMAIN NodesOf(stack)
          /\ NodesOf(stack)[i] = n
      BY <1>2, <3>1, FramesAre
    <3>3. QED
      BY <3>2, PlacesOfElement
  <2>2. CASE \E y \in YNode : anchors[y] = n
    <3>1. {y \in YNode : anchors[y] = n} # {}
      BY <2>2
    <3>2. IsFiniteSet({y \in YNode : anchors[y] = n})
      BY NamedIs
    <3>3. QED
      BY <3>1, <3>2, FS_EmptySet DEF Named
  <2>3. QED
    BY <2>1, <2>2 DEF InUse
<1>7. s \in Nat
  BY DEF Same
<1>8. heap'[n].refs = heap[n].refs - s
  BY <1>1 DEF OneLess
<1> HIDE DEF a, b, c, d, e, s
<1>9. heap'[n].refs # 0
  BY <1>3, <1>4, <1>5, <1>6, <1>7, <1>8
<1>10. QED
  BY <1>1, <1>9 DEF FieldsFreed

\* When a reference is released.
LEMMA ToldReleased ==
  ASSUME Fits, Counted, Told, Release
  PROVE  Told'
<1>1. UNCHANGED <<doc, anchors, stack>> /\ SameNodes(heap, heap')
  BY ReleaseKeeps
<1>2. IsHeap(heap) /\ stack \in Seq(FrameSet(DOMAIN heap))
  BY DEF Fits, IsStack
<1>3. Len(heap) + 1 \notin DOMAIN heap /\ DOMAIN heap' = DOMAIN heap
  BY <1>1, <1>2 DEF IsHeap, SameNodes
<1>4. \A i \in DOMAIN stack : stack[i].node \in DOMAIN heap
  BY <1>2, FramesAre
<1> DEFINE g == heap'
<1>5. Untouched(g, Len(heap) + 1) /\ SameNames(DOMAIN heap, anchors, anchors)
  BY ReleaseSpares DEF Untouched, SameNames
<1> HIDE DEF g
<1>6. /\ \A i \in DOMAIN stack : stack[i].node # Len(heap) + 1 =>
           Rendered(g[stack[i].node].fields, doc, anchors, stack[i].ynode, stack[i].next)
      /\ \A x \in YNode : anchors[x] \in DOMAIN heap /\ anchors[x] # Len(heap) + 1 =>
           Rendered(g[anchors[x]].fields, doc, anchors, x, Len(doc.fields[x]) + 1)
  BY <1>5, OthersStay
<1>7. Halfway(g, doc, stack, anchors)
  BY <1>3, <1>4, <1>6 DEF Halfway, Told
<1>8. Complete(g, doc, anchors)
  BY <1>3, <1>6 DEF Complete, g
<1>9. QED
  BY <1>1, <1>7, <1>8 DEF Told, g

\* With an empty table and nothing in work there is nothing to say.
LEMMA ToldOfNothing ==
  ASSUME NEW h, IsHeap(h), NEW d, NEW table, table = [y \in YNode |-> Null]
  PROVE  /\ Linked(d, <<>>) /\ InWork(<<>>, table)
         /\ Halfway(h, d, <<>>, table) /\ Complete(h, d, table)
<1>1. Null \notin DOMAIN h /\ Null # InProgress
  BY NodesAreNumbers, ConvertAssumption
<1>2. DOMAIN <<>> = {}
  OBVIOUS
<1>3. Linked(d, <<>>) /\ Halfway(h, d, <<>>, table)
  BY <1>2 DEF Linked, Halfway
<1>4. InWork(<<>>, table) /\ Complete(h, d, table)
  BY <1>1 DEF InWork, Complete
<1>5. QED
  BY <1>3, <1>4

\* It begins with nothing.
LEMMA InitTold == Init => Told
<1> SUFFICES ASSUME Init PROVE Told
  OBVIOUS
<1>1. stack = <<>> /\ anchors = [y \in YNode |-> Null]
  BY DEF Init
<1>2. IsHeap(heap)
  BY InitFits DEF Fits
<1>3. QED
  BY <1>1, <1>2, ToldOfNothing DEF Told

\* Every step keeps it.
LEMMA StepTold ==
  ASSUME Fits, Counted, Told, [Next]_vars
  PROVE  Told'
<1>1. CASE Clears
  <2>1. /\ stack' = <<>> /\ anchors' = [y \in YNode |-> Null] /\ IsHeap(heap')
    BY <1>1 DEF Clears, Fits, Phases
  <2> DEFINE h == heap'
             d == doc'
             table == anchors'
  <2>2. /\ Linked(d, <<>>) /\ InWork(<<>>, table)
        /\ Halfway(h, d, <<>>, table) /\ Complete(h, d, table)
    <3> HIDE DEF h, d, table
    <3>1. IsHeap(h) /\ table = [y \in YNode |-> Null]
      BY <2>1 DEF h, table
    <3>2. QED
      BY <3>1, ToldOfNothing
  <2>3. QED
    BY <2>1, <2>2 DEF Told
<1>2. ASSUME NEW y \in YNode, Pushes(y)
      PROVE  Told'
  BY <1>2, ToldPushed
<1>3. ASSUME NEW y \in YNode, Share(y)
      PROVE  Told'
  BY <1>3, ToldShared
<1>4. CASE Skips
  BY <1>4, ToldSkipped
<1>5. CASE Rests
  BY <1>5 DEF Rests, Told
<1>6. CASE Return
  BY <1>6, ToldReturned
<1>7. CASE FinishDocument
  BY <1>7, ToldFinished
<1>8. CASE Release
  BY <1>8, ToldReleased
<1>9. QED
  BY <1>1, <1>2, <1>3, <1>4, <1>5, <1>6, <1>7, <1>8, StepKinds

\* A converted node has every field of its libyaml node, in order and with its last
\* value, except fields through which the libyaml node contains itself.
THEOREM ConvertFaithful == Spec => []Faithful
<1> DEFINE Inv == Fits /\ Counted /\ Told
<1>1. Init => Inv
  BY InitFits, InitTold
<1>2. Inv /\ [Next]_vars => Inv'
  BY StepFits, StepTold
<1>3. Inv => Faithful
  BY DEF Told, Complete, Faithful, YamlNode
<1> HIDE DEF Inv
<1>4. QED
  BY <1>1, <1>2, <1>3, PTL DEF Spec

=============================================================================
