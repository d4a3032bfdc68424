------------------------- MODULE YamlBuilderProofs -------------------------
(***************************************************************************)
(* What holds of the builder in every number of nodes, members, anchors    *)
(* and references of the client.                                           *)
(***************************************************************************)
EXTENDS YamlBuilder, YamlTreeProofs

Kinds == {"mapping", "sequence", "scalar"}
Keys  == Key \cup {Element}
Names == Anchor \cup {Null}

\* Nodes and frames whose references go to D.
NodeSet(D)  == [kind : Kinds, fields : Seq([key : Keys, child : D]), refs : Int,
                sealed : BOOLEAN, anchor : Names]
FrameSet(D) == [node : D, name : Key \cup {Null}]

IsHeap(h) ==
    /\ Len(h) \in Nat /\ DOMAIN h = 1..Len(h)
    /\ h \in [DOMAIN h -> NodeSet(DOMAIN h)]
    /\ \A n \in DOMAIN h : OnceNamed(h[n].fields)

\* What a step does not change.
SameNodes(h, g)  == DOMAIN g = DOMAIN h /\ Len(g) = Len(h)
                      /\ \A m \in DOMAIN h : g[m].kind = h[m].kind
SameSeals(h, g)  == \A m \in DOMAIN h : g[m].sealed = h[m].sealed
SameNames(h, g)  == \A m \in DOMAIN h : h[m].sealed => g[m].anchor = h[m].anchor
SameRefs(h, g)   == \A m \in DOMAIN h : g[m].refs = h[m].refs

OneMore(h, g, n) == \A m \in DOMAIN h : g[m].refs = h[m].refs + Same(n, m)
SealsMore(h, g, X) == \A m \in DOMAIN h : g[m].sealed = (h[m].sealed \/ m \in X)

OneLess(h, g, n) == \A m \in DOMAIN h : g[m].refs = h[m].refs - Same(n, m)
FieldsFreed(h, g) ==
    \A m \in DOMAIN h : g[m].fields = h[m].fields \/ (g[m].fields = <<>> /\ g[m].refs = 0)
ReleasedOnce(h, nodes, g, rest) ==
    \A m \in DOMAIN h :
      Places(rest, m) + Uses(g, m) = Places(nodes, m) + Uses(h, m) - Same(Head(nodes), m)

Grown(h, g, kind) ==
    /\ Len(g) = Len(h) + 1 /\ DOMAIN g = DOMAIN h \cup {Len(h) + 1} /\ Len(h) + 1 \notin DOMAIN h
    /\ \A m \in DOMAIN h : g[m] = h[m]
    /\ g[Len(h) + 1] = NewNode(kind)

-----------------------------------------------------------------------------
(* Heaps. *)

\* The fields of a node of a heap.
LEMMA NodeFields ==
  ASSUME NEW h, IsHeap(h)
  PROVE  /\ IsTree(h, Keys)
         /\ \A n \in DOMAIN h :
              /\ h[n] \in NodeSet(DOMAIN h) /\ OnceNamed(h[n].fields)
              /\ h[n].kind \in Kinds /\ h[n].refs \in Int
              /\ h[n].fields \in Seq([key : Keys, child : DOMAIN h])
              /\ h[n].sealed \in BOOLEAN /\ h[n].anchor \in Names
<1>1. \A n \in DOMAIN h : h[n] \in NodeSet(DOMAIN h) /\ OnceNamed(h[n].fields)
  BY DEF IsHeap
<1>2. \A n \in DOMAIN h :
              /\ h[n].kind \in Kinds /\ h[n].refs \in Int
              /\ h[n].fields \in Seq([key : Keys, child : DOMAIN h])
              /\ h[n].sealed \in BOOLEAN /\ h[n].anchor \in Names
  BY <1>1 DEF NodeSet
<1>3. IsTree(h, Keys)
  BY <1>2 DEF IsTree, IsHeap
<1>4. QED
  BY <1>1, <1>2, <1>3

\* A heap with other nodes in the same places.
LEMMA HeapChanged ==
  ASSUME NEW h, IsHeap(h), NEW g, g \in [DOMAIN h -> NodeSet(DOMAIN h)],
         \A n \in DOMAIN h : OnceNamed(g[n].fields)
  PROVE  IsHeap(g) /\ DOMAIN g = DOMAIN h /\ Len(g) = Len(h)
<1> DEFINE k == Len(h)
<1>1. k \in Nat /\ DOMAIN h = 1..k /\ DOMAIN g = 1..k
  BY DEF IsHeap
<1>2. g = [i \in 1..k |-> g[i]] /\ \A i \in 1..k : g[i] \in NodeSet(DOMAIN h)
  BY <1>1
<1> HIDE DEF k
<1>3. g \in Seq(NodeSet(DOMAIN h)) /\ Len(g) = k
  BY <1>1, <1>2, IsASeq
<1>4. QED
  BY <1>1, <1>3 DEF IsHeap, k

\* apply_pending_metadata changes the counter and the name of its node.
LEMMA MetadataIs ==
  ASSUME NEW h, IsHeap(h), NEW n \in DOMAIN h, pending \in Names
  PROVE  /\ IsHeap(WithMetadata(h, n)) /\ SameNodes(h, WithMetadata(h, n))
         /\ SameFields(h, WithMetadata(h, n)) /\ SameSeals(h, WithMetadata(h, n))
         /\ SameNames(h, WithMetadata(h, n))
         /\ pending = Null => SameRefs(h, WithMetadata(h, n))
         /\ pending # Null => OneMore(h, WithMetadata(h, n), n)
<1> DEFINE g == WithMetadata(h, n)
           new == [kind |-> h[n].kind, fields |-> h[n].fields,
                   refs |-> IF pending = Null THEN h[n].refs ELSE h[n].refs + 1,
                   sealed |-> h[n].sealed,
                   anchor |-> IF pending = Null \/ h[n].sealed THEN h[n].anchor ELSE pending]
<1>1. \A m \in DOMAIN h : h[m] \in NodeSet(DOMAIN h) /\ OnceNamed(h[m].fields)
  BY NodeFields
<1>2. new \in NodeSet(DOMAIN h)
  <2>1. /\ h[n].kind \in Kinds /\ h[n].refs \in Int
        /\ h[n].fields \in Seq([key : Keys, child : DOMAIN h])
        /\ h[n].sealed \in BOOLEAN /\ h[n].anchor \in Names
    BY NodeFields
  <2>2. /\ (IF pending = Null THEN h[n].refs ELSE h[n].refs + 1) \in Int
        /\ (IF pending = Null \/ h[n].sealed THEN h[n].anchor ELSE pending) \in Names
    BY <2>1
  <2>3. QED
    BY <2>1, <2>2 DEF NodeSet
<1>3. /\ h \in [DOMAIN h -> NodeSet(DOMAIN h)]
      /\ h[n] \in NodeSet(DOMAIN h)
  BY DEF IsHeap
<1>4. g = [h EXCEPT ![n] = new]
  <2>1. g[n] = new
    BY <1>3 DEF WithMetadata, NodeSet
  <2>2. g = [h EXCEPT ![n] = g[n]]
    BY <1>3 DEF WithMetadata
  <2>3. QED
    BY <2>1, <2>2
<1> HIDE DEF g
<1>5. g \in [DOMAIN h -> NodeSet(DOMAIN h)] /\ \A m \in DOMAIN h : g[m] = IF m = n THEN new ELSE h[m]
  BY <1>2, <1>3, <1>4
<1>6. /\ new.kind = h[n].kind /\ new.fields = h[n].fields /\ new.sealed = h[n].sealed
      /\ new.refs = IF pending = Null THEN h[n].refs ELSE h[n].refs + 1
      /\ h[n].sealed => new.anchor = h[n].anchor
  OBVIOUS
<1> HIDE DEF new
<1>7. IsHeap(g) /\ DOMAIN g = DOMAIN h /\ Len(g) = Len(h)
  BY <1>1, <1>5, <1>6, HeapChanged
<1>8. \A m \in DOMAIN h : h[m].refs \in Int
  BY NodeFields
<1>9. /\ SameNodes(h, g) /\ SameFields(h, g) /\ SameSeals(h, g) /\ SameNames(h, g)
  BY <1>5, <1>6, <1>7 DEF SameNodes, SameFields, SameSeals, SameNames
<1>10. pending = Null => SameRefs(h, g)
  BY <1>5, <1>6 DEF SameRefs
<1>11. pending # Null => OneMore(h, g, n)
  <2> SUFFICES ASSUME pending # Null, NEW m \in DOMAIN h
               PROVE  g[m].refs = h[m].refs + Same(n, m)
    BY DEF OneMore
  <2>1. CASE m = n
    BY <1>5, <1>6, <2>1 DEF Same
  <2>2. CASE m # n
    BY <1>5, <1>8, <2>2 DEF Same
  <2>3. QED
    BY <2>1, <2>2
<1>12. QED
  BY <1>7, <1>9, <1>10, <1>11 DEF g

Taken(h, n) == [h EXCEPT ![n].refs = @ + 1]

\* A reference that is taken.
LEMMA TakenIs ==
  ASSUME NEW h, IsHeap(h), NEW n \in DOMAIN h, NEW g, g = Taken(h, n)
  PROVE  /\ IsHeap(g) /\ SameNodes(h, g) /\ SameFields(h, g) /\ SameSeals(h, g)
         /\ SameNames(h, g) /\ OneMore(h, g, n)
<1>1. /\ \A m \in DOMAIN h : h[m] \in NodeSet(DOMAIN h) /\ OnceNamed(h[m].fields)
                             /\ h[m].refs \in Int
      /\ h \in [DOMAIN h -> NodeSet(DOMAIN h)]
  BY NodeFields DEF IsHeap
<1>2. \A m \in DOMAIN h : g[m] = IF m = n THEN [h[n] EXCEPT !.refs = @ + 1] ELSE h[m]
  BY <1>1 DEF Taken
<1>3. [h[n] EXCEPT !.refs = @ + 1] \in NodeSet(DOMAIN h)
  <2>1. h[n] \in NodeSet(DOMAIN h) /\ h[n].refs + 1 \in Int
    BY <1>1
  <2> HIDE DEF Kinds, Names, Keys
  <2>2. QED
    BY <2>1 DEF NodeSet
<1>4. /\ [h[n] EXCEPT !.refs = @ + 1].fields = h[n].fields
      /\ [h[n] EXCEPT !.refs = @ + 1].kind = h[n].kind
      /\ [h[n] EXCEPT !.refs = @ + 1].sealed = h[n].sealed
      /\ [h[n] EXCEPT !.refs = @ + 1].anchor = h[n].anchor
      /\ [h[n] EXCEPT !.refs = @ + 1].refs = h[n].refs + 1
  BY <1>1 DEF NodeSet
<1>5. g \in [DOMAIN h -> NodeSet(DOMAIN h)]
  BY <1>1, <1>3 DEF Taken
<1>6. \A m \in DOMAIN h :
              /\ g[m].fields = h[m].fields /\ g[m].kind = h[m].kind
              /\ g[m].sealed = h[m].sealed /\ g[m].anchor = h[m].anchor
              /\ g[m].refs = h[m].refs + Same(n, m)
  <2> SUFFICES ASSUME NEW m \in DOMAIN h
               PROVE  /\ g[m].fields = h[m].fields /\ g[m].kind = h[m].kind
                      /\ g[m].sealed = h[m].sealed /\ g[m].anchor = h[m].anchor
                      /\ g[m].refs = h[m].refs + Same(n, m)
    OBVIOUS
  <2>1. CASE m = n
    BY <1>1, <1>2, <1>4, <2>1 DEF Same
  <2>2. CASE m # n
    BY <1>1, <1>2, <2>2 DEF Same
  <2>3. QED
    BY <2>1, <2>2
<1> HIDE DEF IsHeap
<1>7. IsHeap(g) /\ DOMAIN g = DOMAIN h /\ Len(g) = Len(h)
  BY <1>1, <1>5, <1>6, HeapChanged
<1>8. QED
  BY <1>6, <1>7 DEF SameNodes, SameFields, SameSeals, SameNames, OneMore

\* A node that is made.
LEMMA GrownIs ==
  ASSUME NEW h, IsHeap(h), NEW kind \in Kinds, NEW g, g = Append(h, NewNode(kind))
  PROVE  IsHeap(g) /\ Grown(h, g, kind)
<1> DEFINE k == Len(h)
           D == DOMAIN h
           E == 1..(k + 1)
           T == UNION {NodeSet(D), {NewNode(kind)}}
<1>1. /\ k \in Nat /\ D = 1..k /\ h \in [1..k -> NodeSet(D)]
      /\ \A m \in D : h[m] \in NodeSet(D) /\ OnceNamed(h[m].fields)
  BY DEF IsHeap
<1>2. D \subseteq E /\ E = D \cup {k + 1} /\ k + 1 \notin D
  BY <1>1
<1>3. h \in Seq(T) /\ NewNode(kind) \in T
  <2>1. h \in [1..k -> T]
    BY <1>1
  <2> HIDE DEF k, T
  <2>2. h \in Seq(T)
    BY <1>1, <2>1
  <2>3. QED
    BY <2>2 DEF T
<1>4. NodeSet(D) \subseteq NodeSet(E)
  <2> SUFFICES ASSUME NEW r \in NodeSet(D) PROVE r \in NodeSet(E)
    OBVIOUS
  <2>1. /\ r.kind \in Kinds /\ r.refs \in Int /\ r.fields \in Seq([key : Keys, child : D])
        /\ r.sealed \in BOOLEAN /\ r.anchor \in Names
        /\ r = [kind |-> r.kind, fields |-> r.fields, refs |-> r.refs, sealed |-> r.sealed,
                anchor |-> r.anchor]
    BY DEF NodeSet
  <2>2. [key : Keys, child : D] \subseteq [key : Keys, child : E]
    BY <1>2
  <2>3. r.fields \in Seq([key : Keys, child : E])
    BY <2>1, <2>2, SeqMonotonic
  <2>4. QED
    BY <2>1, <2>3 DEF NodeSet
<1>5. NewNode(kind) \in NodeSet(E)
  <2>1. <<>> \in Seq([key : Keys, child : E])
    OBVIOUS
  <2>2. QED
    BY <2>1 DEF NewNode, NodeSet, Names
<1> HIDE DEF T
<1>6. /\ g \in Seq(T) /\ Len(g) = k + 1 /\ g[k + 1] = NewNode(kind)
      /\ \A m \in 1..k : g[m] = h[m]
  BY <1>3, AppendProperties
<1>7. g \in [E -> T]
  <2>1. g \in [1..Len(g) -> T]
    BY <1>6, LenProperties
  <2>2. QED
    BY <1>6, <2>1
<1>8. \A m \in E : g[m] \in NodeSet(E) /\ OnceNamed(g[m].fields)
  <2>1. OnceNamed(NewNode(kind).fields)
    BY DEF NewNode, OnceNamed
  <2>2. \A m \in D : g[m] \in NodeSet(E) /\ OnceNamed(g[m].fields)
    BY <1>1, <1>4, <1>6
  <2>3. g[k + 1] \in NodeSet(E) /\ OnceNamed(g[k + 1].fields)
    BY <1>5, <1>6, <2>1
  <2>4. QED
    BY <1>2, <2>2, <2>3
<1>9. k + 1 \in Nat
  BY <1>1
<1> HIDE DEF E, k
<1>10. IsHeap(g)
  <2>1. DOMAIN g = E /\ E = 1..Len(g) /\ Len(g) \in Nat
    BY <1>6, <1>7, <1>9 DEF E
  <2>2. QED
    BY <1>7, <1>8, <2>1 DEF IsHeap
<1>11. DOMAIN g = D \cup {k + 1}
  BY <1>2, <1>7
<1>12. QED
  BY <1>1, <1>2, <1>6, <1>10, <1>11 DEF k, Grown

\* What is sealed.
LEMMA SealedIs ==
  ASSUME NEW h, IsHeap(h), NEW n \in DOMAIN h
  PROVE  /\ IsHeap(SealIn(h, n)) /\ SameNodes(h, SealIn(h, n)) /\ SameFields(h, SealIn(h, n))
         /\ SameNames(h, SealIn(h, n)) /\ SameRefs(h, SealIn(h, n))
         /\ SealsMore(h, SealIn(h, n), ReachIn(h, {n}))
<1> DEFINE g == SealIn(h, n)
           tree == ReachIn(h, {n})
<1>1. g = [m \in DOMAIN h |-> [h[m] EXCEPT !.sealed = @ \/ m \in tree]]
  BY DEF SealIn
<1> HIDE DEF tree, g
<1>2. ASSUME NEW m \in DOMAIN h
      PROVE  /\ g[m] \in NodeSet(DOMAIN h)
             /\ g[m].fields = h[m].fields /\ g[m].kind = h[m].kind
             /\ g[m].refs = h[m].refs /\ g[m].anchor = h[m].anchor
             /\ g[m].sealed = (h[m].sealed \/ m \in tree)
  <2> DEFINE b == h[m].sealed \/ m \in tree
  <2>1. /\ h[m].kind \in Kinds /\ h[m].refs \in Int
        /\ h[m].fields \in Seq([key : Keys, child : DOMAIN h])
        /\ h[m].sealed \in BOOLEAN /\ h[m].anchor \in Names
        /\ h[m] \in NodeSet(DOMAIN h)
    BY NodeFields
  <2>2. b \in BOOLEAN
    OBVIOUS
  <2>3. g[m] = [h[m] EXCEPT !.sealed = b]
    BY <1>1
  <2> HIDE DEF b
  <2>4. g[m] = [kind |-> h[m].kind, fields |-> h[m].fields, refs |-> h[m].refs,
                sealed |-> b, anchor |-> h[m].anchor]
    BY <2>1, <2>3 DEF NodeSet
  <2>5. g[m] \in NodeSet(DOMAIN h)
    BY <2>1, <2>2, <2>4 DEF NodeSet
  <2>6. g[m].sealed = b
    BY <2>4
  <2>7. QED
    BY <2>4, <2>5, <2>6 DEF b
<1>3. g \in [DOMAIN h -> NodeSet(DOMAIN h)]
  BY <1>1, <1>2
<1>4. \A m \in DOMAIN h : OnceNamed(g[m].fields)
  <2>1. \A m \in DOMAIN h : OnceNamed(h[m].fields)
    BY NodeFields
  <2>2. QED
    BY <1>2, <2>1
<1>5. IsHeap(g) /\ DOMAIN g = DOMAIN h /\ Len(g) = Len(h)
  BY <1>3, <1>4, HeapChanged
<1>6. QED
  BY <1>2, <1>5 DEF tree, g, SameNodes, SameFields, SameNames, SameRefs, SealsMore

StoredAt(h, p, key, n) == [h EXCEPT ![p].fields = Stored(@, key, n), ![n].refs = @ + 1]

\* A node that is stored in another.
LEMMA NodeStoredIs ==
  ASSUME NEW h, IsHeap(h), NEW n \in DOMAIN h, NEW p \in DOMAIN h, NEW key \in Keys,
         NEW g, g = StoredAt(h, p, key, n)
  PROVE  /\ IsHeap(g) /\ SameNodes(h, g) /\ SameSeals(h, g) /\ SameNames(h, g)
         /\ OneMore(h, g, n)
         /\ SameFieldsBut(h, g, p) /\ g[p].fields = Stored(h[p].fields, key, n)
<1> DEFINE f == Stored(h[p].fields, key, n)
           new == [h[p] EXCEPT !.fields = f]
           a == [h EXCEPT ![p] = new]
<1>1. /\ h[p].kind \in Kinds /\ h[p].refs \in Int
      /\ h[p].fields \in Seq([key : Keys, child : DOMAIN h]) /\ OnceNamed(h[p].fields)
      /\ h[p].sealed \in BOOLEAN /\ h[p].anchor \in Names
      /\ h[p] \in NodeSet(DOMAIN h)
  BY NodeFields
<1>2. f \in Seq([key : Keys, child : DOMAIN h]) /\ OnceNamed(f)
  BY <1>1, StoredIs
<1>3. h \in [DOMAIN h -> NodeSet(DOMAIN h)]
  BY DEF IsHeap
<1>4. g = Taken(a, n)
  BY <1>3 DEF Taken, StoredAt
<1> HIDE DEF f
<1>5. new = [kind |-> h[p].kind, fields |-> f, refs |-> h[p].refs, sealed |-> h[p].sealed,
             anchor |-> h[p].anchor]
  BY <1>1 DEF NodeSet
<1>6. new \in NodeSet(DOMAIN h)
  BY <1>1, <1>2, <1>5 DEF NodeSet
<1>7. /\ new.kind = h[p].kind /\ new.fields = f /\ new.refs = h[p].refs
      /\ new.sealed = h[p].sealed /\ new.anchor = h[p].anchor
  BY <1>5
<1> HIDE DEF new
<1>8. /\ a \in [DOMAIN h -> NodeSet(DOMAIN h)]
      /\ \A m \in DOMAIN h : a[m] = IF m = p THEN new ELSE h[m]
  BY <1>3, <1>6
<1>9. \A m \in DOMAIN h : OnceNamed(a[m].fields)
  BY <1>2, <1>7, <1>8, NodeFields
<1> HIDE DEF a
<1>10. IsHeap(a) /\ DOMAIN a = DOMAIN h /\ Len(a) = Len(h)
  BY <1>8, <1>9, HeapChanged
<1>11. /\ IsHeap(g) /\ SameNodes(a, g) /\ SameFields(a, g) /\ SameSeals(a, g)
       /\ SameNames(a, g) /\ OneMore(a, g, n)
  <2>1. n \in DOMAIN a
    BY <1>10
  <2>2. QED
    BY <1>4, <1>10, <2>1, TakenIs
<1>12. SameNodes(h, g) /\ SameSeals(h, g) /\ SameNames(h, g)
  <2>1. SameNodes(h, g)
    BY <1>7, <1>8, <1>10, <1>11 DEF SameNodes
  <2>2. SameSeals(h, g)
    BY <1>7, <1>8, <1>10, <1>11 DEF SameSeals
  <2>3. SameNames(h, g)
    BY <1>7, <1>8, <1>10, <1>11 DEF SameNames
  <2>4. QED
    BY <2>1, <2>2, <2>3
<1>13. OneMore(h, g, n)
  BY <1>7, <1>8, <1>10, <1>11 DEF OneMore
<1>14. SameFieldsBut(h, g, p) /\ g[p].fields = f
  BY <1>7, <1>8, <1>10, <1>11 DEF SameFields, SameFieldsBut
<1>15. QED
  BY <1>11, <1>12, <1>13, <1>14 DEF f

\* yaml_node_unref gives up one reference, or those of a node that it frees instead.
LEMMA UnrefIs ==
  ASSUME NEW h, IsHeap(h), NEW nodes \in Seq(DOMAIN h), nodes # <<>>,
         NEW g, g = UnrefFirst(h, nodes).heap, NEW rest, rest = UnrefFirst(h, nodes).nodes
  PROVE  /\ IsHeap(g) /\ SameNodes(h, g) /\ SameSeals(h, g) /\ SameNames(h, g)
         /\ FieldsFreed(h, g) /\ OneLess(h, g, Head(nodes))
         /\ rest \in Seq(DOMAIN h) /\ ReleasedOnce(h, nodes, g, rest)
<1> DEFINE n == Head(nodes)
           D == DOMAIN h
           r == IF h[n].refs = 1 THEN 0 ELSE h[n].refs - 1
           f == IF h[n].refs = 1 THEN <<>> ELSE h[n].fields
           new == [kind |-> h[n].kind, fields |-> f, refs |-> r, sealed |-> h[n].sealed,
                   anchor |-> h[n].anchor]
<1>1. n \in D /\ Tail(nodes) \in Seq(D)
  BY HeadTailProperties
<1>2. /\ h[n].kind \in Kinds /\ h[n].refs \in Int
      /\ h[n].fields \in Seq([key : Keys, child : D]) /\ OnceNamed(h[n].fields)
      /\ h[n].sealed \in BOOLEAN /\ h[n].anchor \in Names
      /\ h[n] \in NodeSet(D) /\ IsTree(h, Keys)
  BY <1>1, NodeFields
<1>3. h \in [D -> NodeSet(D)] /\ Len(h) \in Nat /\ D = 1..Len(h)
  BY DEF IsHeap
<1>4. r \in Int /\ r = h[n].refs - 1
  BY <1>2
<1>5. f \in Seq([key : Keys, child : D]) /\ OnceNamed(f)
  BY <1>2 DEF OnceNamed
<1>6. g = [h EXCEPT ![n] = new]
  <2>1. CASE h[n].refs = 1
    <3>1. g = [h EXCEPT ![n].refs = 0, ![n].fields = <<>>]
      BY <2>1 DEF UnrefFirst
    <3>2. g[n] = new /\ g = [h EXCEPT ![n] = g[n]]
      <4>1. g[n] = [h[n] EXCEPT !.refs = 0, !.fields = <<>>]
        BY <1>1, <1>3, <3>1
      <4>2. [h[n] EXCEPT !.refs = 0, !.fields = <<>>] = new
        <5>1. h[n] = [kind |-> h[n].kind, fields |-> h[n].fields, refs |-> h[n].refs,
                      sealed |-> h[n].sealed, anchor |-> h[n].anchor]
          BY <1>2 DEF NodeSet
        <5>2. [h[n] EXCEPT !.refs = 0, !.fields = <<>>]
                = [kind |-> h[n].kind, fields |-> <<>>, refs |-> 0,
                   sealed |-> h[n].sealed, anchor |-> h[n].anchor]
          <6> DEFINE e1 == [h[n] EXCEPT !.refs = 0]
          <6>1. e1 = [kind |-> h[n].kind, fields |-> h[n].fields, refs |-> 0,
                      sealed |-> h[n].sealed, anchor |-> h[n].anchor]
            BY <5>1
          <6>2. [h[n] EXCEPT !.refs = 0, !.fields = <<>>] = [e1 EXCEPT !.fields = <<>>]
            BY DEF e1
          <6> HIDE DEF e1
          <6>3. [e1 EXCEPT !.fields = <<>>]
                  = [kind |-> h[n].kind, fields |-> <<>>, refs |-> 0,
                     sealed |-> h[n].sealed, anchor |-> h[n].anchor]
            BY <6>1
          <6>4. QED
            BY <6>2, <6>3
        <5>3. r = 0 /\ f = <<>>
          BY <2>1
        <5>4. QED
          BY <5>2, <5>3
      <4>3. g = [h EXCEPT ![n] = g[n]]
        BY <1>1, <1>3, <3>1
      <4>4. QED
        BY <4>1, <4>2, <4>3
    <3>3. QED
      BY <3>2
  <2>2. CASE h[n].refs # 1
    <3>1. g = [h EXCEPT ![n].refs = @ - 1]
      BY <2>2 DEF UnrefFirst
    <3>2. g[n] = new /\ g = [h EXCEPT ![n] = g[n]]
      BY <1>1, <1>2, <1>3, <2>2, <3>1 DEF NodeSet
    <3>3. QED
      BY <3>2
  <2>3. QED
    BY <2>1, <2>2
<1>7. rest = IF h[n].refs = 1 THEN ChildrenIn(h, n) \o Tail(nodes) ELSE Tail(nodes)
  BY DEF UnrefFirst
<1>8. h[n].refs = 1 => f = <<>> /\ r = 0
  OBVIOUS
<1>9. h[n].refs # 1 => f = h[n].fields
  OBVIOUS
<1> HIDE DEF r, f
<1>10. new \in NodeSet(D)
  BY <1>2, <1>4, <1>5 DEF NodeSet
<1>11. /\ new.kind = h[n].kind /\ new.fields = f /\ new.refs = r
       /\ new.sealed = h[n].sealed /\ new.anchor = h[n].anchor
  OBVIOUS
<1> HIDE DEF new, n, D
<1>12. /\ g \in [D -> NodeSet(D)]
       /\ \A m \in D : g[m] = IF m = n THEN new ELSE h[m]
  BY <1>1, <1>3, <1>6, <1>10
<1>13. \A m \in D : OnceNamed(g[m].fields)
  <2>1. \A m \in D : OnceNamed(h[m].fields)
    BY DEF IsHeap, D
  <2>2. QED
    BY <1>5, <1>11, <1>12, <2>1
<1>14. IsHeap(g) /\ DOMAIN g = D /\ Len(g) = Len(h)
  BY <1>12, <1>13, HeapChanged DEF D
<1>15. SameNodes(h, g)
  BY <1>11, <1>12, <1>14 DEF SameNodes, D
<1>16. SameSeals(h, g)
  BY <1>11, <1>12, <1>14 DEF SameSeals, D
<1>17. SameNames(h, g)
  BY <1>11, <1>12, <1>14 DEF SameNames, D
<1>18. FieldsFreed(h, g)
  <2> SUFFICES ASSUME NEW m \in D
               PROVE  g[m].fields = h[m].fields \/ (g[m].fields = <<>> /\ g[m].refs = 0)
    BY DEF FieldsFreed, D
  <2>1. CASE m # n
    <3>1. g[m] = h[m]
      BY <1>12, <2>1
    <3>2. QED
      BY <3>1
  <2>2. CASE m = n /\ h[n].refs = 1
    BY <1>8, <1>11, <1>12, <2>2
  <2>3. CASE m = n /\ h[n].refs # 1
    <3>1. g[m].fields = f /\ f = h[m].fields
      BY <1>9, <1>11, <1>12, <2>3
    <3>2. QED
      BY <3>1
  <2>4. QED
    BY <2>1, <2>2, <2>3
<1>19. \A m \in D : h[m].refs \in Int
  BY NodeFields DEF D
<1>20. OneLess(h, g, n)
  <2> SUFFICES ASSUME NEW m \in D PROVE g[m].refs = h[m].refs - Same(n, m)
    BY DEF OneLess, D
  <2>1. CASE m = n
    BY <1>4, <1>11, <1>12, <2>1 DEF Same
  <2>2. CASE m # n
    BY <1>12, <1>19, <2>2 DEF Same
  <2>3. QED
    BY <2>1, <2>2
<1>21. ChildrenIn(h, n) \in Seq(D)
  BY <1>1, <1>2, ChildrenAre DEF D
<1>22. rest \in Seq(D)
  BY <1>1, <1>7, <1>21, ConcatProperties
<1>23. IsTree(g, Keys)
  BY <1>14, NodeFields
<1>24. nodes \in Seq(D) /\ nodes # <<>> /\ n = Head(nodes)
  BY DEF D, n
<1>25. ASSUME NEW m \in D
       PROVE  Places(rest, m) + Uses(g, m) = Places(nodes, m) + Uses(h, m) - Same(n, m)
  <2>1. Places(nodes, m) = Same(n, m) + Places(Tail(nodes), m) /\ Places(Tail(nodes), m) \in Nat
    BY <1>24, PlacesOfTail
  <2>2. Same(n, m) \in Int
    BY DEF Same
  <2>3. CASE h[n].refs = 1
    <3>1. Places(rest, m) = Places(ChildrenIn(h, n), m) + Places(Tail(nodes), m)
      <4>1. Places(ChildrenIn(h, n) \o Tail(nodes), m)
              = Places(ChildrenIn(h, n), m) + Places(Tail(nodes), m)
        BY <1>1, <1>21, PlacesOfBoth
      <4>2. QED
        BY <1>7, <2>3, <4>1
    <3>2. SameFieldsBut(h, g, n)
      BY <1>12 DEF D, SameFieldsBut
    <3>3. /\ Uses(g, m) = Uses(h, m) + Places(ChildrenIn(g, n), m) - Places(ChildrenIn(h, n), m)
          /\ Uses(g, m) \in Nat /\ Uses(h, m) \in Nat
          /\ Places(ChildrenIn(g, n), m) \in Nat /\ Places(ChildrenIn(h, n), m) \in Nat
      <4>1. n \in DOMAIN h /\ DOMAIN g = DOMAIN h
        BY <1>1, <1>14 DEF D
      <4>2. QED
        BY <1>2, <1>23, <3>2, <4>1, UsesMove
    <3>4. ChildrenIn(g, n) = <<>>
      <4>1. g[n].fields = <<>>
        BY <1>1, <1>8, <1>11, <1>12, <2>3
      <4>2. QED
        BY <4>1 DEF ChildrenIn
    <3>5. Places(ChildrenIn(g, n), m) = 0
      BY <3>4, PlacesOfNone
    <3>6. QED
      BY <2>1, <2>2, <3>1, <3>3, <3>5
  <2>4. CASE h[n].refs # 1
    <3>1. SameFields(h, g)
      BY <1>9, <1>11, <1>12, <2>4 DEF D, SameFields
    <3>2. Uses(g, m) = Uses(h, m)
      BY <1>14, <3>1, UsesSame DEF D
    <3>3. Uses(h, m) \in Nat
      BY <1>2, PairsAreFinite
    <3>4. QED
      BY <1>7, <2>1, <2>2, <2>4, <3>2, <3>3
  <2>5. QED
    BY <2>3, <2>4
<1>26. ReleasedOnce(h, nodes, g, rest)
  BY <1>25 DEF ReleasedOnce, D, n
<1>27. QED
  BY <1>14, <1>15, <1>16, <1>17, <1>18, <1>20, <1>22, <1>26 DEF D, n

-----------------------------------------------------------------------------
(* The parts of the state, and the references they hold. *)

NodesOf(frames) == [i \in DOMAIN frames |-> frames[i].node]
Local(c)        == IF c = Null THEN <<>> ELSE c.local
Named(table, n) == Cardinality({a \in Anchor : table[a] = n})

IsStack(h, frames) ==
    /\ frames \in Seq(FrameSet(DOMAIN h))
    /\ \A i \in DOMAIN frames : frames[i].name # Null => h[frames[i].node].kind # "sequence"
IsTable(h, table) == table \in [Anchor -> DOMAIN h \cup {Null}]
IsCall(h, c)      == c \in {Null} \cup [node : DOMAIN h, local : Seq(DOMAIN h)]

\* References from the stack, the root, the table and the client.
KeptTimes(frames, top, table, own, n) ==
    Places(NodesOf(frames), n) + Same(top, n) + Named(table, n) + Places(own, n)

\* The counters of a heap are the references from the parts of the state.
Balanced(h, frames, top, table, own, rel, local) ==
    \A n \in DOMAIN h :
      h[n].refs = KeptTimes(frames, top, table, own, n)
                    + Places(rel, n) + Places(local, n) + Uses(h, n)

\* A node is a number, and Null is none.
LEMMA NodesAreNumbers ==
  ASSUME NEW h, IsHeap(h)
  PROVE  /\ DOMAIN h \subseteq Nat /\ Null \notin DOMAIN h
         /\ \A c \in [node : DOMAIN h, local : Seq(DOMAIN h)] : c # Null
<1>1. DOMAIN h \subseteq Nat
  BY DEF IsHeap
<1>2. Null \notin DOMAIN h
  BY <1>1, BuilderAssumption
<1>3. ASSUME NEW c \in [node : DOMAIN h, local : Seq(DOMAIN h)]
      PROVE  c # Null
  <2>1. c.node \in Nat /\ c = [node |-> c.node, local |-> c.local]
    BY <1>1
  <2>2. c.local \in Seq(Nat)
    BY <1>1, SeqMonotonic
  <2>3. c \in [node : Nat, local : Seq(Nat)]
    BY <2>1, <2>2
  <2>4. QED
    BY <2>3, BuilderAssumption
<1>4. QED
  BY <1>1, <1>2, <1>3

\* The nodes of the frames.
LEMMA FramesAre ==
  ASSUME NEW D, NEW frames \in Seq(FrameSet(D))
  PROVE  /\ NodesOf(frames) \in Seq(D) /\ Len(frames) \in Nat
         /\ DOMAIN frames = 1..Len(frames)
         /\ Len(NodesOf(frames)) = Len(frames) /\ DOMAIN NodesOf(frames) = DOMAIN frames
<1> DEFINE k == Len(frames)
           c == [i \in 1..k |-> frames[i].node]
<1>1. k \in Nat /\ DOMAIN frames = 1..k /\ \A i \in 1..k : frames[i] \in FrameSet(D)
  BY LenProperties, ElementOfSeq
<1>2. \A i \in 1..k : frames[i].node \in D
  BY <1>1 DEF FrameSet
<1>3. NodesOf(frames) = c
  BY <1>1 DEF NodesOf
<1> HIDE DEF k
<1>4. c \in Seq(D) /\ Len(c) = k
  BY <1>1, <1>2, IsASeq
<1>5. QED
  BY <1>1, <1>3, <1>4 DEF k

\* A frame of a stack.
LEMMA FrameIs ==
  ASSUME NEW D, NEW frames \in Seq(FrameSet(D)), NEW i \in DOMAIN frames
  PROVE  /\ frames[i] \in FrameSet(D) /\ frames[i].node \in D /\ frames[i].name \in Key \cup {Null}
         /\ NodesOf(frames)[i] = frames[i].node
<1>1. DOMAIN frames = 1..Len(frames)
  BY LenProperties
<1>2. frames[i] \in FrameSet(D)
  BY <1>1, ElementOfSeq
<1>3. QED
  BY <1>2 DEF FrameSet, NodesOf

\* A node that may be missing.
LEMMA PlacesIfSet ==
  ASSUME NEW D, Null \notin D, NEW x \in D \cup {Null}, NEW n \in D
  PROVE  IfSet(x) \in Seq(D) /\ Places(IfSet(x), n) = Same(x, n)
<1>1. CASE x = Null
  <2>1. IfSet(x) = <<>>
    BY <1>1 DEF IfSet
  <2>2. Places(IfSet(x), n) = 0
    BY <2>1, PlacesOfNone
  <2>3. QED
    BY <1>1, <2>1, <2>2 DEF Same
<1>2. CASE x # Null
  <2>1. IfSet(x) = <<x>> /\ x \in D
    BY <1>2 DEF IfSet
  <2>2. QED
    BY <2>1, PlacesOfOne
<1>3. QED
  BY <1>1, <1>2

\* The table holds only so many references.
LEMMA NamedIs ==
  ASSUME NEW table, NEW n
  PROVE  /\ IsFiniteSet({a \in Anchor : table[a] = n})
         /\ Named(table, n) \in Nat
<1>1. {a \in Anchor : table[a] = n} \in SUBSET Anchor
  OBVIOUS
<1>2. IsFiniteSet({a \in Anchor : table[a] = n})
  BY <1>1, BuilderAssumption, FS_Subset
<1>3. QED
  BY <1>2, FS_CardinalityType DEF Named

\* The table and what it forgets.
LEMMA NamedMoves ==
  ASSUME NEW h, IsHeap(h), NEW table, IsTable(h, table), NEW a \in Anchor, NEW x \in DOMAIN h,
         NEW n \in DOMAIN h
  PROVE  /\ IsTable(h, [table EXCEPT ![a] = x])
         /\ Named([table EXCEPT ![a] = x], n) + Same(table[a], n) = Named(table, n) + Same(x, n)
<1> DEFINE A == {b \in Anchor : table[b] = n}
           B == {b \in Anchor : [table EXCEPT ![a] = x][b] = n}
<1>1. IsTable(h, [table EXCEPT ![a] = x])
  BY DEF IsTable
<1>2. table \in [Anchor -> DOMAIN h \cup {Null}]
  BY DEF IsTable
<1>3. A \ {a} = B \ {a}
  BY <1>2
<1>4. (a \in A <=> table[a] = n) /\ (a \in B <=> x = n)
  BY <1>2
<1>5. IsFiniteSet(A)
  BY NamedIs
<1>6. Named(table, n) = Cardinality(A) /\ Named([table EXCEPT ![a] = x], n) = Cardinality(B)
  BY DEF Named
<1> HIDE DEF A, B
<1>7. /\ Cardinality(A) \in Nat /\ Cardinality(B) \in Nat
      /\ Cardinality(B) = Cardinality(A) + (IF a \in B THEN 1 ELSE 0) - (IF a \in A THEN 1 ELSE 0)
  BY <1>3, <1>5, OneDiffers
<1>8. QED
  BY <1>1, <1>4, <1>6, <1>7 DEF Same

\* The table as a sequence.
LEMMA TableIs ==
  ASSUME NEW h, IsHeap(h), IsTable(h, anchors), NEW n \in DOMAIN h
  PROVE  TableNodes \in Seq(DOMAIN h) /\ Places(TableNodes, n) = Named(anchors, n)
<1> DEFINE B == {a \in Anchor : anchors[a] # Null}
<1>1. IsFiniteSet(B)
  BY BuilderAssumption, FS_Subset
<1>2. \A b \in B : anchors[b] \in DOMAIN h
  BY DEF IsTable
<1>3. TableNodes = Listed(anchors, B)
  BY DEF TableNodes, Listed
<1>4. {b \in B : anchors[b] = n} = {a \in Anchor : anchors[a] = n}
  BY NodesAreNumbers
<1> HIDE DEF B
<1>5. TableNodes \in Seq(DOMAIN h) /\ Places(TableNodes, n) = Cardinality({b \in B : anchors[b] = n})
  BY <1>1, <1>2, <1>3, PlacesOfTable
<1>6. QED
  BY <1>4, <1>5 DEF Named

-----------------------------------------------------------------------------
(* add_value_to_context: what becomes of the node. *)

TopNode(frames)   == Last(frames).node
NameFor(g, frames) ==
    IF g[TopNode(frames)].kind = "sequence" THEN Element ELSE Last(frames).name
Unnamed(frames)   == [frames EXCEPT ![Len(frames)].name = Null]

\* There is no open container: the node is to be the root.
BecomesRoot(g, n, frames, local) ==
    /\ frames = <<>> /\ heap' = g /\ stack' = frames /\ root' = Null
    /\ call' = [node |-> n, local |-> local]
    /\ releasing' = Forgotten \o IfSet(root)

\* No member name was set.
IsIgnored(g, frames, local) ==
    /\ frames # <<>> /\ NameFor(g, frames) = Null
    /\ heap' = g /\ stack' = frames /\ root' = root /\ call' = call
    /\ releasing' = Forgotten \o local

\* The container takes the node.
IsTaken(g, n, frames, local) ==
    /\ frames # <<>> /\ NameFor(g, frames) # Null /\ ~g[TopNode(frames)].sealed
    /\ heap' = StoredAt(g, TopNode(frames), NameFor(g, frames), n)
    /\ stack' = Unnamed(frames) /\ root' = root /\ call' = call
    /\ releasing' = (Forgotten \o Replaced(g[TopNode(frames)].fields, NameFor(g, frames))) \o local

\* The container is sealed.
IsRefused(g, frames, local) ==
    /\ frames # <<>> /\ NameFor(g, frames) # Null /\ g[TopNode(frames)].sealed
    /\ heap' = g /\ stack' = Unnamed(frames) /\ root' = root /\ call' = call
    /\ releasing' = (Forgotten \o <<>>) \o local

\* There is nothing else that can become of it.
LEMMA AddCases ==
  ASSUME NEW h, NEW n, NEW frames, NEW local, AddToContext(h, n, frames, local)
  PROVE  /\ ApplyPending(n)
         /\ \/ BecomesRoot(WithMetadata(h, n), n, frames, local)
            \/ IsIgnored(WithMetadata(h, n), frames, local)
            \/ IsTaken(WithMetadata(h, n), n, frames, local)
            \/ IsRefused(WithMetadata(h, n), frames, local)
<1> DEFINE g == WithMetadata(h, n)
           p == TopNode(frames)
           key == NameFor(g, frames)
<1>1. ApplyPending(n)
  BY DEF AddToContext
<1>2. CASE frames = <<>>
  BY <1>1, <1>2 DEF AddToContext, BecomesRoot
<1>3. CASE frames # <<>> /\ key = Null
  BY <1>1, <1>3 DEF AddToContext, IsIgnored, NameFor, TopNode
<1>4. CASE frames # <<>> /\ key # Null /\ ~g[p].sealed
  <2>1. IsTaken(g, n, frames, local)
    BY <1>4 DEF AddToContext, IsTaken, NameFor, TopNode, MayStore, Unnamed, StoredAt
  <2>2. QED
    BY <1>1, <2>1
<1>5. CASE frames # <<>> /\ key # Null /\ g[p].sealed
  <2>1. IsRefused(g, frames, local)
    BY <1>5 DEF AddToContext, IsRefused, NameFor, TopNode, MayStore, Unnamed
  <2>2. QED
    BY <1>1, <2>1
<1>6. QED
  BY <1>2, <1>3, <1>4, <1>5

\* The frame on top of the stack.
LEMMA TopIs ==
  ASSUME NEW h, IsHeap(h), NEW frames, IsStack(h, frames), frames # <<>>
  PROVE  /\ TopNode(frames) \in DOMAIN h /\ Len(frames) \in DOMAIN frames
         /\ Last(frames) = frames[Len(frames)]
         /\ TopNode(frames) = frames[Len(frames)].node
         /\ IsStack(h, Unnamed(frames)) /\ NodesOf(Unnamed(frames)) = NodesOf(frames)
         /\ DOMAIN Unnamed(frames) = DOMAIN frames
<1> DEFINE k == Len(frames)
           D == DOMAIN h
           top == [node |-> frames[k].node, name |-> Null]
           new == Unnamed(frames)
<1>1. frames \in Seq(FrameSet(D)) /\ k \in Nat \ {0} /\ DOMAIN frames = 1..k
  BY EmptySeq, LenProperties DEF IsStack
<1>2. k \in DOMAIN frames
  BY <1>1
<1>3. frames[k] \in FrameSet(D) /\ frames[k].node \in D
  BY <1>1, <1>2, FrameIs
<1>4. new = [frames EXCEPT ![k] = top]
  <2>1. frames[k] = [node |-> frames[k].node, name |-> frames[k].name]
    BY <1>3 DEF FrameSet
  <2>2. [frames[k] EXCEPT !.name = Null] = top
    BY <2>1
  <2>3. new = [frames EXCEPT ![k] = [frames[k] EXCEPT !.name = Null]]
    BY DEF Unnamed
  <2>4. QED
    BY <2>2, <2>3
<1>5. top \in FrameSet(D) /\ top.node = frames[k].node /\ top.name = Null
  BY <1>3 DEF FrameSet
<1> HIDE DEF top, k, new
<1>6. k \in 1..Len(frames)
  BY <1>1 DEF k
<1>7. /\ new \in Seq(FrameSet(D)) /\ Len(new) = k
      /\ \A i \in 1..k : new[i] = IF i = k THEN top ELSE frames[i]
  <2>1. /\ new \in Seq(FrameSet(D)) /\ Len(new) = Len(frames)
        /\ \A i \in 1..Len(frames) : new[i] = IF i = k THEN top ELSE frames[i]
    BY <1>1, <1>4, <1>5, <1>6, ExceptSeq
  <2>2. QED
    BY <2>1 DEF k
<1>8. DOMAIN new = 1..k
  BY <1>7, LenProperties
<1>9. \A i \in 1..k : new[i].node = frames[i].node
                      /\ (new[i].name # Null => new[i].name = frames[i].name)
  BY <1>5, <1>7
<1>10. IsStack(h, new)
  BY <1>1, <1>7, <1>8, <1>9 DEF IsStack, D
<1>11. NodesOf(new) = NodesOf(frames)
  BY <1>1, <1>8, <1>9 DEF NodesOf
<1>12. Last(frames) = frames[k]
  BY DEF Last, k
<1>13. QED
  BY <1>1, <1>2, <1>3, <1>8, <1>10, <1>11, <1>12 DEF k, new, D, TopNode

\* The name under which the node is taken.
LEMMA NameIs ==
  ASSUME NEW h, IsHeap(h), NEW frames, IsStack(h, frames), frames # <<>>,
         NameFor(h, frames) # Null
  PROVE  NameFor(h, frames) \in Keys
<1>1. Last(frames) = frames[Len(frames)] /\ Len(frames) \in DOMAIN frames
  BY TopIs
<1>2. Last(frames).name \in Key \cup {Null}
  BY <1>1, FrameIs DEF IsStack
<1>3. QED
  BY <1>2 DEF NameFor, Keys

\* Stacks, tables and calls are of two heaps with the same nodes.
LEMMA SameStacks ==
  ASSUME NEW h, NEW g, SameNodes(h, g)
  PROVE  /\ \A frames : IsStack(h, frames) => IsStack(g, frames)
         /\ \A table : IsTable(h, table) => IsTable(g, table)
         /\ \A c : IsCall(h, c) => IsCall(g, c)
<1>1. DOMAIN g = DOMAIN h /\ \A m \in DOMAIN h : g[m].kind = h[m].kind
  BY DEF SameNodes
<1>2. ASSUME NEW frames, IsStack(h, frames)
      PROVE  IsStack(g, frames)
  <2>1. \A i \in DOMAIN frames : frames[i].node \in DOMAIN h
    BY <1>2, FrameIs DEF IsStack
  <2>2. QED
    BY <1>1, <1>2, <2>1 DEF IsStack
<1>3. QED
  BY <1>1, <1>2 DEF IsTable, IsCall

-----------------------------------------------------------------------------
(* The counters, when a node is named and added. *)

\* Numbers of references are numbers.
LEMMA CountsAreNumbers ==
  ASSUME NEW h, IsHeap(h), NEW frames, IsStack(h, frames), NEW own \in Seq(DOMAIN h),
         NEW rel \in Seq(DOMAIN h), NEW local \in Seq(DOMAIN h), NEW top, NEW table,
         NEW m \in DOMAIN h
  PROVE  /\ Places(NodesOf(frames), m) \in Int /\ Same(top, m) \in Int /\ Named(table, m) \in Int
         /\ Places(own, m) \in Int /\ Places(rel, m) \in Int /\ Places(local, m) \in Int
         /\ Uses(h, m) \in Int /\ h[m].refs \in Int
<1>1. NodesOf(frames) \in Seq(DOMAIN h)
  BY FramesAre DEF IsStack
<1>2. Places(NodesOf(frames), m) \in Nat
  BY <1>1, PlacesAreFinite
<1>3. Places(own, m) \in Nat /\ Places(rel, m) \in Nat /\ Places(local, m) \in Nat
  BY PlacesAreFinite
<1>4. Named(table, m) \in Nat
  BY NamedIs
<1>5. IsTree(h, Keys) /\ h[m].refs \in Int
  BY NodeFields
<1>6. Uses(h, m) \in Nat
  BY <1>5, PairsAreFinite
<1>7. Same(top, m) \in Int
  BY DEF Same
<1>8. QED
  BY <1>2, <1>3, <1>4, <1>5, <1>6, <1>7

\* The table takes a reference to the node and gives up the one it had under the name.
LEMMA MetadataBalanced ==
  ASSUME NEW h, IsHeap(h), NEW n \in DOMAIN h, NEW frames, IsStack(h, frames), NEW top,
         IsTable(h, anchors), NEW own \in Seq(DOMAIN h), NEW local \in Seq(DOMAIN h),
         pending \in Names, ApplyPending(n),
         Balanced(h, frames, top, anchors, own, <<>>, local)
  PROVE  /\ Balanced(WithMetadata(h, n), frames, top, anchors', own, Forgotten, local)
         /\ IsTable(h, anchors') /\ Forgotten \in Seq(DOMAIN h)
<1> DEFINE g == WithMetadata(h, n)
           D == DOMAIN h
<1>1. /\ IsHeap(g) /\ SameNodes(h, g) /\ SameFields(h, g)
      /\ pending = Null => SameRefs(h, g)
      /\ pending # Null => OneMore(h, g, n)
  BY MetadataIs
<1>2. DOMAIN g = D
  BY <1>1 DEF SameNodes
<1>3. /\ pending = Null => anchors' = anchors /\ Forgotten = <<>>
      /\ pending # Null => /\ pending \in Anchor /\ anchors' = [anchors EXCEPT ![pending] = n]
                           /\ Forgotten = IfSet(anchors[pending])
                           /\ anchors[pending] \in D \cup {Null}
  BY DEF ApplyPending, Forgotten, Names, IsTable
<1>4. Null \notin D
  BY NodesAreNumbers
<1>5. ASSUME NEW m \in D
      PROVE  /\ g[m].refs = h[m].refs + (IF pending = Null THEN 0 ELSE Same(n, m))
             /\ Named(anchors', m) + Places(Forgotten, m)
                  = Named(anchors, m) + (IF pending = Null THEN 0 ELSE Same(n, m))
             /\ IsTable(h, anchors') /\ Forgotten \in Seq(D) /\ Named(anchors', m) \in Int
  <2>1. Named(anchors, m) \in Nat /\ h[m].refs \in Int
    BY NamedIs, NodeFields
  <2>2. CASE pending = Null
    <3>1. Places(Forgotten, m) = 0
      BY <1>3, <2>2, PlacesOfNone
    <3>2. g[m].refs = h[m].refs
      BY <1>1, <2>2 DEF SameRefs
    <3>3. anchors' = anchors /\ Forgotten = <<>>
      BY <1>3, <2>2
    <3>4. Forgotten \in Seq(D)
      BY <3>3
    <3>5. QED
      BY <2>1, <2>2, <3>1, <3>2, <3>3, <3>4
  <2>3. CASE pending # Null
    <3>1. Places(Forgotten, m) = Same(anchors[pending], m) /\ Forgotten \in Seq(D)
      BY <1>3, <1>4, <2>3, PlacesIfSet
    <3>2. pending \in Anchor
      BY <1>3, <2>3
    <3>3. /\ IsTable(h, [anchors EXCEPT ![pending] = n])
          /\ Named([anchors EXCEPT ![pending] = n], m) + Same(anchors[pending], m)
               = Named(anchors, m) + Same(n, m)
      BY <3>2, NamedMoves
    <3>4. g[m].refs = h[m].refs + Same(n, m)
      BY <1>1, <2>3 DEF OneMore
    <3>5. anchors' = [anchors EXCEPT ![pending] = n]
      BY <1>3, <2>3
    <3>6. Named(anchors', m) + Same(anchors[pending], m) = Named(anchors, m) + Same(n, m)
          /\ IsTable(h, anchors')
      BY <3>3, <3>5
    <3>7. Named([anchors EXCEPT ![pending] = n], m) \in Nat
      BY NamedIs
    <3>8. Named(anchors', m) \in Int
      BY <3>5, <3>7
    <3>9. QED
      BY <2>3, <3>1, <3>4, <3>6, <3>8
  <2>4. QED
    BY <2>2, <2>3
<1>6. IsTable(h, anchors') /\ Forgotten \in Seq(D)
  BY <1>5
<1>7. ASSUME NEW m \in DOMAIN g
      PROVE  g[m].refs = Places(NodesOf(frames), m) + Same(top, m) + Named(anchors', m)
                           + Places(own, m) + Places(Forgotten, m) + Places(local, m) + Uses(g, m)
  <2>1. m \in D
    BY <1>2
  <2>2. <<>> \in Seq(D) /\ Places(<<>>, m) = 0
    BY PlacesOfNone
  <2>3. h[m].refs = Places(NodesOf(frames), m) + Same(top, m) + Named(anchors, m) + Places(own, m)
                      + Places(<<>>, m) + Places(local, m) + Uses(h, m)
    BY <2>1 DEF Balanced, KeptTimes
  <2>4. Uses(g, m) = Uses(h, m)
    BY <1>1, <1>2, UsesSame
  <2>5. /\ Places(NodesOf(frames), m) \in Int /\ Same(top, m) \in Int /\ Named(anchors, m) \in Int
        /\ Places(own, m) \in Int /\ Places(Forgotten, m) \in Int /\ Places(local, m) \in Int
        /\ Uses(h, m) \in Int /\ h[m].refs \in Int
    BY <1>6, <2>1, CountsAreNumbers
  <2>6. Named(anchors', m) \in Int /\ Same(n, m) \in Int
    BY <1>5, <2>1 DEF Same
  <2>7. /\ g[m].refs = h[m].refs + (IF pending = Null THEN 0 ELSE Same(n, m))
        /\ Named(anchors', m) + Places(Forgotten, m)
             = Named(anchors, m) + (IF pending = Null THEN 0 ELSE Same(n, m))
    BY <1>5, <2>1
  <2> DEFINE d == IF pending = Null THEN 0 ELSE Same(n, m)
  <2>8. d \in Int /\ g[m].refs = h[m].refs + d
        /\ Named(anchors', m) + Places(Forgotten, m) = Named(anchors, m) + d
    BY <2>6, <2>7
  <2> HIDE DEF d, g
  <2>9. h[m].refs = Places(NodesOf(frames), m) + Same(top, m) + Named(anchors, m) + Places(own, m)
                      + Places(local, m) + Uses(h, m)
    BY <2>2, <2>3, <2>5
  <2> DEFINE x == Places(NodesOf(frames), m) + Same(top, m) + Places(own, m)
                    + Places(local, m) + Uses(h, m)
  <2>10. x \in Int /\ h[m].refs = Named(anchors, m) + x
    BY <2>5, <2>9
  <2>11. Places(NodesOf(frames), m) + Same(top, m) + Named(anchors', m)
           + Places(own, m) + Places(Forgotten, m) + Places(local, m) + Uses(h, m)
           = Named(anchors', m) + Places(Forgotten, m) + x
    BY <2>5, <2>6
  <2> HIDE DEF x
  <2>12. g[m].refs = Named(anchors', m) + Places(Forgotten, m) + x
    BY <2>5, <2>6, <2>8, <2>10
  <2>13. QED
    BY <2>4, <2>11, <2>12
<1>8. QED
  BY <1>6, <1>7 DEF Balanced, KeptTimes

\* What is left of the balance without the references that are to be dropped.
LEMMA BalanceIs ==
  ASSUME NEW h, IsHeap(h), NEW frames, IsStack(h, frames), NEW own \in Seq(DOMAIN h),
         NEW rel \in Seq(DOMAIN h), NEW local \in Seq(DOMAIN h), NEW top, NEW table,
         NEW m \in DOMAIN h
  PROVE  /\ KeptTimes(frames, top, table, own, m) \in Int
         /\ Places(rel, m) \in Int /\ Places(local, m) \in Int
         /\ Uses(h, m) \in Int /\ h[m].refs \in Int
<1>1. /\ Places(NodesOf(frames), m) \in Int /\ Same(top, m) \in Int /\ Named(table, m) \in Int
      /\ Places(own, m) \in Int /\ Places(rel, m) \in Int /\ Places(local, m) \in Int
      /\ Uses(h, m) \in Int /\ h[m].refs \in Int
  BY CountsAreNumbers
<1>2. QED
  BY <1>1 DEF KeptTimes

\* Two sequences together hold what two others do.
SamePlaces(D, rel, local, rel2, local2) ==
    \A m \in D : /\ Places(rel2, m) \in Int /\ Places(local2, m) \in Int
                 /\ Places(rel2, m) + Places(local2, m) = Places(rel, m) + Places(local, m)

\* The balance when references go from one place to another.
LEMMA BalanceMoves ==
  ASSUME NEW h, IsHeap(h), NEW frames, IsStack(h, frames), NEW own \in Seq(DOMAIN h),
         NEW rel \in Seq(DOMAIN h), NEW local \in Seq(DOMAIN h), NEW top, NEW table,
         Balanced(h, frames, top, table, own, rel, local),
         NEW rel2, NEW local2, SamePlaces(DOMAIN h, rel, local, rel2, local2)
  PROVE  Balanced(h, frames, top, table, own, rel2, local2)
<1> SUFFICES ASSUME NEW m \in DOMAIN h
             PROVE  h[m].refs = KeptTimes(frames, top, table, own, m)
                                  + Places(rel2, m) + Places(local2, m) + Uses(h, m)
  BY DEF Balanced
<1>1. h[m].refs = KeptTimes(frames, top, table, own, m) + Places(rel, m) + Places(local, m)
                    + Uses(h, m)
  BY DEF Balanced
<1>2. /\ KeptTimes(frames, top, table, own, m) \in Int
      /\ Places(rel, m) \in Int /\ Places(local, m) \in Int
      /\ Uses(h, m) \in Int /\ h[m].refs \in Int
  BY BalanceIs
<1>3. Places(rel2, m) \in Int /\ Places(local2, m) \in Int
      /\ Places(rel2, m) + Places(local2, m) = Places(rel, m) + Places(local, m)
  BY DEF SamePlaces
<1> DEFINE k == KeptTimes(frames, top, table, own, m)
<1>4. k + Places(rel, m) + Places(local, m) + Uses(h, m)
        = k + Uses(h, m) + (Places(rel, m) + Places(local, m))
  BY <1>2
<1>5. k + Places(rel2, m) + Places(local2, m) + Uses(h, m)
        = k + Uses(h, m) + (Places(rel2, m) + Places(local2, m))
  BY <1>2, <1>3
<1>6. QED
  BY <1>1, <1>3, <1>4, <1>5

\* The balance when a node that is stored in another has its counter raised, and
\* what it replaces is to be dropped.
LEMMA BalanceStored ==
  ASSUME NEW h, IsHeap(h), NEW frames, IsStack(h, frames), NEW own \in Seq(DOMAIN h),
         NEW rel \in Seq(DOMAIN h), NEW local \in Seq(DOMAIN h), NEW top, NEW table,
         Balanced(h, frames, top, table, own, rel, local),
         NEW n \in DOMAIN h, NEW p \in DOMAIN h, NEW key \in Keys,
         NEW g, g = StoredAt(h, p, key, n)
  PROVE  /\ Balanced(g, frames, top, table, own, (rel \o Replaced(h[p].fields, key)) \o local, <<>>)
         /\ (rel \o Replaced(h[p].fields, key)) \o local \in Seq(DOMAIN h)
<1> DEFINE gone == Replaced(h[p].fields, key)
           D == DOMAIN h
<1>1. /\ IsHeap(g) /\ SameNodes(h, g) /\ OneMore(h, g, n)
      /\ SameFieldsBut(h, g, p) /\ g[p].fields = Stored(h[p].fields, key, n)
  BY NodeStoredIs
<1>2. DOMAIN g = D
  BY <1>1 DEF SameNodes
<1>3. IsTree(h, Keys) /\ IsTree(g, Keys)
  BY <1>1, NodeFields
<1>4. /\ h[p].fields \in Seq([key : Keys, child : D]) /\ OnceNamed(h[p].fields)
  BY NodeFields
<1>5. gone \in Seq(D)
  BY <1>4, StoredIs
<1>6. \A m : Places(Kids(Stored(h[p].fields, key, n)), m)
               = Places(Kids(h[p].fields), m) + Same(n, m) - Places(gone, m)
  <2>1. StoredOnce(h[p].fields, key, n)
    BY <1>4, StoredIs
  <2>2. QED
    BY <2>1 DEF StoredOnce
<1>7. ChildrenIn(h, p) = Kids(h[p].fields) /\ ChildrenIn(g, p) = Kids(g[p].fields)
  BY DEF ChildrenIn, Kids
<1> HIDE DEF gone
<1>8. rel \o gone \in Seq(D)
  BY <1>5, ConcatProperties
<1>9. (rel \o gone) \o local \in Seq(D)
  BY <1>8, ConcatProperties
<1>10. ASSUME NEW m \in D
       PROVE  g[m].refs = KeptTimes(frames, top, table, own, m)
                            + Places((rel \o gone) \o local, m) + Places(<<>>, m) + Uses(g, m)
  <2>1. h[m].refs = KeptTimes(frames, top, table, own, m) + Places(rel, m) + Places(local, m)
                      + Uses(h, m)
    BY DEF Balanced
  <2>2. /\ KeptTimes(frames, top, table, own, m) \in Int
        /\ Places(rel, m) \in Int /\ Places(local, m) \in Int
        /\ Uses(h, m) \in Int /\ h[m].refs \in Int
    BY BalanceIs
  <2>3. Same(n, m) \in Int
    BY DEF Same
  <2>4. g[m].refs = h[m].refs + Same(n, m)
    BY <1>1 DEF OneMore
  <2>5. /\ Uses(g, m) = Uses(h, m) + Places(ChildrenIn(g, p), m) - Places(ChildrenIn(h, p), m)
        /\ Places(ChildrenIn(g, p), m) \in Nat /\ Places(ChildrenIn(h, p), m) \in Nat
    BY <1>1, <1>2, <1>3, UsesMove
  <2>6. Places(ChildrenIn(g, p), m) = Places(ChildrenIn(h, p), m) + Same(n, m) - Places(gone, m)
    BY <1>1, <1>6, <1>7
  <2>7. Places(rel \o gone, m) = Places(rel, m) + Places(gone, m) /\ Places(gone, m) \in Nat
    BY <1>5, PlacesOfBoth
  <2>8. Places((rel \o gone) \o local, m) = Places(rel \o gone, m) + Places(local, m)
    BY <1>8, PlacesOfBoth
  <2>9. Places(<<>>, m) = 0
    BY PlacesOfNone
  <2>10. Uses(g, m) = Uses(h, m) + Same(n, m) - Places(gone, m)
    BY <2>2, <2>3, <2>5, <2>6, <2>7
  <2>11. Places((rel \o gone) \o local, m) = Places(rel, m) + Places(gone, m) + Places(local, m)
    BY <2>7, <2>8
  <2> DEFINE k == KeptTimes(frames, top, table, own, m)
             r == Places(rel, m) + Places(local, m)
             u == Uses(h, m)
  <2>12. k \in Int /\ r \in Int /\ u \in Int /\ h[m].refs = k + r + u
    BY <2>1, <2>2
  <2>13. Places((rel \o gone) \o local, m) = r + Places(gone, m)
    BY <2>2, <2>7, <2>11
  <2> HIDE DEF k, r, u
  <2>14. g[m].refs = k + (r + Places(gone, m)) + 0 + (u + Same(n, m) - Places(gone, m))
    BY <2>3, <2>4, <2>7, <2>12
  <2>15. QED
    BY <2>9, <2>10, <2>13, <2>14 DEF k, u
<1>11. Balanced(g, frames, top, table, own, (rel \o gone) \o local, <<>>)
  BY <1>2, <1>10 DEF Balanced
<1>12. QED
  BY <1>9, <1>11 DEF gone

-----------------------------------------------------------------------------
(* What add_value_to_context leaves behind. *)

\* The parts of the state fit the nodes there are.
IsState(h, frames, top, table, own, rel, c) ==
    /\ IsHeap(h) /\ IsStack(h, frames) /\ top \in DOMAIN h \cup {Null} /\ IsTable(h, table)
    /\ own \in Seq(DOMAIN h) /\ rel \in Seq(DOMAIN h) /\ IsCall(h, c)
    /\ c # Null => frames = <<>> /\ top = Null

\* The references of a call.
LEMMA LocalIs ==
  ASSUME NEW h, IsHeap(h), NEW c, IsCall(h, c)
  PROVE  Local(c) \in Seq(DOMAIN h) /\ (c # Null => c.node \in DOMAIN h)
<1>1. CASE c = Null
  BY <1>1 DEF Local
<1>2. CASE c # Null
  BY <1>2 DEF Local, IsCall
<1>3. QED
  BY <1>1, <1>2

\* The node that is to be the root is kept by the call.
LEMMA RootCall ==
  ASSUME NEW h, IsHeap(h), NEW n \in DOMAIN h, NEW local \in Seq(DOMAIN h),
         NEW c, c = [node |-> n, local |-> local]
  PROVE  IsCall(h, c) /\ c # Null /\ Local(c) = local
<1>1. c \in [node : DOMAIN h, local : Seq(DOMAIN h)]
  OBVIOUS
<1>2. c # Null
  BY <1>1, NodesAreNumbers
<1>3. QED
  BY <1>1, <1>2 DEF IsCall, Local

\* The state fits, and the counters count its references.
LEMMA AddKeeps ==
  ASSUME NEW h, IsHeap(h), NEW n \in DOMAIN h, NEW frames, IsStack(h, frames),
         IsTable(h, anchors), root \in DOMAIN h \cup {Null}, owned \in Seq(DOMAIN h),
         NEW local \in Seq(DOMAIN h), pending \in Names, call = Null,
         AddToContext(h, n, frames, local),
         Balanced(h, frames, root, anchors, owned, <<>>, local)
  PROVE  /\ IsState(heap', stack', root', anchors', owned, releasing', call')
         /\ Balanced(heap', stack', root', anchors', owned, releasing', Local(call'))
         /\ pending' = Null /\ SameNodes(h, heap')
<1> DEFINE g == WithMetadata(h, n)
           D == DOMAIN h
           p == TopNode(frames)
           key == NameFor(g, frames)
<1>1. /\ ApplyPending(n)
      /\ \/ BecomesRoot(g, n, frames, local) \/ IsIgnored(g, frames, local)
         \/ IsTaken(g, n, frames, local) \/ IsRefused(g, frames, local)
  BY AddCases
<1>2. pending' = Null
  BY <1>1 DEF ApplyPending
<1>3. /\ IsHeap(g) /\ SameNodes(h, g)
  BY MetadataIs
<1>4. DOMAIN g = D
  BY <1>3 DEF SameNodes
<1>5. /\ Balanced(g, frames, root, anchors', owned, Forgotten, local)
      /\ IsTable(h, anchors') /\ Forgotten \in Seq(D)
  BY <1>1, MetadataBalanced
<1>6. IsStack(g, frames) /\ IsTable(g, anchors')
  <2>1. \A table : IsTable(h, table) => IsTable(g, table)
    BY <1>3, SameStacks
  <2>2. \A s : IsStack(h, s) => IsStack(g, s)
    BY <1>3, SameStacks
  <2>3. QED
    BY <1>5, <2>1, <2>2
<1> HIDE DEF g
<1>7. Local(Null) = <<>> /\ IsCall(g, Null) /\ <<>> \in Seq(D)
  BY DEF Local, IsCall
<1>8. Null \notin D
  BY NodesAreNumbers
<1>9. Forgotten \o local \in Seq(D)
  BY <1>5, ConcatProperties
<1>10. \A m \in D : /\ Places(Forgotten, m) \in Nat /\ Places(local, m) \in Nat
                    /\ Places(<<>>, m) = 0
                    /\ Places(Forgotten \o local, m) = Places(Forgotten, m) + Places(local, m)
  BY <1>5, PlacesOfBoth, PlacesOfNone
<1> DEFINE both == Forgotten \o local
<1>11. SamePlaces(D, Forgotten, local, both, <<>>)
  BY <1>10 DEF SamePlaces
<1>12. Balanced(g, frames, root, anchors', owned, both, <<>>)
  <2> HIDE DEF both
  <2>1. SamePlaces(DOMAIN g, Forgotten, local, both, <<>>)
    BY <1>4, <1>11
  <2>2. QED
    BY <1>3, <1>4, <1>5, <1>6, <2>1, BalanceMoves
<1>13. CASE BecomesRoot(g, n, frames, local)
  <2>1. /\ heap' = g /\ stack' = frames /\ root' = Null /\ frames = <<>>
        /\ call' = [node |-> n, local |-> local] /\ releasing' = Forgotten \o IfSet(root)
    BY <1>13 DEF BecomesRoot
  <2>2. IsCall(g, call') /\ call' # Null /\ Local(call') = local
    <3> DEFINE c == [node |-> n, local |-> local]
    <3>1. n \in DOMAIN g /\ local \in Seq(DOMAIN g)
      BY <1>4
    <3>2. IsCall(g, c) /\ c # Null /\ Local(c) = local
      BY <1>3, <3>1, RootCall
    <3>3. QED
      BY <2>1, <3>2
  <2>3. IfSet(root) \in Seq(D) /\ \A m \in D : Places(IfSet(root), m) = Same(root, m)
    BY <1>8, PlacesIfSet DEF IfSet
  <2>4. Forgotten \o IfSet(root) \in Seq(D)
    BY <1>5, <2>3, ConcatProperties
  <2>5. IsState(g, frames, Null, anchors', owned, Forgotten \o IfSet(root), call')
    BY <1>3, <1>4, <1>6, <2>1, <2>2, <2>4 DEF IsState
  <2>6. Balanced(g, frames, Null, anchors', owned, Forgotten \o IfSet(root), local)
    <3> SUFFICES ASSUME NEW m \in D
                 PROVE  g[m].refs = KeptTimes(frames, Null, anchors', owned, m)
                          + Places(Forgotten \o IfSet(root), m) + Places(local, m) + Uses(g, m)
      BY <1>4 DEF Balanced
    <3>1. g[m].refs = KeptTimes(frames, root, anchors', owned, m)
                          + Places(Forgotten, m) + Places(local, m) + Uses(g, m)
      BY <1>4, <1>5 DEF Balanced
    <3>2. Places(Forgotten \o IfSet(root), m) = Places(Forgotten, m) + Same(root, m)
      BY <1>5, <2>3, PlacesOfBoth
    <3>3. Same(Null, m) = 0
      BY <1>8 DEF Same
    <3> DEFINE f == Places(NodesOf(frames), m)
               t == Named(anchors', m)
               o == Places(owned, m)
    <3>4. f \in Int /\ o \in Int /\ Uses(g, m) \in Int /\ Same(root, m) \in Int
          /\ Places(local, m) \in Int /\ Places(Forgotten, m) \in Int
      BY <1>3, <1>4, <1>5, <1>6, CountsAreNumbers DEF Same
    <3>5. t \in Int
      <4>1. {a \in Anchor : anchors'[a] = m} \in SUBSET Anchor
        OBVIOUS
      <4>2. IsFiniteSet({a \in Anchor : anchors'[a] = m})
        BY <4>1, BuilderAssumption, FS_Subset
      <4>3. QED
        BY <4>2, FS_CardinalityType DEF Named
    <3>6. /\ KeptTimes(frames, root, anchors', owned, m) = f + Same(root, m) + t + o
          /\ KeptTimes(frames, Null, anchors', owned, m) = f + Same(Null, m) + t + o
      BY DEF KeptTimes
    <3> HIDE DEF f, t, o
    <3>7. KeptTimes(frames, root, anchors', owned, m)
            = KeptTimes(frames, Null, anchors', owned, m) + Same(root, m)
          /\ KeptTimes(frames, Null, anchors', owned, m) \in Int
      BY <3>3, <3>4, <3>5, <3>6
    <3>8. QED
      BY <3>1, <3>2, <3>4, <3>7
  <2>7. QED
    BY <1>2, <1>3, <2>1, <2>2, <2>5, <2>6
<1>14. CASE IsIgnored(g, frames, local)
  <2>1. /\ heap' = g /\ stack' = frames /\ root' = root /\ call' = Null
        /\ releasing' = Forgotten \o local
    BY <1>14 DEF IsIgnored
  <2>2. IsState(g, frames, root, anchors', owned, Forgotten \o local, Null)
    BY <1>3, <1>4, <1>6, <1>7, <1>9 DEF IsState
  <2>3. Balanced(g, frames, root, anchors', owned, Forgotten \o local, <<>>)
    BY <1>12
  <2>4. QED
    BY <1>2, <1>3, <1>7, <2>1, <2>2, <2>3
<1>15. CASE IsTaken(g, n, frames, local)
  <2> DEFINE rest == (Forgotten \o Replaced(g[p].fields, key)) \o local
             s == StoredAt(g, p, key, n)
  <2>1. /\ heap' = s /\ stack' = Unnamed(frames) /\ root' = root /\ call' = Null
        /\ releasing' = rest /\ frames # <<>> /\ key # Null
    BY <1>15 DEF IsTaken
  <2>2. /\ p \in D /\ IsStack(g, Unnamed(frames)) /\ NodesOf(Unnamed(frames)) = NodesOf(frames)
    BY <1>3, <1>4, <1>6, <2>1, TopIs
  <2>3. key \in Keys
    BY <1>3, <1>6, <2>1, NameIs
  <2> HIDE DEF p, key
  <2>4. IsHeap(s) /\ SameNodes(g, s)
    BY <1>3, <1>4, <2>2, <2>3, NodeStoredIs
  <2>5. Balanced(s, frames, root, anchors', owned, rest, <<>>) /\ rest \in Seq(D)
    BY <1>3, <1>4, <1>5, <1>6, <2>2, <2>3, BalanceStored
  <2> HIDE DEF s, rest
  <2>6. DOMAIN s = D
    BY <1>4, <2>4 DEF SameNodes
  <2>7. IsStack(s, Unnamed(frames)) /\ IsTable(s, anchors') /\ IsCall(s, Null)
    BY <1>6, <1>7, <2>2, <2>4, SameStacks
  <2>8. IsState(s, Unnamed(frames), root, anchors', owned, rest, Null)
    BY <2>4, <2>5, <2>6, <2>7 DEF IsState
  <2>9. Balanced(s, Unnamed(frames), root, anchors', owned, rest, <<>>)
    BY <2>2, <2>5 DEF Balanced, KeptTimes
  <2>10. SameNodes(h, s)
    BY <1>3, <2>4 DEF SameNodes
  <2>11. QED
    BY <1>2, <1>7, <2>1, <2>8, <2>9, <2>10
<1>16. CASE IsRefused(g, frames, local)
  <2> DEFINE rest == (Forgotten \o <<>>) \o local
  <2>1. /\ heap' = g /\ stack' = Unnamed(frames) /\ root' = root /\ call' = Null
        /\ releasing' = rest /\ frames # <<>>
    BY <1>16 DEF IsRefused
  <2>2. rest = Forgotten \o local
    BY <1>5, ConcatEmptySeq
  <2> HIDE DEF rest
  <2>3. /\ IsStack(g, Unnamed(frames)) /\ NodesOf(Unnamed(frames)) = NodesOf(frames)
    BY <1>3, <1>6, <2>1, TopIs
  <2>4. IsState(g, Unnamed(frames), root, anchors', owned, rest, Null)
    BY <1>3, <1>4, <1>6, <1>7, <1>9, <2>2, <2>3 DEF IsState
  <2>5. Balanced(g, frames, root, anchors', owned, Forgotten \o local, <<>>)
    BY <1>12
  <2>6. Balanced(g, Unnamed(frames), root, anchors', owned, rest, <<>>)
    BY <2>2, <2>3, <2>5 DEF Balanced, KeptTimes
  <2>7. QED
    BY <1>2, <1>3, <1>7, <2>1, <2>4, <2>6
<1>17. QED
  BY <1>1, <1>13, <1>14, <1>15, <1>16

-----------------------------------------------------------------------------
(* A node that is made, and the frame of a container that begins or ends. *)

\* What fits the nodes there are fits when one more is made.
LEMMA GrownFits ==
  ASSUME NEW h, IsHeap(h), NEW g, IsHeap(g), NEW kind, Grown(h, g, kind)
  PROVE  /\ \A frames : IsStack(h, frames) => IsStack(g, frames)
         /\ \A table : IsTable(h, table) => IsTable(g, table)
         /\ \A s : s \in Seq(DOMAIN h) => s \in Seq(DOMAIN g)
         /\ Len(g) \in DOMAIN g /\ Len(g) = Len(h) + 1 /\ DOMAIN h \subseteq DOMAIN g
<1>1. /\ Len(g) = Len(h) + 1 /\ DOMAIN g = DOMAIN h \cup {Len(h) + 1}
      /\ \A m \in DOMAIN h : g[m] = h[m]
  BY DEF Grown
<1>2. DOMAIN h \subseteq DOMAIN g
  BY <1>1
<1>3. ASSUME NEW frames, IsStack(h, frames)
      PROVE  IsStack(g, frames)
  <2>1. \A i \in DOMAIN frames : frames[i].node \in DOMAIN h
    BY <1>3, FrameIs DEF IsStack
  <2>2. FrameSet(DOMAIN h) \subseteq FrameSet(DOMAIN g)
    BY <1>2 DEF FrameSet
  <2>3. frames \in Seq(FrameSet(DOMAIN g))
    BY <1>3, <2>2, SeqMonotonic DEF IsStack
  <2>4. QED
    BY <1>1, <1>3, <2>1, <2>3 DEF IsStack
<1>4. \A s : s \in Seq(DOMAIN h) => s \in Seq(DOMAIN g)
  BY <1>2, SeqMonotonic
<1>5. \A table : IsTable(h, table) => IsTable(g, table)
  BY <1>2 DEF IsTable
<1>6. QED
  BY <1>1, <1>2, <1>3, <1>4, <1>5

\* Nothing refers to the new node, and there is one reference to it.
LEMMA GrownBalanced ==
  ASSUME NEW h, IsHeap(h), NEW frames, IsStack(h, frames), NEW top \in DOMAIN h \cup {Null},
         NEW table, IsTable(h, table), NEW own \in Seq(DOMAIN h),
         Balanced(h, frames, top, table, own, <<>>, <<>>),
         NEW g, IsHeap(g), NEW kind, Grown(h, g, kind), NEW n, n = Len(g)
  PROVE  Balanced(g, frames, top, table, own, <<>>, <<n>>)
<1>1. /\ n = Len(h) + 1 /\ DOMAIN g = DOMAIN h \cup {n} /\ n \notin DOMAIN h
      /\ \A m \in DOMAIN h : g[m] = h[m]
      /\ g[n] = NewNode(kind)
  BY DEF Grown
<1>2. g[n].fields = <<>> /\ g[n].refs = 1
  BY <1>1 DEF NewNode
<1>3. ASSUME NEW m PROVE Uses(g, m) = Uses(h, m)
  BY <1>1, <1>2, UsesGrow
<1>4. NodesOf(frames) \in Seq(DOMAIN h)
  BY FramesAre DEF IsStack
<1>5. n # Null /\ n \in DOMAIN g
  BY <1>1, NodesAreNumbers
<1>6. ASSUME NEW m \in DOMAIN g, m # n
      PROVE  g[m].refs = KeptTimes(frames, top, table, own, m) + Places(<<>>, m)
                           + Places(<<n>>, m) + Uses(g, m)
  <2>1. m \in DOMAIN h /\ g[m] = h[m]
    BY <1>1, <1>6
  <2>2. h[m].refs = KeptTimes(frames, top, table, own, m) + Places(<<>>, m)
                      + Places(<<>>, m) + Uses(h, m)
    BY <2>1 DEF Balanced
  <2>3. Places(<<n>>, m) = 0 /\ Places(<<>>, m) = 0
    BY <1>6, PlacesOfOne, PlacesOfNone DEF Same
  <2>4. QED
    BY <1>3, <2>1, <2>2, <2>3
<1>7. g[n].refs = KeptTimes(frames, top, table, own, n) + Places(<<>>, n)
                    + Places(<<n>>, n) + Uses(g, n)
  <2>1. Places(NodesOf(frames), n) = 0 /\ Places(own, n) = 0
    BY <1>1, <1>4, PlacesOutside
  <2>2. Same(top, n) = 0
    BY <1>1, <1>5 DEF Same
  <2>3. Named(table, n) = 0
    <3>1. {a \in Anchor : table[a] = n} = {}
      BY <1>1, <1>5 DEF IsTable
    <3>2. QED
      BY <3>1, FS_EmptySet DEF Named
  <2>4. Uses(h, n) = 0
    <3>1. IsTree(h, Keys)
      BY NodeFields
    <3>2. ASSUME NEW m \in DOMAIN h, NEW i \in DOMAIN h[m].fields
          PROVE  h[m].fields[i].child # n
      <4>1. \A j \in DOMAIN h[m].fields : h[m].fields[j] \in [key : Keys, child : DOMAIN h]
        BY <3>1, FieldsAre
      <4>2. h[m].fields[i].child \in DOMAIN h
        BY <4>1
      <4>3. QED
        BY <1>1, <4>2
    <3>3. QED
      BY <3>1, <3>2, UnusedIs
  <2>5. Places(<<n>>, n) = 1 /\ Places(<<>>, n) = 0
    BY PlacesOfOne, PlacesOfNone DEF Same
  <2>6. KeptTimes(frames, top, table, own, n) = 0
    BY <2>1, <2>2, <2>3 DEF KeptTimes
  <2>7. QED
    BY <1>2, <1>3, <2>4, <2>5, <2>6
<1>8. QED
  BY <1>6, <1>7 DEF Balanced

\* The nodes of a stack that grows.
LEMMA FramePushed ==
  ASSUME NEW D, NEW frames \in Seq(FrameSet(D)), NEW frame \in FrameSet(D)
  PROVE  /\ Append(frames, frame) \in Seq(FrameSet(D))
         /\ NodesOf(Append(frames, frame)) = Append(NodesOf(frames), frame.node)
         /\ frame.node \in D
<1> DEFINE k == Len(frames)
           new == Append(frames, frame)
           a == NodesOf(new)
           b == Append(NodesOf(frames), frame.node)
<1>1. k \in Nat /\ frame.node \in D /\ DOMAIN frames = 1..k
  BY LenProperties DEF FrameSet
<1>2. /\ NodesOf(frames) \in Seq(D) /\ Len(NodesOf(frames)) = k
      /\ \A i \in 1..k : NodesOf(frames)[i] = frames[i].node
  BY <1>1, FramesAre DEF NodesOf
<1>3. /\ new \in Seq(FrameSet(D)) /\ Len(new) = k + 1
      /\ \A i \in 1..k : new[i] = frames[i]
      /\ new[k + 1] = frame
  BY AppendProperties
<1> HIDE DEF new, k
<1>4. a \in Seq(D) /\ Len(a) = k + 1
  <2>1. a \in Seq(D) /\ Len(a) = Len(new)
    BY <1>3, FramesAre
  <2>2. QED
    BY <1>3, <2>1
<1>5. b \in Seq(D) /\ Len(b) = k + 1 /\ b[k + 1] = frame.node
      /\ \A i \in 1..k : b[i] = frames[i].node
  <2>1. /\ b \in Seq(D) /\ Len(b) = Len(NodesOf(frames)) + 1
        /\ \A i \in 1..Len(NodesOf(frames)) : b[i] = NodesOf(frames)[i]
        /\ b[Len(NodesOf(frames)) + 1] = frame.node
    BY <1>1, <1>2, AppendProperties
  <2>2. QED
    BY <1>2, <2>1
<1>6. \A i \in 1..(k + 1) : a[i] = new[i].node
  <2>1. DOMAIN new = 1..(k + 1)
    BY <1>3, LenProperties
  <2>2. QED
    BY <2>1 DEF NodesOf
<1>7. \A i \in 1..(k + 1) : a[i] = b[i]
  <2> SUFFICES ASSUME NEW i \in 1..(k + 1) PROVE a[i] = b[i]
    OBVIOUS
  <2>1. i = k + 1 \/ i \in 1..k
    BY <1>1
  <2>2. QED
    BY <1>3, <1>5, <1>6, <2>1
<1> HIDE DEF a, b
<1>8. a = b
  BY <1>4, <1>5, <1>7, SeqEqual
<1>9. QED
  BY <1>1, <1>3, <1>8 DEF a, b, new

\* The stack without its last frame.
LEMMA FramePopped ==
  ASSUME NEW h, IsHeap(h), NEW frames, IsStack(h, frames), frames # <<>>
  PROVE  /\ IsStack(h, Front(frames)) /\ TopNode(frames) \in DOMAIN h
         /\ NodesOf(frames) = Append(NodesOf(Front(frames)), TopNode(frames))
         /\ Len(frames) \in Nat \ {0} /\ DOMAIN Front(frames) = 1..(Len(frames) - 1)
         /\ DOMAIN frames = 1..Len(frames) /\ TopNode(frames) = frames[Len(frames)].node
<1> DEFINE D == DOMAIN h
           front == Front(frames)
           last == Last(frames)
           k == Len(frames)
<1>1. frames \in Seq(FrameSet(D))
  BY DEF IsStack
<1>2. /\ frames = Append(front, last) /\ front \in Seq(FrameSet(D)) /\ last \in FrameSet(D)
      /\ last = frames[k] /\ Len(front) = k - 1 /\ k \in Nat \ {0}
      /\ \A i \in 1..(k - 1) : front[i] = frames[i]
  BY <1>1, FrontIs
<1>3. TopNode(frames) = last.node
  BY DEF TopNode
<1> HIDE DEF front, last
<1>4. NodesOf(frames) = Append(NodesOf(front), TopNode(frames)) /\ TopNode(frames) \in D
  <2>1. /\ NodesOf(Append(front, last)) = Append(NodesOf(front), last.node)
        /\ last.node \in D
    BY <1>2, FramePushed
  <2>2. QED
    BY <1>2, <1>3, <2>1
<1>5. DOMAIN front = 1..(k - 1) /\ DOMAIN frames = 1..k
  <2>1. DOMAIN front = 1..Len(front) /\ DOMAIN frames = 1..k
    BY <1>1, <1>2, LenProperties
  <2>2. QED
    BY <1>2, <2>1
<1>6. IsStack(h, front)
  <2>1. \A i \in DOMAIN front : i \in DOMAIN frames /\ front[i] = frames[i]
    BY <1>2, <1>5
  <2>2. QED
    BY <1>2, <2>1 DEF IsStack
<1>7. QED
  BY <1>2, <1>3, <1>4, <1>5, <1>6 DEF front

-----------------------------------------------------------------------------
(* The calls. *)

Fits ==
    /\ IsState(heap, stack, root, anchors, owned, releasing, call)
    /\ pending \in Names /\ immutable \in BOOLEAN
Counted == Balanced(heap, stack, root, anchors, owned, releasing, Local(call))

\* The parts that hold references, one at a time.
LEMMA KeptIs ==
  ASSUME NEW h, IsHeap(h), NEW frames, IsStack(h, frames), NEW own \in Seq(DOMAIN h),
         NEW top, NEW table, NEW m \in DOMAIN h
  PROVE  /\ KeptTimes(frames, top, table, own, m)
              = KeptTimes(<<>>, Null, table, <<>>, m)
                  + Places(NodesOf(frames), m) + Same(top, m) + Places(own, m)
         /\ KeptTimes(<<>>, Null, table, <<>>, m) = Named(table, m)
         /\ Named(table, m) \in Nat /\ Places(NodesOf(frames), m) \in Nat
         /\ Same(top, m) \in Nat /\ Places(own, m) \in Nat
<1>1. NodesOf(<<>>) = <<>>
  BY DEF NodesOf
<1>2. Places(<<>>, m) = 0 /\ Same(Null, m) = 0
  BY PlacesOfNone, NodesAreNumbers DEF Same
<1>3. Named(table, m) \in Nat
  BY NamedIs
<1>4. NodesOf(frames) \in Seq(DOMAIN h)
  BY FramesAre DEF IsStack
<1>5. Places(NodesOf(frames), m) \in Nat /\ Places(own, m) \in Nat
  BY <1>4, PlacesAreFinite
<1>6. Same(top, m) \in Nat
  BY DEF Same
<1>7. KeptTimes(<<>>, Null, table, <<>>, m) = Named(table, m)
  BY <1>1, <1>2, <1>3 DEF KeptTimes
<1>8. QED
  BY <1>3, <1>5, <1>6, <1>7 DEF KeptTimes

\* The old root is gone, and the call's reference to the node is the root's.
LEMMA FinishRootKeeps ==
  ASSUME Fits, FinishRoot
  PROVE  Fits' /\ (Counted => Counted')
<1> DEFINE n == call.node
           D == DOMAIN heap
           g == Taken(heap, n)
<1>1. /\ IsHeap(heap) /\ IsStack(heap, stack) /\ root = Null /\ stack = <<>> /\ IsTable(heap, anchors)
      /\ owned \in Seq(D) /\ IsCall(heap, call) /\ call # Null /\ releasing = <<>>
      /\ pending \in Names /\ immutable \in BOOLEAN
  BY DEF Fits, IsState, FinishRoot
<1>2. Local(call) = call.local /\ Local(call) \in Seq(D) /\ n \in D
  BY <1>1, LocalIs DEF Local
<1>3. /\ heap' = g /\ root' = n /\ call' = Null /\ releasing' = Local(call)
      /\ stack' = stack /\ immutable' = immutable /\ pending' = pending /\ anchors' = anchors
      /\ owned' = owned
  BY <1>2 DEF FinishRoot, Taken
<1>4. IsHeap(g) /\ SameNodes(heap, g) /\ SameFields(heap, g) /\ OneMore(heap, g, n)
  BY <1>1, <1>2, TakenIs
<1> HIDE DEF g, n
<1>5. DOMAIN g = D
  BY <1>4 DEF SameNodes
<1>6. IsStack(g, stack) /\ IsTable(g, anchors) /\ IsCall(g, Null)
  BY <1>1, <1>4, SameStacks DEF IsCall
<1>7. IsState(g, stack, n, anchors, owned, Local(call), Null)
  BY <1>1, <1>2, <1>4, <1>5, <1>6 DEF IsState
<1>8. Fits'
  BY <1>1, <1>3, <1>7 DEF Fits
<1>9. Local(Null) = <<>>
  BY DEF Local
<1>10. ASSUME Counted, NEW m \in D
       PROVE  g[m].refs = KeptTimes(stack, n, anchors, owned, m)
                            + Places(Local(call), m) + Places(<<>>, m) + Uses(g, m)
  <2> DEFINE k == KeptTimes(<<>>, Null, anchors, <<>>, m)
             a == Places(NodesOf(stack), m) + Places(owned, m)
             r == Places(Local(call), m)
  <2>1. heap[m].refs = KeptTimes(stack, Null, anchors, owned, m) + Places(<<>>, m) + r + Uses(heap, m)
    BY <1>1, <1>10 DEF Counted, Balanced
  <2>2. /\ KeptTimes(stack, Null, anchors, owned, m)
             = k + Places(NodesOf(stack), m) + Same(Null, m) + Places(owned, m)
        /\ KeptTimes(stack, n, anchors, owned, m)
             = k + Places(NodesOf(stack), m) + Same(n, m) + Places(owned, m)
        /\ k \in Nat /\ Places(NodesOf(stack), m) \in Nat /\ Places(owned, m) \in Nat
        /\ Same(n, m) \in Nat
    BY <1>1, KeptIs
  <2>3. Same(Null, m) = 0 /\ Places(<<>>, m) = 0
    BY <1>1, NodesAreNumbers, PlacesOfNone DEF Same
  <2>4. Uses(g, m) = Uses(heap, m) /\ Uses(heap, m) \in Nat
    <3>1. IsTree(heap, Keys)
      BY <1>1, NodeFields
    <3>2. QED
      BY <1>4, <1>5, <3>1, UsesSame, PairsAreFinite
  <2>5. r \in Nat
    BY <1>2, PlacesAreFinite
  <2>6. g[m].refs = heap[m].refs + Same(n, m)
    BY <1>4 DEF OneMore
  <2>7. /\ KeptTimes(stack, Null, anchors, owned, m) = k + a
        /\ KeptTimes(stack, n, anchors, owned, m) = k + a + Same(n, m)
        /\ a \in Nat
    BY <2>2, <2>3
  <2> HIDE DEF k, a, r
  <2>8. QED
    BY <2>1, <2>2, <2>3, <2>4, <2>5, <2>6, <2>7 DEF r
<1>11. Counted => Counted'
  BY <1>3, <1>5, <1>9, <1>10 DEF Counted, Balanced
<1>12. QED
  BY <1>8, <1>11

\* A reference is given up, or what its node held takes its place.
LEMMA ReleaseKeeps ==
  ASSUME Fits, Release
  PROVE  Fits' /\ (Counted => Counted')
<1> DEFINE D == DOMAIN heap
           g == UnrefFirst(heap, releasing).heap
           rest == UnrefFirst(heap, releasing).nodes
           n == Head(releasing)
<1>1. /\ IsHeap(heap) /\ IsStack(heap, stack) /\ IsTable(heap, anchors)
      /\ root \in D \cup {Null} /\ releasing \in Seq(D)
      /\ owned \in Seq(D) /\ IsCall(heap, call)
      /\ call # Null => stack = <<>> /\ root = Null
      /\ pending \in Names /\ immutable \in BOOLEAN
  BY DEF Fits, IsState
<1>2. /\ heap' = g /\ releasing' = rest /\ releasing # <<>>
      /\ root' = root /\ call' = call
      /\ stack' = stack /\ immutable' = immutable /\ pending' = pending /\ anchors' = anchors
      /\ owned' = owned
  BY DEF Release
<1>3. /\ IsHeap(g) /\ SameNodes(heap, g) /\ OneLess(heap, g, n)
      /\ rest \in Seq(D) /\ ReleasedOnce(heap, releasing, g, rest)
  BY <1>1, <1>2, UnrefIs
<1> HIDE DEF g, rest, n
<1>4. DOMAIN g = D
  BY <1>3 DEF SameNodes
<1>5. IsStack(g, stack) /\ IsTable(g, anchors) /\ IsCall(g, call)
  BY <1>1, <1>3, SameStacks
<1>6. IsState(g, stack, root, anchors, owned, rest, call)
  BY <1>1, <1>3, <1>4, <1>5 DEF IsState
<1>7. Fits'
  BY <1>1, <1>2, <1>6 DEF Fits
<1>8. ASSUME Counted, NEW m \in D
      PROVE  g[m].refs = KeptTimes(stack, root, anchors, owned, m)
                           + Places(rest, m) + Places(Local(call), m) + Uses(g, m)
  <2> DEFINE k == KeptTimes(stack, root, anchors, owned, m)
             l == Places(Local(call), m)
  <2>1. heap[m].refs = k + Places(releasing, m) + l + Uses(heap, m)
    BY <1>8 DEF Counted, Balanced
  <2>2. Local(call) \in Seq(D)
    BY <1>1, LocalIs
  <2>3. k \in Int /\ Places(releasing, m) \in Int /\ l \in Int /\ Uses(heap, m) \in Int
    BY <1>1, <2>2, BalanceIs
  <2>4. Places(rest, m) + Uses(g, m) = Places(releasing, m) + Uses(heap, m) - Same(n, m)
    BY <1>3 DEF ReleasedOnce, n
  <2>5. g[m].refs = heap[m].refs - Same(n, m) /\ Same(n, m) \in Int
    BY <1>3 DEF OneLess, Same
  <2>6. Places(rest, m) \in Nat
    BY <1>3, PlacesAreFinite
  <2>7. Uses(g, m) \in Nat
    <3>1. IsTree(g, Keys)
      BY <1>3, NodeFields
    <3>2. QED
      BY <3>1, PairsAreFinite
  <2> HIDE DEF k, l
  <2>8. QED
    BY <2>1, <2>3, <2>4, <2>5, <2>6, <2>7 DEF k, l
<1>9. Counted => Counted'
  BY <1>2, <1>4, <1>8 DEF Counted, Balanced
<1>10. QED
  BY <1>7, <1>9

\* Between the calls, nothing is to be dropped.
LEMMA IdleIs ==
  ASSUME Fits, Idle
  PROVE  /\ IsHeap(heap) /\ IsStack(heap, stack) /\ IsTable(heap, anchors)
         /\ root \in DOMAIN heap \cup {Null} /\ owned \in Seq(DOMAIN heap)
         /\ call = Null /\ releasing = <<>> /\ IsCall(heap, Null) /\ Local(Null) = <<>>
         /\ pending \in Names /\ immutable \in BOOLEAN
         /\ Counted => Balanced(heap, stack, root, anchors, owned, <<>>, <<>>)
<1>1. /\ IsHeap(heap) /\ IsStack(heap, stack) /\ IsTable(heap, anchors)
      /\ root \in DOMAIN heap \cup {Null} /\ owned \in Seq(DOMAIN heap)
      /\ pending \in Names /\ immutable \in BOOLEAN
  BY DEF Fits, IsState
<1>2. call = Null /\ releasing = <<>>
  BY DEF Idle
<1>3. Local(Null) = <<>> /\ IsCall(heap, Null)
  BY DEF Local, IsCall
<1>4. QED
  BY <1>1, <1>2, <1>3 DEF Counted

\* A value is made and added; the call drops the reference it made.
LEMMA AddScalarKeeps ==
  ASSUME Fits, Counted, AddScalar
  PROVE  Fits' /\ Counted'
<1> DEFINE n == Len(heap) + 1
           g == Append(heap, NewNode(Scalar))
<1>1. /\ Idle /\ AddToContext(g, n, stack, <<n>>) /\ immutable' = immutable /\ owned' = owned
  BY DEF AddScalar
<1>2. /\ IsHeap(heap) /\ IsStack(heap, stack) /\ IsTable(heap, anchors)
      /\ root \in DOMAIN heap \cup {Null} /\ owned \in Seq(DOMAIN heap) /\ call = Null
      /\ pending \in Names /\ immutable \in BOOLEAN
      /\ Balanced(heap, stack, root, anchors, owned, <<>>, <<>>)
  BY <1>1, IdleIs
<1>3. Scalar \in Kinds
  BY DEF Scalar, Kinds
<1>4. IsHeap(g) /\ Grown(heap, g, Scalar)
  BY <1>2, <1>3, GrownIs
<1> HIDE DEF g
<1>5. n = Len(g) /\ n \in DOMAIN g /\ DOMAIN heap \subseteq DOMAIN g
      /\ IsStack(g, stack) /\ IsTable(g, anchors) /\ owned \in Seq(DOMAIN g)
  BY <1>2, <1>4, GrownFits
<1> HIDE DEF n
<1>6. Balanced(g, stack, root, anchors, owned, <<>>, <<n>>)
  BY <1>2, <1>4, <1>5, GrownBalanced
<1>7. <<n>> \in Seq(DOMAIN g) /\ root \in DOMAIN g \cup {Null}
  BY <1>2, <1>5
<1> DEFINE local == <<n>>
<1>8. local \in Seq(DOMAIN g) /\ Balanced(g, stack, root, anchors, owned, <<>>, local)
      /\ AddToContext(g, n, stack, local)
  BY <1>1, <1>6, <1>7
<1> HIDE DEF local
<1>9. /\ IsState(heap', stack', root', anchors', owned, releasing', call')
      /\ Balanced(heap', stack', root', anchors', owned, releasing', Local(call'))
      /\ pending' = Null
  BY <1>2, <1>4, <1>5, <1>7, <1>8, AddKeeps
<1>10. QED
  BY <1>1, <1>2, <1>9 DEF Fits, Counted, Names

\* A node of the client is added.
LEMMA AddValueKeeps ==
  ASSUME Fits, Counted, NEW n, AddValue(n)
  PROVE  Fits' /\ Counted'
<1>1. /\ Idle /\ AddToContext(heap, n, stack, <<>>) /\ immutable' = immutable /\ owned' = owned
      /\ n \in Range(owned)
  BY DEF AddValue
<1>2. /\ IsHeap(heap) /\ IsStack(heap, stack) /\ IsTable(heap, anchors)
      /\ root \in DOMAIN heap \cup {Null} /\ owned \in Seq(DOMAIN heap) /\ call = Null
      /\ pending \in Names /\ immutable \in BOOLEAN
      /\ Balanced(heap, stack, root, anchors, owned, <<>>, <<>>)
  BY <1>1, IdleIs
<1>3. n \in DOMAIN heap
  BY <1>1, <1>2 DEF Range
<1> DEFINE local == <<>>
<1>4. local \in Seq(DOMAIN heap) /\ Balanced(heap, stack, root, anchors, owned, <<>>, local)
      /\ AddToContext(heap, n, stack, local)
  BY <1>1, <1>2
<1> HIDE DEF local
<1>5. /\ IsState(heap', stack', root', anchors', owned, releasing', call')
      /\ Balanced(heap', stack', root', anchors', owned, releasing', Local(call'))
      /\ pending' = Null
  BY <1>2, <1>3, <1>4, AddKeeps
<1>6. QED
  BY <1>1, <1>2, <1>5 DEF Fits, Counted, Names

\* A named node is added again.
LEMMA AddAliasKeeps ==
  ASSUME Fits, Counted, NEW a \in Anchor, AddAlias(a)
  PROVE  Fits' /\ Counted'
<1> DEFINE n == anchors[a]
<1>1. /\ Idle /\ AddToContext(heap, n, stack, <<>>) /\ immutable' = immutable /\ owned' = owned
      /\ n # Null
  BY DEF AddAlias
<1>2. /\ IsHeap(heap) /\ IsStack(heap, stack) /\ IsTable(heap, anchors)
      /\ root \in DOMAIN heap \cup {Null} /\ owned \in Seq(DOMAIN heap) /\ call = Null
      /\ pending \in Names /\ immutable \in BOOLEAN
      /\ Balanced(heap, stack, root, anchors, owned, <<>>, <<>>)
  BY <1>1, IdleIs
<1>3. n \in DOMAIN heap
  BY <1>1, <1>2 DEF IsTable
<1> DEFINE local == <<>>
<1>4. local \in Seq(DOMAIN heap) /\ Balanced(heap, stack, root, anchors, owned, <<>>, local)
      /\ AddToContext(heap, n, stack, local)
  BY <1>1, <1>2
<1> HIDE DEF local, n
<1>5. /\ IsState(heap', stack', root', anchors', owned, releasing', call')
      /\ Balanced(heap', stack', root', anchors', owned, releasing', Local(call'))
      /\ pending' = Null
  BY <1>2, <1>3, <1>4, AddKeeps
<1>6. QED
  BY <1>1, <1>2, <1>5 DEF Fits, Counted, Names

\* What holds the references when a container ends.
LEMMA PoppedBalanced ==
  ASSUME NEW h, IsHeap(h), NEW frames, IsStack(h, frames), frames # <<>>, NEW top, NEW table,
         NEW own \in Seq(DOMAIN h), Balanced(h, frames, top, table, own, <<>>, <<>>),
         NEW local, local = <<TopNode(frames)>>
  PROVE  Balanced(h, Front(frames), top, table, own, <<>>, local)
<1> DEFINE n == TopNode(frames)
           front == Front(frames)
<1>1. /\ IsStack(h, front) /\ n \in DOMAIN h
      /\ NodesOf(frames) = Append(NodesOf(front), n)
  BY FramePopped
<1> HIDE DEF front, n
<1> SUFFICES ASSUME NEW m \in DOMAIN h
             PROVE  h[m].refs = KeptTimes(front, top, table, own, m)
                                  + Places(<<>>, m) + Places(local, m) + Uses(h, m)
  BY DEF Balanced, front
<1>2. h[m].refs = KeptTimes(frames, top, table, own, m) + Places(<<>>, m) + Places(<<>>, m)
                    + Uses(h, m)
  BY DEF Balanced
<1>3. Places(NodesOf(frames), m) = Places(NodesOf(front), m) + Same(n, m)
  <2>1. NodesOf(front) \in Seq(DOMAIN h)
    BY <1>1, FramesAre DEF IsStack
  <2>2. QED
    BY <1>1, <2>1, PlacesOfAppended
<1>4. Places(local, m) = Same(n, m) /\ Places(<<>>, m) = 0
  BY PlacesOfOne, PlacesOfNone DEF n
<1> DEFINE k == KeptTimes(<<>>, Null, table, <<>>, m)
           a == Places(NodesOf(front), m)
           r == Same(top, m)
           o == Places(own, m)
<1>5. /\ KeptTimes(frames, top, table, own, m) = k + Places(NodesOf(frames), m) + r + o
      /\ KeptTimes(front, top, table, own, m) = k + a + r + o
      /\ k \in Nat /\ r \in Nat /\ o \in Nat /\ a \in Nat
  <2>1. KeptTimes(frames, top, table, own, m) = k + Places(NodesOf(frames), m) + r + o
    BY KeptIs
  <2>2. /\ KeptTimes(front, top, table, own, m) = k + a + r + o
        /\ Named(table, m) \in Nat /\ r \in Nat /\ o \in Nat /\ a \in Nat
    BY <1>1, KeptIs
  <2>3. k \in Nat
    BY <1>1, <2>2, KeptIs
  <2>4. QED
    BY <2>1, <2>2, <2>3
<1>6. Same(n, m) \in Nat
  BY DEF Same
<1>7. Uses(h, m) \in Nat
  <2>1. IsTree(h, Keys)
    BY NodeFields
  <2>2. QED
    BY <2>1, PairsAreFinite
<1> HIDE DEF k, a, r, o
<1>8. KeptTimes(frames, top, table, own, m) = KeptTimes(front, top, table, own, m) + Same(n, m)
      /\ KeptTimes(front, top, table, own, m) \in Nat
  BY <1>3, <1>5, <1>6 DEF a
<1>9. QED
  BY <1>2, <1>4, <1>6, <1>7, <1>8

\* A heap where only what is sealed differs is in balance when the other one is.
LEMMA SameBalance ==
  ASSUME NEW h, NEW g, SameNodes(h, g), SameFields(h, g), SameRefs(h, g),
         NEW frames, NEW top, NEW table, NEW own, NEW rel, NEW local,
         Balanced(h, frames, top, table, own, rel, local)
  PROVE  Balanced(g, frames, top, table, own, rel, local)
<1>1. DOMAIN g = DOMAIN h /\ \A m \in DOMAIN h : g[m].refs = h[m].refs
  BY DEF SameNodes, SameRefs
<1>2. \A m : Uses(g, m) = Uses(h, m)
  BY <1>1, UsesSame
<1>3. QED
  BY <1>1, <1>2 DEF Balanced

\* A container that ends.
LEMMA EndContainerKeeps ==
  ASSUME Fits, Counted, NEW kind, EndContainer(kind)
  PROVE  Fits' /\ Counted'
<1> DEFINE n == TopNode(stack)
           g == IF immutable THEN SealIn(heap, n) ELSE heap
           front == Front(stack)
           local == <<n>>
<1>1. /\ Idle /\ stack # <<>> /\ AddToContext(g, n, front, local)
      /\ immutable' = immutable /\ owned' = owned
  BY DEF EndContainer, TopNode
<1>2. /\ IsHeap(heap) /\ IsStack(heap, stack) /\ IsTable(heap, anchors)
      /\ root \in DOMAIN heap \cup {Null} /\ owned \in Seq(DOMAIN heap) /\ call = Null
      /\ pending \in Names /\ immutable \in BOOLEAN
      /\ Balanced(heap, stack, root, anchors, owned, <<>>, <<>>)
  BY <1>1, IdleIs
<1>3. n \in DOMAIN heap /\ IsStack(heap, front)
  BY <1>1, <1>2, FramePopped
<1>4. Balanced(heap, front, root, anchors, owned, <<>>, local)
  BY <1>1, <1>2, PoppedBalanced
<1> HIDE DEF front, n
<1>5. /\ IsHeap(g) /\ SameNodes(heap, g) /\ SameFields(heap, g) /\ SameRefs(heap, g)
  <2>1. CASE immutable
    <3>1. g = SealIn(heap, n)
      BY <2>1
    <3>2. QED
      BY <1>2, <1>3, <3>1, SealedIs
  <2>2. CASE ~immutable
    BY <1>2, <2>2 DEF SameNodes, SameFields, SameRefs
  <2>3. QED
    BY <2>1, <2>2
<1> HIDE DEF g
<1>6. DOMAIN g = DOMAIN heap
  BY <1>5 DEF SameNodes
<1>7. IsStack(g, front) /\ IsTable(g, anchors)
  BY <1>2, <1>3, <1>5, SameStacks
<1>8. local \in Seq(DOMAIN g) /\ n \in DOMAIN g
  BY <1>3, <1>6
<1> HIDE DEF local
<1>9. Balanced(g, front, root, anchors, owned, <<>>, local)
  BY <1>4, <1>5, SameBalance
<1>10. /\ IsState(heap', stack', root', anchors', owned, releasing', call')
       /\ Balanced(heap', stack', root', anchors', owned, releasing', Local(call'))
       /\ pending' = Null
  BY <1>1, <1>2, <1>5, <1>6, <1>7, <1>8, <1>9, AddKeeps
<1>11. QED
  BY <1>1, <1>2, <1>10 DEF Fits, Counted, Names

\* A stack with another frame.
LEMMA StackPushed ==
  ASSUME NEW h, NEW frames, IsStack(h, frames), NEW n \in DOMAIN h,
         NEW new, new = Append(frames, [node |-> n, name |-> Null])
  PROVE  IsStack(h, new)
<1> DEFINE frame == [node |-> n, name |-> Null]
<1>1. frames \in Seq(FrameSet(DOMAIN h)) /\ frame \in FrameSet(DOMAIN h)
      /\ frame.node = n /\ frame.name = Null
  BY DEF IsStack, FrameSet
<1>2. new \in Seq(FrameSet(DOMAIN h))
  <2> HIDE DEF frame
  <2>1. new = Append(frames, frame)
    BY DEF frame
  <2>2. Append(frames, frame) \in Seq(FrameSet(DOMAIN h))
    BY <1>1, AppendProperties
  <2>3. QED
    BY <2>1, <2>2
<1>3. IsStack(h, new)
  <2>1. /\ Len(frames) \in Nat /\ Len(new) = Len(frames) + 1
        /\ \A i \in 1..Len(frames) : new[i] = frames[i]
        /\ new[Len(frames) + 1] = frame
    BY <1>1, AppendProperties
  <2>2. DOMAIN new = 1..Len(new) /\ DOMAIN frames = 1..Len(frames)
    BY <1>1, <1>2, LenProperties
  <2>3. \A i \in DOMAIN frames : frames[i].name # Null => h[frames[i].node].kind # "sequence"
    BY DEF IsStack
  <2> SUFFICES ASSUME NEW i \in DOMAIN new, new[i].name # Null
               PROVE  h[new[i].node].kind # "sequence"
    BY <1>2 DEF IsStack
  <2> HIDE DEF frame
  <2>4. i # Len(frames) + 1
    BY <1>1, <2>1
  <2>5. i \in DOMAIN frames
    BY <2>1, <2>2, <2>4
  <2>6. QED
    BY <2>1, <2>2, <2>3, <2>5
<1>4. QED
  BY <1>3

\* The frame of a container that begins takes the reference.
LEMMA PushedBalanced ==
  ASSUME NEW h, IsHeap(h), NEW frames, IsStack(h, frames), NEW n \in DOMAIN h,
         NEW top, NEW table, NEW own \in Seq(DOMAIN h), NEW rel \in Seq(DOMAIN h),
         NEW local, local = <<n>>, Balanced(h, frames, top, table, own, rel, local),
         NEW new, new = Append(frames, [node |-> n, name |-> Null])
  PROVE  Balanced(h, new, top, table, own, rel, <<>>) /\ IsStack(h, new)
<1>1. /\ IsStack(h, new)
      /\ NodesOf(new) = Append(NodesOf(frames), n) /\ NodesOf(frames) \in Seq(DOMAIN h)
  <2>1. IsStack(h, new)
    BY StackPushed
  <2> DEFINE frame == [node |-> n, name |-> Null]
  <2>2. frames \in Seq(FrameSet(DOMAIN h)) /\ frame \in FrameSet(DOMAIN h) /\ frame.node = n
    BY DEF IsStack, FrameSet
  <2>3. NodesOf(frames) \in Seq(DOMAIN h)
    BY <2>2, FramesAre
  <2>4. NodesOf(Append(frames, frame)) = Append(NodesOf(frames), frame.node)
    <3> HIDE DEF frame
    <3>1. QED
      BY <2>2, FramePushed
  <2>5. QED
    BY <2>1, <2>2, <2>3, <2>4
<1>2. ASSUME NEW m \in DOMAIN h
      PROVE  h[m].refs = KeptTimes(new, top, table, own, m)
                           + Places(rel, m) + Places(<<>>, m) + Uses(h, m)
  <2>1. h[m].refs = KeptTimes(frames, top, table, own, m) + Places(rel, m) + Places(local, m)
                      + Uses(h, m)
    BY DEF Balanced
  <2>2. Places(NodesOf(new), m) = Places(NodesOf(frames), m) + Same(n, m)
    <3>1. Places(Append(NodesOf(frames), n), m) = Places(NodesOf(frames), m) + Same(n, m)
      BY <1>1, PlacesOfAppended
    <3>2. QED
      BY <1>1, <3>1
  <2>3. Places(local, m) = Same(n, m) /\ Places(<<>>, m) = 0
    BY PlacesOfOne, PlacesOfNone
  <2> DEFINE k == KeptTimes(<<>>, Null, table, <<>>, m)
             a == Places(NodesOf(frames), m)
             b == Places(NodesOf(new), m)
             r == Same(top, m)
             o == Places(own, m)
  <2>4. KeptTimes(frames, top, table, own, m) = k + a + r + o /\ k = Named(table, m)
    BY KeptIs
  <2>5. /\ KeptTimes(new, top, table, own, m) = k + b + r + o
        /\ Named(table, m) \in Nat /\ r \in Nat /\ o \in Nat
    <3>1. KeptTimes(new, top, table, own, m) = k + b + r + o
      BY <1>1, KeptIs
    <3>2. Named(table, m) \in Nat /\ r \in Nat /\ o \in Nat
      BY KeptIs
    <3>3. QED
      BY <3>1, <3>2
  <2>6. a \in Nat
    BY <1>1, PlacesAreFinite
  <2>7. Same(n, m) \in Nat /\ Places(rel, m) \in Nat
    BY PlacesAreFinite DEF Same
  <2>8. Uses(h, m) \in Nat
    <3>1. IsTree(h, Keys)
      BY NodeFields
    <3>2. QED
      BY <3>1, PairsAreFinite
  <2> HIDE DEF k, a, b, r, o
  <2>9. KeptTimes(new, top, table, own, m) = KeptTimes(frames, top, table, own, m) + Same(n, m)
        /\ KeptTimes(frames, top, table, own, m) \in Nat
    BY <2>2, <2>4, <2>5, <2>6, <2>7 DEF a, b
  <2>10. QED
    BY <2>1, <2>3, <2>7, <2>8, <2>9
<1>3. QED
  BY <1>1, <1>2 DEF Balanced

\* A container that begins.
LEMMA BeginContainerKeeps ==
  ASSUME Fits, Counted, NEW kind \in Container \cup ContainerBelow, BeginContainer(kind)
  PROVE  Fits' /\ Counted'
<1> DEFINE n == Len(heap) + 1
           g == Append(heap, NewNode(kind))
           w == WithMetadata(g, n)
           new == Append(stack, [node |-> n, name |-> Null])
           local == <<n>>
<1>1. /\ Idle /\ heap' = w /\ stack' = new /\ ApplyPending(n) /\ releasing' = Forgotten
      /\ root' = root /\ call' = call /\ immutable' = immutable /\ owned' = owned
  BY DEF BeginContainer
<1>2. /\ IsHeap(heap) /\ IsStack(heap, stack) /\ IsTable(heap, anchors)
      /\ root \in DOMAIN heap \cup {Null} /\ owned \in Seq(DOMAIN heap) /\ call = Null
      /\ pending \in Names /\ immutable \in BOOLEAN
      /\ Balanced(heap, stack, root, anchors, owned, <<>>, <<>>)
  BY <1>1, IdleIs
<1>3. kind \in Kinds
  BY BuilderAssumption DEF Kinds
<1>4. IsHeap(g) /\ Grown(heap, g, kind)
  BY <1>2, <1>3, GrownIs
<1> HIDE DEF g
<1>5. n = Len(g) /\ n \in DOMAIN g /\ DOMAIN heap \subseteq DOMAIN g
      /\ IsStack(g, stack) /\ IsTable(g, anchors) /\ owned \in Seq(DOMAIN g)
  BY <1>2, <1>4, GrownFits
<1> HIDE DEF n
<1>6. Balanced(g, stack, root, anchors, owned, <<>>, <<n>>)
  BY <1>2, <1>4, <1>5, GrownBalanced
<1>7. local \in Seq(DOMAIN g) /\ root \in DOMAIN g \cup {Null}
      /\ Balanced(g, stack, root, anchors, owned, <<>>, local) /\ local = <<n>>
  BY <1>2, <1>5, <1>6
<1> HIDE DEF local
<1>8. /\ Balanced(w, stack, root, anchors', owned, Forgotten, local)
      /\ IsTable(g, anchors') /\ Forgotten \in Seq(DOMAIN g)
  BY <1>1, <1>2, <1>4, <1>5, <1>7, MetadataBalanced
<1>9. IsHeap(w) /\ SameNodes(g, w)
  BY <1>2, <1>4, <1>5, MetadataIs
<1> HIDE DEF w
<1>10. DOMAIN w = DOMAIN g
  BY <1>9 DEF SameNodes
<1>11. IsStack(w, stack) /\ IsTable(w, anchors') /\ IsCall(w, Null)
  BY <1>5, <1>8, <1>9, SameStacks DEF IsCall
<1>12. Balanced(w, new, root, anchors', owned, Forgotten, <<>>) /\ IsStack(w, new)
  BY <1>5, <1>7, <1>8, <1>9, <1>10, <1>11, PushedBalanced
<1> HIDE DEF new
<1>13. IsState(w, new, root, anchors', owned, Forgotten, Null)
  BY <1>5, <1>7, <1>8, <1>9, <1>10, <1>11, <1>12 DEF IsState
<1>14. Local(Null) = <<>> /\ pending' = Null
  BY <1>1 DEF Local, ApplyPending
<1>15. QED
  BY <1>1, <1>2, <1>12, <1>13, <1>14 DEF Fits, Counted, Names

\* The name is of the frame of a mapping.
LEMMA SetMemberNameKeeps ==
  ASSUME Fits, Counted, NEW key \in Key, SetMemberName(key)
  PROVE  Fits' /\ Counted'
<1> DEFINE k == Len(stack)
           new == [stack EXCEPT ![k].name = key]
<1>1. /\ Idle /\ stack # <<>> /\ heap[TopNode(stack)].kind = "mapping" /\ stack' = new
      /\ root' = root /\ call' = call /\ immutable' = immutable /\ owned' = owned
      /\ heap' = heap /\ anchors' = anchors /\ pending' = pending /\ releasing' = releasing
  BY DEF SetMemberName, TopNode
<1>2. /\ IsHeap(heap) /\ IsStack(heap, stack) /\ IsTable(heap, anchors)
      /\ root \in DOMAIN heap \cup {Null} /\ owned \in Seq(DOMAIN heap) /\ call = Null
      /\ releasing = <<>> /\ IsCall(heap, Null) /\ Local(Null) = <<>>
      /\ pending \in Names /\ immutable \in BOOLEAN
      /\ Balanced(heap, stack, root, anchors, owned, <<>>, <<>>)
  BY <1>1, IdleIs
<1>3. /\ k \in Nat \ {0} /\ DOMAIN stack = 1..k /\ TopNode(stack) = stack[k].node
      /\ k \in DOMAIN stack
  BY <1>1, <1>2, FramePopped, TopIs
<1>4. stack \in Seq(FrameSet(DOMAIN heap))
  BY <1>2 DEF IsStack
<1>5. stack[k] \in FrameSet(DOMAIN heap)
  BY <1>3, <1>4, FrameIs
<1> DEFINE top == [node |-> stack[k].node, name |-> key]
<1>6. new = [stack EXCEPT ![k] = top]
  <2>1. stack[k] = [node |-> stack[k].node, name |-> stack[k].name]
    BY <1>5 DEF FrameSet
  <2>2. [stack[k] EXCEPT !.name = key] = top
    BY <2>1
  <2>3. new = [stack EXCEPT ![k] = [stack[k] EXCEPT !.name = key]]
    OBVIOUS
  <2>4. QED
    BY <2>2, <2>3
<1>7. top \in FrameSet(DOMAIN heap) /\ top.node = stack[k].node
  BY <1>5 DEF FrameSet
<1> HIDE DEF top, new
<1>8. /\ new \in Seq(FrameSet(DOMAIN heap)) /\ Len(new) = Len(stack)
      /\ \A i \in 1..Len(stack) : new[i] = IF i = k THEN top ELSE stack[i]
  BY <1>3, <1>4, <1>6, <1>7, ExceptSeq
<1>9. DOMAIN new = 1..k
  BY <1>8, LenProperties
<1>10. \A i \in 1..k : new[i].node = stack[i].node /\ (i # k => new[i] = stack[i])
  BY <1>7, <1>8
<1>11. NodesOf(new) = NodesOf(stack)
  BY <1>3, <1>9, <1>10 DEF NodesOf
<1>12. IsStack(heap, new)
  <2> SUFFICES ASSUME NEW i \in DOMAIN new, new[i].name # Null
               PROVE  heap[new[i].node].kind # "sequence"
    BY <1>8 DEF IsStack
  <2>1. CASE i = k
    BY <1>1, <1>3, <1>9, <1>10, <2>1
  <2>2. CASE i # k
    BY <1>2, <1>3, <1>9, <1>10, <2>2 DEF IsStack
  <2>3. QED
    BY <2>1, <2>2
<1>13. IsState(heap, new, root, anchors, owned, <<>>, Null)
  BY <1>2, <1>12 DEF IsState
<1>14. Balanced(heap, new, root, anchors, owned, <<>>, <<>>)
  BY <1>2, <1>11 DEF Balanced, KeptTimes
<1>15. QED
  BY <1>1, <1>2, <1>13, <1>14 DEF Fits, Counted

\* The anchor that waits, and what is built.
LEMMA SetAnchorKeeps ==
  ASSUME Fits, Counted, NEW a \in Anchor, SetAnchor(a)
  PROVE  Fits' /\ Counted'
<1>1. UNCHANGED <<stack, root, immutable, anchors, heap, owned, call, releasing>> /\ pending' = a
  BY DEF SetAnchor
<1>2. QED
  BY <1>1 DEF Fits, Counted, Names

\* Whether what is built is sealed.
LEMMA SetImmutableKeeps ==
  ASSUME Fits, Counted, NEW b \in Immutables, SetImmutable(b)
  PROVE  Fits' /\ Counted'
<1>1. UNCHANGED <<stack, root, pending, anchors, heap, owned, call, releasing>> /\ immutable' = b
  BY DEF SetImmutable
<1>2. b \in BOOLEAN
  BY BuilderAssumption
<1>3. QED
  BY <1>1, <1>2 DEF Fits, Counted

\* The client gets a reference.
LEMMA TakenBalanced ==
  ASSUME NEW h, IsHeap(h), NEW frames, IsStack(h, frames), NEW n \in DOMAIN h,
         NEW top, NEW table, NEW own \in Seq(DOMAIN h),
         Balanced(h, frames, top, table, own, <<>>, <<>>), NEW g, g = Taken(h, n)
  PROVE  /\ Balanced(g, frames, top, table, Append(own, n), <<>>, <<>>)
         /\ Append(own, n) \in Seq(DOMAIN h)
<1> DEFINE new == Append(own, n)
<1>1. IsHeap(g) /\ SameNodes(h, g) /\ SameFields(h, g) /\ OneMore(h, g, n)
  BY TakenIs
<1>2. DOMAIN g = DOMAIN h
  BY <1>1 DEF SameNodes
<1>3. new \in Seq(DOMAIN h)
  BY AppendProperties
<1>4. ASSUME NEW m \in DOMAIN h
      PROVE  g[m].refs = KeptTimes(frames, top, table, new, m)
                           + Places(<<>>, m) + Places(<<>>, m) + Uses(g, m)
  <2>1. h[m].refs = KeptTimes(frames, top, table, own, m) + Places(<<>>, m) + Places(<<>>, m)
                      + Uses(h, m)
    BY DEF Balanced
  <2>2. Places(new, m) = Places(own, m) + Same(n, m)
    BY PlacesOfAppended
  <2>3. Places(<<>>, m) = 0
    BY PlacesOfNone
  <2>4. Uses(g, m) = Uses(h, m) /\ Uses(h, m) \in Nat
    <3>1. IsTree(h, Keys)
      BY NodeFields
    <3>2. QED
      BY <1>1, <1>2, <3>1, UsesSame, PairsAreFinite
  <2>5. g[m].refs = h[m].refs + Same(n, m)
    BY <1>1 DEF OneMore
  <2> DEFINE k == KeptTimes(<<>>, Null, table, <<>>, m)
             a == Places(NodesOf(frames), m)
             r == Same(top, m)
             o == Places(own, m)
  <2>6. KeptTimes(frames, top, table, own, m) = k + a + r + o
    BY KeptIs
  <2> HIDE DEF new
  <2>7. KeptTimes(frames, top, table, new, m) = k + a + r + Places(new, m)
    BY <1>3, KeptIs
  <2>8. Named(table, m) \in Nat /\ a \in Nat /\ r \in Nat /\ o \in Nat /\ k = Named(table, m)
    BY KeptIs
  <2>9. Same(n, m) \in Nat
    BY DEF Same
  <2> HIDE DEF k, a, r, o
  <2>10. KeptTimes(frames, top, table, new, m) = KeptTimes(frames, top, table, own, m) + Same(n, m)
         /\ KeptTimes(frames, top, table, own, m) \in Nat
    BY <2>2, <2>6, <2>7, <2>8, <2>9 DEF o
  <2>11. QED
    BY <2>1, <2>3, <2>4, <2>5, <2>9, <2>10
<1>5. QED
  BY <1>2, <1>3, <1>4 DEF Balanced

\* yaml_builder_dup_root.
LEMMA DupRootKeeps ==
  ASSUME Fits, Counted, DupRoot
  PROVE  Fits' /\ Counted'
<1> DEFINE g == Taken(heap, root)
           own == Append(owned, root)
<1>1. /\ Idle /\ root # Null /\ heap' = g /\ owned' = own
      /\ UNCHANGED <<stack, root, immutable, pending, anchors, call, releasing>>
  BY DEF DupRoot, Taken
<1>2. /\ IsHeap(heap) /\ IsStack(heap, stack) /\ IsTable(heap, anchors)
      /\ root \in DOMAIN heap \cup {Null} /\ owned \in Seq(DOMAIN heap) /\ call = Null
      /\ releasing = <<>> /\ pending \in Names /\ immutable \in BOOLEAN /\ Local(Null) = <<>>
      /\ Balanced(heap, stack, root, anchors, owned, <<>>, <<>>)
  BY <1>1, IdleIs
<1>3. root \in DOMAIN heap
  BY <1>1, <1>2
<1>4. IsHeap(g) /\ SameNodes(heap, g)
  BY <1>2, <1>3, TakenIs
<1> HIDE DEF g
<1>5. Balanced(g, stack, root, anchors, own, <<>>, <<>>) /\ own \in Seq(DOMAIN heap)
  BY <1>2, <1>3, TakenBalanced DEF g
<1> HIDE DEF own
<1>6. DOMAIN g = DOMAIN heap
  BY <1>4 DEF SameNodes
<1>7. IsStack(g, stack) /\ IsTable(g, anchors) /\ IsCall(g, Null)
  BY <1>2, <1>4, SameStacks DEF IsCall
<1>8. IsState(g, stack, root, anchors, own, <<>>, Null)
  BY <1>2, <1>4, <1>5, <1>6, <1>7 DEF IsState
<1>9. QED
  BY <1>1, <1>2, <1>5, <1>8 DEF Fits, Counted

\* yaml_builder_get_document.
LEMMA GetDocumentKeeps ==
  ASSUME Fits, Counted, GetDocument
  PROVE  Fits' /\ Counted'
<1> DEFINE s == IF immutable THEN SealIn(heap, root) ELSE heap
           g == Taken(s, root)
           own == Append(owned, root)
<1>1. /\ Idle /\ root # Null /\ heap' = g /\ owned' = own
      /\ UNCHANGED <<stack, root, immutable, pending, anchors, call, releasing>>
  BY DEF GetDocument, Taken
<1>2. /\ IsHeap(heap) /\ IsStack(heap, stack) /\ IsTable(heap, anchors)
      /\ root \in DOMAIN heap \cup {Null} /\ owned \in Seq(DOMAIN heap) /\ call = Null
      /\ releasing = <<>> /\ pending \in Names /\ immutable \in BOOLEAN /\ Local(Null) = <<>>
      /\ Balanced(heap, stack, root, anchors, owned, <<>>, <<>>)
  BY <1>1, IdleIs
<1>3. root \in DOMAIN heap
  BY <1>1, <1>2
<1>4. /\ IsHeap(s) /\ SameNodes(heap, s) /\ SameFields(heap, s) /\ SameRefs(heap, s)
  <2>1. CASE immutable
    <3>1. s = SealIn(heap, root)
      BY <2>1
    <3>2. QED
      BY <1>2, <1>3, <3>1, SealedIs
  <2>2. CASE ~immutable
    BY <1>2, <2>2 DEF SameNodes, SameFields, SameRefs
  <2>3. QED
    BY <2>1, <2>2
<1> HIDE DEF s
<1>5. DOMAIN s = DOMAIN heap
  BY <1>4 DEF SameNodes
<1>6. Balanced(s, stack, root, anchors, owned, <<>>, <<>>)
  BY <1>2, <1>4, SameBalance
<1>7. IsHeap(g) /\ SameNodes(s, g)
  BY <1>3, <1>4, <1>5, TakenIs
<1>8. IsStack(s, stack) /\ IsTable(s, anchors)
  BY <1>2, <1>4, SameStacks
<1> HIDE DEF g
<1>9. Balanced(g, stack, root, anchors, own, <<>>, <<>>) /\ own \in Seq(DOMAIN heap)
  <2>1. owned \in Seq(DOMAIN s) /\ root \in DOMAIN s
    BY <1>2, <1>3, <1>5
  <2>2. Balanced(g, stack, root, anchors, own, <<>>, <<>>) /\ own \in Seq(DOMAIN s)
    BY <1>4, <1>6, <1>8, <2>1, TakenBalanced DEF g
  <2>3. QED
    BY <1>5, <2>2
<1> HIDE DEF own
<1>10. DOMAIN g = DOMAIN heap
  BY <1>5, <1>7 DEF SameNodes
<1>11. IsStack(g, stack) /\ IsTable(g, anchors) /\ IsCall(g, Null)
  BY <1>7, <1>8, SameStacks DEF IsCall
<1>12. IsState(g, stack, root, anchors, own, <<>>, Null)
  BY <1>2, <1>7, <1>9, <1>10, <1>11 DEF IsState
<1>13. QED
  BY <1>1, <1>2, <1>9, <1>12 DEF Fits, Counted

\* A table without names.
LEMMA NoNames ==
  ASSUME NEW h, IsHeap(h), NEW table, table = [a \in Anchor |-> Null]
  PROVE  IsTable(h, table) /\ \A m \in DOMAIN h : Named(table, m) = 0
<1>1. IsTable(h, table)
  BY DEF IsTable
<1>2. ASSUME NEW m \in DOMAIN h PROVE Named(table, m) = 0
  <2>1. {a \in Anchor : table[a] = m} = {}
    BY NodesAreNumbers
  <2>2. QED
    BY <2>1, FS_EmptySet DEF Named
<1>3. QED
  BY <1>1, <1>2

\* The nodes of the table, and the root if there is one, are nodes.
LEMMA TableListed ==
  ASSUME NEW h, IsHeap(h), IsTable(h, anchors)
  PROVE  TableNodes \in Seq(DOMAIN h)
<1> DEFINE B == {a \in Anchor : anchors[a] # Null}
<1>1. IsFiniteSet(B)
  BY BuilderAssumption, FS_Subset
<1>2. \A b \in B : anchors[b] \in DOMAIN h
  BY DEF IsTable
<1>3. TableNodes = Listed(anchors, B)
  BY DEF TableNodes, Listed
<1> HIDE DEF B
<1>4. QED
  BY <1>1, <1>2, <1>3, PlacesOfTable

\* What is there or not is a sequence.
LEMMA IfSetIs ==
  ASSUME NEW D, NEW x \in D \cup {Null}
  PROVE  IfSet(x) \in Seq(D)
<1>1. CASE x = Null
  <2>1. IfSet(x) = <<>>
    BY <1>1 DEF IfSet
  <2>2. QED
    BY <2>1
<1>2. CASE x # Null
  <2>1. IfSet(x) = <<x>> /\ x \in D
    BY <1>2 DEF IfSet
  <2>2. QED
    BY <2>1
<1>3. QED
  BY <1>1, <1>2

\* yaml_builder_steal_root.
LEMMA StealRootKeeps ==
  ASSUME Fits, Counted, StealRoot
  PROVE  Fits' /\ Counted'
<1> DEFINE D == DOMAIN heap
           own == owned \o IfSet(root)
           none == [a \in Anchor |-> Null]
           rel == TableNodes
<1>1. /\ Idle /\ owned' = own /\ root' = Null /\ anchors' = none /\ releasing' = rel
      /\ stack' = stack /\ immutable' = immutable /\ pending' = pending /\ heap' = heap
      /\ call' = call
  BY DEF StealRoot
<1>2. /\ IsHeap(heap) /\ IsStack(heap, stack) /\ IsTable(heap, anchors)
      /\ root \in D \cup {Null} /\ owned \in Seq(D) /\ call = Null
      /\ releasing = <<>> /\ pending \in Names /\ immutable \in BOOLEAN /\ Local(Null) = <<>>
      /\ IsCall(heap, Null)
      /\ Balanced(heap, stack, root, anchors, owned, <<>>, <<>>)
  BY <1>1, IdleIs
<1>3. Null \notin D
  BY <1>2, NodesAreNumbers
<1>4. \A m \in D : rel \in Seq(D) /\ Places(rel, m) = Named(anchors, m)
  BY <1>2, TableIs
<1>5. \A m \in D : Places(IfSet(root), m) = Same(root, m)
  BY <1>2, <1>3, PlacesIfSet
<1>6. IfSet(root) \in Seq(D)
  BY <1>2, IfSetIs
<1>7. own \in Seq(D)
  BY <1>2, <1>6, ConcatProperties
<1>8. IsTable(heap, none) /\ \A m \in D : Named(none, m) = 0
  BY <1>2, NoNames
<1>9. rel \in Seq(D)
  BY <1>2, TableListed
<1> HIDE DEF none, rel
<1>10. IsState(heap, stack, Null, none, own, rel, Null)
  BY <1>2, <1>7, <1>8, <1>9 DEF IsState
<1>11. ASSUME NEW m \in D
       PROVE  heap[m].refs = KeptTimes(stack, Null, none, own, m)
                               + Places(rel, m) + Places(<<>>, m) + Uses(heap, m)
  <2>1. heap[m].refs = KeptTimes(stack, root, anchors, owned, m) + Places(<<>>, m)
                         + Places(<<>>, m) + Uses(heap, m)
    BY <1>2 DEF Balanced
  <2>2. Places(own, m) = Places(owned, m) + Places(IfSet(root), m)
    BY <1>2, <1>6, PlacesOfBoth
  <2>3. Places(<<>>, m) = 0
    BY PlacesOfNone
  <2>4. Places(rel, m) = Named(anchors, m) /\ Places(IfSet(root), m) = Same(root, m)
        /\ Named(none, m) = 0 /\ Same(Null, m) = 0
    BY <1>3, <1>4, <1>5, <1>8 DEF Same
  <2>5. Uses(heap, m) \in Nat
    <3>1. IsTree(heap, Keys)
      BY <1>2, NodeFields
    <3>2. QED
      BY <3>1, PairsAreFinite
  <2> DEFINE a == Places(NodesOf(stack), m)
             o == Places(owned, m)
             t == Named(anchors, m)
             r == Same(root, m)
  <2>6. a \in Nat /\ o \in Nat /\ t \in Nat /\ r \in Nat
    BY <1>2, KeptIs
  <2>7. KeptTimes(stack, root, anchors, owned, m) = a + r + t + o
    BY DEF KeptTimes
  <2>8. KeptTimes(stack, Null, none, own, m) = a + 0 + 0 + (o + r)
    BY <2>2, <2>4 DEF KeptTimes
  <2> HIDE DEF a, o, t, r
  <2>9. KeptTimes(stack, Null, none, own, m) + t = KeptTimes(stack, root, anchors, owned, m)
        /\ KeptTimes(stack, Null, none, own, m) \in Nat
    BY <2>6, <2>7, <2>8
  <2>10. Places(rel, m) = t
    BY <2>4 DEF t
  <2>11. QED
    BY <2>1, <2>3, <2>5, <2>6, <2>9, <2>10
<1>12. Balanced(heap, stack, Null, none, own, rel, <<>>)
  BY <1>11 DEF Balanced
<1>13. QED
  BY <1>1, <1>2, <1>10, <1>12 DEF Fits, Counted

\* yaml_builder_reset.
LEMMA ResetKeeps ==
  ASSUME Fits, Counted, Reset
  PROVE  Fits' /\ Counted'
<1> DEFINE D == DOMAIN heap
           none == [a \in Anchor |-> Null]
           nodes == NodesOf(stack)
           open == [i \in DOMAIN stack |-> Reverse(stack)[i].node]
           tab == TableNodes
           rel == (open \o IfSet(root)) \o tab
<1>1. /\ Idle /\ stack' = <<>> /\ root' = Null /\ pending' = Null /\ anchors' = none
      /\ releasing' = rel
      /\ immutable' = immutable /\ heap' = heap /\ owned' = owned /\ call' = call
  BY DEF Reset
<1>2. /\ IsHeap(heap) /\ IsStack(heap, stack) /\ IsTable(heap, anchors)
      /\ root \in D \cup {Null} /\ owned \in Seq(D) /\ call = Null
      /\ releasing = <<>> /\ immutable \in BOOLEAN /\ Local(Null) = <<>>
      /\ IsCall(heap, Null)
      /\ Balanced(heap, stack, root, anchors, owned, <<>>, <<>>)
  BY <1>1, IdleIs
<1>3. Null \notin D
  BY <1>2, NodesAreNumbers
<1>4. tab \in Seq(D) /\ \A m \in D : Places(tab, m) = Named(anchors, m)
  BY <1>2, TableIs, TableListed
<1>5. IfSet(root) \in Seq(D) /\ \A m \in D : Places(IfSet(root), m) = Same(root, m)
  BY <1>2, <1>3, PlacesIfSet, IfSetIs
<1>6. IsTable(heap, none) /\ \A m \in D : Named(none, m) = 0
  BY <1>2, NoNames
<1>7. /\ nodes \in Seq(D) /\ Len(nodes) = Len(stack) /\ Len(stack) \in Nat
      /\ DOMAIN stack = 1..Len(stack) /\ \A i \in 1..Len(stack) : nodes[i] = stack[i].node
  <2>1. stack \in Seq(FrameSet(D))
    BY <1>2 DEF IsStack
  <2>2. QED
    BY <2>1, FramesAre DEF NodesOf
<1>8. open = [i \in 1..Len(nodes) |-> nodes[(Len(nodes) - i) + 1]]
  <2>1. ASSUME NEW i \in 1..Len(stack)
        PROVE  Reverse(stack)[i].node = nodes[(Len(stack) - i) + 1]
    <3>1. Reverse(stack)[i] = stack[(Len(stack) - i) + 1]
      BY DEF Reverse
    <3>2. (Len(stack) - i) + 1 \in 1..Len(stack)
      BY <1>7
    <3>3. QED
      BY <1>7, <3>1, <3>2
  <2>2. QED
    BY <1>7, <2>1
<1> HIDE DEF none, open, tab, nodes
<1>9. \A m : Places(open, m) = Places(nodes, m) /\ open \in Seq(D)
  BY <1>7, <1>8, PlacesOfReversed
<1>10. open \o IfSet(root) \in Seq(D)
  BY <1>5, <1>9, ConcatProperties
<1>11. rel \in Seq(D)
  BY <1>4, <1>10, ConcatProperties
<1>12. IsStack(heap, <<>>)
  BY DEF IsStack
<1>13. ASSUME NEW m \in D
       PROVE  heap[m].refs = KeptTimes(<<>>, Null, none, owned, m)
                               + Places(rel, m) + Places(<<>>, m) + Uses(heap, m)
  <2>1. heap[m].refs = KeptTimes(stack, root, anchors, owned, m) + Places(<<>>, m)
                         + Places(<<>>, m) + Uses(heap, m)
    BY <1>2 DEF Balanced
  <2>2. Places(rel, m) = Places(open \o IfSet(root), m) + Places(tab, m)
    BY <1>4, <1>10, PlacesOfBoth
  <2>3. Places(open \o IfSet(root), m) = Places(open, m) + Places(IfSet(root), m)
    BY <1>5, <1>9, PlacesOfBoth
  <2>4. Places(<<>>, m) = 0 /\ NodesOf(<<>>) = <<>>
    BY PlacesOfNone DEF NodesOf
  <2>5. /\ Places(tab, m) = Named(anchors, m) /\ Places(IfSet(root), m) = Same(root, m)
        /\ Named(none, m) = 0 /\ Same(Null, m) = 0 /\ Places(open, m) = Places(nodes, m)
    BY <1>3, <1>4, <1>5, <1>6, <1>9 DEF Same
  <2>6. Uses(heap, m) \in Nat
    <3>1. IsTree(heap, Keys)
      BY <1>2, NodeFields
    <3>2. QED
      BY <3>1, PairsAreFinite
  <2> DEFINE a == Places(nodes, m)
             o == Places(owned, m)
             t == Named(anchors, m)
             r == Same(root, m)
  <2>7. a \in Nat /\ o \in Nat /\ t \in Nat /\ r \in Nat
    BY <1>2, KeptIs DEF nodes
  <2>8. KeptTimes(stack, root, anchors, owned, m) = a + r + t + o
    BY DEF KeptTimes, nodes
  <2>9. KeptTimes(<<>>, Null, none, owned, m) = 0 + 0 + 0 + o
    BY <2>4, <2>5 DEF KeptTimes
  <2>10. Places(rel, m) = a + r + t
    BY <2>2, <2>3, <2>5
  <2> HIDE DEF a, o, t, r, rel
  <2>11. KeptTimes(<<>>, Null, none, owned, m) + Places(rel, m)
           = KeptTimes(stack, root, anchors, owned, m)
         /\ KeptTimes(<<>>, Null, none, owned, m) \in Nat /\ Places(rel, m) \in Nat
    BY <2>7, <2>8, <2>9, <2>10
  <2>12. QED
    BY <2>1, <2>4, <2>6, <2>11
<1> HIDE DEF rel
<1>14. Balanced(heap, <<>>, Null, none, owned, rel, <<>>)
  BY <1>13 DEF Balanced
<1>15. IsState(heap, <<>>, Null, none, owned, rel, Null)
  BY <1>2, <1>6, <1>11, <1>12 DEF IsState
<1>16. QED
  BY <1>1, <1>2, <1>14, <1>15 DEF Fits, Counted, Names

\* The client drops a reference.
LEMMA ClientUnrefKeeps ==
  ASSUME Fits, Counted, NEW i \in DOMAIN owned, ClientUnref(i)
  PROVE  Fits' /\ Counted'
<1> DEFINE D == DOMAIN heap
           own == RemoveAt(owned, i)
           n == owned[i]
           rel == <<n>>
<1>1. /\ Idle /\ owned' = own /\ releasing' = rel
      /\ UNCHANGED <<stack, root, immutable, pending, anchors, heap, call>>
  BY DEF ClientUnref
<1>2. /\ IsHeap(heap) /\ IsStack(heap, stack) /\ IsTable(heap, anchors)
      /\ root \in D \cup {Null} /\ owned \in Seq(D) /\ call = Null
      /\ releasing = <<>> /\ pending \in Names /\ immutable \in BOOLEAN /\ Local(Null) = <<>>
      /\ IsCall(heap, Null)
      /\ Balanced(heap, stack, root, anchors, owned, <<>>, <<>>)
  BY <1>1, IdleIs
<1>3. i \in 1..Len(owned)
  BY <1>2, LenProperties
<1>4. own \in Seq(D) /\ n \in D
      /\ \A m : Places(owned, m) = Places(own, m) + Same(n, m)
  BY <1>2, <1>3, PlacesOfRest
<1>5. rel \in Seq(D)
  BY <1>4
<1>6. \A m : Places(rel, m) = Same(n, m)
  BY PlacesOfOne
<1> HIDE DEF own, n, rel
<1>7. ASSUME NEW m \in D
      PROVE  heap[m].refs = KeptTimes(stack, root, anchors, own, m)
                              + Places(rel, m) + Places(<<>>, m) + Uses(heap, m)
  <2>1. heap[m].refs = KeptTimes(stack, root, anchors, owned, m) + Places(<<>>, m)
                         + Places(<<>>, m) + Uses(heap, m)
    BY <1>2 DEF Balanced
  <2>2. Places(<<>>, m) = 0 /\ Places(rel, m) = Same(n, m)
        /\ Places(owned, m) = Places(own, m) + Same(n, m)
    BY <1>4, <1>6, PlacesOfNone
  <2>3. Uses(heap, m) \in Nat
    <3>1. IsTree(heap, Keys)
      BY <1>2, NodeFields
    <3>2. QED
      BY <3>1, PairsAreFinite
  <2> DEFINE k == KeptTimes(<<>>, Null, anchors, <<>>, m)
             a == Places(NodesOf(stack), m)
             r == Same(root, m)
             o == Places(own, m)
  <2>4. KeptTimes(stack, root, anchors, owned, m) = k + a + r + Places(owned, m)
    BY <1>2, KeptIs
  <2>5. KeptTimes(stack, root, anchors, own, m) = k + a + r + o
    BY <1>2, <1>4, KeptIs
  <2>6. Named(anchors, m) \in Nat /\ a \in Nat /\ r \in Nat /\ o \in Nat /\ k = Named(anchors, m)
    BY <1>2, <1>4, KeptIs
  <2>7. Same(n, m) \in Nat
    BY DEF Same
  <2> HIDE DEF k, a, r, o
  <2>8. KeptTimes(stack, root, anchors, owned, m)
          = KeptTimes(stack, root, anchors, own, m) + Same(n, m)
        /\ KeptTimes(stack, root, anchors, own, m) \in Nat
    BY <2>2, <2>4, <2>5, <2>6, <2>7 DEF o
  <2>9. QED
    BY <2>1, <2>2, <2>3, <2>7, <2>8
<1>8. Balanced(heap, stack, root, anchors, own, rel, <<>>)
  BY <1>7 DEF Balanced
<1>9. IsState(heap, stack, root, anchors, own, rel, Null)
  BY <1>2, <1>4, <1>5 DEF IsState
<1>10. QED
  BY <1>1, <1>2, <1>8, <1>9 DEF Fits, Counted

-----------------------------------------------------------------------------
(* The counters, in every state. *)

\* The builder starts with nothing.
LEMMA InitFits ==
  ASSUME Init
  PROVE  Fits /\ Counted
<1>1. /\ heap = <<>> /\ stack = <<>> /\ root = Null /\ anchors = [a \in Anchor |-> Null]
      /\ owned = <<>> /\ releasing = <<>> /\ call = Null /\ pending = Null /\ immutable \in BOOLEAN
  BY BuilderAssumption DEF Init
<1>2. DOMAIN heap = {} /\ Len(heap) = 0
  BY <1>1
<1>3. IsHeap(heap)
  <2>1. heap \in [{} -> NodeSet({})]
    BY <1>1, <1>2
  <2>2. 1..0 = {}
    OBVIOUS
  <2>3. QED
    BY <1>2, <2>1, <2>2 DEF IsHeap
<1>4. IsStack(heap, stack) /\ IsTable(heap, anchors) /\ IsCall(heap, call)
  BY <1>1 DEF IsStack, IsTable, IsCall
<1>5. owned \in Seq(DOMAIN heap) /\ releasing \in Seq(DOMAIN heap)
  BY <1>1
<1>6. Fits
  BY <1>1, <1>3, <1>4, <1>5 DEF Fits, IsState, Names
<1>7. Counted
  BY <1>2 DEF Counted, Balanced
<1>8. QED
  BY <1>6, <1>7

\* Every call keeps the parts of the state fitting and the counters exact.
LEMMA StepFits ==
  ASSUME Fits, Counted, [Next]_vars
  PROVE  Fits' /\ Counted'
<1>1. CASE UNCHANGED vars
  BY <1>1 DEF vars, Fits, Counted
<1>2. CASE FinishRoot
  BY <1>2, FinishRootKeeps
<1>3. CASE Release
  BY <1>3, ReleaseKeeps
<1>4. CASE AddScalar
  BY <1>4, AddScalarKeeps
<1>5. ASSUME NEW kind \in Container \cup ContainerBelow, BeginContainer(kind)
      PROVE  Fits' /\ Counted'
  BY <1>5, BeginContainerKeeps
<1>6. ASSUME NEW kind \in Container \cup ContainerBelow, EndContainer(kind)
      PROVE  Fits' /\ Counted'
  BY <1>6, EndContainerKeeps
<1>7. ASSUME NEW key \in Key, SetMemberName(key)
      PROVE  Fits' /\ Counted'
  BY <1>7, SetMemberNameKeeps
<1>8. ASSUME NEW n \in YamlNode, AddValue(n)
      PROVE  Fits' /\ Counted'
  BY <1>8, AddValueKeeps
<1>9. ASSUME NEW a \in Anchor, AddAlias(a)
      PROVE  Fits' /\ Counted'
  BY <1>9, AddAliasKeeps
<1>10. ASSUME NEW a \in Anchor, SetAnchor(a)
       PROVE  Fits' /\ Counted'
  BY <1>10, SetAnchorKeeps
<1>11. ASSUME NEW b \in Immutables, SetImmutable(b)
       PROVE  Fits' /\ Counted'
  BY <1>11, SetImmutableKeeps
<1>12. CASE DupRoot
  BY <1>12, DupRootKeeps
<1>13. CASE StealRoot
  BY <1>13, StealRootKeeps
<1>14. CASE GetDocument
  BY <1>14, GetDocumentKeeps
<1>15. CASE Reset
  BY <1>15, ResetKeeps
<1>16. ASSUME NEW i \in DOMAIN owned, ClientUnref(i)
       PROVE  Fits' /\ Counted'
  BY <1>16, ClientUnrefKeeps
<1>17. QED
  BY <1>1, <1>2, <1>3, <1>4, <1>5, <1>6, <1>7, <1>8, <1>9, <1>10, <1>11, <1>12, <1>13, <1>14,
     <1>15, <1>16 DEF Next

\* The balance is what RefsExact says.
LEMMA CountedIsExact ==
  ASSUME Fits, Counted
  PROVE  RefsExact
<1> DEFINE D == DOMAIN heap
           nodes == NodesOf(stack)
           s1 == nodes \o IfSet(root)
           s2 == s1 \o TableNodes
           s3 == s2 \o owned
           s4 == s3 \o releasing
           s5 == s4 \o Local(call)
<1>1. /\ IsHeap(heap) /\ IsStack(heap, stack) /\ IsTable(heap, anchors)
      /\ root \in D \cup {Null} /\ owned \in Seq(D) /\ releasing \in Seq(D) /\ IsCall(heap, call)
  BY DEF Fits, IsState
<1>2. stack \in Seq(FrameSet(D))
  BY <1>1 DEF IsStack
<1>3. /\ nodes \in Seq(D) /\ IfSet(root) \in Seq(D) /\ TableNodes \in Seq(D)
      /\ Local(call) \in Seq(D)
  BY <1>1, <1>2, FramesAre, IfSetIs, TableListed, LocalIs
<1>4. nodes = [i \in DOMAIN stack |-> stack[i].node]
  BY DEF NodesOf
<1>5. s1 \in Seq(D)
  BY <1>3, ConcatProperties
<1> HIDE DEF s1
<1>6. s2 \in Seq(D)
  BY <1>3, <1>5, ConcatProperties
<1> HIDE DEF s2
<1>7. s3 \in Seq(D)
  BY <1>1, <1>6, ConcatProperties
<1> HIDE DEF s3
<1>8. s4 \in Seq(D)
  BY <1>1, <1>7, ConcatProperties
<1> HIDE DEF s4
<1>9. Held = s5
  BY <1>4 DEF Held, Local, s1, s2, s3, s4
<1> HIDE DEF s5, nodes
<1>10. ASSUME NEW m \in D PROVE heap[m].refs = Places(Held, m) + Uses(heap, m)
  <2>1. Places(s1, m) = Places(nodes, m) + Places(IfSet(root), m) /\ Places(nodes, m) \in Nat
    BY <1>3, PlacesOfBoth DEF s1
  <2>2. Places(s2, m) = Places(s1, m) + Places(TableNodes, m)
    BY <1>3, <1>5, PlacesOfBoth DEF s2
  <2>3. Places(s3, m) = Places(s2, m) + Places(owned, m) /\ Places(owned, m) \in Nat
    BY <1>1, <1>6, PlacesOfBoth DEF s3
  <2>4. Places(s4, m) = Places(s3, m) + Places(releasing, m) /\ Places(releasing, m) \in Nat
    BY <1>1, <1>7, PlacesOfBoth DEF s4
  <2>5. Places(s5, m) = Places(s4, m) + Places(Local(call), m) /\ Places(Local(call), m) \in Nat
    BY <1>3, <1>8, PlacesOfBoth DEF s5
  <2>6. Null \notin D
    BY <1>1, NodesAreNumbers
  <2>7. Places(IfSet(root), m) = Same(root, m) /\ Places(TableNodes, m) = Named(anchors, m)
    BY <1>1, <2>6, PlacesIfSet, TableIs
  <2>8. Same(root, m) \in Nat /\ Named(anchors, m) \in Nat
    BY NamedIs DEF Same
  <2>9. Uses(heap, m) \in Nat
    <3>1. IsTree(heap, Keys)
      BY <1>1, NodeFields
    <3>2. QED
      BY <3>1, PairsAreFinite
  <2>10. heap[m].refs = KeptTimes(stack, root, anchors, owned, m) + Places(releasing, m)
                          + Places(Local(call), m) + Uses(heap, m)
    BY DEF Counted, Balanced
  <2>11. Places(s3, m) = KeptTimes(stack, root, anchors, owned, m)
         /\ KeptTimes(stack, root, anchors, owned, m) \in Nat
    BY <2>1, <2>2, <2>3, <2>7, <2>8 DEF KeptTimes, nodes
  <2>12. QED
    BY <1>9, <2>4, <2>5, <2>9, <2>10, <2>11
<1>11. QED
  BY <1>10 DEF RefsExact, YamlNode

\* The counter of every node is the number of references to it, whatever the builder
\* is told to name, share, replace, drop or forget (yaml-builder.c:244-774).
THEOREM BuilderCountsExactly == Spec => []RefsExact
<1>1. Init => Fits /\ Counted
  BY InitFits
<1>2. Fits /\ Counted /\ [Next]_vars => Fits' /\ Counted'
  BY StepFits
<1>3. Fits /\ Counted => RefsExact
  BY CountedIsExact
<1>4. QED
  BY <1>1, <1>2, <1>3, PTL DEF Spec

-----------------------------------------------------------------------------
(* What is sealed. *)

\* What is sealed is as it was.
Steady(h, g) ==
    /\ DOMAIN h \subseteq DOMAIN g
    /\ \A m \in DOMAIN h : h[m].sealed =>
         g[m].sealed /\ g[m].kind = h[m].kind /\ g[m].anchor = h[m].anchor
                     /\ g[m].fields = h[m].fields

\* What is in a sealed node is sealed.
ClosedIn(h) ==
    \A m \in DOMAIN h : h[m].sealed =>
      \A i \in DOMAIN h[m].fields : h[h[m].fields[i].child].sealed

\* What is in a node is a node.
LEMMA ChildIs ==
  ASSUME NEW h, IsHeap(h), NEW m \in DOMAIN h, NEW i \in DOMAIN h[m].fields
  PROVE  h[m].fields[i].child \in DOMAIN h
<1>1. IsTree(h, Keys)
  BY NodeFields
<1>2. h[m].fields[i] \in [key : Keys, child : DOMAIN h]
  BY <1>1, FieldsAre
<1>3. QED
  BY <1>2

\* Nodes that keep their fields, seals and names.
LEMMA SteadyIs ==
  ASSUME NEW h, IsHeap(h), NEW g, SameNodes(h, g), SameFields(h, g), SameSeals(h, g),
         SameNames(h, g)
  PROVE  Steady(h, g) /\ (ClosedIn(h) => ClosedIn(g))
<1>1. DOMAIN g = DOMAIN h
  BY DEF SameNodes
<1>2. Steady(h, g)
  BY <1>1 DEF SameNodes, SameFields, SameSeals, SameNames, Steady
<1>3. ASSUME ClosedIn(h), NEW m \in DOMAIN h, g[m].sealed, NEW i \in DOMAIN g[m].fields
      PROVE  g[g[m].fields[i].child].sealed
  <2>1. h[m].sealed /\ g[m].fields = h[m].fields
    BY <1>3 DEF SameFields, SameSeals
  <2>2. h[m].fields[i].child \in DOMAIN h /\ h[h[m].fields[i].child].sealed
    BY <1>3, <2>1, ChildIs DEF ClosedIn
  <2>3. QED
    BY <2>1, <2>2 DEF SameSeals
<1>4. QED
  BY <1>1, <1>2, <1>3 DEF ClosedIn

\* yaml_node_seal: what was sealed stays so, and all below the node is sealed too.
LEMMA SealSteady ==
  ASSUME NEW h, IsHeap(h), NEW n \in DOMAIN h
  PROVE  Steady(h, SealIn(h, n)) /\ (ClosedIn(h) => ClosedIn(SealIn(h, n)))
<1> DEFINE g == SealIn(h, n)
           X == ReachIn(h, {n})
<1>1. /\ SameNodes(h, g) /\ SameFields(h, g) /\ SameNames(h, g) /\ SealsMore(h, g, X)
  BY SealedIs
<1>2. \A m \in X : \A i \in DOMAIN h[m].fields : h[m].fields[i].child \in X
  <2>1. IsTree(h, Keys)
    BY NodeFields
  <2>2. QED
    BY <2>1, SealedTree
<1> HIDE DEF g, X
<1>3. DOMAIN g = DOMAIN h
  BY <1>1 DEF SameNodes
<1>4. Steady(h, g)
  BY <1>1, <1>3 DEF SameNodes, SameFields, SealsMore, SameNames, Steady
<1>5. ASSUME ClosedIn(h), NEW m \in DOMAIN h, g[m].sealed, NEW i \in DOMAIN g[m].fields
      PROVE  g[g[m].fields[i].child].sealed
  <2> DEFINE c == h[m].fields[i].child
  <2>1. g[m].fields = h[m].fields /\ (h[m].sealed \/ m \in X)
    BY <1>1, <1>5 DEF SameFields, SealsMore
  <2>2. c \in DOMAIN h
    BY <1>5, <2>1, ChildIs
  <2>3. h[c].sealed \/ c \in X
    BY <1>2, <1>5, <2>1 DEF ClosedIn
  <2>4. QED
    BY <1>1, <2>1, <2>2, <2>3 DEF SealsMore
<1>6. QED
  BY <1>3, <1>4, <1>5 DEF ClosedIn, g

\* A sealed container refuses what is added.
LEMMA StoredSteady ==
  ASSUME NEW h, IsHeap(h), NEW n \in DOMAIN h, NEW p \in DOMAIN h, ~h[p].sealed,
         NEW key \in Keys, NEW g, g = StoredAt(h, p, key, n)
  PROVE  Steady(h, g) /\ (ClosedIn(h) => ClosedIn(g))
<1>1. /\ SameNodes(h, g) /\ SameSeals(h, g) /\ SameNames(h, g) /\ SameFieldsBut(h, g, p)
  BY NodeStoredIs
<1>2. DOMAIN g = DOMAIN h
  BY <1>1 DEF SameNodes
<1>3. Steady(h, g)
  BY <1>1, <1>2 DEF SameNodes, SameFieldsBut, SameSeals, SameNames, Steady
<1>4. ASSUME ClosedIn(h), NEW m \in DOMAIN h, g[m].sealed, NEW i \in DOMAIN g[m].fields
      PROVE  g[g[m].fields[i].child].sealed
  <2>1. h[m].sealed /\ m # p
    BY <1>1, <1>4 DEF SameSeals
  <2>2. g[m].fields = h[m].fields
    BY <1>1, <2>1 DEF SameFieldsBut
  <2>3. h[m].fields[i].child \in DOMAIN h /\ h[h[m].fields[i].child].sealed
    BY <1>4, <2>1, <2>2, ChildIs DEF ClosedIn
  <2>4. QED
    BY <1>1, <2>2, <2>3 DEF SameSeals
<1>5. QED
  BY <1>2, <1>3, <1>4 DEF ClosedIn

\* A new node is not sealed.
LEMMA GrownSteady ==
  ASSUME NEW h, IsHeap(h), NEW g, NEW kind, Grown(h, g, kind)
  PROVE  Steady(h, g) /\ (ClosedIn(h) => ClosedIn(g))
<1>1. /\ DOMAIN g = DOMAIN h \cup {Len(h) + 1} /\ \A m \in DOMAIN h : g[m] = h[m]
      /\ ~g[Len(h) + 1].sealed
  BY DEF Grown, NewNode
<1>2. Steady(h, g)
  BY <1>1 DEF Steady
<1>3. ASSUME ClosedIn(h), NEW m \in DOMAIN g, g[m].sealed, NEW i \in DOMAIN g[m].fields
      PROVE  g[g[m].fields[i].child].sealed
  <2>1. m \in DOMAIN h /\ g[m] = h[m]
    BY <1>1, <1>3
  <2>2. h[m].fields[i].child \in DOMAIN h /\ h[h[m].fields[i].child].sealed
    BY <1>3, <2>1, ChildIs DEF ClosedIn
  <2>3. QED
    BY <1>1, <2>1, <2>2
<1>4. QED
  BY <1>2, <1>3 DEF ClosedIn

\* One after the other.
LEMMA SteadyTwice ==
  ASSUME NEW h, NEW g, NEW k, Steady(h, g), Steady(g, k)
  PROVE  Steady(h, k)
BY DEF Steady

\* add_value_to_context leaves what is sealed as it is.
LEMMA AddSteady ==
  ASSUME NEW h, IsHeap(h), NEW n \in DOMAIN h, NEW frames, IsStack(h, frames),
         NEW local, pending \in Names, AddToContext(h, n, frames, local)
  PROVE  Steady(h, heap') /\ (ClosedIn(h) => ClosedIn(heap'))
<1> DEFINE g == WithMetadata(h, n)
           p == TopNode(frames)
           key == NameFor(g, frames)
           s == StoredAt(g, p, key, n)
<1>1. \/ heap' = g
      \/ frames # <<>> /\ key # Null /\ ~g[p].sealed /\ heap' = s
  <2>1. \/ BecomesRoot(g, n, frames, local) \/ IsIgnored(g, frames, local)
        \/ IsTaken(g, n, frames, local) \/ IsRefused(g, frames, local)
    BY AddCases
  <2>2. QED
    BY <2>1 DEF BecomesRoot, IsIgnored, IsTaken, IsRefused
<1>2. /\ IsHeap(g) /\ SameNodes(h, g) /\ SameFields(h, g) /\ SameSeals(h, g) /\ SameNames(h, g)
  BY MetadataIs
<1> HIDE DEF g
<1>3. Steady(h, g) /\ (ClosedIn(h) => ClosedIn(g))
  BY <1>2, SteadyIs
<1>4. CASE heap' = g
  BY <1>3, <1>4
<1>5. CASE frames # <<>> /\ key # Null /\ ~g[p].sealed /\ heap' = s
  <2>1. DOMAIN g = DOMAIN h /\ IsStack(g, frames)
    BY <1>2, SameStacks DEF SameNodes
  <2>2. p \in DOMAIN g /\ key \in Keys
    BY <1>2, <1>5, <2>1, TopIs, NameIs
  <2>3. n \in DOMAIN g /\ ~g[p].sealed
    BY <1>5, <2>1
  <2> HIDE DEF p, key
  <2>4. Steady(g, s) /\ (ClosedIn(g) => ClosedIn(s))
    BY <1>2, <2>2, <2>3, StoredSteady
  <2> HIDE DEF s
  <2>5. Steady(h, s)
    BY <1>3, <2>4, SteadyTwice
  <2>6. QED
    BY <1>3, <1>5, <2>4, <2>5
<1>6. QED
  BY <1>1, <1>4, <1>5

\* A node that is freed has nothing in it.
LEMMA FreedClosed ==
  ASSUME NEW h, IsHeap(h), NEW g, SameNodes(h, g), SameSeals(h, g), FieldsFreed(h, g), ClosedIn(h)
  PROVE  ClosedIn(g)
<1>1. DOMAIN g = DOMAIN h
  BY DEF SameNodes
<1>2. ASSUME NEW m \in DOMAIN h, g[m].sealed, NEW i \in DOMAIN g[m].fields
      PROVE  g[g[m].fields[i].child].sealed
  <2>1. h[m].sealed
    BY <1>2 DEF SameSeals
  <2>2. g[m].fields = h[m].fields
    BY <1>2 DEF FieldsFreed
  <2>3. h[m].fields[i].child \in DOMAIN h /\ h[h[m].fields[i].child].sealed
    BY <1>2, <2>1, <2>2, ChildIs DEF ClosedIn
  <2>4. QED
    BY <2>2, <2>3 DEF SameSeals
<1>3. QED
  BY <1>1, <1>2 DEF ClosedIn

\* A node of a builder's heap that is made and named.
LEMMA NewSteady ==
  ASSUME IsHeap(heap), NEW kind \in Kinds, NEW n, n = Len(heap) + 1,
         NEW g, g = Append(heap, NewNode(kind))
  PROVE  /\ IsHeap(g) /\ n \in DOMAIN g /\ Steady(heap, g)
         /\ ClosedIn(heap) => ClosedIn(g)
         /\ IsStack(heap, stack) => IsStack(g, stack)
<1>1. IsHeap(g) /\ Grown(heap, g, kind)
  BY GrownIs
<1> HIDE DEF IsHeap
<1>2. Steady(heap, g) /\ (ClosedIn(heap) => ClosedIn(g))
  BY <1>1, GrownSteady
<1>3. Len(g) \in DOMAIN g /\ Len(g) = Len(heap) + 1
      /\ (IsStack(heap, stack) => IsStack(g, stack))
  BY <1>1, GrownFits
<1>4. QED
  BY <1>1, <1>2, <1>3

\* What an immutable builder seals.
LEMMA SealIfSteady ==
  ASSUME NEW h, IsHeap(h), NEW n \in DOMAIN h, NEW g,
         g = IF immutable THEN SealIn(h, n) ELSE h
  PROVE  /\ IsHeap(g) /\ SameNodes(h, g) /\ SameFields(h, g)
         /\ Steady(h, g) /\ (ClosedIn(h) => ClosedIn(g))
<1>1. CASE immutable
  <2>1. g = SealIn(h, n)
    BY <1>1
  <2>2. QED
    BY <2>1, SealedIs, SealSteady
<1>2. CASE ~immutable
  BY <1>2 DEF SameNodes, SameFields, Steady
<1>3. QED
  BY <1>1, <1>2

\* A step leaves what is sealed as it is, or releases a reference, and all that is in
\* a sealed node stays sealed.
LEMMA StepSteady ==
  ASSUME Fits, [Next]_vars
  PROVE  (Release \/ Steady(heap, heap')) /\ (ClosedIn(heap) => ClosedIn(heap'))
<1>1. /\ IsHeap(heap) /\ IsStack(heap, stack) /\ IsTable(heap, anchors)
      /\ root \in DOMAIN heap \cup {Null} /\ owned \in Seq(DOMAIN heap)
      /\ releasing \in Seq(DOMAIN heap) /\ IsCall(heap, call) /\ pending \in Names
  BY DEF Fits, IsState
<1>2. ASSUME heap' = heap
      PROVE  Steady(heap, heap') /\ (ClosedIn(heap) => ClosedIn(heap'))
  BY <1>2 DEF Steady
<1>3. ASSUME NEW n \in DOMAIN heap, heap' = Taken(heap, n)
      PROVE  Steady(heap, heap') /\ (ClosedIn(heap) => ClosedIn(heap'))
  <2>1. /\ SameNodes(heap, heap') /\ SameFields(heap, heap') /\ SameSeals(heap, heap')
        /\ SameNames(heap, heap')
    BY <1>1, <1>3, TakenIs
  <2>2. QED
    BY <1>1, <2>1, SteadyIs
<1>4. ASSUME UNCHANGED vars
      PROVE  Steady(heap, heap') /\ (ClosedIn(heap) => ClosedIn(heap'))
  BY <1>2, <1>4 DEF vars
<1>5. ASSUME FinishRoot
      PROVE  Steady(heap, heap') /\ (ClosedIn(heap) => ClosedIn(heap'))
  <2>1. call.node \in DOMAIN heap /\ heap' = Taken(heap, call.node)
    BY <1>1, <1>5, LocalIs DEF FinishRoot, Taken
  <2>2. QED
    BY <1>3, <2>1
<1>6. ASSUME Release
      PROVE  ClosedIn(heap) => ClosedIn(heap')
  <2> DEFINE g == UnrefFirst(heap, releasing).heap
             rest == UnrefFirst(heap, releasing).nodes
  <2>1. releasing # <<>> /\ heap' = g
    BY <1>6 DEF Release
  <2>2. SameNodes(heap, g) /\ SameSeals(heap, g) /\ FieldsFreed(heap, g)
    BY <1>1, <2>1, UnrefIs
  <2> HIDE DEF g
  <2>3. QED
    BY <1>1, <2>1, <2>2, FreedClosed
<1>7. ASSUME AddScalar
      PROVE  Steady(heap, heap') /\ (ClosedIn(heap) => ClosedIn(heap'))
  <2> DEFINE n == Len(heap) + 1
             g == Append(heap, NewNode(Scalar))
             local == <<n>>
  <2>1. AddToContext(g, n, stack, local)
    BY <1>7 DEF AddScalar
  <2>2. Scalar \in Kinds
    BY DEF Scalar, Kinds
  <2>3. IsHeap(g) /\ n \in DOMAIN g /\ Steady(heap, g) /\ (ClosedIn(heap) => ClosedIn(g))
        /\ IsStack(g, stack)
    BY <1>1, <2>2, NewSteady
  <2> HIDE DEF n, g, local
  <2>4. Steady(g, heap') /\ (ClosedIn(g) => ClosedIn(heap'))
    BY <1>1, <2>1, <2>3, AddSteady
  <2>5. Steady(heap, heap')
    BY <2>3, <2>4, SteadyTwice
  <2>6. QED
    BY <2>3, <2>4, <2>5
<1>8. ASSUME NEW kind \in Container \cup ContainerBelow, BeginContainer(kind)
      PROVE  Steady(heap, heap') /\ (ClosedIn(heap) => ClosedIn(heap'))
  <2> DEFINE n == Len(heap) + 1
             g == Append(heap, NewNode(kind))
             w == WithMetadata(g, n)
  <2>1. heap' = w
    BY <1>8 DEF BeginContainer
  <2>2. kind \in Kinds
    BY BuilderAssumption DEF Kinds
  <2>3. IsHeap(g) /\ n \in DOMAIN g /\ Steady(heap, g) /\ (ClosedIn(heap) => ClosedIn(g))
    BY <1>1, <2>2, NewSteady
  <2> HIDE DEF n, g
  <2>4. SameNodes(g, w) /\ SameFields(g, w) /\ SameSeals(g, w) /\ SameNames(g, w)
    BY <1>1, <2>3, MetadataIs
  <2> HIDE DEF w
  <2>5. Steady(g, w) /\ (ClosedIn(g) => ClosedIn(w))
    BY <2>3, <2>4, SteadyIs
  <2>6. Steady(heap, w)
    BY <2>3, <2>5, SteadyTwice
  <2>7. QED
    BY <2>1, <2>3, <2>5, <2>6
<1>9. ASSUME NEW kind, EndContainer(kind)
      PROVE  Steady(heap, heap') /\ (ClosedIn(heap) => ClosedIn(heap'))
  <2> DEFINE n == TopNode(stack)
             g == IF immutable THEN SealIn(heap, n) ELSE heap
             front == Front(stack)
             local == <<n>>
  <2>1. AddToContext(g, n, front, local) /\ stack # <<>>
    BY <1>9 DEF EndContainer, TopNode
  <2>2. n \in DOMAIN heap /\ IsStack(heap, front)
    BY <1>1, <2>1, FramePopped
  <2> HIDE DEF n, front, local
  <2>3. /\ IsHeap(g) /\ SameNodes(heap, g) /\ Steady(heap, g) /\ (ClosedIn(heap) => ClosedIn(g))
    BY <1>1, <2>2, SealIfSteady
  <2> HIDE DEF g
  <2>4. n \in DOMAIN g /\ IsStack(g, front)
    BY <2>2, <2>3, SameStacks DEF SameNodes
  <2>5. Steady(g, heap') /\ (ClosedIn(g) => ClosedIn(heap'))
    BY <1>1, <2>1, <2>3, <2>4, AddSteady
  <2>6. Steady(heap, heap')
    BY <2>3, <2>5, SteadyTwice
  <2>7. QED
    BY <2>3, <2>5, <2>6
<1>10. ASSUME NEW n, AddValue(n)
       PROVE  Steady(heap, heap') /\ (ClosedIn(heap) => ClosedIn(heap'))
  <2> DEFINE local == <<>>
  <2>1. AddToContext(heap, n, stack, local) /\ n \in DOMAIN heap
    BY <1>1, <1>10 DEF AddValue, Range
  <2> HIDE DEF local
  <2>2. QED
    BY <1>1, <2>1, AddSteady
<1>11. ASSUME NEW a \in Anchor, AddAlias(a)
       PROVE  Steady(heap, heap') /\ (ClosedIn(heap) => ClosedIn(heap'))
  <2> DEFINE local == <<>>
             n == anchors[a]
  <2>1. AddToContext(heap, n, stack, local) /\ n \in DOMAIN heap
    BY <1>1, <1>11 DEF AddAlias, IsTable
  <2> HIDE DEF local, n
  <2>2. QED
    BY <1>1, <2>1, AddSteady
<1>12. ASSUME DupRoot
       PROVE  Steady(heap, heap') /\ (ClosedIn(heap) => ClosedIn(heap'))
  <2>1. root \in DOMAIN heap /\ heap' = Taken(heap, root)
    BY <1>1, <1>12 DEF DupRoot, Taken
  <2>2. QED
    BY <1>3, <2>1
<1>13. ASSUME GetDocument
       PROVE  Steady(heap, heap') /\ (ClosedIn(heap) => ClosedIn(heap'))
  <2> DEFINE g == IF immutable THEN SealIn(heap, root) ELSE heap
             k == Taken(g, root)
  <2>1. root \in DOMAIN heap /\ heap' = k
    BY <1>1, <1>13 DEF GetDocument, Taken
  <2>2. /\ IsHeap(g) /\ SameNodes(heap, g) /\ Steady(heap, g) /\ (ClosedIn(heap) => ClosedIn(g))
    BY <1>1, <2>1, SealIfSteady
  <2> HIDE DEF g
  <2>3. root \in DOMAIN g
    BY <2>1, <2>2 DEF SameNodes
  <2>4. SameNodes(g, k) /\ SameFields(g, k) /\ SameSeals(g, k) /\ SameNames(g, k)
    BY <2>2, <2>3, TakenIs
  <2> HIDE DEF k
  <2>5. Steady(g, k) /\ (ClosedIn(g) => ClosedIn(k))
    BY <2>2, <2>4, SteadyIs
  <2>6. Steady(heap, k)
    BY <2>2, <2>5, SteadyTwice
  <2>7. QED
    BY <2>1, <2>2, <2>5, <2>6
<1>14. ASSUME \/ \E key \in Key : SetMemberName(key)
              \/ \E a \in Anchor : SetAnchor(a)
              \/ \E b \in Immutables : SetImmutable(b)
              \/ StealRoot \/ Reset \/ \E i \in DOMAIN owned : ClientUnref(i)
       PROVE  Steady(heap, heap') /\ (ClosedIn(heap) => ClosedIn(heap'))
  <2>1. heap' = heap
    BY <1>14 DEF SetMemberName, SetAnchor, SetImmutable, StealRoot, Reset, ClientUnref
  <2>2. QED
    BY <1>2, <2>1
<1>15. QED
  BY <1>4, <1>5, <1>6, <1>7, <1>8, <1>9, <1>10, <1>11, <1>12, <1>13, <1>14 DEF Next

\* What an immutable builder has completed stays as it is, although its nodes are
\* shared, named again and part of what is still being built.
THEOREM CompletedNeverChanges == Spec => SealedFrozen
<1> DEFINE Frozen == \A n \in YamlNode :
                       heap[n].sealed /\ heap'[n].refs > 0
                         => [heap'[n] EXCEPT !.refs = 0] = [heap[n] EXCEPT !.refs = 0]
<1>1. Init => Fits /\ Counted
  BY InitFits
<1>2. Fits /\ Counted /\ [Next]_vars => Fits' /\ Counted'
  BY StepFits
<1>3. Fits /\ Fits' /\ [Next]_vars => Frozen
  <2> SUFFICES ASSUME Fits, Fits', [Next]_vars, NEW n \in DOMAIN heap, heap[n].sealed,
                      heap'[n].refs > 0
               PROVE  [heap'[n] EXCEPT !.refs = 0] = [heap[n] EXCEPT !.refs = 0]
    BY DEF YamlNode
  <2>1. IsHeap(heap) /\ IsHeap(heap') /\ releasing \in Seq(DOMAIN heap)
    BY DEF Fits, IsState
  <2>2. /\ n \in DOMAIN heap'
        /\ heap'[n].sealed = heap[n].sealed /\ heap'[n].kind = heap[n].kind
        /\ heap'[n].anchor = heap[n].anchor /\ heap'[n].fields = heap[n].fields
    <3>1. CASE Release
      <4> DEFINE g == UnrefFirst(heap, releasing).heap
                 rest == UnrefFirst(heap, releasing).nodes
      <4>1. releasing # <<>> /\ heap' = g
        BY <3>1 DEF Release
      <4>2. SameNodes(heap, g) /\ SameSeals(heap, g) /\ SameNames(heap, g) /\ FieldsFreed(heap, g)
        BY <2>1, <4>1, UnrefIs
      <4> HIDE DEF g
      <4>3. g[n].fields = heap[n].fields
        BY <4>1, <4>2 DEF FieldsFreed
      <4>4. QED
        BY <4>1, <4>2, <4>3 DEF SameNodes, SameSeals, SameNames
    <3>2. CASE Steady(heap, heap')
      <4>1. /\ n \in DOMAIN heap' /\ heap'[n].sealed /\ heap'[n].kind = heap[n].kind
            /\ heap'[n].anchor = heap[n].anchor /\ heap'[n].fields = heap[n].fields
        BY <3>2 DEF Steady
      <4>2. heap'[n].sealed \in BOOLEAN /\ heap[n].sealed \in BOOLEAN
        BY <2>1, <4>1, NodeFields
      <4>3. (heap'[n].sealed = heap[n].sealed)
        BY <4>1, <4>2
      <4>4. QED
        BY <4>1, <4>3
    <3>3. QED
      BY <3>1, <3>2, StepSteady
  <2>3. heap[n] \in NodeSet(DOMAIN heap) /\ heap'[n] \in NodeSet(DOMAIN heap')
    BY <2>1, <2>2, NodeFields
  <2>4. ASSUME NEW D, NEW r \in NodeSet(D)
        PROVE  [r EXCEPT !.refs = 0] = [kind |-> r.kind, fields |-> r.fields, refs |-> 0,
                                        sealed |-> r.sealed, anchor |-> r.anchor]
    BY DEF NodeSet
  <2>5. /\ [heap[n] EXCEPT !.refs = 0]
             = [kind |-> heap[n].kind, fields |-> heap[n].fields, refs |-> 0,
                sealed |-> heap[n].sealed, anchor |-> heap[n].anchor]
        /\ [heap'[n] EXCEPT !.refs = 0]
             = [kind |-> heap'[n].kind, fields |-> heap'[n].fields, refs |-> 0,
                sealed |-> heap'[n].sealed, anchor |-> heap'[n].anchor]
    BY <2>3, <2>4
  <2>6. QED
    BY <2>2, <2>5
<1>4. Frozen => [Frozen]_vars
  OBVIOUS
<1>5. Fits /\ Fits' /\ [Next]_vars => [Frozen]_vars
  BY <1>3, <1>4
<1> HIDE DEF Frozen
<1>6. Spec => [][Frozen]_vars
  BY <1>1, <1>2, <1>5, PTL DEF Spec
<1>7. QED
  BY <1>6 DEF SealedFrozen, Frozen

\* "Once sealed, a node and all its children cannot be modified" (yaml-node.h:32),
\* although the builder seals containers as they end, in any order, with shared,
\* named and unsealed nodes in them, and may be made immutable half-way
\* (yaml-builder.c:375-378, 478-481).
THEOREM SealsStayClosed == Spec => []SealedClosed
<1>1. Init => Fits /\ Counted /\ ClosedIn(heap)
  <2>1. Init => DOMAIN heap = {}
    BY DEF Init
  <2>2. QED
    BY <2>1, InitFits DEF ClosedIn
<1>2. Fits /\ Counted /\ ClosedIn(heap) /\ [Next]_vars => Fits' /\ Counted' /\ ClosedIn(heap)'
  BY StepFits, StepSteady
<1>3. Fits /\ ClosedIn(heap) => SealedClosed
  <2> SUFFICES ASSUME Fits, ClosedIn(heap), NEW n \in DOMAIN heap, heap[n].sealed,
                      NEW m \in Range(ChildrenIn(heap, n))
               PROVE  heap[m].sealed
    BY DEF SealedClosed, YamlNode
  <2>1. IsHeap(heap)
    BY DEF Fits, IsState
  <2>2. IsTree(heap, Keys)
    BY <2>1, NodeFields
  <2>3. PICK i \in DOMAIN ChildrenIn(heap, n) : m = ChildrenIn(heap, n)[i]
    BY DEF Range
  <2>4. i \in DOMAIN heap[n].fields /\ m = heap[n].fields[i].child
    BY <2>2, <2>3, ChildrenAre
  <2>5. QED
    BY <2>4 DEF ClosedIn
<1>4. QED
  BY <1>1, <1>2, <1>3, PTL DEF Spec

-----------------------------------------------------------------------------
(* Open containers. *)

\* An open container is nowhere but on the stack, where it is once, and not sealed.
OpenIn(h, frames, top, own) ==
    /\ \A i \in DOMAIN frames :
         /\ Unused(h, frames[i].node) /\ frames[i].node # top
         /\ frames[i].node \notin Range(own) /\ ~h[frames[i].node].sealed
    /\ \A i, j \in DOMAIN frames : frames[i].node = frames[j].node => i = j

NotOpen(frames, n) == \A i \in DOMAIN frames : frames[i].node # n

\* A name that is used up is the key of a member.
Arrives(g, frames, after) ==
    \A i \in DOMAIN frames \cap DOMAIN after :
      after[i].node = frames[i].node /\ frames[i].name # Null /\ after[i].name = Null
        => \E j \in DOMAIN g[frames[i].node].fields :
             g[frames[i].node].fields[j].key = frames[i].name

\* Nothing in the containers changes.
LEMMA OpenSame ==
  ASSUME NEW h, NEW g, SameNodes(h, g), SameFields(h, g), SameSeals(h, g),
         NEW frames, IsStack(h, frames), NEW top, NEW own
  PROVE  /\ OpenIn(h, frames, top, own) => OpenIn(g, frames, top, own)
         /\ Grounded(h) => Grounded(g)
<1>1. DOMAIN g = DOMAIN h
  BY DEF SameNodes
<1>2. \A i \in DOMAIN frames : frames[i].node \in DOMAIN h
  BY FrameIs DEF IsStack
<1>3. \A x : Unused(h, x) => Unused(g, x)
  BY <1>1 DEF Unused, SameFields
<1>4. OpenIn(h, frames, top, own) => OpenIn(g, frames, top, own)
  BY <1>2, <1>3 DEF OpenIn, SameSeals
<1>5. \A m \in DOMAIN h : \A i \in DOMAIN g[m].fields :
        \E j \in DOMAIN h[m].fields : g[m].fields[i].child = h[m].fields[j].child
  BY DEF SameFields
<1>6. Grounded(h) => Grounded(g)
  BY <1>1, <1>5, GroundedShrinks
<1>7. QED
  BY <1>4, <1>6

\* A freed node contains nothing.
LEMMA OpenFreed ==
  ASSUME NEW h, NEW g, SameNodes(h, g), FieldsFreed(h, g), SameSeals(h, g),
         NEW frames, IsStack(h, frames), NEW top, NEW own
  PROVE  /\ OpenIn(h, frames, top, own) => OpenIn(g, frames, top, own)
         /\ Grounded(h) => Grounded(g)
<1>1. DOMAIN g = DOMAIN h
  BY DEF SameNodes
<1>2. \A i \in DOMAIN frames : frames[i].node \in DOMAIN h
  BY FrameIs DEF IsStack
<1>3. \A m \in DOMAIN h : g[m].fields = h[m].fields \/ g[m].fields = <<>>
  BY DEF FieldsFreed
<1>4. \A x : Unused(h, x) => Unused(g, x)
  BY <1>1, <1>3 DEF Unused
<1>5. OpenIn(h, frames, top, own) => OpenIn(g, frames, top, own)
  BY <1>2, <1>4 DEF OpenIn, SameSeals
<1>6. \A m \in DOMAIN h : \A i \in DOMAIN g[m].fields :
        \E j \in DOMAIN h[m].fields : g[m].fields[i].child = h[m].fields[j].child
  BY <1>3
<1>7. Grounded(h) => Grounded(g)
  BY <1>1, <1>6, GroundedShrinks
<1>8. QED
  BY <1>5, <1>7

\* A node that is complete is stored in the container on top.
LEMMA OpenStored ==
  ASSUME NEW h, IsHeap(h), NEW frames, IsStack(h, frames), frames # <<>>,
         NEW n \in DOMAIN h, NotOpen(frames, n), NEW key \in Keys, NEW top, NEW own,
         OpenIn(h, frames, top, own), Grounded(h),
         NEW g, g = StoredAt(h, TopNode(frames), key, n)
  PROVE  OpenIn(g, frames, top, own) /\ Grounded(g)
<1> DEFINE p == TopNode(frames)
<1>1. p \in DOMAIN h /\ Len(frames) \in DOMAIN frames /\ p = frames[Len(frames)].node
  BY TopIs
<1>2. Unused(h, p) /\ p # n
  BY <1>1 DEF OpenIn, NotOpen
<1>3. /\ SameNodes(h, g) /\ SameSeals(h, g) /\ SameFieldsBut(h, g, p)
      /\ g[p].fields = Stored(h[p].fields, key, n)
  BY <1>1, NodeStoredIs
<1>4. DOMAIN g = DOMAIN h
  BY <1>3 DEF SameNodes
<1> HIDE DEF p
<1>5. \A i \in DOMAIN g[p].fields :
        \/ g[p].fields[i].child = n
        \/ \E j \in DOMAIN h[p].fields : g[p].fields[i].child = h[p].fields[j].child
  <2>1. h[p].fields \in Seq([key : Keys, child : DOMAIN h]) /\ OnceNamed(h[p].fields)
    BY <1>1, NodeFields
  <2>2. NothingElse(h[p].fields, key, n)
    BY <2>1, StoredIs
  <2>3. QED
    BY <1>3, <2>2 DEF NothingElse
<1>6. ASSUME NEW x, Unused(h, x), x # n
      PROVE  Unused(g, x)
  <2> SUFFICES ASSUME NEW m \in DOMAIN h, NEW i \in DOMAIN g[m].fields
               PROVE  g[m].fields[i].child # x
    BY <1>4 DEF Unused
  <2>1. CASE m = p
    BY <1>1, <1>5, <1>6, <2>1 DEF Unused
  <2>2. CASE m # p
    BY <1>3, <1>6, <2>2 DEF Unused, SameFieldsBut
  <2>3. QED
    BY <2>1, <2>2
<1>7. \A i \in DOMAIN frames : frames[i].node \in DOMAIN h
  BY FrameIs DEF IsStack
<1>8. OpenIn(g, frames, top, own)
  BY <1>3, <1>6, <1>7 DEF OpenIn, NotOpen, SameSeals
<1>9. Grounded(g)
  <2>1. AddsOnly(h, g, p, n)
    BY <1>3, <1>4, <1>5 DEF SameFieldsBut, AddsOnly
  <2>2. QED
    BY <1>2, <2>1, GroundedStays
<1>10. QED
  BY <1>8, <1>9

\* Frames of the same nodes.
LEMMA OpenFrames ==
  ASSUME NEW h, NEW frames, NEW after, DOMAIN after = DOMAIN frames,
         NodesOf(after) = NodesOf(frames), NEW top, NEW own, OpenIn(h, frames, top, own)
  PROVE  OpenIn(h, after, top, own)
<1>1. ASSUME NEW i \in DOMAIN frames
      PROVE  after[i].node = frames[i].node
  <2>1. NodesOf(after)[i] = after[i].node /\ NodesOf(frames)[i] = frames[i].node
    BY DEF NodesOf
  <2>2. QED
    BY <2>1
<1>2. QED
  BY <1>1 DEF OpenIn

\* add_value_to_context with a node that is complete.
LEMMA AddOpen ==
  ASSUME NEW h, IsHeap(h), NEW n \in DOMAIN h, NEW frames, IsStack(h, frames),
         NEW local, pending \in Names, AddToContext(h, n, frames, local),
         OpenIn(h, frames, root, owned), Grounded(h), NotOpen(frames, n)
  PROVE  /\ OpenIn(heap', stack', root', owned) /\ Grounded(heap')
         /\ Arrives(heap', frames, stack') /\ DOMAIN stack' = DOMAIN frames
<1> DEFINE g == WithMetadata(h, n)
           p == TopNode(frames)
           key == NameFor(g, frames)
           s == StoredAt(g, p, key, n)
<1>1. \/ BecomesRoot(g, n, frames, local) \/ IsIgnored(g, frames, local)
      \/ IsTaken(g, n, frames, local) \/ IsRefused(g, frames, local)
  BY AddCases
<1>2. /\ IsHeap(g) /\ SameNodes(h, g) /\ SameFields(h, g) /\ SameSeals(h, g)
  BY MetadataIs
<1> HIDE DEF g
<1>3. IsStack(g, frames) /\ DOMAIN g = DOMAIN h
  BY <1>2, SameStacks DEF SameNodes
<1>4. OpenIn(g, frames, root, owned) /\ Grounded(g)
  BY <1>2, OpenSame
<1>5. CASE BecomesRoot(g, n, frames, local)
  BY <1>4, <1>5 DEF BecomesRoot, OpenIn, Arrives
<1>6. CASE IsIgnored(g, frames, local)
  BY <1>4, <1>6 DEF IsIgnored, Arrives
<1>7. CASE IsRefused(g, frames, local)
  <2>1. Len(frames) \in DOMAIN frames /\ p = frames[Len(frames)].node /\ g[p].sealed
    BY <1>2, <1>3, <1>7, TopIs DEF IsRefused
  <2>2. QED
    BY <1>4, <2>1 DEF OpenIn
<1>8. CASE IsTaken(g, n, frames, local)
  <2>1. /\ heap' = s /\ stack' = Unnamed(frames) /\ root' = root /\ frames # <<>> /\ key # Null
    BY <1>8 DEF IsTaken
  <2>2. /\ p \in DOMAIN g /\ Len(frames) \in DOMAIN frames /\ p = frames[Len(frames)].node
        /\ Last(frames) = frames[Len(frames)]
        /\ NodesOf(Unnamed(frames)) = NodesOf(frames) /\ DOMAIN Unnamed(frames) = DOMAIN frames
    BY <1>2, <1>3, <2>1, TopIs
  <2>3. key \in Keys
    BY <1>2, <1>3, <2>1, NameIs
  <2>4. \A i \in DOMAIN frames : i # Len(frames) => Unnamed(frames)[i] = frames[i]
    BY DEF Unnamed
  <2>5. frames[Len(frames)].name # Null => key = frames[Len(frames)].name
    BY <1>3, <2>2 DEF IsStack, NameFor
  <2> HIDE DEF key
  <2>6. OpenIn(s, frames, root, owned) /\ Grounded(s)
    BY <1>2, <1>3, <1>4, <2>1, <2>3, OpenStored
  <2>7. s[p].fields = Stored(g[p].fields, key, n) /\ StoredThere(g[p].fields, key, n)
    <3>1. g[p].fields \in Seq([key : Keys, child : DOMAIN g]) /\ OnceNamed(g[p].fields)
      BY <1>2, <2>2, NodeFields
    <3>2. StoredThere(g[p].fields, key, n)
      BY <1>3, <2>3, <3>1, StoredIs
    <3>3. s[p].fields = Stored(g[p].fields, key, n)
      BY <1>2, <1>3, <2>2, <2>3, NodeStoredIs
    <3>4. QED
      BY <3>2, <3>3
  <2> HIDE DEF s, p
  <2>8. OpenIn(s, Unnamed(frames), root, owned)
    BY <2>2, <2>6, OpenFrames
  <2>9. \E j \in DOMAIN s[p].fields : s[p].fields[j].key = key
    BY <2>7 DEF StoredThere
  <2>10. Arrives(s, frames, Unnamed(frames))
    <3> SUFFICES ASSUME NEW i \in DOMAIN frames, frames[i].name # Null,
                        Unnamed(frames)[i].name = Null
                 PROVE  \E j \in DOMAIN s[frames[i].node].fields :
                          s[frames[i].node].fields[j].key = frames[i].name
      BY <2>2 DEF Arrives
    <3>1. i = Len(frames)
      BY <2>4
    <3>2. QED
      BY <2>2, <2>5, <2>9, <3>1
  <2>11. QED
    BY <2>1, <2>2, <2>6, <2>8, <2>10
<1>9. QED
  BY <1>1, <1>5, <1>6, <1>7, <1>8

\* Nothing contains the new node, and it contains nothing.
LEMMA OpenGrown ==
  ASSUME NEW h, IsHeap(h), NEW g, NEW kind, Grown(h, g, kind), NEW frames, IsStack(h, frames),
         NEW top \in DOMAIN h \cup {Null}, NEW own \in Seq(DOMAIN h),
         OpenIn(h, frames, top, own), Grounded(h), NEW n, n = Len(h) + 1
  PROVE  /\ OpenIn(g, frames, top, own) /\ Grounded(g) /\ NotOpen(frames, n)
         /\ Unused(g, n) /\ n # top /\ n \notin Range(own) /\ ~g[n].sealed
<1>1. /\ DOMAIN g = DOMAIN h \cup {n} /\ n \notin DOMAIN h
      /\ \A m \in DOMAIN h : g[m] = h[m]
      /\ g[n].fields = <<>> /\ ~g[n].sealed
  BY DEF Grown, NewNode
<1>2. \A i \in DOMAIN frames : frames[i].node \in DOMAIN h
  BY FrameIs DEF IsStack
<1>3. NotOpen(frames, n)
  BY <1>1, <1>2 DEF NotOpen
<1>4. \A m \in DOMAIN h : \A i \in DOMAIN h[m].fields : h[m].fields[i].child \in DOMAIN h
  BY ChildIs
<1>5. \A x : Unused(h, x) => Unused(g, x)
  BY <1>1 DEF Unused
<1>6. Unused(h, n)
  BY <1>1, <1>4 DEF Unused
<1>7. OpenIn(g, frames, top, own)
  BY <1>1, <1>2, <1>5 DEF OpenIn
<1>8. n # top
  <2>1. n # Null
    BY BuilderAssumption DEF IsHeap
  <2>2. QED
    BY <1>1, <2>1
<1>9. n \notin Range(own)
  BY <1>1 DEF Range
<1>10. Grounded(g)
  <2>1. AddsOnly(h, g, n, top)
    BY <1>1 DEF AddsOnly
  <2>2. QED
    BY <1>6, <1>8, <2>1, GroundedStays
<1>11. QED
  BY <1>1, <1>3, <1>5, <1>6, <1>7, <1>8, <1>9, <1>10

\* A container begins.
LEMMA OpenPushed ==
  ASSUME NEW h, NEW frames \in Seq(FrameSet(DOMAIN h)), NEW n, NEW top, NEW own,
         OpenIn(h, frames, top, own), NotOpen(frames, n), n \in DOMAIN h,
         Unused(h, n), n # top, n \notin Range(own), ~h[n].sealed,
         NEW new, new = Append(frames, [node |-> n, name |-> Null]), NEW g
  PROVE  OpenIn(h, new, top, own) /\ Arrives(g, frames, new)
<1> DEFINE frame == [node |-> n, name |-> Null]
           k == Len(frames)
<1>1. frame \in FrameSet(DOMAIN h) /\ frame.node = n
  BY DEF FrameSet
<1> HIDE DEF frame
<1>2. new = Append(frames, frame)
  BY DEF frame
<1>3. /\ k \in Nat /\ DOMAIN frames = 1..k /\ Len(new) = k + 1 /\ DOMAIN new = 1..Len(new)
      /\ \A i \in 1..k : new[i] = frames[i]
      /\ new[k + 1] = frame
  BY <1>1, <1>2, AppendProperties, LenProperties
<1> HIDE DEF k
<1>4. \A i \in DOMAIN new : i = k + 1 \/ i \in DOMAIN frames
  BY <1>3
<1>5. OpenIn(h, new, top, own)
  <2>1. ASSUME NEW i \in DOMAIN new
        PROVE  /\ Unused(h, new[i].node) /\ new[i].node # top
               /\ new[i].node \notin Range(own) /\ ~h[new[i].node].sealed
    <3>1. CASE i = k + 1
      BY <1>1, <1>3, <3>1
    <3>2. CASE i \in DOMAIN frames
      BY <1>3, <3>2 DEF OpenIn
    <3>3. QED
      BY <1>4, <3>1, <3>2
  <2>2. ASSUME NEW i \in DOMAIN new, NEW j \in DOMAIN new, new[i].node = new[j].node
        PROVE  i = j
    <3>1. CASE i \in DOMAIN frames /\ j \in DOMAIN frames
      BY <1>3, <2>2, <3>1 DEF OpenIn
    <3>2. CASE i = k + 1 /\ j = k + 1
      BY <3>2
    <3>3. CASE i = k + 1 /\ j \in DOMAIN frames
      BY <1>1, <1>3, <2>2, <3>3 DEF NotOpen
    <3>4. CASE i \in DOMAIN frames /\ j = k + 1
      BY <1>1, <1>3, <2>2, <3>4 DEF NotOpen
    <3>5. QED
      BY <1>4, <3>1, <3>2, <3>3, <3>4
  <2>3. QED
    BY <2>1, <2>2 DEF OpenIn
<1>6. Arrives(g, frames, new)
  BY <1>3 DEF Arrives
<1>7. QED
  BY <1>5, <1>6

\* A container ends: it is complete, and the others stay open.
LEMMA OpenPopped ==
  ASSUME NEW h, IsHeap(h), NEW frames, IsStack(h, frames), frames # <<>>, NEW top, NEW own,
         OpenIn(h, frames, top, own)
  PROVE  /\ OpenIn(h, Front(frames), top, own) /\ NotOpen(Front(frames), TopNode(frames))
         /\ DOMAIN Front(frames) \subseteq DOMAIN frames
         /\ \A i \in DOMAIN Front(frames) : Front(frames)[i] = frames[i]
<1> DEFINE front == Front(frames)
           k == Len(frames)
           n == TopNode(frames)
<1>1. /\ k \in Nat \ {0} /\ DOMAIN front = 1..(k - 1) /\ DOMAIN frames = 1..k
      /\ n = frames[k].node
  BY FramePopped
<1>2. frames \in Seq(FrameSet(DOMAIN h))
  BY DEF IsStack
<1>3. \A i \in 1..(k - 1) : front[i] = frames[i]
  BY <1>2, FrontIs
<1> HIDE DEF front, k, n
<1>4. \A i \in DOMAIN front : i \in DOMAIN frames /\ i # k /\ front[i] = frames[i]
  BY <1>1, <1>3
<1>5. k \in DOMAIN frames
  BY <1>1
<1>6. OpenIn(h, front, top, own) /\ NotOpen(front, n)
  BY <1>1, <1>4, <1>5 DEF OpenIn, NotOpen
<1>7. QED
  BY <1>4, <1>6 DEF front, n

\* What a complete container is sealed with is not open.
LEMMA OpenSealed ==
  ASSUME NEW h, IsHeap(h), NEW n \in DOMAIN h, NEW frames, IsStack(h, frames), NEW top, NEW own,
         OpenIn(h, frames, top, own), NotOpen(frames, n)
  PROVE  OpenIn(SealIn(h, n), frames, top, own)
<1> DEFINE g == SealIn(h, n)
           X == ReachIn(h, {n})
<1>1. /\ SameNodes(h, g) /\ SameFields(h, g) /\ SealsMore(h, g, X)
  BY SealedIs
<1>2. IsTree(h, Keys)
  BY NodeFields
<1>3. \A x : x # n /\ Unused(h, x) => x \notin X
  BY <1>2, SealedTree DEF Unused
<1> HIDE DEF g, X
<1>4. \A i \in DOMAIN frames : frames[i].node \in DOMAIN h
  BY FrameIs DEF IsStack
<1>5. \A x : Unused(h, x) => Unused(g, x)
  BY <1>1 DEF Unused, SameNodes, SameFields
<1>6. \A i \in DOMAIN frames : ~g[frames[i].node].sealed
  BY <1>1, <1>3, <1>4 DEF OpenIn, NotOpen, SealsMore
<1>7. QED
  BY <1>5, <1>6 DEF OpenIn, g

\* What is in the nodes stays.
LEMMA GroundedSame ==
  ASSUME NEW h, NEW g, SameNodes(h, g), SameFields(h, g), Grounded(h)
  PROVE  Grounded(g)
<1>1. DOMAIN g = DOMAIN h
  BY DEF SameNodes
<1>2. \A m \in DOMAIN h : \A i \in DOMAIN g[m].fields :
        \E j \in DOMAIN h[m].fields : g[m].fields[i].child = h[m].fields[j].child
  BY DEF SameFields
<1>3. QED
  BY <1>1, <1>2, GroundedShrinks

\* Open containers are nowhere else, and no node contains itself.
Whole == OpenIn(heap, stack, root, owned) /\ Grounded(heap)

\* While the client refers to complete containers only, every step keeps it so, and
\* what uses up a member name is in the mapping.
LEMMA StepWhole ==
  ASSUME ~AliasesOpen, Fits, Whole, [Next]_vars
  PROVE  Whole' /\ Arrives(heap', stack, stack')
<1>1. /\ IsHeap(heap) /\ IsStack(heap, stack) /\ IsTable(heap, anchors)
      /\ root \in DOMAIN heap \cup {Null} /\ owned \in Seq(DOMAIN heap)
      /\ releasing \in Seq(DOMAIN heap) /\ IsCall(heap, call) /\ pending \in Names
      /\ (call # Null => stack = <<>>)
  BY DEF Fits, IsState
<1>2. OpenIn(heap, stack, root, owned) /\ Grounded(heap)
  BY DEF Whole
<1>3. \A g : Arrives(g, stack, stack)
  BY DEF Arrives
<1>4. ASSUME Whole', stack' = stack
      PROVE  Whole' /\ Arrives(heap', stack, stack')
  BY <1>3, <1>4
<1>5. ASSUME stack = <<>>, stack' = <<>>, Grounded(heap')
      PROVE  Whole' /\ Arrives(heap', stack, stack')
  BY <1>5 DEF Whole, OpenIn, Arrives
<1>6. ASSUME NEW n \in DOMAIN heap, NEW local, AddToContext(heap, n, stack, local),
             NotOpen(stack, n), owned' = owned
      PROVE  Whole' /\ Arrives(heap', stack, stack')
  BY <1>1, <1>2, <1>6, AddOpen DEF Whole
<1>7. CASE UNCHANGED vars
  BY <1>2, <1>3, <1>7 DEF vars, Whole
<1>8. CASE FinishRoot
  <2> DEFINE g == Taken(heap, call.node)
  <2>1. call.node \in DOMAIN heap /\ heap' = g /\ stack = <<>> /\ stack' = <<>>
    BY <1>1, <1>8, LocalIs DEF FinishRoot, Taken
  <2>2. SameNodes(heap, g) /\ SameFields(heap, g)
    BY <1>1, <2>1, TakenIs
  <2> HIDE DEF g
  <2>3. Grounded(heap')
    BY <1>2, <2>1, <2>2, GroundedSame
  <2>4. QED
    BY <1>5, <2>1, <2>3
<1>9. CASE Release
  <2> DEFINE g == UnrefFirst(heap, releasing).heap
             rest == UnrefFirst(heap, releasing).nodes
  <2>1. releasing # <<>> /\ heap' = g /\ UNCHANGED <<stack, root, owned>>
    BY <1>9 DEF Release
  <2>2. SameNodes(heap, g) /\ SameSeals(heap, g) /\ FieldsFreed(heap, g)
    BY <1>1, <2>1, UnrefIs
  <2> HIDE DEF g
  <2>3. OpenIn(g, stack, root, owned) /\ Grounded(g)
    BY <1>1, <1>2, <2>2, OpenFreed
  <2>4. QED
    BY <1>3, <2>1, <2>3 DEF Whole
<1>10. CASE AddScalar
  <2> DEFINE n == Len(heap) + 1
             g == Append(heap, NewNode(Scalar))
             local == <<n>>
  <2>1. AddToContext(g, n, stack, local) /\ owned' = owned
    BY <1>10 DEF AddScalar
  <2>2. Scalar \in Kinds
    BY DEF Scalar, Kinds
  <2>3. IsHeap(g) /\ Grown(heap, g, Scalar)
    BY <1>1, <2>2, GrownIs
  <2>4. IsHeap(g) /\ n \in DOMAIN g /\ IsStack(g, stack)
    BY <1>1, <2>2, NewSteady
  <2> HIDE DEF g, local
  <2>5. OpenIn(g, stack, root, owned) /\ Grounded(g) /\ NotOpen(stack, n)
    BY <1>1, <1>2, <2>3, OpenGrown
  <2> HIDE DEF n
  <2>6. QED
    BY <1>1, <2>1, <2>4, <2>5, AddOpen DEF Whole
<1>11. ASSUME NEW kind \in Container \cup ContainerBelow, BeginContainer(kind)
       PROVE  Whole' /\ Arrives(heap', stack, stack')
  <2> DEFINE n == Len(heap) + 1
             g == Append(heap, NewNode(kind))
             w == WithMetadata(g, n)
             new == Append(stack, [node |-> n, name |-> Null])
  <2>1. heap' = w /\ stack' = new /\ UNCHANGED <<root, owned>>
    BY <1>11 DEF BeginContainer
  <2>2. kind \in Kinds
    BY BuilderAssumption DEF Kinds
  <2>3. IsHeap(g) /\ Grown(heap, g, kind)
    BY <1>1, <2>2, GrownIs
  <2>4. n \in DOMAIN g /\ IsStack(g, stack)
    BY <1>1, <2>2, NewSteady
  <2> HIDE DEF g
  <2>5. /\ OpenIn(g, stack, root, owned) /\ Grounded(g) /\ NotOpen(stack, n)
        /\ Unused(g, n) /\ n # root /\ n \notin Range(owned) /\ ~g[n].sealed
    BY <1>1, <1>2, <2>3, OpenGrown
  <2>6. SameNodes(g, w) /\ SameFields(g, w) /\ SameSeals(g, w)
    BY <1>1, <2>3, <2>4, MetadataIs
  <2> HIDE DEF w, n
  <2>7. stack \in Seq(FrameSet(DOMAIN g))
    BY <2>4 DEF IsStack
  <2>8. OpenIn(g, new, root, owned) /\ Arrives(heap', stack, new)
    BY <2>4, <2>5, <2>7, OpenPushed
  <2>9. OpenIn(w, new, root, owned) /\ Grounded(w)
    <3>1. IsStack(g, new)
      BY <2>4, StackPushed
    <3> HIDE DEF new
    <3>2. QED
      BY <2>5, <2>6, <2>8, <3>1, OpenSame
  <2>10. QED
    BY <2>1, <2>8, <2>9 DEF Whole
<1>12. ASSUME NEW kind, EndContainer(kind)
       PROVE  Whole' /\ Arrives(heap', stack, stack')
  <2> DEFINE n == TopNode(stack)
             g == IF immutable THEN SealIn(heap, n) ELSE heap
             front == Front(stack)
             local == <<n>>
  <2>1. AddToContext(g, n, front, local) /\ stack # <<>> /\ owned' = owned
    BY <1>12 DEF EndContainer, TopNode
  <2>2. n \in DOMAIN heap /\ IsStack(heap, front)
    BY <1>1, <2>1, FramePopped
  <2>3. /\ OpenIn(heap, front, root, owned) /\ NotOpen(front, n)
        /\ DOMAIN front \subseteq DOMAIN stack
        /\ \A i \in DOMAIN front : front[i] = stack[i]
    BY <1>1, <1>2, <2>1, OpenPopped
  <2> HIDE DEF n, front, local
  <2>4. /\ IsHeap(g) /\ SameNodes(heap, g) /\ SameFields(heap, g)
    BY <1>1, <2>2, SealIfSteady
  <2>5. OpenIn(g, front, root, owned)
    <3>1. CASE immutable
      <4>1. g = SealIn(heap, n)
        BY <3>1
      <4>2. OpenIn(SealIn(heap, n), front, root, owned)
        BY <1>1, <2>2, <2>3, OpenSealed
      <4>3. QED
        BY <4>1, <4>2
    <3>2. CASE ~immutable
      BY <2>3, <3>2
    <3>3. QED
      BY <3>1, <3>2
  <2> HIDE DEF g
  <2>6. Grounded(g)
    BY <1>2, <2>4, GroundedSame
  <2>7. n \in DOMAIN g /\ IsStack(g, front)
    BY <2>2, <2>4, SameStacks DEF SameNodes
  <2>8. /\ OpenIn(heap', stack', root', owned) /\ Grounded(heap')
        /\ Arrives(heap', front, stack') /\ DOMAIN stack' = DOMAIN front
    BY <1>1, <2>1, <2>3, <2>4, <2>5, <2>6, <2>7, AddOpen
  <2>9. Arrives(heap', stack, stack')
    BY <2>3, <2>8 DEF Arrives
  <2>10. QED
    BY <2>1, <2>8, <2>9 DEF Whole
<1>13. ASSUME NEW key \in Key, SetMemberName(key)
       PROVE  Whole' /\ Arrives(heap', stack, stack')
  <2> DEFINE k == Len(stack)
  <2>1. /\ stack' = [stack EXCEPT ![k].name = key] /\ heap' = heap /\ root' = root
        /\ owned' = owned /\ stack # <<>>
    BY <1>13 DEF SetMemberName
  <2>2. key # Null
    BY BuilderAssumption
  <2>3. \A i \in DOMAIN stack : stack[i] \in FrameSet(DOMAIN heap)
    BY <1>1, FrameIs DEF IsStack
  <2>4. DOMAIN stack' = DOMAIN stack
    BY <2>1
  <2>5. ASSUME NEW i \in DOMAIN stack
        PROVE  stack'[i].node = stack[i].node /\ (stack'[i].name = Null => stack'[i] = stack[i])
    <3>1. CASE i = k
      <4>1. stack'[i] = [stack[i] EXCEPT !.name = key]
        BY <2>1, <3>1
      <4>2. stack[i] = [node |-> stack[i].node, name |-> stack[i].name]
        BY <2>3 DEF FrameSet
      <4>3. stack'[i] = [node |-> stack[i].node, name |-> key]
        BY <4>1, <4>2
      <4>4. QED
        BY <2>2, <4>3
    <3>2. CASE i # k
      BY <2>1, <3>2
    <3>3. QED
      BY <3>1, <3>2
  <2>6. OpenIn(heap, stack', root, owned)
    BY <1>2, <2>4, <2>5 DEF OpenIn
  <2>7. Arrives(heap', stack, stack')
    BY <2>5 DEF Arrives
  <2>8. QED
    BY <1>2, <2>1, <2>6, <2>7 DEF Whole
<1>14. ASSUME NEW n, AddValue(n)
       PROVE  Whole' /\ Arrives(heap', stack, stack')
  <2> DEFINE local == <<>>
  <2>1. AddToContext(heap, n, stack, local) /\ n \in Range(owned) /\ owned' = owned
    BY <1>14 DEF AddValue
  <2>2. n \in DOMAIN heap /\ NotOpen(stack, n)
    BY <1>1, <1>2, <2>1 DEF Range, OpenIn, NotOpen
  <2> HIDE DEF local
  <2>3. QED
    BY <1>6, <2>1, <2>2
<1>15. ASSUME NEW a \in Anchor, AddAlias(a)
       PROVE  Whole' /\ Arrives(heap', stack, stack')
  <2> DEFINE local == <<>>
             n == anchors[a]
  <2>1. AddToContext(heap, n, stack, local) /\ n # Null /\ n \notin OpenNodes /\ owned' = owned
    BY <1>15 DEF AddAlias
  <2>2. n \in DOMAIN heap /\ NotOpen(stack, n)
    BY <1>1, <2>1 DEF IsTable, OpenNodes, NotOpen
  <2> HIDE DEF local, n
  <2>3. QED
    BY <1>6, <2>1, <2>2
<1>16. CASE DupRoot
  <2> DEFINE g == Taken(heap, root)
  <2>1. root \in DOMAIN heap /\ heap' = g /\ stack = <<>> /\ stack' = <<>>
    BY <1>1, <1>16 DEF DupRoot, Taken
  <2>2. SameNodes(heap, g) /\ SameFields(heap, g)
    BY <1>1, <2>1, TakenIs
  <2> HIDE DEF g
  <2>3. Grounded(heap')
    BY <1>2, <2>1, <2>2, GroundedSame
  <2>4. QED
    BY <1>5, <2>1, <2>3
<1>17. CASE GetDocument
  <2> DEFINE g == IF immutable THEN SealIn(heap, root) ELSE heap
             k == Taken(g, root)
  <2>1. root \in DOMAIN heap /\ heap' = k /\ stack = <<>> /\ stack' = <<>>
    BY <1>1, <1>17 DEF GetDocument, Taken
  <2>2. IsHeap(g) /\ SameNodes(heap, g) /\ SameFields(heap, g)
    BY <1>1, <2>1, SealIfSteady
  <2> HIDE DEF g
  <2>3. root \in DOMAIN g /\ Grounded(g)
    BY <1>2, <2>1, <2>2, GroundedSame DEF SameNodes
  <2>4. SameNodes(g, k) /\ SameFields(g, k)
    BY <2>2, <2>3, TakenIs
  <2> HIDE DEF k
  <2>5. Grounded(heap')
    BY <2>1, <2>3, <2>4, GroundedSame
  <2>6. QED
    BY <1>5, <2>1, <2>5
<1>18. CASE StealRoot
  <2>1. stack = <<>> /\ stack' = <<>> /\ heap' = heap
    BY <1>18 DEF StealRoot
  <2>2. QED
    BY <1>2, <1>5, <2>1
<1>19. CASE Reset
  <2>1. stack' = <<>> /\ heap' = heap
    BY <1>19 DEF Reset
  <2>2. QED
    BY <1>2, <2>1 DEF Whole, OpenIn, Arrives
<1>20. ASSUME \/ \E a \in Anchor : SetAnchor(a)
              \/ \E b \in Immutables : SetImmutable(b)
       PROVE  Whole' /\ Arrives(heap', stack, stack')
  <2>1. UNCHANGED <<heap, stack, root, owned>>
    BY <1>20 DEF SetAnchor, SetImmutable
  <2>2. QED
    BY <1>2, <1>3, <2>1 DEF Whole
<1>21. ASSUME NEW i \in DOMAIN owned, ClientUnref(i)
       PROVE  Whole' /\ Arrives(heap', stack, stack')
  <2> DEFINE own == RemoveAt(owned, i)
             S == Range(owned)
  <2>1. UNCHANGED <<heap, stack, root>> /\ owned' = own
    BY <1>21 DEF ClientUnref
  <2>2. owned \in Seq(S) /\ i \in 1..Len(owned)
    <3>1. DOMAIN owned = 1..Len(owned) /\ Len(owned) \in Nat
      BY <1>1, LenProperties
    <3>2. \A j \in 1..Len(owned) : owned[j] \in S
      BY <3>1 DEF Range
    <3>3. owned = [j \in 1..Len(owned) |-> owned[j]]
      BY <1>1
    <3>4. QED
      BY <3>1, <3>2, <3>3
  <2> HIDE DEF S
  <2>3. own \in Seq(S)
    BY <2>2, PlacesOfRest
  <2> HIDE DEF own
  <2>4. Range(own) \subseteq S
    BY <2>3 DEF Range
  <2>5. OpenIn(heap, stack, root, own)
    BY <1>2, <2>4 DEF OpenIn, S
  <2>6. QED
    BY <1>2, <1>3, <2>1, <2>5 DEF Whole
<1>22. QED
  BY <1>7, <1>8, <1>9, <1>10, <1>11, <1>12, <1>13, <1>14, <1>15, <1>16, <1>17, <1>18, <1>19,
     <1>20, <1>21 DEF Next

\* The builder starts with nothing open.
LEMMA InitWhole == Init => Whole
<1> SUFFICES ASSUME Init PROVE Whole
  OBVIOUS
<1>1. stack = <<>> /\ DOMAIN heap = {}
  BY DEF Init
<1>2. QED
  BY <1>1 DEF Whole, OpenIn, Grounded

\* A container can be seen by others only when it is complete: an open one is not
\* the root, not a member or element of anything and not in the hands of the
\* client, while aliases of open containers are not used.
THEOREM OpenIsUnseen == ~AliasesOpen /\ Spec => []HalfBuiltUnseen
<1>1. Init => Fits /\ Counted /\ Whole
  BY InitFits, InitWhole
<1>2. ~AliasesOpen /\ Fits /\ Counted /\ Whole /\ [Next]_vars => Fits' /\ Counted' /\ Whole'
  BY StepFits, StepWhole
<1>3. Fits /\ Whole => HalfBuiltUnseen
  <2> SUFFICES ASSUME Fits, Whole PROVE HalfBuiltUnseen
    OBVIOUS
  <2>1. IsTree(heap, Keys)
    BY NodeFields DEF Fits, IsState
  <2>2. \A x : Unused(heap, x) => Uses(heap, x) = 0
    BY <2>1, UnusedIs DEF Unused
  <2>3. QED
    BY <2>2 DEF Whole, OpenIn, HalfBuiltUnseen
<1>4. ASSUME ~AliasesOpen
      PROVE  Spec => []HalfBuiltUnseen
  <2>1. Fits /\ Counted /\ Whole /\ [Next]_vars => Fits' /\ Counted' /\ Whole'
    BY <1>2, <1>4
  <2>2. QED
    BY <1>1, <1>3, <2>1, PTL DEF Spec
<1>5. QED
  BY <1>4

\* "All key-value pairs added after this call will be part of the mapping"
\* (yaml-builder.h:101): a value that uses up a member name is in the mapping then.
THEOREM NamesReachValues == ~AliasesOpen /\ Spec => NamedValuesArrive
<1> DEFINE Arrived == \A i \in DOMAIN stack \cap DOMAIN stack' :
                        stack'[i].node = stack[i].node /\ stack[i].name # Null
                          /\ stack'[i].name = Null
                          => \E j \in DOMAIN heap'[stack[i].node].fields :
                               heap'[stack[i].node].fields[j].key = stack[i].name
<1>1. Init => Fits /\ Counted /\ Whole
  BY InitFits, InitWhole
<1>2. ~AliasesOpen /\ Fits /\ Counted /\ Whole /\ [Next]_vars => Fits' /\ Counted' /\ Whole'
  BY StepFits, StepWhole
<1>3. ~AliasesOpen /\ Fits /\ Whole /\ [Next]_vars => Arrived
  BY StepWhole DEF Arrives
<1>4. ~AliasesOpen /\ Fits /\ Whole /\ [Next]_vars => [Arrived]_vars
  BY <1>3
<1> HIDE DEF Arrived
<1>5. ASSUME ~AliasesOpen
      PROVE  Spec => [][Arrived]_vars
  <2>1. Fits /\ Counted /\ Whole /\ [Next]_vars => Fits' /\ Counted' /\ Whole'
    BY <1>2, <1>5
  <2>2. Fits /\ Whole /\ [Next]_vars => [Arrived]_vars
    BY <1>4, <1>5
  <2>3. QED
    BY <1>1, <2>1, <2>2, PTL DEF Spec
<1>6. QED
  BY <1>5 DEF NamedValuesArrive, Arrived

\* "This creates shared structure in the built tree" (yaml-builder.c:661-664): what
\* is built is a tree that may share nodes, and no node contains itself.
THEOREM NoNodeContainsItself == ~AliasesOpen /\ Spec => []Acyclic
<1>1. Init => Fits /\ Counted /\ Whole
  BY InitFits, InitWhole
<1>2. ~AliasesOpen /\ Fits /\ Counted /\ Whole /\ [Next]_vars => Fits' /\ Counted' /\ Whole'
  BY StepFits, StepWhole
<1>3. Fits /\ Whole => Acyclic
  <2> SUFFICES ASSUME Fits, Whole PROVE AcyclicIn(heap)
    BY DEF Acyclic
  <2>1. IsTree(heap, Keys)
    BY NodeFields DEF Fits, IsState
  <2>2. QED
    BY <2>1, GroundedIsAcyclic DEF Whole
<1>4. ASSUME ~AliasesOpen
      PROVE  Spec => []Acyclic
  <2>1. Fits /\ Counted /\ Whole /\ [Next]_vars => Fits' /\ Counted' /\ Whole'
    BY <1>2, <1>4
  <2>2. QED
    BY <1>1, <1>3, <2>1, PTL DEF Spec
<1>5. QED
  BY <1>4

=============================================================================
