----------------------------- MODULE YamlTree ------------------------------
(***************************************************************************)
(* Trees of YamlNodes as one thread sees them.  A node and the mapping or  *)
(* sequence it alone holds are one object here: a record with at least the *)
(* fields `fields', a sequence of [key, child], `refs' and `sealed'.  A    *)
(* heap is a sequence of such records; a node without references is freed. *)
(* YamlHeap has the details: separate objects, threads, destructors.       *)
(*                                                                         *)
(* A definition named Operation_Fault is Operation with a plausible        *)
(* mistake in its code.                                                    *)
(***************************************************************************)
EXTENDS SequencesExt, Reachability

CONSTANT Element   \* the "key" of every element of a sequence

\* yaml_sequence_add_element, or yaml_mapping_set_member, which keeps the place
\* of a key it knows.
Stored(fields, key, n) ==
    IF key # Element /\ \E i \in DOMAIN fields : fields[i].key = key
      THEN [i \in DOMAIN fields |->
              IF fields[i].key = key THEN [key |-> key, child |-> n] ELSE fields[i]]
      ELSE Append(fields, [key |-> key, child |-> n])

\* The member that was there keeps its reference.
Replaced_None(fields, key) == <<>>

\* The member that set_member drops: a mapping has one of a name at most.
Replaced(fields, key) ==
    LET same == {i \in DOMAIN fields : key # Element /\ fields[i].key = key}
    IN  IF same = {} THEN <<>> ELSE <<fields[CHOOSE i \in same : TRUE].child>>

ChildrenIn(h, n) == [i \in DOMAIN h[n].fields |-> h[n].fields[i].child]

\* The nodes in each of the nodes.
ChildSets(h) == [n \in DOMAIN h |-> Range(ChildrenIn(h, n))]

\* The nodes of S and everything below them.
ReachIn(h, S) == Reach(ChildSets(h), S)

Places(sequence, n) == Cardinality({i \in DOMAIN sequence : sequence[i] = n})

\* How often the node is a member or an element.
Uses(h, n) ==
    Cardinality(UNION {{<<m, i>> : i \in {j \in DOMAIN h[m].fields : h[m].fields[j].child = n}}
                         : m \in DOMAIN h})

\* Only the node is sealed, not what is below it.
SealIn_Shallow(h, n) == [h EXCEPT ![n].sealed = TRUE]

\* yaml_node_seal.
SealIn(h, n) ==
    LET tree == ReachIn(h, {n}) IN [m \in DOMAIN h |-> [h[m] EXCEPT !.sealed = @ \/ m \in tree]]

\* yaml_node_unref on the first of some nodes: the last reference frees the node
\* and what it contains comes next.
UnrefFirst(h, nodes) ==
    LET n == Head(nodes) IN
    IF h[n].refs = 1
      THEN [heap  |-> [h EXCEPT ![n].refs = 0, ![n].fields = <<>>],
            nodes |-> ChildrenIn(h, n) \o Tail(nodes)]
      ELSE [heap  |-> [h EXCEPT ![n].refs = @ - 1],
            nodes |-> Tail(nodes)]

\* No node contains itself.
AcyclicIn(h) == OnCycleOf(ChildSets(h)) = {}

=============================================================================
