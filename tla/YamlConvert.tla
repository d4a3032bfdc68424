---------------------------- MODULE YamlConvert ----------------------------
(***************************************************************************)
(* yaml_parser_parse_internal and convert_yaml_node (yaml-parser.c): the   *)
(* documents libyaml composes from one source are turned into trees of     *)
(* YamlNodes.                                                              *)
(*                                                                         *)
(* In libyaml an alias is the very node it refers to, so a document is a   *)
(* graph and may have cycles, and the addresses of one document are used   *)
(* again for the next.  The conversion keeps a table, `anchors', from the  *)
(* libyaml nodes of the document to their YamlNodes, which owns references *)
(* of its own.  The recursion is a stack of frames here, one step for one  *)
(* child.  What a scalar says, tags and comments play no part.             *)
(*                                                                         *)
(* A definition named Operation_Fault is Operation with a plausible        *)
(* mistake in its code.                                                    *)
(***************************************************************************)
EXTENDS YamlTree

CONSTANTS
    YNode,         \* the addresses libyaml gives to the nodes of a document
    Key,           \* the text of scalar keys
    Complex,       \* stands for any key that is not a scalar
    Root,          \* the root of every document
    MaxDocuments,  \* bound: documents in one source
    MaxElements,   \* bound: elements of a sequence
    MaxPairs,      \* bound: pairs of the root
    MaxPairsBelow, \* bound: pairs of a mapping below the root
    Immutable,     \* the immutable property of the parser
    Null, InProgress

ASSUME ConvertAssumption ==
    /\ {MaxDocuments, MaxElements, MaxPairs, MaxPairsBelow} \subseteq Nat
    /\ IsFiniteSet(YNode)
    /\ Root \in YNode
    /\ Immutable \in BOOLEAN
    /\ {Null, InProgress} \cap Nat = {} /\ Null # InProgress
    /\ Element \notin Key \cup {Complex} /\ Complex \notin Key

VARIABLES
    broken,     \* whether the source has an error
    phase,      \* "loading", "converting", "destroying" or "ended"
    success,    \* the result of yaml_parser_parse_internal
    doc,        \* the libyaml document at hand
    anchors,    \* the table: Null, InProgress or a YamlNode
    stack,      \* the frames of convert_yaml_node
    heap,       \* the YamlNodes allocated so far; one without references is freed
    documents,  \* the roots of the documents of the parser
    releasing   \* references that are still to be dropped

vars == <<broken, phase, success, doc, anchors, stack, heap, documents, releasing>>

YamlNode == DOMAIN heap

-----------------------------------------------------------------------------
(* The documents libyaml may compose: graphs of scalars (nodes without     *)
(* fields), sequences and mappings.                                        *)

SequenceFields     == SeqOf({[key |-> Element, child |-> y] : y \in YNode}, MaxElements)
MappingFields(max) == SeqOf({[key |-> k, child |-> y] : k \in Key \cup {Complex}, y \in YNode}, max)

YChildren(fields) == [y \in YNode |-> {fields[y][i].child : i \in DOMAIN fields[y]}]

\* The node and everything below it.
ReachedFrom(fields, y) == Reach(YChildren(fields), {y})

Graphs ==
    {[y \in YNode |-> IF y = Root THEN fields ELSE below[y]] :
       fields \in SequenceFields \cup MappingFields(MaxPairs),
       below \in [YNode \ {Root} -> SequenceFields \cup MappingFields(MaxPairsBelow)]}

\* The nodes the root does not reach are empty.
Document ==
    {[root |-> Root, fields |-> f] :
       f \in {g \in Graphs : \A y \in YNode \ ReachedFrom(g, Root) : g[y] = <<>>}}

-----------------------------------------------------------------------------
Top       == Last(stack)
Done      == Top.next > Len(doc.fields[Top.ynode])
TopField  == doc.fields[Top.ynode][Top.next]
NextField(frames) == [frames EXCEPT ![Len(frames)].next = @ + 1]

MemoNodes == SetToSeq({anchors[y] : y \in YNode} \ {Null, InProgress})

Fresh(y) == [fields |-> <<>>, refs |-> 1, sealed |-> FALSE,
             document |-> Len(documents) + 1, ynode |-> y]

Init ==
    /\ broken \in BOOLEAN /\ phase = "loading" /\ success = TRUE
    /\ doc \in {[root |-> y, fields |-> [z \in YNode |-> <<>>]] : y \in YNode}
    /\ anchors = [y \in YNode |-> Null]
    /\ stack = <<>> /\ heap = <<>> /\ documents = <<>> /\ releasing = <<>>

-----------------------------------------------------------------------------
(* The loop over the documents. *)

\* The table is not emptied.
BeginDocument_KeepsTable ==
    /\ phase = "loading" /\ Len(documents) < MaxDocuments
    /\ phase' = "converting"
    /\ doc' \in Document
    /\ UNCHANGED <<broken, success, anchors, stack, heap, documents, releasing>>

\* yaml_parser_load composed a document, and the table is emptied.
BeginDocument ==
    /\ phase = "loading" /\ Len(documents) < MaxDocuments
    /\ phase' = "converting"
    /\ doc' \in Document
    /\ anchors' = [y \in YNode |-> Null]
    /\ releasing' = MemoNodes
    /\ UNCHANGED <<broken, success, stack, heap, documents>>

\* convert_yaml_node is called on the root, which the empty table does not know.
ConvertRoot ==
    /\ phase = "converting" /\ stack = <<>> /\ releasing = <<>>
    /\ heap' = Append(heap, Fresh(doc.root))
    /\ anchors' = [anchors EXCEPT ![doc.root] = InProgress]
    /\ stack' = <<[ynode |-> doc.root, node |-> Len(heap) + 1, next |-> 1]>>
    /\ UNCHANGED <<broken, phase, success, doc, documents, releasing>>

\* The root is converted: the table and the document take a reference each, the
\* local one is dropped.  An immutable parser seals the tree.
FinishDocument ==
    /\ Len(stack) = 1 /\ releasing = <<>> /\ Done
    /\ LET n == Top.node IN
       /\ heap' = [(IF Immutable THEN SealIn(heap, n) ELSE heap) EXCEPT ![n].refs = @ + 1]
       /\ anchors' = [anchors EXCEPT ![Top.ynode] = n]
       /\ documents' = Append(documents, n)
    /\ stack' = <<>>
    /\ phase' = "loading"
    /\ UNCHANGED <<broken, success, doc, releasing>>

\* The document without a root that ends the source is not told from the others.
EndOfStream_NoBreak ==
    /\ phase = "loading" /\ ~broken
    /\ UNCHANGED vars

\* The source has no more documents: the loop is left, the table destroyed.
EndOfStream ==
    /\ phase = "loading" /\ ~broken
    /\ phase' = "destroying"
    /\ anchors' = [y \in YNode |-> Null]
    /\ releasing' = MemoNodes
    /\ UNCHANGED <<broken, success, doc, stack, heap, documents>>

\* yaml_parser_load reports an error: the documents before it stay.
ParseError ==
    /\ phase = "loading" /\ broken
    /\ phase' = "destroying"
    /\ success' = FALSE
    /\ anchors' = [y \in YNode |-> Null]
    /\ releasing' = MemoNodes
    /\ UNCHANGED <<broken, doc, stack, heap, documents>>

ParseEnd ==
    /\ phase = "destroying" /\ releasing = <<>>
    /\ phase' = "ended"
    /\ UNCHANGED <<broken, success, doc, anchors, stack, heap, documents, releasing>>

-----------------------------------------------------------------------------
(* convert_yaml_node below the root. *)

AtField(y) ==
    /\ stack # <<>> /\ releasing = <<>> /\ ~Done
    /\ TopField.key # Complex /\ TopField.child = y

\* A pair whose key is not a scalar is left out.
SkipPair ==
    /\ stack # <<>> /\ releasing = <<>> /\ ~Done /\ TopField.key = Complex
    /\ stack' = NextField(stack)
    /\ UNCHANGED <<broken, phase, success, doc, anchors, heap, documents, releasing>>

\* The child is being built further up: a cycle, and the field is left out.
RefuseCycle(y) ==
    /\ AtField(y) /\ anchors[y] = InProgress
    /\ stack' = NextField(stack)
    /\ UNCHANGED <<broken, phase, success, doc, anchors, heap, documents, releasing>>

\* The node found in the table is stored without a reference.
Share_Unreferenced(y) ==
    /\ AtField(y) /\ anchors[y] \in YamlNode
    /\ heap' = [heap EXCEPT ![Top.node].fields = Stored(@, TopField.key, anchors[y])]
    /\ releasing' = Replaced(heap[Top.node].fields, TopField.key)
    /\ stack' = NextField(stack)
    /\ UNCHANGED <<broken, phase, success, doc, anchors, documents>>

\* The field ends the sequence or mapping it is in.
Share_StoresLast(y) ==
    /\ AtField(y) /\ anchors[y] \in YamlNode
    /\ heap' = [heap EXCEPT ![Top.node].fields = <<[key |-> TopField.key, child |-> anchors[y]]>>,
                            ![anchors[y]].refs = @ + 1]
    /\ releasing' = ChildrenIn(heap, Top.node)
    /\ stack' = NextField(stack)
    /\ UNCHANGED <<broken, phase, success, doc, anchors, documents>>

\* The child was converted before: it is shared.
Share(y) ==
    /\ AtField(y) /\ anchors[y] \in YamlNode
    /\ heap' = [heap EXCEPT ![Top.node].fields = Stored(@, TopField.key, anchors[y]),
                            ![anchors[y]].refs = @ + 1]
    /\ releasing' = Replaced(heap[Top.node].fields, TopField.key)
    /\ stack' = NextField(stack)
    /\ UNCHANGED <<broken, phase, success, doc, anchors, documents>>

\* The child is new: its conversion starts.
Descend(y) ==
    /\ AtField(y) /\ anchors[y] = Null
    /\ heap' = Append(heap, Fresh(y))
    /\ anchors' = [anchors EXCEPT ![y] = InProgress]
    /\ stack' = Append(stack, [ynode |-> y, node |-> Len(heap) + 1, next |-> 1])
    /\ UNCHANGED <<broken, phase, success, doc, documents, releasing>>

\* The node is not entered in the table.
Return_Forgets ==
    /\ Len(stack) > 1 /\ releasing = <<>> /\ Done
    /\ LET caller == stack[Len(stack) - 1]
           key    == doc.fields[caller.ynode][caller.next].key IN
       /\ heap' = [heap EXCEPT ![caller.node].fields = Stored(@, key, Top.node)]
       /\ releasing' = Replaced(heap[caller.node].fields, key)
    /\ anchors' = [anchors EXCEPT ![Top.ynode] = Null]
    /\ stack' = NextField(Front(stack))
    /\ UNCHANGED <<broken, phase, success, doc, documents>>

\* The table does not take a reference.
Return_Unreferenced ==
    /\ Len(stack) > 1 /\ releasing = <<>> /\ Done
    /\ LET caller == stack[Len(stack) - 1]
           key    == doc.fields[caller.ynode][caller.next].key IN
       /\ heap' = [heap EXCEPT ![caller.node].fields = Stored(@, key, Top.node)]
       /\ releasing' = Replaced(heap[caller.node].fields, key)
    /\ anchors' = [anchors EXCEPT ![Top.ynode] = Top.node]
    /\ stack' = NextField(Front(stack))
    /\ UNCHANGED <<broken, phase, success, doc, documents>>

\* The local reference is not dropped.
Return_KeepsLocal ==
    /\ Len(stack) > 1 /\ releasing = <<>> /\ Done
    /\ LET caller == stack[Len(stack) - 1]
           key    == doc.fields[caller.ynode][caller.next].key IN
       /\ heap' = [heap EXCEPT ![caller.node].fields = Stored(@, key, Top.node),
                               ![Top.node].refs = @ + 2]
       /\ releasing' = Replaced(heap[caller.node].fields, key)
    /\ anchors' = [anchors EXCEPT ![Top.ynode] = Top.node]
    /\ stack' = NextField(Front(stack))
    /\ UNCHANGED <<broken, phase, success, doc, documents>>

\* A child is converted: the table and the caller's node take a reference each,
\* the local one is dropped.
Return ==
    /\ Len(stack) > 1 /\ releasing = <<>> /\ Done
    /\ LET caller == stack[Len(stack) - 1]
           key    == doc.fields[caller.ynode][caller.next].key IN
       /\ heap' = [heap EXCEPT ![caller.node].fields = Stored(@, key, Top.node),
                               ![Top.node].refs = @ + 1]
       /\ releasing' = Replaced(heap[caller.node].fields, key)
    /\ anchors' = [anchors EXCEPT ![Top.ynode] = Top.node]
    /\ stack' = NextField(Front(stack))
    /\ UNCHANGED <<broken, phase, success, doc, documents>>

\* yaml_node_unref, from the table or from set_member; the last one frees the
\* node and goes on to what it contains.
Release ==
    /\ releasing # <<>>
    /\ LET after == UnrefFirst(heap, releasing) IN
       /\ heap' = after.heap /\ releasing' = after.nodes
    /\ UNCHANGED <<broken, phase, success, doc, anchors, stack, documents>>

-----------------------------------------------------------------------------
Next ==
    \/ BeginDocument \/ ConvertRoot \/ FinishDocument \/ EndOfStream \/ ParseError \/ ParseEnd
    \/ SkipPair \/ Return \/ Release
    \/ \E y \in YNode : RefuseCycle(y) \/ Share(y) \/ Descend(y)

\* The call runs on: nothing in it waits.
Spec == Init /\ [][Next]_vars /\ WF_vars(Next)

-----------------------------------------------------------------------------
(* What the conversion promises. *)

References(n) ==
    Uses(heap, n) + Cardinality({y \in YNode : anchors[y] = n})
      + Cardinality({i \in DOMAIN stack : stack[i].node = n})
      + Places(documents, n) + Places(releasing, n)

\* Every reference the conversion takes - for the caller, for the table, for the
\* container - is dropped exactly once, whatever is shared, refused or replaced
\* (yaml-parser.c:310-539).
RefsExact == \A n \in YamlNode : heap[n].refs = References(n)

\* "an anchor referenced nine deep by nine aliases was 9^9 conversions"
\* (yaml-parser.c:531-533): within a document each libyaml node is converted at
\* most once.
ConvertedOnce ==
    \A m, n \in YamlNode :
      heap[m].document = heap[n].document /\ heap[m].ynode = heap[n].ynode => m = n

\* "Carried across, document two's root was answered with document one's tree"
\* (yaml-parser.c:653-654): a document contains nodes of its own only.
OwnNodes ==
    \A i \in DOMAIN documents :
      \A n \in ReachIn(heap, {documents[i]}) : heap[n].document = i

\* Of some places of a libyaml node, those with the key of place i - an element has
\* none -, and those with a key that is not at an earlier one.
SameKey(yfields, places, i) ==
    {j \in places : j = i \/ (yfields[i].key # Element /\ yfields[j].key = yfields[i].key)}
FirstPlaces(yfields, places) ==
    {i \in places : \A j \in SameKey(yfields, places, i) : i <= j}

\* The fields of a node are those its libyaml node has at these places: the elements
\* in order, the keys in the order they first appear, each with its last value.  The
\* p-th one appears first at at[p].
Built(fields, yfields, places, table) ==
    \E at \in [DOMAIN fields -> FirstPlaces(yfields, places)] :
      /\ \A i \in FirstPlaces(yfields, places) : \E p \in DOMAIN fields : at[p] = i
      /\ \A p, q \in DOMAIN fields : p < q => at[p] < at[q]
      /\ \A p \in DOMAIN fields : \E last \in SameKey(yfields, places, at[p]) :
           /\ \A j \in SameKey(yfields, places, at[p]) : j <= last
           /\ fields[p] = [key |-> yfields[last].key, child |-> table[yfields[last].child]]

\* The fields of y before the place `next', without pairs that have a complex key or
\* through which y contains itself.
Rendered(fields, d, table, y, next) ==
    \E places \in SUBSET (1..(next - 1)) :
      /\ \A i \in 1..(next - 1) :
           IF i \in places
             THEN d.fields[y][i].key # Complex
             ELSE \/ d.fields[y][i].key = Complex
                  \/ y \in ReachedFrom(d.fields, d.fields[y][i].child)
      /\ Built(fields, d.fields[y], places, table)

\* Nothing else is lost: a converted node has every field of its libyaml node,
\* in order, except fields through which the libyaml node contains itself.
Faithful ==
    \A y \in YNode : anchors[y] \in YamlNode =>
      Rendered(heap[anchors[y]].fields, doc, anchors, y, Len(doc.fields[y]) + 1)

\* After the parse only what the documents contain is left, and all of it,
\* sealed if the parser is immutable.  No node contains itself, which "would make
\* the tree unfreeable" (yaml-parser.c:353-357): the program can free the rest.
NothingElseLeft ==
    phase = "ended" =>
      LET kept == ReachIn(heap, Range(documents)) IN
      /\ AcyclicIn(heap)
      /\ \A n \in YamlNode : /\ heap[n].refs > 0 <=> n \in kept
                             /\ n \in kept => heap[n].sealed = Immutable

\* A document is not touched any more once the parser has announced it, however
\* the rest of the source is parsed.
AnnouncedStays ==
    [][\A n \in ReachIn(heap, Range(documents)) :
         /\ heap'[n].fields = heap[n].fields /\ heap'[n].refs > 0
         /\ heap'[n].sealed = heap[n].sealed]_vars

\* The parse comes to an end, on cyclic documents and after errors too.
ParseEnds == <>(phase = "ended")

=============================================================================
