---------------------------- MODULE YamlBuilder ----------------------------
(***************************************************************************)
(* YamlBuilder (yaml-builder.c): a stack of open mappings and sequences, a *)
(* root, an anchor that waits for a node, and a table from anchor names to *)
(* nodes.  Any sequence of calls is a behaviour; a call that only warns is *)
(* no step.  The client owns references to some nodes (dup_root,           *)
(* steal_root, documents) and may add these nodes again.  Tags, which wait *)
(* like anchors but are in no table, are left out.                         *)
(*                                                                         *)
(* One call runs at a time.  `releasing' holds the references it is still  *)
(* to drop, `call' the second half of making a node the root.              *)
(***************************************************************************)
EXTENDS YamlTree

CONSTANTS
    Key, Anchor,
    Container,      \* the kinds of containers the client begins a tree with
    ContainerBelow, \* and those it begins in others
    Immutables,     \* the values the immutable property takes
    AliasesOpen,    \* whether the client refers to containers that are still open
    MaxNodes,       \* bound: nodes allocated
    MaxFields,      \* bound: members or elements of a container
    MaxOwned,       \* bound: references of the client
    Null

ASSUME BuilderAssumption ==
    /\ Immutables \subseteq BOOLEAN /\ Immutables # {}
    /\ AliasesOpen \in BOOLEAN
    /\ MaxNodes \in Nat /\ MaxFields \in Nat /\ MaxOwned \in Nat
    /\ Container \cup ContainerBelow \subseteq {"mapping", "sequence"}
    /\ Element \notin Key
    /\ IsFiniteSet(Anchor)
    /\ Null \notin Key \cup Anchor \cup Nat
    /\ Null \notin [node : Nat, local : Seq(Nat)]

VARIABLES
    stack,      \* frames: the node of an open container, and the member name set
    root, immutable,
    pending,    \* the anchor for the next node
    anchors,    \* the table of anchors: a node or Null
    heap,       \* the nodes; see YamlTree
    owned,      \* the nodes the client holds a reference to
    call, releasing

vars == <<stack, root, immutable, pending, anchors, heap, owned, call, releasing>>

YamlNode   == DOMAIN heap
Idle       == call = Null /\ releasing = <<>>
IfSet(n)   == IF n = Null THEN <<>> ELSE <<n>>
OpenNodes  == {stack[i].node : i \in DOMAIN stack}
TableNodes == LET names == SetToSeq({a \in Anchor : anchors[a] # Null})
              IN  [i \in DOMAIN names |-> anchors[names[i]]]

NewNode(kind) == [kind |-> kind, fields |-> <<>>, refs |-> 1, sealed |-> FALSE,
                  anchor |-> Null]
Scalar == "scalar"

Init ==
    /\ stack = <<>> /\ root = Null /\ immutable \in Immutables
    /\ pending = Null
    /\ anchors = [a \in Anchor |-> Null]
    /\ heap = <<>> /\ owned = <<>> /\ call = Null /\ releasing = <<>>

-----------------------------------------------------------------------------
(* apply_pending_metadata and add_value_to_context. *)

\* The name is given to a sealed node too.
WithMetadata_Unchecked(h, n) ==
    [h EXCEPT ![n].anchor = IF pending = Null THEN @ ELSE pending,
              ![n].refs   = IF pending = Null THEN @ ELSE @ + 1]

\* A sealed node refuses the name; the table takes its reference all
\* the same.
WithMetadata(h, n) ==
    [h EXCEPT ![n].anchor = IF pending = Null \/ h[n].sealed THEN @ ELSE pending,
              ![n].refs   = IF pending = Null THEN @ ELSE @ + 1]

ApplyPending(n) ==
    /\ pending' = Null
    /\ anchors' = IF pending = Null THEN anchors ELSE [anchors EXCEPT ![pending] = n]

\* The node the table knew by the pending anchor.
Forgotten == IF pending = Null THEN <<>> ELSE IfSet(anchors[pending])

MayStore(h, parent) == ~h[parent].sealed

\* The node is added to the last of the frames; `local' are the references to drop
\* at the end of the call.
AddToContext(h, n, frames, local) ==
    LET g == WithMetadata(h, n)
        frame == Last(frames)
        key == IF g[frame.node].kind = "sequence" THEN Element ELSE frame.name IN
    /\ ApplyPending(n)
    /\ \/ /\ frames = <<>>
          /\ heap' = g
          /\ stack' = frames
          /\ root' = Null
          /\ call' = [node |-> n, local |-> local]
          /\ releasing' = Forgotten \o IfSet(root)
       \/ /\ frames # <<>> /\ key = Null
          /\ heap' = g
          /\ stack' = frames
          /\ releasing' = Forgotten \o local
          /\ UNCHANGED <<root, call>>
       \/ /\ frames # <<>> /\ key # Null
          /\ Len(Stored(g[frame.node].fields, key, n)) <= MaxFields
          /\ LET may == MayStore(g, frame.node) IN
             /\ heap' = IF may THEN [g EXCEPT ![frame.node].fields = Stored(@, key, n),
                                             ![n].refs = @ + 1] ELSE g
             /\ releasing' = Forgotten \o (IF may THEN Replaced(g[frame.node].fields, key) ELSE <<>>)
                                      \o local
          /\ stack' = [frames EXCEPT ![Len(frames)].name = Null]
          /\ UNCHANGED <<root, call>>

\* The old root is gone: the node becomes the root.
FinishRoot ==
    /\ call # Null /\ releasing = <<>>
    /\ heap' = [heap EXCEPT ![call.node].refs = @ + 1]
    /\ root' = call.node
    /\ call' = Null
    /\ releasing' = call.local
    /\ UNCHANGED <<stack, immutable, pending, anchors, owned>>

\* yaml_node_unref.
Release ==
    /\ releasing # <<>>
    /\ LET after == UnrefFirst(heap, releasing) IN
       /\ heap' = after.heap /\ releasing' = after.nodes
    /\ UNCHANGED <<stack, root, immutable, pending, anchors, owned, call>>

-----------------------------------------------------------------------------
(* Building. *)

\* The member name is used up when the container begins.
BeginContainer_TakesName(kind) ==
    /\ Idle /\ Len(heap) < MaxNodes
    /\ kind \in IF stack = <<>> THEN Container ELSE ContainerBelow
    /\ LET n == Len(heap) + 1 IN
       /\ heap' = WithMetadata(Append(heap, NewNode(kind)), n)
       /\ stack' = Append([i \in DOMAIN stack |-> [stack[i] EXCEPT !.name = Null]],
                          [node |-> n, name |-> Null])
       /\ ApplyPending(n)
    /\ releasing' = Forgotten
    /\ UNCHANGED <<root, immutable, owned, call>>

\* yaml_builder_begin_mapping, yaml_builder_begin_sequence: the frame keeps the
\* reference.
BeginContainer(kind) ==
    /\ Idle /\ Len(heap) < MaxNodes
    /\ kind \in IF stack = <<>> THEN Container ELSE ContainerBelow
    /\ LET n == Len(heap) + 1 IN
       /\ heap' = WithMetadata(Append(heap, NewNode(kind)), n)
       /\ stack' = Append(stack, [node |-> n, name |-> Null])
       /\ ApplyPending(n)
    /\ releasing' = Forgotten
    /\ UNCHANGED <<root, immutable, owned, call>>

\* The frame is not taken from the stack.
EndContainer_KeepsFrame(kind) ==
    /\ Idle /\ stack # <<>>
    /\ LET n == Last(stack).node IN
       /\ heap[n].kind = kind
       /\ AddToContext(IF immutable THEN SealIn(heap, n) ELSE heap, n, stack, <<>>)
    /\ UNCHANGED <<immutable, owned>>

\* yaml_builder_end_mapping, yaml_builder_end_sequence: the container is sealed
\* and added to the one around it.
EndContainer(kind) ==
    /\ Idle /\ stack # <<>>
    /\ LET n == Last(stack).node IN
       /\ heap[n].kind = kind
       /\ AddToContext(IF immutable THEN SealIn(heap, n) ELSE heap, n, Front(stack), <<n>>)
    /\ UNCHANGED <<immutable, owned>>

\* yaml_builder_set_member_name.
SetMemberName(key) ==
    /\ Idle /\ stack # <<>> /\ heap[Last(stack).node].kind = "mapping"
    /\ stack' = [stack EXCEPT ![Len(stack)].name = key]
    /\ UNCHANGED <<root, immutable, pending, anchors, heap, owned, call, releasing>>

\* yaml_builder_add_null_value and the other add_*_value functions.
AddScalar ==
    /\ Idle /\ Len(heap) < MaxNodes
    /\ LET n == Len(heap) + 1 IN AddToContext(Append(heap, NewNode(Scalar)), n, stack, <<n>>)
    /\ UNCHANGED <<immutable, owned>>

\* yaml_builder_add_value.
AddValue(n) ==
    /\ Idle /\ n \in Range(owned)
    /\ AddToContext(heap, n, stack, <<>>)
    /\ UNCHANGED <<immutable, owned>>

\* yaml_builder_add_alias.
AddAlias(a) ==
    /\ Idle /\ anchors[a] # Null
    /\ AliasesOpen \/ anchors[a] \notin OpenNodes
    /\ AddToContext(heap, anchors[a], stack, <<>>)
    /\ UNCHANGED <<immutable, owned>>

SetAnchor(a) ==
    /\ Idle
    /\ pending' = a
    /\ UNCHANGED <<stack, root, immutable, anchors, heap, owned, call, releasing>>

SetImmutable(b) ==
    /\ Idle
    /\ immutable' = b
    /\ UNCHANGED <<stack, root, pending, anchors, heap, owned, call, releasing>>

-----------------------------------------------------------------------------
(* Results. *)

\* yaml_builder_dup_root.
DupRoot ==
    /\ Idle /\ stack = <<>> /\ root # Null /\ Len(owned) < MaxOwned
    /\ heap' = [heap EXCEPT ![root].refs = @ + 1]
    /\ owned' = Append(owned, root)
    /\ UNCHANGED <<stack, root, immutable, pending, anchors, call, releasing>>

\* yaml_builder_steal_root.
StealRoot ==
    /\ Idle /\ stack = <<>> /\ Len(owned) < MaxOwned
    /\ owned' = owned \o IfSet(root)
    /\ root' = Null
    /\ anchors' = [a \in Anchor |-> Null]
    /\ releasing' = TableNodes
    /\ UNCHANGED <<stack, immutable, pending, heap, call>>

\* yaml_builder_get_document: the document holds a reference to the root, and an
\* immutable builder seals it.
GetDocument ==
    /\ Idle /\ stack = <<>> /\ root # Null /\ Len(owned) < MaxOwned
    /\ heap' = [(IF immutable THEN SealIn(heap, root) ELSE heap) EXCEPT ![root].refs = @ + 1]
    /\ owned' = Append(owned, root)
    /\ UNCHANGED <<stack, root, immutable, pending, anchors, call, releasing>>

\* yaml_builder_reset; the end of the builder does the same.
Reset ==
    /\ Idle
    /\ stack' = <<>> /\ root' = Null /\ pending' = Null
    /\ anchors' = [a \in Anchor |-> Null]
    /\ releasing' = [i \in DOMAIN stack |-> Reverse(stack)[i].node] \o IfSet(root) \o TableNodes
    /\ UNCHANGED <<immutable, heap, owned, call>>

\* The client is done with a node or a document.
ClientUnref(i) ==
    /\ Idle
    /\ owned' = RemoveAt(owned, i)
    /\ releasing' = <<owned[i]>>
    /\ UNCHANGED <<stack, root, immutable, pending, anchors, heap, call>>

-----------------------------------------------------------------------------
Next ==
    \/ FinishRoot \/ Release \/ AddScalar
    \/ \E kind \in Container \cup ContainerBelow : BeginContainer(kind) \/ EndContainer(kind)
    \/ \E key \in Key : SetMemberName(key)
    \/ \E n \in YamlNode : AddValue(n)
    \/ \E a \in Anchor : AddAlias(a) \/ SetAnchor(a)
    \/ \E b \in Immutables : SetImmutable(b)
    \/ DupRoot \/ StealRoot \/ GetDocument \/ Reset
    \/ \E i \in DOMAIN owned : ClientUnref(i)

Spec == Init /\ [][Next]_vars

-----------------------------------------------------------------------------
(* What the builder promises. *)

\* The references the builder and the client hold.
Held == [i \in DOMAIN stack |-> stack[i].node] \o IfSet(root) \o TableNodes \o owned
          \o releasing \o (IF call = Null THEN <<>> ELSE call.local)

\* The counter of every node is the number of references to it, whatever the
\* builder is told to name, share, replace, drop or forget (yaml-builder.c:244-774).
RefsExact == \A n \in YamlNode : heap[n].refs = Places(Held, n) + Uses(heap, n)

\* "This creates shared structure in the built tree" (yaml-builder.c:661-664): what
\* is built is a tree that may share nodes, and no node contains itself, unless an
\* alias of an open container is added to what is below it (yaml-builder.c:665), which
\* AliasesOpen switches on.
Acyclic == AcyclicIn(heap)

\* A container can be seen by others only when it is complete: an open one is not
\* the root, not a member or element of anything and not in the hands of the
\* client, unless it was added through an alias, which AliasesOpen switches on.
HalfBuiltUnseen ==
    \A i \in DOMAIN stack :
      /\ Uses(heap, stack[i].node) = 0 /\ stack[i].node # root
      /\ stack[i].node \notin Range(owned)
      /\ \A j \in DOMAIN stack : stack[j].node = stack[i].node => i = j

\* "All key-value pairs added after this call will be part of the mapping"
\* (yaml-builder.h:101): a value that uses up a member name is in the mapping then.
NamedValuesArrive ==
    [][\A i \in DOMAIN stack \cap DOMAIN stack' :
         stack'[i].node = stack[i].node /\ stack[i].name # Null /\ stack'[i].name = Null
           => \E j \in DOMAIN heap'[stack[i].node].fields :
                heap'[stack[i].node].fields[j].key = stack[i].name]_vars

\* What an immutable builder has completed stays as it is, although its nodes are
\* shared, named again and part of what is still being built.
SealedFrozen ==
    [][\A n \in YamlNode :
         heap[n].sealed /\ heap'[n].refs > 0
           => [heap'[n] EXCEPT !.refs = 0] = [heap[n] EXCEPT !.refs = 0]]_vars

\* "Once sealed, a node and all its children cannot be modified" (yaml-node.h:32),
\* although the builder seals containers as they end, in any order, with shared,
\* named and unsealed nodes in them, and may be made immutable half-way
\* (yaml-builder.c:375-378, 478-481).
SealedClosed ==
    \A n \in YamlNode : heap[n].sealed => \A m \in Range(ChildrenIn(heap, n)) : heap[m].sealed

=============================================================================
