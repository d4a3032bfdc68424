---------------------------- MODULE YamlMembers ----------------------------
(***************************************************************************)
(* What a mapping and a sequence contain (yaml-mapping.c, yaml-sequence.c):*)
(* the table of a mapping's members beside the array of its keys in the    *)
(* order of insertion, the elements of a sequence, and the walks of        *)
(* yaml_mapping_foreach_member and yaml_sequence_foreach_element, whose    *)
(* callbacks may make every call the program may make.                     *)
(*                                                                         *)
(* A node is its content here, a member of Node: nodes of the same content *)
(* are equal.  Reference counts and sealing are in YamlHeap.               *)
(***************************************************************************)
EXTENDS Naturals, FiniteSets, SequencesExt

CONSTANTS
    Mapping, Sequence,  \* the containers
    Key, Node,
    HashedKeys,         \* how many keys or elements a hash looks at: 5 in the code
    MaxLength,          \* bound: elements of a sequence
    MaxRemovals,        \* bound: removals from a container during a walk through it
    Null

ASSUME MembersAssumption ==
    /\ IsFiniteSet(Key) /\ HashedKeys \in Nat /\ MaxLength \in Nat
    /\ MaxRemovals \in Nat
    /\ Null \notin Mapping \cup Sequence \cup Node
    /\ Mapping \cap Sequence = {}

VARIABLES
    keys_order,     \* the keys of each mapping, in the order of insertion
    members,        \* its table: functions from some keys to nodes
    elements,       \* the elements of each sequence
    walk            \* the walk through a container that is in progress, if any

vars == <<keys_order, members, elements, walk>>

\* What a walk goes through; `removed' counts what was removed from it since it
\* began, `visited' is what the callback was given.
Order(c) == IF c \in Mapping THEN keys_order[c] ELSE elements[c]

NoWalk == [over |-> Null, i |-> 0, visited |-> <<>>, removed |-> 0]

Init ==
    /\ keys_order = [m \in Mapping |-> <<>>]
    /\ members    = [m \in Mapping |-> <<>>]
    /\ elements   = [q \in Sequence |-> <<>>]
    /\ walk = NoWalk

-----------------------------------------------------------------------------
(* Reading. *)

\* yaml_mapping_has_member.
HasMember(m, k) == k \in DOMAIN members[m]

\* yaml_mapping_get_member; the typed getters read the node or give a zero.
GetMember(m, k) == IF HasMember(m, k) THEN members[m][k] ELSE Null

\* yaml_mapping_get_value, by position.
GetValue(m, i) ==
    IF i \in DOMAIN keys_order[m] THEN GetMember(m, keys_order[m][i]) ELSE Null

\* yaml_sequence_get_element, counted from 1 here.
GetElement(q, i) == IF i \in DOMAIN elements[q] THEN elements[q][i] ELSE Null

-----------------------------------------------------------------------------
(* Changing: by the program or by the callback of a walk. *)

\* A key that is set again is a second time in the order.
SetMember_Appends(m, k, n) ==
    /\ members' = [members EXCEPT ![m] = [j \in DOMAIN @ \cup {k} |-> IF j = k THEN n ELSE @[j]]]
    /\ keys_order' = [keys_order EXCEPT ![m] = Append(@, k)]
    /\ UNCHANGED <<elements, walk>>

\* yaml_mapping_set_member and the setters that make the node.
SetMember(m, k, n) ==
    /\ members' = [members EXCEPT ![m] = [j \in DOMAIN @ \cup {k} |-> IF j = k THEN n ELSE @[j]]]
    /\ keys_order' = [keys_order EXCEPT ![m] = IF HasMember(m, k) THEN @ ELSE Append(@, k)]
    /\ UNCHANGED <<elements, walk>>

\* A removal during a walk through the container is counted.
Notices(c) ==
    /\ walk.over = c => walk.removed < MaxRemovals
    /\ walk' = [walk EXCEPT !.removed = IF walk.over = c THEN @ + 1 ELSE @]

\* yaml_mapping_remove_member.  The name is the program's own: given the pointer of
\* yaml_mapping_get_key, or a callback its member_name, the code would look up a key
\* it has freed.
RemoveMember(m, k) ==
    /\ HasMember(m, k)
    /\ keys_order' = [keys_order EXCEPT ![m] = RemoveFirst(@, k)]
    /\ members' = [members EXCEPT ![m] = [j \in DOMAIN @ \ {k} |-> @[j]]]
    /\ Notices(m)
    /\ UNCHANGED elements

\* yaml_sequence_add_element and the adders that make the node.
AddElement(q, n) ==
    /\ Len(elements[q]) < MaxLength
    /\ elements' = [elements EXCEPT ![q] = Append(@, n)]
    /\ UNCHANGED <<keys_order, members, walk>>

\* yaml_sequence_remove_element.
RemoveElement(q, i) ==
    /\ i \in DOMAIN elements[q]
    /\ elements' = [elements EXCEPT ![q] = RemoveAt(@, i)]
    /\ Notices(q)
    /\ UNCHANGED <<keys_order, members>>

-----------------------------------------------------------------------------
(* Walks. *)

\* yaml_mapping_foreach_member and yaml_sequence_foreach_element are called.
Foreach(c) ==
    /\ walk.over = Null
    /\ walk' = [NoWalk EXCEPT !.over = c]
    /\ UNCHANGED <<keys_order, members, elements>>

\* The last item is left out.
NextItem_OffByOne(c, i) == i + 1 < Len(Order(c))

\* The loop's condition, which reads the length anew.
NextItem(c, i) == i < Len(Order(c))

\* The callback has returned, or was not called yet; it is called with the next item.
Visit ==
    /\ walk.over # Null /\ NextItem(walk.over, walk.i)
    /\ walk' = [walk EXCEPT !.i = @ + 1,
                            !.visited = Append(@, Order(walk.over)[walk.i + 1])]
    /\ UNCHANGED <<keys_order, members, elements>>

\* The walk is over.
WalkEnds ==
    /\ walk.over # Null /\ ~NextItem(walk.over, walk.i)
    /\ walk' = NoWalk
    /\ UNCHANGED <<keys_order, members, elements>>

-----------------------------------------------------------------------------
(* Equality and hashing of mappings. *)

\* yaml_mapping_equal: the keys of one are looked up in the other.
MappingEqual(a, b) ==
    \/ a = b
    \/ /\ Len(keys_order[a]) = Len(keys_order[b])
       /\ \A i \in DOMAIN keys_order[a] :
            GetMember(a, keys_order[a][i]) = GetMember(b, keys_order[a][i])

\* The keys that are hashed.
Hashed(m) == SubSeq(keys_order[m], 1, IF Len(keys_order[m]) < HashedKeys
                                        THEN Len(keys_order[m]) ELSE HashedKeys)

\* The place of a key is mixed into the hash.
MappingHash_Ordered(m) == <<Len(keys_order[m]), Hashed(m)>>

\* yaml_mapping_hash: the size and some keys, combined by exclusive or.  Hashes of
\* different strings are taken to be independent, so equal keys cancel.
MappingHash(m) ==
    <<Len(keys_order[m]),
      {k \in Key : Cardinality({i \in DOMAIN Hashed(m) : Hashed(m)[i] = k}) % 2 = 1}>>

-----------------------------------------------------------------------------
Next ==
    \/ \E m \in Mapping, k \in Key :
         RemoveMember(m, k) \/ \E n \in Node : SetMember(m, k, n)
    \/ \E q \in Sequence :
         \/ \E n \in Node : AddElement(q, n)
         \/ \E i \in 1..MaxLength : RemoveElement(q, i)
    \/ \E c \in Mapping \cup Sequence : Foreach(c)
    \/ Visit \/ WalkEnds

Spec == Init /\ [][Next]_vars

-----------------------------------------------------------------------------
\* The table and the array agree: each key once in the order, and a member for each
\* key, so a walk never hands out a null node and get_size is how many there are
\* (yaml-mapping.c:162-251).
KeysMatchMembers ==
    \A m \in Mapping :
      /\ Range(keys_order[m]) = DOMAIN members[m]
      /\ Len(keys_order[m]) = Cardinality(DOMAIN members[m])

\* A walk without removals visits every item once, in the order of the container, the
\* ones that its callbacks add included; each removal hides at most one of the others
\* (yaml-mapping.c:503-523, yaml-sequence.c:414-431).
WalkComplete ==
    [][walk.over # Null /\ walk'.over = Null =>
         LET order == Order(walk.over) IN
         /\ walk.removed = 0 => walk.visited = order
         /\ walk.over \in Mapping =>
              Cardinality(Range(order) \ Range(walk.visited)) <= walk.removed]_vars

\* Two mappings are equal when they have the same members, in whatever order, in
\* both directions of the comparison.
EqualIsSameMembers ==
    \A a, b \in Mapping : MappingEqual(a, b) <=> members[a] = members[b]

\* Equal mappings have equal hashes, if the first keys of both are the same ones.
HashesAgree ==
    /\ EqualIsSameMembers
    /\ \A a, b \in Mapping :
         MappingEqual(a, b) /\ Range(Hashed(a)) = Range(Hashed(b))
           => MappingHash(a) = MappingHash(b)

\* Equal mappings have equal hashes: "Verify that equal values produce the same hash"
\* (tests/test-node.c:357), "Use as GHashTable key functions" (docs/api/node.org:983).
EqualHashesAlike ==
    \A a, b \in Mapping : MappingEqual(a, b) => MappingHash(a) = MappingHash(b)

=============================================================================
