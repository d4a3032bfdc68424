----------------------------- MODULE YamlValues ----------------------------
(***************************************************************************)
(* A node that a program changes with the setters of yaml-node.c, and what *)
(* is computed from a tree: its copy, whether it equals another one, and   *)
(* the JSON tree it is converted to and from.                              *)
(*                                                                         *)
(* A mapping is the sequence of its members here; YamlMembers has the      *)
(* table.  `meta' holds the names of what is attached to the node: its tag,*)
(* anchor, comments, and the blank line before it.                         *)
(***************************************************************************)
EXTENDS YamlScalars, SequencesExt

CONSTANTS
    Name,       \* keys
    Value,      \* the doubles that are set, in quarters
    MaxBelow    \* bound: members or elements of a container

ValuesAssumption == Value \subseteq Int /\ MaxBelow \in Nat

VARIABLE node

Meta == {"tag", "blank"}
With(meta, content) == [meta |-> meta, content |-> content]

Init == node = With({}, InitNull)

-----------------------------------------------------------------------------
(* The setters. *)

\* yaml_node_clear_internal: the blank line stays.
ClearInternal(meta) == meta \cap {"blank"}

Becomes(content) == node' = With(ClearInternal(node.meta), content)

\* yaml_node_set_string and yaml_node_set_scalar_style, of a quoted scalar perhaps.
SetString(t, style) == Becomes([InitString(t) EXCEPT !.style = style])

SetInt(n)     == Becomes(InitInt(n))
SetDouble(d)  == Becomes(InitDouble(d))
SetBoolean(b) == Becomes(InitBoolean(b))

\* yaml_node_set_tag, set_anchor, add_leading_comment, set_trailing_comment and
\* set_blank_before; a null argument or yaml_node_clear_comments takes it away.
SetMeta(m, set) == node' = [node EXCEPT !.meta = IF set THEN @ \cup {m} ELSE @ \ {m}]

\* The node is put into a new container: yaml_node_new_mapping, yaml_node_new_sequence.
Contain(k) ==
    /\ IsScalar(node.content) \/ node.content = InitNull
    /\ \/ node' = With({}, MappingOf(<<Pair(k, node)>>))
       \/ node' = With({}, SequenceOf(<<node>>))

\* A member or element is added to it.
Extend(k, child) ==
    \/ /\ node.content.type = "mapping" /\ Len(node.content.members) < MaxBelow
       /\ \A i \in DOMAIN node.content.members : node.content.members[i].key # k
       /\ node' = [node EXCEPT !.content.members = Append(@, Pair(k, child))]
    \/ /\ node.content.type = "sequence" /\ Len(node.content.elements) < MaxBelow
       /\ node' = [node EXCEPT !.content.elements = Append(@, child)]

-----------------------------------------------------------------------------
(* Trees, as they are built here: leaves and containers of leaves. *)

Leaf == [meta : SUBSET Meta, content : AnyScalar \cup {InitNull}]
Branch ==
    [meta : SUBSET Meta,
     content : [type : {"mapping"}, members : Seq([key : Name, child : Leaf])] \cup
               [type : {"sequence"}, elements : Seq(Leaf)]]
Tree == Leaf \cup Branch

(* Functions of a tree, recursive as in the code. *)

\* yaml_node_copy: everything but the seal and the parent.
Copy[n \in Tree] ==
    With(n.meta,
      CASE n.content.type = "mapping"  ->
             MappingOf([i \in DOMAIN n.content.members |->
               Pair(n.content.members[i].key, Copy[n.content.members[i].child])])
        [] n.content.type = "sequence" ->
             SequenceOf([i \in DOMAIN n.content.elements |-> Copy[n.content.elements[i]]])
        [] OTHER                       -> n.content)

\* yaml_node_equal: texts are compared, and neither caches nor metadata.
NodeEqual[pair \in Tree \X Tree] ==
    LET x == pair[1].content  y == pair[2].content IN
    /\ x.type = y.type
    /\ x.type = "scalar" => x.text = y.text
    /\ x.type = "sequence" =>
         /\ Len(x.elements) = Len(y.elements)
         /\ \A i \in DOMAIN x.elements : NodeEqual[<<x.elements[i], y.elements[i]>>]
    /\ x.type = "mapping" =>
         /\ Len(x.members) = Len(y.members)
         /\ \A i \in DOMAIN x.members : \E j \in DOMAIN y.members :
              /\ x.members[i].key = y.members[j].key
              /\ NodeEqual[<<x.members[i].child, y.members[j].child>>]

\* JSON values: json_node_set_boolean and its like.
Json(kind, of) == [kind |-> kind, of |-> of]

\* An integer is given as a double.
ScalarToJson_DoubleFirst(c) ==
    IF c.cache.boolean # Absent THEN Json("boolean", c.cache.boolean)
    ELSE IF c.cache.double # Absent THEN Json("double", c.cache.double)
    ELSE Json("string", c.text)

\* yaml_node_to_json_node, of a scalar: the first value that is cached.
ScalarToJson(c) ==
    IF c.cache.boolean # Absent THEN Json("boolean", c.cache.boolean)
    ELSE IF c.cache.int # Absent THEN Json("int", c.cache.int)
    ELSE IF c.cache.double # Absent THEN Json("double", c.cache.double)
    ELSE Json("string", c.text)

\* yaml_node_to_json_node.
ToJson[n \in Tree] ==
    LET c == n.content IN
    CASE c.type = "mapping"  ->
           Json("object", [i \in DOMAIN c.members |->
                             Pair(c.members[i].key, ToJson[c.members[i].child])])
      [] c.type = "sequence" -> Json("array", [i \in DOMAIN c.elements |-> ToJson[c.elements[i]]])
      [] c.type = "scalar"   -> ScalarToJson(c)
      [] OTHER               -> Json("null", Absent)

\* yaml_node_from_json_node, of what is neither an object nor an array: a string is
\* parsed as the text of a scalar is.
ScalarFromJson(j) ==
    CASE j.kind = "string"  -> InitString(j.of)
      [] j.kind = "int"     -> InitInt(j.of)
      [] j.kind = "double"  -> InitDouble(j.of)
      [] j.kind = "boolean" -> InitBoolean(j.of)
      [] OTHER              -> InitNull

JsonLeaf ==
    [kind : {"string"}, of : AnyText] \cup [kind : {"int", "double"}, of : Int] \cup
    [kind : {"boolean"}, of : BOOLEAN] \cup {Json("null", Absent)}
JsonTree ==
    JsonLeaf \cup [kind : {"object"}, of : Seq([key : Name, child : JsonLeaf])] \cup
    [kind : {"array"}, of : Seq(JsonLeaf)]

\* yaml_node_from_json_node.
FromJson[j \in JsonTree] ==
    With({},
      CASE j.kind = "object" -> MappingOf([i \in DOMAIN j.of |->
                                  Pair(j.of[i].key, FromJson[j.of[i].child])])
        [] j.kind = "array"  -> SequenceOf([i \in DOMAIN j.of |-> FromJson[j.of[i]]])
        [] OTHER             -> ScalarFromJson(j))

-----------------------------------------------------------------------------
Int64 == IntMin..IntMax

\* The texts that are set: within the range of integers, at its limits and beyond.
Texts ==
    {Text(form, n) : form \in {"decimal", "word"}, n \in {IntMin - 2, IntMin, 0, 1, IntMax, IntMax + 2}}
    \cup {Text(form, n) : form \in {"hex", "octal"}, n \in {IntMax, IntMax + 1}}
    \cup {Text("real", d) : d \in {d \in Value : d % 4 # 0}}
    \cup {Text("exponent", 4 * Exponent)}
    \cup {Text(form, b) : form \in {"boolean", "yes"}, b \in {0, 1}}

Children == {With({}, c) : c \in {InitNull, InitInt(IntMax), InitString(Text("word", 0))}}

Next ==
    \/ \E t \in Texts, style \in {"any", "quoted"} : SetString(t, style)
    \/ \E n \in Int64 : SetInt(n)
    \/ \E d \in Value : SetDouble(d)
    \/ \E b \in BOOLEAN : SetBoolean(b)
    \/ \E m \in Meta, set \in BOOLEAN : SetMeta(m, set)
    \/ \E k \in Name : Contain(k) \/ \E child \in Children : Extend(k, child)

Spec == Init /\ [][Next]_node

-----------------------------------------------------------------------------
\* The scalars in a tree.
ScalarsIn[n \in Tree] ==
    LET c == n.content IN
    CASE c.type = "mapping"  -> UNION {ScalarsIn[c.members[i].child] : i \in DOMAIN c.members}
      [] c.type = "sequence" -> UNION {ScalarsIn[c.elements[i]] : i \in DOMAIN c.elements}
      [] c.type = "scalar"   -> {c}
      [] OTHER               -> {}

\* Whatever was set before, the integer and the boolean a scalar gives are those of its
\* text, so they survive being written and read again, and its double is the one of
\* its text up to the digits that are printed (yaml-node.c:99-152, 262-330, 692-790).
ReadsFollowText ==
    \A c \in ScalarsIn[node] :
      LET again == InitString(c.text) IN
      /\ GetInt(c) = GetInt(again) /\ GetBoolean(c) = GetBoolean(again)
      /\ PrintedDouble(GetDouble(c)) = PrintedDouble(GetDouble(again))

\* The values of a scalar that JSON can tell apart.
Typed(c) == IF c.cache = NoCache THEN c.text ELSE c.cache

TypedTree[n \in Tree] ==
    LET c == n.content IN
    CASE c.type = "mapping"  ->
           [i \in DOMAIN c.members |-> <<c.members[i].key, TypedTree[c.members[i].child]>>]
      [] c.type = "sequence" -> [i \in DOMAIN c.elements |-> TypedTree[c.elements[i]]]
      [] c.type = "scalar"   -> <<"scalar", Typed(c)>>
      [] OTHER               -> <<"null">>

\* A tree that becomes JSON and comes back has the same shape and the same typed
\* values: integers to the last digit, doubles that the text does not hold, strings
\* that are no values.  A copy is the same tree, caches, tags and comments included,
\* and equals the original (yaml-node.c:355-447, 918-1150).
ConversionsKeepValues ==
    /\ TypedTree[FromJson[ToJson[node]]] = TypedTree[node]
    /\ Copy[node] = node /\ NodeEqual[<<node, Copy[node]>>]

=============================================================================
