---------------------------- MODULE YamlGObject ----------------------------
(***************************************************************************)
(* Objects as YAML (yaml-serializable.c, yaml-gobject.c): the properties   *)
(* of an object become the members of a mapping, and an object is made     *)
(* from a mapping again, directly or through a text.                       *)
(*                                                                         *)
(* GObject is modelled as it is used: a value that does not conform to the *)
(* property is not set, and objects are made with all the construct-only   *)
(* properties at once.       The tables of yaml_boxed_register_* are left  *)
(* out: the conversion of properties does not look at them.                *)
(***************************************************************************)
EXTENDS YamlScalars, FiniteSets, SequencesExt

CONSTANT Narrow     \* bits of a gint, 32 in the code
\* The last two hold of powers, of which the provers know nothing.
GObjectAssumption ==
    /\ Narrow \in 2..Width
    /\ 2^(Width - 1) \in Nat /\ 2^(Narrow - 1) \in 2..2^(Width - 1)

VARIABLES
    class,      \* the names of the properties of the class
    object      \* their values in an object of it, or Absent

vars == <<class, object>>

-----------------------------------------------------------------------------
(* Types.  Flags are sets of bits; the values of a class of flags are named *)
(* sets of bits, of one bit each or, in a type "masks", of several.         *)

Nick(v) == Text("nick", v)
Bits    == {1, 2}
Values(type) == IF type = "masks" THEN <<{1}, {2}, {1, 2}>> ELSE <<{1}, {2}>>
Enum    == {0, 1}

\* g_object_set_property: a value that g_param_value_validate would change is not set,
\* and the property of a new object stays as it was.
Conforming(type, default, v) ==
    CASE type = "enum"             -> IF v \in Enum THEN v ELSE default
      [] type \in {"flags", "masks"} -> IF v \subseteq Bits THEN v ELSE default
      [] OTHER                     -> v

\* A cast to an integer with this many bits.
Cast(n, bits, signed) ==
    LET half == 2^(bits - 1)
        m    == n % (2 * half)
    IN  IF signed /\ m >= half THEN m - 2 * half ELSE m

\* What a sequence has at these places, in order.
Chosen(s, places) ==
    [k \in 1..Cardinality(places) |->
       s[CHOOSE i \in places : Cardinality({j \in places : j <= i}) = k]]

\* Every value of the class that has a bit in common with the flags.
FlagsToNode(type, v) ==
    Chosen(Values(type), {i \in DOMAIN Values(type) : Values(type)[i] \cap v # {}})

Strings(texts) == SequenceOf([i \in DOMAIN texts |-> InitString(texts[i])])

\* yaml_serializable_default_serialize_property; Absent stands for a null pointer.
SerializeProperty(type, v) ==
    CASE type = "boolean"  -> InitBoolean(v)
      [] type = "int"      -> InitInt(v)
      [] type = "uint64"   -> InitInt(Cast(v, Width, TRUE))
      [] type = "double"   -> InitDouble(v)
      [] type = "string"   -> IF v = Absent THEN InitNull ELSE InitString(v)
      [] type = "strv"     -> Strings(IF v = Absent THEN <<>> ELSE v)
      [] type = "enum"     -> InitString(Nick(v))
      [] type \in {"flags", "masks"} ->
           Strings([i \in DOMAIN FlagsToNode(type, v) |-> Nick(FlagsToNode(type, v)[i])])
      [] type = "node"     -> IF v = Absent THEN InitNull ELSE v
      [] OTHER             -> InitNull      \* an object, or what has no conversion

\* The scalars among some elements (deserialize_strv).
TextsIn(nodes) ==
    LET scalars == Chosen(nodes, {i \in DOMAIN nodes : IsScalar(nodes[i])})
    IN  [k \in DOMAIN scalars |-> scalars[k].text]

\* The number is tried before the names.
EnumOf_NumberFirst(node) == Cast(GetInt(node), Narrow, TRUE)

\* By nick, by name, or as a number.
EnumOf(node) ==
    IF IsScalar(node) /\ node.text.form \in {"nick", "name"} THEN node.text.value
    ELSE Cast(GetInt(node), Narrow, TRUE)

\* 4 stands for all bits beyond those of the class.
FlagsOf(node) ==
    IF node.type = "sequence"
      THEN UNION {t.value : t \in {x \in Range(TextsIn(node.elements)) : x.form \in {"nick", "name"}}}
      ELSE {b \in Bits : (Cast(GetInt(node), Narrow, FALSE) \div b) % 2 = 1} \cup
             (IF Cast(GetInt(node), Narrow, FALSE) >= 4 THEN {4} ELSE {})

\* yaml_serializable_default_deserialize_property: whether it is handled, and the value.
DeserializeProperty(type, default, node) ==
    LET value ==
      CASE type = "boolean" -> GetBoolean(node)
        [] type = "int"     -> Cast(GetInt(node), Narrow, TRUE)
        [] type = "uint64"  -> Cast(GetInt(node), Width, FALSE)
        [] type = "double"  -> GetDouble(node)
        [] type = "string"  -> GetString(node)
        [] type = "strv"    -> IF node.type = "sequence" THEN TextsIn(node.elements) ELSE Absent
        [] type = "enum"    -> EnumOf(node)
        [] type \in {"flags", "masks"} -> FlagsOf(node)
        [] type = "node"    -> node
        [] OTHER            -> Absent
    IN  IF node.type = "null" THEN [handled |-> TRUE, value |-> default]
        ELSE [handled |-> type \notin {"object", "other"}, value |-> value]

-----------------------------------------------------------------------------
(* Properties.  `custom': the class has its own functions to convert it, which *)
(* write it as a nick; `listed': it is among those list_properties names.      *)

Plain(type, default) ==
    [type |-> type, default |-> default, readable |-> TRUE, writable |-> TRUE,
     construct_only |-> FALSE, custom |-> FALSE, listed |-> TRUE]

Property ==
    [flag    |-> Plain("boolean", FALSE),
     count   |-> Plain("int", 1),
     size    |-> Plain("uint64", 0),
     ratio   |-> Plain("double", 4),
     label   |-> Plain("string", Absent),
     title   |-> Plain("string", Text("word", 0)),
     names   |-> Plain("strv", Absent),
     mode    |-> Plain("enum", 1),
     options |-> Plain("flags", {}),
     access  |-> Plain("masks", {}),
     tree    |-> Plain("node", Absent),
     peer    |-> Plain("object", Absent),
     id      |-> [Plain("int", 0) EXCEPT !.construct_only = TRUE],
     kind    |-> [Plain("enum", 0) EXCEPT !.construct_only = TRUE, !.custom = TRUE],
     unit    |-> [Plain("enum", 0) EXCEPT !.custom = TRUE],
     status  |-> [Plain("int", 0) EXCEPT !.writable = FALSE],
     secret  |-> [Plain("int", 0) EXCEPT !.readable = FALSE],
     cache   |-> [Plain("int", 0) EXCEPT !.listed = FALSE]]

\* The functions of a class that converts a property itself.
CustomSerialize(v)      == InitString(Text("word", v))
CustomDeserialize(node) == [handled |-> TRUE, value |-> GetInt(node)]

\* What serialize_gobject_internal passes over.
Skipped(p) ==
    \/ ~Property[p].listed \/ ~Property[p].readable
    \/ ~Property[p].writable /\ ~Property[p].construct_only

\* serialize_gobject_internal.
Serialize(o) ==
    LET names == SetToSeq({p \in DOMAIN o : ~Skipped(p)}) IN
    MappingOf([i \in DOMAIN names |->
      Pair(names[i], IF Property[names[i]].custom
                       THEN CustomSerialize(o[names[i]])
                       ELSE SerializeProperty(Property[names[i]].type, o[names[i]]))])

Places(tree, p) == {i \in DOMAIN tree.members : tree.members[i].key = p}

\* The value from its member: construct-only properties go through the default
\* functions; what is not handled is not set.
FromMember(p, node) ==
    LET d == Property[p]
        r == IF d.custom /\ ~d.construct_only
               THEN CustomDeserialize(node)
               ELSE DeserializeProperty(d.type, d.default, node)
    IN  IF r.handled THEN Conforming(d.type, d.default, r.value) ELSE d.default

\* deserialize_gobject_internal, of a mapping.
Deserialize(c, tree) ==
    [p \in c |->
       IF Property[p].writable /\ Places(tree, p) # {}
         THEN FromMember(p, tree.members[CHOOSE i \in Places(tree, p) : TRUE].child)
         ELSE Property[p].default]

\* The tree after yaml_gobject_to_data and the load of yaml_gobject_from_data: texts are
\* written in the style "any" and parsed, and some words are null.
WrittenScalar(n) ==
    IF n.type # "scalar" THEN n
    ELSE IF n.text.form = "null" THEN InitNull ELSE InitString(n.text)

\* A container whose contents become so.
WrittenWith(n, Content(_)) ==
    CASE n.type = "mapping"  -> MappingOf([i \in DOMAIN n.members |->
                                  Pair(n.members[i].key, Content(n.members[i].child))])
      [] n.type = "sequence" -> SequenceOf([i \in DOMAIN n.elements |-> Content(n.elements[i])])
      [] OTHER               -> WrittenScalar(n)

\* Values of properties contain scalars at most, and objects contain those values.
WrittenValue(n) == WrittenWith(n, WrittenScalar)
Written(n)      == WrittenWith(n, WrittenValue)

-----------------------------------------------------------------------------
(* A program with one object. *)

Init == class = {} /\ object = Absent

\* What an object may hold in a property.
Domain(type) ==
    CASE type = "boolean"  -> BOOLEAN
      [] type = "int"      -> (-(2^(Narrow - 1)))..(2^(Narrow - 1) - 1)
      [] type = "uint64"   -> 0..(2 * 2^(Width - 1) - 1)
      [] type = "double"   -> {4, 5, 6, 4 * Exponent}
      [] type = "string"   -> {Absent, Text("word", 0), Text("null", 0), Text("decimal", 1)}
      [] type = "strv"     -> {Absent, <<>>, <<Text("word", 0), Text("null", 0)>>}
      [] type = "enum"     -> Enum
      [] type \in {"flags", "masks"} -> SUBSET Bits
      [] type = "node"     -> {Absent, InitInt(IntMax), SequenceOf(<<InitNull>>)}
      [] OTHER             -> {Absent, "another object"}

\* g_object_new.
New(c) ==
    /\ object = Absent
    /\ class' = c
    /\ object' = [p \in c |-> Property[p].default]

\* g_object_set_property, or the object itself where that is not allowed.
SetProperty(p, v) ==
    /\ object # Absent
    /\ object' = [object EXCEPT ![p] = v]
    /\ UNCHANGED class

\* yaml_gobject_deserialize of a tree that someone wrote by hand, and what it replaces.
Load(tree) ==
    /\ object # Absent
    /\ object' = Deserialize(class, tree)
    /\ UNCHANGED class

\* Members by hand: of the right type or not, in other spellings, out of range.
Handwritten ==
    {InitNull, InitInt(IntMax), InitInt(1), InitDouble(6), InitBoolean(TRUE),
     InitString(Text("word", 1)), InitString(Text("name", 1)),
     SequenceOf(<<InitNull, InitString(Text("name", {1}))>>), MappingOf(<<>>)}

Next ==
    \/ \E c \in {{p, q} : p \in DOMAIN Property, q \in DOMAIN Property} : New(c)
    \/ \E p \in class :
         \/ \E v \in Domain(Property[p].type) : SetProperty(p, v)
         \/ \E n \in Handwritten : Load(MappingOf(<<Pair(p, n)>>))

Spec == Init /\ [][Next]_vars

-----------------------------------------------------------------------------
\* What YAML does not hold, or does not give back: what is passed over or not
\* writable; a construct-only property of a class that converts it itself; objects; a
\* null pointer where the default is another, since null gives the default.
Held(p) ==
    LET d == Property[p] IN
    /\ ~Skipped(p) /\ ~(d.construct_only /\ d.custom)
    /\ object[p] = Absent => d.default = Absent /\ d.type # "strv"
    /\ d.type # "object"

\* What a text gives back: the word null among strings, and the digits that are not
\* printed, are lost.
SameAsText(p, v, w) ==
    CASE Property[p].type = "masks"  -> v \subseteq w
      [] Property[p].type = "double" -> PrintedDouble(v) = PrintedDouble(w)
      [] Property[p].type = "string" -> v = w \/ (v # Absent /\ v.form = "null")
      [] Property[p].type = "strv"   -> w = Chosen(v, {i \in DOMAIN v : v[i].form # "null"})
      [] Property[p].type = "node"   -> v # Absent => w = WrittenValue(v)
      [] OTHER                       -> v = w

\* An object that is serialized and made again has its properties back, wherever their
\* values came from: numbers at their limits, enums given by name or number, flags.
\* Flags with values of several bits may gain some.  Through a text, doubles lose what
\* is not printed, and the word null is lost (yaml-serializable.c:289-764,
\* yaml-gobject.c:125-520).
ObjectsRoundTrip ==
    object # Absent =>
      LET tree == Serialize(object)
          back == Deserialize(class, tree)
          read == Deserialize(class, Written(tree)) IN
      \A p \in {q \in class : Held(q)} :
        /\ IF Property[p].type = "masks" THEN object[p] \subseteq back[p] ELSE back[p] = object[p]
        /\ SameAsText(p, object[p], read[p])

=============================================================================
