----------------------------- MODULE YamlSchema ----------------------------
(***************************************************************************)
(* Schemas (yaml-schema.c): the calls that describe what a tree must look  *)
(* like, and the validation, which stops at the first defect it meets and  *)
(* reports where that is.                                                  *)
(*                                                                         *)
(* A schema may be used by others and by itself.  A property is added to a *)
(* schema once: the key of the table belongs to the definition, and adding *)
(* the property again frees the old definition and leaves the table with   *)
(* its name.                                                               *)
(***************************************************************************)
EXTENDS YamlScalars, FiniteSets, SequencesExt

CONSTANTS
    Schema, Name,
    Root,       \* the schema that trees are validated with
    MaxCalls    \* bound: calls that describe schemas

SchemaAssumption == Root \in Schema /\ MaxCalls \in Nat /\ Absent \notin Schema

VARIABLES
    schema,     \* the private data of each schema
    called      \* how many calls there were

vars == <<schema, called>>

Types == {"mapping", "sequence", "scalar", "null"}

\* yaml_schema_init.
Fresh ==
    [expected_type |-> "mapping", allow_additional |-> TRUE, properties |-> <<>>,
     element_type |-> "scalar", element_schema |-> Absent,
     min_length |-> Absent, max_length |-> Absent,
     pattern |-> Absent, enum_values |-> {}, min_value |-> Absent, max_value |-> Absent,
     min_string_length |-> Absent, max_string_length |-> Absent]

Init == schema = [s \in Schema |-> Fresh] /\ called = 0

-----------------------------------------------------------------------------
(* Describing. *)

Calls == called < MaxCalls /\ called' = called + 1

\* What the simple setters set: yaml_schema_set_expected_type and so on.  A pattern
\* is the form of the texts that it matches; one that is no regular expression
\* leaves the schema without a pattern.
Settings ==
    [expected_type     |-> Types,
     allow_additional  |-> {FALSE},
     element_type      |-> Types,
     min_length        |-> {2},
     max_length        |-> {1},
     pattern           |-> {"word", Absent},
     min_value         |-> {4},
     max_value         |-> {0},
     min_string_length |-> {2},
     max_string_length |-> {1}]

SetField(s, field, value) ==
    /\ Calls
    /\ schema' = [schema EXCEPT ![s][field] = value]

\* yaml_schema_add_enum_value, of a text of this form.
AddEnumValue(s, form) ==
    /\ Calls
    /\ schema' = [schema EXCEPT ![s].enum_values = @ \cup {form}]

Define(s, k, def) ==
    /\ Calls /\ k \notin DOMAIN schema[s].properties
    /\ schema' = [schema EXCEPT ![s].properties =
                    [j \in DOMAIN @ \cup {k} |-> IF j = k THEN def ELSE @[j]]]

\* yaml_schema_add_property.
AddProperty(s, k, type, required) ==
    Define(s, k, [type |-> type, schema |-> Absent, required |-> required])

\* yaml_schema_add_property_with_schema: the type is the one that the nested schema
\* expects now.
AddPropertyWithSchema(s, k, sub, required) ==
    Define(s, k, [type |-> schema[sub].expected_type, schema |-> sub, required |-> required])

\* yaml_schema_set_element_schema.
SetElementSchema(s, sub) ==
    /\ Calls
    /\ schema' = [schema EXCEPT ![s].element_schema = sub,
                                ![s].element_type = schema[sub].expected_type]

-----------------------------------------------------------------------------
(* Validating.  A result is Valid or the code of an error and the path that *)
(* its message begins with.                                                 *)

Valid == [code |-> "valid", path |-> <<>>]
Error(code, path) == [code |-> code, path |-> path]

TextLength(t) == IF t.form = "word" THEN 2 ELSE 1

Below(bound, n) == bound # Absent /\ n < bound
Above(bound, n) == bound # Absent /\ n > bound

\* validate_scalar, all of whose errors have one code.
ScalarConforms(c, n) ==
    /\ ~Below(c.min_string_length, TextLength(n.text))
    /\ ~Above(c.max_string_length, TextLength(n.text))
    /\ c.pattern # Absent => n.text.form = c.pattern
    /\ c.enum_values # {} => n.text.form \in c.enum_values
    /\ ~Below(c.min_value, GetDouble(n)) /\ ~Above(c.max_value, GetDouble(n))

\* The results of the first item that is not valid.
FirstError(results) ==
    LET bad == {i \in DOMAIN results : results[i] # {Valid}} IN
    IF bad = {} THEN {Valid} ELSE results[CHOOSE i \in bad : \A j \in bad : i <= j]

HasKey(n, k) == \E i \in DOMAIN n.members : n.members[i].key = k

\* What is validated: nodes that are no containers, containers of them, and containers
\* of both.  A path is of keys and indices.
Bare      == AnyScalar \cup {InitNull}
Filled(S) == [type : {"mapping"}, members : Seq([key : Name, child : S])] \cup
             [type : {"sequence"}, elements : Seq(S)]
Shallow   == Bare \cup Filled(Bare)
Deep      == Shallow \cup Filled(Shallow)
Path      == Seq(Name \cup Nat)

\* The check of the type of a member or an element, then of its schema; `validate' is
\* yaml_schema_validate_with_path, which calls what follows.
Nested(validate, type, sub, n, path) ==
    IF n.type # type /\ type # "null" THEN {Error("type mismatch", path)}
    ELSE IF sub = Absent THEN {Valid}
    ELSE validate[<<sub, n, path>>]

LengthConforms(c, n) == ~Below(c.min_length, Len(n.elements)) /\ ~Above(c.max_length, Len(n.elements))

\* The path is the one of the sequence.
ValidateSequence_ParentPath(validate, c, n, path) ==
    IF ~LengthConforms(c, n) THEN {Error("constraint violation", path)}
    ELSE FirstError([i \in DOMAIN n.elements |->
           Nested(validate, c.element_type, c.element_schema, n.elements[i], path)])

\* validate_sequence.
ValidateSequence(validate, c, n, path) ==
    IF ~LengthConforms(c, n) THEN {Error("constraint violation", path)}
    ELSE FirstError([i \in DOMAIN n.elements |->
           Nested(validate, c.element_type, c.element_schema, n.elements[i], Append(path, i))])

Missing(c, n) == {k \in DOMAIN c.properties : c.properties[k].required /\ ~HasKey(n, k)}

\* A member is checked if it is a property.
ValidateMember(validate, c, m, at) ==
    IF m.key \in DOMAIN c.properties
      THEN Nested(validate, c.properties[m.key].type, c.properties[m.key].schema, m.child, at)
    ELSE IF c.allow_additional THEN {Valid} ELSE {Error("constraint violation", at)}

\* validate_mapping: some property that is missing, as the hash table has them in no
\* order, or the first member that is wrong.
ValidateMapping(validate, c, n, path) ==
    IF Missing(c, n) # {} THEN {Error("missing required", Append(path, k)) : k \in Missing(c, n)}
    ELSE FirstError([i \in DOMAIN n.members |->
           ValidateMember(validate, c, n.members[i], Append(path, n.members[i].key))])

\* What validate_with_path does with a node.
ValidateNode(validate, c, n, path) ==
    IF n.type # c.expected_type
      THEN IF n.type = "null" THEN {Valid} ELSE {Error("type mismatch", path)}
      ELSE CASE n.type = "mapping"  -> ValidateMapping(validate, c, n, path)
             [] n.type = "sequence" -> ValidateSequence(validate, c, n, path)
             [] n.type = "scalar"   ->
                  IF ScalarConforms(c, n) THEN {Valid} ELSE {Error("constraint violation", path)}
             [] OTHER               -> {Valid}

\* yaml_schema_validate_with_path, of a schema, a node and its path: its possible results.
Validate[call \in Schema \X Deep \X Path] ==
    ValidateNode(Validate, schema[call[1]], call[2], call[3])

-----------------------------------------------------------------------------
Next ==
    \E s \in Schema :
      \/ \E field \in DOMAIN Settings : \E value \in Settings[field] : SetField(s, field, value)
      \/ \E form \in {"word", "decimal"} : AddEnumValue(s, form)
      \/ \E sub \in Schema : SetElementSchema(s, sub)
      \/ \E k \in Name, required \in BOOLEAN :
           \/ \E type \in Types : AddProperty(s, k, type, required)
           \/ \E sub \in Schema : AddPropertyWithSchema(s, k, sub, required)

Spec == Init /\ [][Next]_vars

-----------------------------------------------------------------------------
(* The trees that are validated. *)

Leaves     == {InitNull, InitInt(0), InitString(Text("word", 0))}
Containers == {MappingOf(<<Pair(k, x)>>) : k \in Name, x \in Leaves} \cup
              {SequenceOf(<<x>>) : x \in Leaves}
Trees ==
    Leaves \cup Containers \cup {MappingOf(<<>>), SequenceOf(<<>>)} \cup
    {SequenceOf(<<InitInt(0), y>>) : y \in Leaves \cup Containers} \cup
    {MappingOf(<<Pair(p[1], InitInt(0)), Pair(p[2], y)>>) :
       p \in {q \in Name \X Name : q[1] # q[2]}, y \in Leaves \cup Containers}

Place(s, n, path) == [schema |-> s, node |-> n, path |-> path]

\* The places of the members and elements that a schema describes.
Inside(p) ==
    LET c == schema[p.schema] IN
    IF p.schema = Absent \/ p.node.type # c.expected_type THEN {}
    ELSE IF p.node.type = "mapping" THEN
      {Place(c.properties[m.key].schema, m.child, Append(p.path, m.key)) :
         m \in {x \in Range(p.node.members) : x.key \in DOMAIN c.properties}}
    ELSE IF p.node.type = "sequence" THEN
      {Place(c.element_schema, p.node.elements[i], Append(p.path, i)) : i \in DOMAIN p.node.elements}
    ELSE {}

\* Where a schema has a say: a schema, a node and its path, downwards from a node.
Places(s, n) ==
    LET top    == {Place(s, n, <<>>)}
        middle == UNION {Inside(p) : p \in top}
        bottom == UNION {Inside(p) : p \in middle}
    IN  {p \in top \cup middle \cup bottom : p.schema # Absent}

\* What is wrong at a place, apart from what is wrong further down.
Defects(p) ==
    LET c == schema[p.schema]  n == p.node
        Wrong(type, child) == child.type # type /\ type # "null" IN
    IF n.type = "null" THEN {}
    ELSE IF n.type # c.expected_type THEN {Error("type mismatch", p.path)}
    ELSE IF n.type = "scalar" THEN
      IF ScalarConforms(c, n) THEN {} ELSE {Error("constraint violation", p.path)}
    ELSE IF n.type = "sequence" THEN
      (IF LengthConforms(c, n) THEN {} ELSE {Error("constraint violation", p.path)}) \cup
      {Error("type mismatch", Append(p.path, i)) :
         i \in {j \in DOMAIN n.elements : Wrong(c.element_type, n.elements[j])}}
    ELSE
      {Error("missing required", Append(p.path, k)) : k \in Missing(c, n)} \cup
      {Error("constraint violation", Append(p.path, m.key)) :
         m \in {x \in Range(n.members) : ~c.allow_additional /\ x.key \notin DOMAIN c.properties}} \cup
      {Error("type mismatch", Append(p.path, m.key)) :
         m \in {x \in Range(n.members) : /\ x.key \in DOMAIN c.properties
                                         /\ Wrong(c.properties[x.key].type, x.child)}}

\* A tree is accepted if nothing in it is wrong, and otherwise what is reported is
\* wrong and is where the path says, whatever schemas use each other or themselves and
\* in whatever order they were described (yaml-schema.c:458-870).
ReportsDefects ==
    \A t \in Trees :
      LET defects == UNION {Defects(p) : p \in Places(Root, t)}
          results == Validate[<<Root, t, <<>> >>] IN
      IF defects = {} THEN results = {Valid} ELSE results # {} /\ results \subseteq defects

=============================================================================
