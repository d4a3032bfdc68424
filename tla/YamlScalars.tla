---------------------------- MODULE YamlScalars ----------------------------
(***************************************************************************)
(* Scalar nodes (yaml-node.c): the text of a scalar, the typed values that *)
(* are cached beside it, and the reads that fall back to the text.         *)
(*                                                                         *)
(* A text is a form and a value: the digits of a decimal, hexadecimal or   *)
(* octal number, a number with a point or an exponent, a boolean (0 or 1)  *)
(* spelled as the code prints it or not, or a word, whose value is the     *)
(* number it begins with (0 if none).  Numbers are scaled down: an integer *)
(* has Width bits instead of 64; a double holds integers up to 2^Precision *)
(* exactly, instead of 2^53, and the odd ones above it not at all.  A      *)
(* double is counted in quarters, of which "%g" prints halves, as the code *)
(* prints six digits; it prints an exponent from Exponent on, as from      *)
(* 10^6.                                                                   *)
(***************************************************************************)
EXTENDS Integers

CONSTANTS
    Width, Precision, Exponent,
    Absent      \* no cached value, or no text

IntMin == -(2^(Width - 1))
IntMax == 2^(Width - 1) - 1

\* An integer has a bit, and a whole double that is printed with all its digits is exact.
ScalarsAssumption ==
    /\ Width \in Nat \ {0} /\ Precision \in Nat /\ IntMax \in Nat
    /\ Exponent \in Nat /\ Exponent <= 2^Precision
    /\ Absent \notin BOOLEAN /\ Absent \notin Int

Text(form, value) == [form |-> form, value |-> value]
Magnitude(n) == IF n < 0 THEN -n ELSE n

\* (gdouble)n, and what strtod makes of the digits of n.
ToDouble(n) == 4 * (IF Magnitude(n) <= 2^Precision THEN n
                    ELSE IF n < 0 THEN -2 * (Magnitude(n) \div 2) ELSE 2 * (n \div 2))

Truncated(d) == IF d < 0 THEN -(Magnitude(d) \div 4) ELSE d \div 4

-----------------------------------------------------------------------------
\* parse_core_int: whether the text is an integer; its value then is t.value.
IsCoreInt(t) ==
    \/ t.form = "decimal" /\ t.value \in IntMin..IntMax
    \/ t.form \in {"hex", "octal"} /\ t.value <= IntMax

\* g_ascii_strtod: what it makes of the whole text, or Absent if it stops before the
\* end, as it does after the 0 of an octal number.
WholeDouble(t) ==
    CASE t.form \in {"decimal", "hex"}    -> ToDouble(t.value)
      [] t.form \in {"real", "exponent"}  -> t.value
      [] OTHER                            -> Absent

NoCache == [boolean |-> Absent, int |-> Absent, double |-> Absent]

\* yaml_node_parse_scalar_internal, for a text.
Parsed(t) ==
    IF t.form \in {"boolean", "yes"} THEN [NoCache EXCEPT !.boolean = (t.value = 1)]
    ELSE IF IsCoreInt(t) THEN [NoCache EXCEPT !.int = t.value, !.double = ToDouble(t.value)]
    ELSE [NoCache EXCEPT !.double = WholeDouble(t)]

\* "%g": halves, an exponent for what is large, and no point in a whole number.
PrintedDouble(d) ==
    LET halves == 2 * (d \div 2) IN
    IF Magnitude(halves) >= 4 * Exponent THEN Text("exponent", halves)
    ELSE IF halves % 4 = 0 THEN Text("decimal", halves \div 4)
    ELSE Text("real", halves)

-----------------------------------------------------------------------------
(* The contents of a scalar node: text, style, cache. *)

Scalar(text, style, cache) == [type |-> "scalar", text |-> text, style |-> style, cache |-> cache]

\* yaml_node_init_string, not given a null pointer.
InitString(t) == Scalar(t, "any", Parsed(t))

\* The number is printed as a narrower one.
InitInt_PrintsNarrow(n) ==
    Scalar(Text("decimal", n % 2^(Width - 1)), "plain",
           [NoCache EXCEPT !.int = n, !.double = ToDouble(n)])

\* yaml_node_init_int.
InitInt(n) ==
    Scalar(Text("decimal", n), "plain", [NoCache EXCEPT !.int = n, !.double = ToDouble(n)])

\* yaml_node_init_double.
InitDouble(d) == Scalar(PrintedDouble(d), "plain", [NoCache EXCEPT !.double = d])

\* yaml_node_init_boolean.
InitBoolean(b) == Scalar(Text("boolean", IF b THEN 1 ELSE 0), "plain", [NoCache EXCEPT !.boolean = b])

InitNull == [type |-> "null"]

\* What a scalar may be.
Form  == {"decimal", "hex", "octal", "real", "exponent", "boolean", "yes", "word"}
Style == {"any", "plain", "quoted"}
AnyText == [form : Form, value : Int]
AnyScalar ==
    [type : {"scalar"}, text : AnyText, style : Style,
     cache : [boolean : BOOLEAN \cup {Absent}, int : Int \cup {Absent}, double : Int \cup {Absent}]]

\* Containers: members are records of a key and a child.
MappingOf(pairs)  == [type |-> "mapping", members |-> pairs]
SequenceOf(nodes) == [type |-> "sequence", elements |-> nodes]
Pair(k, child)    == [key |-> k, child |-> child]

-----------------------------------------------------------------------------
(* Reading a node. *)

IsScalar(node) == node.type = "scalar"

\* g_ascii_strtoll in base 10: the number the text begins with, within the range.
LeadingInt(t) ==
    CASE t.form = "decimal"  -> IF t.value < IntMin THEN IntMin
                                ELSE IF t.value > IntMax THEN IntMax ELSE t.value
      [] t.form = "real"     -> Truncated(t.value)
      [] t.form = "exponent" -> IF t.value < 0 THEN -1 ELSE 1
      [] t.form = "word"     -> t.value
      [] OTHER               -> 0

\* yaml_node_get_int.
GetInt(node) ==
    IF ~IsScalar(node) THEN 0
    ELSE IF node.cache.int # Absent THEN node.cache.int
    ELSE IF IsCoreInt(node.text) THEN node.text.value
    ELSE LeadingInt(node.text)

\* yaml_node_get_double.
GetDouble(node) ==
    IF ~IsScalar(node) THEN 0
    ELSE IF node.cache.double # Absent THEN node.cache.double
    ELSE IF WholeDouble(node.text) # Absent THEN WholeDouble(node.text)
    ELSE ToDouble(LeadingInt(node.text))

\* yaml_node_get_boolean.
GetBoolean(node) ==
    /\ IsScalar(node) /\ node.cache.boolean # Absent
    /\ node.cache.boolean

\* yaml_node_get_string.
GetString(node) == IF IsScalar(node) THEN node.text ELSE Absent

=============================================================================
