------------------------------ MODULE YamlData ------------------------------
(***************************************************************************)
(* The components that hold and convert values: the contents of mappings   *)
(* and of sequences, scalars and JSON, schemas, and objects.  They share   *)
(* no state, so a behaviour is about one of them, which `focus' tells, and *)
(* the others stay as they begin.                                          *)
(***************************************************************************)
EXTENDS YamlMembers

CONSTANTS
    Width, Precision, Exponent, Absent,     \* see YamlScalars
    Name, Value, MaxBelow,                  \* see YamlValues
    Schema, Root, MaxCalls,                 \* see YamlSchema
    Narrow                                  \* see YamlGObject

VARIABLES focus, node, schema, called, class, object

Values  == INSTANCE YamlValues
Schemas == INSTANCE YamlSchema
Objects == INSTANCE YamlGObject

ASSUME DataAssumption ==
    /\ Values!ScalarsAssumption /\ Values!ValuesAssumption
    /\ Schemas!SchemaAssumption /\ Objects!GObjectAssumption

dataVars == <<vars, focus, node, schema, called, class, object>>

DataInit ==
    /\ focus \in {"mappings", "sequences", "values", "schemas", "objects"}
    /\ Init /\ Values!Init /\ Schemas!Init /\ Objects!Init

DataNext ==
    \/ /\ focus = "mappings" /\ Next
       /\ UNCHANGED <<elements, focus, node, schema, called, class, object>>
    \/ /\ focus = "sequences" /\ Next
       /\ UNCHANGED <<keys_order, members, focus, node, schema, called, class, object>>
    \/ /\ focus = "values" /\ Values!Next
       /\ UNCHANGED <<vars, focus, schema, called, class, object>>
    \/ /\ focus = "schemas" /\ Schemas!Next
       /\ UNCHANGED <<vars, focus, node, class, object>>
    \/ /\ focus = "objects" /\ Objects!Next
       /\ UNCHANGED <<vars, focus, node, schema, called>>

DataSpec == DataInit /\ [][DataNext]_dataVars

-----------------------------------------------------------------------------
(* What each component promises; the modules say more about it. *)

\* What a scalar gives is what its text says (yaml-node.c:87-152).
ReadsFollowText == focus = "values" => Values!ReadsFollowText

\* JSON and copies keep the values of a tree (yaml-node.c:355-1150).
ConversionsKeepValues == focus = "values" => Values!ConversionsKeepValues

\* A validation reports a defect of the tree, or there is none (yaml-schema.c:485-870).
ReportsDefects == focus = "schemas" => Schemas!ReportsDefects

\* Objects survive being written and read (yaml-serializable.c, yaml-gobject.c).
ObjectsRoundTrip == focus = "objects" => Objects!ObjectsRoundTrip

=============================================================================
