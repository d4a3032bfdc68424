--------------------------- MODULE MCYamlConvert ---------------------------
(***************************************************************************)
(* YamlConvert on sources with one big or several small documents.         *)
(***************************************************************************)
EXTENDS YamlConvert

\* The documents of at most two nodes whose mappings have few pairs.
SmallDocument ==
    {d \in Document :
       /\ Cardinality(ReachedFrom(d.fields, Root)) <= 2
       /\ \A y \in YNode : d.fields[y] \in SequenceFields \cup MappingFields(MaxPairsBelow)}

\* A source has either one document or several small ones.
MCNext ==
    \/ documents = <<>> /\ Next
    \/ documents # <<>> /\ phase # "loading" /\ Next
    \/ documents # <<>> /\ (EndOfStream \/ ParseError)
    \/ documents # <<>> /\ doc \in SmallDocument /\ doc' \in SmallDocument /\ BeginDocument

MCSpec == Init /\ [][MCNext]_vars /\ WF_vars(MCNext)

=============================================================================
