----------------------------- MODULE MCYamlData -----------------------------
(***************************************************************************)
(* The components that hold and convert values, for TLC, with the files of *)
(* YamlWriter as another focus.                                            *)
(***************************************************************************)
EXTENDS YamlData, TLC

CONSTANTS MaxItems, Kind, KindBelow, GapFirst, Gap, NoFile    \* see YamlWriter

VARIABLE file

Files == INSTANCE YamlWriter

DataOrFilesInit ==
    /\ \/ DataInit
       \/ focus = "files" /\ Init /\ Values!Init /\ Schemas!Init /\ Objects!Init
    /\ Files!Init

DataOrFilesNext ==
    \/ DataNext /\ UNCHANGED file
    \/ focus = "files" /\ Files!Next /\ UNCHANGED dataVars

DataOrFilesSpec == DataOrFilesInit /\ [][DataOrFilesNext]_<<dataVars, file>>

\* Each comment is claimed by one node (yaml-comments.c:225-369).
CommentsClaimedOnce == Files!CommentsClaimedOnce

\* What is written says the same when it is read again, and a file that is written again
\* and again does not go on changing (yaml-writer.c:25-520).
WrittenReadsBack == Files!WrittenReadsBack

\* Mappings, keys, nodes and names are interchangeable.
DataSymmetry ==
    Permutations(Mapping) \cup Permutations(Key) \cup Permutations(Node) \cup
    Permutations(Name)

=============================================================================
