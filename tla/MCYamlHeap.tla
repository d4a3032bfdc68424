---------------------------- MODULE MCYamlHeap ----------------------------
(***************************************************************************)
(* Instances of YamlHeap for TLC, the contract it implements, and the      *)
(* statement about leaks, which needs reachability.                        *)
(***************************************************************************)
EXTENDS YamlHeap, Reachability, TLC

Contract == INSTANCE YamlOwnership WITH exists <- {o \in Object : status[o] # "free"}

\* The heap implements the ownership contract: whoever holds a reference holds
\* an object, and what nobody holds goes away.
ImplementsOwnership == Contract!Spec

Children == [o \in Object |-> ChildrenOf(o)]
OnCycle  == OnCycleOf(Children)
Roots    == (UNION {Owned(t) : t \in Thread}) \cup {o \in Object : status[o] = "dying"}

\* Memory leaks only through a reference cycle the program built: every other
\* object is reachable from a variable or from a destructor that is running.
LeaksOnlyBelowCycles ==
    {o \in Object : status[o] # "free"} \subseteq Reach(Children, Roots \cup OnCycle)

HeapSymmetry == Permutations(Thread) \cup Permutations(Node) \cup Permutations(Variable)

=============================================================================
