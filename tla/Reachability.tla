---------------------------- MODULE Reachability ----------------------------
(***************************************************************************)
(* What can be reached in a finite graph.  The graph is a function from    *)
(* its vertices to sets of vertices, the successors.                       *)
(***************************************************************************)
EXTENDS Naturals, FiniteSets

\* What is reached in so many steps, and in any number of steps: there are no more
\* than vertices to be found.
ReachSteps(next, S) ==
    LET reach[i \in 0..Cardinality(DOMAIN next)] ==
          IF i = 0 THEN S ELSE reach[i - 1] \cup UNION {next[v] : v \in reach[i - 1]}
    IN  reach

Reach(next, S) == ReachSteps(next, S)[Cardinality(DOMAIN next)]

\* The vertices that reach themselves.
OnCycleOf(next) == {v \in DOMAIN next : v \in Reach(next, next[v])}

=============================================================================
