--------------------------- MODULE YamlOwnership ---------------------------
(***************************************************************************)
(* What a program that uses the heap relies on, without counters, flags,   *)
(* destructors or calls in progress: an object exists from its creation    *)
(* until some time after the last reference to it is gone, and no longer.  *)
(* YamlHeap implements this contract.                                      *)
(***************************************************************************)
CONSTANTS Object, Slot, Null

VARIABLES
    holds,   \* the object each slot owns a reference to, or Null
    exists   \* the objects that are allocated

vars == <<holds, exists>>

IsOwned(o) == \E s \in Slot : holds[s] = o

Init ==
    /\ holds = [s \in Slot |-> Null]
    /\ exists = {}

\* References appear and disappear.  A new one is made only from a reference
\* that exists, or to an object created in this step; what is created is owned.
Reference ==
    /\ holds' \in [Slot -> Object \cup {Null}]
    /\ exists \subseteq exists'
    /\ \A s \in Slot : holds'[s] # holds[s] /\ holds'[s] # Null
         => holds'[s] \in exists' /\ (holds'[s] \in exists => IsOwned(holds'[s]))
    /\ \A o \in exists' \ exists : \E s \in Slot : holds'[s] = o

\* The memory of an object is returned: nothing refers to it, and it refers to
\* nothing.
Free(o) ==
    /\ o \in exists
    /\ ~IsOwned(o)
    /\ \A s \in Slot : s[1] = o => holds[s] = Null
    /\ exists' = exists \ {o}
    /\ UNCHANGED holds

Next == Reference \/ \E o \in Object : Free(o)

\* Garbage does not stay.
Spec == Init /\ [][Next]_vars /\ \A o \in Object : WF_vars(Free(o))

\* A slot never refers to memory that was returned.
OwnedExists == \A s \in Slot : holds[s] # Null => holds[s] \in exists

=============================================================================
