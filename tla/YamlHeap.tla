------------------------------ MODULE YamlHeap ------------------------------
(***************************************************************************)
(* The reference-counted heap of yaml-glib: nodes (yaml-node.c), mappings  *)
(* (yaml-mapping.c) and sequences (yaml-sequence.c), shared by the threads *)
(* of one program.                                                         *)
(*                                                                         *)
(* Every place that owns a reference is a slot: a local variable of a      *)
(* thread, the container pointer of a node, a member of a mapping, an      *)
(* element of a sequence.  The library keeps a counter per object; whether *)
(* the counter tells the truth about the slots is what there is to check.  *)
(*                                                                         *)
(* yaml_*_ref and the decrement of yaml_*_unref are atomic and need no     *)
(* lock; a destructor runs step by step, interleaved with the other        *)
(* threads.  Calls that modify or seal an object are serialised by the     *)
(* program (the sealed objects are the ones shared without a lock):        *)
(* `writer' is the thread inside such a call.                              *)
(*                                                                         *)
(* A definition named Operation_Fault is what Operation would be with a    *)
(* plausible mistake in its code; it stands before Operation, and shows    *)
(* that the properties below tell the two apart.                           *)
(***************************************************************************)
EXTENDS Naturals, FiniteSets

CONSTANTS
    Node, Mapping, Sequence,  \* the addresses an allocation may return
    Key,                      \* member names
    MaxLength,                \* bound: elements of one sequence
    Thread, Variable,         \* threads, and the owning variables of each
    Null,
    BorrowedArguments         \* may set_mapping/set_sequence be given a borrowed pointer

Container == Mapping \cup Sequence
Object    == Node \cup Container
Position  == 1..MaxLength

ASSUME HeapAssumption ==
    /\ MaxLength \in Nat
    /\ Null \notin Object \cup Thread \cup Variable
    /\ Thread \cap Object = {}
    /\ Node \cap Container = {}
    /\ Mapping \cap Sequence = {}
    /\ IsFiniteSet(Thread) /\ IsFiniteSet(Variable) /\ IsFiniteSet(Key)
    /\ IsFiniteSet(Object)
    /\ BorrowedArguments \in BOOLEAN

\* A slot is <<owner, field>>.
Local       == Thread \X Variable
DataSlot    == Node \X {"data"}
MemberSlot  == Mapping \X Key
ElementSlot == Sequence \X Position
Slot        == Local \cup DataSlot \cup MemberSlot \cup ElementSlot

VARIABLES
    holds,       \* the object each slot owns a reference to, or Null
    refCount,    \* the ref_count field
    status,      \* "free", "live", or "dying": inside its destructor
    immutable,   \* the immutable field
    destroying,  \* the destructor each thread is in, innermost
    caller,      \* the destructor that called this object's destructor
    writer,      \* the thread inside a modifying call, or Null
    sealing,     \* the objects yaml_*_seal is still to be called on
    assign       \* the end of a set_mapping/take_mapping that is still to come

vars == <<holds, refCount, status, immutable, destroying, caller, writer,
          sealing, assign>>

NoAssign == [node |-> Null, container |-> Null, taken |-> Null]

-----------------------------------------------------------------------------
FieldsOf(o) == {s \in Slot : s[1] = o}
Owners(o)   == {s \in Slot : holds[s] = o}
ChildrenOf(o) == {holds[s] : s \in FieldsOf(o)} \ {Null}

Idle(t) == destroying[t] = Null /\ writer # t

\* The pointers a thread can name: the references it owns, and what the get_*
\* functions return from those, read only from objects nobody is modifying.
Owned(t)    == {holds[<<t, v>>] : v \in Variable} \ {Null}
Readable(o) == immutable[o] \/ writer = Null
Visible(t)  == Owned(t) \cup UNION {ChildrenOf(o) : o \in {p \in Owned(t) : Readable(p)}}

Init ==
    /\ holds = [s \in Slot |-> Null]
    /\ refCount = [o \in Object |-> 0]
    /\ status = [o \in Object |-> "free"]
    /\ immutable = [o \in Object |-> FALSE]
    /\ destroying = [t \in Thread |-> Null]
    /\ caller = [o \in Object |-> Null]
    /\ writer = Null
    /\ sealing = {}
    /\ assign = NoAssign

-----------------------------------------------------------------------------
(* References. *)

\* yaml_*_unref by thread t, from the counters `counts': the thread that brings
\* the counter to zero enters the destructor.
Unref(t, o, counts) ==
    /\ refCount' = [counts EXCEPT ![o] = @ - 1]
    /\ IF counts[o] = 1
         THEN /\ status' = [status EXCEPT ![o] = "dying"]
              /\ caller' = [caller EXCEPT ![o] = destroying[t]]
              /\ destroying' = [destroying EXCEPT ![t] = o]
         ELSE UNCHANGED <<status, caller, destroying>>

\* g_clear_pointer and the destroy notifies of the containers: NULL is skipped.
UnrefIfSet(t, o, counts) ==
    IF o = Null
      THEN refCount' = counts /\ UNCHANGED <<status, caller, destroying>>
      ELSE Unref(t, o, counts)

Incremented(o) == [refCount EXCEPT ![o] = @ + 1]

\* The modifying call returns at once, unless it entered a destructor.
WriterReturns(t) == writer' = IF destroying'[t] = Null THEN Null ELSE t

\* yaml_node_alloc (and init of a null or scalar), yaml_mapping_new,
\* yaml_sequence_new: a fresh object with one reference, the caller's.
New(t, v, o) ==
    /\ Idle(t) /\ holds[<<t, v>>] = Null /\ status[o] = "free"
    /\ holds' = [holds EXCEPT ![<<t, v>>] = o]
    /\ status' = [status EXCEPT ![o] = "live"]
    /\ refCount' = [refCount EXCEPT ![o] = 1]
    /\ immutable' = [immutable EXCEPT ![o] = FALSE]
    /\ UNCHANGED <<destroying, caller, writer, sealing, assign>>

\* yaml_node_new_mapping / yaml_node_new_sequence: a fresh node with a new
\* reference to c, or with a fresh container when the argument is NULL.
NewHolding(t, v, n, c) ==
    /\ Idle(t) /\ holds[<<t, v>>] = Null /\ status[n] = "free"
    /\ c \in Visible(t) \/ status[c] = "free"
    /\ holds' = [holds EXCEPT ![<<t, v>>] = n, ![<<n, "data">>] = c]
    /\ status' = [status EXCEPT ![n] = "live", ![c] = "live"]
    /\ refCount' = [refCount EXCEPT ![n] = 1, ![c] = @ + 1]
    /\ immutable' = [immutable EXCEPT ![n] = FALSE, ![c] = immutable[c] /\ status[c] = "live"]
    /\ UNCHANGED <<destroying, caller, writer, sealing, assign>>

\* yaml_*_ref and the dup_* functions; the new reference may be handed to a
\* variable of another thread.
Ref(t, o, u, v) ==
    /\ Idle(t) /\ o \in Visible(t) /\ holds[<<u, v>>] = Null
    /\ holds' = [holds EXCEPT ![<<u, v>>] = o]
    /\ refCount' = Incremented(o)
    /\ UNCHANGED <<status, immutable, destroying, caller, writer, sealing, assign>>

\* yaml_node_unref, yaml_mapping_unref, yaml_sequence_unref on a variable.
Drop(t, v) ==
    /\ Idle(t) /\ holds[<<t, v>>] # Null
    /\ holds' = [holds EXCEPT ![<<t, v>>] = Null]
    /\ Unref(t, holds[<<t, v>>], refCount)
    /\ UNCHANGED <<immutable, writer, sealing, assign>>

-----------------------------------------------------------------------------
(* Destructors. *)

\* The next owned field a destructor drops: members in any order (a hash
\* table), elements by index.
NextField(o, s) ==
    /\ s \in FieldsOf(o) /\ holds[s] # Null
    /\ o \in Sequence => \A q \in FieldsOf(o) : q[2] < s[2] => holds[q] = Null

\* yaml_node_clear_internal, g_hash_table_destroy or g_ptr_array_free inside the
\* destructor drops one field.
DestroyField(t) ==
    /\ destroying[t] # Null
    /\ \E s \in FieldsOf(destroying[t]) :
         /\ NextField(destroying[t], s)
         /\ holds' = [holds EXCEPT ![s] = Null]
         /\ Unref(t, holds[s], refCount)
    /\ UNCHANGED <<immutable, writer, sealing, assign>>

\* The memory is returned without dropping the fields.
FreeObject_Shallow(t) ==
    LET o == destroying[t] IN
    /\ o # Null
    /\ holds' = [s \in Slot |-> IF s[1] = o THEN Null ELSE holds[s]]
    /\ status' = [status EXCEPT ![o] = "free"]
    /\ destroying' = [destroying EXCEPT ![t] = caller[o]]
    /\ UNCHANGED <<refCount, immutable, caller, writer, sealing, assign>>

\* The destructor that called this one is forgotten.
FreeObject_NoReturn(t) ==
    LET o == destroying[t] IN
    /\ o # Null
    /\ \A s \in FieldsOf(o) : holds[s] = Null
    /\ status' = [status EXCEPT ![o] = "free"]
    /\ destroying' = [destroying EXCEPT ![t] = Null]
    /\ UNCHANGED <<holds, refCount, immutable, caller, writer, sealing, assign>>

\* g_slice_free, and the return to the destructor or the call this one is in.
FreeObject(t) ==
    LET o == destroying[t] IN
    /\ o # Null
    /\ \A s \in FieldsOf(o) : holds[s] = Null
    /\ status' = [status EXCEPT ![o] = "free"]
    /\ immutable' = [immutable EXCEPT ![o] = FALSE]
    /\ destroying' = [destroying EXCEPT ![t] = caller[o]]
    /\ caller' = [caller EXCEPT ![o] = Null]
    /\ writer' = IF writer = t /\ caller[o] = Null /\ assign = NoAssign
                   THEN Null ELSE writer
    /\ UNCHANGED <<holds, refCount, sealing, assign>>

-----------------------------------------------------------------------------
(* Modification. *)

\* The immutable flag is not looked at.
MayWrite_Unchecked(t, o) == Idle(t) /\ writer = Null /\ o \in Visible(t)

\* A call may modify an object it can see, unless the object is immutable: then
\* it warns and returns, which changes nothing and is not an action.
MayWrite(t, o) == Idle(t) /\ writer = Null /\ o \in Visible(t) /\ ~immutable[o]

\* The member is stored without a reference of its own.
SetMember_Unreferenced(t, m, k, n) ==
    /\ MayWrite(t, m) /\ n \in Visible(t)
    /\ holds' = [holds EXCEPT ![<<m, k>>] = n]
    /\ UnrefIfSet(t, holds[<<m, k>>], refCount)
    /\ WriterReturns(t)
    /\ UNCHANGED <<immutable, sealing, assign>>

\* yaml_mapping_set_member: the new value is referenced before the hash table
\* drops the one it replaces.
SetMember(t, m, k, n) ==
    /\ MayWrite(t, m) /\ n \in Visible(t)
    /\ holds' = [holds EXCEPT ![<<m, k>>] = n]
    /\ UnrefIfSet(t, holds[<<m, k>>], Incremented(n))
    /\ WriterReturns(t)
    /\ UNCHANGED <<immutable, sealing, assign>>

\* The entry stays in the table after its value was dropped.
RemoveMember_KeepsEntry(t, m, k) ==
    /\ MayWrite(t, m) /\ holds[<<m, k>>] # Null
    /\ Unref(t, holds[<<m, k>>], refCount)
    /\ WriterReturns(t)
    /\ UNCHANGED <<holds, immutable, sealing, assign>>

\* yaml_mapping_remove_member of a member that is there.
RemoveMember(t, m, k) ==
    /\ MayWrite(t, m) /\ holds[<<m, k>>] # Null
    /\ holds' = [holds EXCEPT ![<<m, k>>] = Null]
    /\ Unref(t, holds[<<m, k>>], refCount)
    /\ WriterReturns(t)
    /\ UNCHANGED <<immutable, sealing, assign>>

\* yaml_sequence_add_element: i is the first position that is not in use.
AddElement(t, q, i, n) ==
    /\ MayWrite(t, q) /\ n \in Visible(t)
    /\ holds[<<q, i>>] = Null /\ \A j \in 1..(i - 1) : holds[<<q, j>>] # Null
    /\ holds' = [holds EXCEPT ![<<q, i>>] = n]
    /\ refCount' = Incremented(n)
    /\ UNCHANGED <<status, immutable, destroying, caller, writer, sealing, assign>>

\* The elements move up from one position too far.
ElementsWithout_OffByOne(q, i) ==
    [s \in Slot |->
        IF s[1] = q /\ s[2] > i
          THEN IF s[2] < MaxLength THEN holds[<<q, s[2] + 1>>] ELSE Null
          ELSE holds[s]]

\* The array after g_ptr_array_remove_index: the elements behind move up.
ElementsWithout(q, i) ==
    [s \in Slot |->
        IF s[1] = q /\ s[2] >= i
          THEN IF s[2] < MaxLength THEN holds[<<q, s[2] + 1>>] ELSE Null
          ELSE holds[s]]

\* yaml_sequence_remove_element with an index in range.
RemoveElement(t, q, i) ==
    /\ MayWrite(t, q) /\ holds[<<q, i>>] # Null
    /\ holds' = ElementsWithout(q, i)
    /\ Unref(t, holds[<<q, i>>], refCount)
    /\ WriterReturns(t)
    /\ UNCHANGED <<immutable, sealing, assign>>

\* yaml_node_set_string, _set_int, ...: the container of the node is dropped and
\* the node becomes a scalar, which owns no object.
SetScalar(t, n) ==
    /\ MayWrite(t, n)
    /\ holds' = [holds EXCEPT ![<<n, "data">>] = Null]
    /\ UnrefIfSet(t, holds[<<n, "data">>], refCount)
    /\ WriterReturns(t)
    /\ UNCHANGED <<immutable, sealing, assign>>

\* yaml_node_set_mapping / _set_sequence up to the end of clear_internal.
SetContainer(t, n, c) ==
    /\ MayWrite(t, n)
    /\ c \in (IF BorrowedArguments THEN Visible(t) ELSE Owned(t))
    /\ holds' = [holds EXCEPT ![<<n, "data">>] = Null]
    /\ UnrefIfSet(t, holds[<<n, "data">>], refCount)
    /\ writer' = t
    /\ assign' = [node |-> n, container |-> c, taken |-> Null]
    /\ UNCHANGED <<immutable, sealing>>

\* The caller's reference is released before the container is stored.
TakeContainer_ReleasesFirst(t, n, v) ==
    /\ MayWrite(t, n) /\ holds[<<t, v>>] \in Container
    /\ holds[<<n, "data">>] = Null
    /\ holds' = [holds EXCEPT ![<<t, v>>] = Null]
    /\ Unref(t, holds[<<t, v>>], refCount)
    /\ writer' = t
    /\ assign' = [node |-> n, container |-> holds[<<t, v>>], taken |-> v]
    /\ UNCHANGED <<immutable, sealing>>

\* yaml_node_take_mapping / _take_sequence up to the end of clear_internal.
TakeContainer(t, n, v) ==
    /\ MayWrite(t, n) /\ holds[<<t, v>>] \in Container
    /\ holds' = [holds EXCEPT ![<<n, "data">>] = Null]
    /\ UnrefIfSet(t, holds[<<n, "data">>], refCount)
    /\ writer' = t
    /\ assign' = [node |-> n, container |-> holds[<<t, v>>], taken |-> v]
    /\ UNCHANGED <<immutable, sealing>>

\* take_* on an immutable node: the reference is consumed all the same.
TakeRefused(t, n, v) ==
    /\ Idle(t) /\ n \in Visible(t) /\ immutable[n] /\ holds[<<t, v>>] \in Container
    /\ holds' = [holds EXCEPT ![<<t, v>>] = Null]
    /\ Unref(t, holds[<<t, v>>], refCount)
    /\ UNCHANGED <<immutable, writer, sealing, assign>>

\* The last line of set_* (a new reference) and of take_* (the caller's).
FinishAssign(t) ==
    /\ writer = t /\ destroying[t] = Null /\ assign # NoAssign
    /\ IF assign.taken = Null
         THEN /\ holds' = [holds EXCEPT ![<<assign.node, "data">>] = assign.container]
              /\ refCount' = Incremented(assign.container)
         ELSE /\ holds' = [holds EXCEPT ![<<assign.node, "data">>] = assign.container,
                                        ![<<t, assign.taken>>] = Null]
              /\ UNCHANGED refCount
    /\ writer' = Null
    /\ assign' = NoAssign
    /\ UNCHANGED <<status, immutable, destroying, caller, sealing>>

-----------------------------------------------------------------------------
(* Sealing. *)

\* yaml_node_seal, yaml_mapping_seal or yaml_sequence_seal is called on o.
Seal(t, o) ==
    /\ Idle(t) /\ writer = Null /\ o \in Visible(t)
    /\ writer' = t
    /\ sealing' = {o}
    /\ UNCHANGED <<holds, refCount, status, immutable, destroying, caller, assign>>

\* The children are not visited.
SealObject_Shallow(t) ==
    /\ writer = t
    /\ \E o \in sealing :
         /\ immutable' = [immutable EXCEPT ![o] = TRUE]
         /\ sealing' = sealing \ {o}
    /\ writer' = IF sealing' = {} THEN Null ELSE t
    /\ UNCHANGED <<holds, refCount, status, destroying, caller, assign>>

\* The early return on an immutable object is missing.
SealObject_NoEarlyReturn(t) ==
    /\ writer = t
    /\ \E o \in sealing :
         /\ immutable' = [immutable EXCEPT ![o] = TRUE]
         /\ sealing' = (sealing \ {o}) \cup ChildrenOf(o)
    /\ writer' = IF sealing' = {} THEN Null ELSE t
    /\ UNCHANGED <<holds, refCount, status, destroying, caller, assign>>

\* One call of the recursion: nothing on an immutable object, else the flag is
\* set before the children are visited.
SealObject(t) ==
    /\ writer = t
    /\ \E o \in sealing :
         /\ immutable' = [immutable EXCEPT ![o] = TRUE]
         /\ sealing' = (sealing \ {o}) \cup (IF immutable[o] THEN {} ELSE ChildrenOf(o))
    /\ writer' = IF sealing' = {} THEN Null ELSE t
    /\ UNCHANGED <<holds, refCount, status, destroying, caller, assign>>

-----------------------------------------------------------------------------
Call(t) ==
    \/ \E v \in Variable : \E o \in Object : New(t, v, o)
    \/ \E v \in Variable, n \in Node, c \in Container : NewHolding(t, v, n, c)
    \/ \E o \in Object, u \in Thread, v \in Variable : Ref(t, o, u, v)
    \/ \E v \in Variable : Drop(t, v)
    \/ \E m \in Mapping, k \in Key, n \in Node : SetMember(t, m, k, n)
    \/ \E m \in Mapping, k \in Key : RemoveMember(t, m, k)
    \/ \E q \in Sequence, i \in Position, n \in Node : AddElement(t, q, i, n)
    \/ \E q \in Sequence, i \in Position : RemoveElement(t, q, i)
    \/ \E n \in Node : SetScalar(t, n)
    \/ \E n \in Node, c \in Container : SetContainer(t, n, c)
    \/ \E n \in Node, v \in Variable : TakeContainer(t, n, v)
    \/ \E n \in Node, v \in Variable : TakeRefused(t, n, v)
    \/ \E o \in Object : Seal(t, o)

\* What runs to the end by itself once called.
Continue(t) == DestroyField(t) \/ FreeObject(t) \/ FinishAssign(t) \/ SealObject(t)

Next == \E t \in Thread : Call(t) \/ Continue(t)

Spec == Init /\ [][Next]_vars

\* A thread that is inside a library call is scheduled.
FairSpec == Spec /\ \A t \in Thread : WF_vars(Continue(t))

-----------------------------------------------------------------------------
(* What the heap promises. *)

\* The variables have the types of the C fields; counters never go negative.
TypeOK ==
    /\ holds \in [Slot -> Object \cup {Null}]
    /\ \A s \in DataSlot : holds[s] \in Container \cup {Null}
    /\ \A s \in MemberSlot \cup ElementSlot : holds[s] \in Node \cup {Null}
    /\ refCount \in [Object -> Nat]
    /\ status \in [Object -> {"free", "live", "dying"}]
    /\ immutable \in [Object -> BOOLEAN]
    /\ destroying \in [Thread -> Object \cup {Null}]
    /\ caller \in [Object -> Object \cup {Null}]
    /\ writer \in Thread \cup {Null}
    /\ sealing \in SUBSET Object
    /\ assign = NoAssign \/ assign \in [node : Node, container : Container,
                                          taken : Variable \cup {Null}]

\* The ref_count field is the number of references that exist, whatever the
\* threads are doing and however far a destructor has come: no reference is
\* lost (a leak) and none is dropped twice (memory-management.org:5-15).
RefCountsExact == \A o \in Object : refCount[o] = Cardinality(Owners(o))

\* Nothing refers to an object whose destructor has started: not a variable, a
\* container or a half-destroyed object.  There is no use after free through an
\* owned reference, whatever the other threads drop.
NoDangling == \A s \in Slot : holds[s] # Null => status[holds[s]] = "live"

\* The objects a call in progress will still touch are alive when it gets to
\* them: the node and the container of yaml_node_set_mapping outlive the
\* clear_internal that runs before the container is stored (yaml-node.c:516-518),
\* and no thread frees an object the recursion of seal is on its way to.
CallsTouchLiveObjects ==
    /\ \A o \in sealing : status[o] = "live"
    /\ assign # NoAssign => /\ status[assign.node] = "live"
                            /\ status[assign.container] = "live"

\* yaml_node_seal seals "a node and all its children" (yaml-node.h:31-32): an
\* immutable object has no mutable child, except one the seal in progress is
\* about to reach.  Holds through aliases, cycles and partial overlap of graphs.
SealedClosed ==
    \A o \in Object : immutable[o] /\ status[o] = "live"
        => \A c \in ChildrenOf(o) : immutable[c] \/ c \in sealing

\* "Immutable mappings cannot be modified and are safe to share between threads
\* without synchronization" (yaml-mapping.h:30-32): no step of any thread changes
\* a field of a live immutable object, or makes it mutable again.
SealedFrozen ==
    [][\A o \in Object :
         immutable[o] /\ status[o] = "live"
           => /\ \A s \in FieldsOf(o) : holds'[s] = holds[s]
              /\ status'[o] = "live" => immutable'[o]]_vars

\* A destructor that was entered ends, with the memory returned: the recursion
\* of the unref functions is finite on every graph they can meet.
DestructorsEnd == \A o \in Object : status[o] = "dying" ~> status[o] = "free"

\* A modifying or sealing call returns; sealing ends on cyclic graphs too.
CallsReturn == \A t \in Thread : writer = t ~> writer # t

-----------------------------------------------------------------------------
(* The parts of the inductive invariant the proofs add to the promises. *)

\* An object is live exactly while its counter is positive.
LiveIffCounted == \A o \in Object : status[o] = "live" <=> refCount[o] > 0

\* Free memory refers to nothing.
FreeIsEmpty == \A o \in Object : status[o] = "free" => \A s \in FieldsOf(o) : holds[s] = Null

\* The destructors in progress form one call stack per thread.
StacksAreDisjoint ==
    /\ \A t \in Thread : destroying[t] # Null => status[destroying[t]] = "dying"
    /\ \A o \in Object : caller[o] # Null => status[o] = "dying" /\ status[caller[o]] = "dying"
    /\ \A t, u \in Thread : destroying[t] = destroying[u] /\ destroying[t] # Null => t = u
    /\ \A o, p \in Object : caller[o] = caller[p] /\ caller[o] # Null => o = p
    /\ \A t \in Thread, o \in Object : destroying[t] # Null => destroying[t] # caller[o]

\* A call in progress belongs to the writer, and does one thing.
OneCall ==
    /\ sealing # {} => writer # Null /\ destroying[writer] = Null /\ assign = NoAssign
    /\ assign # NoAssign => writer # Null

\* Between clear_internal and the assignment, the writer still reaches the node
\* and still owns the container, and the node is empty and mutable.
AssignIsSafe ==
    assign # NoAssign =>
      /\ \E v \in Variable :
           LET o == holds[<<writer, v>>] IN
           \/ o = assign.node
           \/ o \in Container /\ \E s \in FieldsOf(o) : holds[s] = assign.node
      /\ holds[<<assign.node, "data">>] = Null
      /\ ~immutable[assign.node]
      /\ \E v \in Variable : /\ holds[<<writer, v>>] = assign.container
                             /\ assign.taken \in {Null, v}

\* The recursion of seal stays inside a set of objects in which each is held by a
\* variable of the writer or by another of the set: nobody else can free them.
SealSupported ==
    sealing # {} =>
      \E R \in SUBSET Object :
        /\ sealing \subseteq R
        /\ \A r \in R : \/ r \in Owned(writer)
                       \/ \E p \in R : r \in ChildrenOf(p)

\* SealedClosed relies on nothing but the counts.
CountInv == TypeOK /\ RefCountsExact /\ LiveIffCounted /\ FreeIsEmpty
            /\ StacksAreDisjoint /\ OneCall /\ AssignIsSafe

=============================================================================
