------------------------ MODULE YamlGeneratorProofs ------------------------
(***************************************************************************)
(* Proofs about YamlGenerator.  Its answers are true: a write that goes on *)
(* holds the text of its call, and what the program does to the tree, the  *)
(* options and the generator in the meantime changes no write; the answer  *)
(* is not given before the target is what it will be.  Its counters are    *)
(* exact: each step moves the counter of an object by as much as it moves  *)
(* the number of places that refer to it.                                  *)
(***************************************************************************)
EXTENDS YamlGenerator, FiniteFacts

Fields == {"at", "async", "asked", "data", "failed", "cancelled", "answer"}

\* A write, r, has all its fields; what its texts are does not matter.
IsWrite(r) == DOMAIN r = Fields /\ r.failed \in BOOLEAN /\ r.cancelled \in BOOLEAN

WriteShape ==
    /\ DOMAIN write = Write /\ write = [w \in Write |-> write[w]]
    /\ DOMAIN target = Write /\ target = [w \in Write |-> target[w]]
    /\ \A w \in Write : IsWrite(write[w])

\* What AnswersAreTrue says of a write, r, and its target.
TrueOf(r, put) ==
    /\ put \in {Null, Part, r.asked}
    /\ r.answer = TRUE  => put = r.asked /\ put # Null
    /\ r.answer = FALSE => r.failed \/ r.cancelled
    /\ r.asked = Null   => put = Null

\* Where a write is in its life, and what is known there: it has no answer before its
\* callback; it writes the text of its call; and it has returned with success only if
\* that is in the target.
StageOf(r, put) ==
    /\ r.at \in {"unused", "writing", "returned", "callback", "done"}
    /\ r.at \in {"unused", "writing", "returned"} => r.answer = Null
    /\ r.at \in {"unused", "writing"} => put = Null
    /\ r.at = "writing" => r.data = r.asked /\ r.data # Null
    /\ r.at = "returned" /\ ~r.failed => put = r.asked /\ put # Null

AnswerInv ==
    /\ WriteShape
    /\ \A w \in Write : TrueOf(write[w], target[w]) /\ StageOf(write[w], target[w])

\* An answer is not the null pointer (GeneratorAssumption).
LEMMA NoAnswerYet == Null # TRUE /\ Null # FALSE
BY GeneratorAssumption

\* Nothing is written and nothing is answered at first.
LEMMA AnswerInit == Init => AnswerInv
<1> SUFFICES ASSUME Init PROVE AnswerInv
  OBVIOUS
<1>1. WriteShape
  BY DEF Init, WriteShape, NoWrite, IsWrite, Fields
<1>2. ASSUME NEW w \in Write PROVE TrueOf(write[w], target[w]) /\ StageOf(write[w], target[w])
  BY <1>2, NoAnswerYet DEF Init, NoWrite, TrueOf, StageOf
<1>3. QED
  BY <1>1, <1>2 DEF AnswerInv

\* A step that changes one write and its target, and these as the invariant allows.
LEMMA OneWriteChanges ==
  ASSUME AnswerInv, NEW v \in Write, NEW r, NEW put,
         write' = [write EXCEPT ![v] = r], target' = [target EXCEPT ![v] = put],
         IsWrite(r), TrueOf(r, put), StageOf(r, put)
  PROVE  AnswerInv'
<1>1. \A w \in Write : /\ write'[w] = IF w = v THEN r ELSE write[w]
                       /\ target'[w] = IF w = v THEN put ELSE target[w]
  BY DEF AnswerInv, WriteShape
<1>2. WriteShape'
  <2>1. /\ DOMAIN write' = Write /\ write' = [w \in Write |-> write'[w]]
        /\ DOMAIN target' = Write /\ target' = [w \in Write |-> target'[w]]
    BY DEF AnswerInv, WriteShape
  <2>2. QED
    BY <1>1, <2>1 DEF AnswerInv, WriteShape, IsWrite
<1>3. ASSUME NEW w \in Write
      PROVE  TrueOf(write'[w], target'[w]) /\ StageOf(write'[w], target'[w])
  <2>1. CASE w = v
    BY <1>1, <2>1
  <2>2. CASE w # v
    BY <1>1, <2>2 DEF AnswerInv
  <2>3. QED
    BY <2>1, <2>2
<1>4. QED
  BY <1>2, <1>3 DEF AnswerInv, TrueOf, StageOf

\* A step that touches no write and no target: the calls that change trees and settings.
LEMMA NoWriteChanges ==
  ASSUME AnswerInv, write' = write, target' = target
  PROVE  AnswerInv'
BY DEF AnswerInv, WriteShape, IsWrite, TrueOf, StageOf

\* A synchronous write puts out the text of its call before it answers, or reports a fault.
LEMMA WriteSyncKeeps ==
  ASSUME AnswerInv, NEW w \in Write, NEW fault, WriteSync(w, fault)
  PROVE  AnswerInv'
<1> DEFINE data   == IF fault = "emitter" THEN Null ELSE ToData
           failed == data = Null \/ fault # "none"
           r      == [write[w] EXCEPT !.at = "done", !.asked = ToData,
                                      !.failed = failed, !.answer = ~failed]
           put    == IF data # Null /\ failed THEN Part ELSE data
<1>1. write' = [write EXCEPT ![w] = r] /\ target' = [target EXCEPT ![w] = put]
  BY DEF WriteSync, AnswerInv, WriteShape
<1>2. /\ IsWrite(r) /\ r.at = "done"
      /\ r.asked = ToData /\ r.failed = failed /\ r.answer = ~failed
  BY DEF AnswerInv, WriteShape, IsWrite, Fields
<1> HIDE DEF r
<1>3. TrueOf(r, put)
  <2>1. CASE failed
    <3>1. r.answer # TRUE /\ r.failed = TRUE
      BY <1>2, <2>1
    <3>2. QED
      BY <1>2, <3>1 DEF TrueOf
  <2>2. CASE ~failed
    <3>1. r.answer # FALSE /\ put = r.asked /\ put # Null
      BY <1>2, <2>2
    <3>2. QED
      BY <3>1 DEF TrueOf
  <2>3. QED
    BY <2>1, <2>2
<1>4. StageOf(r, put)
  BY <1>2 DEF StageOf
<1>5. QED
  BY <1>1, <1>2, <1>3, <1>4, OneWriteChanges

\* An asynchronous write keeps the text of its call, or has failed before it began.
LEMMA WriteAsyncKeeps ==
  ASSUME AnswerInv, NEW w \in Write, NEW fault, WriteAsync(w, fault)
  PROVE  AnswerInv'
<1> DEFINE data == IF fault = "emitter" THEN Null ELSE ToData
           r    == [write[w] EXCEPT !.at = IF data = Null THEN "returned" ELSE "writing",
                                    !.async = TRUE, !.asked = ToData, !.data = data,
                                    !.failed = data = Null]
<1>1. write' = [write EXCEPT ![w] = r] /\ target' = [target EXCEPT ![w] = target[w]]
  BY DEF WriteAsync, AnswerInv, WriteShape
<1>2. /\ IsWrite(r) /\ r.at = IF data = Null THEN "returned" ELSE "writing"
      /\ r.asked = ToData /\ r.data = data /\ r.failed = (data = Null)
      /\ r.answer = write[w].answer
  BY DEF AnswerInv, WriteShape, IsWrite, Fields
<1>3. write[w].answer = Null /\ target[w] = Null
  BY DEF WriteAsync, AnswerInv, StageOf, TrueOf
<1> HIDE DEF r
<1>4. TrueOf(r, target[w])
  <2>1. r.answer = Null
    BY <1>2, <1>3
  <2>2. QED
    BY <2>1, <1>3, NoAnswerYet DEF TrueOf
<1>5. StageOf(r, target[w])
  <2>1. r.at \in {"writing", "returned"} /\ (r.at = "returned" => r.failed)
    BY <1>2
  <2>2. r.at = "writing" => r.data = r.asked /\ r.data # Null
    BY <1>2
  <2>3. QED
    BY <1>2, <1>3, <2>1, <2>2 DEF StageOf
<1>6. QED
  BY <1>1, <1>2, <1>4, <1>5, OneWriteChanges

\* The steps of a write that is on its way: each changes a field or two of it.
LEMMA WriteEndsKeeps ==
  ASSUME AnswerInv, NEW w \in Write, WriteDone(w) \/ WriteFails(w)
  PROVE  AnswerInv'
<1>1. /\ write[w].at = "writing" /\ write[w].data = write[w].asked /\ write[w].data # Null
      /\ write[w].answer = Null
  BY DEF AnswerInv, StageOf, WriteDone, WriteFails
<1> DEFINE Now(fails) == [write[w] EXCEPT !.at = "returned", !.failed = fails]
<1>2. ASSUME NEW fails \in BOOLEAN
      PROVE  /\ IsWrite(Now(fails)) /\ Now(fails).at = "returned"
             /\ Now(fails).asked = write[w].asked /\ Now(fails).failed = fails
             /\ Now(fails).answer = Null
  BY <1>1 DEF AnswerInv, WriteShape, IsWrite, Fields
<1>3. write[w].failed \in BOOLEAN
  BY DEF AnswerInv, WriteShape, IsWrite
<1> HIDE DEF Now
<1>4. CASE WriteDone(w)
  <2>1. write' = [write EXCEPT ![w] = Now(write[w].failed)]
    BY <1>4 DEF WriteDone, AnswerInv, WriteShape, Now
  <2>2. target' = [target EXCEPT ![w] = write[w].data]
    BY <1>4 DEF WriteDone
  <2>3. TrueOf(Now(write[w].failed), write[w].data)
    BY <1>1, <1>2, <1>3, NoAnswerYet DEF TrueOf
  <2>4. StageOf(Now(write[w].failed), write[w].data)
    BY <1>1, <1>2, <1>3 DEF StageOf
  <2>5. QED
    BY <1>2, <1>3, <2>1, <2>2, <2>3, <2>4, OneWriteChanges
<1>5. CASE WriteFails(w)
  <2>1. write' = [write EXCEPT ![w] = Now(TRUE)]
    BY <1>5 DEF WriteFails, AnswerInv, WriteShape, Now
  <2>2. PICK put \in {Part, Null} : target' = [target EXCEPT ![w] = put]
    BY <1>5 DEF WriteFails
  <2>3. TrueOf(Now(TRUE), put)
    BY <1>1, <1>2, <2>2, NoAnswerYet DEF TrueOf
  <2>4. StageOf(Now(TRUE), put)
    BY <1>1, <1>2, <2>2 DEF StageOf
  <2>5. QED
    BY <1>2, <1>3, <2>1, <2>2, <2>3, <2>4, OneWriteChanges
<1>6. QED
  BY <1>4, <1>5

\* A cancellation is a reason for a failure and changes nothing else.
LEMMA CancelKeeps ==
  ASSUME AnswerInv, NEW w \in Write, Cancel(w)
  PROVE  AnswerInv'
<1> DEFINE r == [write[w] EXCEPT !.cancelled = TRUE]
<1>1. write' = [write EXCEPT ![w] = r] /\ target' = [target EXCEPT ![w] = target[w]]
  BY DEF Cancel, AnswerInv, WriteShape
<1>2. /\ IsWrite(r) /\ r.at = write[w].at /\ r.asked = write[w].asked
      /\ r.data = write[w].data /\ r.failed = write[w].failed /\ r.answer = write[w].answer
  BY DEF AnswerInv, WriteShape, IsWrite, Fields
<1> HIDE DEF r
<1>3. TrueOf(write[w], target[w]) /\ StageOf(write[w], target[w]) /\ write[w].answer = Null
  BY DEF AnswerInv, StageOf, Cancel
<1>4. TrueOf(r, target[w])
  BY <1>2, <1>3, NoAnswerYet DEF TrueOf
<1>5. StageOf(r, target[w])
  BY <1>2, <1>3 DEF StageOf
<1>6. QED
  BY <1>1, <1>2, <1>4, <1>5, OneWriteChanges

\* The answer is given from what the write returned with.
LEMMA CallBackKeeps ==
  ASSUME AnswerInv, NEW w \in Write, CallBack(w)
  PROVE  AnswerInv'
<1> DEFINE success == ~write[w].failed /\ ~write[w].cancelled
           r == [write[w] EXCEPT !.at = "callback", !.answer = success]
<1>1. write' = [write EXCEPT ![w] = r] /\ target' = [target EXCEPT ![w] = target[w]]
  BY DEF CallBack, AnswerInv, WriteShape
<1>2. /\ IsWrite(r) /\ r.at = "callback" /\ r.asked = write[w].asked
      /\ r.failed = write[w].failed /\ r.cancelled = write[w].cancelled /\ r.answer = success
  BY DEF AnswerInv, WriteShape, IsWrite, Fields
<1> HIDE DEF r
<1>3. /\ TrueOf(write[w], target[w])
      /\ ~write[w].failed => target[w] = write[w].asked /\ target[w] # Null
  BY DEF AnswerInv, StageOf, CallBack
<1>4. TrueOf(r, target[w])
  <2>1. CASE success
    <3>1. r.answer # FALSE /\ target[w] = r.asked /\ target[w] # Null
      BY <1>2, <1>3, <2>1
    <3>2. QED
      BY <3>1 DEF TrueOf
  <2>2. CASE ~success
    <3>1. r.answer # TRUE /\ (r.failed \/ r.cancelled)
      BY <1>2, <2>2
    <3>2. QED
      BY <1>2, <1>3, <3>1 DEF TrueOf
  <2>3. QED
    BY <2>1, <2>2
<1>5. StageOf(r, target[w])
  BY <1>2 DEF StageOf
<1>6. QED
  BY <1>1, <1>2, <1>4, <1>5, OneWriteChanges

\* A write that is over is forgotten with its target, and nothing about it can be false.
LEMMA CallbackReturnsKeeps ==
  ASSUME AnswerInv, CallbackReturns
  PROVE  AnswerInv'
<1>1. CASE running \in Write
  <2>1. write' = [write EXCEPT ![running] = Over] /\ target' = [target EXCEPT ![running] = Null]
    BY DEF CallbackReturns
  <2>2. IsWrite(Over) /\ Over.at = "done" /\ Over.asked = Null /\ Over.answer = Null
    BY DEF Over, NoWrite, IsWrite, Fields
  <2>3. TrueOf(Over, Null)
    BY <2>2, NoAnswerYet DEF TrueOf
  <2>4. StageOf(Over, Null)
    BY <2>2 DEF StageOf
  <2>5. QED
    BY <1>1, <2>1, <2>2, <2>3, <2>4, OneWriteChanges
<1>2. CASE running \notin Write
  <2>1. write' = write /\ target' = target
    BY <1>2 DEF CallbackReturns, AnswerInv, WriteShape
  <2>2. QED
    BY <2>1, NoWriteChanges
<1>3. QED
  BY <1>1, <1>2

\* Every step preserves the invariant.
LEMMA AnswerNext ==
  ASSUME AnswerInv, [Next]_vars
  PROVE  AnswerInv'
<1>1. CASE Step
  BY <1>1, WriteEndsKeeps, CallBackKeeps, CallbackReturnsKeeps DEF Step
<1>2. CASE Call
  <2>1. ASSUME NEW w \in Write, NEW fault, WriteSync(w, fault) \/ WriteAsync(w, fault)
        PROVE  AnswerInv'
    BY <2>1, WriteSyncKeeps, WriteAsyncKeeps
  <2>2. ASSUME NEW w \in Write, Cancel(w)
        PROVE  AnswerInv'
    BY <2>2, CancelKeeps
  <2>3. ASSUME \/ \E n \in Node : SetRoot(n) \/ Edit(n) \/ UnrefNode(n)
               \/ \E d \in Document : SetDocument(d) \/ UnrefDocument(d)
               \/ \E d \in Document, n \in Node : SetDocumentRoot(d, n)
               \/ SetRoot(Null) \/ SetDocument(Null) \/ UnrefGenerator
               \/ \E o \in Option : SetOption(o)
        PROVE  AnswerInv'
    <3>1. write' = write /\ target' = target
      BY <2>3 DEF SetRoot, Edit, UnrefNode, SetDocument, UnrefDocument, SetDocumentRoot,
                  UnrefGenerator, SetOption, work
    <3>2. QED
      BY <3>1, NoWriteChanges
  <2>4. QED
    BY <1>2, <2>1, <2>2, <2>3 DEF Call
<1>3. CASE UNCHANGED vars
  BY <1>3, NoWriteChanges DEF vars, work
<1>4. QED
  BY <1>1, <1>2, <1>3 DEF Next

\* For any number of writes, trees and documents, and whatever the program does while
\* they are on their way: a write that is reported as done has put out the text of its
\* call, and one that is reported as failed did fail or was cancelled.
THEOREM AnswersStayTrue == Spec => []AnswersAreTrue
<1>1. Init => AnswerInv
  BY AnswerInit
<1>2. AnswerInv /\ [Next]_vars => AnswerInv'
  BY AnswerNext
<1>3. AnswerInv => AnswersAreTrue
  BY DEF AnswerInv, AnswersAreTrue, TrueOf
<1>4. QED
  BY <1>1, <1>2, <1>3, PTL DEF Spec

-----------------------------------------------------------------------------
(* The counters. *)

NodeRecord == [refs : Int, edits : Int]
DocRecord  == [refs : Int, root : Node \cup {Null}]

GeneratorTypes ==
    /\ refs \in Int /\ holding \in BOOLEAN
    /\ root \in Node \cup {Null} /\ document \in Document \cup {Null}
    /\ node \in [Node -> NodeRecord] /\ doc \in [Document -> DocRecord]
    /\ nodesOwned \in [Node -> BOOLEAN] /\ docsOwned \in [Document -> BOOLEAN]
    /\ file \in [Write -> Int]

\* A write, r, that is on its way is an asynchronous one, and the one whose callback runs
\* is among them.
InProgress(r) ==
    /\ r.async \in BOOLEAN
    /\ r.at \in {"writing", "returned", "callback"} => r.async
    /\ r.at = "unused" => ~r.async

WritesInProgress ==
    /\ \A w \in Write : InProgress(write[w])
    /\ running # Null => running \in Write /\ write[running].at = "callback"

\* The parts of RefsExact.
Tasks    == {w \in Write : Live(w)}
TaskData == {w \in Write : Live(w) /\ write[w].data # Null}
RootOf(n) == {d \in Document : doc[d].root = n}

\* 1 when the two are the same; what the program owns.
Same(a, b)   == IF a = b THEN 1 ELSE 0
Handle       == IF holding THEN 1 ELSE 0
NodeOwned(n) == IF nodesOwned[n] THEN 1 ELSE 0
DocOwned(d)  == IF docsOwned[d] THEN 1 ELSE 0
Opened(w)    == IF w \in File /\ w \in TaskData THEN 1 ELSE 0

GeneratorExact == refs = Handle + Cardinality(Tasks) + Cardinality(TaskData)
NodesExact ==
    \A n \in Node : node[n].refs = NodeOwned(n) + Same(root, n) + Cardinality(RootOf(n))
DocsExact  == \A d \in Document : doc[d].refs = DocOwned(d) + Same(document, d)
FilesExact == \A w \in Write : file[w] = 1 + Opened(w)

TreesInv == NodesExact /\ DocsExact
TasksInv == GeneratorExact /\ FilesExact
RefsInv  == GeneratorTypes /\ WritesInProgress /\ TreesInv /\ TasksInv

\* The sets that are counted are finite.
LEMMA CountsAreNat ==
  /\ IsFiniteSet(Tasks) /\ Cardinality(Tasks) \in Nat
  /\ IsFiniteSet(TaskData) /\ Cardinality(TaskData) \in Nat
  /\ \A n : IsFiniteSet(RootOf(n)) /\ Cardinality(RootOf(n)) \in Nat
<1>1. IsFiniteSet(Write) /\ IsFiniteSet(Document)
  BY GeneratorAssumption
<1>2. IsFiniteSet(Tasks) /\ IsFiniteSet(TaskData) /\ \A n : IsFiniteSet(RootOf(n))
  BY <1>1, FS_Subset DEF Tasks, TaskData, RootOf
<1>3. QED
  BY <1>2, FS_CardinalityType

\* How many of the references in `lost' are to the node.
LostTo(n, lost) == Cardinality({x \in lost : x[2] = n})

\* The sets of lost references that occur.
LEMMA NoneLost == ASSUME NEW n PROVE LostTo(n, {}) = 0
<1>1. {x \in {} : x[2] = n} = {}
  OBVIOUS
<1>2. QED
  BY <1>1, FS_EmptySet DEF LostTo

LEMMA OneLost == ASSUME NEW n, NEW s, NEW a PROVE LostTo(n, {<<s, a>>}) = Same(a, n)
<1>1. CASE a = n
  <2>1. {x \in {<<s, a>>} : x[2] = n} = {<<s, a>>}
    BY <1>1
  <2>2. QED
    BY <1>1, <2>1, FS_Singleton DEF LostTo, Same
<1>2. CASE a # n
  <2>1. {x \in {<<s, a>>} : x[2] = n} = {}
    BY <1>2
  <2>2. QED
    BY <1>2, <2>1, FS_EmptySet DEF LostTo, Same
<1>3. QED
  BY <1>1, <1>2

LEMMA TwoLost ==
  ASSUME NEW n, NEW a, NEW b
  PROVE  LostTo(n, {<<"document", b>>} \cup {<<"generator", a>>}) = Same(b, n) + Same(a, n)
<1> DEFINE p == <<"document", b>>
           q == <<"generator", a>>
           A == {x \in {p} : x[2] = n}
           B == {x \in {p} \cup {q} : x[2] = n}
<1>1. p # q /\ p[2] = b /\ q[2] = a
  OBVIOUS
<1>2. Cardinality(A) = Same(b, n) /\ IsFiniteSet(A)
  <2>1. LostTo(n, {<<"document", b>>}) = Same(b, n)
    BY OneLost
  <2>2. IsFiniteSet({p}) /\ A \in SUBSET {p}
    BY FS_Singleton
  <2>3. QED
    BY <2>1, <2>2, FS_Subset DEF LostTo
<1>3. A \ {q} = B \ {q} /\ q \notin A /\ (q \in B <=> a = n)
  BY <1>1
<1> HIDE DEF A, B
<1>4. Cardinality(B) = Cardinality(A) + (IF q \in B THEN 1 ELSE 0) - (IF q \in A THEN 1 ELSE 0)
      /\ Cardinality(A) \in Nat
  BY <1>2, <1>3, OneDiffers
<1>5. Cardinality(B) = Same(b, n) + Same(a, n)
  BY <1>2, <1>3, <1>4 DEF Same
<1>6. QED
  BY <1>5 DEF LostTo, B

\* NodesAfter changes the counter of a node by what it gains and loses.
LEMMA NodesAfterCounts ==
  ASSUME node \in [Node -> NodeRecord], NEW gained, NEW lost,
         \A n \in Node : LostTo(n, lost) \in Int,
         node' = NodesAfter(gained, lost)
  PROVE  /\ node' \in [Node -> NodeRecord]
         /\ \A n \in Node : node'[n].refs = node[n].refs + Same(n, gained) - LostTo(n, lost)
<1>1. \A n \in Node :
        node'[n] = [node[n] EXCEPT !.refs = @ + Same(n, gained) - LostTo(n, lost)]
  BY DEF NodesAfter, LostTo, One, Same
<1>2. \A n \in Node : Same(n, gained) \in Int
  BY DEF Same
<1>3. DOMAIN node' = Node /\ node' = [n \in Node |-> node'[n]]
  BY DEF NodesAfter
<1>4. ASSUME NEW n \in Node
      PROVE  /\ node'[n] \in NodeRecord
             /\ node'[n].refs = node[n].refs + Same(n, gained) - LostTo(n, lost)
  <2>1. node[n] \in NodeRecord /\ Same(n, gained) \in Int /\ LostTo(n, lost) \in Int
    BY <1>2
  <2> DEFINE k == Same(n, gained)
             l == LostTo(n, lost)
  <2>2. node'[n] = [node[n] EXCEPT !.refs = @ + k - l]
    BY <1>1
  <2> HIDE DEF k, l
  <2>3. k \in Int /\ l \in Int
    BY <2>1 DEF k, l
  <2>4. node'[n] \in NodeRecord /\ node'[n].refs = node[n].refs + k - l
    BY <2>1, <2>2, <2>3 DEF NodeRecord
  <2>5. QED
    BY <2>4 DEF k, l
<1>5. QED
  BY <1>3, <1>4

\* The document d, when it has one reference left, takes its root with it.
Ends(d) == d # Null /\ doc[d].refs = 1

\* What that costs a node.
Goes(d, n) == IF Ends(d) /\ doc[d].root = n THEN 1 ELSE 0

\* What a document's loss of a reference does to the counters.
LEMMA DocsWithoutCounts ==
  ASSUME GeneratorTypes, NEW d \in Document \cup {Null}
  PROVE  /\ DocsWithout(d) \in [Document -> DocRecord]
         /\ \A e \in Document : /\ e # d => DocsWithout(d)[e] = doc[e]
                                /\ DocsWithout(d)[e].refs = doc[e].refs - Same(e, d)
         /\ \A n \in Node :
              /\ Cardinality({e \in Document : DocsWithout(d)[e].root = n})
                   = Cardinality(RootOf(n)) - Goes(d, n)
              /\ LostTo(n, RootLost(d)) = Goes(d, n)
              /\ LostTo(n, RootLost(d) \cup {<<"generator", root>>})
                   = Goes(d, n) + Same(root, n)
<1> DEFINE D == DocsWithout(d)
<1>1. \A e \in Document : D[e] = IF e # d THEN doc[e]
                                 ELSE [doc[e] EXCEPT !.refs = @ - 1,
                                                     !.root = IF doc[e].refs = 1 THEN Null ELSE @]
  BY DEF DocsWithout
<1>2. ASSUME NEW e \in Document
      PROVE  /\ D[e] \in DocRecord
             /\ e # d => D[e] = doc[e]
             /\ D[e].refs = doc[e].refs - Same(e, d)
             /\ e = d => D[e].root = IF Ends(d) THEN Null ELSE doc[e].root
  <2>1. doc[e] \in DocRecord /\ e # Null
    BY GeneratorAssumption DEF GeneratorTypes
  <2>2. doc[e].refs \in Int /\ doc[e].root \in Node \cup {Null}
    BY <2>1 DEF DocRecord
  <2>3. CASE e # d
    <3>1. D[e] = doc[e] /\ Same(e, d) = 0
      BY <1>1, <2>3 DEF Same
    <3>2. QED
      BY <2>2, <2>1, <2>3, <3>1
  <2>4. CASE e = d
    <3>1. /\ D[e] = [doc[e] EXCEPT !.refs = @ - 1, !.root = IF doc[e].refs = 1 THEN Null ELSE @]
          /\ Same(e, d) = 1
      BY <1>1, <2>4 DEF Same
    <3>2. /\ D[e] \in DocRecord /\ D[e].refs = doc[e].refs - 1
          /\ D[e].root = IF doc[e].refs = 1 THEN Null ELSE doc[e].root
      <4> DEFINE x == doc[e]
                 y == D[e]
                 r == IF doc[e].refs = 1 THEN Null ELSE doc[e].root
      <4>1. y = [x EXCEPT !.refs = @ - 1, !.root = r]
        BY <3>1
      <4>2. x \in DocRecord /\ r \in Node \cup {Null}
        BY <2>2, <2>1
      <4> HIDE DEF x, y, r
      <4>3. y.refs = x.refs - 1 /\ y.root = r
        BY <4>1, <4>2 DEF DocRecord
      <4>4. y = [refs |-> x.refs - 1, root |-> r]
        BY <4>1, <4>2 DEF DocRecord
      <4>5. y \in DocRecord
        BY <4>2, <4>4 DEF DocRecord
      <4>6. QED
        BY <4>3, <4>5 DEF x, y, r
    <3>3. QED
      BY <2>1, <2>4, <3>1, <3>2 DEF Ends
  <2>5. QED
    BY <2>3, <2>4
<1>3. D \in [Document -> DocRecord]
  <2>1. D = [e \in Document |-> D[e]]
    BY DEF DocsWithout
  <2>2. QED
    BY <1>2, <2>1
<1> HIDE DEF D
<1>4. ASSUME NEW n \in Node
      PROVE  Cardinality({e \in Document : D[e].root = n})
               = Cardinality(RootOf(n)) - Goes(d, n)
  <2> DEFINE A == RootOf(n)
             B == {e \in Document : D[e].root = n}
  <2>1. IsFiniteSet(A) /\ n # Null
    BY CountsAreNat, GeneratorAssumption
  <2>2. A \ {d} = B \ {d}
    BY <1>2 DEF RootOf
  <2>3. /\ d \in A <=> d # Null /\ doc[d].root = n
        /\ d \in B <=> d # Null /\ ~Ends(d) /\ doc[d].root = n
    BY <1>2, <2>1, GeneratorAssumption DEF RootOf
  <2> HIDE DEF A, B
  <2>4. /\ Cardinality(A) \in Nat
        /\ Cardinality(B) = Cardinality(A) + (IF d \in B THEN 1 ELSE 0) - (IF d \in A THEN 1 ELSE 0)
    BY <2>1, <2>2, OneDiffers
  <2>5. Cardinality(B) = Cardinality(A) - Goes(d, n)
    BY <2>3, <2>4 DEF Ends, Goes
  <2>6. QED
    BY <2>5 DEF A, B
<1>5. ASSUME NEW n \in Node
      PROVE  /\ LostTo(n, RootLost(d)) = Goes(d, n)
             /\ LostTo(n, RootLost(d) \cup {<<"generator", root>>})
                  = Goes(d, n) + Same(root, n)
  <2>1. CASE Ends(d)
    <3>1. RootLost(d) = {<<"document", doc[d].root>>}
      BY <2>1 DEF RootLost, Ends
    <3>2. Goes(d, n) = Same(doc[d].root, n)
      BY <2>1 DEF Goes, Same
    <3>3. LostTo(n, {<<"document", doc[d].root>>}) = Same(doc[d].root, n)
      BY OneLost
    <3>4. LostTo(n, {<<"document", doc[d].root>>} \cup {<<"generator", root>>})
            = Same(doc[d].root, n) + Same(root, n)
      BY TwoLost
    <3>5. QED
      BY <3>1, <3>2, <3>3, <3>4
  <2>2. CASE ~Ends(d)
    <3>1. RootLost(d) = {} /\ RootLost(d) \cup {<<"generator", root>>} = {<<"generator", root>>}
      BY <2>2 DEF RootLost, Ends
    <3>2. Goes(d, n) = 0
      BY <2>2 DEF Goes
    <3>3. LostTo(n, {}) = 0 /\ LostTo(n, {<<"generator", root>>}) = Same(root, n)
      BY NoneLost, OneLost
    <3>4. /\ LostTo(n, RootLost(d)) = 0
          /\ LostTo(n, RootLost(d) \cup {<<"generator", root>>}) = Same(root, n)
      BY <3>1, <3>3
    <3>5. Same(root, n) \in Int
      BY DEF Same
    <3>6. QED
      BY <3>2, <3>4, <3>5
  <2>3. QED
    BY <2>1, <2>2
<1>6. QED
  BY <1>2, <1>3, <1>4, <1>5 DEF D

-----------------------------------------------------------------------------
(* The calls that change trees and settings. *)

\* What the places that refer to the node and to the document come to.
LEMMA TreesFollow ==
  ASSUME RefsInv, NEW gained, NEW lost, node' = NodesAfter(gained, lost),
         \A n \in Node :
           /\ LostTo(n, lost) \in Int
           /\ NodeOwned(n)' + Same(root', n) + Cardinality(RootOf(n)')
                = NodeOwned(n) + Same(root, n) + Cardinality(RootOf(n))
                    + Same(n, gained) - LostTo(n, lost),
         \A d \in Document :
           doc'[d].refs = doc[d].refs + DocOwned(d)' + Same(document', d)
                                      - DocOwned(d) - Same(document, d)
  PROVE  TreesInv' /\ node' \in [Node -> NodeRecord]
<1>1. /\ node' \in [Node -> NodeRecord]
      /\ \A n \in Node : node'[n].refs = node[n].refs + Same(n, gained) - LostTo(n, lost)
  BY NodesAfterCounts DEF RefsInv, GeneratorTypes
<1>2. NodesExact'
  <2>1. ASSUME NEW n \in Node
        PROVE  node'[n].refs = NodeOwned(n)' + Same(root', n) + Cardinality(RootOf(n)')
    BY <1>1 DEF RefsInv, TreesInv, NodesExact
  <2>2. QED
    BY <2>1 DEF NodesExact
<1>3. DocsExact'
  <2>1. ASSUME NEW d \in Document
        PROVE  doc'[d].refs = DocOwned(d)' + Same(document', d)
    <3>1. doc[d].refs = DocOwned(d) + Same(document, d)
      BY DEF RefsInv, TreesInv, DocsExact
    <3>2. /\ DocOwned(d) \in Int /\ Same(document, d) \in Int
          /\ DocOwned(d)' \in Int /\ Same(document', d) \in Int
      BY DEF DocOwned, Same
    <3>3. QED
      BY <3>1, <3>2
  <2>2. QED
    BY <2>1 DEF DocsExact
<1>4. QED
  BY <1>1, <1>2, <1>3 DEF TreesInv

\* The counters that TreesFollow adds up are integers.
LEMMA PlacesAreInt ==
  /\ \A n : NodeOwned(n) \in Int /\ NodeOwned(n)' \in Int
  /\ \A d : DocOwned(d) \in Int /\ DocOwned(d)' \in Int
  /\ \A a, b : Same(a, b) \in Int
  /\ \A n : Cardinality(RootOf(n)) \in Int
  /\ \A d, n : Goes(d, n) \in Int
BY CountsAreNat DEF NodeOwned, DocOwned, Same, Goes

\* A new root gains the reference that the old one loses.
LEMMA SetRootKeeps ==
  ASSUME RefsInv, NEW n \in Node \cup {Null}, SetRoot(n)
  PROVE  TreesInv' /\ GeneratorTypes'
<1> DEFINE lost == {<<"generator", root>>}
<1>1. /\ root' = n /\ node' = NodesAfter(n, lost)
      /\ UNCHANGED <<refs, holding, document, doc, nodesOwned, docsOwned, file>>
  BY DEF SetRoot, handle, work
<1>2. \A k : LostTo(k, lost) = Same(root, k)
  BY OneLost
<1> HIDE DEF lost
<1>3. \A k \in Node : RootOf(k)' = RootOf(k) /\ NodeOwned(k)' = NodeOwned(k)
  BY <1>1 DEF RootOf, NodeOwned
<1>4. ASSUME NEW k \in Node
      PROVE  /\ LostTo(k, lost) \in Int
             /\ NodeOwned(k)' + Same(root', k) + Cardinality(RootOf(k)')
                = NodeOwned(k) + Same(root, k) + Cardinality(RootOf(k))
                    + Same(k, n) - LostTo(k, lost)
  <2>1. Same(root', k) = Same(k, n)
    BY <1>1 DEF Same
  <2>2. QED
    BY <1>2, <1>3, <2>1, PlacesAreInt
<1>5. \A d \in Document : doc'[d].refs = doc[d].refs + DocOwned(d)' + Same(document', d)
                                                   - DocOwned(d) - Same(document, d)
  <2>1. \A d \in Document : /\ doc'[d].refs = doc[d].refs /\ doc[d].refs \in Int
                            /\ DocOwned(d)' = DocOwned(d) /\ document' = document
    BY <1>1 DEF RefsInv, GeneratorTypes, DocRecord, DocOwned
  <2>2. QED
    BY <2>1, PlacesAreInt
<1>6. TreesInv' /\ node' \in [Node -> NodeRecord]
  BY <1>1, <1>4, <1>5, TreesFollow
<1>7. QED
  BY <1>1, <1>6 DEF RefsInv, GeneratorTypes

\* An edit moves no counter.
LEMMA EditKeeps ==
  ASSUME RefsInv, NEW n \in Node, Edit(n)
  PROVE  TreesInv' /\ GeneratorTypes'
<1>1. /\ node' = [node EXCEPT ![n].edits = @ + 1]
      /\ UNCHANGED <<refs, holding, root, document, doc, nodesOwned, docsOwned, file>>
  BY DEF Edit, handle, settings, work
<1>2. ASSUME NEW k \in Node
      PROVE  node'[k] \in NodeRecord /\ node'[k].refs = node[k].refs
  <2>1. node[k] \in NodeRecord
    BY DEF RefsInv, GeneratorTypes
  <2>2. node'[k] = IF k = n THEN [node[k] EXCEPT !.edits = @ + 1] ELSE node[k]
    BY <1>1 DEF RefsInv, GeneratorTypes
  <2>3. QED
    BY <2>1, <2>2 DEF NodeRecord
<1>3. node' \in [Node -> NodeRecord]
  <2>1. node' = [k \in Node |-> node'[k]]
    BY <1>1 DEF RefsInv, GeneratorTypes
  <2>2. QED
    BY <1>2, <2>1
<1>4. TreesInv'
  BY <1>1, <1>2
     DEF RefsInv, TreesInv, NodesExact, DocsExact, NodeOwned, DocOwned, RootOf
<1>5. QED
  BY <1>1, <1>3, <1>4 DEF RefsInv, GeneratorTypes

\* The program drops a node: one owner and one reference less.
LEMMA UnrefNodeKeeps ==
  ASSUME RefsInv, NEW n \in Node, UnrefNode(n)
  PROVE  TreesInv' /\ GeneratorTypes'
<1> DEFINE lost == {<<"program", n>>}
<1>1. /\ nodesOwned[n] /\ nodesOwned' = [nodesOwned EXCEPT ![n] = FALSE]
      /\ node' = NodesAfter(Null, lost)
      /\ UNCHANGED <<refs, holding, root, document, doc, docsOwned, file>>
  BY DEF UnrefNode, handle, settings, work
<1>2. \A k : LostTo(k, lost) = Same(n, k)
  BY OneLost
<1> HIDE DEF lost
<1>3. \A k \in Node : RootOf(k)' = RootOf(k)
  BY <1>1 DEF RootOf
<1>4. ASSUME NEW k \in Node
      PROVE  /\ LostTo(k, lost) \in Int
             /\ NodeOwned(k)' + Same(root', k) + Cardinality(RootOf(k)')
                = NodeOwned(k) + Same(root, k) + Cardinality(RootOf(k))
                    + Same(k, Null) - LostTo(k, lost)
  <2>1. Same(k, Null) = 0
    BY GeneratorAssumption DEF Same
  <2>2. NodeOwned(k)' = NodeOwned(k) - Same(n, k)
    BY <1>1 DEF RefsInv, GeneratorTypes, NodeOwned, Same
  <2>3. QED
    BY <1>1, <1>2, <1>3, <2>1, <2>2, PlacesAreInt
<1>5. \A d \in Document : doc'[d].refs = doc[d].refs + DocOwned(d)' + Same(document', d)
                                                   - DocOwned(d) - Same(document, d)
  <2>1. \A d \in Document : /\ doc'[d].refs = doc[d].refs /\ doc[d].refs \in Int
                            /\ DocOwned(d)' = DocOwned(d) /\ document' = document
    BY <1>1 DEF RefsInv, GeneratorTypes, DocRecord, DocOwned
  <2>2. QED
    BY <2>1, PlacesAreInt
<1>6. TreesInv' /\ node' \in [Node -> NodeRecord]
  BY <1>1, <1>4, <1>5, TreesFollow
<1>7. QED
  BY <1>1, <1>6 DEF RefsInv, GeneratorTypes

\* A document gets another root: as for the generator's own.
LEMMA SetDocumentRootKeeps ==
  ASSUME RefsInv, NEW d \in Document, NEW n \in Node, SetDocumentRoot(d, n)
  PROVE  TreesInv' /\ GeneratorTypes'
<1> DEFINE old  == doc[d].root
           lost == {<<"document", old>>}
<1>1. /\ old # n /\ doc' = [doc EXCEPT ![d].root = n]
      /\ node' = NodesAfter(n, lost)
      /\ UNCHANGED <<refs, holding, root, document, nodesOwned, docsOwned, file>>
  BY DEF SetDocumentRoot, handle, settings, work
<1>2. \A k : LostTo(k, lost) = Same(old, k)
  BY OneLost
<1>3. ASSUME NEW e \in Document
      PROVE  /\ doc'[e] \in DocRecord /\ doc'[e].refs = doc[e].refs /\ doc[e].refs \in Int
             /\ doc'[e].root = IF e = d THEN n ELSE doc[e].root
  <2>1. doc[e] \in DocRecord
    BY DEF RefsInv, GeneratorTypes
  <2>2. doc'[e] = IF e = d THEN [doc[e] EXCEPT !.root = n] ELSE doc[e]
    BY <1>1 DEF RefsInv, GeneratorTypes
  <2>3. QED
    BY <2>1, <2>2 DEF DocRecord
<1>4. doc' \in [Document -> DocRecord]
  <2>1. doc' = [e \in Document |-> doc'[e]]
    BY <1>1 DEF RefsInv, GeneratorTypes
  <2>2. QED
    BY <1>3, <2>1
<1>5. ASSUME NEW k \in Node
      PROVE  Cardinality(RootOf(k)') = Cardinality(RootOf(k)) + Same(k, n) - Same(old, k)
  <2> DEFINE A == RootOf(k)
             B == {e \in Document : doc'[e].root = k}
  <2>1. IsFiniteSet(A) /\ A \ {d} = B \ {d}
    BY <1>3, CountsAreNat DEF RootOf
  <2>2. (d \in A <=> old = k) /\ (d \in B <=> k = n)
    BY <1>3 DEF RootOf
  <2> HIDE DEF A, B, old
  <2>3. /\ Cardinality(A) \in Nat
        /\ Cardinality(B) = Cardinality(A) + (IF d \in B THEN 1 ELSE 0) - (IF d \in A THEN 1 ELSE 0)
    BY <2>1, OneDiffers
  <2>4. Cardinality(B) = Cardinality(A) + Same(k, n) - Same(old, k)
    BY <2>2, <2>3 DEF Same
  <2>5. QED
    BY <2>4 DEF A, B, RootOf
<1> HIDE DEF old, lost
<1>6. ASSUME NEW k \in Node
      PROVE  /\ LostTo(k, lost) \in Int
             /\ NodeOwned(k)' + Same(root', k) + Cardinality(RootOf(k)')
                = NodeOwned(k) + Same(root, k) + Cardinality(RootOf(k))
                    + Same(k, n) - LostTo(k, lost)
  <2>1. NodeOwned(k)' = NodeOwned(k) /\ root' = root
    BY <1>1 DEF NodeOwned
  <2>2. QED
    BY <1>2, <1>5, <2>1, PlacesAreInt
<1>7. \A e \in Document : doc'[e].refs = doc[e].refs + DocOwned(e)' + Same(document', e)
                                                   - DocOwned(e) - Same(document, e)
  <2>1. \A e \in Document : DocOwned(e)' = DocOwned(e) /\ document' = document
    BY <1>1 DEF DocOwned
  <2>2. QED
    BY <1>3, <2>1, PlacesAreInt
<1>8. TreesInv' /\ node' \in [Node -> NodeRecord]
  BY <1>1, <1>6, <1>7, TreesFollow
<1>9. QED
  BY <1>1, <1>4, <1>8 DEF RefsInv, GeneratorTypes

\* The program drops a document, which may be the end of it.
LEMMA UnrefDocumentKeeps ==
  ASSUME RefsInv, NEW d \in Document, UnrefDocument(d)
  PROVE  TreesInv' /\ GeneratorTypes'
<1>1. /\ docsOwned[d] /\ docsOwned' = [docsOwned EXCEPT ![d] = FALSE]
      /\ doc' = DocsWithout(d) /\ node' = NodesAfter(Null, RootLost(d))
      /\ UNCHANGED <<refs, holding, root, document, nodesOwned, file>>
  BY DEF UnrefDocument, handle, settings, work
<1>2. /\ doc' \in [Document -> DocRecord]
      /\ \A e \in Document : doc'[e].refs = doc[e].refs - Same(e, d)
      /\ \A n \in Node : /\ Cardinality({e \in Document : doc'[e].root = n})
                                 = Cardinality(RootOf(n)) - Goes(d, n)
                         /\ LostTo(n, RootLost(d)) = Goes(d, n)
  BY <1>1, DocsWithoutCounts DEF RefsInv
<1>3. \A n \in Node : Cardinality(RootOf(n)') = Cardinality(RootOf(n)) - Goes(d, n)
  BY <1>2 DEF RootOf
<1> DEFINE lost == RootLost(d)
<1>4. node' = NodesAfter(Null, lost) /\ \A n \in Node : LostTo(n, lost) = Goes(d, n)
  BY <1>1, <1>2
<1> HIDE DEF lost
<1>5. ASSUME NEW k \in Node
      PROVE  /\ LostTo(k, lost) \in Int
             /\ NodeOwned(k)' + Same(root', k) + Cardinality(RootOf(k)')
                = NodeOwned(k) + Same(root, k) + Cardinality(RootOf(k))
                    + Same(k, Null) - LostTo(k, lost)
  <2>1. Same(k, Null) = 0 /\ NodeOwned(k)' = NodeOwned(k) /\ root' = root
    BY <1>1, GeneratorAssumption DEF Same, NodeOwned
  <2>2. QED
    BY <1>3, <1>4, <2>1, PlacesAreInt
<1>6. \A e \in Document : doc'[e].refs = doc[e].refs + DocOwned(e)' + Same(document', e)
                                                   - DocOwned(e) - Same(document, e)
  <2>1. \A e \in Document : DocOwned(e)' = DocOwned(e) - Same(e, d) /\ document' = document
    BY <1>1 DEF DocOwned, Same, RefsInv, GeneratorTypes
  <2>2. \A e \in Document : doc[e].refs \in Int
    BY DEF RefsInv, GeneratorTypes, DocRecord
  <2>3. QED
    BY <1>2, <2>1, <2>2, PlacesAreInt
<1>7. TreesInv' /\ node' \in [Node -> NodeRecord]
  BY <1>4, <1>5, <1>6, TreesFollow
<1>8. QED
  BY <1>1, <1>2, <1>7 DEF RefsInv, GeneratorTypes

\* Another document: the new one gains the reference that the old one loses, with which
\* its root may go.
LEMMA SetDocumentKeeps ==
  ASSUME RefsInv, NEW d \in Document \cup {Null}, SetDocument(d)
  PROVE  TreesInv' /\ GeneratorTypes'
<1> DEFINE D == DocsWithout(document)
           lost == RootLost(document)
<1>1. /\ d # document /\ document' = d /\ node' = NodesAfter(Null, lost)
      /\ doc' = [e \in Document |-> IF e = d THEN [doc[e] EXCEPT !.refs = @ + 1] ELSE D[e]]
      /\ UNCHANGED <<refs, holding, root, nodesOwned, docsOwned, file>>
  BY DEF SetDocument, handle, work
<1>2. /\ D \in [Document -> DocRecord]
      /\ \A e \in Document : /\ e # document => D[e] = doc[e]
                             /\ D[e].refs = doc[e].refs - Same(e, document)
      /\ \A n \in Node : /\ Cardinality({e \in Document : D[e].root = n})
                                 = Cardinality(RootOf(n)) - Goes(document, n)
                         /\ LostTo(n, lost) = Goes(document, n)
  BY DocsWithoutCounts DEF RefsInv, GeneratorTypes
<1> HIDE DEF D, lost
<1>3. ASSUME NEW e \in Document
      PROVE  /\ doc'[e] \in DocRecord /\ doc'[e].root = D[e].root
             /\ doc'[e].refs = doc[e].refs + Same(d, e) - Same(document, e)
  <2>1. doc[e] \in DocRecord
    BY DEF RefsInv, GeneratorTypes
  <2>2. CASE e = d
    <3>1. doc'[e] = [doc[e] EXCEPT !.refs = @ + 1] /\ D[e] = doc[e]
      BY <1>1, <1>2, <2>2
    <3>2. Same(d, e) = 1 /\ Same(document, e) = 0
      BY <1>1, <2>2 DEF Same
    <3>3. doc'[e] \in DocRecord /\ doc'[e].root = doc[e].root /\ doc'[e].refs = doc[e].refs + 1
      BY <2>1, <3>1 DEF DocRecord
    <3>4. doc[e].refs \in Int
      BY <2>1 DEF DocRecord
    <3>5. QED
      BY <3>1, <3>2, <3>3, <3>4
  <2>3. CASE e # d
    <3>1. doc'[e] = D[e] /\ D[e] \in DocRecord /\ D[e].refs = doc[e].refs - Same(e, document)
      BY <1>1, <1>2, <2>3
    <3>2. Same(d, e) = 0 /\ Same(document, e) = Same(e, document)
      BY <2>3 DEF Same
    <3>3. doc[e].refs \in Int
      BY <2>1 DEF DocRecord
    <3>4. QED
      BY <3>1, <3>2, <3>3, PlacesAreInt
  <2>4. QED
    BY <2>2, <2>3
<1>4. doc' \in [Document -> DocRecord]
  <2>1. doc' = [e \in Document |-> doc'[e]]
    BY <1>1
  <2>2. QED
    BY <1>3, <2>1
<1>5. \A n \in Node : Cardinality(RootOf(n)') = Cardinality(RootOf(n)) - Goes(document, n)
  <2>1. \A n \in Node : RootOf(n)' = {e \in Document : D[e].root = n}
    BY <1>3 DEF RootOf
  <2>2. QED
    BY <1>2, <2>1
<1>6. ASSUME NEW k \in Node
      PROVE  /\ LostTo(k, lost) \in Int
             /\ NodeOwned(k)' + Same(root', k) + Cardinality(RootOf(k)')
                = NodeOwned(k) + Same(root, k) + Cardinality(RootOf(k))
                    + Same(k, Null) - LostTo(k, lost)
  <2>1. Same(k, Null) = 0 /\ NodeOwned(k)' = NodeOwned(k) /\ root' = root
    BY <1>1, GeneratorAssumption DEF Same, NodeOwned
  <2>2. /\ LostTo(k, lost) = Goes(document, k)
        /\ Cardinality(RootOf(k)') = Cardinality(RootOf(k)) - Goes(document, k)
    BY <1>2, <1>5
  <2>3. Goes(document, k) \in Int /\ NodeOwned(k) \in Int /\ Same(root, k) \in Int
        /\ Cardinality(RootOf(k)) \in Int
    BY PlacesAreInt
  <2>4. QED
    BY <2>1, <2>2, <2>3
<1>7. \A e \in Document : doc'[e].refs = doc[e].refs + DocOwned(e)' + Same(document', e)
                                                   - DocOwned(e) - Same(document, e)
  <2>1. \A e \in Document : DocOwned(e)' = DocOwned(e) /\ document' = d
    BY <1>1 DEF DocOwned
  <2>2. \A e \in Document : doc[e].refs \in Int
    BY DEF RefsInv, GeneratorTypes, DocRecord
  <2>3. QED
    BY <1>3, <2>1, <2>2, PlacesAreInt
<1>8. TreesInv' /\ node' \in [Node -> NodeRecord]
  BY <1>1, <1>6, <1>7, TreesFollow
<1>9. QED
  BY <1>1, <1>4, <1>8 DEF RefsInv, GeneratorTypes

\* The generator loses references; with the last one go its root and its document.
LEMMA DropGeneratorKeeps ==
  ASSUME RefsInv, NEW k \in Int, DropGenerator(k), holding' \in BOOLEAN,
         nodesOwned' = nodesOwned, docsOwned' = docsOwned, file' \in [Write -> Int]
  PROVE  TreesInv' /\ GeneratorTypes' /\ refs' = refs - k
<1>1. refs' = refs - k /\ refs \in Int
  BY DEF DropGenerator, RefsInv, GeneratorTypes
<1>2. CASE refs = k
  <2> DEFINE lost == RootLost(document) \cup {<<"generator", root>>}
  <2>1. /\ root' = Null /\ document' = Null /\ doc' = DocsWithout(document)
        /\ node' = NodesAfter(Null, lost)
    BY <1>2 DEF DropGenerator
  <2>2. /\ doc' \in [Document -> DocRecord]
        /\ \A e \in Document : doc'[e].refs = doc[e].refs - Same(e, document)
        /\ \A n \in Node : /\ Cardinality({e \in Document : doc'[e].root = n})
                                   = Cardinality(RootOf(n)) - Goes(document, n)
                           /\ LostTo(n, lost) = Goes(document, n) + Same(root, n)
    BY <2>1, DocsWithoutCounts DEF RefsInv, GeneratorTypes
  <2> HIDE DEF lost
  <2>3. \A n \in Node : Cardinality(RootOf(n)') = Cardinality(RootOf(n)) - Goes(document, n)
    BY <2>2 DEF RootOf
  <2>4. ASSUME NEW n \in Node
        PROVE  /\ LostTo(n, lost) \in Int
               /\ NodeOwned(n)' + Same(root', n) + Cardinality(RootOf(n)')
                  = NodeOwned(n) + Same(root, n) + Cardinality(RootOf(n))
                      + Same(n, Null) - LostTo(n, lost)
    <3>1. Same(n, Null) = 0 /\ Same(root', n) = 0 /\ NodeOwned(n)' = NodeOwned(n)
      BY <2>1, GeneratorAssumption DEF Same, NodeOwned
    <3>2. /\ LostTo(n, lost) = Goes(document, n) + Same(root, n)
          /\ Cardinality(RootOf(n)') = Cardinality(RootOf(n)) - Goes(document, n)
      BY <2>2, <2>3
    <3>3. Goes(document, n) \in Int /\ NodeOwned(n) \in Int /\ Same(root, n) \in Int
          /\ Cardinality(RootOf(n)) \in Int
      BY PlacesAreInt
    <3>4. QED
      BY <3>1, <3>2, <3>3
  <2>5. \A e \in Document : doc'[e].refs = doc[e].refs + DocOwned(e)' + Same(document', e)
                                                     - DocOwned(e) - Same(document, e)
    <3>1. \A e \in Document : /\ DocOwned(e)' = DocOwned(e) /\ Same(document', e) = 0
                              /\ Same(e, document) = Same(document, e)
      BY <2>1, GeneratorAssumption DEF DocOwned, Same
    <3>2. \A e \in Document : doc[e].refs \in Int
      BY DEF RefsInv, GeneratorTypes, DocRecord
    <3>3. QED
      BY <2>2, <3>1, <3>2, PlacesAreInt
  <2>6. TreesInv' /\ node' \in [Node -> NodeRecord]
    BY <2>1, <2>4, <2>5, TreesFollow
  <2>7. QED
    BY <1>1, <2>1, <2>2, <2>6 DEF RefsInv, GeneratorTypes
<1>3. CASE refs # k
  <2> DEFINE lost == {}
  <2>1. /\ root' = root /\ document' = document /\ doc' = doc
        /\ node' = NodesAfter(Null, lost)
    BY <1>3 DEF DropGenerator
  <2>2. \A n : LostTo(n, lost) = 0
    BY NoneLost
  <2> HIDE DEF lost
  <2>3. \A n \in Node : RootOf(n)' = RootOf(n) /\ NodeOwned(n)' = NodeOwned(n)
    BY <2>1 DEF RootOf, NodeOwned
  <2>4. ASSUME NEW n \in Node
        PROVE  /\ LostTo(n, lost) \in Int
               /\ NodeOwned(n)' + Same(root', n) + Cardinality(RootOf(n)')
                  = NodeOwned(n) + Same(root, n) + Cardinality(RootOf(n))
                      + Same(n, Null) - LostTo(n, lost)
    <3>1. Same(n, Null) = 0
      BY GeneratorAssumption DEF Same
    <3>2. QED
      BY <2>1, <2>2, <2>3, <3>1, PlacesAreInt
  <2>5. \A e \in Document : doc'[e].refs = doc[e].refs + DocOwned(e)' + Same(document', e)
                                                     - DocOwned(e) - Same(document, e)
    <3>1. \A e \in Document : DocOwned(e)' = DocOwned(e) /\ document' = document
      BY <2>1 DEF DocOwned
    <3>2. \A e \in Document : doc'[e].refs = doc[e].refs /\ doc[e].refs \in Int
      BY <2>1 DEF RefsInv, GeneratorTypes, DocRecord
    <3>3. QED
      BY <3>1, <3>2, PlacesAreInt
  <2>6. TreesInv' /\ node' \in [Node -> NodeRecord]
    BY <2>1, <2>4, <2>5, TreesFollow
  <2>7. QED
    BY <1>1, <2>1, <2>6 DEF RefsInv, GeneratorTypes
<1>4. QED
  BY <1>1, <1>2, <1>3

-----------------------------------------------------------------------------
(* The writes and their tasks. *)

\* What a write, r, adds to the tasks and to the data of tasks.
OfTask(r) == IF r.async /\ r.at # "done" THEN 1 ELSE 0
OfData(r) == IF r.async /\ r.at # "done" /\ r.data # Null THEN 1 ELSE 0

\* When one write changes, so do the counts by what it is worth.
LEMMA TaskCounts ==
  ASSUME WriteShape, NEW w \in Write, NEW r, write' = [write EXCEPT ![w] = r]
  PROVE  /\ Cardinality(Tasks') = Cardinality(Tasks) + OfTask(r) - OfTask(write[w])
         /\ Cardinality(TaskData') = Cardinality(TaskData) + OfData(r) - OfData(write[w])
         /\ \A v \in Write : v \in TaskData' <=> IF v = w THEN OfData(r) = 1 ELSE v \in TaskData
         /\ w \in TaskData <=> OfData(write[w]) = 1
         /\ Cardinality(Tasks) \in Nat /\ Cardinality(TaskData) \in Nat
<1>1. \A v \in Write : write'[v] = IF v = w THEN r ELSE write[v]
  BY DEF WriteShape
<1>2. /\ Tasks \ {w} = Tasks' \ {w} /\ TaskData \ {w} = TaskData' \ {w}
      /\ w \in Tasks <=> OfTask(write[w]) = 1
      /\ w \in Tasks' <=> OfTask(r) = 1
      /\ w \in TaskData <=> OfData(write[w]) = 1
      /\ w \in TaskData' <=> OfData(r) = 1
  BY <1>1 DEF Tasks, TaskData, Live, OfTask, OfData
<1>3. OfTask(r) \in {0, 1} /\ OfTask(write[w]) \in {0, 1}
      /\ OfData(r) \in {0, 1} /\ OfData(write[w]) \in {0, 1}
  BY DEF OfTask, OfData
<1> DEFINE A == Tasks
           B == Tasks'
           C == TaskData
           D == TaskData'
<1>4. IsFiniteSet(A) /\ IsFiniteSet(C) /\ A \ {w} = B \ {w} /\ C \ {w} = D \ {w}
  BY <1>2, CountsAreNat
<1> HIDE DEF A, B, C, D
<1>5. /\ Cardinality(A) \in Nat
      /\ Cardinality(B) = Cardinality(A) + (IF w \in B THEN 1 ELSE 0) - (IF w \in A THEN 1 ELSE 0)
  BY <1>4, OneDiffers
<1>6. /\ Cardinality(C) \in Nat
      /\ Cardinality(D) = Cardinality(C) + (IF w \in D THEN 1 ELSE 0) - (IF w \in C THEN 1 ELSE 0)
  BY <1>4, OneDiffers
<1>7. Cardinality(B) = Cardinality(A) + OfTask(r) - OfTask(write[w])
  BY <1>2, <1>3, <1>5 DEF A, B
<1>8. Cardinality(D) = Cardinality(C) + OfData(r) - OfData(write[w])
  BY <1>2, <1>3, <1>6 DEF C, D
<1>9. \A v \in Write : v \in TaskData' <=> IF v = w THEN OfData(r) = 1 ELSE v \in TaskData
  BY <1>1 DEF TaskData, Live, OfData
<1>10. QED
  BY <1>2, <1>5, <1>6, <1>7, <1>8, <1>9 DEF A, B, C, D

\* A step of one write that pays for the task and its data what they are worth.
LEMMA OneTaskChanges ==
  ASSUME WriteShape, RefsInv, NEW w \in Write, NEW r, write' = [write EXCEPT ![w] = r],
         InProgress(r), running' # Null => running' \in Write /\ write'[running'].at = "callback",
         holding' = holding,
         refs' = refs + OfTask(r) + OfData(r) - OfTask(write[w]) - OfData(write[w]),
         \A v \in Write : file'[v] = file[v] + IF v = w /\ w \in File
                                              THEN OfData(r) - OfData(write[w]) ELSE 0
  PROVE  TasksInv' /\ WritesInProgress'
<1>1. /\ Cardinality(Tasks') = Cardinality(Tasks) + OfTask(r) - OfTask(write[w])
      /\ Cardinality(TaskData') = Cardinality(TaskData) + OfData(r) - OfData(write[w])
      /\ \A v \in Write : v \in TaskData' <=> IF v = w THEN OfData(r) = 1 ELSE v \in TaskData
      /\ w \in TaskData <=> OfData(write[w]) = 1
      /\ Cardinality(Tasks) \in Nat /\ Cardinality(TaskData) \in Nat
  BY TaskCounts
<1>2. /\ OfTask(r) \in {0, 1} /\ OfTask(write[w]) \in {0, 1}
      /\ OfData(r) \in {0, 1} /\ OfData(write[w]) \in {0, 1}
  BY DEF OfTask, OfData
<1>3. GeneratorExact'
  <2>1. refs = Handle + Cardinality(Tasks) + Cardinality(TaskData)
    BY DEF RefsInv, TasksInv, GeneratorExact
  <2>2. Handle' = Handle /\ Handle \in Int
    BY DEF Handle
  <2>3. refs' = Handle' + Cardinality(Tasks') + Cardinality(TaskData')
    BY <1>1, <1>2, <2>1, <2>2
  <2>4. QED
    BY <2>3 DEF GeneratorExact
<1>4. FilesExact'
  <2>1. ASSUME NEW v \in Write PROVE file'[v] = 1 + Opened(v)'
    <3>1. file[v] = 1 + Opened(v)
      BY DEF RefsInv, TasksInv, FilesExact
    <3>2. CASE v = w /\ w \in File
      <4>1. Opened(v) = OfData(write[w]) /\ Opened(v)' = OfData(r)
        BY <1>1, <1>2, <3>2 DEF Opened
      <4>2. QED
        BY <1>2, <3>1, <3>2, <4>1
    <3>3. CASE ~(v = w /\ w \in File)
      <4>1. Opened(v)' = Opened(v) /\ Opened(v) \in Int
        BY <1>1, <3>3 DEF Opened
      <4>2. file'[v] = file[v] + 0
        BY <3>3
      <4>3. QED
        BY <3>1, <4>1, <4>2
    <3>4. QED
      BY <3>2, <3>3
  <2>2. QED
    BY <2>1 DEF FilesExact
<1>5. WritesInProgress'
  <2>1. \A v \in Write : write'[v] = IF v = w THEN r ELSE write[v]
    BY DEF WriteShape
  <2>2. QED
    BY <2>1 DEF RefsInv, WritesInProgress, InProgress
<1>6. QED
  BY <1>3, <1>4, <1>5 DEF TasksInv

\* A step that leaves the trees and who owns them alone.
LEMMA TreesStay ==
  ASSUME RefsInv, UNCHANGED <<root, document, trees>>
  PROVE  TreesInv'
BY DEF trees, RefsInv, TreesInv, NodesExact, DocsExact, NodeOwned, DocOwned, RootOf

\* A step that leaves the writes alone, and pays for the program's own reference.
LEMMA TasksStay ==
  ASSUME RefsInv, UNCHANGED <<write, running, file>>, refs' = refs + Handle' - Handle
  PROVE  TasksInv' /\ WritesInProgress'
<1>1. Tasks' = Tasks /\ TaskData' = TaskData
  BY DEF Tasks, TaskData, Live
<1>2. Handle \in Int /\ Handle' \in Int
      /\ Cardinality(Tasks) \in Int /\ Cardinality(TaskData) \in Int
  BY CountsAreNat DEF Handle
<1>3. GeneratorExact'
  BY <1>1, <1>2 DEF RefsInv, TasksInv, GeneratorExact
<1>4. FilesExact'
  <2>1. \A v \in Write : Opened(v)' = Opened(v)
    BY <1>1 DEF Opened
  <2>2. QED
    BY <2>1 DEF RefsInv, TasksInv, FilesExact
<1>5. WritesInProgress'
  BY DEF RefsInv, WritesInProgress, InProgress
<1>6. QED
  BY <1>3, <1>4, <1>5 DEF TasksInv

\* What a write that has not begun is worth, and one that is on its way.
LEMMA Worth ==
  ASSUME RefsInv, NEW w \in Write
  PROVE  /\ write[w].at = "unused" => OfTask(write[w]) = 0 /\ OfData(write[w]) = 0
         /\ write[w].at \in {"writing", "returned", "callback"}
              => /\ OfTask(write[w]) = 1
                 /\ OfData(write[w]) = IF write[w].data # Null THEN 1 ELSE 0
BY DEF RefsInv, WritesInProgress, InProgress, OfTask, OfData

\* A synchronous write makes no task.
LEMMA WriteSyncCounts ==
  ASSUME WriteShape, RefsInv, NEW w \in Write, NEW fault, WriteSync(w, fault)
  PROVE  RefsInv'
<1>1. /\ write[w].at = "unused"
      /\ UNCHANGED <<refs, holding, root, document, trees, file, running>>
      /\ UNCHANGED <<node, doc, nodesOwned, docsOwned>>
  BY DEF WriteSync, handle, settings, trees
<1>2. PICK r : /\ write' = [write EXCEPT ![w] = r] /\ r.at = "done"
               /\ r.async = write[w].async
  <2> DEFINE data   == IF fault = "emitter" THEN Null ELSE ToData
             failed == data = Null \/ fault # "none"
             x      == [write[w] EXCEPT !.at = "done", !.asked = ToData,
                                        !.failed = failed, !.answer = ~failed]
  <2>1. write' = [write EXCEPT ![w] = x]
    BY DEF WriteSync, WriteShape
  <2>2. x.at = "done" /\ x.async = write[w].async
    BY DEF WriteShape, IsWrite, Fields
  <2> HIDE DEF x
  <2>3. QED
    BY <2>1, <2>2
<1>3. ~write[w].async /\ write[w].async \in BOOLEAN
  BY <1>1 DEF RefsInv, WritesInProgress, InProgress
<1>4. InProgress(r) /\ OfTask(r) = 0 /\ OfData(r) = 0
  BY <1>2, <1>3 DEF InProgress, OfTask, OfData
<1>5. OfTask(write[w]) = 0 /\ OfData(write[w]) = 0
  BY <1>1, Worth
<1>6. refs \in Int /\ \A v \in Write : file[v] \in Int
  BY DEF RefsInv, GeneratorTypes
<1>7. running' # Null => running' \in Write /\ write'[running'].at = "callback"
  BY <1>1, <1>2 DEF RefsInv, WritesInProgress, WriteShape
<1>8. /\ refs' = refs + OfTask(r) + OfData(r) - OfTask(write[w]) - OfData(write[w])
      /\ \A v \in Write : file'[v] = file[v] + IF v = w /\ w \in File
                                              THEN OfData(r) - OfData(write[w]) ELSE 0
  BY <1>1, <1>4, <1>5, <1>6
<1>9. TasksInv' /\ WritesInProgress'
  BY <1>1, <1>2, <1>4, <1>7, <1>8, OneTaskChanges
<1>10. QED
  BY <1>1, <1>9, TreesStay DEF RefsInv, GeneratorTypes

\* An asynchronous write makes a task, with data if there is something to write.
LEMMA WriteAsyncCounts ==
  ASSUME WriteShape, RefsInv, NEW w \in Write, NEW fault, WriteAsync(w, fault)
  PROVE  RefsInv'
<1> DEFINE data == IF fault = "emitter" THEN Null ELSE ToData
<1>1. /\ write[w].at = "unused"
      /\ refs' = refs + (IF data = Null THEN 1 ELSE 2)
      /\ file' = [file EXCEPT ![w] = @ + One(w \in File /\ data # Null)]
      /\ UNCHANGED <<holding, root, document, trees, running>>
      /\ UNCHANGED <<node, doc, nodesOwned, docsOwned>>
  BY DEF WriteAsync, settings, trees
<1>2. PICK r : /\ write' = [write EXCEPT ![w] = r] /\ r.async = TRUE /\ r.data = data
               /\ r.at = IF data = Null THEN "returned" ELSE "writing"
  <2> DEFINE x == [write[w] EXCEPT !.at = IF data = Null THEN "returned" ELSE "writing",
                                   !.async = TRUE, !.asked = ToData, !.data = data,
                                   !.failed = data = Null]
  <2>1. write' = [write EXCEPT ![w] = x]
    BY DEF WriteAsync, WriteShape
  <2>2. /\ x.async = TRUE /\ x.data = data
        /\ x.at = IF data = Null THEN "returned" ELSE "writing"
    BY DEF WriteShape, IsWrite, Fields
  <2> HIDE DEF x
  <2>3. QED
    BY <2>1, <2>2
<1> HIDE DEF data
<1>3. InProgress(r) /\ OfTask(r) = 1 /\ OfData(r) = IF data = Null THEN 0 ELSE 1
  BY <1>2 DEF InProgress, OfTask, OfData
<1>4. OfTask(write[w]) = 0 /\ OfData(write[w]) = 0
  BY <1>1, Worth
<1>5. refs \in Int /\ file \in [Write -> Int]
  BY DEF RefsInv, GeneratorTypes
<1>6. running' # Null => running' \in Write /\ write'[running'].at = "callback"
  <2>1. running # Null => running \in Write /\ write[running].at = "callback" /\ running # w
    BY <1>1 DEF RefsInv, WritesInProgress
  <2>2. QED
    BY <1>1, <1>2, <2>1 DEF WriteShape
<1>7. refs' = refs + OfTask(r) + OfData(r) - OfTask(write[w]) - OfData(write[w])
  BY <1>1, <1>3, <1>4, <1>5
<1>8. /\ \A v \in Write : file'[v] = file[v] + IF v = w /\ w \in File
                                              THEN OfData(r) - OfData(write[w]) ELSE 0
      /\ file' \in [Write -> Int]
  <2>1. One(w \in File /\ data # Null) = IF w \in File THEN OfData(r) ELSE 0
    BY <1>3 DEF One
  <2> DEFINE more == One(w \in File /\ data # Null)
  <2>2. file' = [file EXCEPT ![w] = @ + more]
    BY <1>1
  <2>3. more \in Int /\ more = IF w \in File THEN OfData(r) ELSE 0
    BY <2>1 DEF One
  <2> HIDE DEF more
  <2>4. QED
    BY <1>3, <1>4, <1>5, <2>2, <2>3
<1>9. TasksInv' /\ WritesInProgress'
  BY <1>1, <1>2, <1>3, <1>6, <1>7, <1>8, OneTaskChanges
<1>10. refs' \in Int
  BY <1>1, <1>5
<1>11. QED
  BY <1>1, <1>8, <1>9, <1>10, TreesStay DEF RefsInv, GeneratorTypes

\* A write that goes on keeps its task and its data.
LEMMA WriteGoesOnCounts ==
  ASSUME WriteShape, RefsInv, NEW w \in Write,
         WriteDone(w) \/ WriteFails(w) \/ Cancel(w) \/ CallBack(w)
  PROVE  RefsInv'
<1>1. /\ UNCHANGED <<refs, holding, root, document, trees, file>>
      /\ UNCHANGED <<node, doc, nodesOwned, docsOwned>>
  BY DEF WriteDone, WriteFails, Cancel, CallBack, handle, settings, trees
<1>2. write[w].at \in {"writing", "returned"}
  BY DEF WriteDone, WriteFails, Cancel, CallBack
<1>3. PICK r : /\ write' = [write EXCEPT ![w] = r]
               /\ r.async = write[w].async /\ r.data = write[w].data
               /\ r.at \in {"writing", "returned", "callback"}
               /\ CallBack(w) => r.at = "callback"
  <2>1. CASE WriteDone(w)
    <3> DEFINE x == [write[w] EXCEPT !.at = "returned"]
    <3>1. write' = [write EXCEPT ![w] = x]
      BY <2>1 DEF WriteDone, WriteShape
    <3>2. x.async = write[w].async /\ x.data = write[w].data /\ x.at = "returned"
      BY DEF WriteShape, IsWrite, Fields
    <3>3. ~CallBack(w)
      BY <2>1 DEF WriteDone, CallBack
    <3> HIDE DEF x
    <3>4. QED
      BY <3>1, <3>2, <3>3
  <2>2. CASE WriteFails(w)
    <3> DEFINE x == [write[w] EXCEPT !.failed = TRUE, !.at = "returned"]
    <3>1. write' = [write EXCEPT ![w] = x]
      BY <2>2 DEF WriteFails, WriteShape
    <3>2. x.async = write[w].async /\ x.data = write[w].data /\ x.at = "returned"
      BY DEF WriteShape, IsWrite, Fields
    <3>3. ~CallBack(w)
      BY <2>2 DEF WriteFails, CallBack
    <3> HIDE DEF x
    <3>4. QED
      BY <3>1, <3>2, <3>3
  <2>3. CASE CallBack(w)
    <3> DEFINE x == [write[w] EXCEPT !.at = "callback",
                                     !.answer = ~write[w].failed /\ ~write[w].cancelled]
    <3>1. write' = [write EXCEPT ![w] = x]
      BY <2>3 DEF CallBack, WriteShape
    <3>2. x.async = write[w].async /\ x.data = write[w].data /\ x.at = "callback"
      BY DEF WriteShape, IsWrite, Fields
    <3> HIDE DEF x
    <3>3. QED
      BY <3>1, <3>2
  <2>4. CASE Cancel(w) /\ ~CallBack(w)
    <3> DEFINE x == [write[w] EXCEPT !.cancelled = TRUE]
    <3>1. write' = [write EXCEPT ![w] = x]
      BY <2>4 DEF Cancel, WriteShape
    <3>2. x.async = write[w].async /\ x.data = write[w].data /\ x.at = write[w].at
      BY DEF WriteShape, IsWrite, Fields
    <3> HIDE DEF x
    <3>3. QED
      BY <1>2, <2>4, <3>1, <3>2
  <2>5. QED
    BY <2>1, <2>2, <2>3, <2>4
<1>4. write[w].async /\ write[w].async \in BOOLEAN
  BY <1>2 DEF RefsInv, WritesInProgress, InProgress
<1>5. InProgress(r) /\ OfTask(r) = 1 /\ OfData(r) = IF write[w].data # Null THEN 1 ELSE 0
  BY <1>3, <1>4 DEF InProgress, OfTask, OfData
<1>6. OfTask(write[w]) = 1 /\ OfData(write[w]) = IF write[w].data # Null THEN 1 ELSE 0
  BY <1>2, Worth
<1>7. refs \in Int /\ \A v \in Write : file[v] \in Int
  BY DEF RefsInv, GeneratorTypes
<1>8. running' # Null => running' \in Write /\ write'[running'].at = "callback"
  <2>1. CASE CallBack(w)
    BY <1>3, <2>1 DEF CallBack, WriteShape
  <2>2. CASE ~CallBack(w)
    <3>1. running' = running
      BY <2>2 DEF WriteDone, WriteFails, Cancel
    <3>2. running # Null => running \in Write /\ write[running].at = "callback" /\ running # w
      BY <1>2 DEF RefsInv, WritesInProgress
    <3>3. QED
      BY <1>3, <3>1, <3>2 DEF WriteShape
  <2>3. QED
    BY <2>1, <2>2
<1>9. /\ refs' = refs + OfTask(r) + OfData(r) - OfTask(write[w]) - OfData(write[w])
      /\ \A v \in Write : file'[v] = file[v] + IF v = w /\ w \in File
                                              THEN OfData(r) - OfData(write[w]) ELSE 0
  BY <1>1, <1>5, <1>6, <1>7
<1>10. TasksInv' /\ WritesInProgress'
  BY <1>1, <1>3, <1>5, <1>8, <1>9, OneTaskChanges
<1>11. QED
  BY <1>1, <1>10, TreesStay DEF RefsInv, GeneratorTypes

\* The end of a callback: the task and its data give back what they held.
LEMMA CallbackReturnsCounts ==
  ASSUME WriteShape, RefsInv, CallbackReturns
  PROVE  RefsInv'
<1> DEFINE w == running
           k == Held(running)
<1>1. /\ w # Null /\ running' = Null
      /\ write' = [write EXCEPT ![w] = Over]
      /\ file' = [file EXCEPT ![w] = @ - One(w \in File /\ write[w].data # Null)]
      /\ DropGenerator(k)
      /\ UNCHANGED <<holding, nodesOwned, docsOwned>>
  BY DEF CallbackReturns
<1>2. w \in Write /\ write[w].at = "callback"
  BY <1>1 DEF RefsInv, WritesInProgress
<1>3. InProgress(Over) /\ OfTask(Over) = 0 /\ OfData(Over) = 0
  BY DEF InProgress, Over, NoWrite, OfTask, OfData
<1>4. OfTask(write[w]) = 1 /\ OfData(write[w]) = IF write[w].data # Null THEN 1 ELSE 0
  BY <1>2, Worth
<1>5. k = OfTask(write[w]) + OfData(write[w]) /\ k \in Int
  BY <1>4 DEF Held
<1>6. refs \in Int /\ file \in [Write -> Int] /\ holding' \in BOOLEAN
  BY <1>1 DEF RefsInv, GeneratorTypes
<1>7. /\ \A v \in Write : file'[v] = file[v] + IF v = w /\ w \in File
                                              THEN OfData(Over) - OfData(write[w]) ELSE 0
      /\ file' \in [Write -> Int]
  <2> DEFINE less == One(w \in File /\ write[w].data # Null)
             all  == OfData(write[w])
  <2>1. less = (IF w \in File THEN all ELSE 0) /\ less \in Int
    BY <1>4 DEF One
  <2>2. file' = [file EXCEPT ![w] = @ - less]
    BY <1>1
  <2>3. all \in Int
    BY <1>4
  <2> HIDE DEF w, less, all
  <2>4. \A v \in Write : file'[v] = file[v] + IF v = w /\ w \in File THEN 0 - all ELSE 0
    BY <1>2, <1>6, <2>1, <2>2, <2>3
  <2>5. file' \in [Write -> Int]
    BY <1>2, <1>6, <2>1, <2>2
  <2>6. QED
    BY <1>3, <2>4, <2>5 DEF all
<1>8. TreesInv' /\ GeneratorTypes' /\ refs' = refs - k
  BY <1>1, <1>5, <1>6, <1>7, DropGeneratorKeeps
<1> HIDE DEF w, k
<1>9. refs' = refs + OfTask(Over) + OfData(Over) - OfTask(write[w]) - OfData(write[w])
  BY <1>3, <1>4, <1>5, <1>6, <1>8
<1>10. TasksInv' /\ WritesInProgress'
  BY <1>1, <1>2, <1>3, <1>7, <1>9, OneTaskChanges
<1>11. QED
  BY <1>8, <1>10 DEF RefsInv

\* The program drops the generator.
LEMMA UnrefGeneratorKeeps ==
  ASSUME RefsInv, UnrefGenerator
  PROVE  RefsInv'
<1>1. /\ holding /\ holding' = FALSE /\ DropGenerator(1)
      /\ UNCHANGED <<nodesOwned, docsOwned, write, running, file>>
  BY DEF UnrefGenerator, work
<1>2. file' \in [Write -> Int] /\ holding' \in BOOLEAN /\ refs \in Int
  BY <1>1 DEF RefsInv, GeneratorTypes
<1>3. TreesInv' /\ GeneratorTypes' /\ refs' = refs - 1
  BY <1>1, <1>2, DropGeneratorKeeps
<1>4. refs' = refs + Handle' - Handle
  BY <1>1, <1>2, <1>3 DEF Handle
<1>5. QED
  BY <1>1, <1>3, <1>4, TasksStay DEF RefsInv

\* Everything has the references that it was made with.
LEMMA RefsInit == Init => RefsInv
<1> SUFFICES ASSUME Init PROVE RefsInv
  OBVIOUS
<1>1. /\ refs = 1 /\ holding = TRUE /\ root = Null /\ document = Null /\ running = Null
      /\ node = [n \in Node |-> [refs |-> 1, edits |-> 0]]
      /\ doc = [d \in Document |-> [refs |-> 1, root |-> Null]]
      /\ nodesOwned = [n \in Node |-> TRUE] /\ docsOwned = [d \in Document |-> TRUE]
      /\ write = [w \in Write |-> NoWrite] /\ file = [w \in Write |-> 1]
  BY DEF Init
<1>2. GeneratorTypes
  BY <1>1 DEF GeneratorTypes, NodeRecord, DocRecord
<1>3. WritesInProgress
  BY <1>1 DEF WritesInProgress, InProgress, NoWrite
<1>4. Tasks = {} /\ TaskData = {}
  BY <1>1 DEF Tasks, TaskData, Live, NoWrite
<1>5. TasksInv
  BY <1>1, <1>4, FS_EmptySet DEF TasksInv, GeneratorExact, FilesExact, Handle, Opened
<1>6. ASSUME NEW n \in Node PROVE RootOf(n) = {} /\ Same(root, n) = 0
  BY <1>1, GeneratorAssumption DEF RootOf, Same
<1>7. NodesExact
  <2>1. ASSUME NEW n \in Node PROVE node[n].refs = 1 /\ NodeOwned(n) = 1
    BY <1>1 DEF NodeOwned
  <2>2. Cardinality({}) = 0
    BY FS_EmptySet
  <2>3. QED
    BY <1>6, <2>1, <2>2 DEF NodesExact
<1>8. \A d \in Document : Same(document, d) = 0
  BY <1>1, GeneratorAssumption DEF Same
<1>9. DocsExact
  BY <1>1, <1>8 DEF DocsExact, DocOwned
<1>10. QED
  BY <1>2, <1>3, <1>5, <1>7, <1>9 DEF RefsInv, TreesInv

\* Every step preserves the counters.
LEMMA RefsNext ==
  ASSUME AnswerInv, RefsInv, [Next]_vars
  PROVE  RefsInv'
<1>1. WriteShape /\ refs \in Int
  BY DEF AnswerInv, RefsInv, GeneratorTypes
<1>2. CASE Step
  BY <1>1, <1>2, WriteGoesOnCounts, CallbackReturnsCounts DEF Step
<1>3. ASSUME \/ \E n \in Node : SetRoot(n) \/ Edit(n) \/ UnrefNode(n)
             \/ \E d \in Document : SetDocument(d) \/ UnrefDocument(d)
             \/ \E d \in Document, n \in Node : SetDocumentRoot(d, n)
             \/ SetRoot(Null) \/ SetDocument(Null)
      PROVE  RefsInv'
  <2>1. TreesInv' /\ GeneratorTypes'
    BY <1>3, SetRootKeeps, EditKeeps, UnrefNodeKeeps, SetDocumentKeeps, UnrefDocumentKeeps,
       SetDocumentRootKeeps
  <2>2. UNCHANGED <<write, running, file>> /\ UNCHANGED <<refs, holding>>
    BY <1>3 DEF SetRoot, Edit, UnrefNode, SetDocument, UnrefDocument, SetDocumentRoot,
                work, handle
  <2>3. refs' = refs + Handle' - Handle
    BY <1>1, <2>2 DEF Handle
  <2>4. QED
    BY <2>1, <2>2, <2>3, TasksStay DEF RefsInv
<1>4. ASSUME (\E o \in Option : SetOption(o)) \/ UNCHANGED vars
      PROVE  RefsInv'
  <2>1. /\ UNCHANGED <<root, document, trees>> /\ UNCHANGED <<write, running, file>>
        /\ UNCHANGED <<refs, holding, node, doc, nodesOwned, docsOwned>>
    BY <1>4 DEF SetOption, vars, handle, settings, trees, work
  <2>2. refs' = refs + Handle' - Handle
    BY <1>1, <2>1 DEF Handle
  <2>3. QED
    BY <2>1, <2>2, TasksStay, TreesStay DEF RefsInv, GeneratorTypes
<1>5. ASSUME NEW w \in Write, NEW fault, WriteSync(w, fault) \/ WriteAsync(w, fault)
      PROVE  RefsInv'
  BY <1>1, <1>5, WriteSyncCounts, WriteAsyncCounts
<1>6. ASSUME NEW w \in Write, Cancel(w)
      PROVE  RefsInv'
  BY <1>1, <1>6, WriteGoesOnCounts
<1>7. CASE UnrefGenerator
  BY <1>7, UnrefGeneratorKeeps
<1>8. CASE Call
  BY <1>3, <1>4, <1>5, <1>6, <1>7, <1>8 DEF Call
<1>9. QED
  BY <1>2, <1>4, <1>8 DEF Next

\* For any number of writes, trees and documents: the counters of the generator, of what
\* it shares with the program and of the files are at every moment the number of places
\* that hold them.
THEOREM CountersStayExact == Spec => []RefsExact
<1>1. Init => AnswerInv /\ RefsInv
  BY AnswerInit, RefsInit
<1>2. AnswerInv /\ RefsInv /\ [Next]_vars => (AnswerInv /\ RefsInv)'
  BY AnswerNext, RefsNext
<1>3. RefsInv => RefsExact
  <2> SUFFICES ASSUME RefsInv PROVE RefsExact
    OBVIOUS
  <2>1. GeneratorExact /\ NodesExact /\ DocsExact /\ FilesExact
    BY DEF RefsInv, TreesInv, TasksInv
  <2>2. refs = One(holding) + Cardinality({w \in Write : Live(w)})
                            + Cardinality({w \in Write : Live(w) /\ write[w].data # Null})
    BY <2>1 DEF GeneratorExact, Handle, One, Tasks, TaskData
  <2>3. ASSUME NEW n \in Node
        PROVE  node[n].refs = One(nodesOwned[n]) + One(root = n)
                                + Cardinality({d \in Document : doc[d].root = n})
    BY <2>1 DEF NodesExact, NodeOwned, Same, One, RootOf
  <2>4. ASSUME NEW d \in Document
        PROVE  doc[d].refs = One(docsOwned[d]) + One(document = d)
    BY <2>1 DEF DocsExact, DocOwned, Same, One
  <2>5. ASSUME NEW w \in Write
        PROVE  file[w] = 1 + One(w \in File /\ Live(w) /\ write[w].data # Null)
    <3>1. w \in TaskData <=> Live(w) /\ write[w].data # Null
      BY DEF TaskData
    <3>2. QED
      BY <2>1, <3>1 DEF FilesExact, Opened, One
  <2>6. QED
    BY <2>2, <2>3, <2>4, <2>5 DEF RefsExact
<1>4. QED
  BY <1>1, <1>2, <1>3, PTL DEF Spec

=============================================================================
