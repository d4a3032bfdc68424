--------------------------- MODULE YamlGenerator ---------------------------
(***************************************************************************)
(* YamlGenerator (yaml-generator.c) in a program with one main loop: what  *)
(* it is given to write, and writes that are synchronous or go on while    *)
(* the program changes the tree, the document, the options, or drops the   *)
(* generator.                                                              *)
(*                                                                         *)
(* A tree is its root node and the number of times it was edited; how it   *)
(* becomes a text is in YamlWriter.  GTask, streams and files are GLib's,  *)
(* modelled as the code uses them: a task refers to the object it was made *)
(* for and to its data until its callback, which runs once and from the    *)
(* main loop, is over; g_task_propagate_boolean fails when the task was    *)
(* cancelled; a stream reads the buffer it was given until it reports, and *)
(* may have written a part of it when it fails.                            *)
(***************************************************************************)
EXTENDS Naturals, FiniteSets

CONSTANTS
    Node, Document,
    Write,      \* the writes of a run, each used once
    File,       \* those that write to a GFile; others write to a stream
    Option,     \* the settings of the generator
    MaxEdits,   \* bound: edits of a tree
    Null

ASSUME GeneratorAssumption ==
    /\ IsFiniteSet(Node) /\ IsFiniteSet(Document) /\ IsFiniteSet(Write)
    /\ File \subseteq Write /\ MaxEdits \in Nat
    /\ Null \notin Node \cup Document \cup Write \cup BOOLEAN

VARIABLES
    refs, holding,          \* references to the generator; whether the program owns one
    root, document, option, \* its private data
    node,                   \* references and edits of each tree
    doc,                    \* references and root of each document
    nodesOwned, docsOwned,  \* references of the program
    write,                  \* the writes and their tasks
    file,                   \* references to the GFile of each write
    target,                 \* what was written
    running                 \* the write whose callback runs

handle   == <<refs, holding>>
settings == <<root, document, option>>
trees    == <<node, doc, nodesOwned, docsOwned>>
work     == <<write, file, target, running>>
vars     == <<handle, settings, trees, work>>

\* `asked' is the text that the tree had at the call.
NoWrite == [at |-> "unused", async |-> FALSE, asked |-> Null, data |-> Null,
            failed |-> FALSE, cancelled |-> FALSE, answer |-> Null]

Over == [NoWrite EXCEPT !.at = "done"]

\* A part of a text.
Part == [root |-> Null, edits |-> 0, option |-> Null]

Init ==
    /\ refs = 1 /\ holding = TRUE
    /\ root = Null /\ document = Null /\ option \in Option
    /\ node = [n \in Node |-> [refs |-> 1, edits |-> 0]]
    /\ doc = [d \in Document |-> [refs |-> 1, root |-> Null]]
    /\ nodesOwned = [n \in Node |-> TRUE] /\ docsOwned = [d \in Document |-> TRUE]
    /\ write = [w \in Write |-> NoWrite]
    /\ file = [w \in Write |-> 1] /\ target = [w \in Write |-> Null]
    /\ running = Null

-----------------------------------------------------------------------------
(* References. *)

One(b) == IF b THEN 1 ELSE 0

NodesAfter(gained, lost) ==
    [n \in Node |-> [node[n] EXCEPT !.refs = @ + One(n = gained) - Cardinality({x \in lost : x[2] = n})]]

\* The document d loses a reference, and its root one if it was the last.
DocsWithout(d) ==
    [e \in Document |->
       IF e # d THEN doc[e]
       ELSE [doc[e] EXCEPT !.refs = @ - 1, !.root = IF doc[e].refs = 1 THEN Null ELSE @]]

RootLost(d) ==
    IF d # Null /\ doc[d].refs = 1 THEN {<<"document", doc[d].root>>} ELSE {}

\* The generator loses k references (yaml_generator_finalize).
DropGenerator(k) ==
    LET last == refs = k IN
    /\ refs' = refs - k
    /\ root' = IF last THEN Null ELSE root
    /\ document' = IF last THEN Null ELSE document
    /\ doc' = IF last THEN DocsWithout(document) ELSE doc
    /\ node' = NodesAfter(Null, IF last THEN RootLost(document) \cup {<<"generator", root>>} ELSE {})

\* Between iterations of the main loop and in callbacks, which get the generator.
CanCall == holding \/ running # Null

-----------------------------------------------------------------------------
(* Settings. *)

\* yaml_generator_set_root, of a node that the program owns: the old root is dropped
\* first.
SetRoot(n) ==
    /\ CanCall /\ n # root /\ (n # Null => nodesOwned[n])
    /\ root' = n
    /\ node' = NodesAfter(n, {<<"generator", root>>})
    /\ UNCHANGED <<handle, document, option, doc, nodesOwned, docsOwned, work>>

\* yaml_generator_set_document.
SetDocument(d) ==
    /\ CanCall /\ d # document /\ (d # Null => docsOwned[d])
    /\ document' = d
    /\ doc' = [e \in Document |->
                 IF e = d THEN [doc[e] EXCEPT !.refs = @ + 1] ELSE DocsWithout(document)[e]]
    /\ node' = NodesAfter(Null, RootLost(document))
    /\ UNCHANGED <<handle, root, option, nodesOwned, docsOwned, work>>

\* yaml_generator_set_indent, _canonical, _unicode, _line_break, _explicit_start,
\* _explicit_end, _emit_comments.
SetOption(o) ==
    /\ CanCall /\ option' = o /\ o # option
    /\ UNCHANGED <<handle, root, document, trees, work>>

\* The program changes a tree, or the root of a document, or drops what it owns.
Edit(n) ==
    /\ nodesOwned[n] /\ node[n].edits < MaxEdits
    /\ node' = [node EXCEPT ![n].edits = @ + 1]
    /\ UNCHANGED <<handle, settings, doc, nodesOwned, docsOwned, work>>

SetDocumentRoot(d, n) ==
    /\ docsOwned[d] /\ nodesOwned[n] /\ doc[d].root # n
    /\ doc' = [doc EXCEPT ![d].root = n]
    /\ node' = NodesAfter(n, {<<"document", doc[d].root>>})
    /\ UNCHANGED <<handle, settings, nodesOwned, docsOwned, work>>

UnrefNode(n) ==
    /\ nodesOwned[n]
    /\ nodesOwned' = [nodesOwned EXCEPT ![n] = FALSE]
    /\ node' = NodesAfter(Null, {<<"program", n>>})
    /\ UNCHANGED <<handle, settings, doc, docsOwned, work>>

UnrefDocument(d) ==
    /\ docsOwned[d]
    /\ docsOwned' = [docsOwned EXCEPT ![d] = FALSE]
    /\ doc' = DocsWithout(d)
    /\ node' = NodesAfter(Null, RootLost(d))
    /\ UNCHANGED <<handle, settings, nodesOwned, work>>

UnrefGenerator ==
    /\ holding
    /\ holding' = FALSE
    /\ DropGenerator(1)
    /\ UNCHANGED <<option, nodesOwned, docsOwned, work>>

-----------------------------------------------------------------------------
(* Writing. *)

\* The document has precedence, even when it has no root.
Root == IF document # Null THEN doc[document].root ELSE root

\* yaml_generator_to_data: no text without a root, and none when the emitter fails in
\* the middle, which frees what it had put out.
ToData == IF Root = Null THEN Null ELSE [root |-> Root, edits |-> node[Root].edits, option |-> option]

\* yaml_generator_to_file, _to_gfile, _to_stream; `fault' is what fails.
WriteSync(w, fault) ==
    /\ CanCall /\ write[w].at = "unused"
    /\ LET data   == IF fault = "emitter" THEN Null ELSE ToData
           failed == data = Null \/ fault # "none" IN
       /\ write' = [write EXCEPT ![w] = [@ EXCEPT !.at = "done", !.asked = ToData,
                                                  !.failed = failed, !.answer = ~failed]]
       /\ target' = [target EXCEPT ![w] = IF data # Null /\ failed THEN Part ELSE data]
    /\ UNCHANGED <<handle, settings, trees, file, running>>

\* How many references to the generator a task holds, itself and by its data.
Held(w) == IF write[w].data = Null THEN 1 ELSE 2

\* yaml_generator_to_stream_async, yaml_generator_to_gfile_async: without a text the
\* task fails and has no data.
WriteAsync(w, fault) ==
    /\ CanCall /\ write[w].at = "unused" /\ fault \in {"none", "emitter"}
    /\ LET data == IF fault = "emitter" THEN Null ELSE ToData IN
       /\ write' = [write EXCEPT ![w] =
                      [@ EXCEPT !.at = IF data = Null THEN "returned" ELSE "writing",
                                !.async = TRUE, !.asked = ToData, !.data = data,
                                !.failed = data = Null]]
       /\ refs' = refs + (IF data = Null THEN 1 ELSE 2)
       /\ file' = [file EXCEPT ![w] = @ + One(w \in File /\ data # Null)]
    /\ UNCHANGED <<holding, settings, trees, target, running>>

\* What is written is generated when the stream is ready.
WriteDone_Late(w) ==
    /\ running = Null /\ write[w].at = "writing"
    /\ target' = [target EXCEPT ![w] = ToData]
    /\ write' = [write EXCEPT ![w].at = "returned"]
    /\ UNCHANGED <<handle, settings, trees, file, running>>

\* write_all_async_cb, replace_contents_async_cb: the whole buffer was written.
WriteDone(w) ==
    /\ running = Null /\ write[w].at = "writing"
    /\ target' = [target EXCEPT ![w] = write[w].data]
    /\ write' = [write EXCEPT ![w].at = "returned"]
    /\ UNCHANGED <<handle, settings, trees, file, running>>

\* The task is not told of the error.
WriteFails_NoReturn(w) ==
    /\ running = Null /\ write[w].at = "writing"
    /\ \E some \in BOOLEAN : target' = [target EXCEPT ![w] = IF some THEN Part ELSE Null]
    /\ write' = [write EXCEPT ![w].failed = TRUE, ![w].at = "lost"]
    /\ UNCHANGED <<handle, settings, trees, file, running>>

\* The same, of a write that failed or was cancelled.
WriteFails(w) ==
    /\ running = Null /\ write[w].at = "writing"
    /\ \E some \in BOOLEAN : target' = [target EXCEPT ![w] = IF some THEN Part ELSE Null]
    /\ write' = [write EXCEPT ![w].failed = TRUE, ![w].at = "returned"]
    /\ UNCHANGED <<handle, settings, trees, file, running>>

\* g_cancellable_cancel.
Cancel(w) ==
    /\ write[w].at \in {"writing", "returned"} /\ ~write[w].cancelled
    /\ write' = [write EXCEPT ![w].cancelled = TRUE]
    /\ UNCHANGED <<handle, settings, trees, file, target, running>>

\* The task calls back, and the callback asks yaml_generator_to_stream_finish or
\* yaml_generator_to_gfile_finish.
CallBack(w) ==
    /\ running = Null /\ write[w].at = "returned"
    /\ write' = [write EXCEPT ![w].at = "callback",
                              ![w].answer = ~write[w].failed /\ ~write[w].cancelled]
    /\ running' = w
    /\ UNCHANGED <<handle, settings, trees, file, target>>

\* The task's reference to its data is lost.
CallbackReturns_KeepsData ==
    /\ running # Null
    /\ write' = [write EXCEPT ![running] = Over]
    /\ target' = [target EXCEPT ![running] = Null]
    /\ running' = Null
    /\ DropGenerator(1)
    /\ UNCHANGED <<holding, option, nodesOwned, docsOwned, file>>

\* The task and its data are gone (async_stream_context_free, async_gfile_context_free).
\* The program has no more questions about this write.
CallbackReturns ==
    /\ running # Null
    /\ write' = [write EXCEPT ![running] = Over]
    /\ target' = [target EXCEPT ![running] = Null]
    /\ file' = [file EXCEPT ![running] = @ - One(running \in File /\ write[running].data # Null)]
    /\ running' = Null
    /\ DropGenerator(Held(running))
    /\ UNCHANGED <<holding, option, nodesOwned, docsOwned>>

-----------------------------------------------------------------------------
\* What GLib and the library do on their own.
Step ==
    \/ \E w \in Write : WriteDone(w) \/ WriteFails(w) \/ CallBack(w)
    \/ CallbackReturns

Call ==
    \/ \E n \in Node : SetRoot(n) \/ Edit(n) \/ UnrefNode(n)
    \/ \E d \in Document : SetDocument(d) \/ UnrefDocument(d)
    \/ \E d \in Document, n \in Node : SetDocumentRoot(d, n)
    \/ SetRoot(Null) \/ SetDocument(Null) \/ UnrefGenerator
    \/ \E o \in Option : SetOption(o)
    \/ \E w \in Write :
         \/ \E fault \in {"none", "emitter", "output"} : WriteSync(w, fault) \/ WriteAsync(w, fault)
         \/ Cancel(w)

Next == Step \/ Call

Spec == Init /\ [][Next]_vars

\* Streams and files report, callbacks return and the main loop runs.
FairSpec == Spec /\ WF_vars(Step)

-----------------------------------------------------------------------------
\* A task exists from its call to the end of its callback.
Live(w) == write[w].async /\ write[w].at # "done"

\* The counters of the generator, of the roots and documents that it shares with the
\* program, and of the files are exact, in every order of settings, failures, callbacks
\* and drops: a task holds the generator and its data hold it once more, none of them
\* for good, and no task is left without it (yaml-generator.c:46-56, 221-300, 992-1192).
RefsExact ==
    /\ refs = One(holding) + Cardinality({w \in Write : Live(w)})
                           + Cardinality({w \in Write : Live(w) /\ write[w].data # Null})
    /\ \A n \in Node :
         node[n].refs = One(nodesOwned[n]) + One(root = n) + Cardinality({d \in Document : doc[d].root = n})
    /\ \A d \in Document : doc[d].refs = One(docsOwned[d]) + One(document = d)
    /\ \A w \in Write : file[w] = 1 + One(w \in File /\ Live(w) /\ write[w].data # Null)

\* A write that is reported as done has put out the tree as it was at the call, whatever
\* happened to the tree, the options and the generator since; one that is reported as
\* failed has a reason; and what could not be generated leaves the target alone
\* (yaml-generator.c:754-1192).
AnswersAreTrue ==
    \A w \in Write :
      /\ target[w] \in {Null, Part, write[w].asked}
      /\ write[w].answer = TRUE  => target[w] = write[w].asked /\ target[w] # Null
      /\ write[w].answer = FALSE => write[w].failed \/ write[w].cancelled
      /\ write[w].asked = Null   => target[w] = Null

\* Every write ends, and an asynchronous one calls back, whatever fails, is cancelled or
\* dropped.
WritesEnd == []<>(\A w \in Write : write[w].at \in {"unused", "done"})

=============================================================================
