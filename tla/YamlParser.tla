----------------------------- MODULE YamlParser -----------------------------
(***************************************************************************)
(* The interface of YamlParser (yaml-parser.c) and the documents it hands  *)
(* out (yaml-document.c), in a program with one main loop.  The program    *)
(* may call anything between two iterations of the main loop, in the       *)
(* handler of each signal that a parse emits and in the callback of an     *)
(* asynchronous load; so a step of the library is the code between two of  *)
(* these places, and `calls' is the stack of parses and callbacks that are *)
(* not finished.                                                           *)
(*                                                                         *)
(* What a source contains is left open: there may be another document, an  *)
(* error, or the end.  Conversion is in YamlConvert; a tree is its root    *)
(* here.  GTask, signals and input streams are GLib's, modelled as the     *)
(* code uses them: the callback of a task runs once, from the main loop;   *)
(* g_task_propagate_boolean fails when the task was cancelled, whatever it *)
(* returned; the arguments of a signal are referenced while it is emitted. *)
(* A nested main loop is left out.                                         *)
(***************************************************************************)
EXTENDS Naturals, FiniteSets, SequencesExt

CONSTANTS
    Load,           \* the loads of a run, each used once
    Stream,         \* those that load a stream asynchronously; others load a file or data
    MaxDocuments,   \* bound: documents parsed in a run
    MaxDepth,       \* bound: parses in the handlers of parses
    MaxOwned,       \* bound: documents and nodes the program owns a reference to
    TrustsSteal,    \* whether the program takes yaml_parser_steal_document at its word
    Null

ASSUME ParserAssumption ==
    /\ IsFiniteSet(Load) /\ Stream \subseteq Load
    /\ MaxDocuments \in Nat
    /\ MaxDepth \in Nat /\ MaxOwned \in Nat /\ TrustsSteal \in BOOLEAN
    /\ Null \notin BOOLEAN \cup Nat

VARIABLES
    refs,           \* references to the parser
    holding,        \* whether the program owns one of them
    documents,      \* priv->documents
    doc, node,      \* documents and their roots
    docsOwned, nodesOwned,  \* references of the program
    load,           \* the loads and their tasks
    numbered,       \* how many documents there have been
    calls

handle == <<refs, holding>>
owned  == <<docsOwned, nodesOwned>>
trees  == <<doc, node, owned>>
work   == <<load, numbered, calls>>
vars   == <<handle, documents, trees, work>>

Document == 1..MaxDocuments

\* `ok' is the result of the load, `failed' whether something went wrong.
NoLoad == [at |-> "unused", async |-> FALSE, ok |-> TRUE, failed |-> FALSE,
           cancelled |-> FALSE, answer |-> Null]

Over == [NoLoad EXCEPT !.at = "done"]

Init ==
    /\ refs = 1 /\ holding = TRUE /\ documents = <<>>
    /\ doc  = [d \in Document |-> [refs |-> 0, root |-> Null, sealed |-> FALSE]]
    /\ node = [d \in Document |-> [refs |-> 0, sealed |-> FALSE]]
    /\ docsOwned = [d \in Document |-> 0] /\ nodesOwned = docsOwned
    /\ load = [l \in Load |-> NoLoad]
    /\ numbered = 0 /\ calls = <<>>

-----------------------------------------------------------------------------
(* References.  A document owns one to its root. *)

\* The documents of S lose a reference each.
DocsWithout(S) ==
    [d \in Document |->
       IF d \notin S THEN doc[d]
       ELSE [doc[d] EXCEPT !.refs = @ - 1, !.root = IF doc[d].refs = 1 THEN Null ELSE @]]

\* yaml_document_finalize of those for which it was the last.
NodesWithout(S) ==
    [n \in Document |->
       [node[n] EXCEPT
          !.refs = @ - Cardinality({d \in S : doc[d].refs = 1 /\ doc[d].root = n})]]

DropDocuments(S) == doc' = DocsWithout(S) /\ node' = NodesWithout(S)

\* The parser loses k references; yaml_parser_finalize frees the array.
DropParser(k) ==
    /\ refs' = refs - k
    /\ DropDocuments(IF refs = k THEN Range(documents) ELSE {})
    /\ documents' = IF refs = k THEN <<>> ELSE documents

\* A handler and a callback get the parser as an argument.
CanCall == holding \/ calls # <<>>

Top == Last(calls)
Cur == load[Top.load]

\* The documents the program can name.
Reachable ==
    {d \in Document : \/ docsOwned[d] > 0
                      \/ CanCall /\ d \in Range(documents)
                      \/ calls # <<>> /\ Top.at = "document-end" /\ d = Top.doc}

MayOwn ==
    Cardinality({d \in Document : docsOwned[d] > 0}) +
    Cardinality({n \in Document : nodesOwned[n] > 0}) < MaxOwned

-----------------------------------------------------------------------------
(* yaml_parser_parse_internal: a step ends where a signal is emitted. *)

Frame(l, at) == [load |-> l, at |-> at, doc |-> Null]

\* The emission of document-end is over: its reference to the document is dropped.
EmissionOver == IF Top.at = "document-end" THEN {Top.doc} ELSE {}

GoesTo(at) ==
    /\ calls' = Front(calls) \o <<Frame(Top.load, at)>>
    /\ DropDocuments(EmissionOver)

\* yaml_parser_load composed a document with a root.
NextDocument ==
    /\ calls # <<>> /\ Top.at \in {"parse-start", "document-end"}
    /\ numbered + Cardinality({i \in DOMAIN calls : calls[i].at = "document-start"}) < MaxDocuments
    /\ GoesTo("document-start")
    /\ UNCHANGED <<handle, documents, owned, load, numbered>>

\* The document is made, sealed and added, and document-end emitted with it.
\* `immutable' is the property, which the program may change at any time.
FinishDocument(immutable) ==
    /\ calls # <<>> /\ Top.at = "document-start"
    /\ LET d == numbered + 1 IN
       /\ doc'  = [doc EXCEPT ![d] = [refs |-> 2, root |-> d, sealed |-> immutable]]
       /\ node' = [node EXCEPT ![d] = [refs |-> 1, sealed |-> immutable]]
       /\ documents' = Append(documents, d)
       /\ calls' = Front(calls) \o <<[load |-> Top.load, at |-> "document-end", doc |-> d]>>
       /\ numbered' = d
    /\ UNCHANGED <<handle, owned, load>>

\* The error does not reach the caller.
ParseError_Succeeds ==
    /\ calls # <<>> /\ Top.at \in {"parse-start", "document-end"}
    /\ GoesTo("error")
    /\ load' = [load EXCEPT ![Top.load].failed = TRUE]
    /\ UNCHANGED <<handle, documents, owned, numbered>>

\* yaml_parser_load failed.
ParseError ==
    /\ calls # <<>> /\ Top.at \in {"parse-start", "document-end"}
    /\ GoesTo("error")
    /\ load' = [load EXCEPT ![Top.load].ok = FALSE, ![Top.load].failed = TRUE]
    /\ UNCHANGED <<handle, documents, owned, numbered>>

\* The end of the source, or of the handlers of error.
EndOfStream ==
    /\ calls # <<>> /\ Top.at \in {"parse-start", "document-end", "error"}
    /\ GoesTo("parse-end")
    /\ UNCHANGED <<handle, documents, owned, load, numbered>>

\* The parse returns, to its caller or to the callback of the stream, which
\* returns the result of the task.
ParseReturns ==
    /\ calls # <<>> /\ Top.at = "parse-end"
    /\ calls' = Front(calls)
    /\ load' = [load EXCEPT ![Top.load] =
                  IF Cur.async THEN [@ EXCEPT !.at = "returned"] ELSE Over]
    /\ UNCHANGED <<handle, documents, trees, numbered>>

-----------------------------------------------------------------------------
(* Loading. *)

\* yaml_parser_load_from_data; the other synchronous loads read their source first
\* and do nothing when that fails.
LoadSync(l) ==
    /\ CanCall /\ l \notin Stream /\ load[l].at = "unused" /\ Len(calls) < MaxDepth
    /\ load' = [load EXCEPT ![l].at = "parsing"]
    /\ calls' = Append(calls, Frame(l, "parse-start"))
    /\ UNCHANGED <<handle, documents, trees, numbered>>

\* How many references to the parser a task holds.
Held(l) == IF l \in Stream THEN 2 ELSE 1

\* yaml_parser_load_from_gfile_async, whose task refers to the parser, and
\* yaml_parser_load_from_stream_async, whose task data does so too.
LoadAsync(l) ==
    /\ CanCall /\ load[l].at = "unused"
    /\ load' = [load EXCEPT ![l].at = "reading", ![l].async = TRUE]
    /\ refs' = refs + Held(l)
    /\ UNCHANGED <<holding, documents, trees, numbered, calls>>

\* g_cancellable_cancel.
Cancel(l) ==
    /\ load[l].async /\ load[l].answer = Null /\ ~load[l].cancelled
    /\ load' = [load EXCEPT ![l].cancelled = TRUE]
    /\ UNCHANGED <<handle, documents, trees, numbered, calls>>

\* async_read_cb at the end of the stream, after any number of chunks, and
\* async_file_read_cb: the parse begins.
ReadDone(l) ==
    /\ calls = <<>> /\ load[l].at = "reading"
    /\ load' = [load EXCEPT ![l].at = "parsing"]
    /\ calls' = <<Frame(l, "parse-start")>>
    /\ UNCHANGED <<handle, documents, trees, numbered>>

\* The task does not return.
ReadFails_NoReturn(l) ==
    /\ calls = <<>> /\ load[l].at = "reading"
    /\ load' = [load EXCEPT ![l].ok = FALSE, ![l].failed = TRUE, ![l].at = "lost"]
    /\ UNCHANGED <<handle, documents, trees, numbered, calls>>

\* The source cannot be read, or was cancelled.
ReadFails(l) ==
    /\ calls = <<>> /\ load[l].at = "reading"
    /\ load' = [load EXCEPT ![l].ok = FALSE, ![l].failed = TRUE, ![l].at = "returned"]
    /\ UNCHANGED <<handle, documents, trees, numbered, calls>>

\* The task calls back, from g_task_return_* or from the main loop, and the callback
\* asks yaml_parser_load_from_stream_finish or yaml_parser_load_from_gfile_finish.
CallBack(l) ==
    /\ calls = <<>> /\ load[l].at = "returned"
    /\ load' = [load EXCEPT ![l].at = "callback",
                             ![l].answer = load[l].ok /\ ~load[l].cancelled]
    /\ calls' = <<Frame(l, "callback")>>
    /\ UNCHANGED <<handle, documents, trees, numbered>>

\* The task keeps a reference of its own.
CallbackReturns_KeepsTask ==
    /\ calls # <<>> /\ Top.at = "callback"
    /\ calls' = Front(calls)
    /\ load' = [load EXCEPT ![Top.load] = Over]
    /\ UNCHANGED <<handle, documents, trees, numbered>>

\* The task and its data are gone (async_load_data_free).
CallbackReturns ==
    /\ calls # <<>> /\ Top.at = "callback"
    /\ calls' = Front(calls)
    /\ load' = [load EXCEPT ![Top.load] = Over]
    /\ DropParser(Held(Top.load))
    /\ UNCHANGED <<holding, owned, numbered>>

-----------------------------------------------------------------------------
(* The parser's documents. *)

\* yaml_parser_dup_document, or g_object_ref on any document.
DupDocument(d) ==
    /\ d \in Reachable /\ MayOwn
    /\ doc' = [doc EXCEPT ![d].refs = @ + 1]
    /\ docsOwned' = [docsOwned EXCEPT ![d] = @ + 1]
    /\ UNCHANGED <<handle, documents, node, nodesOwned, work>>

\* yaml_parser_steal_document: g_ptr_array_remove_index calls the free function.
\* What is returned is a reference if the program believes so.
StealDocument(i) ==
    /\ CanCall /\ (TrustsSteal => MayOwn)
    /\ documents' = RemoveAt(documents, i)
    /\ DropDocuments({documents[i]})
    /\ docsOwned' = [docsOwned EXCEPT ![documents[i]] = IF TrustsSteal THEN @ + 1 ELSE @]
    /\ UNCHANGED <<handle, nodesOwned, work>>

\* yaml_parser_reset: the parses that are in progress go on.
Reset ==
    /\ CanCall
    /\ documents' = <<>>
    /\ DropDocuments(Range(documents))
    /\ UNCHANGED <<handle, owned, work>>

\* The program is done with the parser.  During a synchronous load it has to keep
\* its reference, during an asynchronous one it need not.
UnrefParser ==
    /\ holding /\ (calls # <<>> => load[calls[1].load].async)
    /\ holding' = FALSE
    /\ DropParser(1)
    /\ UNCHANGED <<owned, work>>

-----------------------------------------------------------------------------
(* Documents. *)

\* The new root is not referenced.
SetRoot_Unreferenced(d, n) ==
    /\ d \in Reachable /\ ~doc[d].sealed /\ doc[d].root # n
    /\ doc' = [doc EXCEPT ![d].root = n]
    /\ node' = [m \in Document |->
                 [node[m] EXCEPT !.refs = @ - (IF m = doc[d].root THEN 1 ELSE 0)]]
    /\ UNCHANGED <<handle, documents, owned, work>>

\* yaml_document_set_root.
SetRoot(d, n) ==
    /\ d \in Reachable /\ ~doc[d].sealed /\ doc[d].root # n
    /\ doc' = [doc EXCEPT ![d].root = n]
    /\ node' = [m \in Document |->
                 [node[m] EXCEPT !.refs = @ + (IF m = n THEN 1 ELSE 0)
                                             - (IF m = doc[d].root THEN 1 ELSE 0)]]
    /\ UNCHANGED <<handle, documents, owned, work>>

\* yaml_document_dup_root, yaml_parser_dup_root.
DupRoot(d) ==
    /\ d \in Reachable /\ doc[d].root # Null /\ MayOwn
    /\ node' = [node EXCEPT ![doc[d].root].refs = @ + 1]
    /\ nodesOwned' = [nodesOwned EXCEPT ![doc[d].root] = @ + 1]
    /\ UNCHANGED <<handle, documents, doc, docsOwned, work>>

\* The document is sealed and still gives its root away.
StealRoot_Unchecked(d) ==
    /\ d \in Reachable /\ doc[d].root # Null /\ MayOwn
    /\ nodesOwned' = [nodesOwned EXCEPT ![doc[d].root] = @ + 1]
    /\ doc' = [doc EXCEPT ![d].root = Null]
    /\ UNCHANGED <<handle, documents, node, docsOwned, work>>

\* yaml_document_steal_root, yaml_parser_steal_root.
StealRoot(d) ==
    /\ d \in Reachable /\ ~doc[d].sealed /\ doc[d].root # Null /\ MayOwn
    /\ nodesOwned' = [nodesOwned EXCEPT ![doc[d].root] = @ + 1]
    /\ doc' = [doc EXCEPT ![d].root = Null]
    /\ UNCHANGED <<handle, documents, node, docsOwned, work>>

\* yaml_document_seal.
SealDocument(d) ==
    /\ d \in Reachable /\ ~doc[d].sealed
    /\ doc' = [doc EXCEPT ![d].sealed = TRUE]
    /\ node' = [n \in Document |->
                 [node[n] EXCEPT !.sealed = @ \/ n = doc[d].root]]
    /\ UNCHANGED <<handle, documents, owned, work>>

UnrefDocument(d) ==
    /\ docsOwned[d] > 0
    /\ docsOwned' = [docsOwned EXCEPT ![d] = @ - 1]
    /\ DropDocuments({d})
    /\ UNCHANGED <<handle, documents, nodesOwned, work>>

UnrefNode(n) ==
    /\ nodesOwned[n] > 0
    /\ nodesOwned' = [nodesOwned EXCEPT ![n] = @ - 1]
    /\ node' = [node EXCEPT ![n].refs = @ - 1]
    /\ UNCHANGED <<handle, documents, doc, docsOwned, work>>

-----------------------------------------------------------------------------
\* What GLib and the library do on their own.
Step ==
    \/ NextDocument \/ ParseError \/ EndOfStream \/ ParseReturns
    \/ CallbackReturns
    \/ \E immutable \in BOOLEAN : FinishDocument(immutable)
    \/ \E l \in Load : ReadDone(l) \/ ReadFails(l) \/ CallBack(l)

\* The roots the program can pass on.
Nodes == {n \in Document : nodesOwned[n] > 0} \cup {doc[d].root : d \in Reachable} \cup {Null}

Call ==
    \/ \E l \in Load : LoadSync(l) \/ LoadAsync(l) \/ Cancel(l)
    \/ Reset \/ UnrefParser
    \/ \E i \in DOMAIN documents : StealDocument(i)
    \/ \E d \in Document :
         \/ DupDocument(d) \/ UnrefDocument(d) \/ UnrefNode(d)
         \/ DupRoot(d) \/ StealRoot(d) \/ SealDocument(d)
         \/ \E n \in Nodes : SetRoot(d, n)

Next == Step \/ Call

Spec == Init /\ [][Next]_vars

\* Handlers and callbacks return, sources are read to an end, the main loop runs.
FairSpec == Spec /\ WF_vars(Step)

-----------------------------------------------------------------------------
TaskExists(l) == load[l].async

\* The counters are exact: of the parser while tasks and the program share it, of a
\* document that is in the array, in the hands of the program and in a signal that
\* is being emitted, of a root that several documents share, in every order of
\* loads, handlers, callbacks, stealing and resets (yaml-parser.c:544-1105).  A task
\* holds the parser, and one for a stream holds it once more (Held).
RefsExact ==
    /\ refs = (IF holding THEN 1 ELSE 0) + Cardinality({l \in Load : TaskExists(l)})
                                         + Cardinality({l \in Stream : TaskExists(l)})
    /\ \A d \in Document :
         /\ doc[d].refs = docsOwned[d] + Cardinality({i \in DOMAIN documents : documents[i] = d})
                            + Cardinality({i \in DOMAIN calls : calls[i].doc = d})
         /\ node[d].refs = nodesOwned[d] + Cardinality({e \in Document : doc[e].root = d})

\* What the parser, the program and a signal that is emitted refer to exists, and
\* so does the parser while anything of it runs (yaml-parser.c:1011-1031: the
\* caller of steal_document owns what is returned, "transfer full").
NoDangling ==
    /\ \A d \in Range(documents) \cup {calls[i].doc : i \in DOMAIN calls} :
         d # Null => doc[d].refs > 0
    /\ \A d \in Document : /\ docsOwned[d] > 0 => doc[d].refs > 0
                           /\ nodesOwned[d] > 0 => node[d].refs > 0
                           /\ doc[d].root # Null => node[doc[d].root].refs > 0
    /\ calls # <<>> \/ holding => refs > 0

\* What the program is told of an asynchronous load: it succeeded only if its source
\* was read and parsed to the end, however many loads of other sources ran or failed
\* in its handlers; it failed only for a reason of its own.
AnswerIsTrue ==
    \A l \in Load :
      /\ load[l].answer = TRUE  => ~load[l].failed
      /\ load[l].answer = FALSE => load[l].failed \/ load[l].cancelled

\* A sealed document keeps its root, sealed, as long as it exists, although the root
\* may be shared with documents that are not sealed.
SealedKeepsRoot ==
    [][\A d \in Document :
         doc[d].sealed /\ doc'[d].refs > 0 /\ doc[d].refs > 0
           => /\ doc'[d].root = doc[d].root
              /\ doc[d].root # Null => node'[doc[d].root].sealed]_vars

\* Every load ends, and an asynchronous one calls back, however loads are nested in
\* handlers and whatever is cancelled, reset or dropped: time and again nothing runs.
LoadsEnd == []<>(\A l \in Load : load[l].at \in {"unused", "done"})

=============================================================================
