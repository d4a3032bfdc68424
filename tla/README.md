# Verification of yaml-glib in TLA+

yaml-glib is a C library (GLib/GObject) that parses YAML with libyaml into trees of
reference-counted nodes, builds and modifies such trees, validates them against schemas,
converts them from and to GObjects and JSON, and writes them as text again. This directory
holds TLA+ models of its parts, the TLC configurations that check them, and TLAPS proofs.
Paths like `yaml-node.c:516` are below `src/src/` of the repository, paths that start with
`docs/` below `src/`.

Check a run with `tlc -config <file>.cfg <module>.tla` (`PROJECT.json` pairs them up), the
proofs with `tlapm` on `FiniteFacts` and the modules whose names end in `Proofs`.

## The system

| component | state | operations | interacts with |
|---|---|---|---|
| nodes, mappings, sequences (`yaml-node.c`, `yaml-mapping.c`, `yaml-sequence.c`) | `ref_count` (atomic), `immutable`, the owned container or scalar, members and key order, elements; a weak `parent` | new, ref, unref, set, take, get, dup, add, remove, foreach, seal, copy, hash, equal, JSON | everything owns nodes |
| document (`yaml-document.c`) | root, seal, version, tag directives | set, get, dup, steal root, seal, JSON | parser and builder create it, generator reads it |
| parser (`yaml-parser.c`) | array of documents, loads in progress with their tasks, immutable and capture-comments flags, error position | load from data, file, GFile, stream, synchronous and asynchronous; get, dup, steal documents and roots; reset; signals | libyaml (composer), comment index, document |
| comments (`yaml-comments.c`) | per line: comment, kind, taken or not | take leading, header, trailing | parser |
| writer (`yaml-writer.c`) | output string | render with comments and styles | nodes |
| builder (`yaml-builder.c`) | stack of open containers with member names, root, pending anchor and tag, anchor table | begin, end, add, alias, anchor, results, reset | nodes, document |
| generator (`yaml-generator.c`) | root or document, options | to data, file, GFile, stream, synchronous and asynchronous | libyaml (emitter), writer |
| schema (`yaml-schema.c`) | type, ranges, pattern, properties, element schema | validate with path | nodes |
| GObject conversion (`yaml-gobject.c`, `yaml-serializable.c`) | transform tables for boxed types | serialize, deserialize | nodes, GObject |

What is hard, and what makes each part correct:

* **Nodes.** Counters are changed by several threads at once, destructors are recursive and run
  while other threads work on shared children, sealing has to terminate and to reach everything on
  graphs with aliases and cycles, `set_*` and `take_*` differ in who owns what on which path.
  Correct means: a counter is the number of references; nobody reaches freed memory; what is sealed
  never changes and has nothing mutable below it; only reference cycles leak.
* **Conversion.** A libyaml document is a graph, possibly cyclic, whose node addresses are used
  again by the next document. Correct means: the recursion is bounded, each node is converted once,
  cycles are refused, nothing else is lost, and every reference is dropped, after errors too.
* **Builder.** Any sequence of calls is allowed. Correct means: a half-built container is seen by
  nobody, what was added is there, an immutable builder hands out sealed trees, counters are exact.
* **Parser interface, document.** What `get`, `dup` and `steal` return must exist; loads accumulate;
  signal handlers run in the middle of a parse.
* **Asynchronous operations.** Cancellation and errors race the next chunk; each callback runs once.
* **Comments and writer.** Each comment is claimed at most once, by the outermost node; what is
  rendered parses to the same tree.
* **Schema, equality and hash, scalars, JSON.** Pure functions with edge cases: numeric limits,
  equal mappings in different order, path bookkeeping.

## Modules

### YamlHeap, YamlOwnership

`YamlHeap` models the counters, the owned pointers and the sealing of nodes, mappings and sequences,
for any number of threads. A *slot* is a place that owns a reference: a variable of a thread, the
container of a node, a member, an element; `holds` maps slots to objects. `refCount`, `immutable` are
the C fields; `status` says whether an address is free, allocated or in its destructor. One action is
one library call (`SetMember` is `yaml_mapping_set_member`), with these exceptions, where other
threads may run in between:

* `yaml_*_unref` decrements atomically; the thread that reaches zero enters the destructor, which
  drops one field per `DestroyField` step and ends with `FreeObject`. Nested destructors form a stack
  (`destroying`, `caller`).
* `yaml_node_set_mapping` and its siblings run `yaml_node_clear_internal` first and store the
  container after it, in `FinishAssign`.
* Sealing visits one object per `SealObject` step. The order in which the recursion visits the
  children is left open, as it depends on hash table order.

Calls that modify or seal are serialised (`writer`), because the library leaves locking of unsealed
objects to the program (docs/memory-management.org, "Thread safety"). References may be handed to
another thread. `g_ptr_array_remove_index` runs the destroy notify before it moves the elements; since
no other thread may look at the array then, the model does both in the step. The order of the keys of
a mapping plays no part here.

`YamlOwnership` is the contract a user relies on: references come from references, what is referred
to exists, garbage goes away. `YamlHeap` implements it (`ImplementsOwnership`, with `exists` mapped to
the objects that are not free).

Pointers that own nothing are not in the model: the `parent` field, and what a `get_*` function
returns (except as the argument of `set_mapping`, see `heap_borrowed`). A pointer got from a sealed
object stays valid as long as that object exists, because its fields do not change (`SealedFrozen`)
and what they refer to is alive (`NoDangling`).

### YamlTree, Reachability

Operators on a heap of nodes as one thread sees it, for the modules below: storing into a container,
dropping a reference and what follows, sealing, reachability (of finite graphs in general in
`Reachability`, for `MCYamlHeap` too). A node and the container it alone holds
are one record, a reference count of 0 means freed.

### YamlConvert

`yaml_parser_parse_internal` with `convert_yaml_node`. The recursion is a stack of frames; each call
that meets a field of the libyaml node is one step: `SkipPair` (key is not a scalar), `RefuseCycle`
(the marker `YAML_NODE_IN_PROGRESS` is found), `Share` (a converted node is found), `Descend` (new),
`Return` (built, entered in the table, stored by the caller). `BeginDocument`, `ConvertRoot`,
`FinishDocument`, `EndOfStream`, `ParseError` and `ParseEnd` are the loop; `Release` is
`yaml_node_unref`, from the table or from a replaced member. Scalars are nodes without fields; their
text, tags, comments and the signals are left out.

### YamlBuilder

All functions of the builder. `add_value_to_context` is `AddToContext`; making a node the root is
two steps, because the old root is dropped (with everything that hangs on it) before the new one is
referenced. `owned` are the references the client got from `dup_root`, `steal_root` and documents,
which it may give back with `add_value` or drop. A call that only warns changes nothing and is no
step. Tags are left out: they wait like anchors but are in no table.

### YamlParser

The interface of the parser with documents, in a program with one main loop. The program may call
anything between two iterations of the main loop, in the handler of each signal of a parse and in the
callback of an asynchronous load, so one step is the code of `yaml_parser_parse_internal` between two
signals: `NextDocument` up to document-start, `FinishDocument` up to document-end, `ParseError`,
`EndOfStream`, `ParseReturns`. `calls` is the stack of parses and callbacks in progress, `load` has a
record for each load with its GTask (reading, parsing, returned, callback, done). `refs` counts the
references to the parser, `doc` and `node` are documents and root nodes with their counters,
`docsOwned` and `nodesOwned` what the program owns. What a source contains is left open: another
document, an error or the end, each is possible. The `immutable` property is read once per document
and can be changed at any time, so `FinishDocument` takes it as a parameter. GTask, signals and
streams are external: a task calls back once, `g_task_propagate_boolean` fails if the task was
cancelled, an emission references its arguments. Left out: nested main loops, the error position,
version and tag directives of documents, a libyaml that cannot be initialised.

### YamlMembers

The table of a mapping beside the array of its keys in the order of insertion, the elements of a
sequence, and walks: `Foreach`, `Visit` and `WalkEnds` are `yaml_mapping_foreach_member` and
`yaml_sequence_foreach_element`, between whose turns the callback may do to any container what the
program may do. `RemoveFirst` is the search for the key in the array. A node is its content.
`MappingEqual` and `MappingHash` are the comparison and the hash, with `HashedKeys` for the five
keys that the hash looks at.

### YamlScalars, YamlValues

`YamlScalars` defines scalars for the modules that need their values: a text (a form and a value),
the style, and the typed value that may be cached beside it, with the parsing of plain scalars, the
`init` functions and the getters with their fallback to the text. The numbers are scaled, not
idealised: integers have `Width` bits and saturate or are refused as in the code; doubles hold
integers up to `2^Precision` and only the even ones above; what `%g` drops is dropped.

`YamlValues` has one node that a program changes with every setter, which forget tag, comments and
cache as `yaml_node_clear_internal` does, and three functions of trees: copy, equality, and the
conversion from and to json-glib. They are recursive functions over the trees of `Tree` (a scalar or
null, or a container of any number of them), so that a proof can unfold them.

### YamlSchema

Every function that describes a schema is an action (those that only set a field are `SetField`),
and `Validate` is `yaml_schema_validate` with everything it calls: null first, then the type, then
for a mapping the required properties in the order of the hash table (which is open: `Validate` has
the set of all possible results), additional properties and the members in their order, each with
its path. `Places` and `Defects` say the same without an order, as the reference for it.

### YamlGObject

The default conversion of a property to a node and back by its type, with the casts, and the
refusal of GObject to set a value that is out of range (`Conforming`), classes that convert a property themselves, and the two passes of
`yaml_gobject_new_from_node` (construct-only properties first). `Load` makes an object from what an
author wrote by hand, with numbers out of range or names of enums. `Written` is the way through a
text: caches are gone, and what was plain is parsed.

### YamlGenerator

The generator in a program with one main loop. `ToData` is the text of the tree at the time of the
call, as it names the root, its edits and the options. A synchronous write is one step; an
asynchronous one has its task, which refers to the generator once or twice and to the GFile, and goes
through `WriteDone` or `WriteFails`, `CallBack` and `CallbackReturns`, while the program edits the
tree, replaces root, document and options, cancels, and drops the generator.

### YamlWriter

What becomes of the comments of a file. A file is a structure of items, with comments and blank lines
above, a value, and a comment behind. `Layout` gives its lines and the tree that libyaml composes of
it (external); the index of `yaml-comments.c` is `Content`, `TakeLeading`, `TakeHeader`,
`HasBlankBefore` and `GetTrailing` over these lines; `Convert` attaches comments to nodes in the order of
`convert_yaml_node`, with `consumed` for what was claimed; `Render` is `yaml-writer.c`, whose output is
such a structure again, and `EmitNode` the events of `yaml-generator.c`. So what is written can be
read again and compared. A text of several lines is a sequence of lines, of which the model tells
those that are empty, that begin with a space and that begin with a hash. `AppendLiteralBlock` puts it
down with one of the two indicators of the code, `BlockText` is what libyaml reads of such a block
(external: indentation taken off, line ends behind the text kept or not, no parse if a line is less
indented than the first), and `LayBelow` is what comes out behind a block, since its last line has
ended already: an empty line, or the comment on a line of its own. A file grows item by item in
`Next`, since the properties are about all files up to the bounds.

### YamlData

`YamlMembers`, `YamlValues`, `YamlSchema` and `YamlGObject` beside each other. They share no state, so
`focus` picks one and the others stay at their beginning: one run, and one module of proofs, is about
all of them without multiplying their states. Its properties are those of the components, each for
its `focus`.

### MCYamlData, MCYamlHeap, MCYamlConvert

Instances for TLC. `MCYamlData` adds the files of `YamlWriter` to `YamlData`. `MCYamlConvert` gives
a source one document of three nodes or two small ones at the same addresses. `MCYamlHeap` adds
which objects are above a cycle.

A definition named `Operation_Fault` in these modules is the operation with a plausible mistake. It
is not part of any specification; putting it in the place of the operation makes the property fail
that `PROJECT.json` names, which shows that the property depends on the code being as it is.

## Runs

| run | question | result |
|---|---|---|
| `heap_shared` | two threads, two nodes, a mapping: dangling references, calls in progress, frozen seals; destructors end, calls return, the ownership contract is implemented | holds |
| `heap_containers` | one thread, three nodes, a mapping, a sequence of two: types, exact counters, sealing closed, leaks only below cycles | holds |
| `heap_borrowed` | `set_mapping` with the pointer of `get_mapping` | violated: the container is freed before it is referenced |
| `convert_graphs` | all graphs of three libyaml nodes (sequences up to two elements, mappings of one pair, a root of two pairs with equal and complex keys), or two documents of two nodes at the same addresses: exact counters, one conversion per node, nothing lost or left, announced documents stay, the parse ends | holds |
| `parser_calls` | two loads, nested or both waiting, and a program that acts in every handler and callback: exact counters, true answers, sealed documents, no load left hanging | holds |
| `parser_steal` | yaml-parser.h:334, `steal_document` transfers a reference | violated: it has just been dropped |
| `builder_calls` | any calls, mappings and sequences in a root mapping, aliases of closed containers, changing immutable property | holds |
| `builder_pairs` | yaml-builder.h:101, pairs end up in the mapping | violated: an alias of an open container seals it |
| `generator_calls` | two writes, one to a GFile, and a program that changes and drops everything meanwhile: exact counters, true answers, every write ends | holds |
| `data_calls` | containers and walks; scalars and JSON; schemas; objects; files with comments, blank lines, containers and texts of several lines; each on its own | holds |
| `members_hash` | tests/test-node.c:357, equal nodes hash equally | violated by equal mappings of six keys in another order |
| `writer_block` | docs/guides/comments.org:2, a file is written back "without losing its comments" | violated: the comment behind a literal block becomes a part of its text |

The runs that end in a violation show where the code does not do what its documentation says; the
violations are listed under "findings" in `PROJECT.json`. `AliasesOpen`, `BorrowedArguments` and
`TrustsSteal` switch these uses off in the other runs; `HashesAgree` and `WrittenReadsBack` hold for
mappings whose hashed keys are the same, and for files without a comment behind a block whose texts
a block can hold (`Plainly`; the others only settle, see `Settles`). `Acyclic`, `HalfBuiltUnseen` and, in `builder_calls`, `NamedValuesArrive`
say nothing of a builder that adds an alias of a container which is still open.

Further disagreements of code and documentation that follow from reading a few lines and have no run:

* `yaml_node_set_parent` works on sealed nodes (yaml-node.c:868; docs/api/node.org:13 "Once sealed, a
  node and all its children cannot be modified").
* A pointer from `get_member` or `get_element` dangles when the member is removed or replaced while
  its parent lives on (yaml-mapping.c:250; docs/memory-management.org:31 "The value remains valid as
  long as the parent object exists").
* An immutable builder does not seal a root that is a scalar (yaml-builder.c:296; yaml-builder.h:57
  "All built nodes will be sealed automatically").
* `yaml_builder_steal_root` leaves the pending anchor and tag (yaml-builder.c:726; yaml-builder.h:379
  "resetting the builder").
* An anchor set before `end_mapping` or `end_sequence` names the container that ends
  (yaml-builder.c:290; yaml-builder.h:298 "for the next node to be created").
* `yaml_builder_add_value` with the pointer of `yaml_builder_get_root` frees the node before it is
  referenced (yaml-builder.c:295), as does `yaml_document_set_root` with a node below the root
  (yaml-document.c:190).
* The line and column of a parser are set by an error only, and a later successful load keeps them
  (yaml-parser.c:602; yaml-parser.h, "the current line number during or after parsing").
* An alias of a container that is still open makes a cycle, which is never freed (yaml-builder.c:665;
  the comment at 661 speaks of "shared structure in the built tree").
* `yaml_mapping_remove_member` with the string of `yaml_mapping_get_key`, or with the `member_name` that
  a callback of `foreach` was given, removes the key from the array, which frees it, and then looks it
  up in the table (yaml-mapping.c:243). `yaml_schema_add_property` of a property that exists leaves
  the table with a freed key (yaml-schema.c:238).
* `yaml_node_get_int` of a text that is no integer gives the number that it begins with, or the
  largest or smallest one if it is out of range (yaml-node.c:709; yaml-node.h:616, "or 0 if not an
  integer").
* Null is accepted where a schema itself validates it (yaml-schema.c:862, "Allow null for any type"),
  but a null member or element is refused before that, unless its type is declared as null.
* A construct-only property is converted by the default function even if its class has one of its own
  (yaml-gobject.c:332). The functions that `yaml_boxed_register_*` registers are used by no property.
* Flags gain the bits of every named value they overlap with. A string "null" comes back as a null
  pointer, and doubles lose what `%g` does not print (yaml-serializable.c).
* A comment behind a literal block below the top level becomes a leading comment of what follows.
  The blank line that ends every block without a comment, and one of the author's below it, belong
  to the block and are lost when it is read, so the blank line above the next item is not written
  again; from the third writing on nothing changes any more (yaml-writer.c:397; `Settles`, a part of
  `WrittenReadsBack`).
* A text of which each line begins with a space loses it, and one of line ends only is empty when it
  is read again (yaml-writer.c:173). Of several line ends behind a text one is kept, so the second
  writing differs from the first (yaml-writer.c:171; tests/test-comments.c:238 "Writing the file
  twice must produce the same bytes"). If the first line of a text begins with a space and a later
  one does not, the block does not parse (yaml-writer.c:173; yaml-writer.h:29 "Renders @root as
  block-style YAML").
* A header of an empty container is put out without the blank line below it, and lost when that is
  read (yaml-writer.c:495; the files of the runs have an item below a header). A comment run above a
  blank line in the middle of a file is dropped, while docs/guides/comments.org:122 names the end of
  the file only. `yaml-writer.c` writes no tags and no anchors. A comment behind a flow container
  goes to every node that begins on its line.
* If libyaml cannot be initialised, the comment index is leaked (yaml-parser.c:565).

**Bounds.** In `heap_shared` two threads have two variables each: enough for one thread to drop
the last reference, or to be in a destructor, while the other holds, borrows or takes references to
what is being destroyed. Two nodes and a mapping give self-references, shared children and cycles;
three nodes and a sequence, in `heap_containers`, chains of destructors and a first, a last and an
only element to remove. Addresses are used again, so stale pointers meet new objects. The conversion
run takes all graphs up to its bounds rather than examples: three nodes give aliases, a cycle through
the root, a cycle below it and an alias into a cycle; two pairs give a key that is replaced, equal or
complex. Two documents suffice for one to see leftovers of the other. The builder runs allocate
up to three nodes: an outer and an inner container and a scalar, or three levels; `Container` is the
type of a root and `ContainerBelow` those below it; the client owns one reference of its own, which
it may add anywhere. In `parser_calls` there are two loads, one of a stream and one of a file or of
data, two documents in all, which one source may contain or both, one level of nesting (a load in a
handler of the other) and one reference of the program: enough for a document that is in the array,
in an emission and in the program's hands at once. In `generator_calls` two writes can be waiting,
failing and calling back at once, with one tree, one document, two options and one edit
(`MaxEdits`), so every write can be older than what it would write now.

In `data_calls`: two mappings of up to three keys, of which the hash looks at two (`HashedKeys`), as
many orders as that gives; sequences of three elements; one removal during a walk (`MaxRemovals`).
Integers have four bits and a `gint` three, doubles are exact up to 4 and print an exponent from 4
on, in place of 64, 32, 2^53 and 10^6: each limit with values on both sides (`Value` holds doubles
at them), and what is printed with all its digits is exact, as in the code (`ScalarsAssumption`).
Containers of two members (`MaxBelow`). Two schemas described by three calls (`MaxCalls`): a schema
below itself, below another, and a constraint on either. Objects of two properties of any two kinds.
Files of three items, one level of nesting, with the gaps and kinds of scalars that the
configuration lists; another gap or kind is one value away in the configuration (`Kind`,
`KindBelow`, `GapFirst`, `Gap`). Three items are a text of several lines, what follows it, and one
inside or behind that. A file begins with a header and a comment, or with a blank line; other items
have nothing above them, or two comments that blank lines set apart, of which only the lower is
claimed. There are texts of two lines that a block can hold, and one that begins with a space and ends
in two line ends, of which the first writing makes one that a block can hold.

**Fairness.** `YamlHeap!FairSpec` assumes weak fairness of what a thread does inside a library call,
for each thread: a scheduled thread runs on, nothing in these functions waits. It assumes nothing
about the calls a program makes. `YamlParser!FairSpec` assumes that handlers and callbacks return,
that a source is read to an end or an error and that the main loop runs. `YamlGenerator!FairSpec`
assumes the same of streams, files and callbacks (`Step`), and nothing of the program (`Call`).
`YamlConvert` and `MCYamlConvert` assume weak fairness of the next-state relation: the parse is one
call, and the source is finite (`MaxDocuments`).

`CHECK_DEADLOCK FALSE` stands where the system really stops: a parse ends, the few addresses of a
heap instance can all be lost in reference cycles, a program may stop calling the parser or the
generator, and files and descriptions of schemas have an end.

## Proofs

TLC checks small instances; the theorems below hold for every value of the constants that satisfies
the named assumption of the module. Eight modules hold them:

| module | about | rests on |
|---|---|---|
| `YamlHeapProofs` | `YamlHeap`, its contract `YamlOwnership`, and the leaks of `MCYamlHeap` | `HeapAssumption`: finite, disjoint sets |
| `YamlConvertProofs` | `YamlConvert` | `ConvertAssumption`: the document is finite, nodes are no marks |
| `YamlBuilderProofs` | `YamlBuilder` | `BuilderAssumption` |
| `YamlParserProofs` | `YamlParser` | `ParserAssumption`: `Null` is neither a Boolean nor a number |
| `YamlGeneratorProofs` | `YamlGenerator` | `GeneratorAssumption` |
| `YamlDataProofs` | `YamlData` and its parts `YamlMembers`, `YamlValues`, `YamlSchema`, `YamlGObject` | `MembersAssumption`, `DataAssumption`: an integer has a bit and a `gint` two, and is no wider; whole doubles are exact where they are printed with all digits; `Absent` is no number or Boolean; powers of two are numbers and grow, which the provers do not know |
| `YamlTreeProofs` | the operators of `YamlTree` | nothing |
| `FiniteFacts` | finite sets, sequences, `Reachability` | nothing |

### Nodes: YamlHeapProofs

* `CountersTellTheTruth`: `refCount` is the number of slots that hold the object, always.
* `NoUseAfterFree`: no slot holds an object whose destructor has started.
* `TypeCorrect`: the type invariant; counters do not go below zero.
* `SealedNeverChanges`: no step changes a field of a live sealed object.
* `SealReachesAll`: below a sealed object everything is sealed, or will be by the seal in progress.
* `CallsAreSafe`: what a call in progress will still touch is alive when it gets there.
* `OnlyCyclesLeak`: what nothing reaches any more is on a reference cycle or below one.
* `OwnershipImplemented`: every step of the heap is a step of `YamlOwnership`, or changes nothing there.

All of them assume `~BorrowedArguments`: callers own the container they pass to `set_mapping` and
`set_sequence`. `heap_borrowed` shows that the assumption is needed.

The invariant is `CountInv`. `RefCountsExact` alone is not inductive: that a decrement to zero leaves
nothing behind needs `LiveIffCounted` (live exactly when the counter is positive) and `FreeIsEmpty`
(free memory refers to nothing, so a new object starts with one reference); that a destructor is
entered by one thread only needs `StacksAreDisjoint`; and the two halves of `set_mapping` need
`AssignIsSafe` (in between the writer still reaches the node and owns the container) and `OneCall`.
The proof counts references with `Cardinality` over the finite set of slots: `CountAfterStore` says
what storing in a slot does to every count, `CountAfterShift` that moving the elements of a sequence
up changes the count of the removed one only. One lemma per action (`SetMemberKeeps`, ...) rests on
these.

`CallsTouchLiveObjects` needs more, because a seal goes on for many steps while other threads drop
references: `SealSupported` says that the objects it is still to visit are in a set in which each is
held by a variable of the sealing thread or is a child of another. Other threads cannot write, so
they cannot take anything from that set: to free its first member they would have to drop a reference
that the set or the sealing thread has. For the refinement, the references of the contract are the
counts of `CountInv`, and each action either copies a reference that exists, drops one, or frees
memory without any (`StepContract`); its last part, that garbage goes away, needs fairness and is
left to TLC. For the leaks, take the objects that nothing reaches: each has a positive count, so it is
held by a slot, which is in another such object; a finite graph in which every vertex has a
predecessor has a cycle above each of them (`CycleAmongPredecessors` in `FiniteFacts`).

### Conversion: YamlConvertProofs

* `ConvertRefsExact`: counters are exact while a source is converted and after it.
* `ConvertConvertedOnce`: within a document a libyaml node is converted once.
* `ConvertOwnNodes`: a document contains its own nodes.
* `ConvertAnnouncedStays`: no step touches a document that was announced.
* `ConvertNothingElseLeft`: at the end exactly the documents are left, without cycles, and sealed if
  the parser is immutable.
* `ConvertFaithful`: a converted node has every field of its libyaml node, in order and with its last
  value, but those with a complex key and those through which the libyaml node contains itself.

All hold for sources with any number of documents, of any size and shape, cyclic ones included.

The invariant has five parts. `Fits` has the shapes of the state, and three facts that the code relies
on silently: what is on the stack is marked in the table (`Marked`), so no libyaml node is there twice;
the entries of the table are of different nodes (`Tabled`), so emptying it drops one reference of
each; and all frames but the last wait at a field that is stored (`AllWait`). `Counted` balances the
counters. `Origin` says of which document a node is, and that the nodes of the document at hand are in
the table or on the stack (`Held`): a libyaml node without an entry has no node yet. `Shape` says that
a node on the stack is in nothing (`Alone`), which is why a reference that is stored closes no cycle
(`Grounded`), that it is not sealed, and that freed nodes contain nothing (`Freed`). Every step is of
one of eight kinds (`StepKinds`); the two that store a node, `Share` and `Return`, are the same to
`Origin` and `Shape` (`Stores`).

What is left at the end has a positive counter, and then neither table nor stack refers to it: it is a
root, or in a node that is left too. If it were in no document, following these would lead to a cycle
(`CycleAmongPredecessors`).

The fifth part, `Told`, is for `Faithful`. The property says from which places of the libyaml node the
fields of a converted node come (`Built`), and the invariant says the same of a node on the stack, for
the places before its `next` (`Halfway`). `BuiltGrows` is the heart of it: what `Stored` does to the
fields is what one more place does to their order and values. A field is left out because its libyaml
node is marked; then that node is on the stack (`InWork`), the stack is a path in the document
(`Linked`), and so it leads to the node that is being built (`PathLeads`). What was built stays: only
the node at the top is written to, and a reference that is released is never the last one to a node of
the table or the stack (`ReleaseSpares`), which needs the exact counters.

### Builder: YamlBuilderProofs

* `BuilderCountsExactly`: counters are exact in every sequence of calls.
* `CompletedNeverChanges`, `SealsStayClosed`: what is sealed stays as it is, with everything below it.
* `OpenIsUnseen`, `NamesReachValues`, `NoNodeContainsItself`: an open container is on the stack only;
  a member name that is used up is a member; there are no cycles.

The last three assume `~AliasesOpen`; `builder_pairs` shows why. The first three hold without it.

`Fits` gives the shapes of the state, with two facts that are more than types: a mapping has a key
once (`OnceNamed`, so that replacing a member drops one reference), and a call that is under way has
an empty stack. `Counted` is the balance of every counter, with the references in the local variables
of a call (`Balanced`). `YamlTreeProofs` counts for it what each change of a sequence or a container
does to `Places` and `Uses` (`PlacesOfBoth`, `UsesSplit`, `StoredIs`), and `SealedClosed` becomes
inductive one level deep (`ClosedIn`): that the children of a sealed node are sealed leads back to
everything below it through the closure of `Reach`. `Steady` says of a step that it leaves sealed
nodes alone.

`Whole` is what the last three need at once. `OpenIn` says that an open container is once on the
stack, nowhere else and not sealed; the latter is why a value of a name arrives. It is kept by a seal
because a seal visits what is below a container, and an open one is below nothing. That in turn needs
the absence of cycles for the container that ends. `Acyclic` says nothing about how a new edge may
close a cycle; `Grounded`, that every set of nodes has one that contains none of the set, is kept when
a value is put into a container that nothing contains (`GroundedStays`), and `GroundedIsAcyclic` leads
back.

### Parser: YamlParserProofs

* `AnswersAreTrue`: what a program is told of an asynchronous load is true.
* `CountsAreExact`, `NothingDangles`: the counters of the parser, its documents and their roots are
  exact, and what is referred to exists.
* `SealedRootsStay`: a sealed document keeps its sealed root.

The invariant of the first is `LoadInv`. `AnswerIsTrue` alone is not inductive: that no error can
come after the answer needs `CallsMatchLoads` (each call in progress is of a load of its own, which is
being parsed or called back, so the handler of one load cannot change the result of another that has
called back), and `ErrorsReported` says that the result and the error of a load always agree. The
lemmas `ParseGoesOn`, `CallReturns` and `CallBegins` say what the three ways to move the stack of
calls preserve; every action is one of them or leaves the stack alone.

The counters need to know that a document is new when it is made: `KnownInv` says that the numbers
above `numbered` are used by nobody, and that no more parses are about to make a document than there
are numbers left (`StackKnown`). With it each step moves the counter of an object by as much as it
moves the number of its places (`Exact`). `CountsAreExact` and `NothingDangles` assume `~TrustsSteal`,
that the program does not use the pointer of `steal_document` as the owner of a reference;
`parser_steal` shows what happens otherwise.

### Generator: YamlGeneratorProofs

* `AnswersStayTrue`: what a program is told of a write is true of its target.
* `CountersStayExact`: the counters of the generator, of the trees and documents and of the files.

The invariant `AnswerInv` adds to `AnswersAreTrue` where a write is in its life (`StageOf`): it has no
answer before its callback, holds the text of its call while it writes, and has returned without an
error only if that text is in the target. `OneWriteChanges` says that a step which changes one write is
harmless if that write is; each action is one of these or changes no write (`NoWriteChanges`). For the
counters, dropping the last reference to a document drops its root, and dropping the generator drops
its root or document, so one step may end a chain of three objects: `LostTo` counts what it takes away.

### Containers, values, schemas, objects: YamlDataProofs

Mappings and sequences:

* `KeysAlwaysMatch`: the array of keys and the table of a mapping agree.
* `EqualityIsSound`: mappings compare as equal if and only if they have the same members, and equal
  ones have equal hashes if the keys that are hashed are the same.
* `WalksAreComplete`: what a walk visits while its callbacks change the container.

`KeysMatchMembers` says that the array and the table have equally many keys, by `Cardinality`; the
invariant `OrderInv` says instead that no position repeats a key (`NoneTwice`), which is what makes
the removal of the first occurrence the removal of the only one (`RemoveFirstIsRemoveAt`), and
`LenIsCardinality` leads back. The theorem about walks bounds the keys that were passed over together
with those that the position is beyond (`LostWalk`): a removal raises this number by one at most,
every other step leaves it or lowers it.

Scalars and trees:

* `ReadsAlwaysFollowText`: the integer and the Boolean a scalar gives are those of its text, and its
  double is that of its text up to what is printed.
* `ConversionsAlwaysKeepValues`: a tree keeps its shape and its typed values on its way to JSON and
  back, and a copy is the same tree and equals the original.

The first needs an invariant, since a cache and a text of any two values would contradict it: every
scalar in the tree is one that a setter makes (`MadeScalar`, `TreeInv`), a text with what is parsed of
it, or a value with what is printed of it. The second holds of each such scalar by arithmetic on the
limits of integers and doubles, and of a tree member by member. The recursive functions are unfolded
once for each level by an explicit equation for a leaf and for a branch; no induction is needed,
since a tree has two levels and any number of members.

Schemas:

* `DefectsAreReported`: a tree in which nothing is wrong is accepted; of every other one, every result
  a validation may have is something that is wrong, at the path where it is.

It holds for any number of schemas, which may use each other or themselves (`SchemaInv`: what a schema
refers to is a schema), for the trees of `Trees`, which have three levels. `Right` relates the possible
results of a validation to the defects that the reference definition finds: `FirstErrorIsRight` says
that the first error of several parts is right if each part's is, which is why the order of the checks
and of the hash table does not matter. Then `RightAbout` goes up the levels of a tree.

Objects:

* `ObjectsSurvive`: what YAML holds of an object has the same values when an object is made of its
  tree, and those its text gives when it is made from the text.

The invariant `ObjectInv` says that an object has the properties of its class, and each has a value
that fits its type (`Fits`); it is kept by what is loaded from a file by hand because numbers are cut
to the width of the property (`CastKeeps`, `ReadMembersFit`). Under it `MembersBack` says for each type
that a value comes back: lists and flags because choosing the elements at some places keeps their
order (`ChosenElements`, from `RanksAreUnique`), casts because what fits is not changed, texts because
what was plain parses to the scalar that was printed (`WrittenScalars`). `WrittenMembers` and
`ListedAsSequence` put the members together.

`ComponentsBehave` says that a behaviour of `YamlData` is one of each part, so what is proved of a part
holds of `DataSpec`.

### Only model-checked

* Liveness and the fairness part of the refinement, which are beyond the prover.
* `CommentsClaimedOnce` and `WrittenReadsBack`: `YamlWriter` lays out, composes, converts and renders
  files by recursive operators and folds over items of any number and depth, for which the prover has
  no induction and, for the recursive operators, no backend.

What the theorems above do not say of trees of any depth has the same reason. Recursion over numbers
is within reach: `Reachability` defines `Reach` by a function on the number of steps, and
`FiniteFacts` proves it least and closed by taking the smallest counterexample.

## Plan

In this order; all of it is done but what the list below leaves.

1. `YamlHeap` with its contract and proofs.
2. `YamlTree`, `YamlConvert`.
3. `YamlBuilder`.
4. `YamlParser`, with documents and asynchronous loads.
5. Comments from the file to the nodes and back: `YamlWriter`.
6. `YamlMembers`: key order, walks with callbacks, equality and hash.
7. `YamlGenerator`, with asynchronous writes.
8. `YamlScalars`, `YamlValues`, `YamlSchema`, `YamlGObject`: pure functions against references; with
   `YamlMembers` in `YamlData`.

Left to model: keys by their addresses (yaml-mapping.c:243, yaml-schema.c:238), version and tag
directives of documents and their JSON, the tables of boxed types, tags in the builder, scalars as
roots of a file with comments, a source of several documents with comments.

Proofs left: none that the prover reaches; see "Only model-checked".

## Not modelled

Text beyond what a property tells apart: escaping, indentation by other than two columns, keys that
are no words, the words of messages;
infinities and the special forms of `strtod`. The scanner, composer and emitter of libyaml, json-glib,
GTask, streams and files are external: they are modelled as the code uses them, by the documents they
compose and the ways in which they report. The GObject type system as such, notifications of
properties, and the warnings of `g_return_if_fail`. The weak `parent` pointer. The tables of boxed
types, which no other code reads. Build files, examples, tests and documentation, which are read for
what they claim.
