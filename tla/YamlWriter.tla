----------------------------- MODULE YamlWriter -----------------------------
(***************************************************************************)
(* What becomes of the comments of a file: the index of its lines          *)
(* (yaml-comments.c), the nodes that claim the comments while the document *)
(* is converted (yaml-parser.c), and the writer that puts them out again   *)
(* (yaml-writer.c), beside the events for libyaml's emitter, which has no  *)
(* comments (yaml-generator.c).                                            *)
(*                                                                         *)
(* A file is its structure: items with what is above them, a value and a   *)
(* comment behind it, as an author or the writer puts them down.  Laying   *)
(* it out gives its lines and, in place of libyaml's scanner and composer, *)
(* the nodes with the lines they begin on.  Comments are numbers, and 0 is *)
(* a blank line or no comment.                                             *)
(***************************************************************************)
EXTENDS Naturals, FiniteSets, SequencesExt

CONSTANTS
    MaxItems,   \* bound: items of a file
    Kind,       \* the kinds of scalars among them
    KindBelow,  \* the kinds of scalars in the containers among them
    GapFirst,   \* what there may be above the first item
    Gap,        \* what there may be above the others
    NoFile

VARIABLE file

vars == <<file>>

\* Texts: a word; a boolean, which stands for numbers too; null; one that would be taken
\* for something else if it were plain; none; and one of several lines, where a line is
\* empty, a word, a word behind a space, or begins with a hash.  Behind a last line end
\* there is another, empty line.
Text(form)  == [form |-> form, lines |-> <<>>]
Lines(seq)  == [form |-> "lines", lines |-> seq]
Typed(text) == text.form \in {"boolean", "null"}

Item(above, value, behind) == [above |-> above, value |-> value, behind |-> behind]

ScalarOf(text, style) == [type |-> "scalar", text |-> text, style |-> style]
\* A text that is put down as a literal block, "|" (clip) or "|-" (strip), with its lines.
Literal(lines, chomp) == [type |-> "scalar", style |-> "literal", lines |-> lines, chomp |-> chomp]
Container(type, flow, items) == [type |-> type, flow |-> flow, items |-> items]
Block(value) == value.type # "scalar" /\ ~value.flow /\ value.items # <<>>

-----------------------------------------------------------------------------
(* Laying out. *)

Content(comment) == [kind |-> "content", comment |-> comment]
Inside           == [kind |-> "inside", comment |-> 0]
LinesAbove(above) ==
    [i \in DOMAIN above |-> [kind |-> IF above[i] = 0 THEN "blank" ELSE "comment",
                             comment |-> above[i]]]

\* Blank lines below a text of several lines belong to its token.
Joined(lines, above) ==
    LET blank == {i \in DOMAIN above : \A j \in 1..i : above[j] = 0} IN
    IF lines # <<>> /\ Last(lines).kind = "inside"
      THEN lines \o [i \in DOMAIN above |-> IF i \in blank THEN Content(0) ELSE LinesAbove(above)[i]]
      ELSE lines \o LinesAbove(above)

\* The first line that is not empty tells how far a block is indented.
Filled(lines) == {i \in DOMAIN lines : lines[i] # ""}
Deeper(lines) == Filled(lines) # {} /\ lines[Min(Filled(lines))] = " word"

\* How libyaml reads a literal block: the indentation is taken off, a line that has less
\* of it is no part of the block and does not parse, and of the line ends behind the last
\* line that is not empty one is kept or none.
BlockText(lines, chomp) ==
    LET kept  == SubSeq(lines, 1, IF Filled(lines) = {} THEN 0 ELSE Max(Filled(lines)))
        taken == [i \in DOMAIN kept |-> IF Deeper(lines) /\ kept[i] # "" THEN "word" ELSE kept[i]]
    IN  IF kept = <<>> THEN Text("empty")
        ELSE IF Deeper(lines) /\ \E i \in Filled(lines) : lines[i] # " word" THEN Text("refused")
        ELSE Lines(IF chomp = "clip" THEN Append(taken, "") ELSE taken)

RECURSIVE LayItems(_, _, _, _)

At(node, line) == node @@ [line |-> line]

\* A block begins where its first item does.
BlockOf(value, inner) ==
    [lines |-> inner.lines,
     node  |-> At([value EXCEPT !.items = inner.items], inner.items[1].line)]

OnOneLine(value, line) ==
    At([value EXCEPT !.items = [i \in DOMAIN value.items |->
                                  [line |-> line, node |-> At(value.items[i].value, line)]]], line)

\* The value of an item whose own line is the last one.
LayValue(lines, value, depth, dash) ==
    IF Block(value) THEN BlockOf(value, LayItems(lines, value, depth + 1, dash))
    ELSE IF value.type # "scalar" THEN [lines |-> lines, node |-> OnOneLine(value, Len(lines))]
    ELSE IF value.style = "literal"
      THEN [lines |-> Append(lines, Inside),
            node  |-> At(ScalarOf(BlockText(value.lines, value.chomp), "literal"), Len(lines))]
    ELSE [lines |-> lines, node |-> At(value, Len(lines))]

\* What the writer puts out behind a literal block, which has ended its last line: a blank
\* line, which belongs to the block; or a comment, which is two columns in and so a line
\* of the text if that is indented as far, and otherwise a comment of its own.
LayBelow(laid, item, depth) ==
    IF "below" \notin DOMAIN item THEN laid
    ELSE IF item.below = 0 THEN [laid EXCEPT !.lines = Append(@, Inside)]
    ELSE IF depth = 0 /\ ~Deeper(item.value.lines)
      THEN [lines |-> Append(laid.lines, Inside),
            node  |-> [laid.node EXCEPT !.text =
                         BlockText(Append(item.value.lines, "# word"), item.value.chomp)]]
    ELSE [laid EXCEPT !.lines = @ \o LinesAbove(<<item.below>>)]

\* The line of a dash has what comes first behind the dash.
BehindDash(lines, item) ==
    [lines EXCEPT ![Len(lines)] = IF item.above # <<>> THEN Content(item.above[1])
                                  ELSE IF item.behind # 0 THEN Content(item.behind) ELSE @]

\* The lines up to the one an item is on.
LinesTo(lines, item, onDash) ==
    IF ~onDash THEN Append(Joined(lines, item.above), Content(item.behind))
    ELSE BehindDash(lines, item) \o
           (IF item.above = <<>> THEN <<>>
            ELSE Append(LinesAbove(Tail(item.above)), Content(item.behind)))

Laid(items, line, all) ==
    [lines |-> all.lines, items |-> Append(items, [line |-> line, node |-> all.node])]

\* An item whose own line is the last one comes after others.
LayItem(items, lines, item, depth, dash) ==
    Laid(items, Len(lines), LayBelow(LayValue(lines, item.value, depth, dash), item, depth))

\* The items of a container; with a dash, the first is on the line of the dash.
LayItems(lines, value, depth, dash) ==
    FoldLeft(LAMBDA acc, item :
               LayItem(acc.items, LinesTo(acc.lines, item, dash /\ acc.items = <<>>), item,
                       depth, value.type = "sequence"),
             [lines |-> lines, items |-> <<>>], value.items)

Composed(laid) == [lines |-> laid.lines, root |-> laid.node]

\* A file whose root is a container.
Layout(f) ==
    Composed(IF Block(f.root) THEN BlockOf(f.root, LayItems(LinesAbove(f.above), f.root, 0, FALSE))
             ELSE LayValue(Append(LinesAbove(f.above), Content(0)), f.root, 0, FALSE))

-----------------------------------------------------------------------------
(* The index of the lines (yaml-comments.c). *)

IsComment(lines, i) == lines[i].kind = "comment"

\* Comments that were claimed can be claimed again.
TakeLeading_Again(lines, consumed, line) ==
    {i \in 1..(line - 1) : \A j \in i..(line - 1) : IsComment(lines, j)}

\* yaml_comment_index_take_leading: the run of comments above the line, down from a
\* blank line, content or a comment that was claimed.
TakeLeading(lines, consumed, line) ==
    {i \in 1..(line - 1) : \A j \in i..(line - 1) : IsComment(lines, j) /\ j \notin consumed}

\* yaml_comment_index_take_header: from the top, if a blank line follows.
TakeHeader(lines) ==
    LET run == {i \in DOMAIN lines : \A j \in 1..i : IsComment(lines, j)}
        end == Cardinality(run) + 1 IN
    IF run # {} /\ end <= Len(lines) /\ lines[end].kind = "blank" THEN run ELSE {}

\* yaml_comment_index_has_blank_before.
HasBlankBefore(lines, line) ==
    \E i \in 1..(line - 1) :
      lines[i].kind = "blank" /\ \A j \in (i + 1)..(line - 1) : IsComment(lines, j)

\* yaml_comment_index_get_trailing: it is not claimed.
GetTrailing(lines, line) == IF lines[line].kind = "content" THEN lines[line].comment ELSE 0

CommentsOf(lines, claimed) ==
    LET at == SetToSortSeq(claimed, <) IN [i \in DOMAIN at |-> lines[at[i]].comment]

-----------------------------------------------------------------------------
(* convert_yaml_node: outermost first. *)

NoComments == [leading |-> <<>>, trailing |-> 0, blank |-> FALSE]

RECURSIVE Convert(_, _, _, _)

\* attach_comments, then the contents.
Attached(lines, consumed, ynode, line) ==
    LET claimed == TakeLeading(lines, consumed, line) IN
    Convert(lines, consumed \cup claimed, ynode,
            [leading |-> CommentsOf(lines, claimed), trailing |-> GetTrailing(lines, line),
             blank |-> HasBlankBefore(lines, line)])

\* Only what is plain can be null.
ConvertScalar(y) ==
    IF y.text.form = "null" /\ y.style = "plain" THEN [type |-> "null", style |-> y.style]
    ELSE [type |-> "scalar", text |-> y.text, style |-> y.style]

\* A member is anchored at its key, an element where it begins; both are the item's line.
Convert(lines, consumed, y, comments) ==
    IF y.type = "scalar" THEN [node |-> ConvertScalar(y) @@ comments, consumed |-> consumed]
    ELSE LET all == FoldLeft(LAMBDA acc, item :
                      LET r == Attached(lines, acc.consumed, item.node,
                                        IF y.type = "mapping" THEN item.line ELSE item.node.line) IN
                      [items |-> Append(acc.items, r.node), consumed |-> r.consumed],
                    [items |-> <<>>, consumed |-> consumed], y.items)
         IN  [node |-> [type |-> y.type, items |-> all.items] @@ comments, consumed |-> all.consumed]

ReadFrom(laid, header) ==
    Convert(laid.lines, header, laid.root,
            [NoComments EXCEPT !.leading = CommentsOf(laid.lines, header)]).node

IsScalarNode(n) == n.type \in {"scalar", "null"}
HasLines(n)     == n.type = "scalar" /\ n.text.form = "lines"

\* A node and what is below it, in their order.
RECURSIVE Nodes(_)
Nodes(n) ==
    IF IsScalarNode(n) THEN <<n>>
    ELSE <<n>> \o FlattenSeq([i \in DOMAIN n.items |-> Nodes(n.items[i])])

\* What there is of a file that does not parse.
NoTree     == ScalarOf(Text("refused"), "any") @@ NoComments
Refused(n) == n.type = "scalar" /\ n.text.form = "refused"

\* yaml_parser_parse_internal, of a document with comments.
ReadLaid(laid) ==
    LET tree == ReadFrom(laid, TakeHeader(laid.lines)) IN
    IF \E n \in Range(Nodes(tree)) : Refused(n) THEN NoTree ELSE tree
Read(f) == ReadLaid(Layout(f))

-----------------------------------------------------------------------------
(* The writer (yaml-writer.c). *)

PlainIsSafe(text) == text.form = "word"

\* The style is chosen from the text alone.
ScalarStyle_Guessed(n) == IF PlainIsSafe(n.text) THEN "plain" ELSE "quoted"

\* append_scalar, of a scalar on one line: what the source had wins.
ScalarStyle(n) ==
    CASE n.style = "plain"  -> IF PlainIsSafe(n.text) \/ Typed(n.text) THEN "plain" ELSE "quoted"
      [] n.style = "quoted" -> "quoted"
      [] OTHER              -> IF PlainIsSafe(n.text) THEN "plain" ELSE "quoted"

\* append_literal_block: "|" says that the text ends with a line end, but not with how
\* many, and nothing says how far the text is indented.
AppendLiteralBlock(lines) ==
    IF Last(lines) = "" THEN Literal(Front(lines), "clip") ELSE Literal(lines, "strip")

AppendScalar(n) ==
    IF n.type = "null" THEN ScalarOf(Text("null"), "plain")
    ELSE IF HasLines(n) THEN AppendLiteralBlock(n.text.lines)
    ELSE ScalarOf(n.text, ScalarStyle(n))

\* append_leading_comments: no blank line at the start of a buffer.
LeadingComments(n, started) ==
    (IF n.blank /\ started THEN <<0>> ELSE <<>>) \o n.leading

NodeIsBlock(n)  == ~IsScalarNode(n) /\ n.items # <<>>

RECURSIVE RenderItems(_, _)

\* render_mapping, render_sequence: an element that is a block goes to a buffer of its
\* own, and its comment is not put out.
RenderItem(type, n, started) ==
    LET above == LeadingComments(n, started) IN
    IF NodeIsBlock(n)
      THEN Item(above, Container(n.type, FALSE, RenderItems(n, type = "mapping")),
                IF type = "mapping" THEN n.trailing ELSE 0)
    ELSE IF ~IsScalarNode(n) THEN Item(above, Container(n.type, TRUE, <<>>), n.trailing)
    ELSE IF HasLines(n)
      THEN Item(above, AppendScalar(n), 0) @@ [below |-> n.trailing]
      ELSE Item(above, AppendScalar(n), n.trailing)

RenderItems(n, started) ==
    [i \in DOMAIN n.items |-> RenderItem(n.type, n.items[i], started \/ i > 1)]

\* yaml_writer_render, of a container.
Render(n) ==
    [above |-> LeadingComments(n, FALSE),
     root  |-> Container(n.type, n.items = <<>>, RenderItems(n, n.leading # <<>>))]

-----------------------------------------------------------------------------
(* emit_node: events for libyaml, which honours a style that it can use, and writes a *)
(* text of several lines so that it is read as it is.                                  *)

RECURSIVE EmitNode(_)
EmitNode(n) ==
    CASE n.type = "null"   -> ScalarOf(Text("null"), "plain")
      [] n.type = "scalar" -> ScalarOf(n.text, IF n.style = "literal" THEN "quoted" ELSE n.style)
      [] OTHER -> Container(n.type, n.items = <<>>,
                            [i \in DOMAIN n.items |-> Item(<<>>, EmitNode(n.items[i]), 0)])

Emitted(n) == [above |-> <<>>, root |-> EmitNode(n)]

-----------------------------------------------------------------------------
(* An author writes a file, item by item. *)

Init == file = NoFile

Start(type) ==
    /\ file = NoFile
    /\ file' = [above |-> <<>>, root |-> Container(type, FALSE, <<>>)]

Count(c) == Len(c.items)
Written ==
    Count(file.root) + FoldSeq(LAMBDA i, sum : sum + (IF i.value.type = "scalar" THEN 0 ELSE Count(i.value)),
                               0, file.root.items)

\* Comments are numbered by the item they belong to.
Numbered(shape) == [i \in DOMAIN shape |-> IF shape[i] = "blank" THEN 0 ELSE 10 * Written + i]
Behind(comment) == IF comment THEN 10 * Written + 9 ELSE 0

MayAdd == file # NoFile /\ Written < MaxItems

AddItem(shape, value, comment) ==
    /\ MayAdd
    /\ file' = [file EXCEPT !.root.items = Append(@, Item(Numbered(shape), value, Behind(comment)))]

\* In the container that was begun last: nothing is above the first item on the line of
\* a dash, and there is one comment behind all that is on one line.
AddInner(shape, value, comment) ==
    /\ MayAdd /\ file.root.items # <<>>
    /\ LET outer == Last(file.root.items) IN
       /\ outer.value.type # "scalar"
       /\ outer.value.flow => shape = <<>> /\ ~comment /\ value.style # "literal"
       /\ file.root.type = "sequence" /\ outer.value.items = <<>> => shape = <<>>
       /\ file' = [file EXCEPT !.root.items[Len(file.root.items)].value.items =
                     Append(@, Item(Numbered(shape), value, Behind(comment)))]

GapHere == IF file # NoFile /\ Written = 0 THEN GapFirst ELSE Gap

Above ==
    [none |-> <<>>, comment |-> <<"comment">>, blank |-> <<"blank">>,
     header |-> <<"comment", "blank">>, headed |-> <<"comment", "blank", "comment">>,
     section |-> <<"blank", "comment">>, apart |-> <<"blank", "comment", "blank", "comment">>]

\* A text of several lines as a literal block, or in double quotes with escapes.
Scalar ==
    [word      |-> ScalarOf(Text("word"), "plain"),
     boolean   |-> ScalarOf(Text("boolean"), "plain"),
     quoted    |-> ScalarOf(Text("boolean"), "quoted"),
     null      |-> ScalarOf(Text("null"), "plain"),
     nullword  |-> ScalarOf(Text("null"), "quoted"),
     unsafe    |-> ScalarOf(Text("unsafe"), "quoted"),
     lines     |-> Literal(<<"word", "word">>, "clip"),
     stripped  |-> Literal(<<"", "word", "", " word">>, "strip"),
     newline   |-> ScalarOf(Lines(<<"", "">>), "quoted"),
     ended     |-> ScalarOf(Lines(<<"word", "", "">>), "quoted"),
     indented  |-> ScalarOf(Lines(<<" word", "", " word", "", "">>), "quoted"),
     margin    |-> ScalarOf(Lines(<<" word", "word", "">>), "quoted")]

Next ==
    \/ \E type \in {"mapping", "sequence"} : Start(type)
    \/ \E comment \in BOOLEAN :
         \/ \E gap \in GapHere :
              \/ \E kind \in Kind : AddItem(Above[gap], Scalar[kind], comment)
              \/ \E type \in {"mapping", "sequence"}, flow \in BOOLEAN :
                   AddItem(Above[gap], Container(type, flow, <<>>), comment)
         \/ \E gap \in Gap, kind \in KindBelow : AddInner(Above[gap], Scalar[kind], comment)

Spec == Init /\ [][Next]_vars

-----------------------------------------------------------------------------
(* Properties. *)

LeadingOf(nodes) == FlattenSeq([i \in DOMAIN nodes |-> nodes[i].leading])

ClaimedOnce(lines, claimed) ==
    \A i \in {j \in DOMAIN lines : IsComment(lines, j)} :
      LET end == {e \in (i + 1)..Len(lines) :
                    ~IsComment(lines, e) /\ \A j \in i..(e - 1) : IsComment(lines, j)} IN
      Cardinality({c \in DOMAIN claimed : claimed[c] = lines[i].comment}) =
        IF \E e \in end : lines[e].kind = "content" \/ i \in TakeHeader(lines) THEN 1 ELSE 0

\* Of the comments on lines of their own, those directly above a line with content are
\* claimed, and those at the top with a blank line below; each by exactly one node,
\* although several nodes begin on a line (yaml-comments.c:225-369, yaml-parser.c:276-398).
CommentsClaimedOnce ==
    file # NoFile => ClaimedOnce(Layout(file).lines, LeadingOf(Nodes(Read(file))))

\* What the file says, without comments: a typed text that is plain is not a string.
RECURSIVE Data(_)
Data(n) ==
    CASE n.type = "null"   -> <<"null">>
      [] n.type = "scalar" -> <<n.text, Typed(n.text) /\ n.style = "plain">>
      [] OTHER             -> <<n.type, [i \in DOMAIN n.items |-> Data(n.items[i])]>>

RECURSIVE Comments(_)
Comments(n) ==
    <<n.leading, n.trailing,
      IF IsScalarNode(n) THEN <<>> ELSE [i \in DOMAIN n.items |-> Comments(n.items[i])]>>

\* The same tree, built by a program that says nothing of styles.
RECURSIVE Unstyled(_)
Unstyled(n) ==
    CASE n.type = "null"   -> n
      [] n.type = "scalar" -> [n EXCEPT !.style = "any"]
      [] OTHER             -> [n EXCEPT !.items = [i \in DOMAIN n.items |-> Unstyled(n.items[i])]]

\* What a literal block without indicators can say: a text with a line that is not
\* empty, the first of which has no space in front, and with one line end or none behind.
BlockHolds(lines) == Filled(lines) # {} /\ ~Deeper(lines) /\ Max(Filled(lines)) + 1 >= Len(lines)

\* No comment is behind a text of several lines, and all of these can be put down.
Plainly(tree) ==
    \A n \in Range(Nodes(tree)) : HasLines(n) => n.trailing = 0 /\ BlockHolds(n.text.lines)

\* No node that has a blank line above it follows a text of several lines.
Apart(nodes) ==
    \A i \in DOMAIN nodes : i > 1 /\ HasLines(nodes[i - 1]) => ~nodes[i].blank

\* The tree, the text that the writer makes of it, and the tree that is read from that.
WriterKeeps(tree, text, again) ==
    Plainly(tree) => /\ Data(again) = Data(tree) /\ Comments(again) = Comments(tree)
                     /\ Apart(Nodes(tree)) => Render(again) = text

\* A program's own tree.
StringsStay(tree) == Plainly(tree) => Data(Read(Render(tree))) = Data(tree)

EmitterKeeps(tree) == Data(Read(Emitted(tree))) = Data(tree)

ReadsBack(tree) ==
    /\ WriterKeeps(tree, Render(tree), Read(Render(tree)))
    /\ StringsStay(Unstyled(tree))
    /\ EmitterKeeps(tree)

\* Whatever a file is, if what is written first can be read, so can all that is written
\* from then on, and the third writing changes nothing any more: comments, blank lines
\* and parts of a text are lost in the first two at most.
Again(tree)   == Read(Render(tree))
Settled(tree) == tree # NoTree /\ Render(Again(tree)) = Render(tree)
Settles(tree) == Again(tree) # NoTree => Settled(Again(Again(tree)))

\* A file that was read and is written with its comments says the same when it is read
\* again, with every comment where it was, and writing it again changes nothing, not even
\* a blank line.  A program's own strings stay strings.  Without comments, what libyaml
\* writes says the same too.  This leaves out files with a comment behind a text of several
\* lines, or with such a text that begins with a space or ends in more than one line end,
\* which a block does not hold (yaml-writer.c:171-188), and from writing again those with
\* a blank line below one, which is lost when it is read; these settle, as all others do
\* (yaml-writer.c:25-520, yaml-generator.c:452-710).
WrittenReadsBack == file # NoFile => ReadsBack(Read(file)) /\ Settles(Read(file))

\* "Round-tripping a hand-edited YAML file without losing its comments"
\* (docs/guides/comments.org:2): each is where it was when the file is written and read
\* again (yaml-writer.c:330-337, 394-399).
KeepsComments(tree) == Comments(Read(Render(tree))) = Comments(tree)
CommentsSurvive == file # NoFile => KeepsComments(Read(file))

=============================================================================
