----------------------------- MODULE Indentation ------------------------------
(***************************************************************************)
(* From the indentation of lines to the nesting of statements.             *)
(*                                                                         *)
(* The lexer turns columns into INDENT and DEDENT tokens with a stack of   *)
(* columns (src/src/lexer/lexer.c:76-143, 183-190).  The parser pulls one  *)
(* token at a time (parser.c:60) and is a recursive descent: a block reads *)
(* NEWLINE and INDENT, skips the NEWLINE and INDENT tokens it meets, and   *)
(* ends with the first DEDENT (parser.c:977-1003; functions have the same  *)
(* loop, 289-311); the program skips all three (1302-1308), and so does an *)
(* object literal between its entries (819, 868), because the lexer knows  *)
(* nothing of brackets.                                                    *)
(*                                                                         *)
(* The text is nondeterministic: whenever the lexer is at the start of a   *)
(* line it may find any line in any column, or the end.  Lines that are    *)
(* blank or hold only a comment are skipped and are no step of the model.  *)
(***************************************************************************)
EXTENDS Integers, Sequences, FiniteSets

CONSTANTS Columns,      \* the columns lines may start in
          MaxLines,     \* bound on the lines of a text that is regular
          MaxIrregular  \* bound on the lines of one that is not

ASSUME IndentationAssumption ==
  /\ Columns \subseteq Nat /\ 0 \in Columns
  /\ MaxLines \in Nat /\ MaxIrregular \in Nat

\* What a line holds.  plain: a statement that ends on the line; if, elif,
\* else, head: the first line of a block, `head` for that of a fun, for or while;
\* open: a statement whose object literal begins there; more, last: an entry
\* of the literal with and without a comma; close: its brace; lastclose: both
\* on one line; cr: a carriage return, which the lexer takes for a statement.
Headers == {"if", "elif", "else", "head"}
Kinds == Headers \cup {"plain", "open", "more", "last", "close", "lastclose", "cr"}

Lines == [col : Columns, kind : Kinds]
TokensOf(kind) ==
  CASE kind = "cr" -> <<>>
    [] kind = "lastclose" -> <<"last", "close">>
    [] OTHER -> <<kind>>

\* NUL is the byte at the end of the text, PAST whatever lies behind it.
Words == Kinds \ {"lastclose", "cr"}
Layout == {"NEWLINE", "INDENT", "DEDENT"}
Tokens == Words \cup Layout \cup {"EOF", "GARBAGE"}

VARIABLES indent_stack,         \* lexer->indent_stack[0..indent_top]
          pending_dedents,
          rest,                 \* what is left of the line, <<>> at_line_start
          current,              \* the parser's token
          blocks,               \* the C stack of the recursive descent
          dangling,             \* the `if` whose block has just been closed
          status,
          text,                 \* the lines read so far
          ended,                \* how the text ended
          overrun,              \* has the lexer read behind its end
          depth,                \* INDENT less DEDENT tokens so far
          regular,              \* have the lines been regular so far (see below)
          nested                \* per statement: the line it was put under

lexer == <<indent_stack, pending_dedents, rest, current, text, ended, overrun,
           depth, regular>>
parser == <<blocks, dangling, status, nested>>
vars == <<lexer, parser>>

\* A level of the descent; `line` is the line of its header.
Levels == [kind : {"program", "if", "head", "object"}, line : Nat,
           phase : {"colon", "indent", "body", "key", "end"}]
Level(kind, line, phase) == [kind |-> kind, line |-> line, phase |-> phase]

\* `joins` is the line of the `if` that an elif or else goes with.
Nestings == [line : Nat, under : Nat, joins : Nat]

TypeOK ==
  /\ indent_stack \in Seq(Columns) /\ indent_stack # <<>>
  /\ pending_dedents \in Nat
  /\ rest \in Seq(Words \cup {"NEWLINE", "NUL", "PAST"})
  /\ current \in Tokens \cup {"none"}
  /\ blocks \in Seq(Levels) /\ blocks # <<>>
  /\ \A i \in DOMAIN blocks : blocks[i].kind = "program" <=> i = 1
  /\ dangling \in Nat
  /\ status \in {"parsing", "accepted", "rejected"}
  /\ text \in Seq(Lines)
  /\ ended \in {"no", "newline", "unterminated"}
  /\ overrun \in BOOLEAN
  /\ depth \in Int
  /\ regular \in BOOLEAN
  /\ nested \in Seq(Nestings)

-----------------------------------------------------------------------------
(* What the columns say, over the lines read so far.                       *)

\* Line i is inside an object literal that an earlier line opened.
OpensAt(o, i) ==
  /\ o < i /\ text[o].kind = "open"
  /\ \A k \in (o + 1)..(i - 1) : text[k].kind \in {"more", "last", "cr"}
Inner(i) == \E o \in 1..(i - 1) : OpensAt(o, i)

\* The lines that make the structure, and the last of them before line i.
Outer == {i \in 1..Len(text) : ~Inner(i)}
Before(i) == {j \in Outer : j < i}
Last(S) == CHOOSE j \in S : \A k \in S : k <= j
Col(i) == text[i].col
IsHeader(i) == text[i].kind \in Headers

\* The header that line i stands under: the last one to the left of it with
\* no line in between that ends its block.
HeadersOver(i) ==
  {j \in Before(i) : /\ IsHeader(j) /\ Col(j) < Col(i)
                     /\ \A k \in Before(i) : k > j => Col(k) > Col(j)}
Under(i) == IF HeadersOver(i) = {} THEN 0 ELSE Last(HeadersOver(i))

\* Line i goes right under a header, or back to a column that is still open.
WellIndented(i) ==
  IF Before(i) = {} THEN Col(i) = 0
  ELSE IF IsHeader(Last(Before(i))) THEN Col(i) > Col(Last(Before(i)))
  ELSE \E k \in Before(i) :
         Col(k) = Col(i) /\ \A m \in Before(i) : m > k => Col(m) >= Col(i)

\* The `if` or `elif` that an else on line i goes with, by its column.
Joinable(i) ==
  {j \in Before(i) : /\ text[j].kind \in {"if", "elif"} /\ Col(j) = Col(i)
                     /\ \A k \in Before(i) : k > j => Col(k) > Col(i)}

\* Entries of an object stand no further left than the line it began on, and
\* the brace that ends it stands right below that line.
WellPlaced(i) ==
  \A o \in 1..(i - 1) : OpensAt(o, i) =>
    IF text[i].kind \in {"close", "lastclose"} THEN Col(i) = Col(o) ELSE Col(i) >= Col(o)

\* The kinds of line that may come at i.
EntriesOf(i) == {k \in 1..(i - 1) : text[k].kind \in {"open", "more", "last"}}
RightKind(i) ==
  IF Inner(i)
  THEN IF text[Last(EntriesOf(i))].kind = "last"
       THEN text[i].kind \in {"close", "cr"}
       ELSE text[i].kind \in {"more", "last", "lastclose", "cr"}
  ELSE /\ text[i].kind \notin {"more", "last", "close", "lastclose"}
       /\ text[i].kind \in {"else", "elif"} => Joinable(i) # {}

Regular(i) == RightKind(i) /\ IF Inner(i) THEN WellPlaced(i) ELSE WellIndented(i)

\* Nothing is left open at the end.
Complete ==
  LET solid == {i \in 1..Len(text) : text[i].kind # "cr"}
  IN  solid # {} => text[Last(solid)].kind \notin Headers \cup {"open", "more", "last"}

-----------------------------------------------------------------------------
(* The lexer.                                                              *)

Indent == indent_stack[Len(indent_stack)]

Emit(token) ==
  /\ current' = token
  /\ depth' = CASE token = "INDENT" -> depth + 1
                [] token = "DEDENT" -> depth - 1
                [] OTHER -> depth

\* DEDENT tokens that an earlier line still owes.
PendingDedent ==
  /\ pending_dedents > 0
  /\ pending_dedents' = pending_dedents - 1
  /\ Emit("DEDENT")
  /\ UNCHANGED <<indent_stack, rest, text, ended, overrun, regular>>

\* The byte at the end of the text closes a level, or is the EOF.  Each token
\* made of it moves lexer->pos on, so that the second one is made of a byte
\* behind the text: 0, or garbage (advance, lexer.c:20, has no bound).
ReadEnd(byte) ==
  /\ overrun' = (overrun \/ byte = "PAST")
  /\ rest' = <<"PAST">>
  /\ \/ /\ Len(indent_stack) > 1
        /\ indent_stack' = SubSeq(indent_stack, 1, Len(indent_stack) - 1)
        /\ Emit("DEDENT")
     \/ /\ Len(indent_stack) = 1
        /\ Emit("EOF")
        /\ UNCHANGED indent_stack
     \/ /\ byte = "PAST"
        /\ Emit("GARBAGE")
        /\ UNCHANGED indent_stack

\* The next token of what is left of a line.
ReadToken(tokens) ==
  IF Head(tokens) \in {"NUL", "PAST"} THEN ReadEnd(Head(tokens))
  ELSE /\ Emit(Head(tokens))
       /\ rest' = Tail(tokens)
       /\ UNCHANGED <<indent_stack, overrun>>

RestOfLine ==
  /\ pending_dedents = 0
  /\ rest # <<>>
  /\ ReadToken(rest)
  /\ UNCHANGED <<pending_dedents, text, ended, regular>>

\* Mutant of Deeper: the first level that was opened is never closed.
Deeper_KeepsFirst(col) ==
  Cardinality({i \in DOMAIN indent_stack : i > 2 /\ indent_stack[i] > col})

\* How many levels of the stack are deeper than col; the first never is.
Deeper(col) == Cardinality({i \in DOMAIN indent_stack : indent_stack[i] > col})

\* Mutant of StartOfLine: a line that goes back owes one DEDENT, however far.
StartOfLine_OneDedent(col, tokens) ==
  /\ pending_dedents = 0
  /\ rest = <<>>
  /\ IF col > Indent
     THEN /\ indent_stack' = Append(indent_stack, col)
          /\ Emit("INDENT") /\ rest' = tokens /\ UNCHANGED overrun
     ELSE IF col < Indent
     THEN /\ indent_stack' = SubSeq(indent_stack, 1, Len(indent_stack) - Deeper(col))
          /\ Emit("DEDENT") /\ rest' = tokens /\ UNCHANGED overrun
     ELSE ReadToken(tokens)
  /\ UNCHANGED pending_dedents

\* The start of a line in column col: an INDENT, or a DEDENT for every level
\* that is deeper, the first of them now, or neither.
StartOfLine(col, tokens) ==
  /\ pending_dedents = 0
  /\ rest = <<>>
  /\ IF col > Indent
     THEN /\ indent_stack' = Append(indent_stack, col)
          /\ Emit("INDENT") /\ rest' = tokens
          /\ UNCHANGED <<pending_dedents, overrun>>
     ELSE IF col < Indent
     THEN /\ indent_stack' = SubSeq(indent_stack, 1, Len(indent_stack) - Deeper(col))
          /\ pending_dedents' = Deeper(col) - 1
          /\ Emit("DEDENT") /\ rest' = tokens
          /\ UNCHANGED overrun
     ELSE ReadToken(tokens) /\ UNCHANGED pending_dedents

\* Another line, with a newline at its end or, when it is the last, without.
NextLine(line) ==
  /\ Len(text) < IF regular THEN MaxLines ELSE MaxIrregular
  /\ text' = Append(text, line)
  /\ regular' = (regular /\ Regular(Len(text))')
  /\ \/ /\ StartOfLine(line.col, Append(TokensOf(line.kind), "NEWLINE"))
        /\ UNCHANGED ended
     \/ /\ line.kind # "cr"
        /\ StartOfLine(line.col, Append(TokensOf(line.kind), "NUL"))
        /\ ended' = "unterminated"

\* Mutant of EndOfText: the NUL is looked for before the column.
EndOfText_NoDedents(col) ==
  /\ pending_dedents = 0 /\ rest = <<>>
  /\ ReadEnd("NUL")
  /\ ended' = IF col = 0 THEN "newline" ELSE "unterminated"
  /\ UNCHANGED <<pending_dedents, text, regular>>

\* The end of the text, after blanks up to col.
EndOfText(col) ==
  /\ StartOfLine(col, <<"NUL">>)
  /\ ended' = IF col = 0 THEN "newline" ELSE "unterminated"
  /\ UNCHANGED <<text, regular>>

\* next_token, which advance_token calls.
NextToken ==
  \/ PendingDedent
  \/ RestOfLine
  \/ \E line \in Lines : NextLine(line)
  \/ \E col \in Columns : EndOfText(col)

-----------------------------------------------------------------------------
(* The parser.                                                             *)

Top == blocks[Len(blocks)]
Here == Len(text)               \* the line of the current token
Push(level) == blocks' = Append(blocks, level)
Pop == blocks' = SubSeq(blocks, 1, Len(blocks) - 1)
TopBecomes(phase) == blocks' = [blocks EXCEPT ![Len(blocks)].phase = phase]

Parsing == status = "parsing" /\ current # "none"

\* In a program or a block, before a statement.
AtStatement == Parsing /\ Top.phase = "body"

\* A statement that starts here belongs to the innermost level.
Nest(joins) ==
  nested' = Append(nested, [line |-> Here, under |-> Top.line, joins |-> joins])

Init ==
  /\ indent_stack = <<0>> /\ pending_dedents = 0 /\ rest = <<>>
  /\ current = "none"
  /\ text = <<>> /\ ended = "no" /\ overrun = FALSE
  /\ depth = 0 /\ regular = TRUE
  /\ blocks = <<Level("program", 0, "body")>>
  /\ dangling = 0 /\ status = "parsing" /\ nested = <<>>

FirstToken ==
  /\ current = "none"
  /\ NextToken
  /\ UNCHANGED parser

\* Mutant of Skipped: an object literal skips newlines only.
Skipped_ObjectNewlinesOnly ==
  CASE Top.kind = "program" -> Layout
    [] Top.kind = "object" -> {"NEWLINE"}
    [] Top.kind \in {"if", "head"} /\ Top.phase = "body" -> {"NEWLINE", "INDENT"}
    [] OTHER -> {}

\* What the loops of the program, a block and an object literal skip.
Skipped ==
  CASE Top.kind \in {"program", "object"} -> Layout
    [] Top.kind \in {"if", "head"} /\ Top.phase = "body" -> {"NEWLINE", "INDENT"}
    [] OTHER -> {}

Skip ==
  /\ Parsing
  /\ current \in Skipped
  /\ NextToken
  /\ dangling' = 0
  /\ UNCHANGED <<blocks, status, nested>>

\* A statement that ends on its line.
Plain ==
  /\ AtStatement /\ current = "plain"
  /\ Nest(0) /\ dangling' = 0
  /\ NextToken
  /\ UNCHANGED <<blocks, status>>

\* The first line of a block, up to its colon.
Header ==
  /\ AtStatement /\ current \in {"if", "head"}
  /\ Nest(0) /\ dangling' = 0
  /\ Push(Level(current, Here, "colon"))
  /\ NextToken
  /\ UNCHANGED status

\* elif and else, directly behind the DEDENT of the block of an `if`.
ElseHeader ==
  /\ AtStatement /\ current \in {"elif", "else"}
  /\ dangling # 0
  /\ Nest(dangling) /\ dangling' = 0
  /\ Push(Level(IF current = "elif" THEN "if" ELSE "head", Here, "colon"))
  /\ NextToken
  /\ UNCHANGED status

BlockNewline ==
  /\ Parsing /\ Top.phase = "colon" /\ current = "NEWLINE"
  /\ TopBecomes("indent")
  /\ NextToken
  /\ UNCHANGED <<dangling, status, nested>>

BlockIndent ==
  /\ Parsing /\ Top.phase = "indent" /\ current = "INDENT"
  /\ TopBecomes("body")
  /\ NextToken
  /\ UNCHANGED <<dangling, status, nested>>

\* Mutant of EndBlock: an `else` finds the `if` further out as well.
EndBlock_KeepsDangling ==
  /\ AtStatement /\ Top.kind # "program" /\ current = "DEDENT"
  /\ Pop
  /\ dangling' = IF Top.kind = "if" /\ dangling = 0 THEN Top.line ELSE dangling
  /\ NextToken
  /\ UNCHANGED <<status, nested>>

\* The DEDENT of a block.
EndBlock ==
  /\ AtStatement /\ Top.kind # "program" /\ current = "DEDENT"
  /\ Pop
  /\ dangling' = IF Top.kind = "if" THEN Top.line ELSE 0
  /\ NextToken
  /\ UNCHANGED <<status, nested>>

\* An object literal: entries up to one without a comma, and the brace.
OpenObject ==
  /\ AtStatement /\ current = "open"
  /\ Nest(0) /\ dangling' = 0
  /\ Push(Level("object", Here, "key"))
  /\ NextToken
  /\ UNCHANGED status

Entry ==
  /\ Parsing /\ Top.phase = "key" /\ current \in {"more", "last"}
  /\ TopBecomes(IF current = "more" THEN "key" ELSE "end")
  /\ NextToken
  /\ UNCHANGED <<dangling, status, nested>>

CloseObject ==
  /\ Parsing /\ Top.kind = "object" /\ Top.phase = "end" /\ current = "close"
  /\ Pop
  /\ NextToken
  /\ UNCHANGED <<dangling, status, nested>>

Accept ==
  /\ AtStatement /\ Top.kind = "program" /\ current = "EOF"
  /\ status' = "accepted"
  /\ UNCHANGED <<lexer, blocks, dangling, nested>>

\* Anything else is a parse error, which ends the process.
Expected ==
  Skipped \cup
  CASE Top.phase = "colon" -> {"NEWLINE"}
    [] Top.phase = "indent" -> {"INDENT"}
    [] Top.phase = "key" -> {"more", "last"}
    [] Top.phase = "end" -> {"close"}
    [] Top.phase = "body" ->
         {"plain", "if", "head", "open"}
         \cup (IF dangling # 0 THEN {"elif", "else"} ELSE {})
         \cup (IF Top.kind = "program" THEN {"EOF"} ELSE {"DEDENT"})

ParseError ==
  /\ Parsing
  /\ current \notin Expected \cup {"GARBAGE"}
  /\ status' = "rejected"
  /\ UNCHANGED <<lexer, blocks, dangling, nested>>

Next ==
  \/ FirstToken \/ Skip \/ Plain \/ Header \/ ElseHeader \/ BlockNewline
  \/ BlockIndent \/ EndBlock \/ OpenObject \/ Entry \/ CloseObject \/ Accept
  \/ ParseError

Spec == Init /\ [][Next]_vars
-----------------------------------------------------------------------------
(* Properties.                                                             *)

\* The open columns rise from 0, so that those a line closes are the last
\* ones of the stack.  The lexer owes a DEDENT for every INDENT, and has paid
\* all of them before the EOF, whatever the columns are and however the text
\* ends (lexer.c:78-82, 120-138, 183-190).
TokensBalance ==
  /\ indent_stack[1] = 0
  /\ \A i, j \in DOMAIN indent_stack : i < j => indent_stack[i] < indent_stack[j]
  /\ depth = Len(indent_stack) - 1 + pending_dedents
  /\ current = "EOF" => depth = 0

\* The columns that a line so far stands in and none since has gone back
\* behind: what the text itself has open.
OpenColumns ==
  {Col(k) : k \in {i \in 1..Len(text) : \A m \in i..Len(text) : Col(m) >= Col(i)}}

\* The stack holds open columns only, however ragged the lines are, so that
\* the 64 levels of lexer.h:90, which next_token does not check (lexer.c:122),
\* are exceeded by texts alone that are themselves nested so deep, and never
\* by a long one.  (Blanks before the end of the text may open one more.)
LevelsAreOpenColumns ==
  ended # "unterminated" =>
    \A i \in 2..Len(indent_stack) : indent_stack[i] \in OpenColumns

\* In a text whose lines go back to open columns only, every statement is put
\* under the header that its column says, and every else joins the `if` in
\* its own column; neither skipped INDENTs nor those of object literals get in
\* the way.  (In others they do: a line that is indented too far takes the
\* DEDENT of its block with it, and what follows leaves the block.)
StructureIsColumns ==
  regular =>
    \A n \in 1..Len(nested) :
      /\ nested[n].under = Under(nested[n].line)
      /\ nested[n].joins # 0 => nested[n].joins = Last(Joinable(nested[n].line))

\* Such a text is never refused.
RegularIsAccepted ==
  status = "rejected" => ~regular \/ (ended # "no" /\ ~Complete)

\* The lexer reads behind the end of a text only if the text ends inside a
\* block and without a newline, or with blanks.
OverrunOnlyIfUnterminated == overrun => ended = "unterminated"
=============================================================================
