-------------------------- MODULE IndentationProofs ---------------------------
(***************************************************************************)
(* Proofs about module Indentation, for every set of columns and texts of  *)
(* every length.                                                           *)
(***************************************************************************)
EXTENDS Indentation, SequenceTheorems, FiniteSetTheorems, WellFoundedInduction, TLAPS

\* TypeOK in two parts, the lexer's and the parser's.
RestTokens == Words \cup {"NEWLINE", "NUL", "PAST"}
LexerTypes ==
  /\ indent_stack \in Seq(Columns) /\ indent_stack # <<>>
  /\ pending_dedents \in Nat
  /\ rest \in Seq(RestTokens)
  /\ current \in Tokens \cup {"none"}
  /\ text \in Seq(Lines)
  /\ ended \in {"no", "newline", "unterminated"}
  /\ overrun \in BOOLEAN
  /\ depth \in Int
  /\ regular \in BOOLEAN
ParserTypes ==
  /\ blocks \in Seq(Levels) /\ blocks # <<>>
  /\ \A i \in DOMAIN blocks : blocks[i].kind = "program" <=> i = 1
  /\ dangling \in Nat
  /\ status \in {"parsing", "accepted", "rejected"}
  /\ nested \in Seq(Nestings)

\* Where the end of the text is.  Before it has been found nothing of it is in
\* what is left of the line; it stays in sight once it has; and if a newline
\* came before it no level is open, so that it is read once.
Ends == {"NUL", "PAST"}
EndAhead ==
  /\ ended = "no" => ~overrun /\ \A i \in 1..Len(rest) : rest[i] \notin Ends
  /\ ended = "unterminated" => rest # <<>> /\ rest[Len(rest)] \in Ends
  /\ ended = "newline" =>
       /\ ~overrun /\ Len(indent_stack) = 1
       /\ rest = <<"NUL">> \/ (rest = <<"PAST">> /\ current = "EOF")

IInv == LexerTypes /\ ParserTypes /\ TokensBalance /\ EndAhead

LEMMA TypesAreTypeOK == TypeOK <=> LexerTypes /\ ParserTypes
BY DEF TypeOK, LexerTypes, ParserTypes, RestTokens

-----------------------------------------------------------------------------
(* The stack of columns.                                                   *)

LEMMA StackFacts ==
  ASSUME LexerTypes
  PROVE  /\ Len(indent_stack) \in Nat \ {0}
         /\ DOMAIN indent_stack = 1..Len(indent_stack)
         /\ \A i \in 1..Len(indent_stack) :
              indent_stack[i] \in Columns /\ indent_stack[i] \in Nat
         /\ Indent \in Nat
<1>1. indent_stack \in Seq(Columns) /\ indent_stack # <<>> /\ Columns \subseteq Nat
  BY IndentationAssumption DEF LexerTypes
<1>2. Len(indent_stack) \in Nat \ {0} /\ DOMAIN indent_stack = 1..Len(indent_stack)
  BY <1>1, LenProperties, EmptySeq
<1>3. \A i \in 1..Len(indent_stack) : indent_stack[i] \in Columns
  BY <1>1, ElementOfSeq
<1>4. Indent \in Nat
  <2>1. PICK m \in Nat \ {0} : m = Len(indent_stack)
    BY <1>2
  <2>2. m \in 1..Len(indent_stack)
    BY <2>1
  <2> QED
    BY <1>1, <1>3, <2>1, <2>2 DEF Indent
<1> QED
  BY <1>1, <1>2, <1>3, <1>4

\* What is left when the n deepest levels are closed.
LEMMA CloseLevels ==
  ASSUME LexerTypes, TokensBalance, NEW n \in Nat, n < Len(indent_stack),
         indent_stack' = SubSeq(indent_stack, 1, Len(indent_stack) - n)
  PROVE  /\ indent_stack' \in Seq(Columns) /\ indent_stack' # <<>>
         /\ Len(indent_stack') = Len(indent_stack) - n
         /\ indent_stack'[1] = 0
         /\ \A i, j \in DOMAIN indent_stack' :
              i < j => indent_stack'[i] < indent_stack'[j]
<1>1. PICK N \in Nat \ {0} : N = Len(indent_stack)
  BY StackFacts
<1>2. PICK m \in Nat \ {0} : m = N - n
  <2>1. n < N
    BY <1>1
  <2>2. N - n \in Nat \ {0}
    BY <2>1
  <2> QED
    BY <2>2
<1>3. \A i \in 1..m : indent_stack[i] \in Columns
  <2> TAKE i \in 1..m
  <2>1. i \in 1..N
    BY <1>2
  <2> QED
    BY <1>1, <2>1, StackFacts
<1>4. /\ indent_stack' \in Seq(Columns)
      /\ Len(indent_stack') = IF 1 <= m THEN m - 1 + 1 ELSE 0
      /\ \A i \in 1..(m - 1 + 1) : indent_stack'[i] = indent_stack[1 + i - 1]
  <2>1. indent_stack' = SubSeq(indent_stack, 1, m) /\ m \in Int
    BY <1>1, <1>2
  <2> QED
    BY <1>3, <2>1, SubSeqProperties
<1>5. Len(indent_stack') = m
  BY <1>4
<1>6. \A i \in 1..m : indent_stack'[i] = indent_stack[i]
  <2> TAKE i \in 1..m
  <2>1. i \in 1..(m - 1 + 1) /\ 1 + i - 1 = i
    OBVIOUS
  <2> QED
    BY <1>4, <2>1
<1>7. indent_stack' # <<>> /\ DOMAIN indent_stack' = 1..m
  BY <1>4, <1>5, LenProperties, EmptySeq
<1>8. 1..m \subseteq DOMAIN indent_stack
  BY <1>1, <1>2, StackFacts
<1>9. indent_stack'[1] = 0
  BY <1>6 DEF TokensBalance
<1> QED
  BY <1>1, <1>2, <1>4, <1>5, <1>6, <1>7, <1>8, <1>9 DEF TokensBalance

LEMMA OpenLevel ==
  ASSUME LexerTypes, TokensBalance, NEW col \in Columns, col > Indent,
         indent_stack' = Append(indent_stack, col)
  PROVE  /\ indent_stack' \in Seq(Columns) /\ indent_stack' # <<>>
         /\ Len(indent_stack') = Len(indent_stack) + 1
         /\ indent_stack'[1] = 0
         /\ \A i, j \in DOMAIN indent_stack' :
              i < j => indent_stack'[i] < indent_stack'[j]
<1>1. PICK m \in Nat \ {0} : m = Len(indent_stack)
  BY StackFacts
<1>2. /\ indent_stack' \in Seq(Columns) /\ indent_stack' # <<>>
      /\ Len(indent_stack') = m + 1
      /\ \A i \in 1..m : indent_stack'[i] = indent_stack[i]
      /\ indent_stack'[m + 1] = col
  BY <1>1, AppendProperties DEF LexerTypes
<1>3. DOMAIN indent_stack' = 1..(m + 1)
  BY <1>2, LenProperties
<1>4. DOMAIN indent_stack = 1..m /\ m \in 1..m /\ indent_stack[m] = Indent
  BY <1>1, StackFacts DEF Indent
<1>5. \A i \in 1..m : indent_stack[i] \in Nat /\ indent_stack[i] <= Indent
  BY <1>1, <1>4, StackFacts, SMTT(30) DEF TokensBalance
<1>6. ASSUME NEW i \in 1..(m + 1), NEW j \in 1..(m + 1), i < j
      PROVE  indent_stack'[i] < indent_stack'[j]
  <2>1. i \in 1..m /\ indent_stack'[i] = indent_stack[i]
    BY <1>2, <1>6
  <2>2. CASE j = m + 1
    BY <1>2, <1>5, <2>1, <2>2, StackFacts, IndentationAssumption
  <2>3. CASE j # m + 1
    BY <1>2, <1>4, <1>6, <2>1, <2>3, SMTT(30) DEF TokensBalance
  <2> QED
    BY <2>2, <2>3
<1> QED
  BY <1>1, <1>2, <1>3, <1>4, <1>6 DEF TokensBalance

LEMMA TwoUpTo ==
  ASSUME NEW m \in Nat \ {0}
  PROVE  IsFiniteSet(2..m) /\ Cardinality(2..m) = m - 1
<1>1. IsFiniteSet(2..m) /\ Cardinality(2..m) = IF 2 > m THEN 0 ELSE m - 2 + 1
  BY FS_Interval
<1> QED
  BY <1>1

\* The levels deeper than a column: never the first, and at least one when the
\* column is left of the last.
LEMMA DeeperBounds ==
  ASSUME LexerTypes, TokensBalance, NEW col \in Columns
  PROVE  /\ Deeper(col) \in Nat /\ Deeper(col) < Len(indent_stack)
         /\ col < Indent => Deeper(col) >= 1
<1> DEFINE D == {i \in DOMAIN indent_stack : indent_stack[i] > col}
<1>1. PICK m \in Nat \ {0} : m = Len(indent_stack)
  BY StackFacts
<1>2. IsFiniteSet(2..m) /\ Cardinality(2..m) = m - 1
  BY TwoUpTo
<1>3. D \in SUBSET (2..m)
  <2>1. ASSUME NEW i \in D PROVE i \in 2..m
    <3>1. i \in 1..m /\ indent_stack[i] > col /\ col \in Nat
      BY <1>1, StackFacts, IndentationAssumption
    <3>2. i # 1
      BY <3>1 DEF TokensBalance
    <3> QED
      BY <1>1, <3>1, <3>2
  <2> QED
    BY <2>1
<1>4. IsFiniteSet(D) /\ Cardinality(D) <= m - 1
  BY <1>2, <1>3, FS_Subset
<1>5. Cardinality(D) \in Nat
  BY <1>4, FS_CardinalityType
<1>6. ASSUME col < Indent PROVE Cardinality(D) # 0
  <2>1. m \in D
    BY <1>1, <1>6, StackFacts, IndentationAssumption DEF Indent
  <2> QED
    BY <1>4, <2>1, FS_EmptySet
<1>7. Deeper(col) = Cardinality(D)
  BY DEF Deeper
<1> QED
  BY <1>1, <1>4, <1>5, <1>6, <1>7

\* Every level but the first is deeper than column 0.
LEMMA DeeperThanZero ==
  ASSUME LexerTypes, TokensBalance
  PROVE  /\ Deeper(0) = Len(indent_stack) - 1
         /\ ~(0 > Indent)
         /\ Indent = 0 => Len(indent_stack) = 1
<1>1. PICK m \in Nat \ {0} : m = Len(indent_stack)
  BY StackFacts
<1>2. \A i \in 2..m : indent_stack[i] > 0
  <2> TAKE i \in 2..m
  <2>1. 1 \in DOMAIN indent_stack /\ i \in DOMAIN indent_stack /\ 1 < i
    BY <1>1, StackFacts
  <2> QED
    BY <2>1, <1>1, StackFacts DEF TokensBalance
<1>3. {i \in DOMAIN indent_stack : indent_stack[i] > 0} = 2..m
  BY <1>1, <1>2, StackFacts DEF TokensBalance
<1>4. Deeper(0) = m - 1
  BY <1>3, TwoUpTo DEF Deeper
<1>5. Indent = 0 => m = 1
  BY <1>1, <1>2 DEF Indent
<1> QED
  BY <1>1, <1>4, <1>5, StackFacts
-----------------------------------------------------------------------------
(* The lexer's steps.                                                      *)

\* What every step of the lexer keeps.
LexerKeeps == LexerTypes' /\ TokensBalance' /\ EndAhead' /\ current' # "none"

LEMMA EmitTypes ==
  ASSUME LexerTypes, NEW token \in Tokens, Emit(token)
  PROVE  /\ current' \in Tokens /\ current' = token
         /\ depth' \in Int
BY DEF Emit, LexerTypes

LEMMA NoneIsNoToken == "none" \notin Tokens /\ Words \subseteq Tokens
BY DEF Tokens, Words, Layout, Kinds, Headers

\* The byte at the end closes a level or is the EOF of a balanced text.
LEMMA ReadEndKeeps ==
  ASSUME LexerTypes, TokensBalance, pending_dedents = 0,
         UNCHANGED pending_dedents,
         NEW byte \in Ends, ReadEnd(byte)
  PROVE  /\ indent_stack' \in Seq(Columns) /\ indent_stack' # <<>>
         /\ rest' = <<"PAST">> /\ current' \in Tokens
         /\ overrun' \in BOOLEAN /\ depth' \in Int
         /\ TokensBalance'
         /\ byte = "NUL" /\ Len(indent_stack) = 1 =>
              current' = "EOF" /\ UNCHANGED <<indent_stack, overrun>>
<1>1. rest' = <<"PAST">> /\ overrun' = (overrun \/ byte = "PAST") /\ overrun' \in BOOLEAN
  BY DEF ReadEnd, LexerTypes
<1>2. depth = Len(indent_stack) - 1 /\ depth \in Int
  BY StackFacts DEF TokensBalance, LexerTypes
<1>3. CASE /\ Len(indent_stack) > 1
           /\ indent_stack' = SubSeq(indent_stack, 1, Len(indent_stack) - 1)
           /\ Emit("DEDENT")
  <2>1. /\ indent_stack' \in Seq(Columns) /\ indent_stack' # <<>>
        /\ Len(indent_stack') = Len(indent_stack) - 1
        /\ indent_stack'[1] = 0
        /\ \A i, j \in DOMAIN indent_stack' :
             i < j => indent_stack'[i] < indent_stack'[j]
    BY <1>3, CloseLevels
  <2>2. current' = "DEDENT" /\ depth' = depth - 1
    BY <1>3 DEF Emit
  <2> QED
    BY <1>1, <1>2, <1>3, <2>1, <2>2, StackFacts DEF TokensBalance, Tokens, Layout
<1>4. CASE Len(indent_stack) = 1 /\ Emit("EOF") /\ UNCHANGED indent_stack
  <2>1. current' = "EOF" /\ depth' = depth
    BY <1>4 DEF Emit
  <2> QED
    BY <1>1, <1>2, <1>4, <2>1 DEF TokensBalance, Tokens, LexerTypes
<1>5. CASE byte = "PAST" /\ Emit("GARBAGE") /\ UNCHANGED indent_stack
  <2>1. current' = "GARBAGE" /\ depth' = depth
    BY <1>5 DEF Emit
  <2> QED
    BY <1>1, <1>2, <1>5, <2>1 DEF TokensBalance, Tokens, LexerTypes
<1>6. Len(indent_stack) = 1 /\ byte = "NUL" =>
        /\ Len(indent_stack) = 1 /\ Emit("EOF") /\ UNCHANGED indent_stack
        /\ UNCHANGED overrun
  BY <1>1 DEF ReadEnd, LexerTypes
<1>7. Emit("EOF") => current' = "EOF"
  BY DEF Emit
<1> QED
  BY <1>3, <1>4, <1>5, <1>1, <1>6, <1>7 DEF ReadEnd

\* The next token of a line leaves the rest of it, with the end still in sight.
LEMMA ReadTokenKeeps ==
  ASSUME LexerTypes, TokensBalance, pending_dedents = 0,
         UNCHANGED pending_dedents,
         NEW tokens \in Seq(RestTokens), tokens # <<>>, ReadToken(tokens)
  PROVE  /\ indent_stack' \in Seq(Columns) /\ indent_stack' # <<>>
         /\ rest' \in Seq(RestTokens) /\ current' \in Tokens
         /\ overrun' \in BOOLEAN /\ depth' \in Int
         /\ TokensBalance'
         /\ tokens[Len(tokens)] \in Ends =>
              rest' # <<>> /\ rest'[Len(rest')] \in Ends
         /\ (\A i \in 1..Len(tokens) : tokens[i] \notin Ends) =>
              /\ UNCHANGED overrun
              /\ \A i \in 1..Len(rest') : rest'[i] \notin Ends
         /\ tokens = <<"NUL">> /\ Len(indent_stack) = 1 =>
              /\ rest' = <<"PAST">> /\ current' = "EOF"
              /\ UNCHANGED <<indent_stack, overrun>>
<1>1. PICK n \in Nat \ {0} : n = Len(tokens)
  BY EmptySeq
<1>2. /\ Head(tokens) = tokens[1] /\ 1 \in 1..n
      /\ tokens[1] \in RestTokens
  BY <1>1, ElementOfSeq
<1>3. CASE Head(tokens) \in Ends
  <2>1. ReadEnd(Head(tokens))
    BY <1>3 DEF ReadToken, Ends
  <2>2. /\ indent_stack' \in Seq(Columns) /\ indent_stack' # <<>>
        /\ rest' = <<"PAST">> /\ current' \in Tokens
        /\ overrun' \in BOOLEAN /\ depth' \in Int
        /\ TokensBalance'
        /\ Head(tokens) = "NUL" /\ Len(indent_stack) = 1 =>
             current' = "EOF" /\ UNCHANGED <<indent_stack, overrun>>
    BY <1>3, <2>1, ReadEndKeeps
  <2>3. rest' \in Seq(RestTokens) /\ rest' # <<>> /\ rest'[Len(rest')] \in Ends
    BY <2>2 DEF RestTokens, Ends
  <2>4. ~ \A i \in 1..Len(tokens) : tokens[i] \notin Ends
    BY <1>1, <1>2, <1>3
  <2>5. tokens = <<"NUL">> => Head(tokens) = "NUL"
    OBVIOUS
  <2> QED
    BY <2>2, <2>3, <2>4, <2>5
<1>4. CASE Head(tokens) \notin Ends
  <2>1. /\ Emit(Head(tokens)) /\ rest' = Tail(tokens)
        /\ UNCHANGED <<indent_stack, overrun>>
    BY <1>4 DEF ReadToken, Ends
  <2>2. Head(tokens) \in Words \cup {"NEWLINE"}
    BY <1>2, <1>4 DEF RestTokens, Ends
  <2>3. /\ Head(tokens) \in Tokens
        /\ Head(tokens) \notin {"INDENT", "DEDENT", "EOF"}
    BY <2>2 DEF Tokens, Words, Layout, Kinds, Headers
  <2>4. current' = Head(tokens) /\ depth' = depth
    BY <2>1, <2>3 DEF Emit
  <2>5. /\ rest' \in Seq(RestTokens) /\ Len(rest') = n - 1
        /\ \A i \in 1..Len(rest') : rest'[i] = tokens[i + 1]
    BY <1>1, <2>1, HeadTailProperties
  <2>6. TokensBalance'
    BY <2>1, <2>3, <2>4 DEF TokensBalance
  <2>7. ASSUME tokens[Len(tokens)] \in Ends
        PROVE  rest' # <<>> /\ rest'[Len(rest')] \in Ends
    <3>1. n # 1
      BY <1>1, <1>2, <1>4, <2>7
    <3>2. PICK m \in Nat \ {0} : m = n - 1
      BY <3>1
    <3>3. Len(rest') = m /\ m \in 1..m /\ m + 1 = n
      BY <2>5, <3>2
    <3>4. rest'[m] = tokens[n]
      BY <2>5, <3>3
    <3>5. rest' # <<>>
      BY <3>3
    <3> QED
      BY <1>1, <2>7, <3>3, <3>4, <3>5
  <2>8. ASSUME \A i \in 1..Len(tokens) : tokens[i] \notin Ends
        PROVE  \A i \in 1..Len(rest') : rest'[i] \notin Ends
    <3> TAKE i \in 1..Len(rest')
    <3>1. i + 1 \in 1..n
      BY <2>5
    <3> QED
      BY <1>1, <2>5, <2>8, <3>1
  <2>9. tokens # <<"NUL">>
    BY <1>4 DEF Ends
  <2> QED
    BY <2>1, <2>3, <2>4, <2>5, <2>6, <2>7, <2>8, <2>9 DEF LexerTypes
<1> QED
  BY <1>3, <1>4

LEMMA PendingDedentKeeps ==
  ASSUME IInv, PendingDedent
  PROVE  LexerKeeps
<1>1. current' = "DEDENT" /\ depth' = depth - 1
  BY DEF PendingDedent, Emit
<1>2. "DEDENT" \in Tokens
  BY DEF Tokens, Layout
<1>3. LexerTypes' /\ pending_dedents' = pending_dedents - 1
  BY <1>1, <1>2 DEF IInv, LexerTypes, PendingDedent
<1>4. TokensBalance'
  <2>1. depth' = Len(indent_stack) - 1 + (pending_dedents - 1)
    BY <1>1, StackFacts DEF IInv, TokensBalance, LexerTypes
  <2> QED
    BY <1>1, <1>3, <2>1 DEF IInv, TokensBalance, PendingDedent
<1>5. EndAhead'
  <2>1. ended = "newline" => current # "EOF"
    BY DEF IInv, EndAhead, PendingDedent, TokensBalance, LexerTypes
  <2> QED
    BY <1>1, <2>1 DEF IInv, EndAhead, PendingDedent
<1> QED
  BY <1>1, <1>3, <1>4, <1>5 DEF LexerKeeps

LEMMA RestOfLineKeeps ==
  ASSUME IInv, current # "EOF", RestOfLine
  PROVE  LexerKeeps
<1>1. /\ rest \in Seq(RestTokens) /\ rest # <<>> /\ ReadToken(rest)
      /\ pending_dedents = 0 /\ UNCHANGED <<pending_dedents, text, ended, regular>>
  BY DEF IInv, LexerTypes, RestOfLine
<1>2. /\ indent_stack' \in Seq(Columns) /\ indent_stack' # <<>>
      /\ rest' \in Seq(RestTokens) /\ current' \in Tokens
      /\ overrun' \in BOOLEAN /\ depth' \in Int
      /\ TokensBalance'
      /\ rest[Len(rest)] \in Ends => rest' # <<>> /\ rest'[Len(rest')] \in Ends
      /\ (\A i \in 1..Len(rest) : rest[i] \notin Ends) =>
           /\ UNCHANGED overrun
           /\ \A i \in 1..Len(rest') : rest'[i] \notin Ends
      /\ rest = <<"NUL">> /\ Len(indent_stack) = 1 =>
           /\ rest' = <<"PAST">> /\ current' = "EOF"
           /\ UNCHANGED <<indent_stack, overrun>>
  BY <1>1, ReadTokenKeeps DEF IInv
<1>3. LexerTypes'
  BY <1>1, <1>2 DEF IInv, LexerTypes
<1>4. EndAhead'
  <2>1. CASE ended = "no"
    BY <1>1, <1>2, <2>1 DEF IInv, EndAhead
  <2>2. CASE ended = "unterminated"
    BY <1>1, <1>2, <2>2 DEF IInv, EndAhead
  <2>3. CASE ended = "newline"
    <3>1. Len(indent_stack) = 1 /\ rest = <<"NUL">> /\ ~overrun
      BY <2>3 DEF IInv, EndAhead
    <3>2. Len(indent_stack') = 1
      BY <1>2, <3>1
    <3> QED
      BY <1>1, <1>2, <2>3, <3>1, <3>2 DEF EndAhead
  <2> QED
    BY <2>1, <2>2, <2>3 DEF IInv, LexerTypes
<1> QED
  BY <1>2, <1>3, <1>4, NoneIsNoToken DEF LexerKeeps

\* The start of a line, whatever it holds.
LEMMA StartOfLineKeeps ==
  ASSUME IInv, NEW col \in Columns,
         NEW tokens \in Seq(RestTokens), tokens # <<>>, StartOfLine(col, tokens)
  PROVE  /\ ended = "no"
         /\ indent_stack' \in Seq(Columns) /\ indent_stack' # <<>>
         /\ pending_dedents' \in Nat
         /\ rest' \in Seq(RestTokens) /\ current' \in Tokens
         /\ overrun' \in BOOLEAN /\ depth' \in Int
         /\ TokensBalance'
         /\ tokens[Len(tokens)] \in Ends =>
              rest' # <<>> /\ rest'[Len(rest')] \in Ends
         /\ (\A i \in 1..Len(tokens) : tokens[i] \notin Ends) =>
              ~overrun' /\ \A i \in 1..Len(rest') : rest'[i] \notin Ends
         /\ tokens = <<"NUL">> /\ col = 0 =>
              /\ ~overrun' /\ Len(indent_stack') = 1
              /\ rest' = <<"NUL">> \/ (rest' = <<"PAST">> /\ current' = "EOF")
<1>1. /\ LexerTypes /\ TokensBalance
      /\ pending_dedents = 0 /\ rest = <<>>
  BY DEF IInv, StartOfLine
<1>2. ended = "no" /\ overrun = FALSE
  BY <1>1 DEF IInv, EndAhead, LexerTypes
<1>3. depth = Len(indent_stack) - 1 /\ depth \in Int /\ Len(indent_stack) \in Nat \ {0}
  BY <1>1, StackFacts DEF TokensBalance, LexerTypes
<1>4. col \in Nat /\ Indent \in Nat
  BY <1>1, StackFacts, IndentationAssumption
<1>5. CASE col > Indent
  <2>1. /\ indent_stack' = Append(indent_stack, col)
        /\ Emit("INDENT") /\ rest' = tokens
        /\ UNCHANGED <<pending_dedents, overrun>>
    BY <1>5 DEF StartOfLine
  <2>2. /\ indent_stack' \in Seq(Columns) /\ indent_stack' # <<>>
        /\ Len(indent_stack') = Len(indent_stack) + 1
        /\ indent_stack'[1] = 0
        /\ \A i, j \in DOMAIN indent_stack' :
             i < j => indent_stack'[i] < indent_stack'[j]
    BY <1>1, <1>5, <2>1, OpenLevel
  <2>3. current' = "INDENT" /\ depth' = depth + 1
    BY <2>1 DEF Emit
  <2>4. TokensBalance'
    BY <1>1, <1>3, <2>1, <2>2, <2>3 DEF TokensBalance
  <2>5. col # 0
    BY <1>4, <1>5
  <2>6. current' \in Tokens /\ depth' \in Int
    BY <1>3, <2>3 DEF Tokens, Layout
  <2> QED
    BY <1>1, <1>2, <2>1, <2>2, <2>4, <2>5, <2>6
<1>6. CASE col < Indent
  <2>1. /\ indent_stack' = SubSeq(indent_stack, 1, Len(indent_stack) - Deeper(col))
        /\ pending_dedents' = Deeper(col) - 1
        /\ Emit("DEDENT") /\ rest' = tokens
        /\ UNCHANGED overrun
    BY <1>4, <1>6 DEF StartOfLine
  <2>2. PICK d \in Nat \ {0} : d = Deeper(col) /\ d < Len(indent_stack)
    BY <1>1, <1>6, DeeperBounds
  <2>3. /\ indent_stack' \in Seq(Columns) /\ indent_stack' # <<>>
        /\ Len(indent_stack') = Len(indent_stack) - d
        /\ indent_stack'[1] = 0
        /\ \A i, j \in DOMAIN indent_stack' :
             i < j => indent_stack'[i] < indent_stack'[j]
    <3>1. indent_stack' = SubSeq(indent_stack, 1, Len(indent_stack) - d)
      BY <2>1, <2>2
    <3> QED
      BY <1>1, <2>2, <3>1, CloseLevels
  <2>4. current' = "DEDENT" /\ depth' = depth - 1
    BY <2>1 DEF Emit
  <2>5. TokensBalance'
    <3>1. PICK n \in Nat \ {0} : n = Len(indent_stack)
      BY <1>3
    <3>2. Len(indent_stack') = n - d /\ pending_dedents' = d - 1 /\ depth' = n - 1 - 1
      BY <1>3, <2>1, <2>2, <2>3, <2>4, <3>1
    <3>3. depth' = Len(indent_stack') - 1 + pending_dedents'
      BY <3>2
    <3> QED
      BY <2>3, <2>4, <3>3 DEF TokensBalance
  <2>6. pending_dedents' \in Nat
    BY <2>1, <2>2
  <2>7. col = 0 => Len(indent_stack') = 1
    BY <1>1, <1>3, <2>2, <2>3, DeeperThanZero
  <2>8. current' \in Tokens /\ depth' \in Int
    BY <1>3, <2>4 DEF Tokens, Layout
  <2> QED
    BY <1>2, <2>1, <2>3, <2>5, <2>6, <2>7, <2>8
<1>7. CASE col = Indent
  <2>1. ReadToken(tokens) /\ UNCHANGED pending_dedents
    BY <1>4, <1>7 DEF StartOfLine
  <2>2. /\ indent_stack' \in Seq(Columns) /\ indent_stack' # <<>>
        /\ rest' \in Seq(RestTokens) /\ current' \in Tokens
        /\ overrun' \in BOOLEAN /\ depth' \in Int
        /\ TokensBalance'
        /\ tokens[Len(tokens)] \in Ends =>
             rest' # <<>> /\ rest'[Len(rest')] \in Ends
        /\ (\A i \in 1..Len(tokens) : tokens[i] \notin Ends) =>
             /\ UNCHANGED overrun
             /\ \A i \in 1..Len(rest') : rest'[i] \notin Ends
        /\ tokens = <<"NUL">> /\ Len(indent_stack) = 1 =>
             /\ rest' = <<"PAST">> /\ current' = "EOF"
             /\ UNCHANGED <<indent_stack, overrun>>
    BY <1>1, <2>1, ReadTokenKeeps
  <2>3. col = 0 => Len(indent_stack) = 1
    BY <1>1, <1>7, DeeperThanZero
  <2> QED
    BY <1>1, <1>2, <2>1, <2>2, <2>3
<1> QED
  BY <1>4, <1>5, <1>6, <1>7

LEMMA LineWords ==
  ASSUME NEW kind \in Kinds
  PROVE  TokensOf(kind) \in Seq(Words)
<1>1. CASE kind = "cr"
  BY <1>1 DEF TokensOf
<1>2. CASE kind = "lastclose"
  <2>1. "last" \in Words /\ "close" \in Words
    BY DEF Words, Kinds
  <2>2. <<"last", "close">> \in Seq(Words)
    BY <2>1
  <2> QED
    BY <1>2, <2>2 DEF TokensOf
<1>3. CASE kind \notin {"cr", "lastclose"}
  <2>1. TokensOf(kind) = <<kind>>
    BY <1>3 DEF TokensOf
  <2>2. kind \in Words
    BY <1>3 DEF Words
  <2> QED
    BY <2>1, <2>2
<1> QED
  BY <1>1, <1>2, <1>3

\* A line is its words and what comes behind them.
LEMMA LineTokens ==
  ASSUME NEW kind \in Kinds, NEW last \in {"NEWLINE", "NUL"}
  PROVE  /\ Append(TokensOf(kind), last) \in Seq(RestTokens)
         /\ Append(TokensOf(kind), last) # <<>>
         /\ Append(TokensOf(kind), last)[Len(Append(TokensOf(kind), last))] = last
         /\ last = "NEWLINE" =>
              \A i \in 1..Len(Append(TokensOf(kind), last)) :
                Append(TokensOf(kind), last)[i] \notin Ends
<1>1. PICK words \in Seq(RestTokens) : words = TokensOf(kind) /\ words \in Seq(Words)
  <2>1. Seq(Words) \subseteq Seq(RestTokens)
    BY DEF RestTokens
  <2> QED
    BY <2>1, LineWords
<1>2. last \in RestTokens /\ (last = "NEWLINE" => last \notin Ends)
  BY DEF RestTokens, Ends
<1>3. PICK n \in Nat : n = Len(words)
  BY LenProperties
<1>4. /\ Append(words, last) \in Seq(RestTokens) /\ Append(words, last) # <<>>
      /\ Len(Append(words, last)) = n + 1
      /\ \A i \in 1..n : Append(words, last)[i] = words[i]
      /\ Append(words, last)[n + 1] = last
  BY <1>2, <1>3, AppendProperties
<1>5. \A i \in 1..n : words[i] \notin Ends
  <2> TAKE i \in 1..n
  <2>1. words[i] \in Words
    BY <1>1, <1>3, ElementOfSeq
  <2> QED
    BY <2>1 DEF Words, Kinds, Headers, Ends
<1> QED
  BY <1>1, <1>2, <1>3, <1>4, <1>5

LEMMA NextLineKeeps ==
  ASSUME IInv, NEW line \in Lines, NextLine(line)
  PROVE  LexerKeeps
<1>1. line.col \in Columns /\ line.kind \in Kinds
  BY DEF Lines
<1>2. text' \in Seq(Lines) /\ regular' \in BOOLEAN
  BY DEF IInv, LexerTypes, NextLine
<1>3. CASE /\ StartOfLine(line.col, Append(TokensOf(line.kind), "NEWLINE"))
           /\ UNCHANGED ended
  <2> DEFINE tokens == Append(TokensOf(line.kind), "NEWLINE")
  <2>1. /\ tokens \in Seq(RestTokens) /\ tokens # <<>>
        /\ \A i \in 1..Len(tokens) : tokens[i] \notin Ends
    BY <1>1, LineTokens
  <2>2. /\ ended = "no"
        /\ indent_stack' \in Seq(Columns) /\ indent_stack' # <<>>
        /\ pending_dedents' \in Nat
        /\ rest' \in Seq(RestTokens) /\ current' \in Tokens
        /\ overrun' \in BOOLEAN /\ depth' \in Int
        /\ TokensBalance'
        /\ ~overrun' /\ \A i \in 1..Len(rest') : rest'[i] \notin Ends
    <3> HIDE DEF tokens
    <3>1. StartOfLine(line.col, tokens)
      BY <1>3 DEF tokens
    <3> QED
      BY <1>1, <2>1, <3>1, StartOfLineKeeps
  <2> QED
    BY <1>2, <1>3, <2>2, NoneIsNoToken DEF LexerKeeps, LexerTypes, EndAhead
<1>4. CASE /\ StartOfLine(line.col, Append(TokensOf(line.kind), "NUL"))
           /\ ended' = "unterminated"
  <2> DEFINE tokens == Append(TokensOf(line.kind), "NUL")
  <2>1. /\ tokens \in Seq(RestTokens) /\ tokens # <<>>
        /\ tokens[Len(tokens)] \in Ends
    BY <1>1, LineTokens DEF Ends
  <2>2. /\ indent_stack' \in Seq(Columns) /\ indent_stack' # <<>>
        /\ pending_dedents' \in Nat
        /\ rest' \in Seq(RestTokens) /\ current' \in Tokens
        /\ overrun' \in BOOLEAN /\ depth' \in Int
        /\ TokensBalance'
        /\ rest' # <<>> /\ rest'[Len(rest')] \in Ends
    <3> HIDE DEF tokens
    <3>1. StartOfLine(line.col, tokens)
      BY <1>4 DEF tokens
    <3> QED
      BY <1>1, <2>1, <3>1, StartOfLineKeeps
  <2> QED
    BY <1>2, <1>4, <2>2, NoneIsNoToken DEF LexerKeeps, LexerTypes, EndAhead
<1> QED
  BY <1>3, <1>4 DEF NextLine

LEMMA EndOfTextKeeps ==
  ASSUME IInv, NEW col \in Columns, EndOfText(col)
  PROVE  LexerKeeps
<1>1. <<"NUL">> \in Seq(RestTokens) /\ <<"NUL">> # <<>> /\ <<"NUL">>[Len(<<"NUL">>)] \in Ends
  BY DEF RestTokens, Ends
<1>2. /\ indent_stack' \in Seq(Columns) /\ indent_stack' # <<>>
      /\ pending_dedents' \in Nat
      /\ rest' \in Seq(RestTokens) /\ current' \in Tokens
      /\ overrun' \in BOOLEAN /\ depth' \in Int
      /\ TokensBalance'
      /\ rest' # <<>> /\ rest'[Len(rest')] \in Ends
      /\ col = 0 =>
           /\ ~overrun' /\ Len(indent_stack') = 1
           /\ rest' = <<"NUL">> \/ (rest' = <<"PAST">> /\ current' = "EOF")
  <2>1. StartOfLine(col, <<"NUL">>)
    BY DEF EndOfText
  <2> QED
    BY <1>1, <2>1, StartOfLineKeeps
<1>3. /\ ended' = IF col = 0 THEN "newline" ELSE "unterminated"
      /\ text' \in Seq(Lines) /\ regular' \in BOOLEAN
  BY DEF EndOfText, IInv, LexerTypes
<1> QED
  BY <1>2, <1>3, NoneIsNoToken DEF LexerKeeps, LexerTypes, EndAhead

LEMMA NextTokenKeeps ==
  ASSUME IInv, current # "EOF", NextToken
  PROVE  LexerKeeps
BY PendingDedentKeeps, RestOfLineKeeps, NextLineKeeps, EndOfTextKeeps DEF NextToken

-----------------------------------------------------------------------------
(* The parser's steps.                                                     *)

LEMMA TopFacts ==
  ASSUME ParserTypes
  PROVE  /\ Len(blocks) \in Nat \ {0} /\ DOMAIN blocks = 1..Len(blocks)
         /\ \A i \in 1..Len(blocks) : blocks[i] \in Levels
         /\ Top \in Levels
         /\ Top.kind = "program" <=> Len(blocks) = 1
<1>1. blocks \in Seq(Levels) /\ blocks # <<>>
  BY DEF ParserTypes
<1>2. PICK m \in Nat \ {0} : m = Len(blocks) /\ DOMAIN blocks = 1..m
  BY <1>1, LenProperties, EmptySeq
<1>3. \A i \in 1..m : blocks[i] \in Levels
  BY <1>1, <1>2, ElementOfSeq
<1>4. m \in 1..m /\ Top = blocks[m]
  BY <1>2 DEF Top
<1> QED
  BY <1>2, <1>3, <1>4 DEF ParserTypes

\* A level that is not the program's is opened.
LEMMA PushKeeps ==
  ASSUME IInv, NEW kind \in {"if", "head", "object"},
         NEW phase \in {"colon", "key"}, Push(Level(kind, Here, phase))
  PROVE  /\ blocks' \in Seq(Levels) /\ blocks' # <<>>
         /\ \A i \in DOMAIN blocks' : blocks'[i].kind = "program" <=> i = 1
<1>1. Here \in Nat
  BY LenProperties DEF Here, IInv, LexerTypes
<1>2. Level(kind, Here, phase) \in Levels /\ Level(kind, Here, phase).kind = kind
  BY <1>1 DEF Level, Levels
<1>3. PICK level \in Levels : level = Level(kind, Here, phase) /\ level.kind # "program"
  BY <1>2
<1>4. PICK m \in Nat \ {0} : m = Len(blocks) /\ DOMAIN blocks = 1..m
  BY TopFacts DEF IInv
<1>5. /\ blocks' \in Seq(Levels) /\ blocks' # <<>>
      /\ Len(blocks') = m + 1
      /\ \A i \in 1..m : blocks'[i] = blocks[i]
      /\ blocks'[m + 1] = level
  BY <1>3, <1>4, AppendProperties DEF IInv, ParserTypes, Push
<1>6. DOMAIN blocks' = 1..(m + 1)
  BY <1>5, LenProperties
<1>7. ASSUME NEW i \in 1..(m + 1) PROVE blocks'[i].kind = "program" <=> i = 1
  BY <1>3, <1>4, <1>5, SMTT(30) DEF IInv, ParserTypes
<1> QED
  BY <1>5, <1>6, <1>7

LEMMA PopKeeps ==
  ASSUME ParserTypes, Top.kind # "program", Pop
  PROVE  /\ blocks' \in Seq(Levels) /\ blocks' # <<>>
         /\ \A i \in DOMAIN blocks' : blocks'[i].kind = "program" <=> i = 1
<1>1. PICK m \in Nat \ {0} : Len(blocks) = m + 1
  <2>1. Len(blocks) \in Nat \ {0} /\ Len(blocks) # 1
    BY TopFacts
  <2>2. Len(blocks) - 1 \in Nat \ {0} /\ Len(blocks) = (Len(blocks) - 1) + 1
    BY <2>1
  <2> QED
    BY <2>2
<1>2. DOMAIN blocks = 1..(m + 1) /\ \A i \in 1..m : blocks[i] \in Levels
  BY <1>1, TopFacts
<1>3. blocks' = SubSeq(blocks, 1, m)
  BY <1>1 DEF Pop
<1>4. /\ blocks' \in Seq(Levels)
      /\ Len(blocks') = IF 1 <= m THEN m - 1 + 1 ELSE 0
      /\ \A i \in 1..(m - 1 + 1) : blocks'[i] = blocks[1 + i - 1]
  BY <1>2, <1>3, SubSeqProperties
<1>5. Len(blocks') = m /\ DOMAIN blocks' = 1..m /\ blocks' # <<>>
  <2>1. Len(blocks') = m
    BY <1>4
  <2> QED
    BY <1>4, <2>1, LenProperties, EmptySeq
<1>6. \A i \in 1..m : blocks'[i] = blocks[i]
  <2> TAKE i \in 1..m
  <2>1. i \in 1..(m - 1 + 1) /\ 1 + i - 1 = i
    OBVIOUS
  <2> QED
    BY <1>4, <2>1
<1> QED
  BY <1>2, <1>4, <1>5, <1>6 DEF ParserTypes

LEMMA PhaseKeeps ==
  ASSUME ParserTypes, NEW phase \in {"indent", "body", "key", "end"},
         TopBecomes(phase)
  PROVE  /\ blocks' \in Seq(Levels) /\ blocks' # <<>>
         /\ \A i \in DOMAIN blocks' : blocks'[i].kind = "program" <=> i = 1
<1>1. PICK m \in Nat \ {0} : m = Len(blocks) /\ DOMAIN blocks = 1..m
  BY TopFacts
<1>2. m \in 1..m /\ blocks[m] \in Levels
  BY <1>1, TopFacts
<1>3. PICK level \in Levels :
        level = [blocks[m] EXCEPT !.phase = phase] /\ level.kind = blocks[m].kind
  <2>1. PICK top \in Levels : top = blocks[m]
    BY <1>2
  <2>2. [top EXCEPT !.phase = phase] \in Levels
    BY DEF Levels
  <2>3. [top EXCEPT !.phase = phase].kind = top.kind
    BY DEF Levels
  <2> QED
    BY <2>1, <2>2, <2>3
<1>4. blocks' = [blocks EXCEPT ![m] = level]
  BY <1>1, <1>3 DEF TopBecomes
<1>5. /\ blocks' \in Seq(Levels) /\ Len(blocks') = m
      /\ \A i \in 1..m : blocks'[i] = IF i = m THEN level ELSE blocks[i]
  BY <1>1, <1>2, <1>4, ExceptSeq DEF ParserTypes
<1>6. DOMAIN blocks' = 1..m /\ blocks' # <<>>
  BY <1>1, <1>4, <1>5, LenProperties, EmptySeq
<1> QED
  BY <1>1, <1>3, <1>5, <1>6 DEF ParserTypes

LEMMA NestKeeps ==
  ASSUME IInv, NEW joins \in Nat, Nest(joins)
  PROVE  nested' \in Seq(Nestings)
<1>1. Here \in Nat
  BY LenProperties DEF Here, IInv, LexerTypes
<1>2. Top.line \in Nat
  BY TopFacts DEF IInv, Levels
<1>3. [line |-> Here, under |-> Top.line, joins |-> joins] \in Nestings
  BY <1>1, <1>2 DEF Nestings
<1> QED
  BY <1>3, AppendProperties DEF Nest, IInv, ParserTypes

-----------------------------------------------------------------------------
(* Every action of the parser, and the theorems.                           *)

LEMMA InitEstablishes == Init => IInv
<1> SUFFICES ASSUME Init PROVE IInv
  OBVIOUS
<1>1. 0 \in Columns
  BY IndentationAssumption
<1>2. LexerTypes
  <2>1. <<0>> \in Seq(Columns) /\ <<0>> # <<>>
    BY <1>1
  <2>2. <<>> \in Seq(RestTokens) /\ <<>> \in Seq(Lines)
    BY EmptySeq
  <2>3. indent_stack \in Seq(Columns) /\ indent_stack # <<>>
    BY <2>1 DEF Init
  <2>4. rest \in Seq(RestTokens) /\ text \in Seq(Lines)
    BY <2>2 DEF Init
  <2>5. /\ pending_dedents \in Nat /\ current \in Tokens \cup {"none"} /\ depth \in Int
        /\ ended \in {"no", "newline", "unterminated"}
    BY DEF Init
  <2>6. overrun \in BOOLEAN /\ regular \in BOOLEAN
    BY Zenon DEF Init
  <2> QED
    BY <2>3, <2>4, <2>5, <2>6 DEF LexerTypes
<1>3. ParserTypes
  <2>1. Level("program", 0, "body") \in Levels /\ Level("program", 0, "body").kind = "program"
    BY DEF Level, Levels
  <2>2. PICK level \in Levels : level = Level("program", 0, "body") /\ level.kind = "program"
    BY <2>1
  <2>3. blocks = <<level>>
    BY <2>2 DEF Init
  <2>4. blocks \in Seq(Levels) /\ Len(blocks) = 1 /\ blocks[1] = level /\ DOMAIN blocks = {1}
    BY <2>3
  <2> QED
    BY <2>2, <2>4 DEF Init, ParserTypes
<1>4. TokensBalance /\ EndAhead
  BY DEF Init, TokensBalance, EndAhead
<1> QED
  BY <1>2, <1>3, <1>4 DEF IInv

LEMMA NextPreserves ==
  ASSUME IInv, [Next]_vars
  PROVE  IInv'
<1>1. ASSUME current # "EOF", NextToken, ParserTypes' PROVE IInv'
  BY <1>1, NextTokenKeeps DEF LexerKeeps, IInv
<1>2. CASE FirstToken
  BY <1>1, <1>2 DEF FirstToken, parser, ParserTypes, IInv
<1>3. CASE Skip
  <2>1. current # "EOF"
    BY <1>3 DEF Skip, Skipped, Layout
  <2> QED
    BY <1>1, <1>3, <2>1 DEF Skip, ParserTypes, IInv
<1>4. CASE Plain
  <2>1. nested' \in Seq(Nestings)
    BY <1>4, NestKeeps DEF Plain
  <2> QED
    BY <1>1, <1>4, <2>1 DEF Plain, ParserTypes, IInv
<1>5. CASE Header
  <2>1. nested' \in Seq(Nestings)
    BY <1>5, NestKeeps DEF Header
  <2>2. /\ blocks' \in Seq(Levels) /\ blocks' # <<>>
        /\ \A i \in DOMAIN blocks' : blocks'[i].kind = "program" <=> i = 1
    BY <1>5, PushKeeps DEF Header
  <2> QED
    BY <1>1, <1>5, <2>1, <2>2 DEF Header, ParserTypes, IInv
<1>6. CASE ElseHeader
  <2>1. dangling \in Nat
    BY DEF IInv, ParserTypes
  <2>2. nested' \in Seq(Nestings)
    BY <1>6, <2>1, NestKeeps DEF ElseHeader
  <2>3. /\ blocks' \in Seq(Levels) /\ blocks' # <<>>
        /\ \A i \in DOMAIN blocks' : blocks'[i].kind = "program" <=> i = 1
    <3>1. PICK kind \in {"if", "head"} : kind = IF current = "elif" THEN "if" ELSE "head"
      OBVIOUS
    <3> QED
      BY <1>6, <3>1, PushKeeps DEF ElseHeader
  <2> QED
    BY <1>1, <1>6, <2>2, <2>3 DEF ElseHeader, ParserTypes, IInv
<1>7. CASE BlockNewline
  <2>1. /\ blocks' \in Seq(Levels) /\ blocks' # <<>>
        /\ \A i \in DOMAIN blocks' : blocks'[i].kind = "program" <=> i = 1
    BY <1>7, PhaseKeeps DEF BlockNewline, IInv
  <2> QED
    BY <1>1, <1>7, <2>1 DEF BlockNewline, ParserTypes, IInv
<1>8. CASE BlockIndent
  <2>1. /\ blocks' \in Seq(Levels) /\ blocks' # <<>>
        /\ \A i \in DOMAIN blocks' : blocks'[i].kind = "program" <=> i = 1
    BY <1>8, PhaseKeeps DEF BlockIndent, IInv
  <2> QED
    BY <1>1, <1>8, <2>1 DEF BlockIndent, ParserTypes, IInv
<1>9. CASE EndBlock
  <2>1. /\ blocks' \in Seq(Levels) /\ blocks' # <<>>
        /\ \A i \in DOMAIN blocks' : blocks'[i].kind = "program" <=> i = 1
    BY <1>9, PopKeeps DEF EndBlock, IInv
  <2>2. dangling' \in Nat
    BY <1>9, TopFacts DEF EndBlock, IInv, Levels
  <2> QED
    BY <1>1, <1>9, <2>1, <2>2 DEF EndBlock, ParserTypes, IInv
<1>10. CASE OpenObject
  <2>1. nested' \in Seq(Nestings)
    BY <1>10, NestKeeps DEF OpenObject
  <2>2. /\ blocks' \in Seq(Levels) /\ blocks' # <<>>
        /\ \A i \in DOMAIN blocks' : blocks'[i].kind = "program" <=> i = 1
    BY <1>10, PushKeeps DEF OpenObject
  <2> QED
    BY <1>1, <1>10, <2>1, <2>2 DEF OpenObject, ParserTypes, IInv
<1>11. CASE Entry
  <2>1. /\ blocks' \in Seq(Levels) /\ blocks' # <<>>
        /\ \A i \in DOMAIN blocks' : blocks'[i].kind = "program" <=> i = 1
    <3>1. PICK phase \in {"key", "end"} : phase = IF current = "more" THEN "key" ELSE "end"
      OBVIOUS
    <3> QED
      BY <1>11, <3>1, PhaseKeeps DEF Entry, IInv
  <2> QED
    BY <1>1, <1>11, <2>1 DEF Entry, ParserTypes, IInv
<1>12. CASE CloseObject
  <2>1. Top.kind # "program"
    BY <1>12 DEF CloseObject
  <2>2. /\ blocks' \in Seq(Levels) /\ blocks' # <<>>
        /\ \A i \in DOMAIN blocks' : blocks'[i].kind = "program" <=> i = 1
    BY <1>12, <2>1, PopKeeps DEF CloseObject, IInv
  <2> QED
    BY <1>1, <1>12, <2>2 DEF CloseObject, ParserTypes, IInv
<1>13. CASE Accept \/ ParseError
  <2>1. /\ UNCHANGED <<lexer, blocks, dangling, nested>>
        /\ status' \in {"accepted", "rejected"}
    BY <1>13 DEF Accept, ParseError
  <2>2. LexerTypes' /\ TokensBalance' /\ EndAhead'
    BY <2>1 DEF IInv, lexer, LexerTypes, TokensBalance, EndAhead
  <2> QED
    BY <2>1, <2>2 DEF IInv, ParserTypes
<1>14. CASE UNCHANGED vars
  BY <1>14 DEF vars, lexer, parser, IInv, LexerTypes, ParserTypes, TokensBalance, EndAhead
<1> QED
  BY <1>2, <1>3, <1>4, <1>5, <1>6, <1>7, <1>8, <1>9, <1>10, <1>11, <1>12, <1>13, <1>14
  DEF Next

LEMMA Invariance == Spec => []IInv
BY InitEstablishes, NextPreserves, PTL DEF Spec

\* In every state of reading a text the lexer's stack and counters, and the
\* parser's levels, are what lexer.h:82-93 and the descent say they are.
THEOREM TypeCorrect == Spec => []TypeOK
<1>1. IInv => TypeOK
  BY TypesAreTypeOK DEF IInv
<1> QED
  BY Invariance, <1>1, PTL

\* Every INDENT is paid back with a DEDENT before the EOF, for any columns and
\* any text.
THEOREM Balanced == Spec => []TokensBalance
<1>1. IInv => TokensBalance
  BY DEF IInv
<1> QED
  BY Invariance, <1>1, PTL

\* The lexer never reads behind a text that ends with a newline and nothing
\* more: by then no level is open, so that its NUL is read once.
THEOREM ReadsTextOnly == Spec => []OverrunOnlyIfUnterminated
<1>1. IInv => OverrunOnlyIfUnterminated
  BY DEF IInv, LexerTypes, EndAhead, OverrunOnlyIfUnterminated
<1> QED
  BY Invariance, <1>1, PTL
-----------------------------------------------------------------------------
(* Levels and open columns.                                                *)

\* Levels that are kept keep their columns, which are not right of the last.
LEMMA KeptLevels ==
  ASSUME LexerTypes, TokensBalance, NEW n \in Nat, n < Len(indent_stack),
         indent_stack' = SubSeq(indent_stack, 1, Len(indent_stack) - n)
  PROVE  \A i \in 2..Len(indent_stack') :
           /\ i \in 2..(Len(indent_stack) - n)
           /\ indent_stack'[i] = indent_stack[i] /\ indent_stack[i] <= Indent
<1>1. PICK N \in Nat \ {0} : N = Len(indent_stack)
  BY StackFacts
<1>2. PICK m \in Nat \ {0} : m = N - n
  <2>1. n < N
    BY <1>1
  <2>2. N - n \in Nat \ {0}
    BY <2>1
  <2> QED
    BY <2>2
<1>3. \A i \in 1..N : indent_stack[i] \in Columns
  BY <1>1, StackFacts
<1>4. indent_stack' = SubSeq(indent_stack, 1, m)
  BY <1>1, <1>2
<1>5. /\ Len(indent_stack') = IF 1 <= m THEN m - 1 + 1 ELSE 0
      /\ \A i \in 1..(m - 1 + 1) : indent_stack'[i] = indent_stack[1 + i - 1]
  <2>1. \A i \in 1..m : indent_stack[i] \in Columns
    BY <1>2, <1>3
  <2> QED
    BY <1>4, <2>1, SubSeqProperties
<1>6. Len(indent_stack') = m
  BY <1>5
<1> SUFFICES ASSUME NEW i \in 2..m
             PROVE  indent_stack'[i] = indent_stack[i] /\ indent_stack[i] <= Indent
  BY <1>1, <1>2, <1>6
<1>7. i \in 1..(m - 1 + 1) /\ 1 + i - 1 = i /\ i \in 1..N /\ N \in 1..N
  BY <1>2
<1>8. indent_stack'[i] = indent_stack[i]
  BY <1>5, <1>7
<1>9. DOMAIN indent_stack = 1..N /\ indent_stack[i] \in Nat /\ Indent = indent_stack[N]
  BY <1>1, <1>7, StackFacts DEF Indent
<1>10. i < N => indent_stack[i] < indent_stack[N]
  BY <1>7, <1>9 DEF TokensBalance
<1>11. indent_stack[i] <= Indent
  BY <1>7, <1>9, <1>10, StackFacts
<1> QED
  BY <1>8, <1>11

\* A column that closes Deeper(col) levels leaves none that is deeper.
LEMMA ShallowerStay ==
  ASSUME LexerTypes, TokensBalance, NEW col \in Columns,
         NEW i \in 1..(Len(indent_stack) - Deeper(col))
  PROVE  indent_stack[i] <= col
<1> DEFINE D == {k \in DOMAIN indent_stack : indent_stack[k] > col}
<1>1. PICK N \in Nat \ {0} : N = Len(indent_stack)
  BY StackFacts
<1>2. PICK d \in Nat : d = Deeper(col) /\ d < N
  BY <1>1, DeeperBounds
<1>3. i \in 1..(N - d) /\ i \in 1..N /\ i \in Nat
  BY <1>1, <1>2
<1>4. /\ DOMAIN indent_stack = 1..N /\ col \in Nat
      /\ \A k \in 1..N : indent_stack[k] \in Nat
  BY <1>1, StackFacts, IndentationAssumption
<1>5. SUFFICES ASSUME indent_stack[i] > col PROVE FALSE
  BY <1>3, <1>4
<1>6. i..N \subseteq D
  <2> SUFFICES ASSUME NEW k \in i..N PROVE k \in D
    OBVIOUS
  <2>1. k \in 1..N /\ (i < k \/ i = k)
    BY <1>3
  <2>2. i < k => indent_stack[i] < indent_stack[k]
    BY <1>3, <1>4, <2>1 DEF TokensBalance
  <2> QED
    BY <1>3, <1>4, <1>5, <2>1, <2>2
<1>7. IsFiniteSet(i..N) /\ Cardinality(i..N) = N - i + 1
  <2>1. IsFiniteSet(i..N) /\ Cardinality(i..N) = IF i > N THEN 0 ELSE N - i + 1
    BY <1>3, FS_Interval
  <2> QED
    BY <1>3, <2>1
<1>8. IsFiniteSet(D)
  <2>1. D \subseteq 1..N /\ IsFiniteSet(1..N)
    BY <1>4, FS_Interval
  <2> QED
    BY <2>1, FS_Subset
<1>9. Cardinality(i..N) <= Cardinality(D)
  BY <1>6, <1>8, FS_Subset
<1>10. Cardinality(D) = d
  BY <1>2 DEF Deeper
<1> QED
  BY <1>2, <1>3, <1>7, <1>9, <1>10

\* What a token of a line, or of its end, does to the stack.
LEMMA ReadTokenStack ==
  ASSUME LexerTypes, NEW tokens, ReadToken(tokens)
  PROVE  \/ UNCHANGED indent_stack
         \/ /\ Len(indent_stack) > 1
            /\ indent_stack' = SubSeq(indent_stack, 1, Len(indent_stack) - 1)
BY DEF ReadToken, ReadEnd

LEMMA ReadTokenLevels ==
  ASSUME LexerTypes, TokensBalance, NEW tokens, ReadToken(tokens)
  PROVE  \A i \in 2..Len(indent_stack') :
           /\ i \in 2..Len(indent_stack)
           /\ indent_stack'[i] = indent_stack[i] /\ indent_stack[i] <= Indent
<1>1. PICK N \in Nat \ {0} : N = Len(indent_stack)
  BY StackFacts
<1>2. CASE UNCHANGED indent_stack
  <2> SUFFICES ASSUME NEW i \in 2..N PROVE indent_stack[i] <= Indent
    BY <1>1, <1>2
  <2>2. /\ DOMAIN indent_stack = 1..N /\ Indent = indent_stack[N]
        /\ i \in 1..N /\ N \in 1..N
        /\ indent_stack[i] \in Nat /\ indent_stack[N] \in Nat
    BY <1>1, StackFacts DEF Indent
  <2>3. i < N => indent_stack[i] < indent_stack[N]
    BY <2>2 DEF TokensBalance
  <2> QED
    BY <2>2, <2>3
<1>3. CASE /\ Len(indent_stack) > 1
           /\ indent_stack' = SubSeq(indent_stack, 1, Len(indent_stack) - 1)
  <2>1. 1 \in Nat /\ 1 < Len(indent_stack)
    BY <1>1, <1>3
  <2>2. \A i \in 2..Len(indent_stack') :
           /\ i \in 2..(Len(indent_stack) - 1)
           /\ indent_stack'[i] = indent_stack[i] /\ indent_stack[i] <= Indent
    BY <1>3, <2>1, KeptLevels
  <2>3. 2..(N - 1) \subseteq 2..N
    BY <1>1
  <2> QED
    BY <1>1, <2>2, <2>3
<1> QED
  BY <1>2, <1>3, ReadTokenStack

\* A level behind the start of a line is that line's own, or one that was
\* open before and is not right of it.
LEMMA LineLevels ==
  ASSUME LexerTypes, TokensBalance, NEW col \in Columns, NEW tokens,
         StartOfLine(col, tokens), NEW i \in 2..Len(indent_stack')
  PROVE  \/ indent_stack'[i] = col
         \/ /\ i \in 2..Len(indent_stack)
            /\ indent_stack'[i] = indent_stack[i] /\ indent_stack[i] <= col
<1>1. PICK N \in Nat \ {0} : N = Len(indent_stack)
  BY StackFacts
<1>2. col \in Nat /\ Indent \in Nat
  BY StackFacts, IndentationAssumption
<1>3. CASE col > Indent
  <2>1. indent_stack' = Append(indent_stack, col)
    BY <1>3 DEF StartOfLine
  <2>2. /\ Len(indent_stack') = N + 1
        /\ \A k \in 1..N : indent_stack'[k] = indent_stack[k]
        /\ indent_stack'[N + 1] = col
    BY <1>1, <2>1, AppendProperties DEF LexerTypes
  <2>3. CASE i = N + 1
    BY <2>2, <2>3
  <2>4. CASE i # N + 1
    <3>1. i \in 2..N /\ i \in 1..N /\ N \in 1..N
      BY <2>2, <2>4
    <3>2. /\ DOMAIN indent_stack = 1..N /\ Indent = indent_stack[N]
          /\ indent_stack[i] \in Nat
      BY <1>1, <3>1, StackFacts DEF Indent
    <3>3. i < N => indent_stack[i] < indent_stack[N]
      BY <3>1, <3>2 DEF TokensBalance
    <3>4. indent_stack[i] <= col
      BY <1>2, <1>3, <3>1, <3>2, <3>3
    <3> QED
      BY <1>1, <2>2, <3>1, <3>4
  <2> QED
    BY <2>3, <2>4
<1>4. CASE col < Indent
  <2>1. indent_stack' = SubSeq(indent_stack, 1, Len(indent_stack) - Deeper(col))
    BY <1>2, <1>4 DEF StartOfLine
  <2>2. PICK d \in Nat : d = Deeper(col) /\ d < N
    BY <1>1, DeeperBounds
  <2>3. /\ i \in 2..(N - d) /\ indent_stack'[i] = indent_stack[i]
    <3>1. d < Len(indent_stack)
          /\ indent_stack' = SubSeq(indent_stack, 1, Len(indent_stack) - d)
      BY <1>1, <2>1, <2>2
    <3> QED
      BY <1>1, <3>1, KeptLevels
  <2>4. i \in 1..(Len(indent_stack) - Deeper(col)) /\ i \in 2..N
    BY <1>1, <2>2, <2>3
  <2>5. indent_stack[i] <= col
    BY <2>4, ShallowerStay
  <2> QED
    BY <1>1, <2>3, <2>4, <2>5
<1>5. CASE col = Indent
  <2>1. ReadToken(tokens)
    BY <1>2, <1>5 DEF StartOfLine
  <2> QED
    BY <1>5, <2>1, ReadTokenLevels
<1> QED
  BY <1>2, <1>3, <1>4, <1>5

\* A line leaves the columns open that are not right of it, and opens its own.
LEMMA LineColumns ==
  ASSUME LexerTypes, NEW line \in Lines, text' = Append(text, line)
  PROVE  /\ line.col \in OpenColumns'
         /\ \A c \in OpenColumns : c <= line.col => c \in OpenColumns'
<1>1. PICK n \in Nat : n = Len(text)
  BY LenProperties DEF LexerTypes
<1>2. /\ Len(text') = n + 1
      /\ \A k \in 1..n : text'[k] = text[k]
      /\ text'[n + 1] = line
  BY <1>1, AppendProperties DEF LexerTypes
<1>3. line.col \in Nat
  BY IndentationAssumption DEF Lines
<1>4. line.col \in OpenColumns'
  <2>1. \A m \in (n + 1)..Len(text') : text'[m].col >= text'[n + 1].col
    BY <1>2, <1>3
  <2> QED
    BY <1>2, <2>1 DEF OpenColumns, Col
<1>5. ASSUME NEW c \in OpenColumns, c <= line.col PROVE c \in OpenColumns'
  <2>1. PICK k \in 1..n : text[k].col = c /\ \A m \in k..n : text[m].col >= text[k].col
    BY <1>1 DEF OpenColumns, Col
  <2>2. k \in 1..Len(text') /\ text'[k].col = c
    BY <1>2, <2>1
  <2>3. ASSUME NEW m \in k..Len(text') PROVE text'[m].col >= text'[k].col
    <3>1. CASE m = n + 1
      BY <1>2, <1>5, <2>1, <2>2, <3>1, <1>3, IndentationAssumption DEF LexerTypes, Lines
    <3>2. CASE m # n + 1
      <4>1. m \in k..n /\ m \in 1..n
        BY <1>2, <3>2
      <4> QED
        BY <1>2, <2>1, <2>2, <4>1
    <3> QED
      BY <3>1, <3>2
  <2> QED
    BY <2>2, <2>3 DEF OpenColumns, Col
<1> QED
  BY <1>4, <1>5

LEMMA NextTokenOpens ==
  ASSUME IInv, LevelsAreOpenColumns, NextToken
  PROVE  LevelsAreOpenColumns'
<1>1. LexerTypes /\ TokensBalance
  BY DEF IInv
<1>2. CASE PendingDedent
  BY <1>2 DEF PendingDedent, LevelsAreOpenColumns, OpenColumns, Col
<1>3. CASE RestOfLine
  <2>1. ReadToken(rest) /\ UNCHANGED <<text, ended>>
    BY <1>3 DEF RestOfLine
  <2>2. \A i \in 2..Len(indent_stack') :
           i \in 2..Len(indent_stack) /\ indent_stack'[i] = indent_stack[i]
    BY <1>1, <2>1, ReadTokenLevels
  <2>3. OpenColumns' = OpenColumns
    BY <2>1 DEF OpenColumns, Col
  <2> QED
    BY <2>1, <2>2, <2>3 DEF LevelsAreOpenColumns
<1>4. ASSUME NEW line \in Lines, NextLine(line) PROVE LevelsAreOpenColumns'
  <2>1. /\ text' = Append(text, line)
        /\ ended' = ended \/ ended' = "unterminated"
        /\ \E tokens : StartOfLine(line.col, tokens)
    BY <1>4 DEF NextLine
  <2>2. line.col \in Columns
    BY DEF Lines
  <2>3. PICK tokens : StartOfLine(line.col, tokens)
    BY <2>1
  <2> SUFFICES ASSUME ended' # "unterminated", NEW i \in 2..Len(indent_stack')
               PROVE  indent_stack'[i] \in OpenColumns'
    BY DEF LevelsAreOpenColumns
  <2>4. CASE indent_stack'[i] = line.col
    BY <1>1, <2>1, <2>4, LineColumns
  <2>5. CASE /\ i \in 2..Len(indent_stack)
             /\ indent_stack'[i] = indent_stack[i] /\ indent_stack[i] <= line.col
    <3>1. indent_stack[i] \in OpenColumns
      BY <2>1, <2>5 DEF LevelsAreOpenColumns
    <3> QED
      BY <1>1, <2>1, <2>5, <3>1, LineColumns
  <2> QED
    BY <1>1, <2>2, <2>3, <2>4, <2>5, LineLevels
<1>5. ASSUME NEW col \in Columns, EndOfText(col) PROVE LevelsAreOpenColumns'
  <2>1. StartOfLine(col, <<"NUL">>) /\ ended' = IF col = 0 THEN "newline" ELSE "unterminated"
    BY <1>5 DEF EndOfText
  <2>2. <<"NUL">> \in Seq(RestTokens) /\ <<"NUL">> # <<>>
    BY DEF RestTokens
  <2>3. col = 0 => Len(indent_stack') = 1
    BY <2>1, <2>2, StartOfLineKeeps
  <2> QED
    BY <2>1, <2>3 DEF LevelsAreOpenColumns
<1> QED
  BY <1>2, <1>3, <1>4, <1>5 DEF NextToken

LEMMA StepOpens ==
  ASSUME IInv, LevelsAreOpenColumns, [Next]_vars
  PROVE  LevelsAreOpenColumns'
<1>1. NextToken \/ UNCHANGED lexer
  BY DEF Next, FirstToken, Skip, Plain, Header, ElseHeader, BlockNewline, BlockIndent,
         EndBlock, OpenObject, Entry, CloseObject, Accept, ParseError, vars
<1>2. CASE UNCHANGED lexer
  BY <1>2 DEF lexer, LevelsAreOpenColumns, OpenColumns, Col
<1> QED
  BY <1>1, <1>2, NextTokenOpens

\* The lexer's stack holds columns that the text itself has open, and no
\* others: only a text nested 64 deep can run over it.
THEOREM LevelsOpen == Spec => []LevelsAreOpenColumns
<1>1. Init => LevelsAreOpenColumns
  <2> SUFFICES ASSUME Init PROVE LevelsAreOpenColumns
    OBVIOUS
  <2>1. Len(indent_stack) = 1
    BY DEF Init
  <2> QED
    BY <2>1 DEF LevelsAreOpenColumns
<1>2. IInv /\ LevelsAreOpenColumns /\ [Next]_vars => LevelsAreOpenColumns'
  BY StepOpens
<1> QED
  BY Invariance, <1>1, <1>2, PTL DEF Spec

-----------------------------------------------------------------------------
(* Where the lexer and the parser are in a text whose lines are regular.   *)

Kind(i) == text[i].kind

\* What the columns of the lines up to n, the last one read so far, have made
\* of the lexer's stack.
ColumnsFit(n) ==
  /\ n \in Outer => Indent = Col(n)
  /\ \A o \in 1..(n - 1) : OpensAt(o, n) =>
       \E k \in 1..Len(indent_stack) :
         /\ indent_stack[k] = Col(o)
         /\ Kind(n) \in {"close", "lastclose"} => k = Len(indent_stack)
  /\ \A k \in Outer : (\A m \in Outer : m >= k => Col(m) >= Col(k)) =>
       \E i \in 1..Len(indent_stack) : indent_stack[i] = Col(k)

LevelOf(kind) == CASE kind \in {"if", "elif"} -> "if"
                   [] kind \in {"else", "head"} -> "head"
                   [] kind = "open" -> "object"
                   [] OTHER -> "none"

\* The levels b of the descent stand for lines further and further down and to
\* the right, with nothing in between that is not to the right of them, and the
\* level above the i-th of the stack is that of a line in its column.
LevelsFit(b, n) ==
  \A i \in 2..Len(b) :
    /\ b[i].line \in Outer /\ b[i].kind = LevelOf(Kind(b[i].line))
    /\ i - 1 <= Len(indent_stack) => indent_stack[i - 1] = Col(b[i].line)
    /\ \A k \in Outer : b[i].line < k /\ k < n => Col(k) > Col(b[i].line)
    /\ \A j \in 2..Len(b) : i < j => b[i].line < b[j].line

PhasesFit(b) ==
  /\ b[1].phase = "body" /\ b[1].line = 0
  /\ \A i \in 1..Len(b) :
       /\ i < Len(b) => b[i].phase = "body"
       /\ b[i].kind = "object" <=> b[i].phase \in {"key", "end"}

\* The parser is in a body and m levels above the lexer, or in the object
\* literal that line n is inside of.
InBody(b, n, m) ==
  Len(b) = Len(indent_stack) + m /\ b[Len(b)].phase = "body" /\ b[Len(b)].line < n
InObject(b, n) ==
  /\ Len(b) # 1 /\ OpensAt(b[Len(b)].line, n) /\ Len(b) - 1 <= Len(indent_stack)
  /\ b[Len(b)].phase = IF Kind(Last(EntriesOf(n))) = "last" THEN "end" ELSE "key"

BeforeLine(b, n, m) == IF Inner(n) THEN InObject(b, n) ELSE InBody(b, n, m)
UnderHeader(b, n) ==
  /\ Len(b) = Len(indent_stack) /\ b[Len(b)].phase = "indent" /\ b[Len(b)].line < n
  /\ Kind(n) \notin {"elif", "else"}
AtClose(b, n) ==
  /\ Len(b) # 1 /\ OpensAt(b[Len(b)].line, n) /\ Len(b) - 1 <= Len(indent_stack)
  /\ b[Len(b)].phase = "end"
BehindLine(b, n, phase) ==
  IF Kind(n) \in Headers
  THEN Len(b) - 1 = Len(indent_stack) /\ b[Len(b)].phase = phase /\ b[Len(b)].line = n
  ELSE IF Inner(n + 1) THEN InObject(b, n + 1)
  ELSE InBody(b, n + 1, 0)
ElseFits(d, n) == Kind(n) \in {"elif", "else"} => d \in Joinable(n)

\* How the line ends, and what it still holds in front of that.
Ending(e, n) ==
  /\ e \in {"NEWLINE", "NUL"} /\ ended = IF e = "NUL" THEN "unterminated" ELSE "no"
  /\ Kind(n) = "cr" => e = "NEWLINE"
Whole(e, n) == Append(TokensOf(Kind(n)), e)

\* The parser looks at a token of line n.
AtIndent(b, n, e) ==
  /\ current = "INDENT" /\ pending_dedents = 0 /\ rest = Whole(e, n)
  /\ IF Inner(n) THEN InObject(b, n) ELSE UnderHeader(b, n)
AtDedent(b, n, e) ==
  current = "DEDENT" /\ rest = Whole(e, n) /\ BeforeLine(b, n, pending_dedents + 1)
AtWord(b, d, n, e) ==
  /\ pending_dedents = 0 /\ BeforeLine(b, n, 0) /\ ElseFits(d, n)
  /\ \/ current = Kind(n) /\ current \in Words /\ rest = <<e>>
     \/ Kind(n) = "lastclose" /\ current = "last" /\ rest = <<"close", e>>
AtBrace(b, n, e) ==
  /\ Kind(n) = "lastclose" /\ current = "close" /\ rest = <<e>>
  /\ pending_dedents = 0 /\ AtClose(b, n)
AtNewline(b, n, e) ==
  /\ pending_dedents = 0 /\ BehindLine(b, n, "colon")
  /\ e = "NEWLINE" /\ current = "NEWLINE" /\ rest = <<>>

\* Line n is the last one read so far.
RegularTo(n) ==
  /\ n = Here /\ \A i \in 1..n : Regular(i)
  /\ ColumnsFit(n)
InLine(b, d, n, e) ==
  /\ RegularTo(n) /\ LevelsFit(b, n) /\ Ending(e, n)
  /\ \/ AtIndent(b, n, e) \/ AtDedent(b, n, e) \/ AtWord(b, d, n, e)
     \/ AtBrace(b, n, e) \/ AtNewline(b, n, e)

\* It has taken the token, and the lexer has not yet found the next one.
Ready(b, d, n, e) ==
  /\ RegularTo(n) /\ LevelsFit(b, n) /\ Ending(e, n)
  /\ \/ /\ rest = Whole(e, n) /\ BeforeLine(b, n, pending_dedents)
        /\ pending_dedents = 0 => ElseFits(d, n)
     \/ /\ pending_dedents = 0 /\ rest = <<"close", e>> /\ AtClose(b, n)
        /\ Kind(n) = "lastclose"
     \/ /\ pending_dedents = 0 /\ rest = <<e>> /\ BehindLine(b, n, "colon")
        /\ Kind(n) # "cr"
     \/ /\ pending_dedents = 0 /\ rest = <<>> /\ e = "NEWLINE"
        /\ BehindLine(b, n, "indent")

\* The same before the first line and behind the last one.
AtStart(b) ==
  /\ Here = 0 /\ ended = "no" /\ rest = <<>>
  /\ pending_dedents = 0 /\ indent_stack = <<0>>
  /\ Len(b) = 1 /\ b[1].phase = "body" /\ b[1].line = 0
AtEnd(b) ==
  /\ ended # "no" /\ current \in {"INDENT", "DEDENT", "EOF", "GARBAGE"}
  /\ rest \in {<<"NUL">>, <<"PAST">>}
  /\ pending_dedents > 0 => current = "DEDENT"
  /\ Complete => /\ b[Len(b)].phase = "body"
                 /\ Len(b) <= Len(indent_stack) + pending_dedents
                              + IF current = "DEDENT" THEN 1 ELSE 0
ReadyEnd(b) ==
  /\ ended # "no" /\ rest \in {<<"NUL">>, <<"PAST">>}
  /\ Complete => /\ b[Len(b)].phase = "body"
                 /\ Len(b) <= Len(indent_stack) + pending_dedents

LineEnds == {"NEWLINE", "NUL"}
SomeLine(b, d) == \E n \in 1..Here, e \in LineEnds : InLine(b, d, n, e)
TextFits ==
  regular => \/ current = "none" /\ status = "parsing" /\ AtStart(blocks)
             \/ current # "none" /\ (SomeLine(blocks, dangling) \/ AtEnd(blocks))

NestedFit == \A k \in 1..Len(nested) : nested[k].line \in 1..Here

-----------------------------------------------------------------------------
(* What the columns say, line by line.                                     *)

LEMMA TextFacts ==
  ASSUME LexerTypes
  PROVE  /\ Here \in Nat /\ Outer \subseteq 1..Here
         /\ \A i \in 1..Here : Col(i) \in Nat /\ Kind(i) \in Kinds
<1>1. text \in Seq(Lines)
  BY DEF LexerTypes
<1>2. Len(text) \in Nat /\ \A i \in 1..Len(text) : text[i] \in Lines
  BY <1>1, ElementOfSeq, LenProperties
<1> QED
  BY <1>2, IndentationAssumption DEF Here, Col, Kind, Lines, Outer

LEMMA LastIs ==
  ASSUME NEW S \in SUBSET Nat, NEW m \in S, \A k \in S : k <= m
  PROVE  Last(S) = m
<1>1. \A j \in S : (\A k \in S : k <= j) => j = m
  BY DEF Last
<1> QED
  BY <1>1 DEF Last

\* The natural numbers are well ordered, with the order as a set of pairs.
Less == {p \in Nat \X Nat : p[1] < p[2]}

LEMMA LessIsWellFounded == IsWellFoundedOn(Less, Nat)
<1>1. OpToRel(<, Nat) = Less
  BY DEF OpToRel, Less
<1> QED
  BY <1>1, NatLessThanWellFounded

LEMMA LeastNumber ==
  ASSUME NEW S \in SUBSET Nat, S # {}
  PROVE  \E m \in S : \A k \in S : m <= k
<1>1. PICK m \in S : \A k \in S : ~(<<k, m>> \in Less)
  BY LessIsWellFounded, WFMin
<1>2. ASSUME NEW k \in S PROVE m <= k
  <2>1. <<k, m>> \in Nat \X Nat /\ ~(<<k, m>> \in Less)
    BY <1>1
  <2> QED
    BY <2>1 DEF Less
<1> QED
  BY <1>2

LEMMA LastFacts ==
  ASSUME NEW n \in Nat, NEW S \in SUBSET (1..n), S # {}
  PROVE  Last(S) \in S /\ \A k \in S : k <= Last(S)
<1> DEFINE T == {n - k : k \in S}
<1>1. T \in SUBSET Nat /\ T # {}
  <2>1. ASSUME NEW k \in S PROVE n - k \in Nat
    <3>1. k \in 1..n
      OBVIOUS
    <3> QED
      BY <3>1
  <2> QED
    BY <2>1
<1>2. PICK t \in T : \A u \in T : t <= u
  <2> HIDE DEF T
  <2> QED
    BY <1>1, LeastNumber
<1>3. PICK m \in S : t = n - m
  BY <1>2
<1>4. ASSUME NEW k \in S PROVE k <= m
  <2>1. n - k \in T /\ k \in 1..n /\ m \in 1..n
    OBVIOUS
  <2>2. n - m <= n - k
    BY <1>2, <1>3, <2>1
  <2> QED
    BY <2>1, <2>2
<1>5. S \in SUBSET Nat
  OBVIOUS
<1>6. Last(S) = m
  BY <1>4, <1>5, LastIs
<1> QED
  BY <1>4, <1>6

LEMMA OneOpener ==
  ASSUME NEW i \in Nat, NEW o \in Nat, NEW p \in Nat, OpensAt(o, i), OpensAt(p, i)
  PROVE  o = p
<1>1. ~(o < p) /\ ~(p < o)
  BY DEF OpensAt
<1> QED
  BY <1>1

LEMMA OpenerInner ==
  ASSUME NEW i \in Nat, NEW o \in 1..(i - 1), OpensAt(o, i)
  PROVE  Inner(i) /\ Kind(o) = "open"
  BY DEF OpensAt, Inner, Kind

\* What stands inside an object literal opens none, and belongs to no structure.
LEMMA OpenerIsOuter ==
  ASSUME LexerTypes, \A j \in 1..Here : Regular(j),
         NEW i \in 1..(Here + 1), NEW o \in 1..(i - 1), OpensAt(o, i)
  PROVE  o \in Outer /\ \A k \in Outer : k < i => k <= o
<1>1. Here \in Nat /\ o \in 1..Here
  BY TextFacts
<1>2. ~Inner(o)
  <2> SUFFICES ASSUME Inner(o) PROVE FALSE
    OBVIOUS
  <2>1. RightKind(o)
    BY <1>1 DEF Regular
  <2>2. text[o].kind # "open"
    BY <2>1 DEF RightKind
  <2> QED
    BY <2>2 DEF OpensAt
<1>3. ASSUME NEW k \in Outer, k < i, ~(k <= o) PROVE FALSE
  <2>1. k \in (o + 1)..(i - 1) /\ ~Inner(k)
    BY <1>1, <1>3 DEF Outer
  <2>2. OpensAt(o, k) /\ o \in 1..(k - 1)
    BY <1>1, <2>1 DEF OpensAt
  <2> QED
    BY <2>1, <2>2 DEF Inner
<1>4. o \in Outer
  BY <1>1, <1>2 DEF Outer, Here
<1> QED
  BY <1>3, <1>4

\* What the last line does to the object literals that are open behind it.
LEMMA OpenBehind ==
  ASSUME LexerTypes, NEW n \in Nat \ {0}, n = Here
  PROVE  /\ \A o \in 1..n : OpensAt(o, n + 1) <=>
              \/ o = n /\ Kind(n) = "open"
              \/ o \in 1..(n - 1) /\ OpensAt(o, n) /\ Kind(n) \in {"more", "last", "cr"}
         /\ Inner(n + 1) <=>
              Kind(n) = "open" \/ (Inner(n) /\ Kind(n) \in {"more", "last", "cr"})
<1>1. ASSUME NEW o \in 1..n
      PROVE  OpensAt(o, n + 1) <=>
               \/ o = n /\ Kind(n) = "open"
               \/ o \in 1..(n - 1) /\ OpensAt(o, n) /\ Kind(n) \in {"more", "last", "cr"}
  <2>1. CASE o = n
    BY <2>1 DEF OpensAt, Kind
  <2>2. CASE o < n
    <3>1. \A k \in Nat : k \in (o + 1)..(n + 1 - 1) <=> k \in (o + 1)..(n - 1) \/ k = n
      BY <2>2
    <3> QED
      BY <2>2, <3>1 DEF OpensAt, Kind
  <2> QED
    BY <2>1, <2>2
<1>2. Inner(n + 1) <=> \E o \in 1..n : OpensAt(o, n + 1)
  BY DEF Inner
<1>3. Inner(n) <=> \E o \in 1..(n - 1) : OpensAt(o, n)
  BY DEF Inner
<1> QED
  BY <1>1, <1>2, <1>3

LEMMA EntriesBehind ==
  ASSUME NEW n \in Nat \ {0}
  PROVE  /\ Kind(n) \in {"open", "more", "last"} => EntriesOf(n + 1) = EntriesOf(n) \cup {n}
         /\ Kind(n) \notin {"open", "more", "last"} => EntriesOf(n + 1) = EntriesOf(n)
         /\ \A k \in EntriesOf(n) : k \in Nat /\ k < n
<1>1. \A k : k \in EntriesOf(n + 1) <=> k \in 1..n /\ Kind(k) \in {"open", "more", "last"}
  BY DEF EntriesOf, Kind
<1>2. \A k : k \in EntriesOf(n) <=> k \in 1..(n - 1) /\ Kind(k) \in {"open", "more", "last"}
  BY DEF EntriesOf, Kind
<1>3. \A k : k \in 1..n <=> k \in 1..(n - 1) \/ k = n
  OBVIOUS
<1> QED
  BY <1>1, <1>2, <1>3

LEMMA NewestEntry ==
  ASSUME NEW n \in Nat \ {0}, Kind(n) \in {"open", "more", "last"}
  PROVE  /\ Last(EntriesOf(n + 1)) = n /\ n \in EntriesOf(n + 1)
         /\ \A k \in EntriesOf(n + 1) : k <= n
<1>1. EntriesOf(n + 1) = EntriesOf(n) \cup {n} /\ \A k \in EntriesOf(n) : k \in Nat /\ k < n
  BY EntriesBehind
<1>2. EntriesOf(n + 1) \in SUBSET Nat /\ n \in EntriesOf(n + 1) /\ \A k \in EntriesOf(n + 1) : k <= n
  BY <1>1
<1> QED
  BY <1>2, LastIs

-----------------------------------------------------------------------------
(* The text grows.                                                         *)

LEMMA GrownLines ==
  ASSUME LexerTypes, NEW line \in Lines, text' = Append(text, line), NEW n \in Nat, n = Here
  PROVE  /\ Here' = n + 1
         /\ \A i \in 1..n : Col(i)' = Col(i) /\ Kind(i)' = Kind(i) /\ text'[i] = text[i]
         /\ Col(n + 1)' = line.col /\ Kind(n + 1)' = line.kind
<1>1. /\ Len(text') = n + 1
      /\ \A i \in 1..n : text'[i] = text[i]
      /\ text'[n + 1] = line
  BY AppendProperties DEF LexerTypes, Here
<1> QED
  BY <1>1 DEF Here, Col, Kind

LEMMA GrownInside ==
  ASSUME LexerTypes, NEW line \in Lines, text' = Append(text, line), NEW n \in Nat, n = Here
  PROVE  /\ \A i \in 1..(n + 1), o \in 1..n : o \in 1..(i - 1) => (OpensAt(o, i)' <=> OpensAt(o, i))
         /\ \A i \in 1..(n + 1) : /\ Inner(i)' <=> Inner(i)
                                  /\ EntriesOf(i)' = EntriesOf(i)
<1>1. \A i \in 1..n : text'[i] = text[i]
  BY GrownLines
<1>2. ASSUME NEW i \in 1..(n + 1), NEW o \in 1..(i - 1) PROVE OpensAt(o, i)' <=> OpensAt(o, i)
  <2>1. i - 1 <= n /\ o \in Nat /\ o >= 1
    OBVIOUS
  <2>2. o \in 1..n /\ \A k \in (o + 1)..(i - 1) : k \in 1..n
    BY <2>1
  <2>3. /\ text'[o] = text[o]
        /\ \A k \in (o + 1)..(i - 1) : text'[k] = text[k]
    BY <1>1, <2>2
  <2> QED
    BY <2>3 DEF OpensAt
<1>3. ASSUME NEW i \in 1..(n + 1) PROVE Inner(i)' <=> Inner(i)
  BY <1>2 DEF Inner
<1>4. ASSUME NEW i \in 1..(n + 1) PROVE EntriesOf(i)' = EntriesOf(i)
  <2>1. i - 1 <= n
    OBVIOUS
  <2>2. \A k \in 1..(i - 1) : k \in 1..n
    BY <2>1
  <2>3. \A k \in 1..(i - 1) : text'[k] = text[k]
    BY <1>1, <2>2
  <2> QED
    BY <2>3 DEF EntriesOf
<1> QED
  BY <1>2, <1>3, <1>4

LEMMA GrownOuter ==
  ASSUME LexerTypes, NEW line \in Lines, text' = Append(text, line), NEW n \in Nat, n = Here
  PROVE  /\ Inner(n + 1) => Outer' = Outer
         /\ ~Inner(n + 1) => Outer' = Outer \cup {n + 1}
         /\ \A i \in 1..n : Before(i)' = Before(i) /\ Before(i) \subseteq 1..n
         /\ Before(n + 1)' = Outer /\ Outer \subseteq 1..n
<1>1. Len(text) = n /\ Len(text') = n + 1
  BY GrownLines DEF Here
<1>2. \A i \in 1..(n + 1) : Inner(i)' <=> Inner(i)
  BY GrownInside
<1>3. \A k : k \in Outer <=> k \in 1..n /\ ~Inner(k)
  BY <1>1 DEF Outer
<1>4. \A k : k \in Outer' <=> k \in 1..(n + 1) /\ ~Inner(k)'
  BY <1>1 DEF Outer
<1>5. \A k : k \in 1..(n + 1) <=> k \in 1..n \/ k = n + 1
  OBVIOUS
<1>6. Inner(n + 1) => Outer' = Outer
  BY <1>2, <1>3, <1>4, <1>5
<1>7. ~Inner(n + 1) => Outer' = Outer \cup {n + 1}
  BY <1>2, <1>3, <1>4, <1>5
<1>8. \A i \in 1..(n + 1) : Before(i)' = {k \in Outer' : k < i}
  BY DEF Before
<1>9. \A i \in 1..(n + 1) : \A k : k \in Outer' /\ k < i <=> k \in Outer /\ k < i
  BY <1>3, <1>6, <1>7
<1> QED
  BY <1>3, <1>6, <1>7, <1>8, <1>9 DEF Before

LEMMA GrownStructure ==
  ASSUME LexerTypes, NEW line \in Lines, text' = Append(text, line), NEW n \in Nat, n = Here,
         NEW i \in 1..n
  PROVE  /\ Under(i)' = Under(i) /\ Joinable(i)' = Joinable(i)
         /\ Regular(i)' <=> Regular(i)
<1>1. \A k \in 1..n : text'[k] = text[k] /\ Col(k)' = Col(k) /\ IsHeader(k)' = IsHeader(k)
  BY GrownLines DEF IsHeader
<1>2. Before(i)' = Before(i) /\ Before(i) \subseteq 1..n
  BY GrownOuter
<1>3. (Inner(i)' <=> Inner(i)) /\ EntriesOf(i)' = EntriesOf(i)
  BY GrownInside
<1>4. HeadersOver(i)' = HeadersOver(i)
  BY <1>1, <1>2 DEF HeadersOver
<1>5. Under(i)' = Under(i)
  BY <1>4 DEF Under, Last
<1>6. Joinable(i)' = Joinable(i)
  BY <1>1, <1>2 DEF Joinable
<1>7. ASSUME Inner(i)
      PROVE  text'[Last(EntriesOf(i))'] = text[Last(EntriesOf(i))]
  <2>1. PICK o \in 1..(i - 1) : OpensAt(o, i)
    BY <1>7 DEF Inner
  <2>2. o \in EntriesOf(i) /\ EntriesOf(i) \in SUBSET (1..n)
    BY <2>1 DEF EntriesOf, OpensAt
  <2>3. Last(EntriesOf(i)) \in 1..n
    BY <2>2, LastFacts
  <2>4. Last(EntriesOf(i))' = Last(EntriesOf(i))
    BY <1>3 DEF Last
  <2> QED
    BY <1>1, <2>3, <2>4
<1>8. RightKind(i)' <=> RightKind(i)
  BY <1>1, <1>3, <1>6, <1>7 DEF RightKind
<1>9. WellPlaced(i)' <=> WellPlaced(i)
  <2>1. \A o \in 1..(i - 1) : /\ OpensAt(o, i)' <=> OpensAt(o, i)
                              /\ o \in 1..n
    BY GrownInside
  <2> QED
    BY <1>1, <2>1 DEF WellPlaced
<1>10. WellIndented(i)' <=> WellIndented(i)
  <2>1. Before(i) # {} => Last(Before(i)) \in 1..n
    BY <1>2, LastFacts
  <2>2. Last(Before(i))' = Last(Before(i))
    BY <1>2 DEF Last
  <2>3. Before(i) # {} => /\ IsHeader(Last(Before(i)))' = IsHeader(Last(Before(i)))
                          /\ Col(Last(Before(i)))' = Col(Last(Before(i)))
    BY <1>1, <2>1, <2>2 DEF IsHeader, Col
  <2> QED
    BY <1>1, <1>2, <2>3 DEF WellIndented
<1> QED
  BY <1>3, <1>5, <1>6, <1>8, <1>9, <1>10 DEF Regular

-----------------------------------------------------------------------------
(* What a line does to the stack.                                          *)

Rises(s) ==
  /\ Len(s) \in Nat \ {0}
  /\ \A i \in 1..Len(s) : s[i] \in Nat
  /\ \A i, j \in 1..Len(s) : i < j => s[i] < s[j]

LEMMA StackRises ==
  ASSUME NEW s \in Seq(Columns), s # <<>>,
         \A i, j \in DOMAIN s : i < j => s[i] < s[j]
  PROVE  Rises(s)
<1>1. Len(s) \in Nat \ {0} /\ DOMAIN s = 1..Len(s) /\ \A i \in 1..Len(s) : s[i] \in Columns
  BY LenProperties, EmptySeq, ElementOfSeq
<1> QED
  BY <1>1, IndentationAssumption DEF Rises

LEMMA LevelsRise ==
  /\ LexerTypes /\ TokensBalance => Rises(indent_stack)
  /\ LexerTypes' /\ TokensBalance' => Rises(indent_stack')
<1>1. ASSUME LexerTypes, TokensBalance PROVE Rises(indent_stack)
  BY <1>1, StackRises DEF LexerTypes, TokensBalance
<1>2. ASSUME LexerTypes', TokensBalance' PROVE Rises(indent_stack')
  BY <1>2, StackRises DEF LexerTypes, TokensBalance
<1> QED
  BY <1>1, <1>2

LEMMA TopOfRising ==
  ASSUME NEW s, Rises(s), NEW i \in 1..Len(s), NEW c \in Nat, s[i] = c,
         \A j \in 1..Len(s) : s[j] <= c
  PROVE  i = Len(s)
<1>1. PICK n \in Nat \ {0} : n = Len(s)
  BY DEF Rises
<1>2. n \in 1..n /\ s[n] \in Nat /\ s[n] <= c
  BY <1>1 DEF Rises
<1>3. i < n => s[i] < s[n]
  BY <1>1, <1>2 DEF Rises
<1> QED
  BY <1>1, <1>2, <1>3

LEMMA OnePlaceEach ==
  ASSUME NEW s, Rises(s), NEW i \in 1..Len(s), NEW j \in 1..Len(s), s[i] = s[j]
  PROVE  i = j
<1>1. s[i] \in Nat /\ i \in Nat /\ j \in Nat
  BY DEF Rises
<1>2. (i < j => s[i] < s[j]) /\ (j < i => s[j] < s[i])
  BY DEF Rises
<1> QED
  BY <1>1, <1>2

LEMMA UpToTop ==
  ASSUME NEW s, Rises(s), NEW i \in 1..Len(s)
  PROVE  s[i] <= s[Len(s)] /\ (i < Len(s) => s[i] < s[Len(s)])
<1>1. PICK n \in Nat \ {0} : n = Len(s)
  BY DEF Rises
<1>2. n \in 1..n /\ s[n] \in Nat /\ s[i] \in Nat /\ i \in 1..n
  BY <1>1 DEF Rises
<1>3. i < n => s[i] < s[n]
  BY <1>1, <1>2 DEF Rises
<1> QED
  BY <1>1, <1>2, <1>3

LEMMA FromBehind ==
  ASSUME NEW i \in Nat, NEW n \in Nat, i <= n
  PROVE  IsFiniteSet((i + 1)..n) /\ Cardinality((i + 1)..n) = n - i
<1>1. PICK k \in Int : k = i + 1
  OBVIOUS
<1>2. n \in Int
  OBVIOUS
<1>3. IsFiniteSet(k..n) /\ Cardinality(k..n) = IF k > n THEN 0 ELSE n - k + 1
  BY <1>2, FS_Interval
<1> QED
  BY <1>1, <1>3

\* The levels that a column closes are all deeper than it.
LEMMA DeeperAreLast ==
  ASSUME LexerTypes, TokensBalance, NEW col \in Columns, NEW i \in 1..Len(indent_stack),
         indent_stack[i] <= col
  PROVE  i <= Len(indent_stack) - Deeper(col)
<1> DEFINE D == {k \in DOMAIN indent_stack : indent_stack[k] > col}
<1>1. PICK N \in Nat \ {0} : N = Len(indent_stack)
  BY StackFacts
<1>2. DOMAIN indent_stack = 1..N /\ col \in Nat /\ Rises(indent_stack)
  BY <1>1, StackFacts, IndentationAssumption, LevelsRise
<1>3. D \in SUBSET ((i + 1)..N)
  <2> SUFFICES ASSUME NEW k \in D PROVE k \in (i + 1)..N
    OBVIOUS
  <2>1. k \in 1..N /\ i \in 1..N /\ indent_stack[k] > col
    BY <1>1, <1>2
  <2>2. indent_stack[k] \in Nat /\ indent_stack[i] \in Nat
    BY <1>1, <1>2, <2>1 DEF Rises
  <2>3. k < i => indent_stack[k] < indent_stack[i]
    BY <1>1, <1>2, <2>1 DEF Rises
  <2>4. ~(k < i) /\ k # i
    BY <1>2, <2>1, <2>2, <2>3
  <2> QED
    BY <2>1, <2>4
<1>4. IsFiniteSet((i + 1)..N) /\ Cardinality((i + 1)..N) = N - i
  <2>1. i \in Nat /\ i <= N
    BY <1>1
  <2> QED
    BY <2>1, FromBehind
<1>5. IsFiniteSet(D) /\ Cardinality(D) <= N - i
  BY <1>3, <1>4, FS_Subset
<1>6. Cardinality(D) \in Nat /\ Deeper(col) = Cardinality(D)
  BY <1>5, FS_CardinalityType DEF Deeper
<1> QED
  BY <1>1, <1>5, <1>6

LEMMA LineStack ==
  ASSUME LexerTypes, TokensBalance, NEW col \in Columns,
         NEW tokens, Head(tokens) \notin Ends, StartOfLine(col, tokens),
         NEW N \in Nat, N = Len(indent_stack)
  PROVE  /\ \A i \in 1..N : indent_stack[i] <= col =>
              i \in 1..Len(indent_stack') /\ indent_stack'[i] = indent_stack[i]
         /\ \A i \in 1..Len(indent_stack') :
              indent_stack'[i] <= col /\ (i \in 1..N => indent_stack'[i] = indent_stack[i])
         /\ Len(indent_stack') \in Nat
         /\ col > Indent => /\ Len(indent_stack') = N + 1 /\ indent_stack'[N + 1] = col
                            /\ current' = "INDENT" /\ pending_dedents' = 0 /\ rest' = tokens
         /\ col < Indent => /\ Len(indent_stack') + pending_dedents' + 1 = N
                            /\ pending_dedents' \in Nat
                            /\ current' = "DEDENT" /\ rest' = tokens
         /\ col = Indent => /\ Len(indent_stack') = N /\ pending_dedents' = 0
                            /\ current' = Head(tokens) /\ rest' = Tail(tokens)
<1>1. col \in Nat /\ Indent \in Nat /\ N \in Nat \ {0} /\ pending_dedents = 0
  BY StackFacts, IndentationAssumption DEF StartOfLine
<1>2. /\ Rises(indent_stack) /\ Indent = indent_stack[N]
      /\ \A i \in 1..N : indent_stack[i] \in Nat /\ indent_stack[i] <= Indent
  <2>1. Rises(indent_stack) /\ Indent = indent_stack[N]
    BY LevelsRise DEF Indent
  <2> QED
    BY <2>1, UpToTop DEF Rises
<1>3. CASE col > Indent
  <2>1. /\ indent_stack' = Append(indent_stack, col)
        /\ current' = "INDENT" /\ pending_dedents' = 0 /\ rest' = tokens
    BY <1>1, <1>3 DEF StartOfLine, Emit
  <2>2. /\ Len(indent_stack') = N + 1
        /\ \A i \in 1..N : indent_stack'[i] = indent_stack[i]
        /\ indent_stack'[N + 1] = col
    BY <2>1, AppendProperties DEF LexerTypes
  <2>3. \A i \in 1..(N + 1) : i \in 1..N \/ i = N + 1
    BY <1>1
  <2>4. \A i \in 1..(N + 1) : indent_stack'[i] <= col
    BY <1>1, <1>2, <1>3, <2>2, <2>3
  <2>5. \A i \in 1..N : i \in 1..(N + 1)
    BY <1>1
  <2> QED
    BY <1>1, <1>3, <2>1, <2>2, <2>4, <2>5
<1>4. CASE col < Indent
  <2>1. PICK d \in Nat \ {0} : d = Deeper(col) /\ d < N
    BY <1>4, DeeperBounds
  <2>2. /\ indent_stack' = SubSeq(indent_stack, 1, Len(indent_stack) - d)
        /\ current' = "DEDENT" /\ pending_dedents' = d - 1 /\ rest' = tokens
    BY <1>1, <1>4, <2>1 DEF StartOfLine, Emit
  <2>3. PICK m \in Nat : m = N - d
    BY <2>1
  <2>4. /\ Len(indent_stack') = m
        /\ \A i \in 1..m : indent_stack'[i] = indent_stack[i] /\ i \in 1..N
    <3>1. indent_stack' = SubSeq(indent_stack, 1, m)
      BY <2>2, <2>3
    <3>2. \A i \in 1..m : i \in 1..N /\ indent_stack[i] \in Nat
      BY <1>2, <2>1, <2>3
    <3>3. /\ Len(indent_stack') = IF 1 <= m THEN m - 1 + 1 ELSE 0
          /\ \A i \in 1..(m - 1 + 1) : indent_stack'[i] = indent_stack[1 + i - 1]
      BY <3>1, <3>2, SubSeqProperties
    <3>4. m - 1 + 1 = m /\ \A i \in 1..m : 1 + i - 1 = i
      BY <2>3
    <3> QED
      BY <3>2, <3>3, <3>4
  <2>5. \A i \in 1..m : indent_stack[i] <= col
    BY <2>1, <2>3, ShallowerStay
  <2>6. \A i \in 1..N : indent_stack[i] <= col => i \in 1..m
    BY <1>1, <2>1, <2>3, DeeperAreLast
  <2>7. /\ Len(indent_stack') = m /\ m + pending_dedents' + 1 = N
        /\ pending_dedents' \in Nat
    <3>1. d \in Nat /\ d >= 1 /\ d - 1 \in Nat /\ m + (d - 1) + 1 = N
      BY <1>1, <2>1, <2>3
    <3>2. pending_dedents' = d - 1 /\ Len(indent_stack') = m
      BY <2>2, <2>4
    <3> QED
      BY <3>1, <3>2
  <2>8. \A i \in 1..N : indent_stack[i] <= col =>
          i \in 1..Len(indent_stack') /\ indent_stack'[i] = indent_stack[i]
    BY <2>4, <2>6
  <2>9. \A i \in 1..Len(indent_stack') :
          indent_stack'[i] <= col /\ (i \in 1..N => indent_stack'[i] = indent_stack[i])
    BY <2>4, <2>5
  <2> HIDE <2>4, <2>5, <2>6
  <2> QED
    BY <1>1, <1>4, <2>2, <2>7, <2>8, <2>9
<1>5. CASE col = Indent
  <2>1. /\ Emit(Head(tokens)) /\ rest' = Tail(tokens)
        /\ indent_stack' = indent_stack /\ pending_dedents' = 0
    BY <1>1, <1>5 DEF StartOfLine, ReadToken, Ends
  <2>2. current' = Head(tokens)
    BY <2>1 DEF Emit
  <2> QED
    BY <1>1, <1>2, <1>5, <2>1, <2>2
<1> QED
  BY <1>1, <1>3, <1>4, <1>5

\* What the byte at the end does to it.
LEMMA EndStack ==
  ASSUME LexerTypes, NEW byte \in Ends, ReadEnd(byte)
  PROVE  /\ rest' = <<"PAST">> /\ current' \in {"DEDENT", "EOF", "GARBAGE"}
         /\ Len(indent_stack') \in Nat
         /\ Len(indent_stack) <= Len(indent_stack') + IF current' = "DEDENT" THEN 1 ELSE 0
<1>1. PICK N \in Nat \ {0} : N = Len(indent_stack)
  BY StackFacts
<1>2. CASE /\ Len(indent_stack) > 1
           /\ indent_stack' = SubSeq(indent_stack, 1, Len(indent_stack) - 1)
           /\ Emit("DEDENT")
  <2>1. \A i \in 1..(N - 1) : indent_stack[i] \in Columns
    BY <1>1, StackFacts
  <2>2. Len(indent_stack') = IF 1 <= N - 1 THEN N - 1 - 1 + 1 ELSE 0
    <3>1. indent_stack' = SubSeq(indent_stack, 1, N - 1) /\ N - 1 \in Int
      BY <1>1, <1>2
    <3> QED
      BY <2>1, <3>1, SubSeqProperties
  <2>3. current' = "DEDENT"
    BY <1>2 DEF Emit
  <2> QED
    BY <1>1, <1>2, <2>2, <2>3 DEF ReadEnd
<1>3. CASE Emit("EOF") /\ UNCHANGED indent_stack
  BY <1>1, <1>3 DEF ReadEnd, Emit
<1>4. CASE Emit("GARBAGE") /\ UNCHANGED indent_stack
  BY <1>1, <1>4 DEF ReadEnd, Emit
<1> QED
  BY <1>2, <1>3, <1>4 DEF ReadEnd

LEMMA EndOfTextStack ==
  ASSUME LexerTypes, TokensBalance, NEW col \in Columns, StartOfLine(col, <<"NUL">>)
  PROVE  /\ rest' \in {<<"NUL">>, <<"PAST">>}
         /\ current' \in {"INDENT", "DEDENT", "EOF", "GARBAGE"}
         /\ pending_dedents' > 0 => current' = "DEDENT"
         /\ Len(indent_stack) <= Len(indent_stack') + pending_dedents'
                                 + IF current' = "DEDENT" THEN 1 ELSE 0
<1>1. PICK N \in Nat \ {0} : N = Len(indent_stack)
  BY StackFacts
<1>2. pending_dedents = 0 /\ col \in Nat /\ Indent \in Nat
  BY StackFacts, IndentationAssumption DEF StartOfLine
<1>3. CASE col > Indent
  <2>1. /\ indent_stack' = Append(indent_stack, col)
        /\ current' = "INDENT" /\ pending_dedents' = 0 /\ rest' = <<"NUL">>
    BY <1>2, <1>3 DEF StartOfLine, Emit
  <2>2. Len(indent_stack') = N + 1
    BY <1>1, <2>1, AppendProperties DEF LexerTypes
  <2> QED
    BY <1>1, <2>1, <2>2
<1>4. CASE col < Indent
  <2>1. PICK d \in Nat \ {0} : d = Deeper(col) /\ d < N
    BY <1>1, <1>4, DeeperBounds
  <2>2. /\ indent_stack' = SubSeq(indent_stack, 1, Len(indent_stack) - d)
        /\ current' = "DEDENT" /\ pending_dedents' = d - 1 /\ rest' = <<"NUL">>
    BY <1>2, <1>4, <2>1 DEF StartOfLine, Emit
  <2>3. Len(indent_stack') = N - d
    BY <1>1, <2>1, <2>2, CloseLevels
  <2> QED
    BY <1>1, <2>1, <2>2, <2>3
<1>5. CASE col = Indent
  <2>1. ReadToken(<<"NUL">>) /\ pending_dedents' = 0
    BY <1>2, <1>5 DEF StartOfLine
  <2>2. ReadEnd("NUL") /\ "NUL" \in Ends
    BY <2>1 DEF ReadToken, Ends
  <2> QED
    BY <1>1, <2>1, <2>2, EndStack
<1> QED
  BY <1>2, <1>3, <1>4, <1>5

-----------------------------------------------------------------------------
(* Within a line.                                                          *)

Descent(b) ==
  /\ b \in Seq(Levels) /\ b # <<>>
  /\ \A i \in DOMAIN b : b[i].kind = "program" <=> i = 1

LEMMA DescentFacts ==
  ASSUME NEW b, Descent(b)
  PROVE  /\ Len(b) \in Nat \ {0} /\ DOMAIN b = 1..Len(b)
         /\ \A i \in 1..Len(b) : b[i] \in Levels /\ b[i].line \in Nat
         /\ \A i \in 1..Len(b) : b[i].kind = "program" <=> i = 1
<1>1. Len(b) \in Nat \ {0} /\ DOMAIN b = 1..Len(b) /\ \A i \in 1..Len(b) : b[i] \in Levels
  BY LenProperties, EmptySeq, ElementOfSeq DEF Descent
<1> QED
  BY <1>1 DEF Descent, Levels

LEMMA LineKinds ==
  ASSUME NEW n \in Nat, Regular(n)
  PROVE  /\ Inner(n) => Kind(n) \in {"more", "last", "close", "lastclose", "cr"}
         /\ ~Inner(n) => /\ Kind(n) \notin {"more", "last", "close", "lastclose"}
                         /\ Kind(n) \in {"elif", "else"} => Joinable(n) # {}
         /\ Inner(n) => WellPlaced(n)
         /\ ~Inner(n) => WellIndented(n)
<1>1. RightKind(n) /\ (IF Inner(n) THEN WellPlaced(n) ELSE WellIndented(n))
  BY DEF Regular
<1> QED
  BY <1>1 DEF RightKind, Kind

LEMMA TopOfObject ==
  ASSUME LexerTypes, NEW b, Descent(b), NEW n \in Nat, n = Here, LevelsFit(b, n), Len(b) # 1
  PROVE  /\ Len(b) \in 2..Len(b) /\ b[Len(b)].line \in Outer /\ b[Len(b)].line \in 1..n
<1>1. PICK m \in Nat \ {0} : m = Len(b)
  BY DescentFacts
<1>2. Len(b) \in 2..Len(b)
  BY <1>1
<1>3. Outer \subseteq 1..n
  BY TextFacts
<1> QED
  BY <1>2, <1>3 DEF LevelsFit

\* A line that is a carriage return changes nothing.
LEMMA ReturnIsNoLine ==
  ASSUME LexerTypes, NEW n \in Nat \ {0}, n = Here, Kind(n) = "cr",
         NEW b, Descent(b), LevelsFit(b, n), BeforeLine(b, n, 0), NEW phase
  PROVE  BehindLine(b, n, phase)
<1>1. Kind(n) \notin Headers /\ (Inner(n + 1) <=> Inner(n))
  BY OpenBehind DEF Headers
<1>2. CASE Inner(n)
  <2>1. InObject(b, n)
    BY <1>2 DEF BeforeLine
  <2>2. b[Len(b)].line \in 1..(n - 1)
    <3>1. b[Len(b)].line \in 1..n /\ b[Len(b)].line < n
      BY <2>1, TopOfObject DEF InObject, OpensAt
    <3> QED
      BY <3>1
  <2>3. OpensAt(b[Len(b)].line, n + 1)
    BY <2>1, <2>2, OpenBehind DEF InObject
  <2>4. EntriesOf(n + 1) = EntriesOf(n)
    BY EntriesBehind
  <2>5. InObject(b, n + 1)
    BY <2>1, <2>3, <2>4 DEF InObject
  <2> QED
    BY <1>1, <1>2, <2>5 DEF BehindLine
<1>3. CASE ~Inner(n)
  <2>1. InBody(b, n, 0)
    BY <1>3 DEF BeforeLine
  <2>2. b[Len(b)].line \in Nat
    BY DescentFacts
  <2>3. InBody(b, n + 1, 0)
    BY <2>1, <2>2 DEF InBody
  <2> QED
    BY <1>1, <1>3, <2>3 DEF BehindLine
<1> QED
  BY <1>2, <1>3

LEMMA AppendToFew ==
  ASSUME NEW x, NEW y, NEW e
  PROVE  Append(<<x>>, e) = <<x, e>> /\ Append(<<x, y>>, e) = <<x, y, e>>
<1>1. Append(<<x>>, e) = <<x, e>>
  <2> DEFINE s == Append(<<x>>, e)
  <2>1. <<x>> \in Seq({x, e}) /\ Len(<<x>>) = 1 /\ <<x>>[1] = x
    OBVIOUS
  <2>2. s \in Seq({x, e}) /\ Len(s) = 2 /\ s[1] = x /\ s[2] = e
    BY <2>1, AppendProperties
  <2> HIDE DEF s
  <2>3. s = <<x, e>>
    BY <2>2
  <2> QED
    BY <2>3 DEF s
<1>2. Append(<<x, y>>, e) = <<x, y, e>>
  <2> DEFINE s == Append(<<x, y>>, e)
  <2>1. /\ <<x, y>> \in Seq({x, y, e}) /\ Len(<<x, y>>) = 2
        /\ <<x, y>>[1] = x /\ <<x, y>>[2] = y
    OBVIOUS
  <2>2. s \in Seq({x, y, e}) /\ Len(s) = 3 /\ s[1] = x /\ s[2] = y /\ s[3] = e
    BY <2>1, AppendProperties
  <2> HIDE DEF s
  <2>3. s = <<x, y, e>>
    BY <2>2
  <2> QED
    BY <2>3 DEF s
<1> QED
  BY <1>1, <1>2

LEMMA WholeLines ==
  ASSUME NEW kind, NEW e
  PROVE  /\ kind = "cr" => Append(TokensOf(kind), e) = <<e>>
         /\ kind = "lastclose" => Append(TokensOf(kind), e) = <<"last", "close", e>>
         /\ kind # "cr" /\ kind # "lastclose" => Append(TokensOf(kind), e) = <<kind, e>>
<1>1. ASSUME kind = "cr" PROVE Append(TokensOf(kind), e) = <<e>>
  BY <1>1 DEF TokensOf
<1>2. ASSUME kind = "lastclose" PROVE Append(TokensOf(kind), e) = <<"last", "close", e>>
  <2>1. TokensOf(kind) = <<"last", "close">>
    BY <1>2 DEF TokensOf
  <2> QED
    BY <2>1, AppendToFew
<1>3. ASSUME kind # "cr" /\ kind # "lastclose" PROVE Append(TokensOf(kind), e) = <<kind, e>>
  <2>1. TokensOf(kind) = <<kind>>
    BY <1>3 DEF TokensOf
  <2> QED
    BY <2>1, AppendToFew
<1> QED
  BY <1>1, <1>2, <1>3

\* The first token of a line that the parser is ready for.
LineBegins(b, d, n, e) ==
  /\ LexerTypes /\ n = Here /\ LevelsFit(b, n) /\ Ending(e, n)
  /\ pending_dedents = 0 /\ BeforeLine(b, n, 0) /\ ElseFits(d, n)
  /\ current = Head(Whole(e, n)) /\ rest = Tail(Whole(e, n))

LEMMA LineBegun ==
  ASSUME NEW n \in Nat \ {0}, NEW b, Descent(b), NEW d, NEW e \in LineEnds, LineBegins(b, d, n, e)
  PROVE  AtWord(b, d, n, e) \/ AtNewline(b, n, e)
<1>1. LexerTypes /\ n = Here /\ Kind(n) \in Kinds
  BY TextFacts DEF LineBegins
<1>5. PICK tokens : tokens = Whole(e, n) /\ current = Head(tokens) /\ rest = Tail(tokens)
  BY DEF LineBegins
<1>6. /\ Kind(n) = "cr" => tokens = <<e>>
      /\ Kind(n) = "lastclose" => tokens = <<"last", "close", e>>
      /\ Kind(n) # "cr" /\ Kind(n) # "lastclose" => tokens = <<Kind(n), e>>
  BY <1>5, WholeLines DEF Whole
<1>2. CASE Kind(n) = "cr"
  <2>1. e = "NEWLINE" /\ current = e /\ rest = <<>>
    <3>1. e = "NEWLINE" /\ tokens = <<e>>
      BY <1>2, <1>6 DEF LineBegins, Ending
    <3>2. Head(<<e>>) = e /\ Tail(<<e>>) = <<>>
      OBVIOUS
    <3> QED
      BY <1>5, <3>1, <3>2
  <2>2. BehindLine(b, n, "colon")
    BY <1>1, <1>2, ReturnIsNoLine DEF LineBegins
  <2> QED
    BY <2>1, <2>2 DEF AtNewline, LineBegins
<1>3. CASE Kind(n) = "lastclose"
  <2>1. current = "last" /\ rest = <<"close", e>>
    <3>1. /\ Head(<<"last", "close", e>>) = "last"
          /\ Tail(<<"last", "close", e>>) = <<"close", e>>
      OBVIOUS
    <3> QED
      BY <1>3, <1>5, <1>6, <3>1
  <2> QED
    BY <1>3, <2>1 DEF AtWord, LineBegins
<1>4. CASE Kind(n) \notin {"cr", "lastclose"}
  <2>1. current = Kind(n) /\ rest = <<e>>
    <3>1. tokens = <<Kind(n), e>>
      BY <1>4, <1>6
    <3>2. Head(<<Kind(n), e>>) = Kind(n) /\ Tail(<<Kind(n), e>>) = <<e>>
      OBVIOUS
    <3> QED
      BY <1>5, <3>1, <3>2
  <2> QED
    BY <1>1, <1>4, <2>1 DEF AtWord, LineBegins, Words
<1> QED
  BY <1>2, <1>3, <1>4

AlwaysBegun ==
  \A n \in Nat \ {0}, e \in LineEnds : \A b, d :
    Descent(b) /\ LineBegins(b, d, n, e) => AtWord(b, d, n, e) \/ AtNewline(b, n, e)

LEMMA LineIsBegun == AlwaysBegun
BY LineBegun DEF AlwaysBegun

\* The same of the state behind a step.
LEMMA NextLineIsBegun == AlwaysBegun'
BY LineIsBegun, PTL

LEMMA CompleteFacts ==
  ASSUME LexerTypes, NEW n \in Nat \ {0}, n = Here, Complete
  PROVE  Kind(n) \notin Headers /\ ~Inner(n + 1)
<1> DEFINE solid == {i \in 1..Len(text) : text[i].kind # "cr"}
<1>1. solid # {} => text[Last(solid)].kind \notin Headers \cup {"open", "more", "last"}
  BY DEF Complete
<1>2. solid # {} => Last(solid) \in solid /\ \A k \in solid : k <= Last(solid)
  BY LastFacts DEF Here
<1>3. n \in 1..Len(text)
  BY DEF Here
<1>4. Kind(n) \notin Headers
  <2> SUFFICES ASSUME Kind(n) \in Headers PROVE FALSE
    OBVIOUS
  <2>1. n \in solid
    BY <1>3 DEF Kind, Headers
  <2>2. Last(solid) = n
    BY <1>2, <1>3, <2>1 DEF Here
  <2> QED
    BY <1>1, <2>1, <2>2 DEF Kind
<1>5. ~Inner(n + 1)
  <2> SUFFICES ASSUME Inner(n + 1) PROVE FALSE
    OBVIOUS
  <2>1. PICK o \in 1..n : OpensAt(o, n + 1)
    BY DEF Inner
  <2>2. o \in solid /\ text[o].kind = "open"
    BY <2>1 DEF OpensAt, Here
  <2>3. PICK l \in solid : l = Last(solid) /\ o <= l
    BY <1>2, <2>2
  <2>4. l # o
    BY <1>1, <2>2, <2>3
  <2>5. l \in (o + 1)..(n + 1 - 1)
    BY <2>1, <2>3, <2>4 DEF Here
  <2>6. text[l].kind \in {"more", "last", "cr"}
    BY <2>1, <2>5 DEF OpensAt
  <2> QED
    BY <1>1, <2>2, <2>3, <2>6
<1> QED
  BY <1>4, <1>5

-----------------------------------------------------------------------------
(* A new line.                                                             *)

\* Behind line n the lexer and the parser agree, and it is the last one read.
Behind(b, n) ==
  /\ LexerTypes /\ TokensBalance /\ RegularTo(n)
  /\ Descent(b) /\ LevelsFit(b, n) /\ BehindLine(b, n, "indent")

\* Every line since that of a level is to the right of it.
LEMMA LevelsBehind ==
  ASSUME NEW n \in Nat \ {0}, NEW b, Behind(b, n)
  PROVE  /\ Len(b) - 1 <= Len(indent_stack)
         /\ \A i \in 2..Len(b), k \in Outer : b[i].line < k => Col(k) > Col(b[i].line)
<1>1. PICK N \in Nat \ {0} : N = Len(indent_stack)
  BY StackFacts DEF Behind
<1>2. PICK B \in Nat \ {0} : B = Len(b)
  BY DescentFacts DEF Behind
<1>3. n = Here /\ LexerTypes /\ LevelsFit(b, n) /\ ColumnsFit(n)
  BY DEF Behind, RegularTo
<1>4. \/ B - 1 = N /\ b[B].line = n
      \/ InObject(b, n + 1)
      \/ B = N
  BY <1>1, <1>2 DEF Behind, BehindLine, InBody
<1>5. B - 1 <= N
  BY <1>1, <1>2, <1>4 DEF InObject
<1>6. ASSUME NEW i \in 2..B, NEW k \in Outer, b[i].line < k
      PROVE  Col(k) > Col(b[i].line)
  <2>1. k \in 1..n /\ b[i].line \in Outer
    BY <1>2, <1>3, TextFacts DEF LevelsFit
  <2>2. CASE k # n
    BY <1>2, <1>3, <1>6, <2>1, <2>2 DEF LevelsFit
  <2>3. CASE k = n
    <3>1. Indent = Col(n) /\ Indent = indent_stack[N]
      BY <1>1, <1>3, <2>3 DEF ColumnsFit, Indent
    <3>2. PICK j \in Nat : j = i - 1
      OBVIOUS
    <3>3. j \in 1..N /\ indent_stack[j] = Col(b[i].line)
      <4>1. j \in 1..N /\ j <= N
        BY <1>5, <3>2
      <4> QED
        BY <1>1, <1>2, <1>3, <3>2, <4>1 DEF LevelsFit
    <3>4. j # N
      <4> SUFFICES ASSUME j = N PROVE FALSE
        OBVIOUS
      <4>1. i = B /\ B # N
        BY <1>5, <3>2
      <4>2. InObject(b, n + 1) /\ b[B].line \in Nat /\ B # 1
        <5>1. b[B].line \in 1..n /\ b[B].line < n
          BY <1>3, <1>6, <2>1, <2>3, <4>1, TextFacts
        <5>2. InObject(b, n + 1)
          BY <1>4, <4>1, <5>1
        <5> QED
          BY <1>2, <5>1, <5>2 DEF InObject
      <4>3. OpensAt(b[B].line, n + 1) /\ b[B].line \in 1..(n + 1 - 1)
        BY <1>2, <1>3, <2>1, <4>1, <4>2, TextFacts DEF InObject
      <4>4. n <= b[B].line
        BY <1>3, <2>1, <2>3, <4>3, OpenerIsOuter DEF Behind, RegularTo
      <4> QED
        BY <1>6, <2>3, <4>1, <4>2, <4>4
    <3>5. indent_stack[j] < indent_stack[N]
      BY <1>1, <3>3, <3>4, LevelsRise, UpToTop DEF Behind
    <3> QED
      BY <2>3, <3>1, <3>3, <3>5, <1>3, <2>1, TextFacts
  <2> QED
    BY <2>2, <2>3
<1> QED
  BY <1>1, <1>2, <1>5, <1>6

\* The last line of the structure is the one whose column the lexer is at.
LEMMA LastOfStructure ==
  ASSUME NEW n \in Nat \ {0}, LexerTypes, RegularTo(n), ~Inner(n + 1)
  PROVE  \E l \in Outer : /\ Last(Outer) = l /\ \A k \in Outer : k <= l
                          /\ Indent = Col(l)
                          /\ IsHeader(l) <=> Kind(n) \in Headers
                          /\ Kind(n) \in Headers => l = n
<1>1. n = Here /\ Outer \subseteq 1..n /\ Outer \in SUBSET Nat /\ ColumnsFit(n)
  BY TextFacts DEF RegularTo
<1>2. CASE n \in Outer
  <2>1. \A k \in Outer : k <= n
    BY <1>1
  <2>2. Last(Outer) = n
    BY <1>1, <1>2, <2>1, LastIs
  <2> QED
    BY <1>1, <1>2, <2>1, <2>2 DEF ColumnsFit, IsHeader, Kind
<1>3. CASE n \notin Outer
  <2>1. Inner(n)
    BY <1>1, <1>3 DEF Outer, Here
  <2>2. PICK o \in 1..(n - 1) : OpensAt(o, n)
    BY <2>1 DEF Inner
  <2>3. o \in Outer /\ \A k \in Outer : k < n => k <= o
    BY <1>1, <2>2, OpenerIsOuter DEF RegularTo
  <2>4. \A k \in Outer : k <= o
    BY <1>1, <1>3, <2>3
  <2>5. Last(Outer) = o
    BY <1>1, <2>3, <2>4, LastIs
  <2>6. Kind(n) \in {"close", "lastclose"}
    <3>1. Regular(n)
      BY DEF RegularTo
    <3>2. Kind(n) \in {"more", "last", "close", "lastclose", "cr"}
      BY <2>1, <3>1, LineKinds
    <3>3. Kind(n) \notin {"more", "last", "cr"}
      BY <1>1, <2>1, OpenBehind
    <3> QED
      BY <3>2, <3>3
  <2>7. Indent = Col(o)
    BY <1>1, <2>2, <2>6 DEF ColumnsFit, Indent
  <2>8. ~IsHeader(o) /\ Kind(n) \notin Headers
    BY <2>2, <2>6 DEF OpensAt, IsHeader, Headers
  <2> QED
    BY <2>3, <2>4, <2>5, <2>7, <2>8
<1> QED
  BY <1>2, <1>3

\* The lexer has been given line n + 1.
Given(line, e, n) ==
  /\ line \in Lines /\ e \in LineEnds
  /\ line.kind = "cr" => e = "NEWLINE"
  /\ n = Here /\ text' = Append(text, line) /\ Regular(n + 1)'
  /\ StartOfLine(line.col, Append(TokensOf(line.kind), e))

LEMMA GivenFacts ==
  ASSUME LexerTypes, NEW n \in Nat, NEW line, NEW e, Given(line, e, n)
  PROVE  /\ Here' = n + 1 /\ Col(n + 1)' = line.col /\ Kind(n + 1)' = line.kind
         /\ line.col \in Columns /\ line.col \in Nat /\ line.kind \in Kinds
         /\ Head(Append(TokensOf(line.kind), e)) \notin Ends
         /\ Whole(e, n + 1)' = Append(TokensOf(line.kind), e)
<1>1. line.col \in Columns /\ line.col \in Nat /\ line.kind \in Kinds
  BY IndentationAssumption DEF Given, Lines
<1>2. Here' = n + 1 /\ Col(n + 1)' = line.col /\ Kind(n + 1)' = line.kind
  BY GrownLines DEF Given
<1>3. PICK tokens : tokens = Append(TokensOf(line.kind), e)
  OBVIOUS
<1>4. \/ line.kind = "cr" /\ tokens = <<e>>
      \/ line.kind = "lastclose" /\ tokens = <<"last", "close", e>>
      \/ tokens = <<line.kind, e>>
  BY <1>3, WholeLines
<1>5. Head(tokens) \notin Ends
  <2>1. /\ tokens = <<e>> => Head(tokens) = e
        /\ tokens = <<"last", "close", e>> => Head(tokens) = "last"
        /\ tokens = <<line.kind, e>> => Head(tokens) = line.kind
    OBVIOUS
  <2>2. line.kind = "cr" => e = "NEWLINE"
    BY DEF Given
  <2> QED
    BY <1>1, <1>4, <2>1, <2>2 DEF Ends, Kinds, Headers
<1> QED
  BY <1>1, <1>2, <1>3, <1>5 DEF Whole

LEMMA GivenStack ==
  ASSUME LexerTypes, TokensBalance, NEW n \in Nat, NEW line, NEW e, Given(line, e, n),
         NEW N \in Nat, N = Len(indent_stack)
  PROVE  /\ \A i \in 1..N : indent_stack[i] <= line.col =>
              i \in 1..Len(indent_stack') /\ indent_stack'[i] = indent_stack[i]
         /\ \A i \in 1..Len(indent_stack') :
              indent_stack'[i] <= line.col /\ (i \in 1..N => indent_stack'[i] = indent_stack[i])
         /\ Len(indent_stack') \in Nat
         /\ line.col > Indent =>
              /\ Len(indent_stack') = N + 1 /\ indent_stack'[N + 1] = line.col
              /\ current' = "INDENT" /\ pending_dedents' = 0 /\ rest' = Whole(e, n + 1)'
         /\ line.col < Indent =>
              /\ Len(indent_stack') + pending_dedents' + 1 = N
              /\ pending_dedents' \in Nat
              /\ current' = "DEDENT" /\ rest' = Whole(e, n + 1)'
         /\ line.col = Indent =>
              /\ Len(indent_stack') = N /\ pending_dedents' = 0
              /\ current' = Head(Whole(e, n + 1)') /\ rest' = Tail(Whole(e, n + 1)')
<1>1. PICK tokens : tokens = Append(TokensOf(line.kind), e)
  OBVIOUS
<1>2. /\ line.col \in Columns /\ Head(tokens) \notin Ends
      /\ StartOfLine(line.col, tokens) /\ Whole(e, n + 1)' = tokens
  BY <1>1, GivenFacts DEF Given
<1>3. PICK col \in Columns : col = line.col
  BY <1>2
<1>4. StartOfLine(col, tokens)
  BY <1>2, <1>3
<1>5. /\ \A i \in 1..N : indent_stack[i] <= col =>
           i \in 1..Len(indent_stack') /\ indent_stack'[i] = indent_stack[i]
      /\ \A i \in 1..Len(indent_stack') :
           indent_stack'[i] <= col /\ (i \in 1..N => indent_stack'[i] = indent_stack[i])
      /\ Len(indent_stack') \in Nat
      /\ col > Indent => /\ Len(indent_stack') = N + 1 /\ indent_stack'[N + 1] = col
                         /\ current' = "INDENT" /\ pending_dedents' = 0 /\ rest' = tokens
      /\ col < Indent => /\ Len(indent_stack') + pending_dedents' + 1 = N
                         /\ pending_dedents' \in Nat
                         /\ current' = "DEDENT" /\ rest' = tokens
      /\ col = Indent => /\ Len(indent_stack') = N /\ pending_dedents' = 0
                         /\ current' = Head(tokens) /\ rest' = Tail(tokens)
  BY <1>2, <1>4, LineStack
<1> QED
  BY <1>2, <1>3, <1>5

\* The levels of the descent stay what they are.
LEMMA LevelsStay ==
  ASSUME NEW n \in Nat \ {0}, NEW b, Behind(b, n), NEW line, NEW e, Given(line, e, n)
  PROVE  LevelsFit(b, n + 1)'
<1>1. PICK N \in Nat \ {0} : N = Len(indent_stack)
  BY StackFacts DEF Behind
<1>2. PICK B \in Nat \ {0} : B = Len(b)
  BY DescentFacts DEF Behind
<1>3. n = Here /\ LexerTypes /\ TokensBalance /\ LevelsFit(b, n)
  BY DEF Behind, RegularTo
<1>4. /\ \A i \in 1..n : Col(i)' = Col(i) /\ Kind(i)' = Kind(i)
      /\ Outer' = Outer \/ Outer' = Outer \cup {n + 1}
      /\ Outer \subseteq 1..n
  BY <1>3, GrownLines, GrownOuter, TextFacts DEF Given
<1>5. B - 1 <= N /\ \A i \in 2..B, k \in Outer : b[i].line < k => Col(k) > Col(b[i].line)
  BY <1>1, <1>2, LevelsBehind
<1>6. /\ \A i \in 1..Len(indent_stack') : i \in 1..N => indent_stack'[i] = indent_stack[i]
      /\ Len(indent_stack') \in Nat
  BY <1>1, <1>3, GivenStack
<1>7. ASSUME NEW i \in 2..B
      PROVE  /\ b[i].line \in Outer' /\ b[i].kind = LevelOf(Kind(b[i].line)')
             /\ i - 1 <= Len(indent_stack') => indent_stack'[i - 1] = Col(b[i].line)'
             /\ \A k \in Outer' : b[i].line < k /\ k < n + 1 => Col(k)' > Col(b[i].line)'
             /\ \A j \in 2..B : i < j => b[i].line < b[j].line
  <2>1. /\ b[i].line \in Outer /\ b[i].kind = LevelOf(Kind(b[i].line))
        /\ i - 1 <= N => indent_stack[i - 1] = Col(b[i].line)
        /\ \A j \in 2..B : i < j => b[i].line < b[j].line
    BY <1>1, <1>2, <1>3 DEF LevelsFit
  <2>2. PICK l \in 1..n : l = b[i].line
    BY <1>4, <2>1
  <2>3. Col(l)' = Col(l) /\ Kind(l)' = Kind(l) /\ l \in Outer'
    BY <1>4, <2>1, <2>2
  <2>4. ASSUME NEW k \in Outer', l < k, k < n + 1 PROVE Col(k)' > Col(l)'
    <3>2. k \in Outer \/ k = n + 1
      BY <1>4
    <3>3. k # n + 1
      BY <2>4
    <3>1. k \in Outer /\ k \in 1..n
      BY <1>4, <3>2, <3>3
    <3> QED
      BY <1>4, <1>5, <2>2, <2>3, <2>4, <3>1
  <2>5. ASSUME i - 1 <= Len(indent_stack') PROVE indent_stack'[i - 1] = Col(l)'
    <3>1. i - 1 \in 1..N /\ i - 1 \in 1..Len(indent_stack')
      BY <1>5, <1>6, <2>5
    <3> QED
      BY <1>6, <2>1, <2>2, <2>3, <3>1
  <2>6. Kind(b[i].line)' = Kind(l)' /\ Col(b[i].line)' = Col(l)'
    BY <2>2 DEF Kind, Col
  <2> QED
    BY <2>1, <2>2, <2>3, <2>4, <2>5, <2>6
<1> QED
  BY <1>2, <1>7 DEF LevelsFit

\* A line inside an object literal.
LEMMA InnerLine ==
  ASSUME NEW n \in Nat \ {0}, NEW b, Behind(b, n), NEW line, NEW e, Given(line, e, n),
         LexerTypes', TokensBalance', Inner(n + 1)
  PROVE  InObject(b, n + 1)' /\ ColumnsFit(n + 1)'
<1>1. PICK N \in Nat \ {0} : N = Len(indent_stack)
  BY StackFacts DEF Behind
<1>2. PICK B \in Nat \ {0} : B = Len(b)
  BY DescentFacts DEF Behind
<1>3. n = Here /\ LexerTypes /\ TokensBalance /\ LevelsFit(b, n) /\ ColumnsFit(n) /\ Descent(b)
  BY DEF Behind, RegularTo
<1>4. /\ \A i \in 1..n : Col(i)' = Col(i) /\ Kind(i)' = Kind(i) /\ Col(i) \in Nat
      /\ Col(n + 1)' = line.col /\ Kind(n + 1)' = line.kind /\ line.col \in Nat
      /\ Outer' = Outer /\ Outer \subseteq 1..n
  BY <1>3, GrownLines, GrownOuter, GivenFacts, TextFacts DEF Given
<1>5. /\ \A i \in 1..N : indent_stack[i] <= line.col =>
           i \in 1..Len(indent_stack') /\ indent_stack'[i] = indent_stack[i]
      /\ \A i \in 1..Len(indent_stack') : indent_stack'[i] <= line.col
      /\ Len(indent_stack') \in Nat
  BY <1>1, <1>3, GivenStack
<1>6. InObject(b, n + 1)
  <2>1. Kind(n) \notin Headers
    <3>1. Kind(n) \in {"open", "more", "last", "cr"}
      BY <1>3, OpenBehind
    <3> QED
      BY <3>1 DEF Headers
  <2> QED
    BY <2>1 DEF Behind, BehindLine
<1>7. PICK o \in 1..n : o = b[B].line /\ o \in Outer
  BY <1>2, <1>3, <1>6, TopOfObject DEF InObject
<1>8. OpensAt(o, n + 1) /\ B - 1 <= N /\ B # 1
  BY <1>1, <1>2, <1>6, <1>7 DEF InObject
<1>9. \A k \in Outer : k <= o
  BY <1>3, <1>4, <1>7, <1>8, OpenerIsOuter DEF Behind, RegularTo
<1>10. PICK k \in 1..N : indent_stack[k] = Col(o)
  <2>1. CASE o = n
    <3>1. Indent = Col(n) /\ N \in 1..N
      BY <1>3, <1>7, <2>1 DEF ColumnsFit
    <3> QED
      BY <1>1, <2>1, <3>1 DEF Indent
  <2>2. CASE o # n
    <3>1. o \in 1..(n - 1) /\ OpensAt(o, n)
      BY <1>3, <1>8, <2>2, OpenBehind
    <3> QED
      BY <1>1, <1>3, <3>1 DEF ColumnsFit
  <2> QED
    BY <2>1, <2>2
<1>11. k = B - 1
  <2>1. PICK j \in 1..N : j = B - 1
    BY <1>8
  <2>2. B \in 2..B /\ indent_stack[j] = Col(o)
    BY <1>1, <1>2, <1>3, <1>7, <1>8, <2>1 DEF LevelsFit
  <2> QED
    BY <1>1, <1>3, <1>10, <2>1, <2>2, LevelsRise, OnePlaceEach
<1>12. /\ OpensAt(o, n + 1)' /\ Inner(n + 1)' /\ EntriesOf(n + 1)' = EntriesOf(n + 1)
       /\ \A i \in 1..n : OpensAt(i, n + 1)' <=> OpensAt(i, n + 1)
  BY <1>3, <1>8, GrownInside DEF Given
<1>13. /\ line.col >= Col(o)
       /\ line.kind \in {"close", "lastclose"} => line.col = Col(o)
  <2>1. WellPlaced(n + 1)'
    BY <1>12 DEF Given, Regular
  <2>2. IF Kind(n + 1)' \in {"close", "lastclose"} THEN Col(n + 1)' = Col(o)'
        ELSE Col(n + 1)' >= Col(o)'
    BY <1>12, <2>1 DEF WellPlaced, Kind
  <2> QED
    BY <1>4, <2>2
<1>14. k \in 1..Len(indent_stack') /\ indent_stack'[k] = Col(o)
  BY <1>4, <1>5, <1>10, <1>13
<1>15. line.kind \in {"close", "lastclose"} => k = Len(indent_stack')
  BY <1>4, <1>5, <1>13, <1>14, LevelsRise, TopOfRising
<1>16. InObject(b, n + 1)'
  <2>1. B - 1 <= Len(indent_stack')
    BY <1>5, <1>11, <1>14
  <2>2. PICK l \in 1..n : l = Last(EntriesOf(n + 1))
    <3>1. o \in EntriesOf(n + 1) /\ EntriesOf(n + 1) \in SUBSET (1..n)
      BY <1>8 DEF EntriesOf, OpensAt
    <3> QED
      BY <3>1, LastFacts
  <2>3. Last(EntriesOf(n + 1))' = l
    BY <1>12, <2>2 DEF Last
  <2>4. Kind(Last(EntriesOf(n + 1)))' = Kind(Last(EntriesOf(n + 1)))
    BY <1>4, <2>2, <2>3 DEF Kind
  <2>5. OpensAt(b[B].line, n + 1)'
    BY <1>7, <1>12 DEF OpensAt
  <2> QED
    BY <1>2, <1>6, <1>8, <2>1, <2>4, <2>5 DEF InObject
<1>17. ColumnsFit(n + 1)'
  <2>1. n + 1 \notin Outer'
    BY <1>4
  <2>2. ASSUME NEW i \in 1..(n + 1 - 1), OpensAt(i, n + 1)'
        PROVE  \E j \in 1..Len(indent_stack') :
                 /\ indent_stack'[j] = Col(i)'
                 /\ Kind(n + 1)' \in {"close", "lastclose"} => j = Len(indent_stack')
    <3>1. i \in 1..n /\ OpensAt(i, n + 1)
      BY <1>12, <2>2
    <3>2. i = o
      BY <1>8, <3>1, OneOpener
    <3> QED
      BY <1>4, <1>14, <1>15, <3>2
  <2>3. ASSUME NEW i \in Outer, \A m \in Outer : m >= i => Col(m)' >= Col(i)'
        PROVE  \E j \in 1..Len(indent_stack') : indent_stack'[j] = Col(i)'
    <3>1. /\ \A m \in Outer : m >= i => Col(m) >= Col(i)
          /\ i \in 1..n /\ Col(i)' = Col(i)
      BY <1>4, <2>3
    <3>2. PICK j \in 1..N : indent_stack[j] = Col(i)
      BY <1>1, <1>3, <3>1 DEF ColumnsFit
    <3>3. Col(i) <= line.col
      BY <1>4, <1>7, <1>9, <1>13, <3>1
    <3> QED
      BY <1>5, <3>1, <3>2, <3>3
  <2> QED
    BY <1>4, <2>1, <2>2, <2>3 DEF ColumnsFit
<1> QED
  BY <1>16, <1>17

\* A line of the structure: under a header, or back in a column that is open.
LEMMA OuterColumns ==
  ASSUME NEW n \in Nat \ {0}, NEW b, Behind(b, n), NEW line, NEW e, Given(line, e, n),
         LexerTypes', TokensBalance', ~Inner(n + 1)
  PROVE  /\ ColumnsFit(n + 1)'
         /\ line.col > Indent <=> Kind(n) \in Headers
         /\ line.col >= Indent => \A k \in Outer : IsHeader(k) /\ Col(k) = line.col =>
              ~ \A m \in Outer : m > k => Col(m) > line.col
<1>1. PICK N \in Nat \ {0} : N = Len(indent_stack)
  BY StackFacts DEF Behind
<1>3. n = Here /\ LexerTypes /\ TokensBalance /\ ColumnsFit(n) /\ Rises(indent_stack)
  BY LevelsRise DEF Behind, RegularTo
<1>4. /\ \A i \in 1..n : Col(i)' = Col(i) /\ Kind(i)' = Kind(i) /\ Col(i) \in Nat
      /\ Col(n + 1)' = line.col /\ Kind(n + 1)' = line.kind /\ line.col \in Nat
      /\ Outer' = Outer \cup {n + 1} /\ Outer \subseteq 1..n /\ Before(n + 1)' = Outer
  BY <1>3, GrownLines, GrownOuter, GivenFacts, TextFacts DEF Given
<1>5. /\ \A i \in 1..N : indent_stack[i] <= line.col =>
           i \in 1..Len(indent_stack') /\ indent_stack'[i] = indent_stack[i]
      /\ \A i \in 1..Len(indent_stack') : indent_stack'[i] <= line.col
      /\ Len(indent_stack') \in Nat
      /\ line.col > Indent => Len(indent_stack') = N + 1 /\ indent_stack'[N + 1] = line.col
  BY <1>1, <1>3, GivenStack
<1>6. PICK l \in Outer : /\ Last(Outer) = l /\ \A k \in Outer : k <= l
                         /\ Indent = Col(l)
                         /\ IsHeader(l) <=> Kind(n) \in Headers
                         /\ Kind(n) \in Headers => l = n
  BY LastOfStructure DEF Behind
<1>7. WellIndented(n + 1)'
  <2>1. ~Inner(n + 1)'
    BY <1>3, GrownInside DEF Given
  <2> QED
    BY <2>1 DEF Given, Regular
<1>8. /\ IsHeader(l) => line.col > Col(l)
      /\ ~IsHeader(l) => \E k \in Outer :
           Col(k) = line.col /\ \A m \in Outer : m > k => Col(m) >= line.col
  <2>1. Before(n + 1)' # {} /\ Last(Before(n + 1))' = l
    BY <1>4, <1>6 DEF Last
  <2>2. IsHeader(Last(Before(n + 1)))' <=> IsHeader(l)
    BY <1>4, <1>6, <2>1 DEF IsHeader, Kind
  <2>3. Col(Last(Before(n + 1)))' = Col(l)
    BY <1>4, <1>6, <2>1 DEF Col
  <2>4. IF IsHeader(l) THEN line.col > Col(l)
        ELSE \E k \in Outer : Col(k)' = line.col /\ \A m \in Outer : m > k => Col(m)' >= line.col
    BY <1>4, <1>7, <2>1, <2>2, <2>3 DEF WellIndented
  <2>5. \A k \in Outer : Col(k)' = Col(k)
    BY <1>4
  <2> QED
    BY <2>4, <2>5
<1>9. ~IsHeader(l) => \E i \in 1..N : indent_stack[i] = line.col
  <2> SUFFICES ASSUME ~IsHeader(l) PROVE \E i \in 1..N : indent_stack[i] = line.col
    OBVIOUS
  <2>1. PICK k \in Outer : Col(k) = line.col /\ \A m \in Outer : m > k => Col(m) >= line.col
    BY <1>8
  <2>2. \A m \in Outer : m >= k => Col(m) >= Col(k)
    BY <1>4, <2>1
  <2> QED
    BY <1>1, <1>3, <2>1, <2>2 DEF ColumnsFit
<1>10. line.col > Indent <=> IsHeader(l)
  <2>1. IsHeader(l) => line.col > Indent
    BY <1>6, <1>8
  <2>2. ASSUME ~IsHeader(l) PROVE line.col <= Indent
    <3>1. PICK i \in 1..N : indent_stack[i] = line.col
      BY <1>9, <2>2
    <3> QED
      BY <1>1, <1>3, <3>1, UpToTop DEF Indent
  <2>3. Indent \in Nat
    BY <1>3, StackFacts
  <2> QED
    BY <1>4, <2>1, <2>2, <2>3
<1>11. PICK t \in 1..Len(indent_stack') : t = Len(indent_stack') /\ indent_stack'[t] = line.col
  <2>1. CASE IsHeader(l)
    BY <1>1, <1>5, <1>10, <2>1
  <2>2. CASE ~IsHeader(l)
    <3>1. PICK i \in 1..N : indent_stack[i] = line.col
      BY <1>9, <2>2
    <3>2. i \in 1..Len(indent_stack') /\ indent_stack'[i] = line.col
      BY <1>4, <1>5, <3>1
    <3>3. i = Len(indent_stack')
      BY <1>4, <1>5, <3>2, LevelsRise, TopOfRising
    <3> QED
      BY <3>2, <3>3
  <2> QED
    BY <2>1, <2>2
<1>12. ColumnsFit(n + 1)'
  <2>1. Indent' = Col(n + 1)'
    BY <1>4, <1>11 DEF Indent
  <2>2. ~ \E i \in 1..(n + 1 - 1) : OpensAt(i, n + 1)'
    <3>1. \A i \in 1..(n + 1 - 1) : OpensAt(i, n + 1)' <=> OpensAt(i, n + 1)
      BY <1>3, GrownInside DEF Given
    <3> QED
      BY <3>1 DEF Inner
  <2>3. ASSUME NEW i \in Outer', \A m \in Outer' : m >= i => Col(m)' >= Col(i)'
        PROVE  \E j \in 1..Len(indent_stack') : indent_stack'[j] = Col(i)'
    <3>1. CASE i = n + 1
      BY <1>4, <1>11, <3>1
    <3>2. CASE i # n + 1
      <4>1. i \in Outer /\ i \in 1..n /\ Col(i)' = Col(i) /\ n + 1 >= i
        BY <1>4, <3>2
      <4>2. \A m \in Outer : m >= i => Col(m) >= Col(i)
        BY <1>4, <2>3, <4>1
      <4>3. PICK j \in 1..N : indent_stack[j] = Col(i)
        BY <1>1, <1>3, <4>1, <4>2 DEF ColumnsFit
      <4>4. Col(i) <= line.col
        BY <1>4, <2>3, <4>1
      <4> QED
        BY <1>5, <4>1, <4>3, <4>4
    <3> QED
      BY <3>1, <3>2
  <2> QED
    BY <1>4, <2>1, <2>2, <2>3 DEF ColumnsFit
<1>13. ASSUME line.col >= Indent, NEW k \in Outer, IsHeader(k), Col(k) = line.col,
              \A m \in Outer : m > k => Col(m) > line.col
       PROVE  FALSE
  <2>1. CASE IsHeader(l)
    <3>1. Col(l) < line.col /\ Col(l) \in Nat
      BY <1>4, <1>6, <1>8, <2>1
    <3>2. l # k /\ ~(l > k)
      BY <1>4, <1>13, <3>1
    <3>3. k > l
      BY <1>4, <3>2
    <3> QED
      BY <1>4, <1>6, <3>3
  <2>2. CASE ~IsHeader(l)
    <3>1. l # k /\ l > k
      BY <1>4, <1>6, <1>13, <2>2
    <3>2. Col(l) > line.col
      BY <1>13, <3>1
    <3> QED
      BY <1>4, <1>6, <1>13, <3>2
  <2> QED
    BY <2>1, <2>2
<1> QED
  BY <1>6, <1>10, <1>12, <1>13

LEMMA OuterLine ==
  ASSUME NEW n \in Nat \ {0}, NEW b, Behind(b, n), NEW line, NEW e, Given(line, e, n),
         LexerTypes', TokensBalance', ~Inner(n + 1)
  PROVE  /\ line.col > Indent => UnderHeader(b, n + 1)'
         /\ line.col < Indent => InBody(b, n + 1, pending_dedents + 1)'
         /\ line.col = Indent => InBody(b, n + 1, 0)'
         /\ line.col >= Indent => line.kind \notin {"elif", "else"}
<1>1. PICK N \in Nat \ {0} : N = Len(indent_stack)
  BY StackFacts DEF Behind
<1>2. PICK B \in Nat \ {0} : B = Len(b)
  BY DescentFacts DEF Behind
<1>3. n = Here /\ LexerTypes /\ TokensBalance /\ Indent \in Nat /\ line.col \in Nat
  BY StackFacts, GivenFacts DEF Behind, RegularTo
<1>4. /\ \A i \in 1..n : Col(i)' = Col(i) /\ Kind(i)' = Kind(i)
      /\ Col(n + 1)' = line.col /\ Kind(n + 1)' = line.kind
      /\ Outer \subseteq 1..n /\ Before(n + 1)' = Outer
      /\ ~Inner(n + 1)'
  BY <1>3, GrownLines, GrownOuter, GrownInside, GivenFacts, TextFacts DEF Given
<1>5. /\ line.col > Indent => Len(indent_stack') = N + 1
      /\ line.col < Indent => /\ Len(indent_stack') + pending_dedents' + 1 = N
                              /\ pending_dedents' \in Nat
      /\ line.col = Indent => Len(indent_stack') = N
      /\ Len(indent_stack') \in Nat
  BY <1>1, <1>3, GivenStack
<1>6. /\ line.col > Indent <=> Kind(n) \in Headers
      /\ line.col >= Indent => \A k \in Outer : IsHeader(k) /\ Col(k) = line.col =>
           ~ \A m \in Outer : m > k => Col(m) > line.col
  BY OuterColumns
<1>7. ASSUME line.col >= Indent PROVE line.kind \notin {"elif", "else"}
  <2> SUFFICES ASSUME line.kind \in {"elif", "else"} PROVE FALSE
    OBVIOUS
  <2>1. Joinable(n + 1)' # {}
    BY <1>4 DEF Given, Regular, RightKind, Kind
  <2>2. PICK j \in Outer : /\ text'[j].kind \in {"if", "elif"} /\ Col(j)' = Col(n + 1)'
                           /\ \A k \in Outer : k > j => Col(k)' > Col(n + 1)'
    BY <1>4, <2>1 DEF Joinable
  <2>3. IsHeader(j) /\ Col(j) = line.col
    <3>1. Kind(j)' = Kind(j) /\ Col(j)' = Col(j)
      BY <1>4
    <3> QED
      BY <1>4, <2>2, <3>1 DEF IsHeader, Headers, Kind
  <2>4. \A k \in Outer : k > j => Col(k) > line.col
    BY <1>4, <2>2
  <2> QED
    BY <1>6, <1>7, <2>3, <2>4
<1>8. ASSUME line.col > Indent PROVE UnderHeader(b, n + 1)'
  <2>1. B - 1 = N /\ b[B].phase = "indent" /\ b[B].line = n
    BY <1>1, <1>2, <1>6, <1>8 DEF Behind, BehindLine
  <2>2. B = N + 1 /\ n < n + 1
    BY <2>1
  <2>3. line.kind \notin {"elif", "else"}
    BY <1>3, <1>7, <1>8
  <2> QED
    BY <1>2, <1>4, <1>5, <1>8, <2>1, <2>2, <2>3 DEF UnderHeader
<1>9. ASSUME ~(line.col > Indent) PROVE B = N /\ b[B].phase = "body" /\ b[B].line < n + 1
  BY <1>1, <1>2, <1>6, <1>9 DEF Behind, BehindLine, InBody
<1>10. ASSUME line.col < Indent PROVE InBody(b, n + 1, pending_dedents + 1)'
  <2>1. B = N /\ b[B].phase = "body" /\ b[B].line < n + 1
    BY <1>3, <1>9, <1>10
  <2>2. PICK s \in Nat : s = Len(indent_stack')
    BY <1>5
  <2>3. PICK p \in Nat : p = pending_dedents' /\ s + p + 1 = N
    BY <1>5, <1>10, <2>2
  <2>5. s + p + 1 = s + (p + 1)
    OBVIOUS
  <2>4. B = s + (p + 1)
    BY <2>1, <2>3, <2>5
  <2> QED
    BY <1>2, <2>1, <2>2, <2>3, <2>4 DEF InBody
<1>11. ASSUME line.col = Indent PROVE InBody(b, n + 1, 0)'
  BY <1>2, <1>3, <1>5, <1>9, <1>11 DEF InBody
<1> QED
  BY <1>7, <1>8, <1>10, <1>11

\* Wherever the columns take it, the parser is where the new line is read.
LEMMA NewLine ==
  ASSUME NEW n \in Nat \ {0}, NEW b, Behind(b, n), NEW line, NEW e, Given(line, e, n),
         LexerTypes', TokensBalance'
  PROVE  /\ RegularTo(n + 1)' /\ LevelsFit(b, n + 1)'
         /\ line.col > Indent => IF Inner(n + 1)' THEN InObject(b, n + 1)'
                                 ELSE UnderHeader(b, n + 1)'
         /\ line.col < Indent => BeforeLine(b, n + 1, pending_dedents + 1)'
         /\ line.col = Indent => /\ BeforeLine(b, n + 1, 0)'
                                 /\ line.kind \notin {"elif", "else"}
<1>1. n = Here /\ LexerTypes /\ \A i \in 1..n : Regular(i)
  BY DEF Behind, RegularTo
<1>2. (Inner(n + 1)' <=> Inner(n + 1)) /\ Here' = n + 1
  BY <1>1, GrownInside, GrownLines DEF Given
<1>3. \A i \in 1..(n + 1) : Regular(i)'
  <2>1. \A i \in 1..n : Regular(i)'
    BY <1>1, GrownStructure DEF Given
  <2>2. Regular(n + 1)' /\ \A i \in 1..(n + 1) : i \in 1..n \/ i = n + 1
    BY DEF Given
  <2> QED
    BY <2>1, <2>2
<1>4. CASE Inner(n + 1)
  <2>1. InObject(b, n + 1)' /\ ColumnsFit(n + 1)'
    BY <1>4, InnerLine
  <2>2. line.kind \notin {"elif", "else"}
    <3>1. RightKind(n + 1)' /\ Kind(n + 1)' = line.kind
      BY <1>1, GivenFacts DEF Given, Regular
    <3> QED
      BY <1>2, <1>4, <3>1 DEF RightKind, Kind
  <2> QED
    BY <1>2, <1>3, <1>4, <2>1, <2>2, LevelsStay DEF RegularTo, BeforeLine
<1>5. CASE ~Inner(n + 1)
  <2>1. ColumnsFit(n + 1)'
    BY <1>5, OuterColumns
  <2>2. /\ line.col > Indent => UnderHeader(b, n + 1)'
        /\ line.col < Indent => InBody(b, n + 1, pending_dedents + 1)'
        /\ line.col = Indent => InBody(b, n + 1, 0)'
        /\ line.col = Indent => line.kind \notin {"elif", "else"}
    <3>1. Indent \in Nat /\ line.col \in Nat
      BY <1>1, StackFacts, GivenFacts
    <3>2. line.col = Indent => line.col >= Indent
      BY <3>1
    <3> QED
      BY <1>5, <3>2, OuterLine
  <2> QED
    BY <1>2, <1>3, <1>5, <2>1, <2>2, LevelsStay DEF RegularTo, BeforeLine
<1> QED
  BY <1>4, <1>5

-----------------------------------------------------------------------------
(* The next token.                                                         *)

LEMMA SameText ==
  ASSUME text' = text
  PROVE  /\ Here' = Here /\ Outer' = Outer /\ Complete' = Complete
         /\ \A i : /\ Kind(i)' = Kind(i) /\ Col(i)' = Col(i) /\ (Inner(i)' <=> Inner(i))
                   /\ Joinable(i)' = Joinable(i) /\ (Regular(i)' <=> Regular(i))
                   /\ EntriesOf(i)' = EntriesOf(i) /\ Under(i)' = Under(i)
                   /\ \A o : OpensAt(o, i)' <=> OpensAt(o, i)
<1>1. Here' = Here
  BY DEF Here
<1>2. \A i : Kind(i)' = Kind(i) /\ Col(i)' = Col(i)
  BY DEF Kind, Col
<1>3. \A i, o : OpensAt(o, i)' <=> OpensAt(o, i)
  BY DEF OpensAt
<1>4. \A i : Inner(i)' <=> Inner(i)
  BY DEF Inner, OpensAt
<1>5. Outer' = Outer
  BY DEF Outer, Inner, OpensAt
<1>6. \A i : Joinable(i)' = Joinable(i)
  BY DEF Joinable, Before, Outer, Inner, OpensAt, Col
<1>7. \A i : EntriesOf(i)' = EntriesOf(i)
  BY DEF EntriesOf
<1>8. \A i : Under(i)' = Under(i)
  BY DEF Under, HeadersOver, Last, Before, Outer, Inner, OpensAt, Col, IsHeader
<1>9. \A i : Regular(i)' <=> Regular(i)
  BY DEF Regular, RightKind, WellPlaced, WellIndented, EntriesOf, Joinable, Last, Before, Outer,
         Inner, OpensAt, Col, IsHeader
<1>10. Complete' = Complete
  BY DEF Complete, Last
<1> QED
  BY <1>1, <1>2, <1>3, <1>4, <1>5, <1>6, <1>7, <1>8, <1>9, <1>10

LEMMA SameLine ==
  ASSUME text' = text, indent_stack' = indent_stack, NEW b, NEW n, NEW d, NEW m, NEW phase, NEW e
  PROVE  /\ RegularTo(n)' <=> RegularTo(n)
         /\ LevelsFit(b, n)' <=> LevelsFit(b, n)
         /\ BeforeLine(b, n, m)' <=> BeforeLine(b, n, m)
         /\ AtClose(b, n)' <=> AtClose(b, n)
         /\ BehindLine(b, n, phase)' <=> BehindLine(b, n, phase)
         /\ ElseFits(d, n)' <=> ElseFits(d, n)
         /\ Kind(n)' = Kind(n) /\ Whole(e, n)' = Whole(e, n)
<1>1. /\ Here' = Here /\ Outer' = Outer
      /\ \A i : /\ Kind(i)' = Kind(i) /\ Col(i)' = Col(i) /\ (Inner(i)' <=> Inner(i))
                /\ Joinable(i)' = Joinable(i) /\ (Regular(i)' <=> Regular(i))
                /\ EntriesOf(i)' = EntriesOf(i)
                /\ \A o : OpensAt(o, i)' <=> OpensAt(o, i)
  BY SameText
<1>2. ColumnsFit(n)' <=> ColumnsFit(n)
  BY DEF ColumnsFit, Indent, Outer, Inner, OpensAt, Col, Kind
<1>3. RegularTo(n)' <=> RegularTo(n)
  BY <1>1, <1>2 DEF RegularTo
<1>4. LevelsFit(b, n)' <=> LevelsFit(b, n)
  BY DEF LevelsFit, Outer, Inner, OpensAt, Col, Kind
<1>5. \A i : InObject(b, i)' <=> InObject(b, i)
  BY DEF InObject, OpensAt, Kind, Last, EntriesOf
<1>6. \A i : InBody(b, i, m)' <=> InBody(b, i, m)
  BY DEF InBody
<1>7. \A i : InBody(b, i, 0)' <=> InBody(b, i, 0)
  BY DEF InBody
<1>8. BeforeLine(b, n, m)' <=> BeforeLine(b, n, m)
  BY <1>1, <1>5, <1>6 DEF BeforeLine
<1>9. AtClose(b, n)' <=> AtClose(b, n)
  BY DEF AtClose, OpensAt
<1>10. BehindLine(b, n, phase)' <=> BehindLine(b, n, phase)
  BY <1>1, <1>5, <1>7 DEF BehindLine
<1>11. ElseFits(d, n)' <=> ElseFits(d, n)
  BY <1>1 DEF ElseFits
<1>12. Kind(n)' = Kind(n) /\ Whole(e, n)' = Whole(e, n)
  BY DEF Kind, Whole
<1> QED
  BY <1>3, <1>4, <1>8, <1>9, <1>10, <1>11, <1>12

LEMMA WholeFacts ==
  ASSUME NEW n \in Nat \ {0}, LexerTypes, n = Here, NEW e \in LineEnds, Ending(e, n),
         NEW tokens, tokens = Whole(e, n)
  PROVE  Head(tokens) \notin Ends /\ tokens # <<>>
<1>1. Kind(n) \in Kinds
  BY TextFacts
<1>2. \/ Kind(n) = "cr" /\ tokens = <<e>>
      \/ Kind(n) = "lastclose" /\ tokens = <<"last", "close", e>>
      \/ tokens = <<Kind(n), e>>
  BY WholeLines DEF Whole
<1>3. /\ tokens = <<e>> => Head(tokens) = e /\ tokens # <<>>
      /\ tokens = <<"last", "close", e>> => Head(tokens) = "last" /\ tokens # <<>>
      /\ tokens = <<Kind(n), e>> => Head(tokens) = Kind(n) /\ tokens # <<>>
  OBVIOUS
<1>4. Kind(n) = "cr" => e = "NEWLINE"
  BY DEF Ending
<1>5. CASE Kind(n) = "cr" /\ tokens = <<e>>
  BY <1>3, <1>4, <1>5 DEF Ends
<1>6. CASE tokens = <<"last", "close", e>>
  BY <1>3, <1>6 DEF Ends
<1>7. CASE tokens = <<Kind(n), e>>
  BY <1>1, <1>3, <1>7 DEF Ends, Kinds, Headers
<1> QED
  BY <1>2, <1>5, <1>6, <1>7

LEMMA FewTokens ==
  ASSUME NEW x, NEW y
  PROVE  /\ Head(<<x>>) = x /\ Tail(<<x>>) = <<>> /\ <<x>> # <<>>
         /\ Head(<<x, y>>) = x /\ Tail(<<x, y>>) = <<y>> /\ <<x, y>> # <<>>
OBVIOUS

\* What is known when the next token is asked for.
Asked(n, e) == n = Here /\ LexerTypes /\ TokensBalance /\ LexerTypes' /\ TokensBalance'

LEMMA OwedDedent ==
  ASSUME NEW n \in Nat \ {0}, NEW b, NEW d, NEW e \in LineEnds, Asked(n, e), Ready(b, d, n, e),
         PendingDedent
  PROVE  InLine(b, d, n, e)'
<1>1. /\ text' = text /\ indent_stack' = indent_stack /\ ended' = ended /\ rest' = rest
      /\ pending_dedents # 0 /\ pending_dedents' = pending_dedents - 1 /\ current' = "DEDENT"
  BY DEF PendingDedent, Emit, Asked, LexerTypes
<1>2. PICK p \in Nat : p = pending_dedents /\ p = pending_dedents' + 1
  BY <1>1 DEF Asked, LexerTypes
<1>3. rest = Whole(e, n) /\ BeforeLine(b, n, p)
  BY <1>1, <1>2 DEF Ready
<1>4. /\ BeforeLine(b, n, p)' /\ rest' = Whole(e, n)' /\ RegularTo(n)' /\ LevelsFit(b, n)'
      /\ Kind(n)' = Kind(n)
  BY <1>1, <1>3, SameLine DEF Ready
<1>5. Ending(e, n)'
  BY <1>1, <1>4 DEF Ready, Ending
<1>6. AtDedent(b, n, e)'
  BY <1>1, <1>2, <1>4 DEF AtDedent
<1> QED
  BY <1>4, <1>5, <1>6 DEF InLine

\* What the text lacks when it ends behind a line.
LEMMA EndsBehind ==
  ASSUME LexerTypes, NEW n \in Nat \ {0}, n = Here, NEW b, NEW phase,
         BehindLine(b, n, phase), Complete
  PROVE  Len(b) = Len(indent_stack) /\ b[Len(b)].phase = "body"
<1>1. Kind(n) \notin Headers /\ ~Inner(n + 1)
  BY CompleteFacts
<1>2. InBody(b, n + 1, 0)
  BY <1>1 DEF BehindLine
<1> QED
  BY <1>2, StackFacts DEF InBody

LEMMA TokenOfLine ==
  ASSUME NEW n \in Nat \ {0}, NEW b, Descent(b), NEW d, NEW e \in LineEnds, Asked(n, e),
         Ready(b, d, n, e), RestOfLine
  PROVE  InLine(b, d, n, e)' \/ AtEnd(b)'
<1>1. /\ text' = text /\ ended' = ended /\ pending_dedents = 0 /\ pending_dedents' = 0
      /\ rest # <<>> /\ ReadToken(rest)
  BY DEF RestOfLine
<1>2. Head(rest) \notin Ends => /\ current' = Head(rest) /\ rest' = Tail(rest)
                                /\ indent_stack' = indent_stack
  BY <1>1 DEF ReadToken, Emit, Ends
<1>3. ASSUME Head(rest) \notin Ends
      PROVE  /\ RegularTo(n)' /\ LevelsFit(b, n)' /\ Ending(e, n)' /\ Kind(n)' = Kind(n)
             /\ BeforeLine(b, n, 0)' <=> BeforeLine(b, n, 0)
             /\ AtClose(b, n)' <=> AtClose(b, n)
             /\ BehindLine(b, n, "colon")' <=> BehindLine(b, n, "colon")
             /\ ElseFits(d, n)' <=> ElseFits(d, n)
             /\ Whole(e, n)' = Whole(e, n)
  <2>1. indent_stack' = indent_stack
    BY <1>2, <1>3
  <2>2. /\ RegularTo(n)' /\ LevelsFit(b, n)' /\ Kind(n)' = Kind(n)
        /\ BeforeLine(b, n, 0)' <=> BeforeLine(b, n, 0)
        /\ AtClose(b, n)' <=> AtClose(b, n)
        /\ BehindLine(b, n, "colon")' <=> BehindLine(b, n, "colon")
        /\ ElseFits(d, n)' <=> ElseFits(d, n)
        /\ Whole(e, n)' = Whole(e, n)
    BY <1>1, <2>1, SameLine DEF Ready
  <2>3. Ending(e, n)'
    BY <1>1, <2>2 DEF Ready, Ending
  <2> QED
    BY <2>2, <2>3
<1>4. CASE rest = Whole(e, n) /\ BeforeLine(b, n, pending_dedents) /\ ElseFits(d, n)
  <2>1. Head(rest) \notin Ends
    BY <1>4, WholeFacts DEF Asked, Ready
  <2>2. current' = Head(Whole(e, n)') /\ rest' = Tail(Whole(e, n)')
    BY <1>2, <1>3, <1>4, <2>1
  <2>3. LineBegins(b, d, n, e)'
    <3>1. BeforeLine(b, n, 0)' /\ ElseFits(d, n)'
      BY <1>1, <1>3, <1>4, <2>1
    <3>2. (n = Here)' /\ LexerTypes'
      BY <1>1 DEF Asked, Here
    <3> QED
      BY <1>1, <1>3, <2>1, <2>2, <3>1, <3>2 DEF LineBegins
  <2>4. AtWord(b, d, n, e)' \/ AtNewline(b, n, e)'
    BY <2>3, NextLineIsBegun DEF AlwaysBegun
  <2> QED
    BY <1>3, <2>1, <2>4 DEF InLine
<1>5. CASE rest = <<"close", e>> /\ AtClose(b, n) /\ Kind(n) = "lastclose"
  <2>1. Head(rest) = "close" /\ Tail(rest) = <<e>> /\ Head(rest) \notin Ends
    BY <1>5, FewTokens DEF Ends
  <2>2. AtBrace(b, n, e)'
    BY <1>1, <1>2, <1>3, <1>5, <2>1 DEF AtBrace
  <2> QED
    BY <1>3, <2>1, <2>2 DEF InLine
<1>6. CASE rest = <<e>> /\ BehindLine(b, n, "colon")
  <2>1. Head(rest) = e /\ Tail(rest) = <<>>
    BY <1>6, FewTokens
  <2>2. CASE e = "NEWLINE"
    <3>1. Head(rest) \notin Ends
      BY <2>1, <2>2 DEF Ends
    <3>2. AtNewline(b, n, e)'
      BY <1>1, <1>2, <1>3, <1>6, <2>1, <2>2, <3>1 DEF AtNewline
    <3> QED
      BY <1>3, <3>1, <3>2 DEF InLine
  <2>3. CASE e = "NUL"
    <3>1. ReadEnd(e) /\ e \in Ends
      BY <1>1, <2>1, <2>3 DEF ReadToken, Ends
    <3>2. /\ rest' = <<"PAST">> /\ current' \in {"DEDENT", "EOF", "GARBAGE"}
          /\ Len(indent_stack') \in Nat
          /\ Len(indent_stack) <= Len(indent_stack') + IF current' = "DEDENT" THEN 1 ELSE 0
      BY <3>1, EndStack DEF Asked
    <3>3. Complete => Len(b) = Len(indent_stack) /\ b[Len(b)].phase = "body"
      BY <1>6, EndsBehind DEF Asked
    <3>4. ended' # "no"
      BY <1>1, <2>3 DEF Ready, Ending
    <3>5. Complete' = Complete
      BY <1>1, SameText
    <3>6. Len(indent_stack') + pending_dedents' = Len(indent_stack')
      BY <1>1, <3>2
    <3> QED
      BY <1>1, <3>2, <3>3, <3>4, <3>5, <3>6 DEF AtEnd
  <2> QED
    BY <2>2, <2>3 DEF LineEnds
<1> QED
  BY <1>1, <1>4, <1>5, <1>6 DEF Ready

LEMMA NothingLeft ==
  ASSUME NEW n \in Nat \ {0}, NEW b, Descent(b), NEW d, NEW e \in LineEnds, Asked(n, e),
         Ready(b, d, n, e), rest = <<>>, pending_dedents = 0
  PROVE  Behind(b, n) /\ e = "NEWLINE" /\ ended = "no"
<1>1. rest # Whole(e, n)
  BY WholeFacts DEF Asked, Ready
<1>2. rest # <<"close", e>> /\ rest # <<e>>
  BY FewTokens
<1>3. e = "NEWLINE" /\ BehindLine(b, n, "indent")
  BY <1>1, <1>2 DEF Ready
<1> QED
  BY <1>3 DEF Ready, Behind, Asked, Ending

\* The line that is read, and how it ends.
LineRead(line, e) ==
  /\ line \in Lines /\ e \in LineEnds /\ pending_dedents = 0 /\ rest = <<>>
  /\ line.kind = "cr" => e = "NEWLINE"
  /\ text' = Append(text, line)
  /\ StartOfLine(line.col, Append(TokensOf(line.kind), e))
  /\ ended' = IF e = "NUL" THEN "unterminated" ELSE ended

LEMMA LineIsRead ==
  ASSUME NEW line \in Lines, NextLine(line)
  PROVE  \E e \in LineEnds : LineRead(line, e)
<1>1. CASE /\ StartOfLine(line.col, Append(TokensOf(line.kind), "NEWLINE"))
           /\ UNCHANGED ended
  <2>1. LineRead(line, "NEWLINE")
    BY <1>1 DEF LineRead, NextLine, StartOfLine, LineEnds
  <2> QED
    BY <2>1 DEF LineEnds
<1>2. CASE /\ line.kind # "cr"
           /\ StartOfLine(line.col, Append(TokensOf(line.kind), "NUL"))
           /\ ended' = "unterminated"
  <2>1. LineRead(line, "NUL")
    BY <1>2 DEF LineRead, NextLine, StartOfLine, LineEnds
  <2> QED
    BY <2>1 DEF LineEnds
<1> QED
  BY <1>1, <1>2 DEF NextLine

LastIsRegular == \A m \in Nat : m = Len(text) => (Regular(Len(text)) <=> Regular(m))

LEMMA LastRegular == LastIsRegular
BY DEF LastIsRegular

LEMMA NextLastRegular == LastIsRegular'
BY LastRegular, PTL

LEMMA RegularLine ==
  ASSUME LexerTypes, NEW n \in Nat, n = Here, NEW line \in Lines, NextLine(line), regular'
  PROVE  regular /\ Regular(n + 1)'
<1>1. Len(text') = n + 1
  BY AppendProperties DEF NextLine, LexerTypes, Here
<1>2. regular /\ Regular(Len(text))'
  BY DEF NextLine, LexerTypes
<1> QED
  BY <1>1, <1>2, NextLastRegular DEF LastIsRegular

LEMMA LineArrives ==
  ASSUME NEW n \in Nat \ {0}, NEW b, Descent(b), NEW d, NEW e \in LineEnds, Asked(n, e),
         Ready(b, d, n, e), NEW line \in Lines, NextLine(line), regular'
  PROVE  \E f \in LineEnds : InLine(b, d, n + 1, f)'
<1>1. PICK f \in LineEnds : LineRead(line, f)
  BY LineIsRead
<1>2. Behind(b, n) /\ ended = "no"
  BY <1>1, NothingLeft DEF LineRead
<1>3. Given(line, f, n)
  <2>1. Regular(n + 1)'
    BY RegularLine DEF Asked
  <2> QED
    BY <1>1, <2>1 DEF LineRead, Given, Asked
<1>4. /\ RegularTo(n + 1)' /\ LevelsFit(b, n + 1)'
      /\ line.col > Indent => IF Inner(n + 1)' THEN InObject(b, n + 1)'
                              ELSE UnderHeader(b, n + 1)'
      /\ line.col < Indent => BeforeLine(b, n + 1, pending_dedents + 1)'
      /\ line.col = Indent => /\ BeforeLine(b, n + 1, 0)'
                              /\ line.kind \notin {"elif", "else"}
  BY <1>2, <1>3, NewLine DEF Asked
<1>5. /\ line.col > Indent =>
           current' = "INDENT" /\ pending_dedents' = 0 /\ rest' = Whole(f, n + 1)'
      /\ line.col < Indent => current' = "DEDENT" /\ rest' = Whole(f, n + 1)'
      /\ line.col = Indent =>
           /\ pending_dedents' = 0
           /\ current' = Head(Whole(f, n + 1)') /\ rest' = Tail(Whole(f, n + 1)')
  <2>1. PICK N \in Nat : N = Len(indent_stack)
    BY StackFacts DEF Asked
  <2> QED
    BY <1>3, <2>1, GivenStack DEF Asked
<1>6. Kind(n + 1)' = line.kind /\ line.col \in Nat /\ Indent \in Nat
  BY <1>3, GivenFacts, StackFacts DEF Asked
<1>7. Ending(f, n + 1)'
  BY <1>1, <1>2, <1>6 DEF LineRead, Ending, LineEnds
<1>8. CASE line.col > Indent
  <2>1. AtIndent(b, n + 1, f)'
    BY <1>4, <1>5, <1>8 DEF AtIndent
  <2> QED
    BY <1>4, <1>7, <2>1 DEF InLine
<1>9. CASE line.col < Indent
  <2>1. AtDedent(b, n + 1, f)'
    BY <1>4, <1>5, <1>9 DEF AtDedent
  <2> QED
    BY <1>4, <1>7, <2>1 DEF InLine
<1>10. CASE line.col = Indent
  <2>1. ElseFits(d, n + 1)'
    BY <1>4, <1>6, <1>10 DEF ElseFits
  <2>2. (n + 1 = Here)'
    BY <1>4 DEF RegularTo
  <2>3. LineBegins(b, d, n + 1, f)'
    BY <1>4, <1>5, <1>7, <1>10, <2>1, <2>2 DEF LineBegins, Asked
  <2>4. AtWord(b, d, n + 1, f)' \/ AtNewline(b, n + 1, f)'
    <3>1. n + 1 \in Nat \ {0}
      OBVIOUS
    <3> QED
      BY <2>3, <3>1, NextLineIsBegun DEF AlwaysBegun
  <2> QED
    BY <1>4, <1>7, <2>4 DEF InLine
<1> QED
  BY <1>6, <1>8, <1>9, <1>10

LEMMA EndArrives ==
  ASSUME NEW n \in Nat \ {0}, NEW b, Descent(b), NEW d, NEW e \in LineEnds, Asked(n, e),
         Ready(b, d, n, e), NEW col \in Columns, EndOfText(col)
  PROVE  AtEnd(b)'
<1>1. /\ StartOfLine(col, <<"NUL">>) /\ text' = text /\ ended' # "no"
      /\ rest = <<>> /\ pending_dedents = 0
  BY DEF EndOfText, StartOfLine
<1>2. Behind(b, n)
  BY <1>1, NothingLeft
<1>3. Complete => Len(b) = Len(indent_stack) /\ b[Len(b)].phase = "body"
  BY <1>2, EndsBehind DEF Behind, RegularTo
<1>4. /\ rest' \in {<<"NUL">>, <<"PAST">>}
      /\ current' \in {"INDENT", "DEDENT", "EOF", "GARBAGE"}
      /\ pending_dedents' > 0 => current' = "DEDENT"
      /\ Len(indent_stack) <= Len(indent_stack') + pending_dedents'
                              + IF current' = "DEDENT" THEN 1 ELSE 0
  BY <1>1, EndOfTextStack DEF Asked
<1>5. Complete' = Complete
  BY <1>1, SameText
<1> QED
  BY <1>1, <1>3, <1>4, <1>5 DEF AtEnd

LEMMA TokenFollows ==
  ASSUME NEW n \in Nat \ {0}, NEW b, Descent(b), NEW d, NEW e \in LineEnds, Asked(n, e),
         Ready(b, d, n, e), NextToken, regular'
  PROVE  SomeLine(b, d)' \/ AtEnd(b)'
<1>1. ASSUME NEW m \in Nat \ {0}, NEW f \in LineEnds, InLine(b, d, m, f)'
      PROVE  SomeLine(b, d)'
  <2>1. m \in 1..Here'
    BY <1>1 DEF InLine, RegularTo
  <2> QED
    BY <1>1, <2>1 DEF SomeLine
<1>2. CASE PendingDedent
  BY <1>1, <1>2, OwedDedent
<1>3. CASE RestOfLine
  BY <1>1, <1>3, TokenOfLine
<1>4. ASSUME NEW line \in Lines, NextLine(line) PROVE SomeLine(b, d)'
  <2>1. n + 1 \in Nat \ {0}
    OBVIOUS
  <2>2. PICK f \in LineEnds : InLine(b, d, n + 1, f)'
    BY <1>4, LineArrives
  <2> QED
    BY <1>1, <2>1, <2>2
<1>5. ASSUME NEW col \in Columns, EndOfText(col) PROVE AtEnd(b)'
  BY <1>5, EndArrives
<1> QED
  BY <1>2, <1>3, <1>4, <1>5 DEF NextToken

LEMMA TokenAtEnd ==
  ASSUME NEW n \in Nat, NEW e, NEW b, Descent(b), Asked(n, e), ReadyEnd(b), NextToken
  PROVE  AtEnd(b)'
<1>1. rest # <<>> /\ Head(rest) \in {"NUL", "PAST"} /\ Head(rest) \in Ends
  BY FewTokens DEF ReadyEnd, Ends
<1>2. PICK N \in Nat : N = Len(indent_stack)
  BY StackFacts DEF Asked
<1>3. CASE PendingDedent
  <2>1. /\ text' = text /\ indent_stack' = indent_stack /\ ended' = ended /\ rest' = rest
        /\ pending_dedents' = pending_dedents - 1 /\ current' = "DEDENT"
    BY <1>3 DEF PendingDedent, Emit
  <2>2. PICK p \in Nat : p = pending_dedents' /\ pending_dedents = p + 1
    BY <1>3, <2>1 DEF PendingDedent, Asked, LexerTypes
  <2>3. Complete' = Complete
    BY <2>1, SameText
  <2>4. N + (p + 1) = N + p + 1
    OBVIOUS
  <2> QED
    BY <1>2, <2>1, <2>2, <2>3, <2>4 DEF ReadyEnd, AtEnd
<1>4. CASE RestOfLine
  <2>1. /\ text' = text /\ ended' = ended /\ pending_dedents = 0 /\ pending_dedents' = 0
        /\ ReadEnd(Head(rest))
    BY <1>1, <1>4 DEF RestOfLine, ReadToken
  <2>2. /\ rest' = <<"PAST">> /\ current' \in {"DEDENT", "EOF", "GARBAGE"}
        /\ Len(indent_stack') \in Nat
        /\ N <= Len(indent_stack') + IF current' = "DEDENT" THEN 1 ELSE 0
    BY <1>1, <1>2, <2>1, EndStack DEF Asked
  <2>3. Complete' = Complete
    BY <2>1, SameText
  <2>4. Complete => b[Len(b)].phase = "body" /\ Len(b) <= N
    BY <1>2, <2>1 DEF ReadyEnd
  <2>5. PICK B \in Nat : B = Len(b)
    BY DescentFacts
  <2>6. Complete => B <= Len(indent_stack') + pending_dedents' + IF current' = "DEDENT" THEN 1 ELSE 0
    BY <2>1, <2>2, <2>4, <2>5
  <2> QED
    BY <2>1, <2>2, <2>3, <2>4, <2>5, <2>6 DEF ReadyEnd, AtEnd
<1>5. ASSUME NEW line \in Lines, NextLine(line) PROVE FALSE
  BY <1>1, <1>5 DEF NextLine, StartOfLine
<1>6. ASSUME NEW col \in Columns, EndOfText(col) PROVE FALSE
  BY <1>1, <1>6 DEF EndOfText, StartOfLine
<1> QED
  BY <1>3, <1>4, <1>5, <1>6 DEF NextToken

LEMMA FirstLine ==
  ASSUME NEW n \in Nat, n = 0, NEW b, Descent(b), NEW d, NEW f \in LineEnds, Asked(n, f),
         AtStart(b), NEW line, NEW e, Given(line, e, n), LineRead(line, e)
  PROVE  InLine(b, d, n + 1, e)'
<1>1. /\ Outer = {} /\ ~Inner(n + 1) /\ indent_stack[1] = 0 /\ Indent = 0
      /\ Len(indent_stack) = 1
  <2>1. Outer = {}
    BY TextFacts DEF Asked
  <2>2. ~Inner(n + 1)
    BY DEF Inner
  <2>3. indent_stack[1] = 0 /\ Indent = 0 /\ Len(indent_stack) = 1
    BY DEF AtStart, Indent
  <2> QED
    BY <2>1, <2>2, <2>3
<1>2. /\ Outer' = {n + 1} /\ Before(n + 1)' = {} /\ ~Inner(n + 1)'
      /\ Col(n + 1)' = line.col /\ Kind(n + 1)' = line.kind /\ Here' = n + 1
      /\ line.col \in Nat
  <2>1. /\ Outer' = {n + 1} /\ Before(n + 1)' = {}
    BY <1>1, GrownOuter DEF Given, Asked
  <2>2. ~Inner(n + 1)'
    BY <1>1, GrownInside DEF Given, Asked
  <2> QED
    BY <2>1, <2>2, GivenFacts DEF Asked
<1>3. line.col = 0 /\ line.kind \notin {"elif", "else"}
  <2>1. RightKind(n + 1)' /\ WellIndented(n + 1)'
    BY <1>2 DEF Given, Regular
  <2>2. line.col = 0
    BY <1>2, <2>1 DEF WellIndented
  <2>3. Joinable(n + 1)' = {}
    BY <1>2 DEF Joinable
  <2> QED
    BY <1>2, <2>1, <2>2, <2>3 DEF RightKind, Kind
<1>4. /\ Len(indent_stack') = 1 /\ indent_stack'[1] = 0 /\ pending_dedents' = 0
      /\ current' = Head(Whole(e, n + 1)') /\ rest' = Tail(Whole(e, n + 1)')
  <2>1. PICK N \in Nat : N = Len(indent_stack)
    BY <1>1
  <2>2. /\ \A i \in 1..Len(indent_stack') :
             indent_stack'[i] <= line.col /\ (i \in 1..N => indent_stack'[i] = indent_stack[i])
        /\ Len(indent_stack') = N /\ pending_dedents' = 0
        /\ current' = Head(Whole(e, n + 1)') /\ rest' = Tail(Whole(e, n + 1)')
    <3>1. line.col = Indent
      BY <1>1, <1>3
    <3> HIDE <1>1, <1>3
    <3> QED
      BY <2>1, <3>1, GivenStack DEF Asked
  <2> QED
    BY <1>1, <2>1, <2>2
<1>5. ColumnsFit(n + 1)'
  <2>1. Indent' = 0
    BY <1>4 DEF Indent
  <2>2. ~ \E i \in 1..(n + 1 - 1) : OpensAt(i, n + 1)'
    OBVIOUS
  <2>3. 1 \in 1..Len(indent_stack')
    BY <1>4
  <2> QED
    BY <1>2, <1>3, <1>4, <2>1, <2>2, <2>3 DEF ColumnsFit
<1>6. RegularTo(n + 1)'
  <2>1. \A i \in 1..(n + 1) : i = n + 1
    OBVIOUS
  <2>2. \A i \in 1..(n + 1) : Regular(i)'
    BY <2>1 DEF Given
  <2> QED
    BY <1>2, <1>5, <2>2 DEF RegularTo
<1>7. LevelsFit(b, n + 1)'
  BY DEF AtStart, LevelsFit
<1>8. BeforeLine(b, n + 1, 0)' /\ ElseFits(d, n + 1)'
  <2>1. InBody(b, n + 1, 0)'
    BY <1>4 DEF AtStart, InBody
  <2> QED
    BY <1>2, <1>3, <2>1 DEF BeforeLine, ElseFits
<1>9. Ending(e, n + 1)'
  BY <1>2 DEF LineRead, AtStart, Ending, LineEnds
<1>10. LineBegins(b, d, n + 1, e)'
  BY <1>2, <1>4, <1>7, <1>8, <1>9 DEF LineBegins, Asked
<1>11. AtWord(b, d, n + 1, e)' \/ AtNewline(b, n + 1, e)'
  <2>1. n + 1 \in Nat \ {0} /\ e \in LineEnds
    BY DEF LineRead
  <2> QED
    BY <1>10, <2>1, NextLineIsBegun DEF AlwaysBegun
<1> QED
  BY <1>6, <1>7, <1>9, <1>11 DEF InLine

LEMMA TokenAtStart ==
  ASSUME NEW n \in Nat, n = 0, NEW b, Descent(b), NEW d, NEW f \in LineEnds, Asked(n, f),
         AtStart(b), NextToken, regular'
  PROVE  SomeLine(b, d)' \/ AtEnd(b)'
<1>1. ~PendingDedent /\ ~RestOfLine
  BY DEF PendingDedent, RestOfLine, AtStart
<1>2. ASSUME NEW line \in Lines, NextLine(line) PROVE SomeLine(b, d)'
  <2>1. PICK e \in LineEnds : LineRead(line, e)
    BY <1>2, LineIsRead
  <2>2. Regular(n + 1)'
    BY <1>2, RegularLine DEF Asked
  <2>3. Given(line, e, n)
    BY <2>1, <2>2 DEF LineRead, Given, Asked
  <2>4. InLine(b, d, n + 1, e)'
    BY <2>1, <2>3, FirstLine
  <2>5. n + 1 \in 1..Here'
    BY <2>4 DEF InLine, RegularTo
  <2> QED
    BY <2>4, <2>5 DEF SomeLine
<1>3. ASSUME NEW col \in Columns, EndOfText(col) PROVE AtEnd(b)'
  <2>1. StartOfLine(col, <<"NUL">>) /\ ended' # "no"
    BY <1>3 DEF EndOfText
  <2>2. /\ rest' \in {<<"NUL">>, <<"PAST">>}
        /\ current' \in {"INDENT", "DEDENT", "EOF", "GARBAGE"}
        /\ pending_dedents' > 0 => current' = "DEDENT"
        /\ Len(indent_stack) <= Len(indent_stack') + pending_dedents'
                                + IF current' = "DEDENT" THEN 1 ELSE 0
    BY <2>1, EndOfTextStack DEF Asked
  <2>3. Len(indent_stack) = 1 /\ Len(b) = 1 /\ b[1].phase = "body"
    BY DEF AtStart
  <2> QED
    BY <2>1, <2>2, <2>3 DEF AtEnd
<1> QED
  BY <1>1, <1>2, <1>3 DEF NextToken

-----------------------------------------------------------------------------
(* What the parser makes of a token.                                       *)

LEMMA BlocksFacts ==
  ASSUME ParserTypes
  PROVE  /\ Descent(blocks) /\ Len(blocks) \in Nat \ {0}
         /\ \A i \in 1..Len(blocks) :
              blocks[i] \in Levels /\ blocks[i].line \in Nat /\ (blocks[i].kind = "program" <=> i = 1)
         /\ Top = blocks[Len(blocks)]
<1>1. Descent(blocks)
  BY DEF ParserTypes, Descent
<1>2. PICK b : b = blocks /\ Descent(b)
  BY <1>1
<1> QED
  BY <1>1, <1>2, DescentFacts DEF Top

LEMMA Pushed ==
  ASSUME ParserTypes, NEW kind \in {"if", "head", "object"}, NEW phase \in {"colon", "key"},
         NEW n \in Nat, n = Here, Push(Level(kind, Here, phase)), NEW b, b = blocks',
         NEW B \in Nat, B = Len(blocks)
  PROVE  /\ Len(b) = B + 1 /\ \A i \in 1..B : b[i] = blocks[i]
         /\ b[B + 1].kind = kind /\ b[B + 1].line = n /\ b[B + 1].phase = phase
<1>1. PICK level \in Levels : /\ level = Level(kind, Here, phase)
                              /\ level.kind = kind /\ level.line = n /\ level.phase = phase
  BY DEF Level, Levels
<1>2. b = Append(blocks, level)
  BY <1>1 DEF Push
<1> QED
  BY <1>1, <1>2, AppendProperties DEF ParserTypes

LEMMA Popped ==
  ASSUME ParserTypes, Top.kind # "program", Pop, NEW b, b = blocks',
         NEW B \in Nat, B = Len(blocks)
  PROVE  /\ B - 1 \in 1..B /\ Len(b) = B - 1
         /\ \A i \in 1..(B - 1) : b[i] = blocks[i]
<1>1. PICK m \in Nat \ {0} : m = B - 1
  <2>1. B \in Nat \ {0} /\ B # 1
    BY BlocksFacts
  <2>2. B - 1 \in Nat \ {0}
    BY <2>1
  <2> QED
    BY <2>2
<1>2. b = SubSeq(blocks, 1, m)
  BY <1>1 DEF Pop
<1>3. \A i \in 1..m : blocks[i] \in Levels
  BY <1>1, BlocksFacts
<1>4. /\ Len(b) = IF 1 <= m THEN m - 1 + 1 ELSE 0
      /\ \A i \in 1..(m - 1 + 1) : b[i] = blocks[1 + i - 1]
  BY <1>2, <1>3, SubSeqProperties
<1>5. \A i \in 1..m : b[i] = blocks[i]
  <2> TAKE i \in 1..m
  <2>1. i \in 1..(m - 1 + 1) /\ 1 + i - 1 = i
    OBVIOUS
  <2> QED
    BY <1>4, <2>1
<1> QED
  BY <1>1, <1>4, <1>5

LEMMA Turned ==
  ASSUME ParserTypes, NEW phase \in {"indent", "body", "key", "end"}, TopBecomes(phase),
         NEW b, b = blocks', NEW B \in Nat, B = Len(blocks)
  PROVE  /\ Len(b) = B /\ \A i \in 1..B : i # B => b[i] = blocks[i]
         /\ b[B].kind = blocks[B].kind /\ b[B].line = blocks[B].line /\ b[B].phase = phase
<1>1. B \in 1..B /\ blocks[B] \in Levels
  BY BlocksFacts
<1>2. PICK level \in Levels : /\ level = [blocks[B] EXCEPT !.phase = phase]
                              /\ level.kind = blocks[B].kind /\ level.line = blocks[B].line
                              /\ level.phase = phase
  <2>1. PICK top \in Levels : top = blocks[B]
    BY <1>1
  <2>2. /\ [top EXCEPT !.phase = phase] \in Levels
        /\ [top EXCEPT !.phase = phase].kind = top.kind
        /\ [top EXCEPT !.phase = phase].line = top.line
        /\ [top EXCEPT !.phase = phase].phase = phase
    BY DEF Levels
  <2> QED
    BY <2>1, <2>2
<1>3. b = [blocks EXCEPT ![B] = level]
  BY <1>2 DEF TopBecomes
<1>4. Len(b) = B /\ \A i \in 1..B : b[i] = IF i = B THEN level ELSE blocks[i]
  BY <1>1, <1>3, ExceptSeq DEF ParserTypes
<1> QED
  BY <1>1, <1>2, <1>4

\* The parser is about to take a token of a line.
Reading(n, e) ==
  /\ LexerTypes /\ TokensBalance /\ ParserTypes /\ PhasesFit(blocks)
  /\ e \in LineEnds /\ InLine(blocks, dangling, n, e)

LEMMA Position ==
  ASSUME NEW n \in Nat \ {0}, NEW e, Reading(n, e)
  PROVE  /\ n = Here /\ Kind(n) \in Kinds /\ Regular(n) /\ ColumnsFit(n) /\ e \in LineEnds
         /\ LevelsFit(blocks, n) /\ RegularTo(n) /\ Ending(e, n)
         /\ current \in Words \cup Layout
         /\ current = "INDENT" => AtIndent(blocks, n, e)
         /\ current = "DEDENT" => AtDedent(blocks, n, e)
         /\ current = "NEWLINE" => AtNewline(blocks, n, e)
         /\ current = "close" /\ Kind(n) = "lastclose" => AtBrace(blocks, n, e)
         /\ current \in Words /\ ~(current = "close" /\ Kind(n) = "lastclose") =>
              AtWord(blocks, dangling, n, e)
<1>1. n = Here /\ RegularTo(n) /\ LexerTypes
  BY DEF Reading, InLine, RegularTo
<1>2. Kind(n) \in Kinds
  BY <1>1, TextFacts
<1>3. /\ AtIndent(blocks, n, e) => current = "INDENT"
      /\ AtDedent(blocks, n, e) => current = "DEDENT"
      /\ AtNewline(blocks, n, e) => current = "NEWLINE"
      /\ AtBrace(blocks, n, e) => current = "close" /\ Kind(n) = "lastclose"
      /\ AtWord(blocks, dangling, n, e) =>
           current \in Words /\ ~(current = "close" /\ Kind(n) = "lastclose")
  BY DEF AtIndent, AtDedent, AtNewline, AtBrace, AtWord, Words, Kinds, Headers
<1>4. /\ "INDENT" \notin Words /\ "DEDENT" \notin Words /\ "NEWLINE" \notin Words
      /\ "close" \in Words /\ Layout = {"NEWLINE", "INDENT", "DEDENT"}
  BY DEF Words, Kinds, Headers, Layout
<1>5. \/ AtIndent(blocks, n, e) \/ AtDedent(blocks, n, e) \/ AtNewline(blocks, n, e)
      \/ AtBrace(blocks, n, e) \/ AtWord(blocks, dangling, n, e)
  BY DEF Reading, InLine
<1>6. /\ current \in Words \cup Layout
      /\ current = "INDENT" => AtIndent(blocks, n, e)
      /\ current = "DEDENT" => AtDedent(blocks, n, e)
      /\ current = "NEWLINE" => AtNewline(blocks, n, e)
      /\ current = "close" /\ Kind(n) = "lastclose" => AtBrace(blocks, n, e)
      /\ current \in Words /\ ~(current = "close" /\ Kind(n) = "lastclose") =>
           AtWord(blocks, dangling, n, e)
  BY <1>3, <1>4, <1>5
<1>7. Regular(n) /\ ColumnsFit(n)
  BY DEF Reading, InLine, RegularTo
<1> QED
  BY <1>1, <1>2, <1>6, <1>7 DEF Reading, InLine

\* The lines of the levels, from the first to the last.
LEMMA LevelLines ==
  ASSUME NEW n \in Nat \ {0}, NEW e, Reading(n, e), NEW B \in Nat, B = Len(blocks)
  PROVE  /\ \A i \in 1..B : blocks[i].line \in 0..n /\ (i # 1 => blocks[i].line \in Outer)
         /\ \A i \in 1..B : i < B => blocks[i].line < blocks[B].line
<1>1. /\ B \in Nat \ {0} /\ blocks[1].line = 0 /\ LevelsFit(blocks, n) /\ n = Here /\ LexerTypes
  BY BlocksFacts, Position DEF Reading, PhasesFit
<1>2. Outer \subseteq 1..n
  BY <1>1, TextFacts
<1>3. \A i \in 2..B : /\ blocks[i].line \in Outer
                      /\ \A j \in 2..B : i < j => blocks[i].line < blocks[j].line
  BY <1>1 DEF LevelsFit
<1>4. ASSUME NEW i \in 1..B
      PROVE  blocks[i].line \in 0..n /\ (i # 1 => blocks[i].line \in Outer)
  <2>1. CASE i = 1
    BY <1>1, <2>1
  <2>2. CASE i # 1
    <3>1. i \in 2..B
      BY <2>2
    <3>2. blocks[i].line \in Outer
      BY <1>3, <3>1
    <3>3. blocks[i].line \in 1..n
      BY <1>2, <3>2
    <3>4. \A x \in 1..n : x \in 0..n
      OBVIOUS
    <3> QED
      BY <3>2, <3>3, <3>4
  <2> QED
    BY <2>1, <2>2
<1>5. ASSUME NEW i \in 1..B, i < B PROVE blocks[i].line < blocks[B].line
  <2>1. B \in 2..B
    BY <1>5
  <2>2. CASE i = 1
    <3>1. blocks[B].line \in 1..n
      BY <1>2, <1>3, <2>1
    <3> QED
      BY <1>1, <2>2, <3>1
  <2>3. CASE i # 1
    <3>1. i \in 2..B
      BY <2>3
    <3> QED
      BY <1>3, <1>5, <2>1, <3>1
  <2> QED
    BY <2>2, <2>3
<1> QED
  BY <1>4, <1>5

\* The words that begin a statement.
LEMMA WordInBody ==
  ASSUME NEW n \in Nat \ {0}, NEW e, Reading(n, e),
         current \in Headers \cup {"plain", "open"}
  PROVE  /\ ~Inner(n) /\ n \in Outer /\ Kind(n) = current /\ rest = <<e>> /\ pending_dedents = 0
         /\ InBody(blocks, n, 0) /\ ElseFits(dangling, n) /\ Indent = Col(n)
<1>1. /\ current \in Words /\ current # "close" /\ current # "last"
      /\ current \notin {"more", "last", "close", "lastclose", "cr"}
  BY DEF Words, Kinds, Headers
<1>2. AtWord(blocks, dangling, n, e)
  BY <1>1, Position
<1>3. Kind(n) = current /\ rest = <<e>> /\ pending_dedents = 0
  BY <1>1, <1>2 DEF AtWord
<1>4. ~Inner(n)
  BY <1>1, <1>3, Position, LineKinds
<1>5. InBody(blocks, n, 0) /\ ElseFits(dangling, n)
  BY <1>2, <1>4 DEF AtWord, BeforeLine
<1>6. n \in Outer
  <2>1. n \in 1..Here
    BY Position
  <2> QED
    BY <1>4, <2>1 DEF Outer, Here
<1>7. Indent = Col(n)
  BY <1>6, Position DEF ColumnsFit
<1> QED
  BY <1>3, <1>4, <1>5, <1>6, <1>7

\* Levels that are left, or have gone on in their phases only.
LEMMA LevelsLeft ==
  ASSUME NEW n \in Nat \ {0}, LevelsFit(blocks, n), NEW b, Len(b) \in Nat,
         NEW B \in Nat, B = Len(blocks), Len(b) <= B,
         \A i \in 1..Len(b) : b[i].kind = blocks[i].kind /\ b[i].line = blocks[i].line
  PROVE  LevelsFit(b, n)
<1> SUFFICES ASSUME NEW i \in 2..Len(b)
             PROVE  /\ b[i].line \in Outer /\ b[i].kind = LevelOf(Kind(b[i].line))
                    /\ i - 1 <= Len(indent_stack) => indent_stack[i - 1] = Col(b[i].line)
                    /\ \A k \in Outer : b[i].line < k /\ k < n => Col(k) > Col(b[i].line)
                    /\ \A j \in 2..Len(b) : i < j => b[i].line < b[j].line
  BY DEF LevelsFit
<1>1. \A j \in 2..Len(b) : j \in 2..B /\ j \in 1..Len(b)
  OBVIOUS
<1>2. i \in 2..B /\ b[i].kind = blocks[i].kind /\ b[i].line = blocks[i].line
  BY <1>1
<1>3. /\ blocks[i].line \in Outer /\ blocks[i].kind = LevelOf(Kind(blocks[i].line))
      /\ i - 1 <= Len(indent_stack) => indent_stack[i - 1] = Col(blocks[i].line)
      /\ \A k \in Outer : blocks[i].line < k /\ k < n => Col(k) > Col(blocks[i].line)
      /\ \A j \in 2..B : i < j => blocks[i].line < blocks[j].line
  BY <1>2 DEF LevelsFit
<1>4. \A j \in 2..Len(b) : i < j => b[i].line < b[j].line
  BY <1>1, <1>2, <1>3
<1> QED
  BY <1>2, <1>3, <1>4

\* The level of a statement that has just begun.
LEMMA LevelBegun ==
  ASSUME NEW n \in Nat \ {0}, NEW e, Reading(n, e),
         current \in Headers \cup {"open"},
         NEW kind, kind = LevelOf(current), NEW b, NEW B \in Nat, B = Len(blocks),
         Len(b) = B + 1, \A i \in 1..B : b[i] = blocks[i],
         b[B + 1].kind = kind, b[B + 1].line = n
  PROVE  LevelsFit(b, n)
<1>1. /\ n \in Outer /\ Kind(n) = current /\ B = Len(indent_stack) /\ blocks[B].line < n
      /\ Indent = Col(n)
  BY WordInBody DEF InBody
<1>2. LevelsFit(blocks, n) /\ B \in Nat \ {0}
  BY BlocksFacts, Position DEF Reading
<1>3. \A i \in 1..B : blocks[i].line < n
  <2> SUFFICES ASSUME NEW i \in 1..B PROVE blocks[i].line < n
    OBVIOUS
  <2>1. blocks[i].line \in 0..n /\ blocks[B].line \in 0..n
    BY <1>2, LevelLines
  <2>2. i < B => blocks[i].line < blocks[B].line
    BY LevelLines
  <2> QED
    BY <1>1, <2>1, <2>2
<1> SUFFICES ASSUME NEW i \in 2..(B + 1)
             PROVE  /\ b[i].line \in Outer /\ b[i].kind = LevelOf(Kind(b[i].line))
                    /\ i - 1 <= Len(indent_stack) => indent_stack[i - 1] = Col(b[i].line)
                    /\ \A k \in Outer : b[i].line < k /\ k < n => Col(k) > Col(b[i].line)
                    /\ \A j \in 2..(B + 1) : i < j => b[i].line < b[j].line
  BY DEF LevelsFit
<1>4. CASE i = B + 1
  <2>1. b[i].line = n /\ b[i].kind = LevelOf(Kind(n)) /\ i - 1 = Len(indent_stack)
    BY <1>1, <1>4
  <2>2. indent_stack[i - 1] = Col(n)
    BY <1>1, <2>1 DEF Indent
  <2>3. \A k \in Outer : k \in Nat
    <3>1. Outer \subseteq 1..Here
      BY TextFacts, Position DEF Reading
    <3> QED
      BY <3>1, Position
  <2>4. \A k \in Outer : ~(n < k /\ k < n)
    BY <2>3
  <2>5. \A j \in 2..(B + 1) : ~(i < j)
    BY <1>4
  <2> QED
    BY <1>1, <2>1, <2>2, <2>4, <2>5
<1>5. CASE i # B + 1
  <2>1. i \in 2..B /\ i \in 1..B /\ b[i] = blocks[i]
    BY <1>5
  <2>2. /\ blocks[i].line \in Outer /\ blocks[i].kind = LevelOf(Kind(blocks[i].line))
        /\ i - 1 <= Len(indent_stack) => indent_stack[i - 1] = Col(blocks[i].line)
        /\ \A k \in Outer : blocks[i].line < k /\ k < n => Col(k) > Col(blocks[i].line)
        /\ \A j \in 2..B : i < j => blocks[i].line < blocks[j].line
    BY <1>2, <2>1 DEF LevelsFit
  <2>3. \A j \in 2..(B + 1) : i < j => b[i].line < b[j].line
    <3> TAKE j \in 2..(B + 1)
    <3>1. CASE j = B + 1
      BY <1>3, <2>1, <3>1
    <3>2. CASE j # B + 1
      <4>1. j \in 2..B /\ j \in 1..B
        BY <3>2
      <4> QED
        BY <2>1, <2>2, <4>1
    <3> QED
      BY <3>1, <3>2
  <2> QED
    BY <2>1, <2>2, <2>3
<1> QED
  BY <1>4, <1>5

\* A statement on one line.
LEMMA PlainTaken ==
  ASSUME NEW n \in Nat \ {0}, NEW e, Reading(n, e), current = "plain", NEW d
  PROVE  Ready(blocks, d, n, e)
<1>1. /\ Kind(n) = "plain" /\ rest = <<e>> /\ pending_dedents = 0
      /\ InBody(blocks, n, 0) /\ ~Inner(n)
  BY WordInBody
<1>2. ~Inner(n + 1)
  BY <1>1, OpenBehind, Position DEF Reading
<1>3. InBody(blocks, n + 1, 0)
  <2>1. blocks[Len(blocks)].line \in Nat
    BY BlocksFacts DEF Reading
  <2> QED
    BY <1>1, <2>1 DEF InBody
<1>4. BehindLine(blocks, n, "colon")
  BY <1>1, <1>2, <1>3 DEF BehindLine, Headers
<1> QED
  BY <1>1, <1>4, Position DEF Ready

\* The first line of a block.
LEMMA HeaderTaken ==
  ASSUME NEW n \in Nat \ {0}, NEW e, Reading(n, e), current \in Headers, NEW d,
         NEW kind, kind = LevelOf(current), Push(Level(kind, Here, "colon")),
         NEW b, b = blocks'
  PROVE  Ready(b, d, n, e)
<1>1. PICK B \in Nat \ {0} : B = Len(blocks)
  BY BlocksFacts DEF Reading
<1>2. kind \in {"if", "head", "object"}
  BY DEF LevelOf, Headers
<1>3. n = Here /\ ParserTypes
  BY Position DEF Reading
<1>4. /\ Len(b) = B + 1 /\ \A i \in 1..B : b[i] = blocks[i]
      /\ b[B + 1].kind = kind /\ b[B + 1].line = n /\ b[B + 1].phase = "colon"
  <2>1. PICK phase \in {"colon", "key"} : phase = "colon"
    OBVIOUS
  <2>2. Push(Level(kind, Here, phase)) /\ B \in Nat /\ n \in Nat
    BY <2>1
  <2>3. /\ Len(b) = B + 1 /\ \A i \in 1..B : b[i] = blocks[i]
        /\ b[B + 1].kind = kind /\ b[B + 1].line = n /\ b[B + 1].phase = phase
    BY <1>1, <1>2, <1>3, <2>2, Pushed
  <2> QED
    BY <2>1, <2>3
<1>5. LevelsFit(b, n)
  BY <1>1, <1>4, LevelBegun
<1>6. /\ Kind(n) = current /\ rest = <<e>> /\ pending_dedents = 0 /\ B = Len(indent_stack)
  BY <1>1, WordInBody DEF InBody
<1>7. BehindLine(b, n, "colon")
  BY <1>1, <1>4, <1>6 DEF BehindLine
<1>8. Kind(n) # "cr"
  BY <1>6 DEF Headers
<1> QED
  BY <1>5, <1>6, <1>7, <1>8, Position DEF Ready

\* The line an object literal begins on.
LEMMA OpenTaken ==
  ASSUME NEW n \in Nat \ {0}, NEW e, Reading(n, e), current = "open", NEW d,
         Push(Level("object", Here, "key")), NEW b, b = blocks'
  PROVE  Ready(b, d, n, e)
<1>1. PICK B \in Nat \ {0} : B = Len(blocks)
  BY BlocksFacts DEF Reading
<1>3. n = Here /\ ParserTypes /\ LexerTypes
  BY Position DEF Reading
<1>4. /\ Len(b) = B + 1 /\ \A i \in 1..B : b[i] = blocks[i]
      /\ b[B + 1].kind = "object" /\ b[B + 1].line = n /\ b[B + 1].phase = "key"
  BY <1>1, <1>3, Pushed
<1>5. LevelsFit(b, n)
  <2>1. LevelOf(current) = "object"
    BY DEF LevelOf
  <2> QED
    BY <1>1, <1>4, <2>1, LevelBegun
<1>6. /\ Kind(n) = "open" /\ rest = <<e>> /\ pending_dedents = 0 /\ B = Len(indent_stack)
  BY <1>1, WordInBody DEF InBody
<1>7. OpensAt(n, n + 1) /\ Inner(n + 1)
  <2>1. n \in 1..n
    OBVIOUS
  <2> QED
    BY <1>3, <1>6, <2>1, OpenBehind
<1>8. Last(EntriesOf(n + 1)) = n
  BY <1>6, NewestEntry
<1>9. InObject(b, n + 1)
  BY <1>1, <1>4, <1>6, <1>7, <1>8 DEF InObject
<1>10. BehindLine(b, n, "colon")
  BY <1>6, <1>7, <1>9 DEF BehindLine, Headers
<1> QED
  BY <1>5, <1>6, <1>10, Position DEF Ready

\* An entry of an object literal.
LEMMA EntryTaken ==
  ASSUME NEW n \in Nat \ {0}, NEW e, Reading(n, e), Top.phase = "key",
         current \in {"more", "last"}, NEW d,
         TopBecomes(IF current = "more" THEN "key" ELSE "end"), NEW b, b = blocks'
  PROVE  Ready(b, d, n, e)
<1>1. PICK B \in Nat \ {0} : B = Len(blocks)
  BY BlocksFacts DEF Reading
<1>2. PICK phase \in {"indent", "body", "key", "end"} :
        phase = IF current = "more" THEN "key" ELSE "end"
  OBVIOUS
<1>3. n = Here /\ ParserTypes /\ LexerTypes
  BY Position DEF Reading
<1>4. /\ Len(b) = B /\ \A i \in 1..B : i # B => b[i] = blocks[i]
      /\ b[B].kind = blocks[B].kind /\ b[B].line = blocks[B].line /\ b[B].phase = phase
  <2>1. TopBecomes(phase)
    BY <1>2
  <2> QED
    BY <1>1, <1>3, <2>1, Turned
<1>5. LevelsFit(b, n)
  <2>1. \A i \in 1..B : b[i].kind = blocks[i].kind /\ b[i].line = blocks[i].line
    BY <1>4
  <2> QED
    BY <1>1, <1>4, <2>1, LevelsLeft, Position
<1>6. AtWord(blocks, d, n, e) \/ AtWord(blocks, dangling, n, e)
  <2>1. current \in Words /\ current # "close"
    BY DEF Words, Kinds, Headers
  <2> QED
    BY <2>1, Position
<1>7. /\ pending_dedents = 0 /\ BeforeLine(blocks, n, 0)
      /\ \/ current = Kind(n) /\ rest = <<e>>
         \/ Kind(n) = "lastclose" /\ current = "last" /\ rest = <<"close", e>>
  BY <1>6 DEF AtWord
<1>8. Inner(n)
  BY <1>7, LineKinds, Position
<1>9. /\ B # 1 /\ OpensAt(blocks[B].line, n) /\ B - 1 <= Len(indent_stack)
  BY <1>1, <1>7, <1>8 DEF BeforeLine, InObject
<1>10. blocks[B].line \in 1..(n - 1)
  <2>1. /\ blocks[B].line \in Outer /\ blocks[B].line \in 1..n
    BY <1>1, <1>3, <1>9, TopOfObject, Position, BlocksFacts
  <2>2. blocks[B].line < n
    BY <1>9 DEF OpensAt
  <2> QED
    BY <2>1, <2>2
<1>11. CASE current = Kind(n) /\ rest = <<e>>
  <2>1. Inner(n + 1) /\ OpensAt(blocks[B].line, n + 1)
    <3>1. blocks[B].line \in 1..n
      BY <1>10
    <3> QED
      BY <1>3, <1>8, <1>9, <1>10, <1>11, <3>1, OpenBehind
  <2>2. Last(EntriesOf(n + 1)) = n
    BY <1>11, NewestEntry
  <2>3. InObject(b, n + 1)
    BY <1>1, <1>2, <1>4, <1>9, <1>11, <2>1, <2>2 DEF InObject
  <2>4. BehindLine(b, n, "colon")
    BY <1>11, <2>1, <2>3 DEF BehindLine, Headers
  <2>5. Kind(n) # "cr"
    BY <1>11
  <2> QED
    BY <1>5, <1>7, <1>11, <2>4, <2>5, Position DEF Ready
<1>12. CASE Kind(n) = "lastclose" /\ current = "last" /\ rest = <<"close", e>>
  <2>1. AtClose(b, n)
    BY <1>1, <1>2, <1>4, <1>9, <1>12 DEF AtClose
  <2> QED
    BY <1>5, <1>7, <1>12, <2>1, Position DEF Ready
<1> QED
  BY <1>7, <1>11, <1>12

\* The brace that ends an object literal.
LEMMA CloseTaken ==
  ASSUME NEW n \in Nat \ {0}, NEW e, Reading(n, e), Top.kind = "object", Top.phase = "end",
         current = "close", NEW d, Pop, NEW b, b = blocks'
  PROVE  Ready(b, d, n, e)
<1>1. PICK B \in Nat \ {0} : B = Len(blocks)
  BY BlocksFacts DEF Reading
<1>2. /\ n = Here /\ ParserTypes /\ LexerTypes /\ TokensBalance /\ PhasesFit(blocks)
      /\ LevelsFit(blocks, n) /\ Descent(blocks)
  BY Position, BlocksFacts DEF Reading
<1>3. /\ B - 1 \in 1..B /\ Len(b) = B - 1 /\ \A i \in 1..(B - 1) : b[i] = blocks[i]
  BY <1>1, <1>2, Popped
<1>4. LevelsFit(b, n)
  BY <1>1, <1>2, <1>3, LevelsLeft
<1>5. /\ pending_dedents = 0 /\ rest = <<e>> /\ Kind(n) \in {"close", "lastclose"}
      /\ B # 1 /\ OpensAt(blocks[B].line, n) /\ B - 1 <= Len(indent_stack)
  <2>1. CASE Kind(n) = "lastclose"
    <3>1. AtBrace(blocks, n, e)
      BY <2>1, Position
    <3> QED
      BY <1>1, <2>1, <3>1 DEF AtBrace, AtClose
  <2>2. CASE Kind(n) # "lastclose"
    <3>1. AtWord(blocks, dangling, n, e)
      <4>1. current \in Words
        BY DEF Words, Kinds, Headers
      <4> QED
        BY <2>2, <4>1, Position
    <3>2. pending_dedents = 0 /\ BeforeLine(blocks, n, 0) /\ rest = <<e>> /\ Kind(n) = "close"
      BY <2>2, <3>1 DEF AtWord
    <3>3. Inner(n)
      BY <3>2, LineKinds, Position
    <3> QED
      BY <1>1, <3>2, <3>3 DEF BeforeLine, InObject
  <2> QED
    BY <2>1, <2>2
<1>6. PICK o \in 1..(n - 1) : o = blocks[B].line /\ OpensAt(o, n)
  <2>1. blocks[B].line \in 1..n
    BY <1>1, <1>2, <1>5, TopOfObject
  <2>2. blocks[B].line < n
    BY <1>5 DEF OpensAt
  <2> QED
    BY <1>5, <2>1, <2>2
<1>7. B - 1 = Len(indent_stack)
  <2>1. PICK N \in Nat : N = Len(indent_stack) /\ Rises(indent_stack)
    BY <1>2, LevelsRise, StackFacts
  <2>2. PICK k \in 1..N : indent_stack[k] = Col(o) /\ k = N
    BY <1>5, <1>6, <2>1, Position DEF ColumnsFit
  <2>3. B \in 2..B /\ B - 1 \in 1..N
    BY <1>5, <2>1
  <2>4. indent_stack[B - 1] = Col(o)
    BY <1>1, <1>2, <1>5, <1>6, <2>3 DEF LevelsFit
  <2> QED
    BY <2>1, <2>2, <2>3, <2>4, OnePlaceEach
<1>8. ~Inner(n + 1)
  BY <1>2, <1>5, OpenBehind
<1>9. b[B - 1].phase = "body" /\ b[B - 1].line < n + 1
  <2>1. B - 1 \in 1..B /\ B - 1 \in 1..(B - 1) /\ B - 1 < B
    BY <1>3
  <2>2. b[B - 1] = blocks[B - 1] /\ blocks[B - 1].phase = "body"
    BY <1>1, <1>2, <1>3, <2>1 DEF PhasesFit
  <2>3. blocks[B - 1].line \in 0..n
    BY <1>1, <2>1, LevelLines
  <2> QED
    BY <2>2, <2>3
<1>10. BehindLine(b, n, "colon")
  <2>1. InBody(b, n + 1, 0)
    BY <1>1, <1>3, <1>7, <1>9 DEF InBody
  <2> QED
    BY <1>5, <1>8, <2>1 DEF BehindLine, Headers
<1>11. Kind(n) # "cr"
  BY <1>5
<1> QED
  BY <1>4, <1>5, <1>10, <1>11, Position DEF Ready

\* The newline behind a colon.
LEMMA NewlineTaken ==
  ASSUME NEW n \in Nat \ {0}, NEW e, Reading(n, e), Top.phase = "colon",
         current = "NEWLINE", NEW d, TopBecomes("indent"), NEW b, b = blocks'
  PROVE  Ready(b, d, n, e)
<1>1. PICK B \in Nat \ {0} : B = Len(blocks)
  BY BlocksFacts DEF Reading
<1>2. ParserTypes /\ blocks[B].phase = "colon"
  BY <1>1 DEF Reading, Top
<1>3. /\ Len(b) = B /\ \A i \in 1..B : i # B => b[i] = blocks[i]
      /\ b[B].kind = blocks[B].kind /\ b[B].line = blocks[B].line /\ b[B].phase = "indent"
  <2>1. PICK phase \in {"indent", "body", "key", "end"} : phase = "indent"
    OBVIOUS
  <2>2. TopBecomes(phase)
    BY <2>1
  <2>3. /\ Len(b) = B /\ \A i \in 1..B : i # B => b[i] = blocks[i]
        /\ b[B].kind = blocks[B].kind /\ b[B].line = blocks[B].line /\ b[B].phase = phase
    BY <1>1, <1>2, <2>2, Turned
  <2> QED
    BY <2>1, <2>3
<1>4. LevelsFit(b, n)
  <2>1. \A i \in 1..B : b[i].kind = blocks[i].kind /\ b[i].line = blocks[i].line
    BY <1>3
  <2> QED
    BY <1>1, <1>3, <2>1, LevelsLeft, Position
<1>5. AtNewline(blocks, n, e)
  BY Position
<1>6. Kind(n) \in Headers
  <2>1. BehindLine(blocks, n, "colon")
    BY <1>5 DEF AtNewline
  <2>2. ~InObject(blocks, n + 1) /\ ~InBody(blocks, n + 1, 0)
    BY <1>1, <1>2 DEF InObject, InBody
  <2> QED
    BY <2>1, <2>2 DEF BehindLine
<1>7. B - 1 = Len(indent_stack) /\ blocks[B].line = n
  BY <1>1, <1>5, <1>6 DEF AtNewline, BehindLine
<1>8. BehindLine(b, n, "indent")
  BY <1>3, <1>6, <1>7 DEF BehindLine
<1>9. pending_dedents = 0 /\ e = "NEWLINE" /\ rest = <<>>
  BY <1>5 DEF AtNewline
<1> QED
  BY <1>4, <1>8, <1>9, Position DEF Ready

\* The INDENT below a header.
LEMMA IndentTaken ==
  ASSUME NEW n \in Nat \ {0}, NEW e, Reading(n, e), Top.phase = "indent",
         current = "INDENT", NEW d, TopBecomes("body"), NEW b, b = blocks'
  PROVE  Ready(b, d, n, e)
<1>1. PICK B \in Nat \ {0} : B = Len(blocks)
  BY BlocksFacts DEF Reading
<1>2. ParserTypes /\ blocks[B].phase = "indent"
  BY <1>1 DEF Reading, Top
<1>3. /\ Len(b) = B /\ \A i \in 1..B : i # B => b[i] = blocks[i]
      /\ b[B].kind = blocks[B].kind /\ b[B].line = blocks[B].line /\ b[B].phase = "body"
  <2>1. PICK phase \in {"indent", "body", "key", "end"} : phase = "body"
    OBVIOUS
  <2>2. TopBecomes(phase)
    BY <2>1
  <2>3. /\ Len(b) = B /\ \A i \in 1..B : i # B => b[i] = blocks[i]
        /\ b[B].kind = blocks[B].kind /\ b[B].line = blocks[B].line /\ b[B].phase = phase
    BY <1>1, <1>2, <2>2, Turned
  <2> QED
    BY <2>1, <2>3
<1>4. LevelsFit(b, n)
  <2>1. \A i \in 1..B : b[i].kind = blocks[i].kind /\ b[i].line = blocks[i].line
    BY <1>3
  <2> QED
    BY <1>1, <1>3, <2>1, LevelsLeft, Position
<1>5. AtIndent(blocks, n, e)
  BY Position
<1>6. ~Inner(n) /\ UnderHeader(blocks, n)
  <2>1. ~InObject(blocks, n)
    BY <1>1, <1>2 DEF InObject
  <2> QED
    BY <1>5, <2>1 DEF AtIndent
<1>7. /\ B = Len(indent_stack) /\ blocks[B].line < n /\ Kind(n) \notin {"elif", "else"}
  BY <1>1, <1>6 DEF UnderHeader
<1>8. pending_dedents = 0 /\ rest = Whole(e, n)
  BY <1>5 DEF AtIndent
<1>9. BeforeLine(b, n, pending_dedents) /\ ElseFits(d, n)
  <2>1. B = Len(indent_stack) + pending_dedents
    BY <1>7, <1>8
  <2> QED
    BY <1>3, <1>6, <1>7, <2>1 DEF BeforeLine, InBody, ElseFits
<1> QED
  BY <1>4, <1>8, <1>9, Position DEF Ready

\* An else that follows the block of a level goes with the line of the level.
LEMMA JoinsTop ==
  ASSUME NEW n \in Nat \ {0}, NEW e, Reading(n, e), ~Inner(n), NEW t \in Outer, t < n,
         Indent = Col(t), Kind(n) \in {"elif", "else"},
         \A k \in Outer : t < k /\ k < n => Col(k) > Col(t)
  PROVE  t \in Joinable(n) /\ \A j \in Joinable(n) : j = t
<1>1. n = Here /\ LexerTypes /\ Regular(n)
  BY Position DEF Reading
<1>2. n \in Outer /\ Outer \subseteq 1..n /\ \A k \in Outer : Col(k) \in Nat
  <2>1. n \in 1..Here
    BY <1>1
  <2>2. n \in Outer
    BY <2>1 DEF Outer, Here
  <2>3. Outer \subseteq 1..n /\ \A i \in 1..n : Col(i) \in Nat
    BY <1>1, TextFacts
  <2> QED
    BY <2>2, <2>3
<1>3. Col(n) = Col(t)
  BY <1>2, Position DEF ColumnsFit
<1>4. PICK j : j \in Joinable(n)
  BY <1>1, LineKinds
<1>5. \A i \in Joinable(n) : i = t
  <2> TAKE i \in Joinable(n)
  <2>1. /\ i \in Outer /\ i < n /\ Col(i) = Col(n)
        /\ \A k \in Before(n) : k > i => Col(k) > Col(n)
    BY DEF Joinable, Before
  <2>2. t \in Before(n)
    BY DEF Before
  <2>3. i \in Nat /\ t \in Nat /\ Col(n) \in Nat
    BY <1>2, <2>1
  <2>4. ~(t > i)
    BY <1>3, <2>1, <2>2, <2>3
  <2>5. ~(t < i)
    BY <1>3, <2>1, <2>3
  <2> QED
    BY <2>3, <2>4, <2>5
<1> QED
  BY <1>4, <1>5

\* The DEDENT that ends a block.
LEMMA DedentTaken ==
  ASSUME NEW n \in Nat \ {0}, NEW e, Reading(n, e), Top.phase = "body", Top.kind # "program",
         current = "DEDENT", Pop, NEW b, b = blocks',
         NEW d, d = IF Top.kind = "if" THEN Top.line ELSE 0
  PROVE  Ready(b, d, n, e)
<1>1. PICK B \in Nat \ {0} : B = Len(blocks)
  BY BlocksFacts DEF Reading
<1>2. PICK N \in Nat, p \in Nat : N = Len(indent_stack) /\ p = pending_dedents
  BY StackFacts DEF Reading, LexerTypes
<1>3. /\ n = Here /\ ParserTypes /\ LexerTypes /\ PhasesFit(blocks)
      /\ LevelsFit(blocks, n) /\ Descent(blocks) /\ blocks[B].phase = "body"
  BY <1>1, Position, BlocksFacts DEF Reading, Top
<1>4. /\ B - 1 \in 1..B /\ Len(b) = B - 1 /\ \A i \in 1..(B - 1) : b[i] = blocks[i]
  BY <1>1, <1>3, Popped
<1>5. LevelsFit(b, n)
  BY <1>1, <1>3, <1>4, LevelsLeft
<1>6. AtDedent(blocks, n, e)
  BY Position
<1>7. ~Inner(n) /\ InBody(blocks, n, p + 1)
  <2>1. ~InObject(blocks, n)
    BY <1>1, <1>3 DEF InObject
  <2> QED
    BY <1>2, <1>6, <2>1 DEF AtDedent, BeforeLine
<1>8. B = N + (p + 1) /\ blocks[B].line < n
  BY <1>1, <1>2, <1>7 DEF InBody
<1>9. b[B - 1].phase = "body" /\ b[B - 1].line < n
  <2>1. B - 1 \in 1..B /\ B - 1 \in 1..(B - 1) /\ B - 1 < B
    BY <1>4
  <2>2. b[B - 1] = blocks[B - 1] /\ blocks[B - 1].phase = "body"
    BY <1>1, <1>3, <1>4, <2>1 DEF PhasesFit
  <2>3. blocks[B - 1].line \in 0..n /\ blocks[B].line \in 0..n
    BY <1>1, <2>1, LevelLines
  <2>4. blocks[B - 1].line < blocks[B].line
    BY <1>1, <2>1, LevelLines
  <2> QED
    BY <1>8, <2>2, <2>3, <2>4
<1>10. BeforeLine(b, n, pending_dedents)
  <2>1. Len(b) = Len(indent_stack) + pending_dedents
    BY <1>2, <1>4, <1>8
  <2> QED
    BY <1>4, <1>7, <1>9, <2>1 DEF BeforeLine, InBody
<1>11. ASSUME pending_dedents = 0 PROVE ElseFits(d, n)
  <2> SUFFICES ASSUME Kind(n) \in {"elif", "else"} PROVE d \in Joinable(n)
    BY DEF ElseFits
  <2>1. B - 1 = N /\ B \in 2..B
    BY <1>2, <1>4, <1>8, <1>11
  <2>2. PICK t \in Outer : t = blocks[B].line
    BY <1>1, <1>3, <2>1 DEF LevelsFit
  <2>3. /\ blocks[B].kind = LevelOf(Kind(t)) /\ Indent = Col(t)
        /\ \A k \in Outer : t < k /\ k < n => Col(k) > Col(t)
    <3>1. /\ blocks[B].kind = LevelOf(Kind(t))
          /\ B - 1 <= Len(indent_stack) => indent_stack[B - 1] = Col(t)
          /\ \A k \in Outer : t < k /\ k < n => Col(k) > Col(t)
      BY <1>1, <1>3, <2>1, <2>2 DEF LevelsFit
    <3>2. indent_stack[B - 1] = Col(t)
      BY <1>2, <2>1, <3>1
    <3> QED
      BY <1>2, <2>1, <3>1, <3>2 DEF Indent
  <2>4. t \in Joinable(n)
    BY <1>7, <1>8, <2>2, <2>3, JoinsTop
  <2>5. Kind(t) \in {"if", "elif"}
    BY <2>4 DEF Joinable, Kind
  <2>6. Top.kind = "if" /\ Top.line = t
    BY <1>1, <2>2, <2>3, <2>5 DEF LevelOf, Top
  <2> QED
    BY <2>4, <2>6
<1>12. rest = Whole(e, n)
  BY <1>6 DEF AtDedent
<1> QED
  BY <1>5, <1>10, <1>11, <1>12, Position DEF Ready

\* A token that is skipped: those of lines in an object literal, and the
\* newline at the end of a statement.
LEMMA TokenSkipped ==
  ASSUME NEW n \in Nat \ {0}, NEW e, Reading(n, e), current \in Skipped, NEW d
  PROVE  Ready(blocks, d, n, e)
<1>1. PICK B \in Nat \ {0} : B = Len(blocks)
  BY BlocksFacts DEF Reading
<1>2. /\ PhasesFit(blocks) /\ Top = blocks[B] /\ Len(indent_stack) \in Nat \ {0}
      /\ pending_dedents \in Nat /\ LexerTypes
      /\ blocks[B].kind = "program" <=> B = 1
      /\ blocks[B].kind = "object" <=> blocks[B].phase \in {"key", "end"}
      /\ B = 1 => blocks[B].phase = "body"
  <2>1. PhasesFit(blocks) /\ LexerTypes /\ ParserTypes
    BY DEF Reading
  <2>2. B \in 1..B
    BY <1>1
  <2>3. /\ blocks[B].kind = "program" <=> B = 1
        /\ Top = blocks[B]
    BY <1>1, <2>1, <2>2, BlocksFacts
  <2>4. blocks[B].kind = "object" <=> blocks[B].phase \in {"key", "end"}
    BY <1>1, <2>1, <2>2 DEF PhasesFit
  <2>5. B = 1 => blocks[B].phase = "body"
    BY <2>1 DEF PhasesFit
  <2>6. Len(indent_stack) \in Nat \ {0} /\ pending_dedents \in Nat
    BY <2>1, StackFacts DEF LexerTypes
  <2> QED
    BY <2>1, <2>3, <2>4, <2>5, <2>6
<1>3. /\ current \in Layout
      /\ \/ Top.kind \in {"program", "object"}
         \/ Top.phase = "body" /\ current # "DEDENT"
  BY DEF Skipped, Layout
<1>4. ASSUME Inner(n) PROVE ElseFits(d, n)
  BY <1>4, LineKinds, Position DEF ElseFits
<1>5. CASE current = "INDENT"
  <2>1. AtIndent(blocks, n, e)
    BY <1>5, Position
  <2>2. Inner(n) /\ InObject(blocks, n)
    <3>1. ~UnderHeader(blocks, n)
      BY <1>1, <1>2, <1>3 DEF UnderHeader
    <3> QED
      BY <2>1, <3>1 DEF AtIndent
  <2>3. BeforeLine(blocks, n, pending_dedents) /\ rest = Whole(e, n)
    BY <2>1, <2>2 DEF BeforeLine, AtIndent
  <2> QED
    BY <1>4, <2>2, <2>3, Position DEF Ready
<1>6. CASE current = "DEDENT"
  <2>1. AtDedent(blocks, n, e)
    BY <1>6, Position
  <2>2. Inner(n) /\ InObject(blocks, n)
    <3>1. ~InBody(blocks, n, pending_dedents + 1)
      BY <1>1, <1>2, <1>3, <1>6 DEF InBody
    <3> QED
      BY <2>1, <3>1 DEF AtDedent, BeforeLine
  <2>3. BeforeLine(blocks, n, pending_dedents) /\ rest = Whole(e, n)
    BY <2>1, <2>2 DEF BeforeLine, AtDedent
  <2> QED
    BY <1>4, <2>2, <2>3, Position DEF Ready
<1>7. CASE current = "NEWLINE"
  <2>1. AtNewline(blocks, n, e)
    BY <1>7, Position
  <2>2. /\ pending_dedents = 0 /\ rest = <<>> /\ e = "NEWLINE"
        /\ BehindLine(blocks, n, "colon")
    BY <2>1 DEF AtNewline
  <2>3. Kind(n) \notin Headers
    <3>1. blocks[B].phase # "colon"
      BY <1>2, <1>3
    <3> QED
      BY <1>1, <2>2, <3>1 DEF BehindLine
  <2>4. BehindLine(blocks, n, "indent")
    BY <2>2, <2>3 DEF BehindLine
  <2> QED
    BY <2>2, <2>4, Position DEF Ready
<1> QED
  BY <1>3, <1>5, <1>6, <1>7 DEF Layout

\* The steps that take a token.
Takes ==
  \/ Skip \/ Plain \/ Header \/ ElseHeader \/ BlockNewline \/ BlockIndent
  \/ EndBlock \/ OpenObject \/ Entry \/ CloseObject

LEMMA TakesToken ==
  ASSUME Takes
  PROVE  Parsing /\ NextToken /\ current \in Words \cup Layout /\ current # "EOF"
<1>1. /\ {"plain", "if", "head", "elif", "else", "open", "more", "last", "close"} \subseteq Words
      /\ "EOF" \notin Words \cup Layout
      /\ Layout = {"NEWLINE", "INDENT", "DEDENT"}
  BY DEF Words, Kinds, Headers, Layout
<1>2. CASE Skip
  <2>1. Skipped \subseteq Layout
    BY DEF Skipped, Layout
  <2> QED
    BY <1>1, <1>2, <2>1 DEF Skip
<1>3. CASE Plain \/ Header \/ ElseHeader \/ OpenObject
  BY <1>1, <1>3 DEF Plain, Header, ElseHeader, OpenObject, AtStatement
<1>4. CASE BlockNewline \/ BlockIndent \/ EndBlock \/ Entry \/ CloseObject
  BY <1>1, <1>4 DEF BlockNewline, BlockIndent, EndBlock, Entry, CloseObject, AtStatement
<1> QED
  BY <1>2, <1>3, <1>4 DEF Takes

LEMMA TokenTaken ==
  ASSUME NEW n \in Nat \ {0}, NEW e, Reading(n, e), Takes, NEW b, b = blocks', NEW d, d = dangling'
  PROVE  Ready(b, d, n, e)
<1>1. CASE Skip
  BY <1>1, TokenSkipped DEF Skip
<1>2. CASE Plain
  BY <1>2, PlainTaken DEF Plain
<1>3. CASE Header
  <2>1. PICK kind : kind = LevelOf(current) /\ kind = current
    BY <1>3 DEF Header, LevelOf
  <2>2. current \in Headers /\ Push(Level(kind, Here, "colon"))
    BY <1>3, <2>1 DEF Header, Headers
  <2> QED
    BY <2>1, <2>2, HeaderTaken
<1>4. CASE ElseHeader
  <2>1. PICK kind : kind = LevelOf(current) /\ kind = IF current = "elif" THEN "if" ELSE "head"
    BY <1>4 DEF ElseHeader, LevelOf
  <2>2. current \in Headers /\ Push(Level(kind, Here, "colon"))
    BY <1>4, <2>1 DEF ElseHeader, Headers
  <2> QED
    BY <2>1, <2>2, HeaderTaken
<1>5. CASE BlockNewline
  BY <1>5, NewlineTaken DEF BlockNewline
<1>6. CASE BlockIndent
  BY <1>6, IndentTaken DEF BlockIndent
<1>7. CASE EndBlock
  <2>1. /\ Top.phase = "body" /\ Top.kind # "program" /\ current = "DEDENT" /\ Pop
        /\ d = IF Top.kind = "if" THEN Top.line ELSE 0
    BY <1>7 DEF EndBlock, AtStatement
  <2> QED
    BY <2>1, DedentTaken
<1>8. CASE OpenObject
  BY <1>8, OpenTaken DEF OpenObject
<1>9. CASE Entry
  BY <1>9, EntryTaken DEF Entry
<1>10. CASE CloseObject
  BY <1>10, CloseTaken DEF CloseObject
<1> QED
  BY <1>1, <1>2, <1>3, <1>4, <1>5, <1>6, <1>7, <1>8, <1>9, <1>10 DEF Takes

\* The parser behind the last line.
LEMMA TakenAtEnd ==
  ASSUME LexerTypes, ParserTypes, PhasesFit(blocks), AtEnd(blocks), Takes, NEW b, b = blocks'
  PROVE  ReadyEnd(b)
<1>1. PICK B \in Nat \ {0} : B = Len(blocks)
  BY BlocksFacts
<1>2. PICK N \in Nat \ {0}, p \in Nat : N = Len(indent_stack) /\ p = pending_dedents
  BY StackFacts DEF LexerTypes
<1>3. /\ Top = blocks[B] /\ B \in 1..B
      /\ blocks[B].kind = "program" <=> B = 1
      /\ blocks[B].kind = "object" <=> blocks[B].phase \in {"key", "end"}
  BY <1>1, BlocksFacts DEF PhasesFit
<1>4. current \in {"INDENT", "DEDENT"}
  <2>1. "GARBAGE" \notin Words \cup Layout
    BY DEF Words, Kinds, Headers, Layout
  <2> QED
    BY <2>1, TakesToken DEF AtEnd
<1>5. ended # "no" /\ rest \in {<<"NUL">>, <<"PAST">>}
  BY DEF AtEnd
<1> SUFFICES ASSUME Complete
             PROVE  /\ b[Len(b)].phase = "body"
                    /\ Len(b) <= Len(indent_stack) + pending_dedents
  BY <1>5 DEF ReadyEnd
<1>6. /\ blocks[B].phase = "body"
      /\ current = "DEDENT" => B <= N + p + 1
      /\ current # "DEDENT" => B <= N + p
  BY <1>1, <1>2 DEF AtEnd
<1>7. CASE Skip
  <2>1. current \in Skipped /\ b = blocks
    BY <1>7 DEF Skip
  <2>2. current = "DEDENT" => B = 1
    BY <1>3, <1>6, <2>1 DEF Skipped
  <2>3. B <= N + p
    BY <1>2, <1>4, <1>6, <2>2
  <2> QED
    BY <1>1, <1>2, <1>6, <2>1, <2>3
<1>8. CASE EndBlock
  <2>1. Pop /\ Top.kind # "program" /\ current = "DEDENT"
    BY <1>8 DEF EndBlock
  <2>2. B - 1 \in 1..B /\ Len(b) = B - 1 /\ \A i \in 1..(B - 1) : b[i] = blocks[i]
    BY <1>1, <2>1, Popped
  <2>3. B - 1 \in 1..(B - 1) /\ B - 1 < B
    BY <2>2
  <2>4. b[B - 1].phase = "body"
    BY <1>1, <2>2, <2>3 DEF PhasesFit
  <2> QED
    BY <1>2, <1>6, <2>1, <2>2, <2>4
<1>9. ~BlockIndent
  BY <1>3, <1>6 DEF BlockIndent
<1>10. ~(Plain \/ Header \/ ElseHeader \/ OpenObject \/ Entry \/ CloseObject \/ BlockNewline)
  BY <1>4 DEF Plain, Header, ElseHeader, OpenObject, Entry, CloseObject, BlockNewline
<1> QED
  BY <1>7, <1>8, <1>9, <1>10 DEF Takes

LEMMA PhasesStay ==
  ASSUME LexerTypes, ParserTypes, PhasesFit(blocks), [Next]_vars
  PROVE  PhasesFit(blocks)'
<1> DEFINE Fit(b) ==
      /\ b[1].phase = "body" /\ b[1].line = 0
      /\ \A i \in 1..Len(b) :
           /\ i < Len(b) => b[i].phase = "body"
           /\ b[i].kind = "object" <=> b[i].phase \in {"key", "end"}
<1>1. PICK B \in Nat \ {0} : B = Len(blocks)
  BY BlocksFacts
<1>2. PICK b : b = blocks'
  OBVIOUS
<1>3. Fit(b) => PhasesFit(blocks)'
  BY <1>2 DEF PhasesFit
<1> HIDE DEF Fit
<1>4. /\ \A i \in 1..B : /\ i < B => blocks[i].phase = "body"
                         /\ blocks[i].kind = "object" <=> blocks[i].phase \in {"key", "end"}
      /\ blocks[1].phase = "body" /\ blocks[1].line = 0 /\ 1 \in 1..B /\ B \in 1..B
      /\ Top = blocks[B]
      /\ blocks[B].kind = "program" <=> B = 1
  <2>1. 1 \in 1..B /\ B \in 1..B
    BY <1>1
  <2>2. \A i \in 1..B : /\ i < B => blocks[i].phase = "body"
                        /\ blocks[i].kind = "object" <=> blocks[i].phase \in {"key", "end"}
    BY <1>1 DEF PhasesFit
  <2>3. blocks[B].kind = "program" <=> B = 1
    BY <1>1, <2>1, BlocksFacts
  <2>4. Top = blocks[B]
    BY <1>1 DEF Top
  <2>5. blocks[1].phase = "body" /\ blocks[1].line = 0
    BY DEF PhasesFit
  <2> QED
    BY <2>1, <2>2, <2>3, <2>4, <2>5
<1>5. CASE UNCHANGED blocks
  <2>1. b = blocks
    BY <1>2, <1>5
  <2>2. Fit(b)
    BY <1>1, <1>4, <2>1 DEF Fit
  <2> QED
    BY <1>3, <2>2
<1>6. ASSUME NEW kind \in {"if", "head", "object"}, NEW phase \in {"colon", "key"},
             Push(Level(kind, Here, phase)), Top.phase = "body",
             kind = "object" <=> phase = "key"
      PROVE  PhasesFit(blocks)'
  <2>1. PICK n \in Nat : n = Here
    BY TextFacts
  <2>2. /\ Len(b) = B + 1 /\ \A i \in 1..B : b[i] = blocks[i]
        /\ b[B + 1].kind = kind /\ b[B + 1].phase = phase
    BY <1>1, <1>2, <1>6, <2>1, Pushed
  <2>3. b[1] = blocks[1]
    BY <1>4, <2>2
  <2>4. ASSUME NEW i \in 1..(B + 1)
        PROVE  /\ i < B + 1 => b[i].phase = "body"
               /\ b[i].kind = "object" <=> b[i].phase \in {"key", "end"}
    <3>1. CASE i = B + 1
      BY <1>6, <2>2, <3>1
    <3>2. CASE i # B + 1
      <4>1. i \in 1..B /\ b[i] = blocks[i] /\ (i # B => i < B)
        BY <2>2, <3>2
      <4>2. blocks[i].phase = "body"
        BY <1>4, <1>6, <4>1
      <4> QED
        BY <1>4, <4>1, <4>2
    <3> QED
      BY <3>1, <3>2
  <2>5. Fit(b)
    BY <1>4, <2>2, <2>3, <2>4 DEF Fit
  <2> QED
    BY <1>3, <2>5
<1>7. ASSUME Pop, Top.kind # "program" PROVE PhasesFit(blocks)'
  <2>1. B - 1 \in 1..B /\ Len(b) = B - 1 /\ \A i \in 1..(B - 1) : b[i] = blocks[i]
    BY <1>1, <1>2, <1>7, Popped
  <2>2. 1 \in 1..(B - 1) /\ b[1] = blocks[1]
    BY <2>1
  <2>3. ASSUME NEW i \in 1..(B - 1)
        PROVE  /\ i < B - 1 => b[i].phase = "body"
               /\ b[i].kind = "object" <=> b[i].phase \in {"key", "end"}
    <3>1. i \in 1..B /\ i < B /\ b[i] = blocks[i]
      BY <2>1
    <3> QED
      BY <1>4, <3>1
  <2>4. Fit(b)
    BY <1>4, <2>1, <2>2, <2>3 DEF Fit
  <2> QED
    BY <1>3, <2>4
<1>8. ASSUME NEW phase \in {"indent", "body", "key", "end"}, TopBecomes(phase),
             Top.phase # "body", Top.kind = "object" <=> phase \in {"key", "end"}
      PROVE  PhasesFit(blocks)'
  <2>1. /\ Len(b) = B /\ \A i \in 1..B : i # B => b[i] = blocks[i]
        /\ b[B].kind = blocks[B].kind /\ b[B].phase = phase
    BY <1>1, <1>2, <1>8, Turned
  <2>2. B # 1
    BY <1>4, <1>8
  <2>3. b[1] = blocks[1]
    BY <1>4, <2>1, <2>2
  <2>4. ASSUME NEW i \in 1..B
        PROVE  /\ i < B => b[i].phase = "body"
               /\ b[i].kind = "object" <=> b[i].phase \in {"key", "end"}
    <3>1. CASE i = B
      BY <1>4, <1>8, <2>1, <3>1
    <3>2. CASE i # B
      BY <1>4, <2>1, <3>2
    <3> QED
      BY <3>1, <3>2
  <2>5. Fit(b)
    BY <1>4, <2>1, <2>3, <2>4 DEF Fit
  <2> QED
    BY <1>3, <2>5
<1>9. CASE FirstToken \/ Skip \/ Plain \/ Accept \/ ParseError \/ UNCHANGED vars
  BY <1>5, <1>9 DEF FirstToken, parser, Skip, Plain, Accept, ParseError, vars
<1>10. CASE Header
  <2>1. PICK kind \in {"if", "head", "object"}, phase \in {"colon", "key"} :
          kind = current /\ phase = "colon" /\ kind # "object"
    BY <1>10 DEF Header
  <2>2. Push(Level(kind, Here, phase)) /\ Top.phase = "body"
    BY <1>10, <2>1 DEF Header, AtStatement
  <2> QED
    BY <1>6, <2>1, <2>2
<1>11. CASE ElseHeader
  <2>1. PICK kind \in {"if", "head", "object"}, phase \in {"colon", "key"} :
          /\ kind = IF current = "elif" THEN "if" ELSE "head"
          /\ phase = "colon" /\ kind # "object"
    BY <1>11 DEF ElseHeader
  <2>2. Push(Level(kind, Here, phase)) /\ Top.phase = "body"
    BY <1>11, <2>1 DEF ElseHeader, AtStatement
  <2> QED
    BY <1>6, <2>1, <2>2
<1>12. CASE OpenObject
  <2>1. PICK kind \in {"if", "head", "object"}, phase \in {"colon", "key"} :
          kind = "object" /\ phase = "key"
    OBVIOUS
  <2>2. Push(Level(kind, Here, phase)) /\ Top.phase = "body"
    BY <1>12, <2>1 DEF OpenObject, AtStatement
  <2> QED
    BY <1>6, <2>1, <2>2
<1>13. CASE EndBlock
  BY <1>7, <1>13 DEF EndBlock
<1>14. CASE CloseObject
  BY <1>7, <1>14 DEF CloseObject
<1>15. CASE BlockNewline
  <2>1. PICK phase \in {"indent", "body", "key", "end"} : phase = "indent"
    OBVIOUS
  <2>2. TopBecomes(phase) /\ Top.phase = "colon"
    BY <1>15, <2>1 DEF BlockNewline
  <2>3. Top.kind # "object"
    BY <1>4, <2>2
  <2> QED
    BY <1>8, <2>1, <2>2, <2>3
<1>16. CASE BlockIndent
  <2>1. PICK phase \in {"indent", "body", "key", "end"} : phase = "body"
    OBVIOUS
  <2>2. TopBecomes(phase) /\ Top.phase = "indent"
    BY <1>16, <2>1 DEF BlockIndent
  <2>3. Top.kind # "object"
    BY <1>4, <2>2
  <2> QED
    BY <1>8, <2>1, <2>2, <2>3
<1>17. CASE Entry
  <2>1. PICK phase \in {"indent", "body", "key", "end"} :
          phase = IF current = "more" THEN "key" ELSE "end"
    OBVIOUS
  <2>2. TopBecomes(phase) /\ Top.phase = "key"
    BY <1>17, <2>1 DEF Entry
  <2>3. Top.kind = "object" /\ phase \in {"key", "end"}
    BY <1>4, <2>1, <2>2
  <2> QED
    BY <1>8, <2>2, <2>3
<1> QED
  BY <1>9, <1>10, <1>11, <1>12, <1>13, <1>14, <1>15, <1>16, <1>17 DEF Next

\* A text that is regular was so before.
LEMMA TextGrows ==
  ASSUME LexerTypes, [Next]_vars, regular'
  PROVE  regular /\ (text' = text \/ \E line \in Lines : text' = Append(text, line))
<1>1. CASE NextToken
  <2>1. CASE PendingDedent \/ RestOfLine \/ \E col \in Columns : EndOfText(col)
    BY <2>1 DEF PendingDedent, RestOfLine, EndOfText
  <2>2. CASE \E line \in Lines : NextLine(line)
    <3>1. PICK line \in Lines : NextLine(line)
      BY <2>2
    <3>2. PICK n \in Nat : n = Here
      BY TextFacts
    <3>3. regular
      BY <3>1, <3>2, RegularLine
    <3>4. text' = Append(text, line)
      BY <3>1 DEF NextLine
    <3> QED
      BY <3>3, <3>4
  <2> QED
    BY <1>1, <2>1, <2>2 DEF NextToken
<1>2. CASE UNCHANGED lexer
  BY <1>2 DEF lexer
<1>3. FirstToken => NextToken
  BY DEF FirstToken
<1>4. Takes => NextToken
  BY TakesToken
<1>5. Accept \/ ParseError \/ UNCHANGED vars => UNCHANGED lexer
  BY DEF Accept, ParseError, vars
<1> QED
  BY <1>1, <1>2, <1>3, <1>4, <1>5 DEF Next, Takes

\* What holds of the descent and the dangling line by whatever name.
NamesMatter ==
  \A b, d : b = blocks /\ d = dangling =>
    /\ SomeLine(b, d) <=> SomeLine(blocks, dangling)
    /\ AtEnd(b) <=> AtEnd(blocks)

LEMMA Named == NamesMatter
  BY DEF NamesMatter
LEMMA NextNamed == NamesMatter'
  BY Named, PTL

\* Where the parser is, as long as the lexer does not move.
LEMMA SamePlace ==
  ASSUME UNCHANGED lexer, NEW b, NEW d
  PROVE  /\ SomeLine(b, d) => SomeLine(b, d)'
         /\ AtEnd(b) => AtEnd(b)'
<1>1. /\ text' = text /\ indent_stack' = indent_stack /\ current' = current
      /\ pending_dedents' = pending_dedents /\ rest' = rest /\ ended' = ended
  BY DEF lexer
<1>2. ASSUME NEW n \in 1..Here, NEW e \in LineEnds, InLine(b, d, n, e)
      PROVE  InLine(b, d, n, e)'
  <2>1. RegularTo(n)' /\ LevelsFit(b, n)'
    BY <1>1, <1>2, SameLine DEF InLine
  <2>2. Ending(e, n)'
    BY <1>1, <1>2, SameText DEF InLine, Ending
  <2>3. AtIndent(b, n, e) => AtIndent(b, n, e)'
    <3>1. (Inner(n)' <=> Inner(n)) /\ Kind(n)' = Kind(n) /\ Whole(e, n)' = Whole(e, n)
      BY <1>1, SameText, SameLine
    <3>2. InObject(b, n) => InObject(b, n)'
      BY <1>1, SameText DEF InObject
    <3>3. UnderHeader(b, n) => UnderHeader(b, n)'
      BY <1>1, <3>1 DEF UnderHeader
    <3> QED
      BY <1>1, <3>1, <3>2, <3>3 DEF AtIndent
  <2>4. AtDedent(b, n, e) => AtDedent(b, n, e)'
    <3>1. PICK p : p = pending_dedents + 1
      OBVIOUS
    <3>2. (BeforeLine(b, n, p)' <=> BeforeLine(b, n, p)) /\ Whole(e, n)' = Whole(e, n)
      BY <1>1, SameLine
    <3>3. BeforeLine(b, n, pending_dedents + 1) => BeforeLine(b, n, pending_dedents + 1)'
      BY <1>1, <3>1, <3>2 DEF BeforeLine, InBody
    <3> QED
      BY <1>1, <3>2, <3>3 DEF AtDedent
  <2>5. AtWord(b, d, n, e) => AtWord(b, d, n, e)'
    BY <1>1, SameLine DEF AtWord
  <2>6. AtBrace(b, n, e) => AtBrace(b, n, e)'
    BY <1>1, SameLine DEF AtBrace
  <2>7. AtNewline(b, n, e) => AtNewline(b, n, e)'
    BY <1>1, SameLine DEF AtNewline
  <2> QED
    BY <1>2, <2>1, <2>2, <2>3, <2>4, <2>5, <2>6, <2>7 DEF InLine
<1>3. SomeLine(b, d) => SomeLine(b, d)'
  BY <1>1, <1>2, SameText DEF SomeLine, LineEnds
<1>4. AtEnd(b) => AtEnd(b)'
  BY <1>1, SameText DEF AtEnd
<1> QED
  BY <1>3, <1>4

LEMMA TextFollows ==
  ASSUME IInv, IInv', PhasesFit(blocks), TextFits, [Next]_vars
  PROVE  TextFits'
<1> USE DEF IInv
<1> SUFFICES ASSUME regular'
             PROVE  \/ current' = "none" /\ status' = "parsing" /\ AtStart(blocks)'
                    \/ /\ current' # "none"
                       /\ SomeLine(blocks, dangling)' \/ AtEnd(blocks)'
  BY DEF TextFits
<1>1. regular
  BY TextGrows
<1>2. \/ current = "none" /\ status = "parsing" /\ AtStart(blocks)
      \/ current # "none" /\ (SomeLine(blocks, dangling) \/ AtEnd(blocks))
  BY <1>1 DEF TextFits
<1>3. PICK b, d : b = blocks' /\ d = dangling'
  OBVIOUS
<1>4. /\ SomeLine(b, d)' => SomeLine(blocks, dangling)'
      /\ AtEnd(b)' => AtEnd(blocks)'
  BY <1>3, NextNamed DEF NamesMatter
<1>5. PICK n \in Nat : n = Here
  BY TextFacts
<1>6. Descent(b)
  <2>1. ParserTypes'
    OBVIOUS
  <2> QED
    BY <1>3, <2>1 DEF ParserTypes, Descent
<1>7. ASSUME NextToken, current # "EOF" PROVE current' # "none"
  BY <1>7, NextTokenKeeps DEF LexerKeeps
<1>8. CASE Takes
  <2>1. /\ NextToken /\ current # "EOF" /\ current # "none" /\ current' # "none"
    BY <1>7, <1>8, TakesToken DEF Parsing
  <2>2. CASE SomeLine(blocks, dangling)
    <3>1. PICK m \in 1..Here, e \in LineEnds : InLine(blocks, dangling, m, e)
      BY <2>2 DEF SomeLine
    <3>2. m \in Nat \ {0} /\ m = Here
      BY <1>5, <3>1 DEF InLine, RegularTo
    <3>3. Reading(m, e)
      BY <3>1 DEF Reading
    <3>4. Ready(b, d, m, e)
      BY <1>3, <1>8, <3>2, <3>3, TokenTaken
    <3>5. Asked(m, e)
      BY <3>2 DEF Asked
    <3>6. SomeLine(b, d)' \/ AtEnd(b)'
      BY <1>6, <2>1, <3>2, <3>4, <3>5, TokenFollows
    <3> QED
      BY <1>4, <2>1, <3>6
  <2>3. CASE AtEnd(blocks)
    <3>1. ReadyEnd(b)
      BY <1>3, <1>8, <2>3, TakenAtEnd
    <3>2. PICK e : e = "NUL"
      OBVIOUS
    <3>3. Asked(n, e)
      BY <1>5 DEF Asked
    <3>4. AtEnd(b)'
      BY <1>6, <2>1, <3>1, <3>3, TokenAtEnd
    <3> QED
      BY <1>4, <2>1, <3>4
  <2> QED
    BY <1>2, <2>1, <2>2, <2>3
<1>9. CASE FirstToken
  <2>1. /\ current = "none" /\ NextToken /\ current' # "none" /\ b = blocks
    BY <1>3, <1>7, <1>9 DEF FirstToken, parser
  <2>2. AtStart(b) /\ n = 0
    BY <1>2, <1>5, <2>1 DEF AtStart
  <2>3. PICK e \in LineEnds : Asked(n, e)
    BY <1>5 DEF Asked, LineEnds
  <2>4. SomeLine(b, d)' \/ AtEnd(b)'
    BY <1>6, <2>1, <2>2, <2>3, TokenAtStart
  <2> QED
    BY <1>4, <2>1, <2>4
<1>10. CASE UNCHANGED <<lexer, blocks, dangling>> /\ (status' = status \/ current # "none")
  <2>1. /\ UNCHANGED lexer /\ b = blocks /\ d = dangling /\ current' = current
        /\ text' = text /\ UNCHANGED <<indent_stack, pending_dedents, rest, ended, blocks>>
    BY <1>3, <1>10 DEF lexer
  <2>2. CASE current # "none"
    <3>1. SomeLine(b, d) \/ AtEnd(b)
      BY <1>2, <2>1, <2>2
    <3>2. SomeLine(b, d)' \/ AtEnd(b)'
      BY <2>1, <3>1, SamePlace
    <3> QED
      BY <1>4, <2>1, <2>2, <3>2
  <2>3. CASE current = "none"
    BY <1>2, <1>10, <2>1, <2>3 DEF AtStart, Here
  <2> QED
    BY <2>2, <2>3
<1>11. CASE Accept \/ ParseError \/ UNCHANGED vars
  BY <1>10, <1>11 DEF Accept, AtStatement, ParseError, Parsing, vars, parser
<1> QED
  BY <1>8, <1>9, <1>11 DEF Next, Takes

\* The line a statement is put under is the one that its column says.
LEMMA UnderTop ==
  ASSUME NEW n \in Nat \ {0}, NEW e, Reading(n, e), current \in Headers \cup {"plain", "open"}
  PROVE  Top.line = Under(n)
<1>1. PICK B \in Nat \ {0} : B = Len(blocks)
  BY BlocksFacts DEF Reading
<1>2. PICK N \in Nat : N = Len(indent_stack) /\ Rises(indent_stack)
  BY LevelsRise, StackFacts DEF Reading
<1>3. /\ LexerTypes /\ TokensBalance /\ ParserTypes /\ PhasesFit(blocks) /\ LevelsFit(blocks, n)
      /\ n = Here /\ ColumnsFit(n)
  BY Position DEF Reading
<1>4. /\ n \in Outer /\ B = N /\ blocks[B].phase = "body" /\ blocks[B].line < n
      /\ indent_stack[N] = Col(n)
  BY <1>1, <1>2, WordInBody DEF InBody, Indent
<1>5. /\ Outer \subseteq 1..n /\ \A k \in Outer : k \in Nat /\ Col(k) \in Nat
  BY <1>3, TextFacts
<1>6. \A j \in HeadersOver(n) :
        /\ j \in Outer /\ j < n /\ Col(j) < Col(n)
        /\ \A k \in Before(n) : k > j => Col(k) > Col(j)
  BY DEF HeadersOver, Before
<1>7. Top = blocks[B]
  BY <1>1 DEF Top
<1>8. CASE B = 1
  <2>1. blocks[B].line = 0 /\ Col(n) = 0
    BY <1>2, <1>3, <1>4, <1>8 DEF PhasesFit, TokensBalance
  <2>2. HeadersOver(n) = {}
    <3> SUFFICES ASSUME NEW j \in HeadersOver(n) PROVE FALSE
      OBVIOUS
    <3>1. j \in Outer /\ Col(j) < Col(n)
      BY <1>6
    <3>2. Col(j) \in Nat
      BY <1>5, <3>1
    <3> QED
      BY <2>1, <3>1, <3>2
  <2> QED
    BY <1>7, <2>1, <2>2 DEF Under
<1>9. CASE B # 1
  <2>1. B \in 2..B /\ B - 1 \in 1..N /\ N \in 1..N /\ B - 1 < N /\ B \in 1..B
    BY <1>4, <1>9
  <2>2. PICK t \in Outer : t = blocks[B].line
    BY <1>1, <1>3, <2>1 DEF LevelsFit
  <2>3. /\ blocks[B].kind = LevelOf(Kind(t)) /\ indent_stack[B - 1] = Col(t)
        /\ \A k \in Outer : t < k /\ k < n => Col(k) > Col(t)
    BY <1>1, <1>2, <1>3, <2>1, <2>2 DEF LevelsFit
  <2>4. IsHeader(t)
    <3>1. blocks[B] \in Levels /\ blocks[B].kind # "program"
      BY <1>1, <1>3, <1>9, <2>1, BlocksFacts
    <3>2. blocks[B].kind # "object"
      BY <1>1, <1>3, <1>4, <2>1 DEF PhasesFit
    <3>3. blocks[B].kind \in {"if", "head"}
      BY <3>1, <3>2 DEF Levels
    <3>4. Kind(t) \in Headers
      BY <2>3, <3>3 DEF LevelOf, Headers
    <3> QED
      BY <3>4 DEF IsHeader, Kind
  <2>5. Col(t) < Col(n)
    BY <1>2, <1>4, <2>1, <2>3 DEF Rises
  <2>6. t \in HeadersOver(n)
    <3>1. t \in Before(n) /\ \A k \in Before(n) : k \in Outer /\ k < n
      BY <1>4, <2>2 DEF Before
    <3>2. \A k \in Before(n) : k > t => Col(k) > Col(t)
      BY <1>5, <2>2, <2>3, <3>1
    <3> QED
      BY <2>4, <2>5, <3>1, <3>2 DEF HeadersOver
  <2>7. ASSUME NEW j \in HeadersOver(n) PROVE j <= t
    <3>0. j \in Outer /\ j \in Nat /\ t \in Nat
      <4>1. j \in Outer
        BY <1>6
      <4> QED
        BY <1>5, <4>1
    <3> SUFFICES ASSUME t < j PROVE FALSE
      BY <3>0
    <3>1. /\ j \in Outer /\ j < n /\ Col(j) < Col(n) /\ Col(t) < Col(j)
      BY <1>6, <2>3
    <3>2. \A m \in Outer : m >= j => Col(m) >= Col(j)
      <4> TAKE m \in Outer
      <4>1. m \in 1..n /\ j \in Nat /\ Col(m) \in Nat /\ Col(j) \in Nat
        BY <1>5, <3>1
      <4>2. CASE m = n
        BY <1>5, <3>1, <4>1, <4>2
      <4>3. CASE m # n
        <5>1. m \in Before(n)
          BY <4>1, <4>3 DEF Before
        <5> QED
          BY <1>6, <4>1, <5>1
      <4> QED
        BY <4>2, <4>3
    <3>3. PICK i \in 1..N : indent_stack[i] = Col(j)
      BY <1>2, <1>3, <3>1, <3>2 DEF ColumnsFit
    <3>4. i <= B - 1 => indent_stack[i] <= indent_stack[B - 1]
      <4>1. i < B - 1 => indent_stack[i] < indent_stack[B - 1]
        BY <1>2, <2>1 DEF Rises
      <4>2. indent_stack[i] \in Nat /\ indent_stack[B - 1] \in Nat
        BY <1>2, <2>1 DEF Rises
      <4>3. i = B - 1 => indent_stack[i] = indent_stack[B - 1]
        OBVIOUS
      <4> QED
        BY <2>1, <4>1, <4>2, <4>3
    <3>5. i = N \/ i <= B - 1
      BY <1>4
    <3>6. Col(t) \in Nat /\ Col(j) \in Nat /\ Col(n) \in Nat
      BY <1>4, <1>5, <2>2, <3>1
    <3> QED
      BY <1>4, <2>3, <3>1, <3>3, <3>4, <3>5, <3>6
  <2>8. Last(HeadersOver(n)) = t
    <3>1. HeadersOver(n) \in SUBSET Nat
      BY <1>5, <1>6
    <3> QED
      BY <2>6, <2>7, <3>1, LastIs
  <2> QED
    BY <1>7, <2>2, <2>6, <2>8 DEF Under
<1> QED
  BY <1>8, <1>9

LEMMA OneJoin ==
  ASSUME LexerTypes, NEW n \in Nat, n = Here, NEW d \in Joinable(n)
  PROVE  d = Last(Joinable(n)) /\ d # 0
<1>1. \A j \in Joinable(n) : /\ j \in Before(n) /\ j \in 1..n /\ Col(j) = Col(n) /\ Col(j) \in Nat
                             /\ \A k \in Before(n) : k > j => Col(k) > Col(n)
  <2>1. Before(n) \subseteq 1..n /\ \A j \in 1..n : Col(j) \in Nat
    BY TextFacts DEF Before
  <2> QED
    BY <2>1 DEF Joinable
<1>2. \A j \in Joinable(n) : j <= d
  BY <1>1
<1>3. Joinable(n) \in SUBSET Nat
  BY <1>1
<1>4. Last(Joinable(n)) = d
  BY <1>2, <1>3, LastIs
<1> QED
  BY <1>1, <1>4

\* The parser takes every token of a line, and those behind the last one if
\* nothing has been left open.
LEMMA LineExpected ==
  ASSUME NEW n \in Nat \ {0}, NEW e, Reading(n, e)
  PROVE  current \in Expected
<1>1. PICK B \in Nat \ {0} : B = Len(blocks)
  BY BlocksFacts DEF Reading
<1>2. PICK top : top = blocks[B] /\ top = Top
  BY <1>1 DEF Top
<1>3. /\ top.kind = "object" <=> top.phase \in {"key", "end"}
      /\ top.kind \in {"program", "if", "head", "object"}
  <2>1. B \in 1..B /\ blocks[B] \in Levels
    BY <1>1, BlocksFacts DEF Reading
  <2>2. top.kind \in {"program", "if", "head", "object"}
    BY <1>2, <2>1 DEF Levels
  <2>3. PhasesFit(blocks)
    BY DEF Reading
  <2> QED
    BY <1>1, <1>2, <2>1, <2>2, <2>3 DEF PhasesFit
<1>4. /\ InObject(blocks, n) => top.phase \in {"key", "end"}
      /\ InObject(blocks, n + 1) => top.phase \in {"key", "end"}
      /\ \A m : InBody(blocks, n, m) => top.phase = "body"
      /\ InBody(blocks, n + 1, 0) => top.phase = "body"
      /\ UnderHeader(blocks, n) => top.phase = "indent"
      /\ AtClose(blocks, n) => top.phase = "end"
  BY <1>1, <1>2 DEF InObject, InBody, UnderHeader, AtClose
<1>5. /\ top.kind = "object" => Layout \subseteq Expected
      /\ top.phase = "indent" => "INDENT" \in Expected
      /\ top.phase = "colon" => "NEWLINE" \in Expected
      /\ top.phase = "body" => {"NEWLINE", "DEDENT"} \subseteq Expected
  <2>1. top.kind = "object" => Layout \subseteq Expected
    BY <1>2 DEF Expected, Skipped
  <2>2. top.phase = "indent" => "INDENT" \in Expected
    BY <1>2 DEF Expected
  <2>3. top.phase = "colon" => "NEWLINE" \in Expected
    BY <1>2 DEF Expected
  <2>4. top.phase = "body" => {"NEWLINE", "DEDENT"} \subseteq Expected
    <3>1. CASE top.kind = "program"
      BY <1>2, <3>1 DEF Expected, Skipped, Layout
    <3>2. CASE top.kind # "program"
      <4>1. top.phase = "body" => top.kind \in {"if", "head"}
        BY <1>3, <3>2
      <4>2. top.phase = "body" => "NEWLINE" \in Expected
        BY <1>2, <4>1 DEF Expected, Skipped
      <4>3. top.phase = "body" => "DEDENT" \in Expected
        BY <1>2, <3>2 DEF Expected
      <4> QED
        BY <4>2, <4>3
    <3> QED
      BY <3>1, <3>2
  <2> QED
    BY <2>1, <2>2, <2>3, <2>4
<1>6. CASE current = "INDENT"
  <2>1. InObject(blocks, n) \/ UnderHeader(blocks, n)
    BY <1>6, Position DEF AtIndent
  <2> QED
    BY <1>3, <1>4, <1>5, <1>6, <2>1 DEF Layout
<1>7. CASE current = "DEDENT"
  <2>1. InObject(blocks, n) \/ InBody(blocks, n, pending_dedents + 1)
    BY <1>7, Position DEF AtDedent, BeforeLine
  <2> QED
    BY <1>3, <1>4, <1>5, <1>7, <2>1 DEF Layout
<1>8. CASE current = "NEWLINE"
  <2>1. top.phase = "colon" \/ InObject(blocks, n + 1) \/ InBody(blocks, n + 1, 0)
    BY <1>1, <1>2, <1>8, Position DEF AtNewline, BehindLine
  <2> QED
    BY <1>3, <1>4, <1>5, <1>8, <2>1 DEF Layout
<1>9. CASE current = "close" /\ Kind(n) = "lastclose"
  <2>1. top.phase = "end"
    BY <1>4, <1>9, Position DEF AtBrace
  <2> QED
    BY <1>2, <1>9, <2>1 DEF Expected
<1>10. CASE current \in Words /\ ~(current = "close" /\ Kind(n) = "lastclose")
  <2>1. AtWord(blocks, dangling, n, e)
    BY <1>10, Position
  <2>2. /\ BeforeLine(blocks, n, 0) /\ ElseFits(dangling, n)
        /\ current = Kind(n) \/ (Kind(n) = "lastclose" /\ current = "last")
    BY <2>1 DEF AtWord
  <2>3. CASE Inner(n)
    <3>1. top.phase = IF Kind(Last(EntriesOf(n))) = "last" THEN "end" ELSE "key"
      BY <1>1, <1>2, <2>2, <2>3 DEF BeforeLine, InObject
    <3>2. IF Kind(Last(EntriesOf(n))) = "last"
          THEN Kind(n) \in {"close", "cr"}
          ELSE Kind(n) \in {"more", "last", "lastclose", "cr"}
      BY <2>3, Position DEF Regular, RightKind, Kind
    <3>3. current \notin {"cr", "lastclose"}
      BY <1>10 DEF Words
    <3>4. CASE Kind(Last(EntriesOf(n))) = "last"
      <4>1. top.phase = "end" /\ current = "close"
        BY <2>2, <3>1, <3>2, <3>3, <3>4
      <4> QED
        BY <1>2, <4>1 DEF Expected
    <3>5. CASE Kind(Last(EntriesOf(n))) # "last"
      <4>1. top.phase = "key" /\ current \in {"more", "last"}
        BY <2>2, <3>1, <3>2, <3>3, <3>5
      <4> QED
        BY <1>2, <4>1 DEF Expected
    <3> QED
      BY <3>4, <3>5
  <2>4. CASE ~Inner(n)
    <3>1. top.phase = "body"
      BY <1>4, <2>2, <2>4 DEF BeforeLine
    <3>2. Kind(n) \notin {"more", "last", "close", "lastclose"}
      BY <2>4, LineKinds, Position
    <3>3. current = Kind(n) /\ current \in {"plain", "if", "head", "open", "elif", "else"}
      BY <1>10, <2>2, <3>2 DEF Words, Kinds, Headers
    <3>4. current \in {"elif", "else"} => dangling # 0
      <4>1. LexerTypes /\ n = Here
        BY Position DEF Reading
      <4> QED
        BY <2>2, <3>3, <4>1, OneJoin DEF ElseFits
    <3>5. {"plain", "if", "head", "open"} \subseteq Expected
      BY <1>2, <3>1 DEF Expected
    <3>6. dangling # 0 => {"elif", "else"} \subseteq Expected
      BY <1>2, <3>1 DEF Expected
    <3> QED
      BY <3>3, <3>4, <3>5, <3>6
  <2> QED
    BY <2>3, <2>4
<1> QED
  BY <1>6, <1>7, <1>8, <1>9, <1>10, Position DEF Layout

LEMMA EndExpected ==
  ASSUME LexerTypes, ParserTypes, TokensBalance, PhasesFit(blocks), AtEnd(blocks), Complete
  PROVE  current \in Expected \cup {"GARBAGE"}
<1>1. PICK B \in Nat \ {0} : B = Len(blocks)
  BY BlocksFacts
<1>2. PICK top : top = blocks[B] /\ top = Top
  BY <1>1 DEF Top
<1>3. /\ top.phase = "body" /\ top.kind # "object"
      /\ top.kind \in {"program", "if", "head", "object"}
      /\ top.kind = "program" <=> B = 1
  <2>1. B \in 1..B /\ blocks[B] \in Levels /\ (blocks[B].kind = "program" <=> B = 1)
    BY <1>1, BlocksFacts
  <2>2. top.kind \in {"program", "if", "head", "object"}
    BY <1>2, <2>1 DEF Levels
  <2>3. top.phase = "body"
    BY <1>1, <1>2 DEF AtEnd
  <2>4. top.kind # "object"
    BY <1>1, <1>2, <2>1, <2>3 DEF PhasesFit
  <2> QED
    BY <1>2, <2>1, <2>2, <2>3, <2>4
<1>4. CASE current = "INDENT"
  <2>1. CASE top.kind = "program"
    BY <1>2, <1>4, <2>1 DEF Expected, Skipped, Layout
  <2>2. CASE top.kind # "program"
    <3>1. top.kind \in {"if", "head"}
      BY <1>3, <2>2
    <3> QED
      BY <1>2, <1>3, <1>4, <3>1 DEF Expected, Skipped
  <2> QED
    BY <2>1, <2>2
<1>5. CASE current = "DEDENT"
  <2>1. CASE top.kind = "program"
    BY <1>2, <1>5, <2>1 DEF Expected, Skipped, Layout
  <2>2. CASE top.kind # "program"
    BY <1>2, <1>3, <1>5, <2>2 DEF Expected
  <2> QED
    BY <2>1, <2>2
<1>6. CASE current = "EOF"
  <2>1. PICK N \in Nat \ {0}, p \in Nat : N = Len(indent_stack) /\ p = pending_dedents
    BY StackFacts DEF LexerTypes
  <2>2. N - 1 + p = 0
    BY <1>6, <2>1 DEF TokensBalance
  <2>3. B <= N + p
    BY <1>1, <1>6, <2>1 DEF AtEnd
  <2>4. top.kind = "program"
    BY <1>3, <2>1, <2>2, <2>3
  <2> QED
    BY <1>2, <1>3, <1>6, <2>4 DEF Expected
<1> QED
  BY <1>4, <1>5, <1>6 DEF AtEnd

\* The structure of the lines that have been read stays as it is.
LEMMA StructureStays ==
  ASSUME LexerTypes, NEW i \in 1..Here,
         text' = text \/ \E line \in Lines : text' = Append(text, line)
  PROVE  Under(i)' = Under(i) /\ Joinable(i)' = Joinable(i) /\ i \in 1..Here'
<1>1. PICK n \in Nat : n = Here
  BY TextFacts
<1>2. CASE text' = text
  BY <1>2, SameText
<1>3. CASE \E line \in Lines : text' = Append(text, line)
  <2>1. PICK line \in Lines : text' = Append(text, line)
    BY <1>3
  <2>2. Here' = n + 1
    BY <1>1, <2>1, GrownLines
  <2>3. Under(i)' = Under(i) /\ Joinable(i)' = Joinable(i)
    BY <1>1, <2>1, GrownStructure
  <2> QED
    BY <1>1, <2>2, <2>3
<1> QED
  BY <1>2, <1>3

\* The statement that line n is put under another with, and the if it joins.
Nested(nesting) ==
  /\ nesting.under = Under(nesting.line)
  /\ nesting.joins # 0 => nesting.joins = Last(Joinable(nesting.line))

StructureInv ==
  /\ PhasesFit(blocks) /\ TextFits
  /\ regular => \A k \in 1..Len(nested) : nested[k].line \in 1..Here /\ Nested(nested[k])

LEMMA StatementNested ==
  ASSUME IInv, PhasesFit(blocks), regular, TextFits, NEW joins \in {0, dangling}, Nest(joins),
         current \in Headers \cup {"plain", "open"}, current \in {"elif", "else"} <=> joins # 0
  PROVE  \E nesting \in Nestings : /\ nested' = Append(nested, nesting)
                                   /\ nesting.line \in 1..Here /\ Nested(nesting)
<1> USE DEF IInv
<1>1. "none" \notin Headers \cup {"plain", "open"} /\ ~AtEnd(blocks)
  BY DEF Headers, AtEnd
<1>2. PICK n \in 1..Here, e \in LineEnds : InLine(blocks, dangling, n, e)
  BY <1>1 DEF TextFits, SomeLine
<1>3. Here \in Nat /\ dangling \in Nat
  BY TextFacts DEF ParserTypes
<1>4. n \in Nat \ {0} /\ Reading(n, e) /\ n = Here
  BY <1>2, <1>3 DEF Reading, InLine, RegularTo
<1>5. Top.line = Under(n)
  BY <1>4, UnderTop
<1>6. joins # 0 => joins = Last(Joinable(n))
  <2> SUFFICES ASSUME joins # 0 PROVE joins = Last(Joinable(n))
    OBVIOUS
  <2>1. Kind(n) \in {"elif", "else"} /\ ElseFits(dangling, n) /\ joins = dangling
    BY <1>4, WordInBody
  <2> QED
    BY <1>3, <1>4, <2>1, OneJoin DEF ElseFits
<1>7. PICK nesting \in Nestings :
        /\ nested' = Append(nested, nesting)
        /\ nesting.line = n /\ nesting.under = Top.line /\ nesting.joins = joins
  <2>1. Top.line \in Nat
    BY TopFacts DEF Levels
  <2>2. PICK under \in Nat, joined \in Nat : under = Top.line /\ joined = joins
    BY <1>3, <2>1
  <2>3. [line |-> n, under |-> under, joins |-> joined] \in Nestings
    BY <1>3 DEF Nestings
  <2> QED
    BY <1>4, <2>2, <2>3 DEF Nest
<1> QED
  BY <1>2, <1>5, <1>6, <1>7 DEF Nested

\* What holds of an entry by whatever name.
EntriesMatter == \A k, x : x = nested[k] => (Nested(x) <=> Nested(nested[k]))

LEMMA Entries == EntriesMatter
  BY DEF EntriesMatter
LEMMA NextEntries == EntriesMatter'
  BY Entries, PTL

LEMMA StructureStarts == Init => StructureInv
<1> SUFFICES ASSUME Init PROVE StructureInv
  OBVIOUS
<1>1. Len(blocks) = 1 /\ blocks[1] = Level("program", 0, "body")
  BY DEF Init
<1>2. PhasesFit(blocks)
  BY <1>1 DEF PhasesFit, Level
<1>3. TextFits
  <2>1. Here = 0
    BY DEF Init, Here
  <2>2. AtStart(blocks)
    BY <1>1, <2>1 DEF Init, AtStart, Level
  <2> QED
    BY <2>2 DEF Init, TextFits
<1> QED
  BY <1>2, <1>3 DEF Init, StructureInv

LEMMA StructureKeeps ==
  ASSUME IInv, IInv', StructureInv, [Next]_vars
  PROVE  StructureInv'
<1> USE DEF IInv
<1>1. PhasesFit(blocks)' /\ TextFits'
  BY PhasesStay, TextFollows DEF StructureInv
<1> SUFFICES ASSUME regular'
             PROVE  \A k \in 1..Len(nested') :
                      nested'[k].line \in 1..Here' /\ Nested(nested[k])'
  BY <1>1 DEF StructureInv
<1>2. regular /\ (text' = text \/ \E line \in Lines : text' = Append(text, line))
  BY TextGrows
<1>3. ASSUME NEW nesting, nesting.line \in 1..Here, Nested(nesting)
      PROVE  nesting.line \in 1..Here' /\ Nested(nesting)'
  <2>1. PICK i \in 1..Here : i = nesting.line
    BY <1>3
  <2>2. Under(i)' = Under(i) /\ Joinable(i)' = Joinable(i) /\ i \in 1..Here'
    BY <1>2, StructureStays
  <2> QED
    BY <1>3, <2>1, <2>2 DEF Nested
<1>4. PICK N \in Nat : N = Len(nested) /\ nested \in Seq(Nestings)
  BY DEF ParserTypes
<1>5. \A k \in 1..N : nested[k].line \in 1..Here /\ Nested(nested[k])
  BY <1>2, <1>4 DEF StructureInv
<1>6. ASSUME NEW k \in 1..Len(nested'), NEW nesting, nesting = nested'[k],
             nesting.line \in 1..Here, Nested(nesting)
      PROVE  nested'[k].line \in 1..Here' /\ Nested(nested[k])'
  <2>1. nesting.line \in 1..Here' /\ Nested(nesting)'
    BY <1>3, <1>6
  <2>2. Nested(nesting)' => Nested(nested[k])'
    BY <1>6, NextEntries DEF EntriesMatter
  <2> QED
    BY <1>6, <2>1, <2>2
<1>7. CASE UNCHANGED nested
  <2> TAKE k \in 1..Len(nested')
  <2>1. PICK nesting : nesting = nested'[k] /\ nesting = nested[k]
    BY <1>7
  <2>2. k \in 1..N
    BY <1>4, <1>7
  <2>3. nesting.line \in 1..Here /\ Nested(nesting)
    BY <1>5, <2>1, <2>2
  <2> QED
    BY <1>6, <2>1, <2>3
<1>8. ASSUME NEW joins \in {0, dangling}, Nest(joins),
             current \in Headers \cup {"plain", "open"}, current \in {"elif", "else"} <=> joins # 0
      PROVE  \A k \in 1..Len(nested') :
               nested'[k].line \in 1..Here' /\ Nested(nested[k])'
  <2>1. PICK last \in Nestings : /\ nested' = Append(nested, last)
                                 /\ last.line \in 1..Here /\ Nested(last)
    BY <1>2, <1>8, StatementNested DEF StructureInv
  <2>2. /\ Len(nested') = N + 1 /\ nested'[N + 1] = last
        /\ \A k \in 1..N : nested'[k] = nested[k]
    BY <1>4, <2>1, AppendProperties
  <2> TAKE k \in 1..Len(nested')
  <2>3. CASE k \in 1..N
    <3>1. PICK nesting : nesting = nested'[k] /\ nesting = nested[k]
      BY <2>2, <2>3
    <3>2. nesting.line \in 1..Here /\ Nested(nesting)
      BY <1>5, <2>3, <3>1
    <3> QED
      BY <1>6, <3>1, <3>2
  <2>4. CASE k = N + 1
    <3>1. last = nested'[k]
      BY <2>2, <2>4
    <3> QED
      BY <1>6, <2>1, <3>1
  <2> QED
    BY <1>4, <2>2, <2>3, <2>4
<1>9. CASE Plain \/ Header \/ OpenObject
  <2>1. /\ Nest(0) /\ current \in Headers \cup {"plain", "open"}
        /\ current \notin {"elif", "else"}
    BY <1>9 DEF Plain, Header, OpenObject, Headers
  <2>2. PICK joins \in {0, dangling} : joins = 0
    OBVIOUS
  <2>3. Nest(joins) /\ (current \in {"elif", "else"} <=> joins # 0)
    BY <2>1, <2>2
  <2> QED
    BY <1>8, <2>1, <2>3
<1>10. CASE ElseHeader
  <2>1. /\ Nest(dangling) /\ current \in Headers \cup {"plain", "open"}
        /\ current \in {"elif", "else"} /\ dangling # 0
    BY <1>10 DEF ElseHeader, Headers
  <2>2. PICK joins \in {0, dangling} : joins = dangling
    OBVIOUS
  <2>3. Nest(joins) /\ (current \in {"elif", "else"} <=> joins # 0)
    BY <2>1, <2>2
  <2> QED
    BY <1>8, <2>1, <2>3
<1>11. ASSUME ~(Plain \/ Header \/ OpenObject \/ ElseHeader) PROVE UNCHANGED nested
  BY <1>11 DEF Next, FirstToken, Skip, BlockNewline, BlockIndent, EndBlock, Entry, CloseObject,
              Accept, ParseError, vars, parser
<1> QED
  BY <1>7, <1>9, <1>10, <1>11

LEMMA StructureInvariance == Spec => []StructureInv
<1>1. IInv /\ IInv' /\ StructureInv /\ [Next]_vars => StructureInv'
  BY StructureKeeps
<1> QED
  BY StructureStarts, Invariance, <1>1, PTL DEF Spec

-----------------------------------------------------------------------------
\* In a text whose lines go back to open columns only, every statement is put
\* under the header that its column says and every else joins the if of its own
\* column, for any number of lines and columns: neither the INDENTs a block
\* skips nor those of object literals get in the way (parser.c:977-1003,
\* 819, 868, lexer.c:117-138).
THEOREM StructureFollowsColumns == Spec => []StructureIsColumns
<1>1. StructureInv => StructureIsColumns
  BY DEF StructureInv, StructureIsColumns, Nested
<1> QED
  BY StructureInvariance, <1>1, PTL

LEMMA RejectsRightly ==
  ASSUME IInv, StructureInv, RegularIsAccepted, [Next]_vars
  PROVE  RegularIsAccepted'
<1> USE DEF IInv
<1> SUFFICES ASSUME status' = "rejected", regular'
             PROVE  ended' # "no" /\ ~Complete'
  BY DEF RegularIsAccepted
<1>1. regular /\ TextFits /\ PhasesFit(blocks)
  BY TextGrows DEF StructureInv
<1>2. ~FirstToken
  BY <1>1 DEF TextFits, FirstToken, parser
<1>3. ~Takes
  <2>1. Takes => status' = "parsing"
    <3>1. Takes => status' = status
      BY DEF Takes, Skip, Plain, Header, ElseHeader, BlockNewline, BlockIndent, EndBlock,
             OpenObject, Entry, CloseObject
    <3> QED
      BY <3>1, TakesToken DEF Parsing
  <2> QED
    BY <2>1
<1>4. ~Accept
  BY DEF Accept
<1>5. CASE UNCHANGED vars
  <2>1. status = "rejected" /\ text' = text /\ ended' = ended
    BY <1>5 DEF vars, parser, lexer
  <2> QED
    BY <1>1, <2>1, SameText DEF RegularIsAccepted
<1>6. CASE ParseError
  <2>1. /\ current # "none" /\ current \notin Expected \cup {"GARBAGE"}
        /\ text' = text /\ ended' = ended
    BY <1>6 DEF ParseError, Parsing, lexer
  <2>2. ~SomeLine(blocks, dangling)
    <3> SUFFICES ASSUME NEW n \in 1..Here, NEW e \in LineEnds, InLine(blocks, dangling, n, e)
                 PROVE  FALSE
      BY DEF SomeLine
    <3>1. n \in Nat \ {0}
      BY TextFacts
    <3>2. Reading(n, e)
      BY <1>1 DEF Reading
    <3> QED
      BY <2>1, <3>1, <3>2, LineExpected
  <2>3. AtEnd(blocks)
    BY <1>1, <2>1, <2>2 DEF TextFits
  <2>4. ~Complete
    BY <1>1, <2>1, <2>3, EndExpected
  <2> QED
    BY <2>1, <2>3, <2>4, SameText DEF AtEnd
<1> QED
  BY <1>2, <1>3, <1>4, <1>5, <1>6 DEF Next, Takes

\* Such a text is never refused, unless it ends with something left open: a
\* header without a block, or an object literal (parser.c:977-1003, 815-870).
THEOREM AcceptsRegular == Spec => []RegularIsAccepted
<1>1. Init => RegularIsAccepted
  BY DEF Init, RegularIsAccepted
<1>2. IInv /\ StructureInv /\ RegularIsAccepted /\ [Next]_vars => RegularIsAccepted'
  BY RejectsRightly
<1> QED
  BY Invariance, StructureInvariance, <1>1, <1>2, PTL DEF Spec
=============================================================================
