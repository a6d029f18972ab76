-------------------------------- MODULE JsonText --------------------------------
(***************************************************************************)
(* json_parse and json_stringify (utils/json.c): a recursive descent that  *)
(* reads a text once, symbol by symbol, and builds lists, objects and      *)
(* strings as it goes.  The calls of parse_array and parse_object under    *)
(* way are a stack of frames; when one of them fails, each frame releases  *)
(* what it has built and fails in turn.                                    *)
(*                                                                         *)
(* The text is not given: it is chosen as far as the parser has read it,   *)
(* so a step of the parser covers all texts that begin in the same way.    *)
(* What has been accepted is written with json_stringify and read again.   *)
(*                                                                         *)
(* A symbol stands for a token or, within quotation marks, for a character *)
(* or the four digits of a \u escape.  Short strings in which nothing      *)
(* happens (Names) are symbols of their own, as are numbers: any spelling  *)
(* that begins with a digit or a minus sign and that strtod reads to its   *)
(* end, which 01, 1., 0x10 and -inf do as well as those of JSON.           *)
(***************************************************************************)
EXTENDS Integers, Sequences, SequencesExt, FiniteSets

CONSTANTS Names,        \* strings of one character, with their quotation marks
          Numbers,      \* kinds of numbers: see Printed
          MaxLength     \* bound on the symbols of a text

ASSUME JsonAssumption ==
  /\ Names \subseteq {"n", "u"}
  /\ Numbers \subseteq {"short", "long", "huge", "-inf"}
  /\ MaxLength \in Nat

Quote == "\""
Backslash == "\\"
End == "end"            \* the NUL behind the text
Space == "space"

\* The four digits after \u: of the NUL, of a character, of a high and of a low
\* surrogate.
Digits == {"0000", "00e9", "d83d", "de00"}

VARIABLES text,         \* what has been chosen of the text
          index,        \* JsonParser.index: symbols read
          stack,        \* calls of parse_array and parse_object
          phase,        \* what is read next
          buffer,       \* JsonBuffer of the string that is being read
          value,        \* what has been read, once it is complete
          live,         \* blocks that this call has taken and not given back
          past,         \* has the parser read behind the NUL
          first         \* what the text was written from, when it is read again

vars == <<text, index, stack, phase, buffer, value, live, past, first>>

InString == {"string", "escape", "unicode", "lead", "no lead", "mark", "low"}
Top == stack[Len(stack)]

-----------------------------------------------------------------------------
(* Values. *)

None == <<>>            \* no value
Null == <<"null">>
StringOf(chars) == <<"string", chars>>
NumberOf(n) == <<"number", n>>
ListOf(items) == <<"list", items>>
ObjectOf(pairs) == <<"object", pairs>>          \* of <<key, value>>

\* A string as everyone sees it: it ends with its first NUL.
CString(chars) ==
  IF Contains(chars, "NUL") THEN SubSeq(chars, 1, SelectInSeq(chars, LAMBDA c : c = "NUL") - 1)
  ELSE chars

Sum(f) == FoldSeq(LAMBDA a, b : a + b, 0, f)

\* The blocks that a value owns: an object has a copy of each key.
RECURSIVE Blocks(_)
Blocks(v) ==
  CASE v = None \/ v[1] \in {"null", "number"} -> 0
    [] v[1] = "string" -> 1
    [] v[1] = "list" -> 1 + Sum([i \in DOMAIN v[2] |-> Blocks(v[2][i])])
    [] v[1] = "object" -> 1 + Sum([i \in DOMAIN v[2] |-> 1 + Blocks(v[2][i][2])])

\* What %.15g makes of a number.  A long number needs more digits.  A huge one, as
\* 1e999, has been read as infinity and is printed without a digit or sign in front;
\* -1e999, -inf itself and -nan are printed in a spelling of their own kind, "-inf".
\* Rounding takes the largest doubles, too, to infinity when they are read again.
Printed(n) == CASE n = "long" -> "rounded" [] n = "huge" -> "inf" [] OTHER -> n

\* append_escaped_string
Escaped(chars) ==
  <<Quote>> \o FlattenSeq([i \in DOMAIN chars |->
                  CASE chars[i] \in {Quote, Backslash} -> <<Backslash, chars[i]>>
                    [] chars[i] = "newline" -> <<Backslash, "n">>
                    [] OTHER -> <<chars[i]>>]) \o <<Quote>>

\* Mutant of Joined: a comma before the first item too.
Joined_CommaFirst(parts) == FlattenSeq([i \in DOMAIN parts |-> <<",">> \o parts[i]])

Joined(parts) ==
  FlattenSeq([i \in DOMAIN parts |-> IF i = 1 THEN parts[i] ELSE <<",">> \o parts[i]])

\* stringify_value
RECURSIVE Stringify(_)
Stringify(v) ==
  CASE v[1] = "null" -> <<"null">>
    [] v[1] = "number" -> <<Printed(v[2])>>
    [] v[1] = "string" -> Escaped(v[2])
    [] v[1] = "list" -> <<"[">> \o Joined([i \in DOMAIN v[2] |-> Stringify(v[2][i])]) \o <<"]">>
    [] v[1] = "object" ->
         <<"{">> \o Joined([i \in DOMAIN v[2] |->
                     Escaped(v[2][i][1][2]) \o <<":">> \o Stringify(v[2][i][2])]) \o <<"}">>

-----------------------------------------------------------------------------
(* Reading the text. *)

Tokens == {"[", "]", "{", "}", ",", ":", Quote, "null"} \cup Names \cup Numbers
Symbols == Tokens \cup Digits \cup {Backslash, Space, End, "n", "u", "rounded", "inf", "d83dde00"}

\* What the next symbol is chosen from.  Two numbers in a row would be one, and
\* one space stands for any number of them.
Offered ==
  CASE phase = "string" -> {Quote, Backslash, "n", "u"}
    [] phase = "escape" -> {Quote, Backslash, "n", "u", "0000"}
    [] phase \in {"unicode", "low"} -> {Quote} \cup Digits
    [] phase \in {"lead", "no lead", "mark"} -> {Quote, Backslash, "u"}
    [] OTHER -> IF index > 0 /\ text[index] \in Numbers THEN Tokens \ Numbers
                ELSE Tokens \cup (IF Contains(text, Space) THEN {} ELSE {Space})

\* May the text go on?  One with a space, which means nothing, is shorter by one.
Room == Len(text) < IF Contains(text, Space) THEN MaxLength - 1 ELSE MaxLength

\* parser_next, and the successful cases of parser_peek: the next symbol is s,
\* and the text is chosen up to there.  Behind the NUL anything may be read.
Reads(s) ==
  /\ ~past /\ index' = index + 1
  /\ IF index < Len(text) THEN s = text[index + 1] /\ UNCHANGED <<text, past>>
     ELSE IF text # <<>> /\ Last(text) = End THEN past' = TRUE /\ UNCHANGED text
     ELSE /\ s = End \/ (Room /\ s \in Offered)
          /\ text' = Append(text, s) /\ UNCHANGED past

Frame(kind) == [kind |-> kind, entries |-> <<>>, key |-> None]

\* object_set, and the blocks of what it replaces.
ObjectSet(pairs, key, v) ==
  IF \E i \in DOMAIN pairs : pairs[i][1] = key
  THEN [i \in DOMAIN pairs |-> IF pairs[i][1] = key THEN <<key, v>> ELSE pairs[i]]
  ELSE Append(pairs, <<key, v>>)

Replaced(pairs, key) ==
  Sum([i \in DOMAIN pairs |-> IF pairs[i][1] = key THEN 1 + Blocks(pairs[i][2]) ELSE 0])

\* A value has been read by a call whose callers are `callers`, with so many blocks
\* that were not there before: list_append or object_set copies it, and what was
\* read is freed, the key too.
Complete(callers, v, taken) ==
  /\ phase' = "after"
  /\ IF callers = <<>> THEN value' = v /\ stack' = <<>> /\ live' = live + taken
     ELSE LET here == Len(callers)
              caller == callers[here]
              inObject == caller.kind = "object" IN
          /\ stack' = [callers EXCEPT
                ![here].entries = IF inObject THEN ObjectSet(@, caller.key, v) ELSE Append(@, v),
                ![here].key = None]
          /\ live' = live + taken - IF inObject THEN Replaced(caller.entries, caller.key) ELSE 0
          /\ UNCHANGED value

Goto(next) == phase' = next /\ UNCHANGED <<stack, buffer, value, live, first>>

\* A call returns false; its caller goes on with Unwind.
Fail(freed) ==
  phase' = "failed" /\ live' = live - freed /\ UNCHANGED <<stack, buffer, value, first>>

BeginString == /\ phase' = "string" /\ buffer' = <<>> /\ live' = live + 1
               /\ UNCHANGED <<stack, value, first>>

-----------------------------------------------------------------------------
(* Values, lists and objects. *)

\* parser_skip_whitespace
SkipWhitespace(s) ==
  /\ s = Space /\ phase \in {"value", "first", "key", "colon", "after"}
  /\ Goto(phase)

\* parse_value: also of the first item of a list.
ParseValue(s) ==
  /\ phase = "value" \/ (phase = "first" /\ Top.kind = "array" /\ s # "]")
  /\ s # Space
  /\ CASE s = "null" -> Complete(stack, Null, 0) /\ UNCHANGED <<buffer, first>>
       [] s \in Numbers \cup {"rounded"} ->
            Complete(stack, NumberOf(s), 0) /\ UNCHANGED <<buffer, first>>
       [] s \in Names -> Complete(stack, StringOf(<<s>>), 1) /\ UNCHANGED <<buffer, first>>
       [] s = Quote -> BeginString
       [] s \in {"[", "{"} ->
            /\ stack' = Append(stack, Frame(IF s = "[" THEN "array" ELSE "object"))
            /\ phase' = "first" /\ live' = live + 1
            /\ UNCHANGED <<buffer, value, first>>
       [] OTHER -> Fail(0)

\* parse_object: a key, also the first one.
ParseKey(s) ==
  /\ phase = "key" \/ (phase = "first" /\ Top.kind = "object" /\ s # "}")
  /\ s # Space
  /\ CASE s \in Names ->
            /\ stack' = [stack EXCEPT ![Len(stack)].key = StringOf(<<s>>)]
            /\ phase' = "colon" /\ live' = live + 1
            /\ UNCHANGED <<buffer, value, first>>
       [] s = Quote -> BeginString
       [] OTHER -> Fail(0)

ParseColon(s) ==
  /\ phase = "colon" /\ s # Space
  /\ IF s = ":" THEN Goto("value") ELSE Fail(0)

\* The end of parse_array or parse_object.
Close(s) ==
  /\ phase \in {"first", "after"} /\ stack # <<>>
  /\ s = IF Top.kind = "array" THEN "]" ELSE "}"
  /\ Complete(Front(stack), IF Top.kind = "array" THEN ListOf(Top.entries) ELSE ObjectOf(Top.entries), 0)
  /\ UNCHANGED <<buffer, first>>

\* Mutant of Separator: what follows a comma is read like what follows a bracket.
Separator_MayTrail(s) ==
  /\ phase = "after" /\ stack # <<>> /\ s \notin {Space, "]", "}"}
  /\ IF s = "," THEN Goto("first") ELSE Fail(0)

\* Between items; the wrong bracket is an error too.
Separator(s) ==
  /\ phase = "after" /\ stack # <<>> /\ s # Space
  /\ s # IF Top.kind = "array" THEN "]" ELSE "}"
  /\ IF s # "," THEN Fail(0) ELSE Goto(IF Top.kind = "array" THEN "value" ELSE "key")

\* json_parse_string, when parse_value has succeeded.
Trailing(s) ==
  /\ phase = "after" /\ stack = <<>> /\ s # Space
  /\ IF s = End THEN Goto("accepted")
     ELSE /\ phase' = "rejected" /\ value' = None /\ live' = live - Blocks(value)
          /\ UNCHANGED <<stack, buffer, first>>

\* The blocks of a list or an object that is being read, with the pending key.
FrameBlocks(frame) ==
  Blocks((IF frame.kind = "array" THEN ListOf(frame.entries) ELSE ObjectOf(frame.entries)))
  + IF frame.key = None THEN 0 ELSE 1

\* Mutant of Unwind: the key of the value that has failed is forgotten.
Unwind_KeepsKey ==
  /\ phase = "failed" /\ stack # <<>>
  /\ live' = live - FrameBlocks([Top EXCEPT !.key = None])
  /\ stack' = Front(stack)
  /\ UNCHANGED <<text, index, phase, buffer, value, past, first>>

\* A nested value has failed: free_list, or free_object and free of the key.
Unwind ==
  /\ phase = "failed" /\ stack # <<>>
  /\ live' = live - FrameBlocks(Top)
  /\ stack' = Front(stack)
  /\ UNCHANGED <<text, index, phase, buffer, value, past, first>>

Reject ==
  /\ phase = "failed" /\ stack = <<>>
  /\ phase' = "rejected"
  /\ UNCHANGED <<text, index, stack, buffer, value, live, past, first>>

-----------------------------------------------------------------------------
(* parse_string.  Every error in it frees the buffer. *)

Add(c) == /\ buffer' = Append(buffer, c) /\ phase' = "string"
          /\ UNCHANGED <<stack, value, live, first>>

\* Mutant of Character: the NUL is taken for a character.
Character_MissesEnd(s) ==
  /\ phase = "string" /\ s \notin {Quote, Backslash}
  /\ Add(s)

Character(s) ==
  /\ phase = "string" /\ s \notin {Quote, Backslash}
  /\ IF s = End THEN Fail(1) ELSE Add(s)

Escape(s) ==
  \/ phase = "string" /\ s = Backslash /\ Goto("escape")
  \/ /\ phase = "escape"
     /\ CASE s \in {Quote, Backslash} -> Add(s)
          [] s = "n" -> Add("newline")
          [] s = "u" -> Goto("unicode")
          [] OTHER -> Fail(1)

\* The digits of a \u escape; of a high surrogate lead1 and lead2 are read before
\* either is looked at.
Unicode(s) ==
  \/ /\ phase = "unicode"
     /\ CASE s = "0000" -> Add("NUL")
          [] s = "d83d" -> Goto("lead")
          [] s \in {"00e9", "de00"} -> Add(s)
          [] OTHER -> Fail(1)
  \/ phase = "lead" /\ Goto(IF s = Backslash THEN "mark" ELSE "no lead")
  \/ phase = "no lead" /\ Fail(1)
  \/ phase = "mark" /\ IF s = "u" THEN Goto("low") ELSE Fail(1)
  \/ phase = "low" /\ IF s = "de00" THEN Add("d83dde00") ELSE Fail(1)

\* The string is complete: a value, or the key of the object under way.
EndString(s) ==
  /\ phase = "string" /\ s = Quote
  /\ buffer' = <<>>
  /\ IF stack # <<>> /\ Top.kind = "object" /\ Top.key = None
     THEN /\ stack' = [stack EXCEPT ![Len(stack)].key = StringOf(CString(buffer))]
          /\ phase' = "colon" /\ UNCHANGED <<value, live>>
     ELSE Complete(stack, StringOf(CString(buffer)), 0)
  /\ UNCHANGED first

-----------------------------------------------------------------------------
\* json_stringify of what has been read, and json_parse of that.
ReadAgain ==
  /\ phase = "accepted" /\ first = None
  /\ text' = Append(Stringify(value), End) /\ first' = value
  /\ index' = 0 /\ phase' = "value" /\ value' = None /\ live' = 0
  /\ UNCHANGED <<stack, buffer, past>>

Done == /\ phase = "rejected" \/ (phase = "accepted" /\ first # None)
        /\ UNCHANGED vars

Init ==
  /\ text = <<>> /\ index = 0 /\ stack = <<>> /\ phase = "value" /\ buffer = <<>>
  /\ value = None /\ live = 0 /\ past = FALSE /\ first = None

Parse(s) ==
  /\ Reads(s)
  /\ \/ SkipWhitespace(s) \/ ParseValue(s) \/ ParseKey(s) \/ ParseColon(s)
     \/ Close(s) \/ Separator(s) \/ Trailing(s)
     \/ Character(s) \/ Escape(s) \/ Unicode(s) \/ EndString(s)

Next == (\E s \in Symbols : Parse(s)) \/ Unwind \/ Reject \/ ReadAgain \/ Done

Spec == Init /\ [][Next]_vars

-----------------------------------------------------------------------------
(* The texts that are documents, and what they mean: a reference that knows
   nothing of how they are read. *)

\* What may stand for one character in a string.
Units == {<< <<c>>, c>> : c \in {"n", "u"}}
         \cup {<< <<Backslash, c>>, c>> : c \in {Quote, Backslash}}
         \cup {<< <<Backslash, "n">>, "newline">>, << <<Backslash, "u", "0000">>, "NUL">>,
               << <<Backslash, "u", "d83d", Backslash, "u", "de00">>, "d83dde00">>}
         \cup {<< <<Backslash, "u", d>>, d>> : d \in {"00e9", "de00"}}

\* Of two sets of <<text, meaning>>, those of one behind a member of the other.
Pairs(S, between, T, Meaning(_, _)) ==
  {<<p[1][1] \o between \o p[2][1], Meaning(p[1][2], p[2][2])>> : p \in S \X T}

Within(open, S, close, Meaning(_)) == {<<open \o p[1] \o close, Meaning(p[2])>> : p \in S}

\* Of the last value that a key is given, in the place of its first.
RECURSIVE LastOf(_)
LastOf(pairs) ==
  IF pairs = <<>> THEN <<>>
  ELSE LET key == pairs[1][1]
           same == SelectSeq(pairs, LAMBDA p : p[1] = key) IN
       <<Last(same)>> \o LastOf(SelectSeq(pairs, LAMBDA p : p[1] # key))

\* The characters, values, items and pairs of exactly n symbols, from those g of
\* less: g[k] is that of k symbols.
Level(g, n) ==
  LET chars == UNION {IF Len(u[1]) = n THEN {<<u[1], <<u[2]>> >>}
                      ELSE IF Len(u[1]) > n THEN {}
                      ELSE Within(<<>>, g[n - Len(u[1])].chars, u[1], LAMBDA m : Append(m, u[2]))
                      : u \in Units}
      strings == IF n = 1 THEN {<< <<x>>, StringOf(<<x>>)>> : x \in Names}
                 ELSE IF n = 2 THEN {<< <<Quote, Quote>>, StringOf(<<>>)>>}
                 ELSE Within(<<Quote>>, g[n - 2].chars, <<Quote>>, LAMBDA m : StringOf(CString(m)))
      values == strings \cup
                CASE n = 1 -> {<< <<"null">>, Null>>} \cup {<< <<x>>, NumberOf(x)>> : x \in Numbers}
                  [] n = 2 -> {<< <<"[", "]">>, ListOf(<<>>)>>, << <<"{", "}">>, ObjectOf(<<>>)>>}
                  [] OTHER -> Within(<<"[">>, g[n - 2].items, <<"]">>, ListOf)
                              \cup Within(<<"{">>, g[n - 2].pairs, <<"}">>,
                                          LAMBDA m : ObjectOf(LastOf(m)))
      pair == UNION {Pairs(g[k].strings, <<":">>, g[n - 1 - k].values, LAMBDA key, v : << <<key, v>> >>)
                     : k \in 1..(n - 2)}
      items == Within(<<>>, values, <<>>, LAMBDA m : <<m>>)
               \cup UNION {Pairs(g[k].items, <<",">>, g[n - 1 - k].values, Append) : k \in 1..(n - 2)}
      pairs == pair \cup UNION {Pairs(g[k].pairs, <<",">>, g[n - 1 - k].pair, LAMBDA a, b : a \o b)
                                : k \in 1..(n - 2)}
  IN [chars |-> chars, strings |-> strings, values |-> values, items |-> items,
      pair |-> pair, pairs |-> pairs]

Documents ==
  LET levels == FoldLeft(LAMBDA g, n : Append(g, Level(g, n)), <<>>, [n \in 1..MaxLength |-> n])
  IN UNION {{<<Append(d[1], End), d[2]>> : d \in levels[n].values} : n \in 1..MaxLength}

Beginnings == UNION {{SubSeq(d[1], 1, k) : k \in 1..Len(d[1])} : d \in Documents}

-----------------------------------------------------------------------------
(* Properties. *)

Unspaced(t) == SelectSeq(t, LAMBDA s : s # Space)

\* A text is accepted if it is a document, with what the document means: the last
\* value of each key in the place of its first, strings up to their first NUL.  A
\* text is rejected if no document begins as it does up to where it was read.
AcceptsExactly ==
  first = None =>
    /\ phase = "accepted" => <<Unspaced(text), value>> \in Documents
    /\ phase = "rejected" => Unspaced(text) \notin Beginnings

\* What is left of a value when its numbers have been printed.
RECURSIVE Rounded(_)
Rounded(v) ==
  CASE v[1] \in {"null", "string"} -> v
    [] v[1] = "number" -> NumberOf(Printed(v[2]))
    [] v[1] = "list" -> ListOf([i \in DOMAIN v[2] |-> Rounded(v[2][i])])
    [] v[1] = "object" -> ObjectOf([i \in DOMAIN v[2] |-> <<v[2][i][1], Rounded(v[2][i][2])>>])

\* What json_parse has accepted, json_stringify writes so that json_parse reads the
\* same again, with numbers rounded; but not if one of them is infinity, whose
\* spelling does not begin as a number has to.  Minus infinity is read again.
RoundTrip ==
  first # None =>
    /\ phase = "accepted" => value = Rounded(first) /\ ~Contains(text, "inf")
    /\ phase \in {"failed", "rejected"} => Contains(text, "inf")

\* At every moment the parser has as many blocks as the lists, objects and keys of
\* the calls under way, the string that is being read and the result take: after
\* an error, wherever it happened, none.
NothingLeaked ==
  /\ live = Sum([k \in DOMAIN stack |-> FrameBlocks(stack[k])])
            + (IF phase \in InString THEN 1 ELSE 0) + Blocks(value)
  /\ phase = "rejected" => live = 0

\* The parser reads behind the end of a text only if the text ends with the escape
\* of a high surrogate, and the text is rejected then.
ReadsInText ==
  past => /\ Len(text) > 2 /\ SubSeq(text, Len(text) - 2, Len(text)) = <<"u", "d83d", End>>
          /\ phase \in {"failed", "rejected"}
=============================================================================
