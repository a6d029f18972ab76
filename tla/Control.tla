------------------------------- MODULE Control --------------------------------
(***************************************************************************)
(* How the interpreter leaves statements: break, continue and return.      *)
(*                                                                         *)
(* run_ast (src/src/interpreter/interpreter.c:1313-1643) calls itself for  *)
(* blocks, for the bodies of loops and, through expressions, for functions *)
(* and modules.  `return` sets a flag of the current call frame; `break`   *)
(* and `continue` set one flag each for the whole interpreter (29-30).     *)
(* Every activation of run_ast looks at the flags after each statement and *)
(* gives up when one is set; every loop looks at them after each turn and  *)
(* clears the ones that are meant for it.                                  *)
(*                                                                         *)
(* `acts` is the C stack of those activations.  The script is              *)
(* nondeterministic: whenever script code runs, it may go on with any kind *)
(* of statement, and an expression may call functions any number of times. *)
(***************************************************************************)
EXTENDS Naturals, Sequences, FiniteSets

CONSTANTS MaxActs,      \* bound on nested activations
          StrayAllowed  \* may break and continue stand outside every loop?

ASSUME ControlAssumption == MaxActs \in Nat \ {0} /\ StrayAllowed \in BOOLEAN

VARIABLES acts,         \* activations of run_ast and of loops, innermost last
          frames,       \* call_stack.frames
          break_flag,
          continue_flag,
          target,       \* the loop around the last break or continue executed
          stray         \* has one been executed outside the loops of its function

controlVars == <<acts, frames, break_flag, continue_flag, target, stray>>
flags == <<break_flag, continue_flag>>
ghosts == <<target, stray>>     \* not in the code, for the properties

\* A body is run_ast on a program, a module or a function, with a call frame;
\* a block is run_ast on a branch or on the body of a loop.
Kinds == {"body", "block", "loop"}

\* next: before a statement; mid: its expressions are being evaluated (for a
\* loop: its condition, or the next item); check: it, or a turn of the loop,
\* is over and the flags are looked at.
Phases == {"next", "mid", "check"}

CallFrames == [returning : BOOLEAN]
NewFrame == [returning |-> FALSE]

Activations == [kind : Kinds, phase : Phases]
New(kind, phase) == [kind |-> kind, phase |-> phase]

Nesting == Len(acts)
Innermost == acts[Nesting]

\* An activation waits for the one above it in the middle of an expression,
\* if that is a call, or at the end of a statement or turn.
WellNested ==
  \A i \in 1..Nesting :
    /\ i = 1 => acts[i].kind = "body"
    /\ i < Nesting => acts[i].phase = IF acts[i + 1].kind = "body" THEN "mid" ELSE "check"

ControlTypes ==
  /\ acts \in Seq(Activations) /\ WellNested
  /\ frames \in Seq(CallFrames)
  /\ break_flag \in BOOLEAN /\ continue_flag \in BOOLEAN
  /\ target \in SUBSET Nat
  /\ stray \in BOOLEAN

Returning == frames[Len(frames)].returning      \* of current_frame

\* The innermost loop around the statement, if its function has one there.
LoopAround ==
  {i \in 1..Nesting : /\ acts[i].kind = "loop"
                      /\ \A j \in (i + 1)..Nesting : acts[j].kind = "block"}

\* run_ast, or a loop, is over; the frame of a body goes with it (pop_frame).
Leave ==
  /\ acts' = SubSeq(acts, 1, Nesting - 1)
  /\ frames' = IF Innermost.kind = "body" THEN SubSeq(frames, 1, Len(frames) - 1) ELSE frames

TopBecomes(phase) ==
  acts' = [acts EXCEPT ![Nesting].phase = phase] /\ UNCHANGED frames

\* A new activation starts over the top one, which goes on in `phase`.
PushOver(phase, new) ==
  /\ Nesting < MaxActs
  /\ acts' = Append([acts EXCEPT ![Nesting].phase = phase], new)

-----------------------------------------------------------------------------
ControlInit ==
  /\ acts = <<New("body", "next")>>
  /\ frames = <<NewFrame>>
  /\ break_flag = FALSE /\ continue_flag = FALSE
  /\ target = {} /\ stray = FALSE

InStatement == Nesting > 0 /\ Innermost.kind # "loop" /\ Innermost.phase \in {"next", "mid"}
BeforeStatement == InStatement /\ Innermost.phase = "next"
BeforeTurn == Nesting > 0 /\ Innermost.kind = "loop" /\ Innermost.phase = "mid"

\* An expression calls a function, a method, an iterator's __next__, awaits a
\* task or imports a module: push_frame and run_ast on its body.
Call ==
  /\ InStatement \/ BeforeTurn
  /\ PushOver("mid", New("body", "next"))
  /\ frames' = Append(frames, NewFrame)
  /\ UNCHANGED <<flags, ghosts>>

\* A statement with no statements inside is over.
SimpleStatement ==
  /\ InStatement
  /\ TopBecomes("check")
  /\ UNCHANGED <<flags, ghosts>>

\* A branch of `if`, `elif` or `else`.
BeginBlock ==
  /\ InStatement
  /\ PushOver("check", New("block", "next"))
  /\ UNCHANGED frames
  /\ UNCHANGED <<flags, ghosts>>

\* `for` and `while`.
BeginLoop ==
  /\ InStatement
  /\ PushOver("check", New("loop", "mid"))
  /\ UNCHANGED frames
  /\ UNCHANGED <<flags, ghosts>>

\* The condition holds, or there is another item: the body runs once.
BeginTurn ==
  /\ BeforeTurn
  /\ PushOver("check", New("block", "next"))
  /\ UNCHANGED frames
  /\ UNCHANGED <<flags, ghosts>>

\* The condition fails, or the items are used up.
EndLoop ==
  /\ BeforeTurn
  /\ Leave
  /\ UNCHANGED <<flags, ghosts>>

\* Nothing is left to run; a body gives its frame back.
EndOfStatements ==
  /\ BeforeStatement
  /\ Leave
  /\ UNCHANGED <<flags, ghosts>>

\* `break` and `continue` leave this run_ast at once.  The parser accepts them
\* anywhere (parser.c:1063-1071).
Escape ==
  /\ BeforeStatement
  /\ LoopAround = {} => StrayAllowed
  /\ target' = LoopAround
  /\ stray' = (stray \/ LoopAround = {})
  /\ Leave
Break == Escape /\ break_flag' = TRUE /\ UNCHANGED continue_flag
Continue == Escape /\ continue_flag' = TRUE /\ UNCHANGED break_flag

\* Mutant of ReturnStatement: the frame of the body is not given back.
ReturnStatement_KeepsFrame ==
  /\ InStatement
  /\ acts' = SubSeq(acts, 1, Nesting - 1)
  /\ frames' = [frames EXCEPT ![Len(frames)].returning = TRUE]
  /\ UNCHANGED <<flags, ghosts>>

\* `return` sets the flag of the frame and leaves this run_ast at once; when
\* that is the body itself, pop_frame takes the frame and its flag away.
ReturnStatement ==
  /\ InStatement
  /\ acts' = SubSeq(acts, 1, Nesting - 1)
  /\ frames' = IF Innermost.kind = "body" THEN SubSeq(frames, 1, Len(frames) - 1)
                ELSE [frames EXCEPT ![Len(frames)].returning = TRUE]
  /\ UNCHANGED <<flags, ghosts>>

\* After a statement (interpreter.c:1635-1639).
CheckStatement ==
  /\ Nesting > 0 /\ Innermost.kind # "loop" /\ Innermost.phase = "check"
  /\ IF Returning \/ break_flag \/ continue_flag THEN Leave ELSE TopBecomes("next")
  /\ UNCHANGED <<flags, ghosts>>

\* Mutants of CheckTurn: break is not cleared; return is not looked at.
CheckTurn_KeepsBreak ==
  /\ Nesting > 0 /\ Innermost.kind = "loop" /\ Innermost.phase = "check"
  /\ IF Returning \/ break_flag THEN Leave ELSE TopBecomes("mid")
  /\ IF Returning \/ break_flag
     THEN UNCHANGED continue_flag ELSE continue_flag' = FALSE
  /\ UNCHANGED <<break_flag, ghosts>>

CheckTurn_IgnoresReturn ==
  /\ Nesting > 0 /\ Innermost.kind = "loop" /\ Innermost.phase = "check"
  /\ IF break_flag THEN Leave ELSE TopBecomes("mid")
  /\ break_flag' = FALSE
  /\ IF break_flag THEN UNCHANGED continue_flag ELSE continue_flag' = FALSE
  /\ UNCHANGED ghosts

\* After a turn of a loop (1504-1518, 1527-1541, 1567-1581, 1589-1602): return
\* is looked at first, then break, then continue.
CheckTurn ==
  /\ Nesting > 0 /\ Innermost.kind = "loop" /\ Innermost.phase = "check"
  /\ IF Returning \/ break_flag THEN Leave ELSE TopBecomes("mid")
  /\ IF Returning THEN UNCHANGED break_flag ELSE break_flag' = FALSE
  /\ IF Returning \/ break_flag
     THEN UNCHANGED continue_flag ELSE continue_flag' = FALSE
  /\ UNCHANGED ghosts

Script ==
  \/ Call \/ SimpleStatement \/ BeginBlock \/ BeginLoop \/ BeginTurn
  \/ EndLoop \/ EndOfStatements \/ Break \/ Continue \/ ReturnStatement

ControlNext == Script \/ CheckStatement \/ CheckTurn

ControlSpec == ControlInit /\ [][ControlNext]_controlVars

-----------------------------------------------------------------------------
(* Properties.                                                             *)

\* There is a frame for every body that is running and no other, however the
\* bodies are left.
FramesBalanced == Len(frames) = Cardinality({i \in 1..Nesting : acts[i].kind = "body"})

\* Once `return` has been executed nothing more of that function runs, whatever
\* loops and blocks it stands in, and no other function is cut short by it:
\* only the frame in which it was executed is marked, and its code is on its
\* way out.
ReturnUnwinds ==
  \A i \in 1..Len(frames) : frames[i].returning =>
    i = Len(frames) /\ Nesting > 0 /\ Innermost.phase = "check"

\* A break or continue reaches the loop it stands in, the innermost one of its
\* own function, and runs no code on the way; when that loop has seen it, both
\* flags are clear again.  So it is while every break and continue stands in a
\* loop of its function; one that does not is seen by whatever loop calls the
\* function, or by a loop of the next function called.
EscapeReachesItsLoop ==
  ~stray /\ (break_flag \/ continue_flag) =>
    /\ ~(break_flag /\ continue_flag)
    /\ target # {} /\ target = LoopAround
    /\ Innermost.phase = "check" /\ ~Returning
===============================================================================
