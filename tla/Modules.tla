------------------------------- MODULE Modules --------------------------------
(***************************************************************************)
(* The module loader of the Able interpreter.                              *)
(*                                                                         *)
(* An import runs the file of a module the first time, in an environment   *)
(* of its own whose parent is the global one, copies the variables of that *)
(* environment that are not private into an object, and caches the object  *)
(* (src/src/interpreter/module.c:61-100).  Start-up imports `builtins` and *)
(* copies everything it exports into the global environment                *)
(* (builtins.c:31-36).  The program itself runs in the global environment. *)
(*                                                                         *)
(* Assignments and imports bind names with set_variable, which writes to   *)
(* an existing variable of the environment or its parent and keeps its     *)
(* privacy, and makes a new one only when there is none (env.c:51-72).     *)
(*                                                                         *)
(* What the text of each file may contain is a constant; which statements  *)
(* it executes, and in what order, is nondeterministic.                    *)
(***************************************************************************)
EXTENDS Naturals, Sequences, FiniteSets

CONSTANTS Files,        \* the modules: files an import can find
          Builtins,     \* the module that start-up imports
          Main,         \* the program
          Names,        \* variable names, other than those of modules
          Natives,      \* names that builtins_register defines itself
          Public,       \* names each file assigns
          Private,      \* names each file assigns under @private
          Imports,      \* modules each file imports, whole or names of it
          MaxNesting    \* bound on files being run at once

Code == Files \cup {Main}
Variables == Names \cup Files           \* `import m` binds the name of m

ASSUME ModulesAssumption ==
  /\ IsFiniteSet(Files) /\ Main \notin Files /\ Builtins \in Files
  /\ Names \cap Files = {} /\ Natives \subseteq Names
  /\ Public \in [Code -> SUBSET Names]
  /\ Private \in [Code -> SUBSET Names]
  /\ Imports \in [Code -> SUBSET Files]
  /\ MaxNesting \in Nat \ {0, 1}

VARIABLES scope,        \* the environment of each file, that of Main is global
          cached,       \* the keys of the table `modules`
          exports,      \* the object of each cached module
          running,      \* files being run, innermost last
          exited,       \* has an ImportError ended the process
          loads,        \* how many times each file has been run
          wrote,        \* names each file has bound so far
          marked,       \* names it has bound under @private
          hid           \* those of them that it has bound so from the first on

vars == <<scope, cached, exports, running, exited, loads, wrote, marked, hid>>
ghosts == <<loads, wrote, marked, hid>>         \* not in the code, for the properties

\* `wants` is what the import under a file waits for: names of that file, or
\* the file itself for `import m`.
Runs == [code : Code, wants : SUBSET Variables]

TypeOK ==
  /\ scope \in [Code -> [Variables -> {"none", "public", "private"}]]
  /\ cached \in SUBSET Files
  /\ exports \in [Files -> SUBSET Variables]
  /\ running \in Seq(Runs)
  /\ exited \in BOOLEAN
  /\ loads \in [Files -> Nat]
  /\ wrote \in [Code -> SUBSET Variables]
  /\ marked \in [Code -> SUBSET Variables]
  /\ hid \in [Code -> SUBSET Variables]
  /\ \A i \in 1..Len(running) :
       IF i = 1 THEN running[i].code = Main
       ELSE running[i].code \in Files \ cached

Depth == Len(running)
Top == running[Depth]
Script == ~exited /\ Depth > 0

Has(c, x) == scope[c][x] # "none"
Globals == {x \in Variables : Has(Main, x)}

\* set_variable, for each of the names xs: only names that neither the file's
\* environment nor the global one has change anything here.
SetVariables(c, xs, privacy) ==
  scope' = [scope EXCEPT ![c] =
    [x \in Variables |->
       IF x \in xs /\ ~Has(c, x) /\ ~Has(Main, x) THEN privacy ELSE @[x]]]

-----------------------------------------------------------------------------
\* Start-up: the natives are in the global environment and builtins is loaded.
Init ==
  /\ scope = [c \in Code |-> [x \in Variables |->
                IF c = Main /\ x \in Natives THEN "public" ELSE "none"]]
  /\ cached = {}
  /\ exports = [m \in Files |-> {}]
  /\ running = <<[code |-> Main, wants |-> {}], [code |-> Builtins, wants |-> {}]>>
  /\ exited = FALSE
  /\ loads = [m \in Files |-> IF m = Builtins THEN 1 ELSE 0]
  /\ wrote = [c \in Code |-> {}]
  /\ marked = [c \in Code |-> {}]
  /\ hid = [c \in Code |-> {}]

\* `x = v`, `fun x` and `class x`, with or without @private.
Assign(x) ==
  /\ Script
  /\ x \in Public[Top.code]
  /\ SetVariables(Top.code, {x}, "public")
  /\ wrote' = [wrote EXCEPT ![Top.code] = @ \cup {x}]
  /\ UNCHANGED <<cached, exports, running, exited, loads, marked, hid>>

AssignPrivate(x) ==
  /\ Script
  /\ x \in Private[Top.code]
  /\ SetVariables(Top.code, {x}, "private")
  /\ wrote' = [wrote EXCEPT ![Top.code] = @ \cup {x}]
  /\ marked' = [marked EXCEPT ![Top.code] = @ \cup {x}]
  /\ hid' = [hid EXCEPT ![Top.code] = @ \cup ({x} \ wrote[Top.code])]
  /\ UNCHANGED <<cached, exports, running, exited, loads>>

\* The end of an import in file c: names that the module m exports are bound,
\* a name it does not export ends the process.
Bind(c, m, wants, exported) ==
  IF wants \subseteq exported \cup {m}
  THEN /\ SetVariables(c, wants, "public")
       /\ wrote' = [wrote EXCEPT ![c] = @ \cup wants]
       /\ UNCHANGED exited
  ELSE exited' = TRUE /\ UNCHANGED <<scope, wrote>>

\* Mutant of ImportCached: the cache is not looked at.
ImportCached_Reloads(m, wants) ==
  /\ Script
  /\ Depth < MaxNesting
  /\ m \in Imports[Top.code] /\ m \in cached
  /\ loads' = [loads EXCEPT ![m] = @ + 1]
  /\ running' = Append(running, [code |-> m, wants |-> wants])
  /\ UNCHANGED <<scope, cached, exports, exited, wrote, marked, hid>>

\* An import of a module that has been loaded.
ImportCached(m, wants) ==
  /\ Script
  /\ m \in Imports[Top.code] /\ m \in cached
  /\ Bind(Top.code, m, wants, exports[m])
  /\ UNCHANGED <<cached, exports, running, loads, marked, hid>>

\* Mutant of Load: the module is cached, with an empty object, before it runs.
Load_CachesEarly(m, wants) ==
  /\ Script
  /\ Depth < MaxNesting
  /\ m \in Imports[Top.code] /\ m \notin cached
  /\ scope' = [scope EXCEPT ![m] = [x \in Variables |-> "none"]]
  /\ cached' = cached \cup {m}
  /\ running' = Append(running, [code |-> m, wants |-> wants])
  /\ loads' = [loads EXCEPT ![m] = @ + 1]
  /\ wrote' = [wrote EXCEPT ![m] = {}]
  /\ marked' = [marked EXCEPT ![m] = {}]
  /\ hid' = [hid EXCEPT ![m] = {}]
  /\ UNCHANGED <<exports, exited>>

\* An import of one that has not: parse it and run it, in a new environment.
\* It is not in the cache before it has been run to its end.  (When a file is
\* loaded again while it is being run, scope keeps the newer environment.)
Load(m, wants) ==
  /\ Script
  /\ Depth < MaxNesting
  /\ m \in Imports[Top.code] /\ m \notin cached
  /\ scope' = [scope EXCEPT ![m] = [x \in Variables |-> "none"]]
  /\ running' = Append(running, [code |-> m, wants |-> wants])
  /\ loads' = [loads EXCEPT ![m] = @ + 1]
  /\ wrote' = [wrote EXCEPT ![m] = {}]
  /\ marked' = [marked EXCEPT ![m] = {}]
  /\ hid' = [hid EXCEPT ![m] = {}]
  /\ UNCHANGED <<cached, exports, exited>>

Exported(m) == {x \in Variables : scope[m][x] = "public"}

\* The file has been run: its public variables become the module's object,
\* the module is cached, and the import goes on.  Start-up, which waits for
\* builtins, binds all of it.
EndOfModule ==
  /\ Script
  /\ Depth > 1
  /\ LET m == Top.code
     IN  /\ cached' = cached \cup {m}
         /\ exports' = [exports EXCEPT ![m] = Exported(m)]
         /\ Bind(running[Depth - 1].code, m,
                 IF m = Builtins THEN Exported(m) ELSE Top.wants, Exported(m))
  /\ running' = SubSeq(running, 1, Depth - 1)
  /\ UNCHANGED <<loads, marked, hid>>

Next ==
  \/ \E x \in Names : Assign(x)
  \/ \E x \in Names : AssignPrivate(x)
  \/ \E m \in Files, x \in Variables : ImportCached(m, {x})
  \/ \E m \in Files, x \in Variables : Load(m, {x})
  \/ EndOfModule

Spec == Init /\ [][Next]_vars

-----------------------------------------------------------------------------
(* Properties.                                                             *)

\* The cache works: the statements of a module are run once.  (Files that import
\* each other in a circle are run again on each turn of it, as a module is cached
\* after it has been run.)
RunOnce == \A m \in Files : loads[m] <= 1

\* The object of a module has every name that the module has bound and never
\* marked @private, and none that was marked where it was first bound.  The
\* exception is a name that is a global variable by then: the module has written
\* over that instead of making its own (also `import m` and `from m import x`,
\* which a module passes on only if the program has not made the same import
\* before it).
ExportsWhatItBinds ==
  \A m \in cached : /\ wrote[m] \ marked[m] \subseteq exports[m] \cup Globals
                     /\ hid[m] \cap exports[m] = {}

\* "Functions or variables marked with `@private` will not be exported when the
\* module is imported" (README.md:104).  The code does not keep this: an existing
\* variable keeps its is_private (env.c:58), so a name that the module has bound
\* before it marks it is exported all the same.
MarkedIsNotExported == \A m \in cached : marked[m] \cap exports[m] = {}
=============================================================================
