---------------------------- MODULE ModulesProofs ----------------------------
(***************************************************************************)
(* Proofs about module Modules, for any files that do not import one       *)
(* another in a circle, whatever each of them assigns, hides and imports.  *)
(***************************************************************************)
EXTENDS Modules, SequenceTheorems, TLAPS

\* No circles: files have levels, and each imports files of lower ones only.
Layered(L) ==
  /\ L \in [Code -> Nat]
  /\ \A c \in Code : \A m \in Imports[c] : L[m] < L[c]

Types ==
  /\ scope \in [Code -> [Variables -> {"none", "public", "private"}]]
  /\ cached \in SUBSET Files
  /\ exports \in [Files -> SUBSET Variables]
  /\ running \in Seq(Runs) /\ running # <<>>
  /\ loads \in [Files -> Nat]
  /\ wrote \in [Code -> SUBSET Variables]
  /\ hid \in [Code -> SUBSET Variables]

\* Each file being run was imported by the one below it, and none of them is in
\* the cache.
Chain(L) ==
  /\ running[1].code = Main
  /\ \A i \in 2..Depth : running[i].code \in Files \ cached
  /\ \A i, j \in 2..Depth : i < j => L[running[j].code] < L[running[i].code]

\* A file that has been run is in the cache, or will be when it ends.
Loaded ==
  \A m \in Files :
    /\ loads[m] <= 1
    /\ loads[m] = 1 => m \in cached \/ \E i \in 2..Depth : running[i].code = m

\* Where the names are that a file has bound.
Kept(m) ==
  \A x \in Variables :
    /\ scope[m][x] # "none" => x \in wrote[m]
    /\ scope[m][x] = "private" => x \in hid[m]
    /\ x \in hid[m] => scope[m][x] = "private" \/ (scope[m][x] = "none" /\ x \in Globals)
    /\ x \in wrote[m] \ hid[m] => scope[m][x] = "public" \/ x \in Globals

\* What has been hidden has been marked @private.
Marked ==
  /\ marked \in [Code -> SUBSET Variables]
  /\ \A c \in Code : hid[c] \subseteq marked[c]

AllKept == \A m \in Files : Kept(m)
Final == \A m \in cached : exports[m] = Exported(m)

IInv(L) == Types /\ Chain(L) /\ Loaded /\ AllKept /\ Final

-----------------------------------------------------------------------------
(* The stack of files being run.                                           *)

LEMMA TopRuns ==
  ASSUME NEW L, Types, Chain(L)
  PROVE  /\ Depth \in Nat \ {0}
         /\ \A i \in 1..Depth : running[i] \in Runs /\ running[i].code \in Code
         /\ Top.code \in Code \ cached
<1>1. Depth \in Nat \ {0}
  BY EmptySeq, LenProperties DEF Types, Depth
<1>2. \A i \in 1..Depth : running[i] \in Runs
  BY <1>1, ElementOfSeq DEF Types, Depth
<1>3. Main \notin cached
  BY ModulesAssumption DEF Types
<1> QED
  BY <1>1, <1>2, <1>3 DEF Runs, Chain, Top, Code, Types

\* A file that the one being run imports, and that is not in the cache, is
\* not being run.
LEMMA ImportIsNew ==
  ASSUME NEW L, Layered(L), Types, Chain(L), NEW m \in Imports[Top.code]
  PROVE  /\ m \in Files
         /\ \A i \in 2..Depth : running[i].code # m /\ L[m] < L[running[i].code]
<1>1. Top.code \in Code /\ Depth \in Nat \ {0}
  BY TopRuns
<1>2. m \in Files /\ m \in Code
  BY <1>1, ModulesAssumption DEF Code
<1>3. L \in [Code -> Nat] /\ L[m] < L[Top.code]
  BY <1>1 DEF Layered
<1>4. ASSUME NEW i \in 2..Depth
      PROVE  L[m] < L[running[i].code]
  <2>1. running[i].code \in Code
    BY <1>1, TopRuns
  <2>2. CASE i = Depth
    BY <2>2, <1>3 DEF Top
  <2>3. CASE i < Depth
    <3>1. L[Top.code] < L[running[i].code]
      BY <2>3, <1>1 DEF Chain, Top
    <3>2. L[m] \in Nat /\ L[Top.code] \in Nat /\ L[running[i].code] \in Nat
      BY <1>1, <1>2, <1>3, <2>1
    <3> QED
      BY <3>1, <3>2, <1>3
  <2> QED
    BY <2>2, <2>3, <1>1
<1>5. \A i \in 2..Depth : L[m] < L[running[i].code]
  BY <1>4
<1>6. L[m] \in Nat
  BY <1>2, <1>3
<1> QED
  BY <1>2, <1>5, <1>6

-----------------------------------------------------------------------------
(* Names.                                                                  *)

\* What a file has bound stays in its place when names are bound in some file,
\* under @private or not.
LEMMA BindingKeeps ==
  ASSUME Types, AllKept, NEW c \in Code, NEW xs \in SUBSET Variables,
         NEW privacy \in {"public", "private"},
         SetVariables(c, xs, privacy),
         wrote' = [wrote EXCEPT ![c] = @ \cup xs],
         hid' = IF privacy = "private" THEN [hid EXCEPT ![c] = @ \cup (xs \ wrote[c])] ELSE hid
  PROVE  /\ scope' \in [Code -> [Variables -> {"none", "public", "private"}]]
         /\ wrote' \in [Code -> SUBSET Variables] /\ hid' \in [Code -> SUBSET Variables]
         /\ \A d \in Code \ {c} : scope'[d] = scope[d]
         /\ AllKept'
<1>1. /\ scope' \in [Code -> [Variables -> {"none", "public", "private"}]]
      /\ wrote' \in [Code -> SUBSET Variables] /\ hid' \in [Code -> SUBSET Variables]
  BY DEF Types, SetVariables
<1>2. \A d \in Code \ {c} : scope'[d] = scope[d] /\ wrote'[d] = wrote[d] /\ hid'[d] = hid[d]
  BY DEF Types, SetVariables
<1>3. \A x \in Variables :
        scope'[c][x] = IF x \in xs /\ scope[c][x] = "none" /\ scope[Main][x] = "none"
                       THEN privacy ELSE scope[c][x]
  BY DEF Types, SetVariables, Has
<1>4. /\ wrote'[c] = wrote[c] \cup xs
      /\ hid'[c] = IF privacy = "private" THEN hid[c] \cup (xs \ wrote[c]) ELSE hid[c]
  BY DEF Types
<1>5. Globals \subseteq Globals'
  <2> SUFFICES ASSUME NEW x \in Variables, scope[Main][x] # "none"
               PROVE  scope'[Main][x] # "none"
    BY DEF Globals, Has
  <2>1. Main \in Code
    BY DEF Code
  <2> QED
    BY <2>1, <1>2, <1>3
<1>6. ASSUME NEW m \in Files
      PROVE  Kept(m)'
  <2>1. Kept(m) /\ m \in Code
    BY DEF AllKept, Code
  <2>2. CASE m # c
    <3>1. scope'[m] = scope[m] /\ wrote'[m] = wrote[m] /\ hid'[m] = hid[m]
      BY <2>1, <2>2, <1>2
    <3> QED
      BY <3>1, <2>1, <1>5 DEF Kept
  <2>3. CASE m = c
    <3> SUFFICES ASSUME NEW x \in Variables
                 PROVE  /\ scope'[m][x] # "none" => x \in wrote'[m]
                        /\ scope'[m][x] = "private" => x \in hid'[m]
                        /\ x \in hid'[m] =>
                             scope'[m][x] = "private" \/ (scope'[m][x] = "none" /\ x \in Globals')
                        /\ x \in wrote'[m] \ hid'[m] => scope'[m][x] = "public" \/ x \in Globals'
      BY DEF Kept
    <3>1. scope[m][x] \in {"none", "public", "private"} /\ scope[Main][x] # "none" => x \in Globals
      BY DEF Globals, Has
    <3>2. /\ scope[m][x] # "none" => x \in wrote[m]
          /\ scope[m][x] = "private" => x \in hid[m]
          /\ x \in hid[m] => scope[m][x] = "private" \/ (scope[m][x] = "none" /\ x \in Globals)
          /\ x \in wrote[m] \ hid[m] => scope[m][x] = "public" \/ x \in Globals
      BY <2>1 DEF Kept
    <3>3. scope[m][x] \in {"none", "public", "private"}
      BY <2>1 DEF Types
    <3>4. x \in Globals => scope[Main][x] # "none"
      BY DEF Globals, Has
    <3>5. x \in Globals => x \in Globals'
      BY <1>5
    <3> QED
      BY <3>1, <3>2, <3>3, <3>4, <3>5, <2>3, <1>3, <1>4
  <2> QED
    BY <2>2, <2>3
<1> QED
  BY <1>1, <1>2, <1>6 DEF AllKept

\* The objects of modules are what their environments say as long as only files
\* that are not in the cache bind names.
LEMMA BindingFinal ==
  ASSUME Types, Final, NEW c \in Code \ cached,
         \A d \in Code \ {c} : scope'[d] = scope[d],
         exports' = exports, cached' = cached
  PROVE  Final'
BY DEF Final, Exported, Types, Code

-----------------------------------------------------------------------------
(* The invariant.                                                          *)

LEMMA Initially ==
  ASSUME NEW L, Layered(L), Init
  PROVE  IInv(L)
<1>1. Main \in Code /\ Builtins \in Code /\ Main \notin Files /\ Builtins \in Files
  BY ModulesAssumption DEF Code
<1>2. running = <<[code |-> Main, wants |-> {}], [code |-> Builtins, wants |-> {}]>>
  BY DEF Init
<1>3. Depth = 2 /\ running \in Seq(Runs) /\ running # <<>>
  BY <1>1, <1>2 DEF Depth, Runs
<1>4. running[1].code = Main /\ running[2].code = Builtins
  BY <1>2
<1>5. Types
  BY <1>1, <1>3 DEF Init, Types
<1>6. Chain(L)
  BY <1>1, <1>3, <1>4 DEF Init, Chain
<1>7. Loaded
  BY <1>1, <1>3, <1>4 DEF Init, Loaded
<1>8. AllKept /\ Final
  BY <1>1 DEF Init, AllKept, Kept, Final, Code
<1> QED
  BY <1>5, <1>6, <1>7, <1>8 DEF IInv

\* A step that binds names in the file being run and does nothing else.
LEMMA BindingStep ==
  ASSUME NEW L, IInv(L), NEW xs \in SUBSET Variables, NEW privacy \in {"public", "private"},
         SetVariables(Top.code, xs, privacy),
         wrote' = [wrote EXCEPT ![Top.code] = @ \cup xs],
         hid' = IF privacy = "private"
                THEN [hid EXCEPT ![Top.code] = @ \cup (xs \ wrote[Top.code])] ELSE hid,
         UNCHANGED <<cached, exports, running, loads>>
  PROVE  IInv(L)'
<1> USE DEF IInv
<1>1. Top.code \in Code \ cached
  BY TopRuns
<1>2. /\ scope' \in [Code -> [Variables -> {"none", "public", "private"}]]
      /\ wrote' \in [Code -> SUBSET Variables] /\ hid' \in [Code -> SUBSET Variables]
      /\ \A d \in Code \ {Top.code} : scope'[d] = scope[d]
      /\ AllKept'
  BY <1>1, BindingKeeps
<1>3. Final'
  BY <1>1, <1>2, BindingFinal
<1>4. Types' /\ Chain(L)' /\ Loaded'
  BY <1>2 DEF Types, Chain, Loaded, Depth
<1> QED
  BY <1>2, <1>3, <1>4

LEMMA ImportStep ==
  ASSUME NEW L, IInv(L), NEW m \in Files, NEW x \in Variables, ImportCached(m, {x})
  PROVE  IInv(L)'
<1>1. CASE {x} \subseteq exports[m] \cup {m}
  <2>1. SetVariables(Top.code, {x}, "public") /\ wrote' = [wrote EXCEPT ![Top.code] = @ \cup {x}]
    BY <1>1 DEF ImportCached, Bind
  <2> QED
    BY <2>1, BindingStep DEF ImportCached
<1>2. CASE ~({x} \subseteq exports[m] \cup {m})
  <2>1. UNCHANGED <<scope, wrote, cached, exports, running, loads, hid>>
    BY <1>2 DEF ImportCached, Bind
  <2> QED
    BY <2>1 DEF IInv, Types, Chain, Loaded, AllKept, Kept, Final, Exported, Globals, Has, Depth
<1> QED
  BY <1>1, <1>2

LEMMA LoadStep ==
  ASSUME NEW L, Layered(L), IInv(L), NEW m \in Files, NEW x \in Variables, Load(m, {x})
  PROVE  IInv(L)'
<1> USE DEF IInv
<1>1. m \in Imports[Top.code] /\ m \notin cached
  BY DEF Load
<1>2. \A i \in 2..Depth : running[i].code # m /\ L[m] < L[running[i].code]
  BY <1>1, ImportIsNew
<1>3. Depth \in Nat \ {0} /\ m \in Code /\ m # Main
  BY TopRuns, ModulesAssumption DEF Code
<1>4. [code |-> m, wants |-> {x}] \in Runs
  BY <1>3 DEF Runs
<1>5. /\ running' \in Seq(Runs) /\ running' # <<>> /\ Depth' = Depth + 1
      /\ running'[Depth + 1].code = m
      /\ \A i \in 1..Depth : running'[i] = running[i]
  <2>1. running' = Append(running, [code |-> m, wants |-> {x}]) /\ running \in Seq(Runs)
    BY DEF Load, Types
  <2> QED
    BY <2>1, <1>4 DEF Depth
<1>6. Types'
  BY <1>5, <1>3 DEF Load, Types
<1>7. Chain(L)'
  <2>1. running'[1].code = Main
    BY <1>3, <1>5 DEF Chain
  <2>2. \A i \in 2..(Depth + 1) : running'[i].code \in Files \ cached'
    <3> TAKE i \in 2..(Depth + 1)
    <3>1. cached' = cached
      BY DEF Load
    <3>2. CASE i = Depth + 1
      BY <3>1, <3>2, <1>1, <1>5
    <3>3. CASE i # Depth + 1
      <4>1. i \in 2..Depth /\ i \in 1..Depth
        BY <3>3, <1>3
      <4> QED
        BY <4>1, <3>1, <1>5 DEF Chain
    <3> QED
      BY <3>2, <3>3
  <2>3. \A i, j \in 2..(Depth + 1) : i < j => L[running'[j].code] < L[running'[i].code]
    BY <1>2, <1>3, <1>5 DEF Chain
  <2> QED
    BY <1>5, <2>1, <2>2, <2>3 DEF Chain
<1>8. Loaded'
  <2> SUFFICES ASSUME NEW n \in Files
               PROVE  /\ loads'[n] <= 1
                      /\ loads'[n] = 1 => n \in cached' \/ \E i \in 2..Depth' : running'[i].code = n
    BY DEF Loaded
  <2>1. CASE n = m
    <3>1. loads[m] # 1 /\ loads[m] <= 1 /\ loads[m] \in Nat
      BY <1>1, <1>2 DEF Loaded, Types
    <3>2. loads'[m] = 1
      BY <3>1 DEF Load, Types
    <3> QED
      BY <2>1, <3>2, <1>3, <1>5
  <2>2. CASE n # m
    <3>1. loads'[n] = loads[n] /\ cached' = cached
      BY <2>2 DEF Load, Types
    <3> QED
      BY <3>1, <1>3, <1>5 DEF Loaded
  <2> QED
    BY <2>1, <2>2
<1>9. AllKept'
  <2>1. scope'[Main] = scope[Main]
    BY <1>3 DEF Load, Types, Code
  <2>2. Globals' = Globals
    BY <2>1 DEF Globals, Has
  <2>3. ASSUME NEW n \in Files
        PROVE  Kept(n)'
    <3>1. CASE n = m
      <4>1. wrote'[m] = {} /\ hid'[m] = {} /\ \A y \in Variables : scope'[m][y] = "none"
        BY <1>3 DEF Load, Types
      <4> QED
        BY <3>1, <4>1 DEF Kept
    <3>2. CASE n # m
      <4>1. scope'[n] = scope[n] /\ wrote'[n] = wrote[n] /\ hid'[n] = hid[n]
        BY <3>2 DEF Load, Types, Code
      <4> QED
        BY <4>1, <2>2 DEF AllKept, Kept
    <3> QED
      BY <3>1, <3>2
  <2> QED
    BY <2>3 DEF AllKept
<1>10. Final'
  <2>1. \A n \in cached : scope'[n] = scope[n]
    BY <1>1 DEF Load, Types, Code
  <2> QED
    BY <2>1 DEF Load, Final, Exported, Types
<1> QED
  BY <1>6, <1>7, <1>8, <1>9, <1>10

LEMMA EndStep ==
  ASSUME NEW L, Layered(L), IInv(L), EndOfModule
  PROVE  IInv(L)'
<1> USE DEF IInv
<1> DEFINE m == Top.code
           c == running[Depth - 1].code
           wants == IF m = Builtins THEN Exported(m) ELSE Top.wants
<1>1. Depth \in Nat \ {0, 1} /\ m \in Files \ cached /\ m \in Code /\ m # Main
  <2>1. Depth \in Nat \ {0} /\ Depth > 1
    BY TopRuns DEF EndOfModule
  <2>2. Depth \in 2..Depth
    BY <2>1
  <2>3. m \in Files \ cached
    BY <2>2 DEF Chain, Top
  <2> QED
    BY <2>1, <2>3, ModulesAssumption DEF Code
<1>2. c \in Code /\ c # m /\ c \notin cached
  <2>1. CASE Depth = 2
    <3>1. c = Main
      BY <2>1 DEF Chain
    <3> QED
      BY <3>1, <1>1, ModulesAssumption DEF Code, Types
  <2>2. CASE Depth # 2
    <3>1. Depth - 1 \in 2..Depth /\ Depth \in 2..Depth
      BY <2>2, <1>1
    <3>2. L[m] < L[c] /\ c \in Files \ cached
      BY <3>1, <1>1 DEF Chain, Top
    <3>3. L[m] \in Nat
      BY <1>1 DEF Layered
    <3> QED
      BY <3>2, <3>3 DEF Code
  <2> QED
    BY <2>1, <2>2
<1>3. wants \in SUBSET Variables
  <2>1. Top \in Runs
    BY TopRuns DEF Top
  <2> QED
    BY <2>1 DEF Runs, Exported
<1>4. Bind(c, m, wants, Exported(m)) /\ hid' = hid
  BY DEF EndOfModule
<1>5. /\ scope' \in [Code -> [Variables -> {"none", "public", "private"}]]
      /\ wrote' \in [Code -> SUBSET Variables] /\ hid' \in [Code -> SUBSET Variables]
      /\ \A d \in Code \ {c} : scope'[d] = scope[d]
      /\ AllKept'
  <2>1. CASE wants \subseteq Exported(m) \cup {m}
    <3>1. SetVariables(c, wants, "public") /\ wrote' = [wrote EXCEPT ![c] = @ \cup wants]
      BY <2>1, <1>4 DEF Bind
    <3> HIDE DEF c, wants, m
    <3> QED
      BY <3>1, <1>2, <1>3, <1>4, BindingKeeps
  <2>2. CASE ~(wants \subseteq Exported(m) \cup {m})
    <3>1. UNCHANGED <<scope, wrote, hid>>
      BY <2>2, <1>4 DEF Bind
    <3> QED
      BY <3>1 DEF Types, AllKept, Kept, Globals, Has
  <2> QED
    BY <2>1, <2>2
<1>6. /\ running' \in Seq(Runs) /\ running' # <<>> /\ Depth' = Depth - 1
      /\ \A i \in 1..(Depth - 1) : running'[i] = running[i]
  <2>1. running' = SubSeq(running, 1, Depth - 1) /\ running \in Seq(Runs)
    BY DEF EndOfModule, Types
  <2>2. \A i \in 1..(Depth - 1) : running[i] \in Runs
    BY <1>1, TopRuns
  <2>3. /\ running' \in Seq(Runs)
        /\ Len(running') = IF 1 <= Depth - 1 THEN (Depth - 1) - 1 + 1 ELSE 0
        /\ \A i \in 1..((Depth - 1) - 1 + 1) : running'[i] = running[1 + i - 1]
    BY <2>1, <2>2, <1>1, SubSeqProperties DEF Depth
  <2>4. Depth' = Depth - 1
    <3>1. 1 <= Depth - 1 /\ (Depth - 1) - 1 + 1 = Depth - 1
      BY <1>1
    <3>2. Len(running') = Depth - 1
      BY <2>3, <3>1
    <3> QED
      BY <3>2 DEF Depth
  <2>5. running' # <<>>
    BY <2>3, <2>4, <1>1, EmptySeq DEF Depth
  <2>6. \A i \in 1..(Depth - 1) : running'[i] = running[i]
    <3> TAKE i \in 1..(Depth - 1)
    <3>1. i \in 1..((Depth - 1) - 1 + 1) /\ 1 + i - 1 = i
      BY <1>1
    <3> QED
      BY <3>1, <2>3
  <2> QED
    BY <2>3, <2>4, <2>5, <2>6
<1>7. /\ cached' = cached \cup {m} /\ loads' = loads
      /\ exports' = [exports EXCEPT ![m] = Exported(m)]
  BY DEF EndOfModule
<1>8. Types'
  BY <1>1, <1>5, <1>6, <1>7 DEF Types, Exported
<1>9. Chain(L)'
  <2>1. \A i \in 2..(Depth - 1) : running[i].code # m
    <3> TAKE i \in 2..(Depth - 1)
    <3>1. L[m] < L[running[i].code]
      BY <1>1 DEF Chain, Top
    <3>2. L[m] \in Nat
      BY <1>1 DEF Layered
    <3> QED
      BY <3>1, <3>2
  <2> QED
    BY <2>1, <1>1, <1>6, <1>7 DEF Chain
<1>10. Loaded'
  <2> SUFFICES ASSUME NEW n \in Files, loads[n] = 1, n \notin cached, n # m
               PROVE  \E i \in 2..(Depth - 1) : running'[i].code = n
    BY <1>6, <1>7 DEF Loaded
  <2>1. PICK i \in 2..Depth : running[i].code = n
    BY DEF Loaded
  <2>2. i # Depth
    BY <2>1 DEF Top
  <2>3. i \in 2..(Depth - 1) /\ i \in 1..(Depth - 1)
    BY <2>2, <1>1
  <2> QED
    BY <2>1, <2>3, <1>6
<1>11. Final'
  <2> SUFFICES ASSUME NEW n \in cached'
               PROVE  exports'[n] = {x \in Variables : scope'[n][x] = "public"}
    BY DEF Final, Exported
  <2>1. n \in Code \ {c} /\ n \in Files
    BY <1>1, <1>2, <1>7 DEF Types, Code
  <2>2. scope'[n] = scope[n]
    BY <2>1, <1>5
  <2>3. CASE n = m
    BY <2>2, <2>3, <1>1, <1>7 DEF Types, Exported
  <2>4. CASE n # m
    BY <2>2, <2>4, <2>1, <1>7 DEF Types, Final, Exported
  <2> QED
    BY <2>3, <2>4
<1> QED
  BY <1>5, <1>8, <1>9, <1>10, <1>11

LEMMA Inductive ==
  ASSUME NEW L, Layered(L), IInv(L), [Next]_vars
  PROVE  IInv(L)'
<1>1. ASSUME NEW x \in Names, Assign(x)
      PROVE  IInv(L)'
  <2>1. {x} \in SUBSET Variables
    BY DEF Variables
  <2> QED
    BY <2>1, <1>1, BindingStep DEF Assign
<1>2. ASSUME NEW x \in Names, AssignPrivate(x)
      PROVE  IInv(L)'
  <2>1. {x} \in SUBSET Variables
    BY DEF Variables
  <2> QED
    BY <2>1, <1>2, BindingStep DEF AssignPrivate
<1>3. ASSUME NEW m \in Files, NEW x \in Variables, ImportCached(m, {x})
      PROVE  IInv(L)'
  BY <1>3, ImportStep
<1>4. ASSUME NEW m \in Files, NEW x \in Variables, Load(m, {x})
      PROVE  IInv(L)'
  BY <1>4, LoadStep
<1>5. CASE EndOfModule
  BY <1>5, EndStep
<1>6. CASE UNCHANGED vars
  BY <1>6 DEF vars, IInv, Types, Chain, Loaded, AllKept, Kept, Final, Exported, Globals, Has, Depth
<1> QED
  BY <1>1, <1>2, <1>3, <1>4, <1>5, <1>6 DEF Next

LEMMA MarkedStep ==
  ASSUME NEW L, IInv(L), Marked, [Next]_vars
  PROVE  Marked'
<1>1. Top.code \in Code /\ hid \in [Code -> SUBSET Variables]
  BY TopRuns DEF IInv, Types
<1>2. ASSUME UNCHANGED <<marked, hid>>
      PROVE  Marked'
  BY <1>2 DEF Marked
<1>3. ASSUME NEW x \in Names, AssignPrivate(x)
      PROVE  Marked'
  BY <1>1, <1>3 DEF AssignPrivate, Marked, Variables
<1>4. ASSUME NEW m \in Files, NEW x \in Variables, Load(m, {x})
      PROVE  Marked'
  BY <1>1, <1>4 DEF Load, Marked
<1> QED
  BY <1>2, <1>3, <1>4 DEF Next, Assign, ImportCached, EndOfModule, vars

-----------------------------------------------------------------------------
(* Theorems.                                                               *)

\* The inductive invariant, for files with levels: what is being run is a chain of
\* imports, and what each file has bound and hidden is where it should be.
THEOREM InvariantHolds ==
  ASSUME NEW L, Layered(L)
  PROVE  Spec => []IInv(L)
<1>1. Init => IInv(L)
  BY Initially
<1>2. IInv(L) /\ [Next]_vars => IInv(L)'
  BY Inductive
<1> QED
  BY <1>1, <1>2, PTL DEF Spec

\* And what is hidden is marked.
THEOREM MarkedHolds ==
  ASSUME NEW L, Layered(L)
  PROVE  Spec => []Marked
<1>1. Init => Marked
  BY DEF Init, Marked
<1>2. IInv(L) /\ Marked /\ [Next]_vars => Marked'
  BY MarkedStep
<1> QED
  BY <1>1, <1>2, InvariantHolds, PTL DEF Spec

\* Unless files import one another in a circle, the statements of a module run
\* once, however many files import it, in whatever order.
THEOREM RunsOnce ==
  ASSUME NEW L, Layered(L)
  PROVE  Spec => []RunOnce
<1>1. IInv(L) => RunOnce
  BY DEF IInv, Loaded, RunOnce
<1> QED
  BY <1>1, InvariantHolds, PTL

\* What a module has bound and never marked it exports, except for names that are
\* global by then, and what it has marked from the first on it does not; and it
\* stays so for the rest of the run.
THEOREM ExportsBindings ==
  ASSUME NEW L, Layered(L)
  PROVE  Spec => []ExportsWhatItBinds
<1>1. ASSUME IInv(L), Marked
      PROVE  ExportsWhatItBinds
  <2> SUFFICES ASSUME NEW m \in cached
               PROVE  /\ wrote[m] \ marked[m] \subseteq exports[m] \cup Globals
                      /\ hid[m] \cap exports[m] = {}
    BY DEF ExportsWhatItBinds
  <2>1. m \in Files /\ m \in Code
    BY <1>1 DEF IInv, Types, Code
  <2>2. exports[m] = {x \in Variables : scope[m][x] = "public"}
    BY <1>1 DEF IInv, Final, Exported
  <2>3. wrote[m] \subseteq Variables /\ hid[m] \subseteq Variables
    BY <1>1, <2>1 DEF IInv, Types
  <2>4. Kept(m)
    BY <1>1, <2>1 DEF IInv, AllKept
  <2>5. hid[m] \subseteq marked[m]
    BY <1>1, <2>1 DEF Marked
  <2> QED
    BY <2>2, <2>3, <2>4, <2>5 DEF Kept
<1> QED
  BY <1>1, InvariantHolds, MarkedHolds, PTL
=============================================================================
