------------------------------ MODULE MCModules -------------------------------
(***************************************************************************)
(* Instances of Modules for TLC: the texts of the files.                   *)
(***************************************************************************)
EXTENDS Modules, TLC

CONSTANTS a, b, x, y, z, pr

\* The program imports a and b, a imports b, builtins imports b as the real
\* one imports builtins/math.  x is public in a and in the program, y and z
\* are made by b, z under @private, y now with it and now without, and a also
\* assigns a native name.
Layered == (Main :> {a, b}) @@ (a :> {b}) @@ (b :> {}) @@ (Builtins :> {b})
PublicNames == (Main :> {x}) @@ (a :> {x, pr}) @@ (b :> {y}) @@ (Builtins :> {})
PrivateNames == (Main :> {}) @@ (a :> {}) @@ (b :> {y, z}) @@ (Builtins :> {})
===============================================================================
