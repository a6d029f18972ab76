------------------------------- MODULE MCLending -------------------------------
(***************************************************************************)
(* Lending for TLC.                                                        *)
(***************************************************************************)
EXTENDS Lending, TLC

\* One address is as good as another.
Interchangeable == Permutations(Blocks)
===============================================================================
