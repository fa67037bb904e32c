------------------------------ MODULE MCServer ------------------------------
(***************************************************************************)
(* Instances of Server for TLC, with names that have no NUL in them; the   *)
(* theorems of ServerProofs hold for any names.                            *)
(***************************************************************************)
EXTENDS Server, TLC

MCCString(f) == f

\* The fields are alike, and so are the geometries.
Symmetry == Permutations(Geoms) \union Permutations(Fields)
=============================================================================
