--------------------------- MODULE MCResumeStore ---------------------------
(***************************************************************************)
(* Instances of ResumeStore for TLC.                                       *)
(***************************************************************************)
EXTENDS ResumeStore, TLC

Symmetry == Permutations(Requests) \union Permutations(Contents)
=============================================================================
