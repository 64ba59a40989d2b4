-------------------------- MODULE MC_Documentation --------------------------
(* An instance of Documentation for TLC; lines, tasks and callers are      *)
(* interchangeable.                                                        *)
EXTENDS Documentation, TLC
Symmetry == Permutations(Handlers) \cup Permutations(TaskIds) \cup Permutations(Lines)
=============================================================================
