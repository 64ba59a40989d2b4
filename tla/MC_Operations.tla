--------------------------- MODULE MC_Operations ---------------------------
(***************************************************************************)
(* An instance of Operations and of its pages for TLC.  The initial state  *)
(* chooses: all handlers serve any call (Operations), or w1 serves the     *)
(* clicks of one page while the others serve any call (OperationsScreen).  *)
(***************************************************************************)
EXTENDS OperationsScreen, TLC

VARIABLE pages

MCInit == ScreenInit /\ pages \in BOOLEAN

MCNext ==
    /\ UNCHANGED pages
    /\ IF pages THEN ScreenNext
       ELSE Next /\ UNCHANGED shown

MCSpec == MCInit /\ [][MCNext]_<<pages, screenVars>>

Symmetry == Permutations(Requests)
=============================================================================
