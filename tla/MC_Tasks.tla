------------------------------ MODULE MC_Tasks ------------------------------
(***************************************************************************)
(* An instance of Tasks and of its pages for TLC.  The initial state       *)
(* chooses: the calls come from anywhere (Tasks), or also from a page      *)
(* (TaskScreens).                                                          *)
(***************************************************************************)
EXTENDS TaskScreens

VARIABLE pages

MCInit == ScreenInit /\ pages \in BOOLEAN

MCNext ==
    /\ UNCHANGED pages
    /\ IF pages THEN ScreenNext
       ELSE Next /\ UNCHANGED <<shown, form, caller>>

MCSpec == MCInit /\ [][MCNext]_<<pages, screenVars>>
=============================================================================
