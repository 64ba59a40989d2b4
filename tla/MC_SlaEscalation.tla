-------------------------- MODULE MC_SlaEscalation --------------------------
(* Two bugs that compete for a window of one.                              *)
EXTENDS SlaEscalation, TLC
CONSTANTS b1, b2
MCRows == {b1, b2}
MCKind == (b1 :> "bug") @@ (b2 :> "bug")
=============================================================================
