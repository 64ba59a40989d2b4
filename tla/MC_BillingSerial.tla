-------------------------- MODULE MC_BillingSerial --------------------------
EXTENDS BillingLedger, TLC
(* A discount may exceed the rest of the invoice, or cancel it exactly.    *)
SerialTotals == {-1, 0, 2}
Symmetry == Permutations(Keys)
=============================================================================
