------------------------ MODULE MC_BillingConcurrent ------------------------
EXTENDS Billing, TLC
(* -1: the discount exceeds subtotal plus tax.                            *)
ConcurrentTotals == {-1, 2}
Symmetry == Permutations(Workers) \cup Permutations(Keys)
=============================================================================
