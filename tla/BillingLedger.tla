--------------------------- MODULE BillingLedger ----------------------------
(***************************************************************************)
(* Billing seen as a Ledger: what is due on an invoice is its total less   *)
(* paidAmount, and the receipts are the COMPLETED payments.                *)
(***************************************************************************)
EXTENDS Billing, FiniteSetsExt

Completed == {k \in Keys : payment[k].status = "COMPLETED"}

L == INSTANCE Ledger WITH
    Bills <- Invoices,
    due <- [i \in Invoices |-> invoice[i].total - invoice[i].paid],
    opened <- Numbered,
    receipts <- {[key |-> k, bill |-> payment[k].inv, amount |-> payment[k].amount] :
                    k \in Completed}

(* Where credits do not cross (CreditedAlone), as with one handler at a    *)
(* time, and handlers aborted at any await, billing implements the ledger: *)
(* each COMPLETED payment was credited to its own invoice exactly once and *)
(* for its amount, whatever webhooks and retries of the key are repeated.  *)
ImplementsLedger == L!Spec

(* Reconciliation ("Manual bank payment: Reconciliation invoice", UAT U6): *)
(* an invoice's paidAmount is the sum of its COMPLETED payments.  Two      *)
(* handlers that read the same paidAmount lose one credit.                 *)
Reconciled ==
    \A i \in Invoices :
        invoice[i].paid = MapThenSumSet(LAMBDA k : payment[k].amount,
                                        {k \in Completed : payment[k].inv = i})
=============================================================================
