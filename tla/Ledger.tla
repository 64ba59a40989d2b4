------------------------------- MODULE Ledger -------------------------------
(***************************************************************************)
(* What billing promises, with no statuses and no handlers: a bill is      *)
(* opened once with an amount due, and every receipt, identified by its    *)
(* key, lowers what is due on one bill by exactly its amount, once.        *)
(***************************************************************************)
EXTENDS Integers

CONSTANTS Bills, Keys

VARIABLES
    due,       \* [Bills -> amount outstanding]
    opened,    \* the bills that exist
    receipts   \* set of [key, bill, amount]

Init ==
    /\ due = [b \in Bills |-> 0]
    /\ opened = {}
    /\ receipts = {}

Open(b, amount) ==
    /\ b \notin opened
    /\ opened' = opened \cup {b}
    /\ due' = [due EXCEPT ![b] = amount]
    /\ UNCHANGED receipts

Collect(k, b, amount) ==
    /\ b \in opened
    /\ \A r \in receipts : r.key # k
    /\ amount \in 1 .. due[b]
    /\ due' = [due EXCEPT ![b] = @ - amount]
    /\ receipts' = receipts \cup {[key |-> k, bill |-> b, amount |-> amount]}
    /\ UNCHANGED opened

(* A bill is opened for the amount it then has due; a receipt is for what  *)
(* it takes off.                                                           *)
Next ==
    \E b \in Bills :
        \/ due'[b] >= 0 /\ Open(b, due'[b])
        \/ \E k \in Keys : Collect(k, b, due[b] - due'[b])

Spec == Init /\ [][Next]_<<due, opened, receipts>>
=============================================================================
