------------------------------ MODULE Billing ------------------------------
(***************************************************************************)
(* Invoices and payments (backend/src/services/invoice.service.ts,         *)
(* payment.service.ts and backend/src/payments).                           *)
(*                                                                         *)
(* PostgreSQL holds one row per invoice and one per payment.  Every HTTP   *)
(* request runs a handler; a handler is a sequence of awaited database or  *)
(* network calls, and other handlers run between any two of them.  An      *)
(* action below is one such call together with the synchronous code up to  *)
(* the next await; handler[w] holds the locals that the code keeps across  *)
(* that await, which is where stale values live.  A $transaction is one    *)
(* action: its statements commit together.                                 *)
(*                                                                         *)
(* The mobile-money provider (EVC Plus) is outside the repository: it      *)
(* decides each transaction once and reports the verdict any number of     *)
(* times, at any later moment.                                             *)
(***************************************************************************)
EXTENDS Integers, FiniteSets

CONSTANTS
    Workers,      \* handlers that may be in flight at once
    Keys,         \* Idempotency-Key values; a payment row is found by its key
    MaxInvoices,  \* bound: number of invoices ever created
    Totals,       \* invoice totals (subtotal + tax - discount) requests compute
    Amounts       \* amounts a charge request asks for

ASSUME BillingAssumption ==
    /\ MaxInvoices \in Nat
    /\ Totals \subseteq Int
    /\ Amounts \subseteq Int

(* An invoice's number is INV-<year>-<n>; n identifies it here.            *)
Invoices == 1 .. MaxInvoices

InvoiceStatus == {"ABSENT", "DRAFT", "SENT", "PARTIAL", "PAID", "OVERDUE", "VOID"}
PaymentStatus == {"ABSENT", "PENDING", "COMPLETED", "FAILED"}
Method == {"BANK_TRANSFER", "EVC_PLUS"}

VARIABLES
    invoice,   \* [Invoices -> InvoiceRow], status "ABSENT" when there is no row
    payment,   \* [Keys -> PaymentRow], likewise
    mailed,    \* invoices whose INVOICE_SENT mail was handed to the mailer
    provider,  \* [Keys -> what EVC Plus knows of the charge of that payment]
    handler    \* [Workers -> the handler in flight, or Idle]

vars == <<invoice, payment, mailed, provider, handler>>

InvoiceRow == [status : InvoiceStatus, total : Nat, paid : Nat, pastDue : BOOLEAN]

(* gatewayRef is TRUE once the provider's transaction id is stored.        *)
PaymentRow == [status : PaymentStatus, inv : Invoices \cup {0}, amount : Nat,
               method : Method, gatewayRef : BOOLEAN]

(* charges: how often the provider was asked to collect this payment.      *)
ProviderRow == [charges : Nat, verdict : {"none", "SUCCESS", "FAILED"}]

NoInvoice == [status |-> "ABSENT", total |-> 0, paid |-> 0, pastDue |-> FALSE]
NoPayment == [status |-> "ABSENT", inv |-> 0, amount |-> 0,
              method |-> "BANK_TRANSFER", gatewayRef |-> FALSE]

(* The locals a handler keeps while it waits, one record set per await.    *)
Idle == [step |-> "idle"]
Handler ==
    {Idle}
    \cup [step : {"insertInvoice"}, inv : Invoices, total : Nat, pastDue : BOOLEAN]
    \cup [step : {"writeSent"}, inv : Invoices, status : {"SENT", "OVERDUE"}]
    \cup [step : {"mailClient", "writeVoid"}, inv : Invoices]
    \cup [step : {"loadInvoice"}, key : Keys, inv : Invoices, amount : Int, method : Method]
    \cup [step : {"creditBank", "settle"}, key : Keys, inv : Invoices,
          amount : Nat, status : InvoiceStatus, nextPaid : Nat]
    \cup [step : {"createPending", "readInvoice"}, key : Keys, inv : Invoices, amount : Nat]
    \cup [step : {"initiate", "storeRef", "writeFailed"}, key : Keys]

TypeOK ==
    /\ invoice \in [Invoices -> InvoiceRow]
    /\ payment \in [Keys -> PaymentRow]
    /\ mailed \subseteq Invoices
    /\ provider \in [Keys -> ProviderRow]
    /\ handler \in [Workers -> Handler]

Init ==
    /\ invoice = [i \in Invoices |-> NoInvoice]
    /\ payment = [k \in Keys |-> NoPayment]
    /\ mailed = {}
    /\ provider = [k \in Keys |-> [charges |-> 0, verdict |-> "none"]]
    /\ handler = [w \in Workers |-> Idle]

-----------------------------------------------------------------------------
(* Helpers of paymentCore.ts and invoice.service.ts.                       *)

Numbered == {i \in Invoices : invoice[i].status # "ABSENT"}

ALREADY_SENT == {"SENT", "OVERDUE", "PARTIAL", "PAID"}
VOIDABLE == {"DRAFT", "SENT", "OVERDUE", "PARTIAL"}

effectiveStatus(row) ==
    IF row.status = "SENT" /\ row.pastDue THEN "OVERDUE" ELSE row.status

(* Mutant: strictly more than the total closes the invoice.                *)
nextInvoiceStatus_Strict(current, paid, total) ==
    CASE paid > total -> "PAID"
      [] paid <= total /\ current = "OVERDUE" -> "OVERDUE"
      [] paid <= total /\ current # "OVERDUE" -> "PARTIAL"
nextInvoiceStatus(current, paid, total) ==
    CASE paid >= total -> "PAID"
      [] paid < total /\ current = "OVERDUE" -> "OVERDUE"
      [] paid < total /\ current # "OVERDUE" -> "PARTIAL"

(* Mutant: the amount is not compared with the balance.                    *)
Chargeable_AnyBalance(row, amount) ==
    row.status \notin {"ABSENT", "VOID", "DRAFT"} /\ amount > 0

(* loadPayableInvoice, parseChargeAmount and assertAmountWithinBalance.    *)
Chargeable(row, amount) ==
    /\ row.status \notin {"ABSENT", "VOID", "DRAFT"}
    /\ amount > 0
    /\ row.paid + amount <= row.total

(* invoice.update with the paidAmount and the status a handler computed.   *)
Credited(i, h) ==
    [invoice EXCEPT ![i].paid = h.nextPaid,
                    ![i].status = nextInvoiceStatus(h.status, h.nextPaid, invoice[i].total)]

Become(w, h) == handler' = [handler EXCEPT ![w] = h]
Finish(w) == Become(w, Idle)
At(w, step) == handler[w].step = step

-----------------------------------------------------------------------------
(* createInvoice: the number is read with count(), then inserted under the *)
(* unique index.                                                           *)
CreateCount(w, total, pastDue) ==
    /\ At(w, "idle")
    /\ total >= 0
    /\ Cardinality(Numbered) < MaxInvoices
    /\ Become(w, [step |-> "insertInvoice", inv |-> Cardinality(Numbered) + 1,
                  total |-> total, pastDue |-> pastDue])
    /\ UNCHANGED <<invoice, payment, mailed, provider>>

CreateInsert(w) ==
    LET h == handler[w] IN
    /\ At(w, "insertInvoice")
    /\ \/ /\ invoice[h.inv].status = "ABSENT"
          /\ invoice' = [invoice EXCEPT ![h.inv] =
                [status |-> "DRAFT", total |-> h.total, paid |-> 0, pastDue |-> h.pastDue]]
       \/ /\ invoice[h.inv].status # "ABSENT"     \* unique violation: request fails
          /\ UNCHANGED invoice
    /\ Finish(w)
    /\ UNCHANGED <<payment, mailed, provider>>

(* sendInvoice: read, unconditional status write, then the client's mail.  *)
SendRead(w, i) ==
    /\ At(w, "idle")
    /\ {effectiveStatus(invoice[i]), invoice[i].status} \cap ALREADY_SENT = {}
    /\ invoice[i].status = "DRAFT"
    /\ Become(w, [step |-> "writeSent", inv |-> i,
                  status |-> IF invoice[i].pastDue THEN "OVERDUE" ELSE "SENT"])
    /\ UNCHANGED <<invoice, payment, mailed, provider>>

SendWrite(w) ==
    /\ At(w, "writeSent")
    /\ invoice' = [invoice EXCEPT ![handler[w].inv].status = handler[w].status]
    /\ Become(w, [step |-> "mailClient", inv |-> handler[w].inv])
    /\ UNCHANGED <<payment, mailed, provider>>

(* The client may have no e-mail address; sendMail's result is ignored.    *)
SendMail(w) ==
    /\ At(w, "mailClient")
    /\ mailed' \in {mailed, mailed \cup {handler[w].inv}}
    /\ Finish(w)
    /\ UNCHANGED <<invoice, payment, provider>>

VoidRead(w, i) ==
    /\ At(w, "idle")
    /\ invoice[i].status \in VOIDABLE
    /\ Become(w, [step |-> "writeVoid", inv |-> i])
    /\ UNCHANGED <<invoice, payment, mailed, provider>>

VoidWrite(w) ==
    /\ At(w, "writeVoid")
    /\ invoice' = [invoice EXCEPT ![handler[w].inv].status = "VOID"]
    /\ Finish(w)
    /\ UNCHANGED <<payment, mailed, provider>>

(* One updateMany statement, run by every list or read of invoices.        *)
markOverdue ==
    /\ invoice' = [i \in Invoices |-> [invoice[i] EXCEPT !.status = effectiveStatus(invoice[i])]]
    /\ UNCHANGED <<payment, mailed, provider, handler>>

DueDatePasses(i) ==
    /\ invoice[i].status # "ABSENT"
    /\ invoice' = [invoice EXCEPT ![i].pastDue = TRUE]
    /\ UNCHANGED <<payment, mailed, provider, handler>>

-----------------------------------------------------------------------------
(* charge, of both gateways: look the key up, load and check the invoice.  *)
(* A key that has a payment is answered from it and changes nothing.       *)
ChargeLookup(w, k, i, amount, method) ==
    /\ At(w, "idle")
    /\ payment[k].status = "ABSENT"
    /\ Become(w, [step |-> "loadInvoice", key |-> k, inv |-> i,
                  amount |-> amount, method |-> method])
    /\ UNCHANGED <<invoice, payment, mailed, provider>>

ChargeLoad(w) ==
    LET h == handler[w]
        row == invoice[h.inv]
    IN
    /\ At(w, "loadInvoice")
    /\ \/ /\ ~Chargeable(row, h.amount)
          /\ Finish(w)
       \/ /\ Chargeable(row, h.amount)
          /\ h.method = "BANK_TRANSFER"
          /\ Become(w, [step |-> "creditBank", key |-> h.key, inv |-> h.inv,
                        amount |-> h.amount, status |-> row.status,
                        nextPaid |-> row.paid + h.amount])
       \/ /\ Chargeable(row, h.amount)
          /\ h.method = "EVC_PLUS"
          /\ Become(w, [step |-> "createPending", key |-> h.key, inv |-> h.inv,
                        amount |-> h.amount])
    /\ UNCHANGED <<invoice, payment, mailed, provider>>

(* The unique index on idempotency_key: a second create fails, the         *)
(* transaction rolls back and the request ends in an error.                *)
KeyTaken(w) ==
    /\ handler[w].step \in {"creditBank", "createPending"}
    /\ payment[handler[w].key].status # "ABSENT"
    /\ Finish(w)
    /\ UNCHANGED <<invoice, payment, mailed, provider>>

(* Mutants of the two creates: an upsert on the key.                       *)
BankCommit_Upsert(w) ==
    LET h == handler[w] IN
    /\ At(w, "creditBank")
    /\ payment' = [payment EXCEPT ![h.key] =
          [status |-> "COMPLETED", inv |-> h.inv, amount |-> h.amount,
           method |-> "BANK_TRANSFER", gatewayRef |-> FALSE]]
    /\ invoice' = Credited(h.inv, h)
    /\ Finish(w)
    /\ UNCHANGED <<mailed, provider>>

EvcCreate_Upsert(w) ==
    LET h == handler[w] IN
    /\ At(w, "createPending")
    /\ payment' = [payment EXCEPT ![h.key] =
          [status |-> "PENDING", inv |-> h.inv, amount |-> h.amount,
           method |-> "EVC_PLUS", gatewayRef |-> FALSE]]
    /\ Become(w, [step |-> "initiate", key |-> h.key])
    /\ UNCHANGED <<invoice, mailed, provider>>

BankCommit(w) ==
    LET h == handler[w] IN
    /\ At(w, "creditBank")
    /\ payment[h.key].status = "ABSENT"
    /\ payment' = [payment EXCEPT ![h.key] =
          [status |-> "COMPLETED", inv |-> h.inv, amount |-> h.amount,
           method |-> "BANK_TRANSFER", gatewayRef |-> FALSE]]
    /\ invoice' = Credited(h.inv, h)
    /\ Finish(w)
    /\ UNCHANGED <<mailed, provider>>

EvcCreate(w) ==
    LET h == handler[w] IN
    /\ At(w, "createPending")
    /\ payment[h.key].status = "ABSENT"
    /\ payment' = [payment EXCEPT ![h.key] =
          [status |-> "PENDING", inv |-> h.inv, amount |-> h.amount,
           method |-> "EVC_PLUS", gatewayRef |-> FALSE]]
    /\ Become(w, [step |-> "initiate", key |-> h.key])
    /\ UNCHANGED <<invoice, mailed, provider>>

(* initiateEvcCharge: the provider takes the charge, and its answer arrives *)
(* or is lost; a call that never reaches the provider is Abort below.      *)
EvcInitiate(w) ==
    LET k == handler[w].key IN
    /\ At(w, "initiate")
    /\ provider' = [provider EXCEPT ![k].charges = @ + 1]
    /\ Become(w, [step |-> "storeRef", key |-> k]) \/ Finish(w)
    /\ UNCHANGED <<invoice, payment, mailed>>

EvcStoreRef(w) ==
    /\ At(w, "storeRef")
    /\ payment' = [payment EXCEPT ![handler[w].key].gatewayRef = TRUE]
    /\ Finish(w)
    /\ UNCHANGED <<invoice, mailed, provider>>

ProviderDecides(k) ==
    /\ provider[k].charges > 0
    /\ provider[k].verdict = "none"
    /\ \E v \in {"SUCCESS", "FAILED"} : provider' = [provider EXCEPT ![k].verdict = v]
    /\ UNCHANGED <<invoice, payment, mailed, handler>>

-----------------------------------------------------------------------------
(* Mutant: a verdict is applied to a payment that already has one.         *)
WebhookFind_AnyStatus(w, k) ==
    /\ At(w, "idle")
    /\ provider[k].verdict = "SUCCESS"
    /\ payment[k].gatewayRef
    /\ Become(w, [step |-> "readInvoice", key |-> k, inv |-> payment[k].inv,
                  amount |-> payment[k].amount])
    /\ UNCHANGED <<invoice, payment, mailed, provider>>

(* applyEvcWebhook.  An unknown gatewayRef (404) and a payment that is no  *)
(* longer PENDING are answered without a change.                           *)
WebhookFind(w, k) ==
    LET p == payment[k] IN
    /\ At(w, "idle")
    /\ provider[k].verdict # "none"
    /\ p.gatewayRef
    /\ p.method = "EVC_PLUS"
    /\ p.status = "PENDING"
    /\ \/ /\ provider[k].verdict = "FAILED"
          /\ Become(w, [step |-> "writeFailed", key |-> k])
       \/ /\ provider[k].verdict = "SUCCESS"
          /\ Become(w, [step |-> "readInvoice", key |-> k, inv |-> p.inv, amount |-> p.amount])
    /\ UNCHANGED <<invoice, payment, mailed, provider>>

WebhookFail(w) ==
    /\ At(w, "writeFailed")
    /\ payment' = [payment EXCEPT ![handler[w].key].status = "FAILED"]
    /\ Finish(w)
    /\ UNCHANGED <<invoice, mailed, provider>>

(* The invoice is read anew; its status is not looked at.                  *)
WebhookRead(w) ==
    LET h == handler[w]
        row == invoice[h.inv]
    IN
    /\ At(w, "readInvoice")
    /\ \/ /\ row.paid + h.amount > row.total
          /\ Finish(w)
       \/ /\ row.paid + h.amount <= row.total
          /\ Become(w, [step |-> "settle", key |-> h.key, inv |-> h.inv, amount |-> h.amount,
                        status |-> row.status, nextPaid |-> row.paid + h.amount])
    /\ UNCHANGED <<invoice, payment, mailed, provider>>

(* Mutant: outside a transaction, only the invoice half is written.        *)
WebhookSettle_InvoiceOnly(w) ==
    LET h == handler[w] IN
    /\ At(w, "settle")
    /\ invoice' = Credited(h.inv, h)
    /\ Finish(w)
    /\ UNCHANGED <<payment, mailed, provider>>

WebhookSettle(w) ==
    LET h == handler[w] IN
    /\ At(w, "settle")
    /\ payment' = [payment EXCEPT ![h.key].status = "COMPLETED"]
    /\ invoice' = Credited(h.inv, h)
    /\ Finish(w)
    /\ UNCHANGED <<mailed, provider>>

(* A call throws or the process dies: the locals are gone, the rows stay.  *)
Abort(w) ==
    /\ ~At(w, "idle")
    /\ Finish(w)
    /\ UNCHANGED <<invoice, payment, mailed, provider>>

-----------------------------------------------------------------------------
InvoiceStep(w) ==
    \/ \E total \in Totals, pastDue \in BOOLEAN : CreateCount(w, total, pastDue)
    \/ CreateInsert(w)
    \/ \E i \in Invoices : SendRead(w, i) \/ VoidRead(w, i)
    \/ SendWrite(w)
    \/ SendMail(w)
    \/ VoidWrite(w)

ChargeStep(w) ==
    \/ \E k \in Keys, i \in Invoices, a \in Amounts, m \in Method : ChargeLookup(w, k, i, a, m)
    \/ ChargeLoad(w)
    \/ KeyTaken(w)
    \/ BankCommit(w)
    \/ EvcCreate(w)
    \/ EvcInitiate(w)
    \/ EvcStoreRef(w)

WebhookStep(w) ==
    \/ \E k \in Keys : WebhookFind(w, k)
    \/ WebhookFail(w)
    \/ WebhookRead(w)
    \/ WebhookSettle(w)

Next ==
    \/ \E w \in Workers : InvoiceStep(w) \/ ChargeStep(w) \/ WebhookStep(w) \/ Abort(w)
    \/ \E i \in Invoices : DueDatePasses(i)
    \/ \E k \in Keys : ProviderDecides(k)
    \/ markOverdue

Spec == Init /\ [][Next]_vars

-----------------------------------------------------------------------------
(* Properties that hold however handlers interleave.                       *)

(* An invoice is never credited beyond its total.  The check (balance left *)
(* when the handler read the row) and the write (the absolute paidAmount   *)
(* it computed then) are separate awaits; stale writes may lose a credit   *)
(* but never push paidAmount past the total.                               *)
PaidWithinTotal ==
    \A i \in Invoices : invoice[i].paid <= invoice[i].total

(* An invoice marked PAID has been paid in full: no interleaving of        *)
(* charges, webhooks, sends, voids and overdue marking leaves status PAID  *)
(* on a row whose paidAmount is short of the total.                        *)
PaidMeansSettled ==
    \A i \in Invoices : invoice[i].status = "PAID" => invoice[i].paid = invoice[i].total

(* A DRAFT is private: nobody has paid on it, nobody has been mailed about *)
(* it and no payment refers to it; a row never becomes a DRAFT again.      *)
DraftUntouched ==
    \A i \in Invoices : invoice[i].status = "DRAFT" =>
        /\ invoice[i].paid = 0
        /\ i \notin mailed
        /\ \A k \in Keys : payment[k].status # "ABSENT" => payment[k].inv # i

(* One Idempotency-Key asks EVC Plus for money at most once, also when two *)
(* requests with the key both miss the lookup, and only for a payment that *)
(* is on record.                                                           *)
ChargedOncePerKey ==
    \A k \in Keys :
        /\ provider[k].charges <= 1
        /\ provider[k].charges = 1 =>
               payment[k].status # "ABSENT" /\ payment[k].method = "EVC_PLUS"

(* A payment ends once: COMPLETED and FAILED rows keep status, invoice and *)
(* amount, through retries of the key and redelivered webhooks, and an EVC *)
(* payment is COMPLETED only on the provider's SUCCESS.                    *)
PaymentEndsOnce ==
    [][\A k \in Keys :
          /\ payment[k].status \in {"COMPLETED", "FAILED"} => payment'[k] = payment[k]
          /\ (payment[k].status = "PENDING" /\ payment'[k].status = "COMPLETED")
                 => provider[k].verdict = "SUCCESS"]_vars

(* However handlers race, what an invoice shows is sound: no credit beyond *)
(* the total, PAID only when paid in full, and nothing touches a draft.    *)
InvoiceIsSound == PaidWithinTotal /\ PaidMeansSettled /\ DraftUntouched

(* Credit comes from somewhere: an invoice with money on it has a          *)
(* COMPLETED payment, although a failed or aborted handler may have        *)
(* written one of the two tables.                                          *)
CreditHasPayment ==
    \A i \in Invoices : invoice[i].paid > 0 =>
        \E k \in Keys : payment[k].status = "COMPLETED" /\ payment[k].inv = i

(* However a key is retried and its webhook redelivered, money is real: the *)
(* provider is asked for it once, for a payment on record, and what an      *)
(* invoice shows as paid has such a payment behind it.                      *)
MoneyIsReal == ChargedOncePerKey /\ CreditHasPayment

-----------------------------------------------------------------------------
(* Handlers that overlap.  A handler writes what it decided on the row as  *)
(* it read it.                                                             *)

(* An invoice is closed while nobody is about to send it or to void it.    *)
ClosedAlone ==
    \A i \in Invoices : invoice[i].status # "PAID" /\ invoice'[i].status = "PAID" =>
        \A w \in Workers : handler'[w].step \in {"writeSent", "writeVoid"} => handler'[w].inv # i

(* An invoice is credited while no other credit of it is computed, and a   *)
(* payment completed while no other webhook of it is under way.            *)
CreditedAlone ==
    /\ \A i \in Invoices : invoice'[i].paid # invoice[i].paid =>
          \A w \in Workers : handler'[w].step \in {"creditBank", "settle"} => handler'[w].inv # i
    /\ \A k \in Keys : payment[k].status # "COMPLETED" /\ payment'[k].status = "COMPLETED" =>
          \A w \in Workers : handler'[w].step \in {"readInvoice", "settle"} => handler'[w].key # k

-----------------------------------------------------------------------------
(* Properties of handlers of which none is overtaken in this way, as of    *)
(* handlers that run one after the other.                                  *)

(* The payment that completes the balance closes the invoice.              *)
FullBalanceCloses ==
    \A i \in Invoices :
        invoice[i].total > 0 /\ invoice[i].paid = invoice[i].total => invoice[i].status = "PAID"

-----------------------------------------------------------------------------
(* What the repository says and the code does not keep.                    *)

(* "This invoice cannot accept payments" (paymentCore.ts): a VOID invoice  *)
(* is never credited.  The webhook handler does not look at the status.    *)
VoidTakesNoPayment ==
    [][\A i \in Invoices : invoice[i].status = "VOID" => invoice'[i].paid = invoice[i].paid]_vars
=============================================================================
