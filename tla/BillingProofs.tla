--------------------------- MODULE BillingProofs ----------------------------
(***************************************************************************)
(* Proofs about Billing for every number of handlers, keys and invoices    *)
(* and every set of totals and amounts.                                    *)
(*                                                                         *)
(* The argument: a handler's stale locals stay harmless because the tables *)
(* only grow.  Once an invoice has left DRAFT it never returns there and   *)
(* its total never changes, and a payment row never disappears or moves to *)
(* another invoice (Grow).  So what a handler knew when it read the tables *)
(* (HandlerOK) still holds when it writes.                                 *)
(*                                                                         *)
(* The second part is about idempotency keys: who may write a payment      *)
(* row, and when.  At most one handler, the one that inserted the row, is  *)
(* between the insert and the storing of gatewayRef (Alone); webhooks only *)
(* touch rows that have a gatewayRef; and all webhooks of one payment      *)
(* carry the provider's one verdict.  So whatever is written to a row      *)
(* agrees with what is already there.                                      *)
(*                                                                         *)
(* The third part is about handlers that overlap.  Where no invoice is     *)
(* closed under a handler about to send or void it, the last credit closes *)
(* it for good (Closing).  Where no invoice is credited, and no payment    *)
(* completed, under a handler that is crediting for it, what a handler     *)
(* read is still so when it writes (Fresh), every credit adds the amount   *)
(* of its payment to what the row holds, and billing implements Ledger.    *)
(* One handler at a time is a case of both.                                *)
(***************************************************************************)
EXTENDS BillingLedger, FiniteSetTheorems, TLAPS

Issued(i) == invoice[i].status \notin {"ABSENT", "DRAFT"}
OnRecord(k) == payment[k].status # "ABSENT"

(* The tables agree with each other.                                       *)
TablesOK ==
    /\ \A k \in Keys : OnRecord(k) => payment[k].inv \in Invoices /\ Issued(payment[k].inv)
    /\ \A i \in Invoices : ~Issued(i) => invoice[i].paid = 0 /\ i \notin mailed
    /\ PaidWithinTotal
    /\ PaidMeansSettled

(* What a handler in flight may rely on when it resumes.                   *)
HandlerOK(h) ==
    /\ h.step \in {"initiate", "storeRef", "writeFailed", "readInvoice", "settle"} => OnRecord(h.key)
    /\ h.step \in {"creditBank", "createPending", "readInvoice", "settle", "mailClient"} => Issued(h.inv)
    /\ h.step \in {"creditBank", "settle"} => h.nextPaid <= invoice[h.inv].total

IInv ==
    /\ TypeOK
    /\ TablesOK
    /\ \A w \in Workers : HandlerOK(handler[w])

(* How every step changes the tables.                                      *)
Grow ==
    /\ \A i \in Invoices : Issued(i) => Issued(i)' /\ invoice'[i].total = invoice[i].total
    /\ \A k \in Keys : OnRecord(k) => OnRecord(k)'

TablesType ==
    /\ invoice \in [Invoices -> InvoiceRow]
    /\ payment \in [Keys -> PaymentRow]
    /\ mailed \subseteq Invoices
    /\ provider \in [Keys -> ProviderRow]

-----------------------------------------------------------------------------
(* Counting the invoices on record gives a natural number.                 *)
LEMMA NumberedCount ==
    ASSUME BillingAssumption PROVE Cardinality(Numbered) \in Nat
<1>1. IsFiniteSet(Invoices)
    BY FS_Interval DEF Invoices, BillingAssumption
<1>2. IsFiniteSet(Numbered)
    BY <1>1, FS_Subset DEF Numbered
<1> QED
    BY <1>2, FS_CardinalityType

(* The status a credit leaves behind is one of an issued invoice, and it   *)
(* is PAID only when the credit reaches the total.                         *)
LEMMA NextStatus ==
    ASSUME NEW current, NEW paid \in Int, NEW total \in Int
    PROVE  /\ nextInvoiceStatus(current, paid, total) \in {"PAID", "OVERDUE", "PARTIAL"}
           /\ nextInvoiceStatus(current, paid, total) = "PAID" => paid >= total
    BY DEF nextInvoiceStatus

(* Marking overdue touches SENT rows only.                                 *)
LEMMA EffectiveStatus ==
    ASSUME NEW row \in InvoiceRow
    PROVE  /\ effectiveStatus(row) \in InvoiceStatus
           /\ effectiveStatus(row) \in {"ABSENT", "DRAFT"} <=> row.status \in {"ABSENT", "DRAFT"}
           /\ effectiveStatus(row) = "PAID" <=> row.status = "PAID"
    BY DEF effectiveStatus, InvoiceRow, InvoiceStatus

(* The fields of the locals, by the await the handler is at.               *)
LEMMA HandlerShape ==
    ASSUME NEW h \in Handler
    PROVE  /\ h.step \in {"insertInvoice"} =>
                 h.inv \in Invoices /\ h.total \in Nat /\ h.pastDue \in BOOLEAN
           /\ h.step \in {"writeSent"} => h.inv \in Invoices /\ h.status \in {"SENT", "OVERDUE"}
           /\ h.step \in {"mailClient", "writeVoid"} => h.inv \in Invoices
           /\ h.step \in {"loadInvoice"} =>
                 h.key \in Keys /\ h.inv \in Invoices /\ h.amount \in Int /\ h.method \in Method
           /\ h.step \in {"creditBank", "settle"} =>
                 /\ h.key \in Keys /\ h.inv \in Invoices /\ h.amount \in Nat
                 /\ h.status \in InvoiceStatus /\ h.nextPaid \in Nat
           /\ h.step \in {"createPending", "readInvoice"} =>
                 h.key \in Keys /\ h.inv \in Invoices /\ h.amount \in Nat
           /\ h.step \in {"initiate", "storeRef", "writeFailed"} => h.key \in Keys
    BY DEF Handler, Idle

(* What a waiting handler relies on survives every step that grows tables. *)
LEMMA WaitingStable ==
    ASSUME IInv, Grow, NEW v \in Workers, handler'[v] = handler[v]
    PROVE  HandlerOK(handler[v])'
<1>1. handler[v] \in Handler /\ HandlerOK(handler[v])
    BY DEF IInv, TypeOK
<1> QED
    BY <1>1, HandlerShape DEF HandlerOK, Grow, Issued, OnRecord

(* A step of one handler preserves the invariant when the tables it leaves *)
(* are consistent, have grown, and suit its next locals.                   *)
LEMMA OneHandlerStep ==
    ASSUME IInv, NEW w \in Workers, NEW h \in Handler, Become(w, h),
           TablesType', TablesOK', Grow, HandlerOK(h)'
    PROVE  IInv'
<1>1. handler \in [Workers -> Handler]
    BY DEF IInv, TypeOK
<1>2. TypeOK'
    BY <1>1 DEF TypeOK, TablesType, Become
<1>3. ASSUME NEW v \in Workers PROVE HandlerOK(handler[v])'
    <2>1. CASE v = w
        BY <1>1, <2>1 DEF Become, HandlerOK
    <2>2. CASE v # w
        BY <1>1, <2>2, WaitingStable DEF Become
    <2> QED
        BY <2>1, <2>2
<1> QED
    BY <1>2, <1>3 DEF IInv

(* A step outside the handlers preserves the invariant likewise.           *)
LEMMA OutsideStep ==
    ASSUME IInv, UNCHANGED handler, TablesType', TablesOK', Grow
    PROVE  IInv'
    BY WaitingStable DEF IInv, TypeOK, TablesType

(* A step that only moves one handler on preserves the invariant.          *)
LEMMA ReadStep ==
    ASSUME IInv, NEW w \in Workers, NEW h \in Handler, Become(w, h), HandlerOK(h),
           UNCHANGED <<invoice, payment, mailed>>, (provider \in [Keys -> ProviderRow])'
    PROVE  IInv'
<1>1. TablesType' /\ TablesOK' /\ Grow
    BY DEF IInv, TypeOK, TablesType, TablesOK, PaidWithinTotal, PaidMeansSettled,
           Grow, Issued, OnRecord
<1>2. HandlerOK(h)'
    BY DEF HandlerOK, Issued, OnRecord
<1> QED
    BY <1>1, <1>2, OneHandlerStep

-----------------------------------------------------------------------------
(* createInvoice, sendInvoice and voidInvoice preserve the invariant.      *)
LEMMA InvoiceStepInv ==
    ASSUME BillingAssumption, IInv, NEW w \in Workers, InvoiceStep(w)
    PROVE  IInv'
<1> USE DEF At, Finish
<1>0. TypeOK /\ TablesOK /\ TablesType /\ HandlerOK(handler[w]) /\ handler[w] \in Handler
    BY DEF IInv, TypeOK, TablesType
<1>1. Idle \in Handler /\ HandlerOK(Idle)
    BY DEF Handler, HandlerOK, Idle
<1>2. ASSUME NEW total \in Totals, NEW pastDue \in BOOLEAN, CreateCount(w, total, pastDue)
      PROVE  IInv'
    <2>1. Cardinality(Numbered) + 1 \in Invoices /\ total \in Nat
        BY <1>2, NumberedCount DEF CreateCount, Invoices, BillingAssumption
    <2>2. PICK h \in Handler :
              h = [step |-> "insertInvoice", inv |-> Cardinality(Numbered) + 1,
                   total |-> total, pastDue |-> pastDue]
        BY <2>1 DEF Handler
    <2>3. HandlerOK(h)
        BY <2>2 DEF HandlerOK
    <2> QED
        BY <1>0, <1>2, <2>2, <2>3, ReadStep DEF CreateCount, TypeOK
<1>3. ASSUME CreateInsert(w) PROVE IInv'
    <2> DEFINE i == handler[w].inv
    <2>1. i \in Invoices /\ handler[w].total \in Nat /\ handler[w].pastDue \in BOOLEAN
        BY <1>0, <1>3, HandlerShape DEF CreateInsert
    <2>2. CASE invoice[i].status = "ABSENT"
        <3>1. invoice' = [invoice EXCEPT ![i] =
                    [status |-> "DRAFT", total |-> handler[w].total, paid |-> 0,
                     pastDue |-> handler[w].pastDue]]
              /\ UNCHANGED <<payment, mailed, provider>>
            BY <1>3, <2>2 DEF CreateInsert
        <3>2. TablesType'
            BY <1>0, <2>1, <3>1 DEF TablesType, InvoiceRow, InvoiceStatus
        <3>3. Grow
            BY <1>0, <2>1, <2>2, <3>1 DEF Grow, Issued, OnRecord, TablesType
        <3>4. TablesOK'
            BY <1>0, <2>1, <2>2, <3>1, <3>3
            DEF TablesOK, TablesType, PaidWithinTotal, PaidMeansSettled, Grow, Issued, OnRecord
        <3> QED
            BY <1>1, <1>3, <3>2, <3>3, <3>4, OneHandlerStep DEF CreateInsert, HandlerOK, Idle
    <2>3. CASE invoice[i].status # "ABSENT"
        BY <1>0, <1>1, <1>3, <2>3, ReadStep DEF CreateInsert, TypeOK
    <2> QED
        BY <2>2, <2>3
<1>4. ASSUME NEW i \in Invoices, SendRead(w, i) PROVE IInv'
    <2>1. PICK h \in Handler :
              h = [step |-> "writeSent", inv |-> i,
                   status |-> IF invoice[i].pastDue THEN "OVERDUE" ELSE "SENT"]
        BY DEF Handler
    <2> QED
        BY <1>0, <1>4, <2>1, ReadStep DEF SendRead, TypeOK, HandlerOK
<1>5. ASSUME SendWrite(w) PROVE IInv'
    <2> DEFINE i == handler[w].inv
    <2>1. i \in Invoices /\ handler[w].status \in {"SENT", "OVERDUE"}
        BY <1>0, <1>5, HandlerShape DEF SendWrite
    <2>2. invoice' = [invoice EXCEPT ![i].status = handler[w].status]
          /\ UNCHANGED <<payment, mailed, provider>>
        BY <1>5 DEF SendWrite
    <2>3. TablesType' /\ Grow
        BY <1>0, <2>1, <2>2 DEF TablesType, InvoiceRow, InvoiceStatus, Grow, Issued, OnRecord
    <2>4. TablesOK'
        BY <1>0, <2>1, <2>2, <2>3
        DEF TablesOK, TablesType, InvoiceRow, PaidWithinTotal, PaidMeansSettled, Grow, Issued, OnRecord
    <2>5. PICK h \in Handler : h = [step |-> "mailClient", inv |-> i]
        BY <2>1 DEF Handler
    <2>6. HandlerOK(h)'
        BY <1>0, <2>1, <2>2, <2>5 DEF HandlerOK, Issued, TablesType
    <2> QED
        BY <1>5, <2>3, <2>4, <2>5, <2>6, OneHandlerStep DEF SendWrite
<1>6. ASSUME SendMail(w) PROVE IInv'
    <2>1. handler[w].inv \in Invoices /\ Issued(handler[w].inv)
        BY <1>0, <1>6, HandlerShape DEF SendMail, HandlerOK
    <2>2. TablesType' /\ Grow /\ TablesOK'
        BY <1>0, <1>6, <2>1
        DEF SendMail, TablesType, TablesOK, PaidWithinTotal, PaidMeansSettled, Grow, Issued, OnRecord
    <2> QED
        BY <1>1, <1>6, <2>2, OneHandlerStep DEF SendMail, HandlerOK, Idle
<1>7. ASSUME NEW i \in Invoices, VoidRead(w, i) PROVE IInv'
    <2>1. PICK h \in Handler : h = [step |-> "writeVoid", inv |-> i]
        BY DEF Handler
    <2> QED
        BY <1>0, <1>7, <2>1, ReadStep DEF VoidRead, TypeOK, HandlerOK
<1>8. ASSUME VoidWrite(w) PROVE IInv'
    <2> DEFINE i == handler[w].inv
    <2>1. i \in Invoices
        BY <1>0, <1>8, HandlerShape DEF VoidWrite
    <2>2. invoice' = [invoice EXCEPT ![i].status = "VOID"]
          /\ UNCHANGED <<payment, mailed, provider>>
        BY <1>8 DEF VoidWrite
    <2>3. TablesType' /\ Grow
        BY <1>0, <2>1, <2>2 DEF TablesType, InvoiceRow, InvoiceStatus, Grow, Issued, OnRecord
    <2>4. TablesOK'
        BY <1>0, <2>1, <2>2, <2>3
        DEF TablesOK, TablesType, InvoiceRow, PaidWithinTotal, PaidMeansSettled, Grow, Issued, OnRecord
    <2> QED
        BY <1>1, <1>8, <2>3, <2>4, OneHandlerStep DEF VoidWrite, HandlerOK, Idle
<1> QED
    BY <1>2, <1>3, <1>4, <1>5, <1>6, <1>7, <1>8 DEF InvoiceStep

(* The two credits: the paidAmount and status a handler computed from a    *)
(* row it read earlier are written over whatever the row holds by now.     *)
LEMMA CreditedOK ==
    ASSUME IInv, NEW w \in Workers, handler[w].step \in {"creditBank", "settle"},
           invoice' = Credited(handler[w].inv, handler[w])
    PROVE  /\ invoice' \in [Invoices -> InvoiceRow]
           /\ \A i \in Invoices : Issued(i) => Issued(i)' /\ invoice'[i].total = invoice[i].total
           /\ \A i \in Invoices : ~Issued(i)' => ~Issued(i) /\ invoice'[i] = invoice[i]
           /\ (PaidWithinTotal /\ PaidMeansSettled)'
<1> DEFINE h == handler[w]
           s == nextInvoiceStatus(h.status, h.nextPaid, invoice[h.inv].total)
<1>0. TypeOK /\ TablesOK /\ HandlerOK(h) /\ h \in Handler
    BY DEF IInv, TypeOK
<1>1. /\ h.inv \in Invoices /\ h.nextPaid \in Nat
      /\ Issued(h.inv) /\ h.nextPaid <= invoice[h.inv].total
    BY <1>0, HandlerShape DEF HandlerOK
<1>2. invoice \in [Invoices -> InvoiceRow] /\ invoice[h.inv] \in InvoiceRow
    BY <1>0, <1>1 DEF TypeOK
<1>3. s \in {"PAID", "OVERDUE", "PARTIAL"} /\ (s = "PAID" => h.nextPaid >= invoice[h.inv].total)
    BY <1>1, <1>2, NextStatus DEF InvoiceRow
<1> HIDE DEF s
<1>4. invoice' = [invoice EXCEPT ![h.inv].paid = h.nextPaid, ![h.inv].status = s]
    BY DEF Credited, s
<1>5. /\ \A i \in Invoices : i # h.inv => invoice'[i] = invoice[i]
      /\ invoice'[h.inv] = [invoice[h.inv] EXCEPT !.paid = h.nextPaid, !.status = s]
    BY <1>1, <1>2, <1>4
<1>6. invoice' \in [Invoices -> InvoiceRow]
    BY <1>1, <1>2, <1>3, <1>4 DEF InvoiceRow, InvoiceStatus
<1>7. /\ invoice'[h.inv].paid = h.nextPaid
      /\ invoice'[h.inv].status = s
      /\ invoice'[h.inv].total = invoice[h.inv].total
    BY <1>2, <1>5 DEF InvoiceRow
<1>8. ASSUME NEW i \in Invoices
      PROVE  /\ invoice'[i].paid <= invoice'[i].total
             /\ invoice'[i].status = "PAID" => invoice'[i].paid = invoice'[i].total
    <2>1. CASE i = h.inv
        BY <1>1, <1>2, <1>3, <1>7, <2>1 DEF InvoiceRow
    <2>2. CASE i # h.inv
        BY <1>0, <1>5, <2>2 DEF TablesOK, PaidWithinTotal, PaidMeansSettled
    <2> QED
        BY <2>1, <2>2
<1> QED
    BY <1>1, <1>3, <1>5, <1>6, <1>7, <1>8 DEF Issued, PaidWithinTotal, PaidMeansSettled

(* charge, of both gateways, preserves the invariant.                      *)
LEMMA ChargeStepInv ==
    ASSUME BillingAssumption, IInv, NEW w \in Workers, ChargeStep(w)
    PROVE  IInv'
<1> USE DEF At, Finish
<1>0. TypeOK /\ TablesOK /\ TablesType /\ HandlerOK(handler[w]) /\ handler[w] \in Handler
    BY DEF IInv, TypeOK, TablesType
<1>1. Idle \in Handler /\ HandlerOK(Idle) /\ HandlerOK(Idle)'
    BY DEF Handler, HandlerOK, Idle
<1>2. ASSUME NEW k \in Keys, NEW i \in Invoices, NEW a \in Amounts, NEW m \in Method,
             ChargeLookup(w, k, i, a, m)
      PROVE  IInv'
    <2>1. PICK h \in Handler :
              h = [step |-> "loadInvoice", key |-> k, inv |-> i, amount |-> a, method |-> m]
        BY <1>2 DEF Handler, BillingAssumption
    <2> QED
        BY <1>0, <1>2, <2>1, ReadStep DEF ChargeLookup, TypeOK, HandlerOK
<1>3. ASSUME ChargeLoad(w) PROVE IInv'
    <2> DEFINE g == handler[w]
               row == invoice[g.inv]
    <2>1. g.key \in Keys /\ g.inv \in Invoices /\ g.amount \in Int
        BY <1>0, <1>3, HandlerShape DEF ChargeLoad
    <2>2. row \in InvoiceRow
        BY <1>0, <2>1 DEF TypeOK
    <2>3. CASE ~Chargeable(row, g.amount)
        BY <1>0, <1>1, <1>3, <2>3, ReadStep DEF ChargeLoad, TypeOK
    <2>4. CASE Chargeable(row, g.amount)
        <3>1. /\ Issued(g.inv)
              /\ g.amount \in Nat
              /\ row.paid + g.amount \in Nat
              /\ row.paid + g.amount <= row.total
            BY <2>1, <2>2, <2>4 DEF Chargeable, Issued, InvoiceRow
        <3>2. CASE g.method = "BANK_TRANSFER"
            <4>1. row.status \in InvoiceStatus
                BY <2>2 DEF InvoiceRow
            <4>2. PICK h \in Handler :
                      h = [step |-> "creditBank", key |-> g.key, inv |-> g.inv,
                           amount |-> g.amount, status |-> row.status,
                           nextPaid |-> row.paid + g.amount]
                BY <2>1, <3>1, <4>1 DEF Handler
            <4>3. HandlerOK(h)
                BY <3>1, <4>2 DEF HandlerOK
            <4>4. Become(w, h) /\ UNCHANGED <<invoice, payment, mailed, provider>>
                BY <1>3, <2>4, <3>2, <4>2 DEF ChargeLoad
            <4> QED
                BY <1>0, <4>3, <4>4, ReadStep DEF TypeOK
        <3>3. CASE g.method = "EVC_PLUS"
            <4>1. PICK h \in Handler :
                      h = [step |-> "createPending", key |-> g.key, inv |-> g.inv,
                           amount |-> g.amount]
                BY <2>1, <3>1 DEF Handler
            <4>2. HandlerOK(h)
                BY <3>1, <4>1 DEF HandlerOK
            <4>3. Become(w, h) /\ UNCHANGED <<invoice, payment, mailed, provider>>
                BY <1>3, <2>4, <3>3, <4>1 DEF ChargeLoad
            <4> QED
                BY <1>0, <4>2, <4>3, ReadStep DEF TypeOK
        <3> QED
            BY <1>3, <2>4, <3>2, <3>3 DEF ChargeLoad
    <2> QED
        BY <2>3, <2>4
<1>4. ASSUME KeyTaken(w) PROVE IInv'
    BY <1>0, <1>1, <1>4, ReadStep DEF KeyTaken, TypeOK
<1>5. ASSUME BankCommit(w) PROVE IInv'
    <2> DEFINE g == handler[w]
               new == [status |-> "COMPLETED", inv |-> g.inv, amount |-> g.amount,
                       method |-> "BANK_TRANSFER", gatewayRef |-> FALSE]
    <2>1. /\ g.step = "creditBank"
          /\ invoice' = Credited(g.inv, g)
          /\ payment' = [payment EXCEPT ![g.key] = new]
          /\ ~OnRecord(g.key)
          /\ Become(w, Idle) /\ UNCHANGED <<mailed, provider>>
        BY <1>5 DEF BankCommit, OnRecord
    <2>2. g.key \in Keys /\ g.inv \in Invoices /\ g.amount \in Nat /\ Issued(g.inv)
        BY <1>0, <2>1, HandlerShape DEF HandlerOK
    <2>3. /\ invoice' \in [Invoices -> InvoiceRow]
          /\ \A i \in Invoices : Issued(i) => Issued(i)' /\ invoice'[i].total = invoice[i].total
          /\ \A i \in Invoices : ~Issued(i)' => ~Issued(i) /\ invoice'[i] = invoice[i]
          /\ (PaidWithinTotal /\ PaidMeansSettled)'
        BY <2>1, CreditedOK
    <2>4. new \in PaymentRow
        BY <2>2 DEF PaymentRow, PaymentStatus, Method
    <2>5. /\ payment' \in [Keys -> PaymentRow]
          /\ payment'[g.key].status = "COMPLETED" /\ payment'[g.key].inv = g.inv
          /\ \A k \in Keys : k # g.key => payment'[k] = payment[k]
        BY <1>0, <2>1, <2>2, <2>4 DEF TablesType
    <2>6. TablesType' /\ Grow
        BY <1>0, <2>1, <2>3, <2>5 DEF TablesType, Grow, OnRecord
    <2>7. TablesOK'
        BY <1>0, <2>1, <2>2, <2>3, <2>5 DEF TablesOK, OnRecord
    <2> QED
        BY <1>1, <2>1, <2>6, <2>7, OneHandlerStep
<1>6. ASSUME EvcCreate(w) PROVE IInv'
    <2> DEFINE g == handler[w]
               new == [status |-> "PENDING", inv |-> g.inv, amount |-> g.amount,
                       method |-> "EVC_PLUS", gatewayRef |-> FALSE]
    <2>1. /\ g.step = "createPending"
          /\ payment' = [payment EXCEPT ![g.key] = new]
          /\ UNCHANGED <<invoice, mailed, provider>>
        BY <1>6 DEF EvcCreate
    <2>2. g.key \in Keys /\ g.inv \in Invoices /\ g.amount \in Nat /\ Issued(g.inv)
        BY <1>0, <2>1, HandlerShape DEF HandlerOK
    <2>3. new \in PaymentRow
        BY <2>2 DEF PaymentRow, PaymentStatus, Method
    <2>4. /\ payment' \in [Keys -> PaymentRow]
          /\ payment'[g.key].status = "PENDING" /\ payment'[g.key].inv = g.inv
          /\ \A k \in Keys : k # g.key => payment'[k] = payment[k]
        BY <1>0, <2>1, <2>2, <2>3 DEF TablesType
    <2>5. TablesType' /\ Grow
        BY <1>0, <2>1, <2>4 DEF TablesType, Grow, OnRecord, Issued
    <2>6. TablesOK'
        BY <1>0, <2>1, <2>2, <2>4
        DEF TablesOK, OnRecord, Issued, PaidWithinTotal, PaidMeansSettled
    <2>7. PICK h \in Handler : h = [step |-> "initiate", key |-> g.key]
        BY <2>2 DEF Handler
    <2>8. HandlerOK(h)'
        BY <2>2, <2>4, <2>7 DEF HandlerOK, OnRecord
    <2>9. Become(w, h)
        BY <1>6, <2>7 DEF EvcCreate
    <2> QED
        BY <2>5, <2>6, <2>8, <2>9, OneHandlerStep
<1>7. ASSUME EvcInitiate(w) PROVE IInv'
    <2> DEFINE k == handler[w].key
    <2>1. k \in Keys /\ OnRecord(k)
        BY <1>0, <1>7, HandlerShape DEF EvcInitiate, HandlerOK
    <2>2. /\ provider' = [provider EXCEPT ![k].charges = @ + 1]
          /\ UNCHANGED <<invoice, payment, mailed>>
        BY <1>7 DEF EvcInitiate
    <2>3. provider[k].charges + 1 \in Nat
        BY <1>0, <2>1 DEF TypeOK, ProviderRow
    <2>4. (provider \in [Keys -> ProviderRow])'
        BY <1>0, <2>1, <2>2, <2>3 DEF TypeOK, ProviderRow
    <2>5. CASE Become(w, [step |-> "storeRef", key |-> k])
        <3>1. PICK h \in Handler : h = [step |-> "storeRef", key |-> k]
            BY <2>1 DEF Handler
        <3>2. HandlerOK(h)
            BY <2>1, <3>1 DEF HandlerOK
        <3> QED
            BY <2>2, <2>4, <2>5, <3>1, <3>2, ReadStep
    <2>6. CASE Become(w, Idle)
        BY <1>1, <2>2, <2>4, <2>6, ReadStep
    <2> QED
        BY <1>7, <2>5, <2>6 DEF EvcInitiate
<1>8. ASSUME EvcStoreRef(w) PROVE IInv'
    <2> DEFINE k == handler[w].key
    <2>1. k \in Keys /\ payment' = [payment EXCEPT ![k].gatewayRef = TRUE]
        BY <1>0, <1>8, HandlerShape DEF EvcStoreRef
    <2>2. payment' \in [Keys -> PaymentRow]
          /\ \A j \in Keys : payment'[j].status = payment[j].status /\ payment'[j].inv = payment[j].inv
        BY <1>0, <2>1 DEF TypeOK, PaymentRow
    <2>3. TablesType' /\ Grow /\ TablesOK'
        BY <1>0, <1>8, <2>2
        DEF EvcStoreRef, TablesType, TablesOK, PaidWithinTotal, PaidMeansSettled,
            Grow, Issued, OnRecord
    <2> QED
        BY <1>1, <1>8, <2>3, OneHandlerStep DEF EvcStoreRef
<1> QED
    BY <1>2, <1>3, <1>4, <1>5, <1>6, <1>7, <1>8 DEF ChargeStep

(* applyEvcWebhook preserves the invariant.                                *)
LEMMA WebhookStepInv ==
    ASSUME IInv, NEW w \in Workers, WebhookStep(w)
    PROVE  IInv'
<1> USE DEF At, Finish
<1>0. TypeOK /\ TablesOK /\ TablesType /\ HandlerOK(handler[w]) /\ handler[w] \in Handler
    BY DEF IInv, TypeOK, TablesType
<1>1. Idle \in Handler /\ HandlerOK(Idle) /\ HandlerOK(Idle)'
    BY DEF Handler, HandlerOK, Idle
<1>2. ASSUME NEW k \in Keys, WebhookFind(w, k) PROVE IInv'
    <2>1. /\ payment[k] \in PaymentRow /\ OnRecord(k)
          /\ payment[k].inv \in Invoices /\ Issued(payment[k].inv)
        BY <1>0, <1>2 DEF WebhookFind, TypeOK, TablesOK, OnRecord
    <2>2. CASE provider[k].verdict = "FAILED"
        <3>1. PICK h \in Handler : h = [step |-> "writeFailed", key |-> k]
            BY DEF Handler
        <3>2. HandlerOK(h)
            BY <2>1, <3>1 DEF HandlerOK
        <3> QED
            BY <1>0, <1>2, <2>2, <3>1, <3>2, ReadStep DEF WebhookFind, TypeOK
    <2>3. CASE provider[k].verdict = "SUCCESS"
        <3>1. PICK h \in Handler :
                  h = [step |-> "readInvoice", key |-> k, inv |-> payment[k].inv,
                       amount |-> payment[k].amount]
            BY <2>1 DEF Handler, PaymentRow
        <3>2. HandlerOK(h)
            BY <2>1, <3>1 DEF HandlerOK
        <3> QED
            BY <1>0, <1>2, <2>3, <3>1, <3>2, ReadStep DEF WebhookFind, TypeOK
    <2> QED
        BY <1>2, <2>2, <2>3 DEF WebhookFind
<1>3. ASSUME WebhookFail(w) PROVE IInv'
    <2> DEFINE k == handler[w].key
    <2>1. k \in Keys /\ OnRecord(k) /\ payment' = [payment EXCEPT ![k].status = "FAILED"]
        BY <1>0, <1>3, HandlerShape DEF WebhookFail, HandlerOK
    <2>2. /\ payment' \in [Keys -> PaymentRow]
          /\ \A j \in Keys : payment'[j].inv = payment[j].inv
          /\ \A j \in Keys : OnRecord(j)' <=> OnRecord(j)
        BY <1>0, <2>1 DEF TypeOK, PaymentRow, PaymentStatus, OnRecord
    <2>3. TablesType' /\ Grow /\ TablesOK'
        BY <1>0, <1>3, <2>2
        DEF WebhookFail, TablesType, TablesOK, PaidWithinTotal, PaidMeansSettled, Grow, Issued
    <2> QED
        BY <1>1, <1>3, <2>3, OneHandlerStep DEF WebhookFail
<1>4. ASSUME WebhookRead(w) PROVE IInv'
    <2> DEFINE g == handler[w]
               row == invoice[g.inv]
    <2>1. /\ g.key \in Keys /\ g.inv \in Invoices /\ g.amount \in Nat
          /\ OnRecord(g.key) /\ Issued(g.inv)
        BY <1>0, <1>4, HandlerShape DEF WebhookRead, HandlerOK
    <2>2. row \in InvoiceRow
        BY <1>0, <2>1 DEF TypeOK
    <2>3. CASE row.paid + g.amount > row.total
        BY <1>0, <1>1, <1>4, <2>1, <2>2, <2>3, ReadStep DEF WebhookRead, TypeOK, InvoiceRow
    <2>4. CASE row.paid + g.amount <= row.total
        <3>1. row.paid + g.amount \in Nat /\ row.status \in InvoiceStatus
            BY <2>1, <2>2 DEF InvoiceRow
        <3>2. PICK h \in Handler :
                  h = [step |-> "settle", key |-> g.key, inv |-> g.inv, amount |-> g.amount,
                       status |-> row.status, nextPaid |-> row.paid + g.amount]
            BY <2>1, <3>1 DEF Handler
        <3>3. HandlerOK(h)
            BY <2>1, <2>4, <3>2 DEF HandlerOK
        <3>4. Become(w, h) /\ UNCHANGED <<invoice, payment, mailed, provider>>
            BY <1>4, <2>1, <2>2, <2>4, <3>2 DEF WebhookRead, InvoiceRow
        <3> QED
            BY <1>0, <3>3, <3>4, ReadStep DEF TypeOK
    <2> QED
        BY <1>4, <2>3, <2>4 DEF WebhookRead
<1>5. ASSUME WebhookSettle(w) PROVE IInv'
    <2> DEFINE g == handler[w]
    <2>1. /\ g.step = "settle"
          /\ invoice' = Credited(g.inv, g)
          /\ payment' = [payment EXCEPT ![g.key].status = "COMPLETED"]
          /\ Become(w, Idle) /\ UNCHANGED <<mailed, provider>>
        BY <1>5 DEF WebhookSettle
    <2>2. g.key \in Keys /\ OnRecord(g.key)
        BY <1>0, <2>1, HandlerShape DEF HandlerOK
    <2>3. /\ invoice' \in [Invoices -> InvoiceRow]
          /\ \A i \in Invoices : Issued(i) => Issued(i)' /\ invoice'[i].total = invoice[i].total
          /\ \A i \in Invoices : ~Issued(i)' => ~Issued(i) /\ invoice'[i] = invoice[i]
          /\ (PaidWithinTotal /\ PaidMeansSettled)'
        BY <2>1, CreditedOK
    <2>4. /\ payment' \in [Keys -> PaymentRow]
          /\ \A j \in Keys : payment'[j].inv = payment[j].inv
          /\ \A j \in Keys : OnRecord(j)' <=> OnRecord(j)
        BY <1>0, <2>1, <2>2 DEF TypeOK, PaymentRow, PaymentStatus, OnRecord
    <2>5. TablesType' /\ Grow
        BY <1>0, <2>1, <2>3, <2>4 DEF TablesType, Grow
    <2>6. TablesOK'
        BY <1>0, <2>1, <2>3, <2>4 DEF TablesOK
    <2> QED
        BY <1>1, <2>1, <2>5, <2>6, OneHandlerStep
<1> QED
    BY <1>2, <1>3, <1>4, <1>5 DEF WebhookStep

(* Steps that no handler takes, and aborts.                                *)
LEMMA OtherStepInv ==
    ASSUME IInv,
           \/ \E w \in Workers : Abort(w)
           \/ \E i \in Invoices : DueDatePasses(i)
           \/ \E k \in Keys : ProviderDecides(k)
           \/ markOverdue
           \/ UNCHANGED vars
    PROVE  IInv'
<1>0. TypeOK /\ TablesOK /\ TablesType
    BY DEF IInv, TypeOK, TablesType
<1>1. ASSUME NEW w \in Workers, Abort(w) PROVE IInv'
    <2>1. Idle \in Handler /\ HandlerOK(Idle)
        BY DEF Handler, HandlerOK, Idle
    <2> QED
        BY <1>0, <1>1, <2>1, ReadStep DEF Abort, Finish, TypeOK
<1>2. ASSUME NEW i \in Invoices, DueDatePasses(i) PROVE IInv'
    <2>1. TablesType' /\ Grow /\ TablesOK'
        BY <1>0, <1>2
        DEF DueDatePasses, TablesType, InvoiceRow, TablesOK, PaidWithinTotal, PaidMeansSettled,
            Grow, Issued, OnRecord
    <2> QED
        BY <1>2, <2>1, OutsideStep DEF DueDatePasses
<1>3. ASSUME NEW k \in Keys, ProviderDecides(k) PROVE IInv'
    <2>1. TablesType'
        BY <1>0, <1>3 DEF ProviderDecides, TablesType, ProviderRow
    <2>2. Grow /\ TablesOK'
        BY <1>0, <1>3
        DEF ProviderDecides, TablesOK, PaidWithinTotal, PaidMeansSettled, Grow, Issued, OnRecord
    <2> QED
        BY <1>3, <2>1, <2>2, OutsideStep DEF ProviderDecides
<1>4. ASSUME markOverdue PROVE IInv'
    <2>1. invoice' = [i \in Invoices |-> [invoice[i] EXCEPT !.status = effectiveStatus(invoice[i])]]
          /\ UNCHANGED <<payment, mailed, provider, handler>>
        BY <1>4 DEF markOverdue
    <2>2. ASSUME NEW i \in Invoices
          PROVE  /\ invoice'[i] \in InvoiceRow
                 /\ invoice'[i].paid = invoice[i].paid
                 /\ invoice'[i].total = invoice[i].total
                 /\ Issued(i)' <=> Issued(i)
                 /\ invoice'[i].status = "PAID" <=> invoice[i].status = "PAID"
        <3>1. invoice[i] \in InvoiceRow
            BY <1>0 DEF TypeOK
        <3>2. invoice'[i] = [invoice[i] EXCEPT !.status = effectiveStatus(invoice[i])]
            BY <2>1
        <3>3. effectiveStatus(invoice[i]) \in InvoiceStatus
            BY <3>1, EffectiveStatus
        <3> QED
            BY <3>1, <3>2, <3>3, EffectiveStatus DEF InvoiceRow, Issued
    <2>3. TablesType' /\ Grow
        BY <1>0, <2>1, <2>2 DEF TablesType, Grow, OnRecord
    <2>4. TablesOK'
        BY <1>0, <2>1, <2>2 DEF TablesOK, PaidWithinTotal, PaidMeansSettled, OnRecord
    <2> QED
        BY <2>1, <2>3, <2>4, OutsideStep
<1>5. ASSUME UNCHANGED vars PROVE IInv'
    <2>1. TablesType' /\ Grow /\ TablesOK'
        BY <1>0, <1>5
        DEF vars, TablesType, TablesOK, PaidWithinTotal, PaidMeansSettled, Grow, Issued, OnRecord
    <2> QED
        BY <1>5, <2>1, OutsideStep DEF vars
<1> QED
    BY <1>1, <1>2, <1>3, <1>4, <1>5

-----------------------------------------------------------------------------
LEMMA InitInv == Init => IInv
    BY DEF Init, IInv, TypeOK, TablesOK, HandlerOK, PaidWithinTotal, PaidMeansSettled, Issued,
           OnRecord, Idle, Handler, NoInvoice, NoPayment, InvoiceRow, InvoiceStatus, PaymentRow,
           PaymentStatus, ProviderRow, Method

LEMMA NextInv == IInv /\ [Next]_vars => IInv'
    BY BillingAssumption, InvoiceStepInv, ChargeStepInv, WebhookStepInv, OtherStepInv DEF Next

(* The inductive invariant holds in every state the code can reach.        *)
THEOREM Invariance == Spec => []IInv
    BY InitInv, NextInv, PTL DEF Spec

(* Every table and every handler's locals stay well typed.                 *)
THEOREM TypeCorrect == Spec => []TypeOK
<1>1. IInv => TypeOK
    BY DEF IInv
<1> QED
    BY <1>1, Invariance, PTL

(* However charges, webhooks, sends and voids interleave, on any number of *)
(* invoices and whatever the amounts, paidAmount never exceeds the total.  *)
THEOREM NeverOverpaid == Spec => []PaidWithinTotal
<1>1. IInv => PaidWithinTotal
    BY DEF IInv, TablesOK
<1> QED
    BY <1>1, Invariance, PTL

(* Status PAID is only ever seen on an invoice paid in full.               *)
THEOREM PaidIsSettled == Spec => []PaidMeansSettled
<1>1. IInv => PaidMeansSettled
    BY DEF IInv, TablesOK
<1> QED
    BY <1>1, Invariance, PTL

(* A DRAFT carries no money, no payment and no mail.                       *)
THEOREM DraftIsUntouched == Spec => []DraftUntouched
<1>1. IInv => DraftUntouched
    BY DEF IInv, TablesOK, DraftUntouched, Issued, OnRecord
<1> QED
    BY <1>1, Invariance, PTL

(* No interleaving of handlers shows an unsound invoice: the three facts   *)
(* above at once, as the runs check them.                                  *)
THEOREM InvoiceStaysSound == Spec => []InvoiceIsSound
<1>1. PaidWithinTotal /\ PaidMeansSettled /\ DraftUntouched => InvoiceIsSound
    BY DEF InvoiceIsSound
<1> QED
    BY <1>1, NeverOverpaid, PaidIsSettled, DraftIsUntouched, PTL

-----------------------------------------------------------------------------
(* -- Idempotency keys --------------------------------------------------- *)

Charging == {"initiate", "storeRef"}
Settling == {"readInvoice", "settle"}

KeyTables ==
    \A k \in Keys :
        LET p == payment[k] IN
        /\ provider[k].charges \in {0, 1}
        /\ provider[k].verdict # "none" => provider[k].charges = 1
        /\ provider[k].charges = 1 => OnRecord(k) /\ p.method = "EVC_PLUS"
        /\ p.status = "FAILED" => provider[k].verdict = "FAILED" /\ p.gatewayRef
        /\ p.status = "COMPLETED" /\ p.method = "EVC_PLUS" =>
               provider[k].verdict = "SUCCESS" /\ p.gatewayRef
        /\ p.status = "PENDING" => p.method = "EVC_PLUS"

KeyOK(h) ==
    LET p == payment[h.key]
        t == provider[h.key]
    IN
    /\ h.step \in Charging => p.status = "PENDING" /\ ~p.gatewayRef
    /\ h.step = "initiate" => t.charges = 0
    /\ h.step = "writeFailed" =>
           t.verdict = "FAILED" /\ p.status \in {"PENDING", "FAILED"} /\ p.gatewayRef
    /\ h.step \in Settling =>
           /\ t.verdict = "SUCCESS" /\ p.status \in {"PENDING", "COMPLETED"} /\ p.gatewayRef
           /\ h.inv = p.inv

Alone ==
    \A v, w \in Workers :
        /\ handler[v].step \in Charging
        /\ handler[w].step \in Charging
        /\ handler[v].key = handler[w].key
        => v = w

KInv ==
    /\ IInv
    /\ KeyTables
    /\ \A w \in Workers : KeyOK(handler[w])
    /\ Alone
    /\ CreditHasPayment

-----------------------------------------------------------------------------
(* A step that leaves payments and the provider alone, puts money on no    *)
(* unpaid invoice and moves one handler on to locals that are right.       *)
LEMMA KeyQuietStep ==
    ASSUME KInv, IInv', NEW w \in Workers, NEW h \in Handler, Become(w, h), KeyOK(h),
           h.step \notin Charging, UNCHANGED <<payment, provider>>,
           \A i \in Invoices : invoice'[i].paid > 0 => invoice[i].paid > 0
    PROVE  KInv'
<1>1. handler \in [Workers -> Handler]
    BY DEF KInv, IInv, TypeOK
<1>2. /\ handler'[w] = h
      /\ \A v \in Workers : v # w => handler'[v] = handler[v]
    BY <1>1 DEF Become
<1>3. \A v \in Workers : KeyOK(handler[v])'
    BY <1>2 DEF KInv, KeyOK
<1>4. Alone'
    BY <1>2 DEF KInv, Alone
<1>5. KeyTables'
    BY DEF KInv, KeyTables, OnRecord
<1>6. CreditHasPayment'
    BY DEF KInv, CreditHasPayment
<1> QED
    BY <1>3, <1>4, <1>5, <1>6 DEF KInv

(* A step of handler w that writes only the rows of key k: the other       *)
(* handlers with that key must be able to live with it.                    *)
LEMMA KeyWriteStep ==
    ASSUME KInv, IInv', NEW w \in Workers, NEW h \in Handler, NEW k \in Keys, Become(w, h),
           \A j \in Keys : j # k => payment'[j] = payment[j] /\ provider'[j] = provider[j],
           KeyTables', KeyOK(h)',
           \A v \in Workers : v # w /\ handler[v].key = k /\ handler[v].step \in Charging \cup Settling \cup {"writeFailed"}
                => KeyOK(handler[v])' /\ (h.step \in Charging => handler[v].step \notin Charging),
           h.step \in Charging => h.key = k,
           CreditHasPayment'
    PROVE  KInv'
<1>1. handler \in [Workers -> Handler]
    BY DEF KInv, IInv, TypeOK
<1>2. /\ handler'[w] = h
      /\ \A v \in Workers : v # w => handler'[v] = handler[v]
    BY <1>1 DEF Become
<1>3. ASSUME NEW v \in Workers PROVE KeyOK(handler[v])'
    <2>1. CASE v = w
        BY <1>2, <2>1 DEF KeyOK
    <2>2. CASE v # w /\ handler[v].step \in Charging \cup Settling \cup {"writeFailed"}
        <3>1. handler[v].key \in Keys
            BY <1>1, <2>2, HandlerShape DEF Charging, Settling
        <3>2. CASE handler[v].key = k
            BY <1>2, <2>2, <3>2 DEF KeyOK
        <3>3. CASE handler[v].key # k
            BY <1>2, <2>2, <3>1, <3>3 DEF KInv, KeyOK
        <3> QED
            BY <3>2, <3>3
    <2>3. CASE v # w /\ handler[v].step \notin Charging \cup Settling \cup {"writeFailed"}
        BY <1>2, <2>3 DEF KeyOK, Charging, Settling
    <2> QED
        BY <2>1, <2>2, <2>3
<1>4. Alone'
    BY <1>2 DEF KInv, Alone
<1> QED
    BY <1>3, <1>4 DEF KInv

-----------------------------------------------------------------------------
LEMMA InvoiceStepKey ==
    ASSUME KInv, IInv', NEW w \in Workers, InvoiceStep(w)
    PROVE  KInv'
<1> USE DEF At, Finish
<1>0. TypeOK /\ TypeOK' /\ handler[w] \in Handler /\ handler'[w] \in Handler
    BY DEF KInv, IInv, TypeOK
<1>1. UNCHANGED <<payment, provider>>
    BY DEF InvoiceStep, CreateCount, CreateInsert, SendRead, SendWrite, SendMail, VoidRead, VoidWrite
<1>2. PICK h \in Handler : h = handler'[w]
    BY <1>0
<1>3. /\ Become(w, h)
      /\ h.step \in {"idle", "insertInvoice", "writeSent", "mailClient", "writeVoid"}
    BY <1>0, <1>2
    DEF InvoiceStep, CreateCount, CreateInsert, SendRead, SendWrite, SendMail, VoidRead, VoidWrite,
        Become, Idle, TypeOK
<1>4. KeyOK(h)
    BY <1>3 DEF KeyOK, Charging, Settling
<1>5. \A i \in Invoices : invoice'[i].paid > 0 => invoice[i].paid > 0
    <2>1. CASE CreateInsert(w)
        <3>1. handler[w].inv \in Invoices
            BY <1>0, <2>1, HandlerShape DEF CreateInsert
        <3> QED
            BY <1>0, <2>1, <3>1 DEF CreateInsert, TypeOK
    <2>2. CASE SendWrite(w) \/ VoidWrite(w)
        BY <1>0, <2>2, HandlerShape DEF SendWrite, VoidWrite, TypeOK, InvoiceRow
    <2>3. CASE UNCHANGED invoice
        BY <2>3
    <2> QED
        BY <2>1, <2>2, <2>3 DEF InvoiceStep, CreateCount, SendRead, SendMail, VoidRead
<1> QED
    BY <1>1, <1>3, <1>4, <1>5, KeyQuietStep DEF Charging

LEMMA ChargeStepKey ==
    ASSUME KInv, IInv', NEW w \in Workers, ChargeStep(w)
    PROVE  KInv'
<1> USE DEF At, Finish
<1>0. /\ TypeOK /\ TypeOK' /\ KeyTables /\ Alone /\ CreditHasPayment
      /\ \A v \in Workers : handler[v] \in Handler /\ HandlerOK(handler[v]) /\ KeyOK(handler[v])
      /\ handler'[w] \in Handler
    BY DEF KInv, IInv, TypeOK
<1>1. Idle \in Handler /\ KeyOK(Idle) /\ KeyOK(Idle)' /\ Idle.step = "idle"
    BY DEF Handler, KeyOK, Idle, Charging, Settling
<1>2. ASSUME NEW k \in Keys, NEW i \in Invoices, NEW a \in Amounts, NEW m \in Method,
             ChargeLookup(w, k, i, a, m)
      PROVE  KInv'
    <2>1. PICK h \in Handler : h = handler'[w]
        BY <1>0
    <2>2. Become(w, h) /\ h.step = "loadInvoice"
        BY <1>0, <1>2, <2>1 DEF ChargeLookup, Become, TypeOK
    <2> QED
        BY <1>2, <2>2, KeyQuietStep DEF ChargeLookup, KeyOK, Charging, Settling
<1>3. ASSUME ChargeLoad(w) \/ KeyTaken(w) PROVE KInv'
    <2>1. PICK h \in Handler : h = handler'[w]
        BY <1>0
    <2>2. Become(w, h) /\ h.step \in {"idle", "creditBank", "createPending"}
        BY <1>0, <1>3, <2>1 DEF ChargeLoad, KeyTaken, Become, TypeOK, Idle
    <2> QED
        BY <1>3, <2>2, KeyQuietStep DEF ChargeLoad, KeyTaken, KeyOK, Charging, Settling
<1>4. ASSUME BankCommit(w) PROVE KInv'
    <2> DEFINE g == handler[w]
               k == g.key
               new == [status |-> "COMPLETED", inv |-> g.inv, amount |-> g.amount,
                       method |-> "BANK_TRANSFER", gatewayRef |-> FALSE]
    <2>1. /\ g.step = "creditBank" /\ ~OnRecord(k)
          /\ payment' = [payment EXCEPT ![k] = new] /\ provider' = provider
          /\ invoice' = Credited(g.inv, g) /\ Become(w, Idle)
        BY <1>4 DEF BankCommit, OnRecord
    <2>2. k \in Keys /\ g.inv \in Invoices
        BY <1>0, <2>1, HandlerShape
    <2>3. payment'[k] = new /\ \A j \in Keys : j # k => payment'[j] = payment[j]
        BY <1>0, <2>1, <2>2 DEF TypeOK
    <2>4. KeyTables'
        BY <1>0, <2>1, <2>2, <2>3 DEF KeyTables, OnRecord, TypeOK, ProviderRow
    <2>5. \A v \in Workers : handler[v].key = k =>
              handler[v].step \notin Charging \cup Settling \cup {"writeFailed"}
        BY <1>0, <2>1 DEF KeyOK, OnRecord, Charging, Settling
    <2>6. CreditHasPayment'
        BY <1>0, <2>1, <2>2, <2>3 DEF CreditHasPayment, Credited, TypeOK, OnRecord
    <2> QED
        BY <1>1, <2>1, <2>2, <2>3, <2>4, <2>5, <2>6, KeyWriteStep DEF Charging
<1>5. ASSUME EvcCreate(w) PROVE KInv'
    <2> DEFINE g == handler[w]
               k == g.key
               new == [status |-> "PENDING", inv |-> g.inv, amount |-> g.amount,
                       method |-> "EVC_PLUS", gatewayRef |-> FALSE]
    <2>1. /\ g.step = "createPending" /\ ~OnRecord(k)
          /\ payment' = [payment EXCEPT ![k] = new] /\ UNCHANGED <<invoice, provider>>
          /\ Become(w, [step |-> "initiate", key |-> k])
        BY <1>5 DEF EvcCreate, OnRecord
    <2>2. k \in Keys
        BY <1>0, <2>1, HandlerShape
    <2>3. payment'[k] = new /\ \A j \in Keys : j # k => payment'[j] = payment[j]
        BY <1>0, <2>1, <2>2 DEF TypeOK
    <2>4. KeyTables' /\ provider[k].charges = 0
        BY <1>0, <2>1, <2>2, <2>3 DEF KeyTables, OnRecord
    <2>5. \A v \in Workers : handler[v].key = k =>
              handler[v].step \notin Charging \cup Settling \cup {"writeFailed"}
        BY <1>0, <2>1 DEF KeyOK, OnRecord, Charging, Settling
    <2>6. CreditHasPayment'
        BY <1>0, <2>1, <2>2, <2>3 DEF CreditHasPayment, OnRecord
    <2>7. PICK h \in Handler : h = [step |-> "initiate", key |-> k]
        BY <2>2 DEF Handler
    <2>8. KeyOK(h)' /\ h.key = k
        BY <2>1, <2>3, <2>4, <2>7 DEF KeyOK, Charging, Settling
    <2> QED
        BY <2>1, <2>2, <2>3, <2>4, <2>5, <2>6, <2>7, <2>8, KeyWriteStep
<1>6. ASSUME EvcInitiate(w) PROVE KInv'
    <2> DEFINE k == handler[w].key
    <2>1. /\ k \in Keys /\ OnRecord(k) /\ provider[k].charges = 0
          /\ payment[k].status = "PENDING" /\ ~payment[k].gatewayRef
        BY <1>0, <1>6, HandlerShape DEF EvcInitiate, KeyOK, HandlerOK, Charging
    <2>2. /\ provider' = [provider EXCEPT ![k].charges = @ + 1]
          /\ UNCHANGED <<invoice, payment>>
        BY <1>6 DEF EvcInitiate
    <2>3. /\ provider'[k] = [provider[k] EXCEPT !.charges = 1]
          /\ \A j \in Keys : j # k => provider'[j] = provider[j]
        BY <1>0, <2>1, <2>2 DEF TypeOK
    <2>4. provider'[k].charges = 1 /\ provider'[k].verdict = provider[k].verdict
        BY <1>0, <2>1, <2>3 DEF TypeOK, ProviderRow
    <2>5. KeyTables'
        BY <1>0, <2>1, <2>2, <2>3, <2>4 DEF KeyTables, OnRecord
    <2>6. \A v \in Workers : v # w /\ handler[v].key = k =>
              handler[v].step \notin Charging \cup Settling \cup {"writeFailed"}
        BY <1>0, <1>6, <2>1 DEF EvcInitiate, KeyOK, Alone, Charging, Settling
    <2>7. CreditHasPayment'
        BY <1>0, <2>2 DEF CreditHasPayment
    <2>8. CASE Become(w, [step |-> "storeRef", key |-> k])
        <3>1. PICK h \in Handler : h = [step |-> "storeRef", key |-> k]
            BY <2>1 DEF Handler
        <3>2. KeyOK(h)' /\ h.key = k
            BY <2>1, <2>2, <3>1 DEF KeyOK, Charging, Settling
        <3> QED
            BY <2>1, <2>2, <2>3, <2>5, <2>6, <2>7, <2>8, <3>1, <3>2, KeyWriteStep
    <2>9. CASE Become(w, Idle)
        BY <1>1, <2>1, <2>2, <2>3, <2>5, <2>6, <2>7, <2>9, KeyWriteStep DEF Charging
    <2> QED
        BY <1>6, <2>8, <2>9 DEF EvcInitiate
<1>7. ASSUME EvcStoreRef(w) PROVE KInv'
    <2> DEFINE k == handler[w].key
    <2>1. k \in Keys /\ payment[k].status = "PENDING" /\ ~payment[k].gatewayRef
        BY <1>0, <1>7, HandlerShape DEF EvcStoreRef, KeyOK, Charging
    <2>2. /\ payment' = [payment EXCEPT ![k].gatewayRef = TRUE]
          /\ UNCHANGED <<invoice, provider>> /\ Become(w, Idle)
        BY <1>7 DEF EvcStoreRef
    <2>3. /\ payment'[k].status = "PENDING" /\ payment'[k].method = payment[k].method
          /\ \A j \in Keys : j # k => payment'[j] = payment[j]
        BY <1>0, <2>1, <2>2 DEF TypeOK, PaymentRow
    <2>4. KeyTables'
        BY <1>0, <2>1, <2>2, <2>3 DEF KeyTables, OnRecord
    <2>5. \A v \in Workers : v # w /\ handler[v].key = k =>
              handler[v].step \notin Charging \cup Settling \cup {"writeFailed"}
        BY <1>0, <1>7, <2>1 DEF EvcStoreRef, KeyOK, Alone, Charging, Settling
    <2>6. CreditHasPayment'
        BY <1>0, <2>1, <2>2, <2>3 DEF CreditHasPayment
    <2> QED
        <3>1. CreditHasPayment'
            BY <2>6 DEF CreditHasPayment
        <3> QED
            BY <1>1, <2>1, <2>2, <2>3, <2>4, <2>5, <3>1, KeyWriteStep DEF Charging
<1> QED
    BY <1>2, <1>3, <1>4, <1>5, <1>6, <1>7 DEF ChargeStep

LEMMA WebhookStepKey ==
    ASSUME KInv, IInv', NEW w \in Workers, WebhookStep(w)
    PROVE  KInv'
<1> USE DEF At, Finish
<1>0. /\ TypeOK /\ TypeOK' /\ KeyTables /\ Alone /\ CreditHasPayment
      /\ \A v \in Workers : handler[v] \in Handler /\ KeyOK(handler[v])
      /\ handler'[w] \in Handler
    BY DEF KInv, IInv, TypeOK
<1>1. Idle \in Handler /\ KeyOK(Idle) /\ KeyOK(Idle)' /\ Idle.step = "idle"
    BY DEF Handler, KeyOK, Idle, Charging, Settling
<1>2. ASSUME NEW k \in Keys, WebhookFind(w, k) PROVE KInv'
    <2>1. PICK h \in Handler : h = handler'[w]
        BY <1>0
    <2>2. \/ h = [step |-> "writeFailed", key |-> k] /\ provider[k].verdict = "FAILED"
          \/ /\ h = [step |-> "readInvoice", key |-> k, inv |-> payment[k].inv,
                       amount |-> payment[k].amount]
             /\ provider[k].verdict = "SUCCESS"
        BY <1>0, <1>2, <2>1 DEF WebhookFind, Become, TypeOK
    <2>3. Become(w, h) /\ h.step \in {"writeFailed", "readInvoice"}
        BY <1>0, <1>2, <2>1, <2>2 DEF WebhookFind, Become, TypeOK
    <2>4. KeyOK(h)
        BY <1>2, <2>2 DEF WebhookFind, KeyOK, Charging, Settling
    <2> QED
        BY <1>2, <2>3, <2>4, KeyQuietStep DEF WebhookFind, Charging
<1>3. ASSUME WebhookRead(w) PROVE KInv'
    <2>1. PICK h \in Handler : h = handler'[w]
        BY <1>0
    <2>2. /\ Become(w, h)
          /\ \/ h.step = "idle"
             \/ h.step = "settle" /\ h.key = handler[w].key /\ h.inv = handler[w].inv
        BY <1>0, <1>3, <2>1 DEF WebhookRead, Become, TypeOK, Idle
    <2>3. KeyOK(h)
        BY <1>0, <1>3, <2>2 DEF WebhookRead, KeyOK, Charging, Settling
    <2> QED
        BY <1>3, <2>2, <2>3, KeyQuietStep DEF WebhookRead, Charging
<1>4. ASSUME WebhookFail(w) PROVE KInv'
    <2> DEFINE k == handler[w].key
    <2>1. /\ k \in Keys /\ provider[k].verdict = "FAILED" /\ payment[k].gatewayRef
          /\ payment[k].status \in {"PENDING", "FAILED"}
        BY <1>0, <1>4, HandlerShape DEF WebhookFail, KeyOK
    <2>2. /\ payment' = [payment EXCEPT ![k].status = "FAILED"]
          /\ UNCHANGED <<invoice, provider>> /\ Become(w, Idle)
        BY <1>4 DEF WebhookFail
    <2>3. /\ payment'[k].status = "FAILED"
          /\ payment'[k].method = payment[k].method /\ payment'[k].gatewayRef = payment[k].gatewayRef
          /\ \A j \in Keys : j # k => payment'[j] = payment[j]
        BY <1>0, <2>1, <2>2 DEF TypeOK, PaymentRow
    <2>4. KeyTables'
        BY <1>0, <2>1, <2>2, <2>3 DEF KeyTables, OnRecord
    <2>5. ASSUME NEW v \in Workers, v # w, handler[v].key = k,
                 handler[v].step \in Charging \cup Settling \cup {"writeFailed"}
          PROVE  KeyOK(handler[v])'
        <3>1. handler'[v] = handler[v] /\ handler[v].step = "writeFailed"
            BY <1>0, <2>1, <2>2, <2>5 DEF KeyOK, Become, TypeOK, Charging, Settling
        <3> QED
            BY <2>1, <2>2, <2>3, <2>5, <3>1 DEF KeyOK, Charging, Settling
    <2>6. CreditHasPayment'
        BY <1>0, <2>1, <2>2, <2>3 DEF CreditHasPayment
    <2> QED
        BY <1>1, <2>1, <2>2, <2>3, <2>4, <2>5, <2>6, KeyWriteStep DEF Charging
<1>5. ASSUME WebhookSettle(w) PROVE KInv'
    <2> DEFINE g == handler[w]
               k == g.key
    <2>1. /\ k \in Keys /\ provider[k].verdict = "SUCCESS" /\ payment[k].gatewayRef
          /\ payment[k].status \in {"PENDING", "COMPLETED"} /\ g.inv = payment[k].inv
        BY <1>0, <1>5, HandlerShape DEF WebhookSettle, KeyOK, Settling
    <2>2. /\ payment' = [payment EXCEPT ![k].status = "COMPLETED"]
          /\ invoice' = Credited(g.inv, g) /\ provider' = provider /\ Become(w, Idle)
        BY <1>5 DEF WebhookSettle
    <2>3. /\ payment'[k].status = "COMPLETED" /\ payment'[k].inv = payment[k].inv
          /\ payment'[k].method = payment[k].method /\ payment'[k].gatewayRef = payment[k].gatewayRef
          /\ \A j \in Keys : j # k => payment'[j] = payment[j]
        BY <1>0, <2>1, <2>2 DEF TypeOK, PaymentRow
    <2>4. KeyTables'
        BY <1>0, <2>1, <2>2, <2>3 DEF KeyTables, OnRecord
    <2>5. ASSUME NEW v \in Workers, v # w, handler[v].key = k,
                 handler[v].step \in Charging \cup Settling \cup {"writeFailed"}
          PROVE  KeyOK(handler[v])'
        <3>1. handler'[v] = handler[v] /\ handler[v].step \in Settling
            BY <1>0, <2>1, <2>2, <2>5 DEF KeyOK, Become, TypeOK, Charging, Settling
        <3>2. handler[v].inv = payment[k].inv
            BY <1>0, <2>5, <3>1 DEF KeyOK
        <3> QED
            BY <2>1, <2>2, <2>3, <2>5, <3>1, <3>2 DEF KeyOK, Charging, Settling
    <2>6. ASSUME NEW i \in Invoices, invoice'[i].paid > 0
          PROVE  \E j \in Keys : payment'[j].status = "COMPLETED" /\ payment'[j].inv = i
        <3>1. CASE i = g.inv
            BY <2>1, <2>3, <3>1
        <3>2. CASE i # g.inv
            <4>1. invoice'[i] = invoice[i]
                BY <1>0, <2>2, <3>2 DEF Credited, TypeOK
            <4>2. PICK j \in Keys : payment[j].status = "COMPLETED" /\ payment[j].inv = i
                BY <1>0, <2>6, <4>1 DEF CreditHasPayment
            <4>3. payment'[j].status = "COMPLETED" /\ payment'[j].inv = i
                BY <2>3, <4>2
            <4> QED
                BY <4>3
        <3> QED
            BY <3>1, <3>2
    <2> QED
        <3>1. CreditHasPayment'
            BY <2>6 DEF CreditHasPayment
        <3> QED
            BY <1>1, <2>1, <2>2, <2>3, <2>4, <2>5, <3>1, KeyWriteStep DEF Charging
<1> QED
    BY <1>2, <1>3, <1>4, <1>5 DEF WebhookStep

LEMMA OtherStepKey ==
    ASSUME KInv, IInv',
           \/ \E w \in Workers : Abort(w)
           \/ \E i \in Invoices : DueDatePasses(i)
           \/ \E k \in Keys : ProviderDecides(k)
           \/ markOverdue
           \/ UNCHANGED vars
    PROVE  KInv'
<1>0. /\ TypeOK /\ KeyTables /\ Alone /\ CreditHasPayment
      /\ \A v \in Workers : handler[v] \in Handler /\ KeyOK(handler[v])
    BY DEF KInv, IInv, TypeOK
<1>1. ASSUME NEW w \in Workers, Abort(w) PROVE KInv'
    <2>1. Idle \in Handler /\ KeyOK(Idle) /\ Idle.step = "idle"
        BY DEF Handler, KeyOK, Idle, Charging, Settling
    <2> QED
        BY <1>1, <2>1, KeyQuietStep DEF Abort, Finish, Charging
<1>2. CASE UNCHANGED <<payment, provider, handler>> /\
           \A i \in Invoices : invoice'[i].paid > 0 => invoice[i].paid > 0
    BY <1>0, <1>2 DEF KInv, KeyTables, KeyOK, Alone, CreditHasPayment, OnRecord
<1>3. ASSUME NEW i \in Invoices, DueDatePasses(i) PROVE KInv'
    BY <1>0, <1>2, <1>3 DEF DueDatePasses, TypeOK, InvoiceRow
<1>4. CASE markOverdue \/ UNCHANGED vars
    <2>1. \A i \in Invoices : invoice'[i].paid = invoice[i].paid
        BY <1>0, <1>4 DEF markOverdue, vars, TypeOK, InvoiceRow
    <2> QED
        BY <1>2, <1>4, <2>1 DEF markOverdue, vars
<1>5. ASSUME NEW k \in Keys, ProviderDecides(k) PROVE KInv'
    <2>1. UNCHANGED <<invoice, payment, handler>>
        BY <1>5 DEF ProviderDecides
    <2>2. /\ provider[k].charges = 1 /\ provider[k].verdict = "none"
          /\ provider'[k].charges = 1 /\ provider'[k].verdict \in {"SUCCESS", "FAILED"}
          /\ \A j \in Keys : j # k => provider'[j] = provider[j]
        BY <1>0, <1>5 DEF ProviderDecides, KeyTables, TypeOK, ProviderRow
    <2>3. payment[k].status \notin {"COMPLETED", "FAILED"}
        BY <1>0, <2>2 DEF KeyTables
    <2>4. KeyTables'
        BY <1>0, <2>1, <2>2, <2>3 DEF KeyTables, OnRecord
    <2>5. ASSUME NEW v \in Workers PROVE KeyOK(handler[v])'
        <3>1. handler'[v] = handler[v] /\ KeyOK(handler[v])
            BY <1>0, <2>1
        <3>2. CASE handler[v].step \in Charging \cup Settling \cup {"writeFailed"}
            <4>1. handler[v].key \in Keys
                BY <1>0, <3>2, HandlerShape DEF Charging, Settling
            <4> QED
                BY <2>1, <2>2, <3>1, <3>2, <4>1 DEF KeyOK, Charging, Settling
        <3>3. CASE handler[v].step \notin Charging \cup Settling \cup {"writeFailed"}
            BY <3>1, <3>3 DEF KeyOK, Charging, Settling
        <3> QED
            BY <3>2, <3>3
    <2>6. Alone' /\ CreditHasPayment'
        BY <1>0, <2>1 DEF Alone, CreditHasPayment
    <2> QED
        BY <2>4, <2>5, <2>6 DEF KInv
<1> QED
    BY <1>1, <1>3, <1>4, <1>5

-----------------------------------------------------------------------------
LEMMA InitKey == Init => KInv
<1> SUFFICES ASSUME Init PROVE KInv
    OBVIOUS
<1>1. IInv
    BY InitInv
<1>2. KeyTables /\ CreditHasPayment
    BY DEF Init, KeyTables, CreditHasPayment, NoPayment, NoInvoice, OnRecord
<1>3. \A w \in Workers : handler[w].step = "idle"
    BY DEF Init, Idle
<1> QED
    BY <1>1, <1>2, <1>3 DEF KInv, KeyOK, Alone, Charging, Settling

LEMMA NextKey == KInv /\ [Next]_vars => KInv'
<1> SUFFICES ASSUME KInv, [Next]_vars PROVE KInv'
    OBVIOUS
<1>1. IInv'
    BY NextInv DEF KInv
<1> QED
    BY <1>1, InvoiceStepKey, ChargeStepKey, WebhookStepKey, OtherStepKey DEF Next

(* The invariant of the keys holds, however requests with one key, their   *)
(* charges and the webhooks of their payments interleave                   *)
(* (initiatePayment, handlePaymentWebhook).                                *)
THEOREM KeyInvariance == Spec => []KInv
    BY InitKey, NextKey, PTL DEF Spec

(* One Idempotency-Key asks the provider for money at most once, for any   *)
(* number of simultaneous requests with that key.                          *)
THEOREM ChargedOnce == Spec => []ChargedOncePerKey
<1>1. KInv => ChargedOncePerKey
    BY DEF KInv, KeyTables, ChargedOncePerKey, OnRecord
<1> QED
    BY <1>1, KeyInvariance, PTL

(* Money on an invoice is always backed by a COMPLETED payment on it.      *)
THEOREM CreditIsBacked == Spec => []CreditHasPayment
<1>1. KInv => CreditHasPayment
    BY DEF KInv
<1> QED
    BY <1>1, KeyInvariance, PTL

(* A COMPLETED or FAILED payment row is never written differently again,   *)
(* and a PENDING one completes only on the provider's SUCCESS.             *)
THEOREM EndsOnce == Spec => PaymentEndsOnce
<1> DEFINE Step(k) ==
        /\ payment[k].status \in {"COMPLETED", "FAILED"} => payment'[k] = payment[k]
        /\ (payment[k].status = "PENDING" /\ payment'[k].status = "COMPLETED")
               => provider[k].verdict = "SUCCESS"
<1>1. ASSUME KInv, [Next]_vars, NEW k \in Keys PROVE Step(k)
    <2> USE DEF At
    <2>0. /\ TypeOK
          /\ \A v \in Workers : handler[v] \in Handler /\ KeyOK(handler[v])
        BY <1>1 DEF KInv, IInv, TypeOK
    <2>1. CASE payment' = payment
        BY <2>1
    <2>2. ASSUME NEW w \in Workers, BankCommit(w) \/ EvcCreate(w) PROVE Step(k)
        <3>1. handler[w].key \in Keys
            BY <2>0, <2>2, HandlerShape DEF BankCommit, EvcCreate
        <3> QED
            BY <2>0, <2>2, <3>1 DEF BankCommit, EvcCreate, TypeOK
    <2>3. ASSUME NEW w \in Workers, EvcStoreRef(w) PROVE Step(k)
        <3>1. handler[w].key \in Keys /\ payment[handler[w].key].status = "PENDING"
            BY <2>0, <2>3, HandlerShape DEF EvcStoreRef, KeyOK, Charging
        <3> QED
            BY <2>0, <2>3, <3>1 DEF EvcStoreRef, TypeOK, PaymentRow
    <2>4. ASSUME NEW w \in Workers, WebhookFail(w) PROVE Step(k)
        <3>1. /\ handler[w].key \in Keys
              /\ payment[handler[w].key].status \in {"PENDING", "FAILED"}
            BY <2>0, <2>4, HandlerShape DEF WebhookFail, KeyOK
        <3> QED
            BY <2>0, <2>4, <3>1 DEF WebhookFail, TypeOK, PaymentRow
    <2>5. ASSUME NEW w \in Workers, WebhookSettle(w) PROVE Step(k)
        <3>1. /\ handler[w].key \in Keys
              /\ payment[handler[w].key].status \in {"PENDING", "COMPLETED"}
              /\ provider[handler[w].key].verdict = "SUCCESS"
            BY <2>0, <2>5, HandlerShape DEF WebhookSettle, KeyOK, Settling
        <3> QED
            BY <2>0, <2>5, <3>1 DEF WebhookSettle, TypeOK, PaymentRow
    <2>6. \/ payment' = payment
          \/ \E w \in Workers : \/ BankCommit(w) \/ EvcCreate(w) \/ EvcStoreRef(w)
                                 \/ WebhookFail(w) \/ WebhookSettle(w)
        BY <1>1
        DEF Next, vars, InvoiceStep, ChargeStep, WebhookStep, CreateCount, CreateInsert, SendRead,
            SendWrite, SendMail, VoidRead, VoidWrite, ChargeLookup, ChargeLoad, KeyTaken,
            EvcInitiate, WebhookFind, WebhookRead, Abort, DueDatePasses, ProviderDecides, markOverdue
    <2> QED
        BY <2>1, <2>2, <2>3, <2>4, <2>5, <2>6
<1>2. KInv /\ [Next]_vars => \A k \in Keys : Step(k)
    BY <1>1
<1> QED
    BY <1>2, KeyInvariance, PTL DEF Spec, PaymentEndsOnce

(* Both together: for any number of keys, handlers and redeliveries, each     *)
(* key is charged once for a payment on record, and credit has a COMPLETED    *)
(* payment behind it.                                                         *)
THEOREM MoneyStaysReal == Spec => []MoneyIsReal
<1>1. ChargedOncePerKey /\ CreditHasPayment => MoneyIsReal
    BY DEF MoneyIsReal
<1> QED
    BY <1>1, ChargedOnce, CreditIsBacked, PTL

-----------------------------------------------------------------------------
(* -- Handlers that are not overtaken ------------------------------------ *)

(* Nobody is about to write SENT or VOID over an invoice that is PAID.     *)
Closing(h, invoices) == h.step \in {"writeSent", "writeVoid"} => invoices[h.inv].status # "PAID"

ClosingInv ==
    /\ IInv
    /\ FullBalanceCloses
    /\ \A w \in Workers : Closing(handler[w], invoice)

(* A step of one handler keeps the invariant when the rows it leaves and   *)
(* its next locals suit each other: nobody else is overtaken.              *)
LEMMA CallCloses ==
    ASSUME ClosingInv, IInv', [ClosedAlone]_vars, NEW w \in Workers, NEW h, Become(w, h),
           Closing(h, invoice'), FullBalanceCloses'
    PROVE  ClosingInv'
<1>1. ASSUME NEW v \in Workers PROVE Closing(handler'[v], invoice')
  <2>1. handler[v] \in Handler /\ Closing(handler[v], invoice)
    BY DEF ClosingInv, IInv, TypeOK
  <2>2. CASE v = w
    BY <2>2 DEF ClosingInv, IInv, TypeOK, Become
  <2>3. CASE v # w
    <3>1. handler'[v] = handler[v]
      BY <2>3 DEF ClosingInv, IInv, TypeOK, Become
    <3>2. ASSUME handler[v].step \in {"writeSent", "writeVoid"}
          PROVE  invoice'[handler[v].inv].status # "PAID"
      <4>1. handler[v].inv \in Invoices /\ invoice[handler[v].inv].status # "PAID"
        BY <2>1, <3>2, HandlerShape DEF Closing
      <4> QED
        BY <3>1, <3>2, <4>1 DEF ClosedAlone, vars
    <3> QED
      BY <3>1, <3>2 DEF Closing
  <2> QED
    BY <2>2, <2>3
<1> QED
  BY <1>1 DEF ClosingInv

LEMMA CallReadsCloses ==
    ASSUME ClosingInv, IInv', [ClosedAlone]_vars, NEW w \in Workers, NEW h, Become(w, h),
           Closing(h, invoice), UNCHANGED invoice
    PROVE  ClosingInv'
<1>1. FullBalanceCloses' /\ Closing(h, invoice')
  BY DEF ClosingInv, FullBalanceCloses
<1> QED
  BY <1>1, CallCloses

(* A credit that leaves nothing due writes PAID, also a stale one.         *)
LEMMA CreditCloses ==
    ASSUME ClosingInv, NEW w \in Workers, handler[w].step \in {"creditBank", "settle"},
           invoice' = Credited(handler[w].inv, handler[w])
    PROVE  FullBalanceCloses'
<1>0. TypeOK /\ FullBalanceCloses /\ handler[w] \in Handler
  BY DEF ClosingInv, IInv, TypeOK
<1>1. PICK i \in Invoices, next \in Nat : i = handler[w].inv /\ next = handler[w].nextPaid
  BY <1>0, HandlerShape
<1>2. PICK total \in Nat : total = invoice[i].total /\ invoice[i] \in InvoiceRow
  BY <1>0 DEF TypeOK, InvoiceRow
<1>3. PICK s : s = nextInvoiceStatus(handler[w].status, next, total)
  OBVIOUS
<1>4. next = total => s = "PAID"
  BY <1>3 DEF nextInvoiceStatus
<1>5. invoice' = [invoice EXCEPT ![i].paid = next, ![i].status = s]
  BY <1>1, <1>2, <1>3 DEF Credited
<1>6. /\ \A j \in Invoices \ {i} : invoice'[j] = invoice[j]
      /\ invoice'[i].paid = next /\ invoice'[i].status = s /\ invoice'[i].total = total
  BY <1>0, <1>2, <1>5 DEF TypeOK, InvoiceRow
<1> QED
  BY <1>0, <1>4, <1>6 DEF FullBalanceCloses

(* createInvoice, sendInvoice and voidInvoice.                             *)
LEMMA InvoiceStepCloses ==
    ASSUME ClosingInv, IInv', [ClosedAlone]_vars, NEW w \in Workers, InvoiceStep(w)
    PROVE  ClosingInv'
<1> USE DEF At, Finish
<1>0. TypeOK /\ FullBalanceCloses /\ handler[w] \in Handler /\ Closing(handler[w], invoice)
  BY DEF ClosingInv, IInv, TypeOK
<1>1. ASSUME NEW total \in Totals, NEW pastDue \in BOOLEAN, CreateCount(w, total, pastDue)
      PROVE  ClosingInv'
  <2>1. PICK h : h = [step |-> "insertInvoice", inv |-> Cardinality(Numbered) + 1,
                      total |-> total, pastDue |-> pastDue]
    OBVIOUS
  <2>2. Closing(h, invoice)
    BY <2>1 DEF Closing
  <2> QED
    BY <1>1, <2>1, <2>2, CallReadsCloses DEF CreateCount
<1>2. ASSUME CreateInsert(w) PROVE ClosingInv'
  <2>1. PICK i \in Invoices : i = handler[w].inv
    BY <1>0, <1>2, HandlerShape DEF CreateInsert
  <2>2. PICK row : row = [status |-> "DRAFT", total |-> handler[w].total, paid |-> 0,
                          pastDue |-> handler[w].pastDue]
    OBVIOUS
  <2>3. (invoice' = [invoice EXCEPT ![i] = row] \/ UNCHANGED invoice) /\ Become(w, Idle)
    BY <1>2, <2>1, <2>2 DEF CreateInsert
  <2>4. \A j \in Invoices : invoice'[j] = invoice[j] \/ invoice'[j] = row
    BY <1>0, <2>3 DEF TypeOK
  <2>5. row.paid = 0
    BY <2>2
  <2>6. FullBalanceCloses'
    BY <1>0, <2>4, <2>5 DEF FullBalanceCloses
  <2>7. Closing(Idle, invoice')
    BY DEF Closing, Idle
  <2> QED
    BY <2>3, <2>6, <2>7, CallCloses
<1>3. ASSUME NEW i \in Invoices, SendRead(w, i) PROVE ClosingInv'
  <2>1. PICK h : h = [step |-> "writeSent", inv |-> i,
                      status |-> IF invoice[i].pastDue THEN "OVERDUE" ELSE "SENT"]
    OBVIOUS
  <2>2. Closing(h, invoice)
    BY <1>3, <2>1 DEF Closing, SendRead
  <2> QED
    BY <1>3, <2>1, <2>2, CallReadsCloses DEF SendRead
<1>4. ASSUME NEW i \in Invoices, VoidRead(w, i) PROVE ClosingInv'
  <2>1. PICK h : h = [step |-> "writeVoid", inv |-> i]
    OBVIOUS
  <2>2. Closing(h, invoice)
    BY <1>4, <2>1 DEF Closing, VoidRead, VOIDABLE
  <2> QED
    BY <1>4, <2>1, <2>2, CallReadsCloses DEF VoidRead
<1>5. ASSUME SendMail(w) PROVE ClosingInv'
  <2>1. Closing(Idle, invoice)
    BY DEF Closing, Idle
  <2> QED
    BY <1>5, <2>1, CallReadsCloses DEF SendMail
<1>6. ASSUME SendWrite(w) \/ VoidWrite(w) PROVE ClosingInv'
  <2>1. PICK i \in Invoices : i = handler[w].inv
    BY <1>0, <1>6, HandlerShape DEF SendWrite, VoidWrite
  <2>2. PICK s \in {"SENT", "OVERDUE", "VOID"} : invoice' = [invoice EXCEPT ![i].status = s]
    BY <1>0, <1>6, <2>1, HandlerShape DEF SendWrite, VoidWrite
  <2>3. /\ \A j \in Invoices \ {i} : invoice'[j] = invoice[j]
        /\ invoice'[i].status = s /\ invoice'[i].paid = invoice[i].paid
        /\ invoice'[i].total = invoice[i].total
    BY <1>0, <2>2 DEF TypeOK, InvoiceRow
  <2>4. invoice[i].status # "PAID"
    BY <1>0, <1>6, <2>1 DEF SendWrite, VoidWrite, Closing
  <2>5. FullBalanceCloses'
    BY <1>0, <2>3, <2>4 DEF FullBalanceCloses
  <2>6. PICK h : Become(w, h) /\ h \in {[step |-> "mailClient", inv |-> handler[w].inv], Idle}
    BY <1>6 DEF SendWrite, VoidWrite
  <2>7. Closing(h, invoice')
    BY <2>6 DEF Closing, Idle
  <2> QED
    BY <2>5, <2>6, <2>7, CallCloses
<1> QED
  BY <1>1, <1>2, <1>3, <1>4, <1>5, <1>6 DEF InvoiceStep

(* A charge, a webhook or an abort goes on to no write of SENT or VOID,    *)
(* and writes an invoice only to credit it.                                *)
LEMMA MoneyStep ==
    ASSUME NEW w \in Workers, ChargeStep(w) \/ WebhookStep(w) \/ Abort(w)
    PROVE  /\ \E h : Become(w, h) /\ h.step \notin {"writeSent", "writeVoid"}
           /\ \/ UNCHANGED invoice
              \/ /\ handler[w].step \in {"creditBank", "settle"}
                 /\ invoice' = Credited(handler[w].inv, handler[w])
<1> USE DEF At, Finish
<1>1. Idle.step \notin {"writeSent", "writeVoid"}
  BY DEF Idle
<1>2. ASSUME NEW k \in Keys, NEW i \in Invoices, NEW a \in Amounts, NEW m \in Method,
             ChargeLookup(w, k, i, a, m)
      PROVE  UNCHANGED invoice /\ \E h : Become(w, h) /\ h.step = "loadInvoice"
  BY <1>2 DEF ChargeLookup
<1>3. ASSUME ChargeLoad(w)
      PROVE  UNCHANGED invoice /\ \E h : Become(w, h) /\ h.step \notin {"writeSent", "writeVoid"}
  BY <1>1, <1>3 DEF ChargeLoad
<1>4. ASSUME EvcCreate(w) PROVE UNCHANGED invoice /\ \E h : Become(w, h) /\ h.step = "initiate"
  BY <1>4 DEF EvcCreate
<1>5. ASSUME EvcInitiate(w)
      PROVE  UNCHANGED invoice /\ \E h : Become(w, h) /\ h.step \notin {"writeSent", "writeVoid"}
  BY <1>1, <1>5 DEF EvcInitiate
<1>6. ASSUME NEW k \in Keys, WebhookFind(w, k)
      PROVE  UNCHANGED invoice /\ \E h : Become(w, h) /\ h.step \in {"writeFailed", "readInvoice"}
  BY <1>6 DEF WebhookFind
<1>7. ASSUME WebhookRead(w)
      PROVE  UNCHANGED invoice /\ \E h : Become(w, h) /\ h.step \notin {"writeSent", "writeVoid"}
  BY <1>1, <1>7 DEF WebhookRead
<1>8. ASSUME KeyTaken(w) \/ EvcStoreRef(w) \/ WebhookFail(w) \/ Abort(w)
      PROVE  UNCHANGED invoice /\ Become(w, Idle)
  BY <1>8 DEF KeyTaken, EvcStoreRef, WebhookFail, Abort
<1>9. ASSUME BankCommit(w) \/ WebhookSettle(w)
      PROVE  /\ handler[w].step \in {"creditBank", "settle"}
             /\ invoice' = Credited(handler[w].inv, handler[w]) /\ Become(w, Idle)
  BY <1>9 DEF BankCommit, WebhookSettle
<1> QED
  BY <1>1, <1>2, <1>3, <1>4, <1>5, <1>6, <1>7, <1>8, <1>9 DEF ChargeStep, WebhookStep

LEMMA ClosingStep ==
    ASSUME ClosingInv, [Next]_vars, [ClosedAlone]_vars PROVE ClosingInv'
<1>0. TypeOK /\ FullBalanceCloses /\ IInv'
  BY NextInv DEF ClosingInv, IInv
<1>1. ASSUME NEW w \in Workers, InvoiceStep(w) PROVE ClosingInv'
  BY <1>0, <1>1, InvoiceStepCloses
<1>2. ASSUME NEW w \in Workers, ChargeStep(w) \/ WebhookStep(w) \/ Abort(w) PROVE ClosingInv'
  <2>1. PICK h : Become(w, h) /\ h.step \notin {"writeSent", "writeVoid"}
    BY <1>2, MoneyStep
  <2>2. Closing(h, invoice) /\ Closing(h, invoice')
    BY <2>1 DEF Closing
  <2>3. CASE UNCHANGED invoice
    BY <1>0, <2>1, <2>2, <2>3, CallReadsCloses
  <2>4. CASE /\ handler[w].step \in {"creditBank", "settle"}
             /\ invoice' = Credited(handler[w].inv, handler[w])
    BY <1>0, <2>1, <2>2, <2>4, CreditCloses, CallCloses
  <2> QED
    BY <1>2, <2>3, <2>4, MoneyStep
<1>3. ASSUME UNCHANGED handler,
             \A i \in Invoices : /\ invoice'[i].paid = invoice[i].paid /\ invoice'[i].total = invoice[i].total
                                 /\ invoice'[i].status = "PAID" <=> invoice[i].status = "PAID"
      PROVE  ClosingInv'
  <2>1. FullBalanceCloses'
    BY <1>0, <1>3 DEF FullBalanceCloses
  <2>2. ASSUME NEW w \in Workers PROVE Closing(handler'[w], invoice')
    <3>1. handler[w] \in Handler /\ handler'[w] = handler[w] /\ Closing(handler[w], invoice)
      BY <1>0, <1>3 DEF ClosingInv, TypeOK
    <3>2. handler[w].step \in {"writeSent", "writeVoid"} => handler[w].inv \in Invoices
      BY <3>1, HandlerShape
    <3> QED
      BY <1>3, <3>1, <3>2 DEF Closing
  <2> QED
    BY <1>0, <2>1, <2>2 DEF ClosingInv
<1>4. ASSUME NEW i \in Invoices, DueDatePasses(i) PROVE ClosingInv'
  <2>1. invoice' = [invoice EXCEPT ![i].pastDue = TRUE] /\ UNCHANGED handler
    BY <1>4 DEF DueDatePasses
  <2>2. \A j \in Invoices : /\ invoice'[j].paid = invoice[j].paid /\ invoice'[j].total = invoice[j].total
                            /\ invoice'[j].status = invoice[j].status
    BY <1>0, <2>1 DEF TypeOK, InvoiceRow
  <2> QED
    BY <1>3, <2>1, <2>2
<1>5. ASSUME markOverdue PROVE ClosingInv'
  <2>1. \A j \in Invoices : /\ invoice'[j].paid = invoice[j].paid /\ invoice'[j].total = invoice[j].total
                            /\ invoice'[j].status = effectiveStatus(invoice[j])
    BY <1>0, <1>5 DEF markOverdue, TypeOK, InvoiceRow
  <2>2. \A j \in Invoices : invoice'[j].status = "PAID" <=> invoice[j].status = "PAID"
    BY <1>0, <2>1, EffectiveStatus DEF TypeOK
  <2> QED
    BY <1>3, <1>5, <2>1, <2>2 DEF markOverdue
<1>6. ASSUME UNCHANGED <<invoice, handler>> PROVE ClosingInv'
  BY <1>3, <1>6
<1> QED
  BY <1>1, <1>2, <1>4, <1>5, <1>6 DEF Next, vars, ProviderDecides

(* Where no invoice is closed under a handler about to send or void it,    *)
(* the payment that completes the balance closes it, for every set of      *)
(* keys, invoices and amounts, for any number of handlers, however stale   *)
(* the amounts that they write, and wherever they are aborted.             *)
THEOREM ClosedAloneCloses == Spec /\ [][ClosedAlone]_vars => []FullBalanceCloses
<1>1. Init => ClosingInv
  BY InitInv DEF Init, ClosingInv, Closing, Idle, NoInvoice, FullBalanceCloses
<1>2. ClosingInv /\ [Next]_vars /\ [ClosedAlone]_vars => ClosingInv'
  BY ClosingStep
<1>3. ClosingInv => FullBalanceCloses
  BY DEF ClosingInv
<1> QED
  BY <1>1, <1>2, <1>3, PTL DEF Spec

-----------------------------------------------------------------------------
(* What a handler still relies on of the rows that it read when nobody     *)
(* credited them since.                                                    *)
Fresh(h, invoices, payments) ==
    /\ h.step \in {"creditBank", "settle"} =>
           h.amount > 0 /\ h.nextPaid = invoices[h.inv].paid + h.amount
    /\ h.step \in {"createPending", "readInvoice"} => h.amount > 0
    /\ h.step \in {"writeSent", "writeVoid"} => invoices[h.inv].status # "ABSENT"
    /\ h.step \in Settling =>
           /\ payments[h.key].status = "PENDING"
           /\ payments[h.key].inv = h.inv /\ payments[h.key].amount = h.amount

AmountsArePositive == \A k \in Keys : OnRecord(k) => payment[k].amount > 0

BooksInv ==
    /\ KInv
    /\ AmountsArePositive
    /\ \A w \in Workers : Fresh(handler[w], invoice, payment)

Dues == [i \in Invoices |-> invoice[i].total - invoice[i].paid]
Receipts == {[key |-> k, bill |-> payment[k].inv, amount |-> payment[k].amount] : k \in Completed}
LedgerStep == [L!Next]_<<Dues, Numbered, Receipts>>

(* Rows that the ledger cannot tell apart.                                 *)
SameBill(row, new) ==
    new.total = row.total /\ new.paid = row.paid /\ (new.status = "ABSENT" <=> row.status = "ABSENT")
SamePayment(p, new) ==
    /\ new.status = "COMPLETED" <=> p.status = "COMPLETED"
    /\ p.status = "COMPLETED" => new.inv = p.inv /\ new.amount = p.amount

(* The two steps of the ledger in terms of the tables.                     *)
LEMMA LedgerOpens ==
    ASSUME NEW i \in Invoices, i \notin Numbered, Numbered' = Numbered \cup {i}, Dues'[i] >= 0,
           Dues' = [Dues EXCEPT ![i] = Dues'[i]], UNCHANGED Receipts
    PROVE  L!Next
<1>1. PICK d : d = Dues'[i]
  OBVIOUS
<1>2. L!Open(i, d)
  BY <1>1 DEF L!Open, Dues, Receipts
<1>3. d = [j \in Invoices |-> invoice[j].total - invoice[j].paid]'[i]
  BY <1>1 DEF Dues
<1> QED
  BY <1>1, <1>2, <1>3 DEF L!Next, L!Open

LEMMA LedgerCollects ==
    ASSUME NEW k \in Keys, NEW i \in Numbered, \A r \in Receipts : r.key # k,
           Dues[i] - Dues'[i] \in 1..Dues[i], Dues' = [Dues EXCEPT ![i] = Dues'[i]],
           Dues'[i] \in Int, Dues[i] \in Int,
           Receipts' = Receipts \cup {[key |-> k, bill |-> i, amount |-> Dues[i] - Dues'[i]]},
           UNCHANGED Numbered
    PROVE  L!Next
<1>1. PICK a : a = Dues[i] - Dues'[i]
  OBVIOUS
<1>2. Dues' = [Dues EXCEPT ![i] = Dues[i] - a]
  BY <1>1
<1>3. L!Collect(k, i, a)
  BY <1>1, <1>2 DEF L!Collect, Dues, Receipts
<1>4. a = [j \in Invoices |-> invoice[j].total - invoice[j].paid][i]
          - [j \in Invoices |-> invoice[j].total - invoice[j].paid]'[i]
  BY <1>1 DEF Dues
<1>5. i \in Invoices
  BY DEF Numbered
<1> QED
  BY <1>3, <1>4, <1>5 DEF L!Next, L!Collect

(* A step that the ledger does not see.                                    *)
LEMMA BooksUnmoved ==
    ASSUME \A i \in Invoices : SameBill(invoice[i], invoice'[i]),
           \A k \in Keys : SamePayment(payment[k], payment'[k])
    PROVE  LedgerStep
<1>1. Dues' = Dues
  BY DEF Dues, SameBill
<1>2. Numbered' = Numbered
  BY DEF Numbered, SameBill
<1>3. Completed' = Completed
  BY DEF Completed, SamePayment
<1>4. Receipts' = Receipts
  <2>1. \A k \in Completed : payment'[k].inv = payment[k].inv /\ payment'[k].amount = payment[k].amount
    BY DEF Completed, SamePayment
  <2> QED
    BY <1>3, <2>1 DEF Receipts
<1> QED
  BY <1>1, <1>2, <1>4 DEF LedgerStep

(* A payment on record keeps its invoice and its amount, and one that the  *)
(* provider confirmed is not refused.                                      *)
LEMMA PendingStep ==
    ASSUME KInv, [Next]_vars, NEW k \in Keys, payment[k].status = "PENDING"
    PROVE  /\ payment'[k].inv = payment[k].inv /\ payment'[k].amount = payment[k].amount
           /\ \/ payment'[k].status \in {"PENDING", "COMPLETED"}
              \/ payment'[k].status = "FAILED" /\ provider[k].verdict = "FAILED"
<1> USE DEF At
<1>0. TypeOK /\ \A v \in Workers : handler[v] \in Handler /\ KeyOK(handler[v])
  BY DEF KInv, IInv, TypeOK
<1>1. CASE payment' = payment
  BY <1>1
<1>2. ASSUME NEW w \in Workers, BankCommit(w) \/ EvcCreate(w) PROVE payment'[k] = payment[k]
  <2>1. handler[w].key \in Keys
    BY <1>0, <1>2, HandlerShape DEF BankCommit, EvcCreate
  <2> QED
    BY <1>0, <1>2, <2>1 DEF BankCommit, EvcCreate, TypeOK
<1>3. ASSUME NEW w \in Workers, EvcStoreRef(w) \/ WebhookSettle(w)
      PROVE  /\ payment'[k].inv = payment[k].inv /\ payment'[k].amount = payment[k].amount
             /\ payment'[k].status \in {"PENDING", "COMPLETED"}
  <2>1. handler[w].key \in Keys
    BY <1>0, <1>3, HandlerShape DEF EvcStoreRef, WebhookSettle
  <2> QED
    BY <1>0, <1>3, <2>1 DEF EvcStoreRef, WebhookSettle, TypeOK, PaymentRow
<1>4. ASSUME NEW w \in Workers, WebhookFail(w)
      PROVE  /\ payment'[k].inv = payment[k].inv /\ payment'[k].amount = payment[k].amount
             /\ \/ payment'[k].status = "PENDING"
                \/ payment'[k].status = "FAILED" /\ provider[k].verdict = "FAILED"
  <2>1. handler[w].key \in Keys /\ provider[handler[w].key].verdict = "FAILED"
    BY <1>0, <1>4, HandlerShape DEF WebhookFail, KeyOK
  <2> QED
    BY <1>0, <1>4, <2>1 DEF WebhookFail, TypeOK, PaymentRow
<1>5. \/ payment' = payment
      \/ \E w \in Workers : \/ BankCommit(w) \/ EvcCreate(w) \/ EvcStoreRef(w)
                             \/ WebhookFail(w) \/ WebhookSettle(w)
  BY DEF Next, vars, InvoiceStep, ChargeStep, WebhookStep, CreateCount, CreateInsert, SendRead,
         SendWrite, SendMail, VoidRead, VoidWrite, ChargeLookup, ChargeLoad, KeyTaken,
         EvcInitiate, WebhookFind, WebhookRead, Abort, DueDatePasses, ProviderDecides, markOverdue
<1> QED
  BY <1>1, <1>2, <1>3, <1>4, <1>5

(* The row of an invoice stays.                                            *)
LEMMA RowsStay ==
    ASSUME TypeOK, [Next]_vars, NEW i \in Invoices, invoice[i].status # "ABSENT"
    PROVE  invoice'[i].status # "ABSENT"
<1> USE DEF At
<1>0. \A v \in Workers : handler[v] \in Handler
  BY DEF TypeOK
<1>1. ASSUME NEW w \in Workers, InvoiceStep(w) PROVE invoice'[i].status # "ABSENT"
  <2>1. CASE UNCHANGED invoice
    BY <2>1
  <2>2. CASE CreateInsert(w)
    <3>1. handler[w].inv \in Invoices
      BY <1>0, <2>2, HandlerShape DEF CreateInsert
    <3> QED
      BY <2>2, <3>1 DEF CreateInsert, TypeOK
  <2>3. CASE SendWrite(w) \/ VoidWrite(w)
    <3>1. /\ handler[w].inv \in Invoices
          /\ handler[w].step = "writeSent" => handler[w].status # "ABSENT"
      BY <1>0, <2>3, HandlerShape DEF SendWrite, VoidWrite
    <3>2. invoice[handler[w].inv] \in InvoiceRow
      BY <3>1 DEF TypeOK
    <3> QED
      BY <2>3, <3>1, <3>2 DEF SendWrite, VoidWrite, TypeOK, InvoiceRow
  <2> QED
    BY <1>1, <2>1, <2>2, <2>3 DEF InvoiceStep, CreateCount, SendRead, SendMail, VoidRead
<1>2. ASSUME NEW w \in Workers, handler[w].step \in {"creditBank", "settle"},
             invoice' = Credited(handler[w].inv, handler[w])
      PROVE  invoice'[i].status # "ABSENT"
  <2>1. PICK j \in Invoices, next \in Nat : j = handler[w].inv /\ next = handler[w].nextPaid
    BY <1>0, <1>2, HandlerShape
  <2>2. PICK s : s = nextInvoiceStatus(handler[w].status, next, invoice[j].total)
    OBVIOUS
  <2>3. invoice[j] \in InvoiceRow /\ invoice[j].total \in Nat
    BY DEF TypeOK, InvoiceRow
  <2>4. s # "ABSENT"
    BY <2>2, <2>3, NextStatus
  <2>5. invoice' = [invoice EXCEPT ![j].paid = next, ![j].status = s]
    BY <1>2, <2>1, <2>2 DEF Credited
  <2> QED
    BY <2>3, <2>4, <2>5 DEF TypeOK, InvoiceRow
<1>3. ASSUME NEW j \in Invoices, DueDatePasses(j) PROVE invoice'[i].status # "ABSENT"
  BY <1>3 DEF DueDatePasses, TypeOK, InvoiceRow
<1>4. ASSUME markOverdue PROVE invoice'[i].status # "ABSENT"
  BY <1>4, EffectiveStatus DEF markOverdue, effectiveStatus, TypeOK, InvoiceRow
<1>5. UNCHANGED invoice => invoice'[i].status # "ABSENT"
  OBVIOUS
<1> QED
  BY <1>1, <1>2, <1>3, <1>4, <1>5, MoneyStep DEF Next, vars, ProviderDecides

(* What a handler that waits relies on is so after the step of another.    *)
LEMMA WaitingIsFresh ==
    ASSUME BooksInv, [Next]_vars, [CreditedAlone]_vars, NEW v \in Workers, handler'[v] = handler[v]
    PROVE  Fresh(handler'[v], invoice', payment')
<1>0. PICK h \in Handler : h = handler[v] /\ handler'[v] = h /\ KeyOK(h) /\ Fresh(h, invoice, payment)
  BY DEF BooksInv, KInv, IInv, TypeOK
<1>1. ASSUME h.step \in {"creditBank", "settle"}
      PROVE  h.inv \in Invoices /\ invoice'[h.inv].paid = invoice[h.inv].paid
  <2>1. h.inv \in Invoices
    BY <1>0, <1>1, HandlerShape
  <2> QED
    BY <1>0, <1>1, <2>1 DEF CreditedAlone, vars
<1>2. ASSUME h.step \in Settling
      PROVE  /\ payment'[h.key].status = "PENDING"
             /\ payment'[h.key].inv = h.inv /\ payment'[h.key].amount = h.amount
  <2>1. /\ h.key \in Keys /\ payment[h.key].status = "PENDING" /\ provider[h.key].verdict = "SUCCESS"
        /\ payment[h.key].inv = h.inv /\ payment[h.key].amount = h.amount
    BY <1>0, <1>2, HandlerShape DEF Fresh, KeyOK, Settling
  <2>2. payment'[h.key].status # "COMPLETED"
    BY <1>0, <1>2, <2>1 DEF CreditedAlone, vars, Settling
  <2> QED
    BY <2>1, <2>2, PendingStep DEF BooksInv
<1>3. ASSUME h.step \in {"writeSent", "writeVoid"} PROVE invoice'[h.inv].status # "ABSENT"
  <2>1. h.inv \in Invoices /\ invoice[h.inv].status # "ABSENT"
    BY <1>0, <1>3, HandlerShape DEF Fresh
  <2> QED
    BY <2>1, RowsStay DEF BooksInv, KInv, IInv
<1> QED
  BY <1>0, <1>1, <1>2, <1>3 DEF Fresh

(* A step of one handler keeps the invariant when its next locals suit the *)
(* tables that it leaves.                                                  *)
LEMMA CallBooks ==
    ASSUME BooksInv, KInv', [Next]_vars, [CreditedAlone]_vars, NEW w \in Workers, NEW h, Become(w, h),
           Fresh(h, invoice', payment'), AmountsArePositive'
    PROVE  BooksInv'
<1>1. ASSUME NEW v \in Workers PROVE Fresh(handler'[v], invoice', payment')
  <2>1. handler'[v] = IF v = w THEN h ELSE handler[v]
    BY DEF BooksInv, KInv, IInv, TypeOK, Become
  <2> QED
    BY <2>1, WaitingIsFresh
<1> QED
  BY <1>1 DEF BooksInv

(* A step of one handler that writes nothing the ledger sees.              *)
LEMMA CallReads ==
    ASSUME BooksInv, KInv', [Next]_vars, [CreditedAlone]_vars, NEW w \in Workers, NEW h, Become(w, h),
           Fresh(h, invoice, payment), UNCHANGED <<invoice, payment>>
    PROVE  BooksInv' /\ LedgerStep
<1>1. AmountsArePositive'
  BY DEF BooksInv, AmountsArePositive, OnRecord
<1>2. Fresh(h, invoice', payment')
  OBVIOUS
<1>3. LedgerStep
  BY BooksUnmoved DEF SameBill, SamePayment
<1> QED
  BY <1>1, <1>2, <1>3, CallBooks

LEMMA IdleIsFresh ==
    ASSUME NEW invoices, NEW payments PROVE Fresh(Idle, invoices, payments)
BY DEF Fresh, Idle, Settling

(* createInvoice, sendInvoice and voidInvoice.                             *)
LEMMA InvoiceStepBooks ==
    ASSUME BooksInv, KInv', [Next]_vars, [CreditedAlone]_vars, NEW w \in Workers, InvoiceStep(w)
    PROVE  BooksInv' /\ LedgerStep
<1> USE DEF At, Finish
<1>0. /\ TypeOK /\ TablesOK /\ handler[w] \in Handler /\ AmountsArePositive
      /\ Fresh(handler[w], invoice, payment)
  BY DEF BooksInv, KInv, IInv, TypeOK
<1>1. \A k \in Keys : SamePayment(payment[k], payment[k])
  BY DEF SamePayment
<1>2. ASSUME NEW total \in Totals, NEW pastDue \in BOOLEAN, CreateCount(w, total, pastDue)
      PROVE  BooksInv' /\ LedgerStep
  <2>1. PICK h : h = [step |-> "insertInvoice", inv |-> Cardinality(Numbered) + 1,
                      total |-> total, pastDue |-> pastDue]
    OBVIOUS
  <2>2. Fresh(h, invoice, payment)
    BY <2>1 DEF Fresh, Settling
  <2> QED
    BY <1>2, <2>1, <2>2, CallReads DEF CreateCount
<1>3. ASSUME CreateInsert(w) PROVE BooksInv' /\ LedgerStep
  <2>1. PICK i \in Invoices : i = handler[w].inv
    BY <1>0, <1>3, HandlerShape DEF CreateInsert
  <2>2. PICK t \in Nat, late \in BOOLEAN : t = handler[w].total /\ late = handler[w].pastDue
    BY <1>0, <1>3, HandlerShape DEF CreateInsert
  <2>3. CASE invoice[i].status = "ABSENT"
    <3>1. PICK row : row = [status |-> "DRAFT", total |-> t, paid |-> 0, pastDue |-> late]
      OBVIOUS
    <3>2. invoice' = [invoice EXCEPT ![i] = row] /\ UNCHANGED payment /\ Become(w, Idle)
      BY <1>3, <2>1, <2>2, <2>3, <3>1 DEF CreateInsert
    <3>3. invoice'[i] = row /\ \A j \in Invoices \ {i} : invoice'[j] = invoice[j]
      BY <1>0, <3>2 DEF TypeOK
    <3>4. row.status = "DRAFT" /\ row.total = t /\ row.paid = 0
      BY <3>1
    <3>5. AmountsArePositive'
      BY <1>0, <3>2, <3>3, <3>4 DEF AmountsArePositive, OnRecord
    <3>6. BooksInv'
      BY <3>2, <3>5, CallBooks, IdleIsFresh
    <3>7. Numbered' = Numbered \cup {i} /\ i \notin Numbered
      BY <2>3, <3>3, <3>4 DEF Numbered
    <3>8. Dues'[i] = t /\ Dues' = [Dues EXCEPT ![i] = Dues'[i]] /\ UNCHANGED Receipts
      <4>1. \A j \in Invoices : Dues'[j] = IF j = i THEN t ELSE Dues[j]
        BY <3>3, <3>4 DEF Dues
      <4>2. DOMAIN Dues' = Invoices /\ DOMAIN Dues = Invoices
        BY DEF Dues
      <4>3. Dues' = [j \in Invoices |-> Dues'[j]] /\ Dues = [j \in Invoices |-> Dues[j]]
        BY DEF Dues
      <4>4. Receipts' = Receipts
        BY <3>2 DEF Receipts, Completed
      <4> QED
        BY <4>1, <4>2, <4>3, <4>4
    <3>9. L!Next
      <4>1. /\ i \notin Numbered /\ Numbered' = Numbered \cup {i} /\ Dues'[i] >= 0
            /\ Dues' = [Dues EXCEPT ![i] = Dues'[i]] /\ UNCHANGED Receipts
        BY <3>7, <3>8
      <4> QED
        BY <4>1, LedgerOpens
    <3> QED
      BY <3>6, <3>9 DEF LedgerStep
  <2>4. CASE invoice[i].status # "ABSENT"
    BY <1>3, <2>1, <2>4, CallReads, IdleIsFresh DEF CreateInsert
  <2> QED
    BY <2>3, <2>4
<1>4. ASSUME NEW i \in Invoices, SendRead(w, i) PROVE BooksInv' /\ LedgerStep
  <2>1. PICK h : h = [step |-> "writeSent", inv |-> i,
                      status |-> IF invoice[i].pastDue THEN "OVERDUE" ELSE "SENT"]
    OBVIOUS
  <2>2. Fresh(h, invoice, payment)
    BY <1>4, <2>1 DEF Fresh, Settling, SendRead
  <2> QED
    BY <1>4, <2>1, <2>2, CallReads DEF SendRead
<1>5. ASSUME NEW i \in Invoices, VoidRead(w, i) PROVE BooksInv' /\ LedgerStep
  <2>1. PICK h : h = [step |-> "writeVoid", inv |-> i]
    OBVIOUS
  <2>2. Fresh(h, invoice, payment)
    BY <1>5, <2>1 DEF Fresh, Settling, VoidRead, VOIDABLE
  <2> QED
    BY <1>5, <2>1, <2>2, CallReads DEF VoidRead
<1>6. ASSUME SendMail(w) PROVE BooksInv' /\ LedgerStep
  BY <1>6, CallReads, IdleIsFresh DEF SendMail
<1>7. ASSUME SendWrite(w) \/ VoidWrite(w) PROVE BooksInv' /\ LedgerStep
  <2>1. PICK i \in Invoices : i = handler[w].inv
    BY <1>0, <1>7, HandlerShape DEF SendWrite, VoidWrite
  <2>2. PICK s \in {"SENT", "OVERDUE", "VOID"} : invoice' = [invoice EXCEPT ![i].status = s]
    BY <1>0, <1>7, <2>1, HandlerShape DEF SendWrite, VoidWrite
  <2>3. UNCHANGED payment /\ \E h : Become(w, h) /\ Fresh(h, invoice', payment')
    <3>1. CASE SendWrite(w)
      <4>1. PICK h : h = [step |-> "mailClient", inv |-> handler[w].inv]
        OBVIOUS
      <4>2. Fresh(h, invoice', payment')
        BY <4>1 DEF Fresh, Settling
      <4> QED
        BY <3>1, <4>1, <4>2 DEF SendWrite
    <3>2. CASE VoidWrite(w)
      BY <3>2, IdleIsFresh DEF VoidWrite
    <3> QED
      BY <1>7, <3>1, <3>2
  <2>4. /\ \A j \in Invoices \ {i} : invoice'[j] = invoice[j]
        /\ invoice'[i].status = s /\ invoice'[i].paid = invoice[i].paid
        /\ invoice'[i].total = invoice[i].total
    BY <1>0, <2>2 DEF TypeOK, InvoiceRow
  <2>5. invoice[i].status # "ABSENT"
    BY <1>0, <1>7, <2>1 DEF SendWrite, VoidWrite, Fresh
  <2>6. AmountsArePositive'
    BY <1>0, <2>3 DEF AmountsArePositive, OnRecord
  <2>7. LedgerStep
    <3>1. \A j \in Invoices : SameBill(invoice[j], invoice'[j])
      BY <2>4, <2>5 DEF SameBill
    <3> QED
      BY <1>1, <2>3, <3>1, BooksUnmoved
  <2> QED
    BY <2>3, <2>6, <2>7, CallBooks
<1> QED
  BY <1>2, <1>3, <1>4, <1>5, <1>6, <1>7 DEF InvoiceStep

(* The payment k that is written now is a receipt for what the credit took *)
(* off its invoice.                                                        *)
LEMMA CreditIsCollected ==
    ASSUME BooksInv, KInv', NEW w \in Workers, NEW k \in Keys, NEW i \in Invoices, NEW amount \in Nat,
           handler[w].step \in {"creditBank", "settle"},
           handler[w].inv = i, handler[w].amount = amount, invoice' = Credited(i, handler[w]),
           payment[k].status # "COMPLETED",
           payment'[k].status = "COMPLETED", payment'[k].inv = i, payment'[k].amount = amount,
           \A j \in Keys \ {k} : payment'[j] = payment[j]
    PROVE  AmountsArePositive' /\ LedgerStep
<1>0. /\ TypeOK /\ TypeOK' /\ TablesOK /\ TablesOK' /\ handler[w] \in Handler /\ AmountsArePositive
      /\ Fresh(handler[w], invoice, payment) /\ HandlerOK(handler[w])
  BY DEF BooksInv, KInv, IInv, TypeOK
<1>1. PICK next \in Nat : next = handler[w].nextPaid
  BY <1>0, HandlerShape
<1>2. amount > 0 /\ next = invoice[i].paid + amount /\ next <= invoice[i].total /\ Issued(i)
  BY <1>0, <1>1 DEF Fresh, HandlerOK
<1>3. invoice[i] \in InvoiceRow /\ invoice'[i] \in InvoiceRow
  BY <1>0 DEF TypeOK
<1>4. PICK s : s = nextInvoiceStatus(handler[w].status, next, invoice[i].total)
  OBVIOUS
<1>5. invoice' = [invoice EXCEPT ![i].paid = next, ![i].status = s]
  BY <1>1, <1>4 DEF Credited
<1>6. /\ \A j \in Invoices \ {i} : invoice'[j] = invoice[j]
      /\ invoice'[i].paid = next /\ invoice'[i].status = s /\ invoice'[i].total = invoice[i].total
  BY <1>0, <1>3, <1>5 DEF TypeOK, InvoiceRow
<1>7. PICK total \in Nat, paid \in Nat : total = invoice[i].total /\ paid = invoice[i].paid
  BY <1>3 DEF InvoiceRow
<1>8. s \in {"PAID", "OVERDUE", "PARTIAL"} /\ (next = total => s = "PAID")
  BY <1>4, <1>7 DEF nextInvoiceStatus
<1>9. AmountsArePositive'
  BY <1>0, <1>2 DEF AmountsArePositive, OnRecord
<1>10. /\ i \in Numbered /\ Numbered' = Numbered
  BY <1>2, <1>6, <1>8 DEF Numbered, Issued
<1>11. Dues[i] = total - paid /\ Dues'[i] = total - next /\ \A j \in Invoices \ {i} : Dues'[j] = Dues[j]
  BY <1>6, <1>7 DEF Dues
<1>12. Dues' = [Dues EXCEPT ![i] = Dues'[i]]
  <2>1. Dues' = [j \in Invoices |-> Dues'[j]] /\ Dues = [j \in Invoices |-> Dues[j]]
    BY DEF Dues
  <2> QED
    BY <1>11, <2>1
<1>13. Dues[i] - Dues'[i] = amount /\ amount \in 1..Dues[i] /\ Dues[i] \in Int /\ Dues'[i] \in Int
  BY <1>2, <1>7, <1>11
<1>14. \A r \in Receipts : r.key # k
  BY DEF Receipts, Completed
<1>15. Completed' = Completed \cup {k}
  BY DEF Completed
<1>16. Receipts' = Receipts \cup {[key |-> k, bill |-> i, amount |-> amount]}
  <2>1. \A j \in Completed : payment'[j] = payment[j]
    BY DEF Completed
  <2> QED
    BY <1>15, <2>1 DEF Receipts
<1>17. L!Next
  BY <1>10, <1>12, <1>13, <1>14, <1>16, LedgerCollects
<1> QED
  BY <1>9, <1>17 DEF LedgerStep

(* charge, of both gateways.                                               *)
LEMMA ChargeStepBooks ==
    ASSUME BooksInv, KInv', [Next]_vars, [CreditedAlone]_vars, NEW w \in Workers, ChargeStep(w)
    PROVE  BooksInv' /\ LedgerStep
<1> USE DEF At, Finish
<1>0. /\ TypeOK /\ TablesOK /\ handler[w] \in Handler /\ AmountsArePositive
      /\ Fresh(handler[w], invoice, payment)
  BY DEF BooksInv, KInv, IInv, TypeOK
<1>1. ASSUME NEW k \in Keys, NEW i \in Invoices, NEW a \in Amounts, NEW m \in Method,
             ChargeLookup(w, k, i, a, m)
      PROVE  BooksInv' /\ LedgerStep
  <2>1. PICK h : h = [step |-> "loadInvoice", key |-> k, inv |-> i, amount |-> a, method |-> m]
    OBVIOUS
  <2>2. Fresh(h, invoice, payment)
    BY <2>1 DEF Fresh, Settling
  <2> QED
    BY <1>1, <2>1, <2>2, CallReads DEF ChargeLookup
<1>2. ASSUME ChargeLoad(w) PROVE BooksInv' /\ LedgerStep
  <2>1. PICK g, row : g = handler[w] /\ row = invoice[g.inv]
    OBVIOUS
  <2>2. CASE ~Chargeable(row, g.amount)
    BY <1>2, <2>1, <2>2, CallReads, IdleIsFresh DEF ChargeLoad
  <2>3. CASE Chargeable(row, g.amount) /\ g.method = "BANK_TRANSFER"
    <3>1. PICK h : h = [step |-> "creditBank", key |-> g.key, inv |-> g.inv, amount |-> g.amount,
                        status |-> row.status, nextPaid |-> row.paid + g.amount]
      OBVIOUS
    <3>2. h.step = "creditBank" /\ h.inv = g.inv /\ h.amount = g.amount /\ h.nextPaid = row.paid + g.amount
      BY <3>1
    <3>3. Fresh(h, invoice, payment)
      BY <2>1, <2>3, <3>2 DEF Fresh, Settling, Chargeable
    <3> QED
      BY <1>2, <2>1, <2>3, <3>1, <3>3, CallReads DEF ChargeLoad
  <2>4. CASE Chargeable(row, g.amount) /\ g.method = "EVC_PLUS"
    <3>1. PICK h : h = [step |-> "createPending", key |-> g.key, inv |-> g.inv, amount |-> g.amount]
      OBVIOUS
    <3>2. Fresh(h, invoice, payment)
      BY <2>4, <3>1 DEF Fresh, Settling, Chargeable
    <3> QED
      BY <1>2, <2>1, <2>4, <3>1, <3>2, CallReads DEF ChargeLoad
  <2> QED
    BY <1>2, <2>1, <2>2, <2>3, <2>4 DEF ChargeLoad
<1>3. ASSUME KeyTaken(w) PROVE BooksInv' /\ LedgerStep
  BY <1>3, CallReads, IdleIsFresh DEF KeyTaken
<1>4. ASSUME BankCommit(w) PROVE BooksInv' /\ LedgerStep
  <2>1. PICK k \in Keys, i \in Invoices, a \in Nat :
           k = handler[w].key /\ i = handler[w].inv /\ a = handler[w].amount
    BY <1>0, <1>4, HandlerShape DEF BankCommit
  <2>2. PICK p : p = [status |-> "COMPLETED", inv |-> i, amount |-> a,
                      method |-> "BANK_TRANSFER", gatewayRef |-> FALSE]
    OBVIOUS
  <2>3. p.status = "COMPLETED" /\ p.inv = i /\ p.amount = a
    BY <2>2
  <2>4. /\ payment' = [payment EXCEPT ![k] = p] /\ payment[k].status = "ABSENT"
        /\ invoice' = Credited(i, handler[w]) /\ Become(w, Idle) /\ handler[w].step = "creditBank"
    BY <1>4, <2>1, <2>2 DEF BankCommit
  <2>5. payment'[k] = p /\ \A j \in Keys \ {k} : payment'[j] = payment[j]
    BY <1>0, <2>4 DEF TypeOK
  <2>6. AmountsArePositive' /\ LedgerStep
    BY <2>1, <2>3, <2>4, <2>5, CreditIsCollected
  <2> QED
    BY <2>4, <2>6, CallBooks, IdleIsFresh
<1>5. ASSUME EvcCreate(w) PROVE BooksInv' /\ LedgerStep
  <2>1. PICK k \in Keys, i \in Invoices, a \in Nat :
           k = handler[w].key /\ i = handler[w].inv /\ a = handler[w].amount
    BY <1>0, <1>5, HandlerShape DEF EvcCreate
  <2>2. PICK p : p = [status |-> "PENDING", inv |-> i, amount |-> a,
                      method |-> "EVC_PLUS", gatewayRef |-> FALSE]
    OBVIOUS
  <2>3. p.status = "PENDING" /\ p.amount = a /\ a > 0
    BY <1>0, <1>5, <2>1, <2>2 DEF EvcCreate, Fresh
  <2>4. PICK h : h = [step |-> "initiate", key |-> k]
    OBVIOUS
  <2>5. payment' = [payment EXCEPT ![k] = p] /\ payment[k].status = "ABSENT" /\ UNCHANGED invoice /\ Become(w, h)
    BY <1>5, <2>1, <2>2, <2>4 DEF EvcCreate
  <2>6. payment'[k] = p /\ \A j \in Keys \ {k} : payment'[j] = payment[j]
    BY <1>0, <2>5 DEF TypeOK
  <2>7. Fresh(h, invoice', payment')
    BY <2>4 DEF Fresh, Settling
  <2>8. AmountsArePositive'
    BY <1>0, <2>3, <2>5, <2>6 DEF AmountsArePositive, OnRecord
  <2>9. LedgerStep
    <3>1. \A j \in Keys : SamePayment(payment[j], payment'[j])
      BY <2>3, <2>5, <2>6 DEF SamePayment
    <3>2. \A j \in Invoices : SameBill(invoice[j], invoice'[j])
      BY <2>5 DEF SameBill
    <3> QED
      BY <3>1, <3>2, BooksUnmoved
  <2> QED
    BY <2>5, <2>7, <2>8, <2>9, CallBooks
<1>6. ASSUME EvcInitiate(w) PROVE BooksInv' /\ LedgerStep
  <2>1. PICK h : h = [step |-> "storeRef", key |-> handler[w].key]
    OBVIOUS
  <2>2. Fresh(h, invoice, payment)
    BY <2>1 DEF Fresh, Settling
  <2> QED
    BY <1>6, <2>1, <2>2, CallReads, IdleIsFresh DEF EvcInitiate
<1>7. ASSUME EvcStoreRef(w) PROVE BooksInv' /\ LedgerStep
  <2>1. PICK k \in Keys : k = handler[w].key
    BY <1>0, <1>7, HandlerShape DEF EvcStoreRef
  <2>2. payment' = [payment EXCEPT ![k].gatewayRef = TRUE] /\ UNCHANGED invoice /\ Become(w, Idle)
    BY <1>7, <2>1 DEF EvcStoreRef
  <2>3. \A j \in Keys : /\ payment'[j].status = payment[j].status /\ payment'[j].inv = payment[j].inv
                        /\ payment'[j].amount = payment[j].amount
    BY <1>0, <2>2 DEF TypeOK, PaymentRow
  <2>4. AmountsArePositive'
    BY <1>0, <2>2, <2>3 DEF AmountsArePositive, OnRecord
  <2>5. LedgerStep
    BY <2>2, <2>3, BooksUnmoved DEF SamePayment, SameBill
  <2> QED
    BY <2>2, <2>4, <2>5, CallBooks, IdleIsFresh
<1> QED
  BY <1>1, <1>2, <1>3, <1>4, <1>5, <1>6, <1>7 DEF ChargeStep

(* applyEvcWebhook.                                                        *)
LEMMA WebhookStepBooks ==
    ASSUME BooksInv, KInv', [Next]_vars, [CreditedAlone]_vars, NEW w \in Workers, WebhookStep(w)
    PROVE  BooksInv' /\ LedgerStep
<1> USE DEF At, Finish
<1>0. /\ TypeOK /\ TablesOK /\ handler[w] \in Handler /\ AmountsArePositive
      /\ Fresh(handler[w], invoice, payment)
  BY DEF BooksInv, KInv, IInv, TypeOK
<1>1. ASSUME NEW k \in Keys, WebhookFind(w, k) PROVE BooksInv' /\ LedgerStep
  <2>1. payment[k].status = "PENDING" /\ payment[k].amount > 0
    BY <1>0, <1>1 DEF WebhookFind, AmountsArePositive, OnRecord
  <2>2. PICK f : f = [step |-> "writeFailed", key |-> k]
    OBVIOUS
  <2>3. PICK r : r = [step |-> "readInvoice", key |-> k, inv |-> payment[k].inv, amount |-> payment[k].amount]
    OBVIOUS
  <2>4. Fresh(f, invoice, payment) /\ Fresh(r, invoice, payment)
    BY <2>1, <2>2, <2>3 DEF Fresh, Settling
  <2>5. (Become(w, f) \/ Become(w, r)) /\ UNCHANGED <<invoice, payment>>
    BY <1>1, <2>2, <2>3 DEF WebhookFind
  <2> QED
    BY <2>4, <2>5, CallReads
<1>2. ASSUME WebhookFail(w) PROVE BooksInv' /\ LedgerStep
  <2>1. PICK k \in Keys : k = handler[w].key
    BY <1>0, <1>2, HandlerShape DEF WebhookFail
  <2>2. payment' = [payment EXCEPT ![k].status = "FAILED"] /\ UNCHANGED invoice /\ Become(w, Idle)
    BY <1>2, <2>1 DEF WebhookFail
  <2>3. payment[k].status \in {"PENDING", "FAILED"}
    BY <1>2, <2>1 DEF WebhookFail, BooksInv, KInv, KeyOK
  <2>4. /\ \A j \in Keys \ {k} : payment'[j] = payment[j]
        /\ payment'[k].status = "FAILED" /\ payment'[k].amount = payment[k].amount
    BY <1>0, <2>2 DEF TypeOK, PaymentRow
  <2>5. AmountsArePositive'
    BY <1>0, <2>2, <2>3, <2>4 DEF AmountsArePositive, OnRecord
  <2>6. LedgerStep
    BY <2>2, <2>3, <2>4, BooksUnmoved DEF SamePayment, SameBill
  <2> QED
    BY <2>2, <2>5, <2>6, CallBooks, IdleIsFresh
<1>3. ASSUME WebhookRead(w) PROVE BooksInv' /\ LedgerStep
  <2>1. PICK g, row : g = handler[w] /\ row = invoice[g.inv]
    OBVIOUS
  <2>2. PICK h : h = [step |-> "settle", key |-> g.key, inv |-> g.inv, amount |-> g.amount,
                      status |-> row.status, nextPaid |-> row.paid + g.amount]
    OBVIOUS
  <2>3. /\ h.step = "settle" /\ h.key = g.key /\ h.inv = g.inv /\ h.amount = g.amount
        /\ h.nextPaid = row.paid + g.amount
    BY <2>2
  <2>4. Fresh(h, invoice, payment)
    BY <1>0, <1>3, <2>1, <2>3 DEF WebhookRead, Fresh, Settling
  <2>5. (Become(w, Idle) \/ Become(w, h)) /\ UNCHANGED <<invoice, payment>>
    BY <1>3, <2>1, <2>2 DEF WebhookRead
  <2> QED
    BY <2>4, <2>5, CallReads, IdleIsFresh
<1>4. ASSUME WebhookSettle(w) PROVE BooksInv' /\ LedgerStep
  <2>1. PICK k \in Keys, i \in Invoices, a \in Nat :
           k = handler[w].key /\ i = handler[w].inv /\ a = handler[w].amount
    BY <1>0, <1>4, HandlerShape DEF WebhookSettle
  <2>2. payment[k].status = "PENDING" /\ payment[k].inv = i /\ payment[k].amount = a
    BY <1>0, <1>4, <2>1 DEF WebhookSettle, Fresh, Settling
  <2>3. /\ payment' = [payment EXCEPT ![k].status = "COMPLETED"]
        /\ invoice' = Credited(i, handler[w]) /\ Become(w, Idle) /\ handler[w].step = "settle"
    BY <1>4, <2>1 DEF WebhookSettle
  <2>4. /\ \A j \in Keys \ {k} : payment'[j] = payment[j]
        /\ payment'[k].status = "COMPLETED" /\ payment'[k].inv = i /\ payment'[k].amount = a
    BY <1>0, <2>2, <2>3 DEF TypeOK, PaymentRow
  <2>5. AmountsArePositive' /\ LedgerStep
    BY <2>1, <2>2, <2>3, <2>4, CreditIsCollected
  <2> QED
    BY <2>3, <2>5, CallBooks, IdleIsFresh
<1> QED
  BY <1>1, <1>2, <1>3, <1>4 DEF WebhookStep

(* Aborts, the calendar, the provider and the marking of overdue rows.     *)
LEMMA OtherStepBooks ==
    ASSUME BooksInv, KInv', [Next]_vars, [CreditedAlone]_vars,
           \/ \E w \in Workers : Abort(w)
           \/ \E i \in Invoices : DueDatePasses(i)
           \/ \E k \in Keys : ProviderDecides(k)
           \/ markOverdue
           \/ UNCHANGED vars
    PROVE  BooksInv' /\ LedgerStep
<1>0. /\ TypeOK /\ AmountsArePositive
      /\ \A w \in Workers : handler[w] \in Handler /\ Fresh(handler[w], invoice, payment)
  BY DEF BooksInv, KInv, IInv, TypeOK
<1>1. ASSUME NEW w \in Workers, Abort(w) PROVE BooksInv' /\ LedgerStep
  BY <1>1, CallReads, IdleIsFresh DEF Abort, Finish
<1>2. ASSUME UNCHANGED <<payment, handler>>,
             \A i \in Invoices : /\ invoice'[i].paid = invoice[i].paid /\ invoice'[i].total = invoice[i].total
                                 /\ invoice'[i].status \in {invoice[i].status, effectiveStatus(invoice[i])}
      PROVE  BooksInv' /\ LedgerStep
  <2>1. \A i \in Invoices : /\ invoice[i].status = "DRAFT" <=> invoice'[i].status = "DRAFT"
                            /\ invoice[i].status = "ABSENT" <=> invoice'[i].status = "ABSENT"
                            /\ invoice[i].status = "PAID" => invoice'[i].status = "PAID"
                            /\ invoice[i].status \in VOIDABLE => invoice'[i].status \in VOIDABLE
    BY <1>2 DEF effectiveStatus, VOIDABLE
  <2>2. LedgerStep
    BY <1>2, <2>1, BooksUnmoved DEF SamePayment, SameBill
  <2>3. AmountsArePositive'
    BY <1>0, <1>2, <2>1 DEF AmountsArePositive, OnRecord
  <2>4. ASSUME NEW w \in Workers PROVE Fresh(handler'[w], invoice', payment')
    <3>1. PICK h \in Handler : h = handler[w] /\ handler'[w] = h /\ Fresh(h, invoice, payment)
      BY <1>0, <1>2
    <3>2. h.step \in {"writeSent", "writeVoid", "creditBank", "settle"} => h.inv \in Invoices
      BY <3>1, HandlerShape
    <3> QED
      BY <1>2, <2>1, <3>1, <3>2 DEF Fresh
  <2> QED
    BY <2>2, <2>3, <2>4 DEF BooksInv
<1>3. ASSUME NEW i \in Invoices, DueDatePasses(i) PROVE BooksInv' /\ LedgerStep
  <2>1. invoice' = [invoice EXCEPT ![i].pastDue = TRUE] /\ UNCHANGED <<payment, handler>>
    BY <1>3 DEF DueDatePasses
  <2>2. \A j \in Invoices : /\ invoice'[j].paid = invoice[j].paid /\ invoice'[j].total = invoice[j].total
                            /\ invoice'[j].status = invoice[j].status
    BY <1>0, <2>1 DEF TypeOK, InvoiceRow
  <2> QED
    BY <1>2, <2>1, <2>2
<1>4. ASSUME markOverdue PROVE BooksInv' /\ LedgerStep
  <2>1. \A j \in Invoices : /\ invoice'[j].paid = invoice[j].paid /\ invoice'[j].total = invoice[j].total
                            /\ invoice'[j].status = effectiveStatus(invoice[j])
    BY <1>0, <1>4 DEF markOverdue, TypeOK, InvoiceRow
  <2> QED
    BY <1>2, <1>4, <2>1 DEF markOverdue
<1>5. ASSUME NEW k \in Keys, ProviderDecides(k) PROVE BooksInv' /\ LedgerStep
  BY <1>2, <1>5 DEF ProviderDecides
<1>6. ASSUME UNCHANGED vars PROVE BooksInv' /\ LedgerStep
  BY <1>2, <1>6 DEF vars
<1> QED
  BY <1>1, <1>3, <1>4, <1>5, <1>6

LEMMA BooksStep ==
    ASSUME BooksInv, [Next]_vars, [CreditedAlone]_vars PROVE BooksInv' /\ LedgerStep
<1>1. KInv'
  BY NextKey DEF BooksInv
<1> QED
  BY <1>1, InvoiceStepBooks, ChargeStepBooks, WebhookStepBooks, OtherStepBooks DEF Next

LEMMA BooksInit == Init => BooksInv
<1> SUFFICES ASSUME Init PROVE BooksInv
  OBVIOUS
<1>1. AmountsArePositive
  BY DEF Init, AmountsArePositive, OnRecord, NoPayment
<1>2. \A w \in Workers : Fresh(handler[w], invoice, payment)
  BY IdleIsFresh DEF Init
<1> QED
  BY <1>1, <1>2, InitKey DEF BooksInv

(* Where no invoice is credited, and no payment completed, under another   *)
(* handler that is crediting for it, billing implements the ledger: for    *)
(* any number of handlers, keys and invoices, whatever webhooks and        *)
(* retries are repeated and wherever a handler is aborted, each COMPLETED  *)
(* payment took its amount off its own invoice, once.                      *)
THEOREM CreditedAloneImplements == Spec /\ [][CreditedAlone]_vars => ImplementsLedger
<1>1. Init => L!Init
  <2> SUFFICES ASSUME Init PROVE L!Init
    OBVIOUS
  <2>1. \A i \in Invoices : invoice[i].total - invoice[i].paid = 0
    BY DEF Init, NoInvoice
  <2>2. Numbered = {} /\ Completed = {}
    BY DEF Init, Numbered, Completed, NoInvoice, NoPayment
  <2> QED
    BY <2>1, <2>2 DEF L!Init
<1>2. BooksInv /\ [Next]_vars /\ [CreditedAlone]_vars => BooksInv'
  BY BooksStep
<1>3. BooksInv /\ [Next]_vars /\ [CreditedAlone]_vars => LedgerStep
  BY BooksStep
<1> QED
  BY <1>1, <1>2, <1>3, BooksInit, PTL DEF Spec, ImplementsLedger, L!Spec, LedgerStep, Dues, Receipts

-----------------------------------------------------------------------------
(* One handler at a time is a case of both: whoever writes an invoice or a *)
(* payment is the only one in flight, and finishes.                        *)
LEMMA OneHandlerIsAlone ==
    ASSUME \A v, w \in Workers : v = w, IInv, [Next]_vars
    PROVE  [ClosedAlone]_vars /\ [CreditedAlone]_vars
<1>0. TypeOK
  BY DEF IInv
<1>1. ASSUME NEW w \in Workers, Become(w, Idle) PROVE ClosedAlone /\ CreditedAlone
  <2>1. \A v \in Workers : handler'[v].step = "idle"
    BY <1>0, <1>1 DEF Become, TypeOK, Idle
  <2> QED
    BY <2>1 DEF ClosedAlone, CreditedAlone
<1>2. ASSUME \A i \in Invoices : /\ invoice'[i].paid = invoice[i].paid
                                 /\ invoice'[i].status = "PAID" => invoice[i].status = "PAID",
             \A k \in Keys : payment'[k].status = "COMPLETED" => payment[k].status = "COMPLETED"
      PROVE  ClosedAlone /\ CreditedAlone
  BY <1>2 DEF ClosedAlone, CreditedAlone
<1> USE DEF At
<1>3. ASSUME NEW w \in Workers, InvoiceStep(w) PROVE ClosedAlone /\ CreditedAlone
  <2>1. CASE SendWrite(w)
    <3>1. PICK i \in Invoices, s \in {"SENT", "OVERDUE"} : invoice' = [invoice EXCEPT ![i].status = s]
      BY <1>0, <2>1, HandlerShape DEF SendWrite, TypeOK
    <3>2. \A j \in Invoices : /\ invoice'[j].paid = invoice[j].paid
                              /\ invoice'[j].status = "PAID" => invoice[j].status = "PAID"
      BY <1>0, <3>1 DEF TypeOK, InvoiceRow
    <3> QED
      BY <1>2, <2>1, <3>2 DEF SendWrite
  <2> QED
    BY <1>1, <1>2, <1>3, <2>1
    DEF InvoiceStep, CreateCount, CreateInsert, SendRead, SendMail, VoidRead, VoidWrite, Finish
<1>4. ASSUME NEW w \in Workers, ChargeStep(w) PROVE ClosedAlone /\ CreditedAlone
  <2>1. CASE EvcCreate(w)
    <3>1. handler[w].key \in Keys
      BY <1>0, <2>1, HandlerShape DEF EvcCreate, TypeOK
    <3> QED
      BY <1>0, <1>2, <2>1, <3>1 DEF EvcCreate, TypeOK
  <2>2. CASE BankCommit(w) \/ EvcStoreRef(w)
    BY <1>1, <2>2 DEF BankCommit, EvcStoreRef, Finish
  <2> QED
    BY <1>2, <1>4, <2>1, <2>2 DEF ChargeStep, ChargeLookup, ChargeLoad, KeyTaken, EvcInitiate
<1>5. ASSUME NEW w \in Workers, WebhookStep(w) PROVE ClosedAlone /\ CreditedAlone
  <2>1. CASE WebhookFail(w) \/ WebhookSettle(w)
    BY <1>1, <2>1 DEF WebhookFail, WebhookSettle, Finish
  <2> QED
    BY <1>2, <1>5, <2>1 DEF WebhookStep, WebhookFind, WebhookRead
<1>6. ASSUME NEW w \in Workers, Abort(w) PROVE ClosedAlone /\ CreditedAlone
  BY <1>1, <1>6 DEF Abort, Finish
<1>7. ASSUME NEW i \in Invoices, DueDatePasses(i) PROVE ClosedAlone /\ CreditedAlone
  <2>1. \A j \in Invoices : invoice'[j].paid = invoice[j].paid /\ invoice'[j].status = invoice[j].status
    BY <1>0, <1>7 DEF DueDatePasses, TypeOK, InvoiceRow
  <2> QED
    BY <1>2, <1>7, <2>1 DEF DueDatePasses
<1>8. ASSUME markOverdue PROVE ClosedAlone /\ CreditedAlone
  <2>1. \A j \in Invoices : invoice'[j].paid = invoice[j].paid /\ invoice'[j].status = effectiveStatus(invoice[j])
    BY <1>0, <1>8 DEF markOverdue, TypeOK, InvoiceRow
  <2>2. \A j \in Invoices : invoice'[j].status = "PAID" => invoice[j].status = "PAID"
    BY <1>0, <2>1, EffectiveStatus DEF TypeOK
  <2> QED
    BY <1>2, <1>8, <2>1, <2>2 DEF markOverdue
<1> QED
  BY <1>2, <1>3, <1>4, <1>5, <1>6, <1>7, <1>8 DEF Next, vars, ProviderDecides

LEMMA OneHandlerAtATime ==
    ASSUME \A v, w \in Workers : v = w
    PROVE  Spec => [][ClosedAlone]_vars /\ [][CreditedAlone]_vars
<1>1. IInv /\ [Next]_vars => [ClosedAlone]_vars /\ [CreditedAlone]_vars
  BY OneHandlerIsAlone
<1> QED
  BY <1>1, Invariance, PTL DEF Spec

(* One handler at a time: the payment that completes the balance closes    *)
(* the invoice, wherever a handler is aborted.                             *)
THEOREM BalanceCloses ==
    ASSUME \A v, w \in Workers : v = w
    PROVE  Spec => []FullBalanceCloses
<1> QED  BY OneHandlerAtATime, ClosedAloneCloses, PTL

(* One handler at a time: billing implements the ledger.                   *)
THEOREM BillingImplementsLedger ==
    ASSUME \A v, w \in Workers : v = w
    PROVE  Spec => ImplementsLedger
<1> QED  BY OneHandlerAtATime, CreditedAloneImplements, PTL

=============================================================================
