----------------------------- MODULE EmailQueue -----------------------------
(***************************************************************************)
(* The durable e-mail queue of notification-delivery.service.ts and the    *)
(* timer in server.ts that drains it.  Rows are the deliveries             *)
(* email:<dedupe key> of one recipient.                                    *)
(*                                                                         *)
(* Every API process polls the queue; a run works through a batch it read  *)
(* once, and claims each row by compare-and-set on (status,                *)
(* nextAttemptAt).                                                         *)
(*                                                                         *)
(* Time: nextAttemptAt is the claim that wrote it (field next) plus        *)
(* whether that moment has come (field due).  Values of nextAttemptAt do   *)
(* not repeat for one row, since each is computed from a later poll.  A    *)
(* lease runs from the start of the batch, not from the claim, so the rows *)
(* at the end of a slow batch are claimed with a lease that is all but     *)
(* over: it may run out while the e-mail is still being sent.              *)
(***************************************************************************)
EXTENDS Integers, Sequences, FiniteSets

CONSTANTS
    Keys,         \* dedupe keys: business event and recipient
    Processes,    \* API processes, each with its own timer
    BatchSize,    \* rows a run takes (25 in the code)
    MaxAttempts,  \* attempts after which a failure is final (5 in the code)
    MaxFaults,    \* bound: crashes and database errors
    MaxOverruns   \* bound, per row: leases that run out under a live holder

ASSUME EmailQueueAssumption ==
    /\ IsFiniteSet(Processes)
    /\ BatchSize \in Nat \ {0}
    /\ MaxAttempts \in Nat \ {0}
    /\ MaxFaults \in Nat
    /\ MaxOverruns \in Nat

VARIABLES
    active,     \* the recipient's isActive
    email,      \* [Keys -> delivery row email:<key>]
    queue,      \* keys of the e-mail rows, oldest first
    process,    \* [Processes -> the run in progress, or Resting]
    smtp,       \* [Processes -> SMTP_HOST and SMTP_FROM are set]
    mails,      \* [Keys -> e-mails the mail server accepted]
    unheard,    \* [Keys -> of these, those whose answer was lost]
    overruns,   \* [Keys -> leases that ran out under a live holder]
    faults      \* crashes and database errors so far

vars == <<active, email, queue, process, smtp, mails, unheard, overruns, faults>>

Null == -1
Waiting == {"PENDING", "RETRY", "SENDING"}
Settled == {"SENT", "FAILED", "SKIPPED"}
EmailStatus == Waiting \cup Settled \cup {"ABSENT", "WAITING_CONFIG"}
Outcome == {"sent", "failed", "not_configured"}

EmailRow == [status : EmailStatus, attempts : Nat, next : Nat \cup {Null}, due : BOOLEAN]

(* What a run remembers of a row it read at its start.                     *)
Snapshot == [key : Keys, status : EmailStatus, attempts : Nat, next : Nat \cup {Null},
             active : BOOLEAN]

(* claim: the claim under which the run works on the row at hand, or 0.    *)
Resting == [step |-> "resting", batch |-> <<>>, claim |-> 0]

TypeOK ==
    /\ active \in BOOLEAN
    /\ email \in [Keys -> EmailRow]
    /\ queue \in Seq(Keys)
    /\ process \in [Processes ->
            {Resting} \cup [step : {"claim", "skip", "send"} \cup Outcome,
                            batch : Seq(Snapshot) \ {<<>>}, claim : Nat]]
    /\ smtp \in [Processes -> BOOLEAN]
    /\ mails \in [Keys -> Nat]
    /\ unheard \in [Keys -> Nat]
    /\ overruns \in [Keys -> 0 .. MaxOverruns]
    /\ faults \in 0 .. MaxFaults

NoEmail == [status |-> "ABSENT", attempts |-> 0, next |-> Null, due |-> FALSE]

Init ==
    /\ active = TRUE
    /\ email = [k \in Keys |-> NoEmail]
    /\ queue = <<>>
    /\ process = [p \in Processes |-> Resting]
    /\ smtp \in [Processes -> BOOLEAN]
    /\ mails = [k \in Keys |-> 0]
    /\ unheard = [k \in Keys |-> 0]
    /\ overruns = [k \in Keys |-> 0]
    /\ faults = 0

-----------------------------------------------------------------------------
(* emitNotification creates the row, unless email:<key> is taken.          *)
Enqueue(k) ==
    /\ email[k].status = "ABSENT"
    /\ email' = [email EXCEPT ![k] = [status |-> "PENDING", attempts |-> 0, next |-> 0, due |-> TRUE]]
    /\ queue' = Append(queue, k)
    /\ UNCHANGED <<active, process, smtp, mails, unheard, overruns, faults>>

(* An administrator switches the recipient's account off or on.            *)
updateUser ==
    /\ active' = ~active
    /\ UNCHANGED <<email, queue, process, smtp, mails, unheard, overruns, faults>>

-----------------------------------------------------------------------------
(* processPendingNotificationEmails.                                       *)

(* Mutant: rows left SENDING by a dead process are not picked up again.    *)
Eligible_NotSending(p, k) ==
    \/ email[k].status \in {"PENDING", "RETRY"} /\ email[k].next # Null /\ email[k].due
    \/ smtp[p] /\ email[k].status = "WAITING_CONFIG"

Eligible(p, k) ==
    \/ email[k].status \in Waiting /\ email[k].next # Null /\ email[k].due
    \/ smtp[p] /\ email[k].status = "WAITING_CONFIG"

(* The places in the queue of the rows that a run takes.                   *)
Oldest(p) ==
    LET due == {n \in DOMAIN queue : Eligible(p, queue[n])}
    IN  {n \in due : Cardinality({m \in due : m < n}) < BatchSize}

Read(k) == [key |-> k, status |-> email[k].status, attempts |-> email[k].attempts,
            next |-> email[k].next, active |-> active]

(* The timer fires and no run of this process is active.                   *)
Poll(p) ==
    /\ process[p] = Resting
    /\ Oldest(p) # {}
    /\ \E order \in [1 .. Cardinality(Oldest(p)) -> Oldest(p)] :
          /\ \A i, j \in DOMAIN order : i < j => order[i] < order[j]
          /\ process' = [process EXCEPT ![p] =
                [step |-> "claim", batch |-> [i \in DOMAIN order |-> Read(queue[order[i]])],
                 claim |-> 0]]
    /\ UNCHANGED <<active, email, queue, smtp, mails, unheard, overruns, faults>>

row(p) == Head(process[p].batch)
At(p, step) == process[p].step = step

(* On to the next row of the batch, or to the end of the run.              *)
NextRow(p) ==
    process' = [process EXCEPT ![p] =
        IF Len(@.batch) = 1 THEN Resting
        ELSE [step |-> "claim", batch |-> Tail(@.batch), claim |-> 0]]

Continue(p, step) == process' = [process EXCEPT ![p].step = step]

(* Mutant: the claim is an update by id, of a row still to be sent.        *)
Unchanged_ById(r) == email[r.key].status \in Waiting

Unchanged(r) == email[r.key].status = r.status /\ email[r.key].next = r.next

Claim(p) ==
    LET r == row(p)
        claim == email[r.key].attempts + 1
    IN
    /\ At(p, "claim")
    /\ \/ /\ ~Unchanged(r)
          /\ NextRow(p)
          /\ UNCHANGED email
       \/ /\ Unchanged(r)
          /\ email' = [email EXCEPT ![r.key] =
                [status |-> "SENDING", attempts |-> claim, next |-> claim, due |-> FALSE]]
          /\ process' = [process EXCEPT ![p].step = IF r.active THEN "send" ELSE "skip",
                                        ![p].claim = claim]
    /\ UNCHANGED <<active, queue, smtp, mails, unheard, overruns, faults>>

Settle(k, status) ==
    email' = [email EXCEPT ![k].status = status, ![k].next = Null, ![k].due = FALSE]

Skip(p) ==
    /\ At(p, "skip")
    /\ Settle(row(p).key, "SKIPPED")
    /\ NextRow(p)
    /\ UNCHANGED <<active, queue, smtp, mails, unheard, overruns, faults>>

(* sendMail returns an error as it returns a refusal: 'failed' also means  *)
(* that the mail server took the e-mail and its answer never came back.    *)
Send(p) ==
    /\ At(p, "send")
    /\ \/ /\ ~smtp[p]
          /\ Continue(p, "not_configured")
          /\ UNCHANGED <<mails, unheard>>
       \/ /\ smtp[p]
          /\ Continue(p, "sent")
          /\ mails' = [mails EXCEPT ![row(p).key] = @ + 1]
          /\ UNCHANGED unheard
       \/ /\ smtp[p]
          /\ Continue(p, "failed")
          /\ UNCHANGED <<mails, unheard>>
       \/ /\ smtp[p]
          /\ Continue(p, "failed")
          /\ mails' = [mails EXCEPT ![row(p).key] = @ + 1]
          /\ unheard' = [unheard EXCEPT ![row(p).key] = @ + 1]
    /\ UNCHANGED <<active, email, queue, smtp, overruns, faults>>

Exhausted(r) == r.attempts + 1 >= MaxAttempts

(* The outcome is written unconditionally, by row id; the attempts are     *)
(* counted from the row as it was read.                                    *)
Record(p) ==
    LET r == row(p) IN
    /\ process[p].step \in Outcome
    /\ \/ At(p, "sent") /\ Settle(r.key, "SENT")
       \/ At(p, "not_configured") /\ Settle(r.key, "WAITING_CONFIG")
       \/ At(p, "failed") /\ Exhausted(r) /\ Settle(r.key, "FAILED")
       \/ /\ At(p, "failed")
          /\ ~Exhausted(r)
          /\ email' = [email EXCEPT ![r.key].status = "RETRY", ![r.key].next = process[p].claim,
                                    ![r.key].due = FALSE]
    /\ NextRow(p)
    /\ UNCHANGED <<active, queue, smtp, mails, unheard, overruns, faults>>

Fault ==
    /\ faults < MaxFaults
    /\ faults' = faults + 1

(* Writing SENT or WAITING_CONFIG throws: the catch records a failure.     *)
RecordFault(p) ==
    /\ process[p].step \in {"sent", "not_configured"}
    /\ Fault
    /\ Continue(p, "failed")
    /\ UNCHANGED <<active, email, queue, smtp, mails, unheard, overruns>>

(* The process dies, or a query throws outside the try: the run is over.   *)
RunFault(p) ==
    /\ process[p] # Resting
    /\ Fault
    /\ process' = [process EXCEPT ![p] = Resting]
    /\ UNCHANGED <<active, email, queue, smtp, mails, unheard, overruns>>

(* A live process is working on row k under the lease the row shows.       *)
Held(k) ==
    /\ email[k].status = "SENDING"
    /\ \E p \in Processes :
          /\ process[p].step \in {"skip", "send"} \cup Outcome
          /\ row(p).key = k
          /\ process[p].claim = email[k].next

(* nextAttemptAt of a row comes: a retry is due or a lease has run out.    *)
TimePasses(k) ==
    /\ email[k].next # Null
    /\ ~email[k].due
    /\ email' = [email EXCEPT ![k].due = TRUE]
    /\ \/ ~Held(k) /\ UNCHANGED overruns
       \/ /\ Held(k)
          /\ overruns[k] < MaxOverruns
          /\ overruns' = [overruns EXCEPT ![k] = @ + 1]
    /\ UNCHANGED <<active, queue, process, smtp, mails, unheard, faults>>

(* A process is restarted with SMTP settings.                              *)
Configure(p) ==
    /\ process[p] = Resting
    /\ ~smtp[p]
    /\ smtp' = [smtp EXCEPT ![p] = TRUE]
    /\ UNCHANGED <<active, email, queue, process, mails, unheard, overruns, faults>>

-----------------------------------------------------------------------------
Run(p) == Poll(p) \/ Claim(p) \/ Skip(p) \/ Send(p) \/ Record(p)

QueueNext ==
    \/ updateUser
    \/ \E p \in Processes : Run(p) \/ RecordFault(p) \/ RunFault(p) \/ Configure(p)
    \/ \E k \in Keys : TimePasses(k)

Next == QueueNext \/ \E k \in Keys : Enqueue(k)

Spec == Init /\ [][Next]_vars

(* The timer of a process that lives keeps firing and its run goes on;     *)
(* clocks advance.  Nobody is obliged to emit or to configure SMTP, and    *)
(* faults and overrun leases are finitely many.                            *)
Fairness ==
    /\ \A p \in Processes : WF_vars(Run(p))
    /\ \A k \in Keys : WF_vars(TimePasses(k))

FairSpec == Spec /\ Fairness

-----------------------------------------------------------------------------
(* No row is forgotten: what is still to be sent has a nextAttemptAt at    *)
(* which a poll will find it, and what is settled has none, also when      *)
(* several processes write outcomes of the same row.                       *)
NothingForgotten ==
    \A k \in Keys : email[k].status \in Waiting <=> email[k].next # Null

(* A row that is SENT has been mailed.                                     *)
SentWasMailed ==
    \A k \in Keys : email[k].status = "SENT" => mails[k] > 0

(* Two e-mails for one event need an explanation: each copy beyond the     *)
(* first is due to an answer of the mail server that was lost, to a lease  *)
(* that ran out under its holder, or to a fault.                           *)
DuplicatesExplained ==
    \A k \in Keys : mails[k] <= 1 + unheard[k] + overruns[k] + faults

(* Nor does the row lie about an e-mail that went out, unless one of these *)
(* came between the mail server and the database.                          *)
MailedIsShown ==
    \A k \in Keys :
        mails[k] > 0 =>
            email[k].status \in {"SENDING", "SENT"} \/ unheard[k] + overruns[k] + faults > 0

(* Giving up is earned: FAILED needs MaxAttempts claims of the row, also   *)
(* when processes that took it over from one another count them.           *)
FailedWasTried ==
    \A k \in Keys : email[k].status = "FAILED" => email[k].attempts >= MaxAttempts

(* What the rows say of the mail agrees with the mail server, up to lost   *)
(* answers, leases that ran out and faults: SENT was mailed, what was      *)
(* mailed is shown, further copies are explained, and FAILED was tried     *)
(* often enough (sendMail, processPendingNotificationEmails).              *)
MailExplained == SentWasMailed /\ DuplicatesExplained /\ MailedIsShown /\ FailedWasTried

(* The rows of the queue can be relied on: each tells what became of its   *)
(* e-mail, and none drops out of the queue unsettled.                      *)
RowsExplained == NothingForgotten /\ MailExplained

(* "A lease lets a different process retry after a crash": every e-mail    *)
(* comes to rest as SENT, FAILED or SKIPPED, or waits for SMTP settings    *)
(* that no process has.                                                    *)
QueueDrains ==
    <>[](\A k \in Keys :
            \/ email[k].status \in Settled \cup {"ABSENT"}
            \/ email[k].status = "WAITING_CONFIG" /\ \A p \in Processes : ~smtp[p])
=============================================================================
