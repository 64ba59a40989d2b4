----------------------------- MODULE QueueProofs -----------------------------
(***************************************************************************)
(* Proofs about the e-mail queue for every set of rows and of processes,   *)
(* every batch size, and any number of faults and overrun leases, and      *)
(* about the notifications on top of it.                                   *)
(*                                                                         *)
(* The argument is about copies: each process that is about to send, or    *)
(* will put its row back, and each row that somebody may claim can lead to *)
(* one e-mail more (MayStillMail).  A claim turns a claimable row into     *)
(* such a process, a result turns it back or into an e-mail, and only an   *)
(* answer that is lost, a fault or a lease that runs out under its holder  *)
(* makes two of one (CopiesOK).  A claim is one of a row that is           *)
(* claimable, because what a run remembers of a row is either out of date  *)
(* or due (Fits), and that holds because a claim writes a nextAttemptAt    *)
(* that nobody has seen.                                                   *)
(***************************************************************************)
EXTENDS Notifications, SequenceTheorems, FiniteSetTheorems, TLAPS

Runs == [step : {"claim", "skip", "send"} \cup Outcome, batch : Seq(Snapshot) \ {<<>>}, claim : Nat]

(* The parts of a run: the row at hand, whether it is claimed, the rows it *)
(* has still to claim, and all it remembers.                               *)
RowOf(x) == Head(x.batch)
Works(x) == x.step \in {"skip", "send"} \cup Outcome
Coming(x) == {x.batch[i] : i \in {i \in DOMAIN x.batch : i > 1 \/ x.step = "claim"}}
Seen(x) == {x.batch[i] : i \in DOMAIN x.batch}
MaySend(x) == x.step \in {"send", "failed", "not_configured"}
WorksOn(x, k) == Works(x) /\ RowOf(x).key = k

(* What a run remembers of row e.                                          *)
Fits(r, e) ==
    /\ r.status \in Waiting \cup {"WAITING_CONFIG"}
    /\ r.next <= e.attempts
    /\ r.attempts <= e.attempts
    /\ r.status \in Waiting /\ e.status = r.status /\ e.next = r.next => e.due

BatchesOK ==
    \A p \in Processes :
        /\ \A r \in Coming(process[p]) : Fits(r, email[r.key])
        /\ \A r \in Seen(process[p]) : email[r.key].status # "ABSENT"

(* A retry that a run remembers is not the one a holder will write.        *)
RetriesOK ==
    \A p, q \in Processes : \A r \in Coming(process[p]) :
        WorksOn(process[q], r.key) /\ r.status = "RETRY" => r.next # process[q].claim

ClaimFits(x, e) ==
    /\ RowOf(x).attempts < x.claim /\ x.claim <= e.attempts
    /\ e.status = "RETRY" => e.next # x.claim

ClaimsOK ==
    /\ \A p \in Processes : Works(process[p]) =>
          /\ ClaimFits(process[p], email[RowOf(process[p]).key])
          /\ process[p].step = "sent" => mails[RowOf(process[p]).key] > 0
    /\ \A p, q \in Processes :
          p # q /\ Works(process[p]) /\ WorksOn(process[q], RowOf(process[p]).key)
          => process[p].claim # process[q].claim
    /\ \A k \in Keys : email[k].next <= email[k].attempts

Senders(k) == {p \in Processes : WorksOn(process[p], k) /\ MaySend(process[p])}
Leased(k) == \E p \in Processes : WorksOn(process[p], k) /\ process[p].claim = email[k].next
Claimable(k) ==
    \/ email[k].status \in {"ABSENT", "PENDING", "RETRY", "WAITING_CONFIG"}
    \/ email[k].status = "SENDING" /\ (email[k].due \/ ~Leased(k))
MayStillMail(k) == Cardinality(Senders(k)) + (IF Claimable(k) THEN 1 ELSE 0)

CopiesOK == \A k \in Keys : mails[k] + MayStillMail(k) <= 1 + unheard[k] + overruns[k] + faults

(* A row of which no answer was lost and no lease ran out, before the      *)
(* first fault.                                                            *)
CalmOK ==
    \A k \in Keys : unheard[k] = 0 /\ overruns[k] = 0 /\ faults = 0 =>
        /\ \A p \in Processes : WorksOn(process[p], k) =>
              email[k].status = "SENDING" /\ email[k].next = process[p].claim /\ ~email[k].due
        /\ mails[k] > 0 =>
              email[k].status = "SENT" \/ \E p \in Processes : WorksOn(process[p], k) /\ process[p].step = "sent"

RowsOK ==
    /\ NothingForgotten /\ SentWasMailed /\ FailedWasTried
    /\ \A k \in Keys : email[k].status = "ABSENT" => email[k].attempts = 0

IInv == TypeOK /\ RowsOK /\ BatchesOK /\ RetriesOK /\ ClaimsOK /\ CopiesOK /\ CalmOK

-----------------------------------------------------------------------------
(* The shape of a run.                                                     *)
LEMMA RunShape ==
    ASSUME TypeOK, NEW p \in Processes
    PROVE  /\ process[p] = Resting \/ process[p] \in Runs
           /\ process[p].step # "resting" => process[p] \in Runs
           /\ process[p].step = "resting" => process[p] = Resting
  BY DEF TypeOK, Runs, Resting, Outcome

LEMMA BatchShape ==
    ASSUME NEW x \in Runs
    PROVE  /\ x.batch \in Seq(Snapshot) /\ x.batch # <<>>
           /\ DOMAIN x.batch = 1..Len(x.batch) /\ Len(x.batch) \in Nat \ {0}
           /\ RowOf(x) = x.batch[1] /\ RowOf(x) \in Snapshot /\ RowOf(x).key \in Keys
           /\ RowOf(x) \in Seen(x) /\ Coming(x) \subseteq Seen(x) /\ Seen(x) \subseteq Snapshot
           /\ x.step = "claim" => RowOf(x) \in Coming(x)
<1>1. x.batch \in Seq(Snapshot) /\ x.batch # <<>>
  BY DEF Runs
<1>2. /\ DOMAIN x.batch = 1..Len(x.batch) /\ Len(x.batch) \in Nat \ {0}
      /\ \A i \in DOMAIN x.batch : x.batch[i] \in Snapshot
  BY <1>1, LenProperties, EmptySeq
<1>3. RowOf(x) = x.batch[1] /\ 1 \in DOMAIN x.batch
  BY <1>1, <1>2, HeadTailProperties DEF RowOf
<1>4. RowOf(x) \in Snapshot
  BY <1>2, <1>3
<1>5. RowOf(x).key \in Keys
  BY <1>4 DEF Snapshot
<1>6. RowOf(x) \in Seen(x) /\ Coming(x) \subseteq Seen(x) /\ Seen(x) \subseteq Snapshot
  BY <1>2, <1>3 DEF Seen, Coming
<1>7. x.step = "claim" => RowOf(x) \in Coming(x)
  BY <1>2, <1>3 DEF Coming
<1> QED
  BY <1>1, <1>2, <1>3, <1>4, <1>5, <1>6, <1>7

LEMMA RestingShape ==
    /\ ~Works(Resting) /\ ~MaySend(Resting) /\ Resting.step = "resting"
    /\ Coming(Resting) = {} /\ Seen(Resting) = {}
<1>1. DOMAIN Resting.batch = {}
  BY DEF Resting
<1> QED
  BY <1>1 DEF Resting, Works, MaySend, Outcome, Coming, Seen

(* Only the run of p turns, from x to y.                                   *)
Turns(p, y) ==
    /\ process' = [process EXCEPT ![p] = y]
    /\ y \in Runs \cup {Resting}

LEMMA NextRowTurns ==
    ASSUME TypeOK, NEW p \in Processes, process[p] \in Runs, NextRow(p)
    PROVE  \E y : /\ Turns(p, y) /\ ~Works(y) /\ ~MaySend(y)
                  /\ Coming(y) \subseteq Coming(process[p]) /\ Seen(y) \subseteq Seen(process[p])
<1> DEFINE x == process[p]
<1>1. x.batch \in Seq(Snapshot) /\ x.batch # <<>> /\ DOMAIN x.batch = 1..Len(x.batch) /\ Len(x.batch) \in Nat \ {0}
  BY BatchShape
<1>2. CASE Len(x.batch) = 1
  <2>1. Turns(p, Resting)
    BY <1>2 DEF NextRow, Turns
  <2> QED
    BY <2>1, RestingShape
<1>3. CASE Len(x.batch) # 1
  <2>1. PICK y : y = [step |-> "claim", batch |-> Tail(x.batch), claim |-> 0]
    OBVIOUS
  <2>2. /\ Tail(x.batch) \in Seq(Snapshot) /\ Len(Tail(x.batch)) = Len(x.batch) - 1
        /\ \A i \in 1..(Len(x.batch) - 1) : Tail(x.batch)[i] = x.batch[i + 1]
    BY <1>1, HeadTailProperties
  <2>3. DOMAIN Tail(x.batch) = 1..(Len(x.batch) - 1) /\ Tail(x.batch) # <<>>
    <3>1. DOMAIN Tail(x.batch) = 1..Len(Tail(x.batch))
      BY <2>2, LenProperties
    <3>2. Len(Tail(x.batch)) # 0
      BY <1>1, <1>3, <2>2
    <3> QED
      BY <2>2, <3>1, <3>2, EmptySeq
  <2>4. y.step = "claim" /\ y.batch = Tail(x.batch) /\ y \in Runs
    BY <2>1, <2>2, <2>3 DEF Runs
  <2>5. Turns(p, y)
    BY <1>3, <2>1, <2>4 DEF NextRow, Turns
  <2>6. ~Works(y) /\ ~MaySend(y)
    BY <2>4 DEF Works, MaySend, Outcome
  <2>7. \A i \in DOMAIN y.batch : i + 1 \in DOMAIN x.batch /\ i + 1 > 1 /\ y.batch[i] = x.batch[i + 1]
    BY <1>1, <2>2, <2>3, <2>4
  <2>8. Coming(y) \subseteq Coming(x) /\ Seen(y) \subseteq Seen(x)
    BY <2>7 DEF Coming, Seen
  <2> QED
    BY <2>5, <2>6, <2>8
<1> QED
  BY <1>2, <1>3

(* A run that goes on with the row at hand.                                *)
LEMMA SameBatch ==
    ASSUME NEW x, NEW y, y.batch = x.batch, y.step \in {"skip", "send"} \cup Outcome
    PROVE  /\ Works(y) /\ RowOf(y) = RowOf(x)
           /\ Coming(y) \subseteq Coming(x) /\ Seen(y) \subseteq Seen(x)
  BY DEF Works, RowOf, Outcome, Coming, Seen

LEMMA ContinueTurns ==
    ASSUME TypeOK, NEW p \in Processes, process[p] \in Runs,
           NEW step \in {"skip", "send"} \cup Outcome, Continue(p, step)
    PROVE  \E y : /\ Turns(p, y) /\ y \in Runs /\ y.step = step /\ y.claim = process[p].claim
                  /\ Works(y) /\ RowOf(y) = RowOf(process[p])
                  /\ Coming(y) \subseteq Coming(process[p]) /\ Seen(y) \subseteq Seen(process[p])
<1>1. PICK y : y = [process[p] EXCEPT !.step = step]
  OBVIOUS
<1>2. y \in Runs /\ y.step = step /\ y.claim = process[p].claim /\ y.batch = process[p].batch
  BY <1>1 DEF Runs
<1>3. Turns(p, y)
  BY <1>1, <1>2 DEF Turns, Continue
<1> QED
  BY <1>2, <1>3, SameBatch

LEMMA TurnsAre ==
    ASSUME TypeOK, NEW p \in Processes, NEW y, Turns(p, y)
    PROVE  /\ process'[p] = y /\ \A q \in Processes \ {p} : process'[q] = process[q]
           /\ process' \in [Processes -> {Resting} \cup Runs]
  BY RunShape DEF Turns, TypeOK, Runs

-----------------------------------------------------------------------------
(* A step in which no run but that of p moves, and p forgets rows, or goes *)
(* on with its claim, or makes a claim that nobody has made.               *)
GoesOn(x, y) ==
    /\ Coming(y) \subseteq Coming(x) /\ Seen(y) \subseteq Seen(x)
    /\ Works(y) => /\ RowOf(y) = RowOf(x)
                   /\ (Works(x) /\ y.claim = x.claim) \/ y.claim > email[RowOf(y).key].attempts

Moves(p) ==
    \A q \in Processes : GoesOn(process[q], process'[q]) /\ (q # p => process'[q] = process[q])

LEMMA BatchesKept ==
    ASSUME BatchesOK, NEW p, Moves(p),
           \A q \in Processes : \A r \in Coming(process[q]) : Fits(r, email'[r.key]),
           \A q \in Processes : \A r \in Seen(process[q]) :
              email[r.key].status # "ABSENT" => email'[r.key].status # "ABSENT"
    PROVE  BatchesOK'
<1> SUFFICES ASSUME NEW q \in Processes
             PROVE  /\ \A r \in Coming(process'[q]) : Fits(r, email'[r.key])
                    /\ \A r \in Seen(process'[q]) : email'[r.key].status # "ABSENT"
  BY DEF BatchesOK
<1>1. Coming(process'[q]) \subseteq Coming(process[q]) /\ Seen(process'[q]) \subseteq Seen(process[q])
  BY DEF Moves, GoesOn
<1> QED
  BY <1>1 DEF BatchesOK

LEMMA RetriesKept ==
    ASSUME TypeOK, BatchesOK, RetriesOK, NEW p, Moves(p)
    PROVE  RetriesOK'
<1> SUFFICES ASSUME NEW q \in Processes, NEW u \in Processes, NEW r \in Coming(process'[q]),
                    WorksOn(process'[u], r.key), r.status = "RETRY"
             PROVE  r.next # process'[u].claim
  BY DEF RetriesOK
<1>1. r \in Coming(process[q]) /\ Fits(r, email[r.key])
  BY DEF Moves, GoesOn, BatchesOK
<1>2. r \in Snapshot
  BY <1>1, RunShape, BatchShape, RestingShape
<1>3. RowOf(process'[u]).key = r.key /\ Works(process'[u])
  BY DEF WorksOn
<1>4. RowOf(process[u]) = RowOf(process'[u])
      /\ ((Works(process[u]) /\ process'[u].claim = process[u].claim)
          \/ process'[u].claim > email[r.key].attempts)
  BY <1>3 DEF Moves, GoesOn
<1>5. CASE Works(process[u]) /\ process'[u].claim = process[u].claim
  BY <1>1, <1>3, <1>4, <1>5 DEF RetriesOK, WorksOn
<1>6. CASE process'[u].claim > email[r.key].attempts
  <2>1. email[r.key].attempts \in Nat /\ r.next \in Int /\ r.next <= email[r.key].attempts
    BY <1>1, <1>2 DEF Fits, Snapshot, TypeOK, EmailRow, Null
  <2>2. process'[u].claim = r.next => FALSE
    BY <1>6, <2>1
  <2> QED
    BY <2>2
<1> QED
  BY <1>4, <1>5, <1>6

LEMMA ClaimsKept ==
    ASSUME TypeOK, TypeOK', ClaimsOK, NEW p, Moves(p),
           \A k \in Keys : /\ email'[k].next <= email'[k].attempts
                           /\ email[k].attempts <= email'[k].attempts
                           /\ mails[k] <= mails'[k],
           \A q \in Processes \ {p} : Works(process[q]) /\ email'[RowOf(process[q]).key].status = "RETRY"
              => email'[RowOf(process[q]).key].next # process[q].claim,
           p \in Processes /\ Works(process'[p]) =>
              /\ ClaimFits(process'[p], email'[RowOf(process'[p]).key])
              /\ process'[p].step = "sent" => mails'[RowOf(process'[p]).key] > 0
    PROVE  ClaimsOK'
<1>1. ASSUME NEW q \in Processes, Works(process'[q])
      PROVE  /\ ClaimFits(process'[q], email'[RowOf(process'[q]).key])
             /\ process'[q].step = "sent" => mails'[RowOf(process'[q]).key] > 0
  <2>1. CASE q = p
    BY <1>1, <2>1
  <2>2. CASE q # p
    <3>1. process'[q] = process[q]
      BY <2>2 DEF Moves
    <3>2. process[q] \in Runs
      BY <1>1, <3>1, RunShape, RestingShape
    <3>3. PICK k \in Keys : k = RowOf(process[q]).key
      BY <3>2, BatchShape
    <3>4. RowOf(process[q]).attempts \in Nat /\ process[q].claim \in Nat
      BY <3>2, BatchShape DEF Snapshot, Runs
    <3>5. email[k].attempts \in Nat /\ email'[k].attempts \in Nat /\ mails[k] \in Nat /\ mails'[k] \in Nat
      BY DEF TypeOK, EmailRow
    <3>6. /\ ClaimFits(process[q], email[k]) /\ (process[q].step = "sent" => mails[k] > 0)
      BY <1>1, <3>1, <3>3 DEF ClaimsOK
    <3>7. email'[k].status = "RETRY" => email'[k].next # process[q].claim
      BY <1>1, <2>2, <3>1, <3>3
    <3>8. email[k].attempts <= email'[k].attempts /\ mails[k] <= mails'[k]
      OBVIOUS
    <3> QED
      BY <3>1, <3>3, <3>4, <3>5, <3>6, <3>7, <3>8 DEF ClaimFits
  <2> QED
    BY <2>1, <2>2
<1>2. ASSUME NEW q \in Processes, NEW u \in Processes, q # u, Works(process'[q]),
             WorksOn(process'[u], RowOf(process'[q]).key)
      PROVE  process'[q].claim # process'[u].claim
  <2>1. ASSUME NEW a \in Processes, NEW b \in Processes, a # b, b # p, Works(process'[a]), Works(process'[b]),
               RowOf(process'[a]).key = RowOf(process'[b]).key
        PROVE  process'[a].claim # process'[b].claim
    <3>1. process'[b] = process[b]
      BY <2>1 DEF Moves
    <3>2. process[b] \in Runs
      BY <2>1, <3>1, RunShape, RestingShape
    <3>3. PICK k \in Keys : k = RowOf(process[b]).key
      BY <3>2, BatchShape
    <3>4. process[b].claim \in Nat /\ email[k].attempts \in Nat /\ process[b].claim <= email[k].attempts
      BY <2>1, <3>1, <3>2, <3>3 DEF Runs, TypeOK, EmailRow, ClaimsOK, ClaimFits
    <3>5. /\ RowOf(process'[a]) = RowOf(process[a]) /\ RowOf(process'[a]).key = k
          /\ (Works(process[a]) /\ process'[a].claim = process[a].claim) \/ process'[a].claim > email[k].attempts
      BY <2>1, <3>1, <3>3 DEF Moves, GoesOn
    <3>6. CASE Works(process[a]) /\ process'[a].claim = process[a].claim
      BY <2>1, <3>1, <3>3, <3>5, <3>6 DEF ClaimsOK, WorksOn
    <3>7. CASE process'[a].claim > email[k].attempts
      <4>1. process'[a].claim = process[b].claim => FALSE
        BY <3>4, <3>7
      <4> QED
        BY <3>1, <4>1
    <3> QED
      BY <3>5, <3>6, <3>7
  <2>2. Works(process'[u]) /\ RowOf(process'[q]).key = RowOf(process'[u]).key
    BY <1>2 DEF WorksOn
  <2>3. q # p \/ u # p
    BY <1>2
  <2> QED
    BY <1>2, <2>1, <2>2, <2>3
<1> QED
  BY <1>1, <1>2 DEF ClaimsOK

-----------------------------------------------------------------------------
(* Counting who may send.                                                  *)
LEMMA SendersCount ==
    ASSUME EmailQueueAssumption, NEW k
    PROVE  IsFiniteSet(Senders(k)) /\ Cardinality(Senders(k)) \in Nat
<1>1. Senders(k) \subseteq Processes /\ IsFiniteSet(Processes)
  BY DEF Senders, EmailQueueAssumption
<1> QED
  BY <1>1, FS_Subset, FS_CardinalityType

Sender(x, k) == WorksOn(x, k) /\ MaySend(x)

LEMMA SendersTurn ==
    ASSUME TypeOK, NEW p \in Processes, NEW y, Turns(p, y), NEW k
    PROVE  /\ Cardinality(Senders(k)) \in Nat /\ Cardinality(Senders(k)') \in Nat
           /\ Cardinality(Senders(k)') =
                 Cardinality(Senders(k)) + (IF Sender(y, k) THEN 1 ELSE 0)
                                         - (IF Sender(process[p], k) THEN 1 ELSE 0)
<1> DEFINE S == Senders(k)
           T == Senders(k)'
           R == {q \in Processes \ {p} : Sender(process[q], k)}
<1>1. process'[p] = y /\ \A q \in Processes \ {p} : process'[q] = process[q]
  BY TurnsAre
<1>2. S = IF Sender(process[p], k) THEN R \cup {p} ELSE R
  BY DEF Senders, Sender
<1>3. T = IF Sender(y, k) THEN R \cup {p} ELSE R
  BY <1>1 DEF Senders, Sender
<1>4. IsFiniteSet(R) /\ p \notin R
  <2>1. R \subseteq Processes /\ IsFiniteSet(Processes)
    BY EmailQueueAssumption DEF EmailQueueAssumption
  <2> QED
    BY <2>1, FS_Subset
<1> HIDE DEF R
<1>5. Cardinality(R) \in Nat /\ Cardinality(R \cup {p}) = Cardinality(R) + 1
  BY <1>4, FS_CardinalityType, FS_AddElement
<1> HIDE DEF S, T
<1>6. Cardinality(S) = Cardinality(R) + (IF Sender(process[p], k) THEN 1 ELSE 0)
  BY <1>2, <1>5
<1>7. Cardinality(T) = Cardinality(R) + (IF Sender(y, k) THEN 1 ELSE 0)
  BY <1>3, <1>5
<1>8. Cardinality(S) \in Nat /\ Cardinality(T) \in Nat
      /\ Cardinality(T) = Cardinality(S) + (IF Sender(y, k) THEN 1 ELSE 0)
                                         - (IF Sender(process[p], k) THEN 1 ELSE 0)
  BY <1>5, <1>6, <1>7
<1> QED
  BY <1>8 DEF S, T

One(b) == IF b THEN 1 ELSE 0

(* A step of p: what it adds to the copies of each row is explained.       *)
LEMMA CopiesTurn ==
    ASSUME TypeOK, TypeOK', CopiesOK, NEW p \in Processes, NEW y, Turns(p, y),
           \A k \in Keys :
              mails'[k] + One(Sender(y, k)) + One(Claimable(k)') + unheard[k] + overruns[k] + faults
              <= mails[k] + One(Sender(process[p], k)) + One(Claimable(k)) + unheard'[k] + overruns'[k] + faults'
    PROVE  CopiesOK'
<1> SUFFICES ASSUME NEW k \in Keys
             PROVE  mails'[k] + (Cardinality(Senders(k)') + One(Claimable(k)')) <= 1 + unheard'[k] + overruns'[k] + faults'
  BY DEF CopiesOK, MayStillMail, One
<1>1. mails[k] + (Cardinality(Senders(k)) + One(Claimable(k))) <= 1 + unheard[k] + overruns[k] + faults
  BY DEF CopiesOK, MayStillMail, One
<1>2. /\ Cardinality(Senders(k)) \in Nat /\ Cardinality(Senders(k)') \in Nat
      /\ Cardinality(Senders(k)') = Cardinality(Senders(k)) + One(Sender(y, k)) - One(Sender(process[p], k))
  BY SendersTurn DEF One
<1>3. /\ mails[k] \in Nat /\ mails'[k] \in Nat /\ unheard[k] \in Nat /\ unheard'[k] \in Nat
      /\ overruns[k] \in Nat /\ overruns'[k] \in Nat
      /\ faults \in Nat /\ faults' \in Nat
  BY EmailQueueAssumption DEF TypeOK, EmailQueueAssumption
<1>4. One(Sender(y, k)) \in Nat /\ One(Sender(process[p], k)) \in Nat
      /\ One(Claimable(k)) \in Nat /\ One(Claimable(k)') \in Nat
  BY DEF One
<1>5. mails'[k] + One(Sender(y, k)) + One(Claimable(k)') + unheard[k] + overruns[k] + faults
      <= mails[k] + One(Sender(process[p], k)) + One(Claimable(k)) + unheard'[k] + overruns'[k] + faults'
  OBVIOUS
<1> QED
  BY <1>1, <1>2, <1>3, <1>4, <1>5

LEMMA CopiesSame ==
    ASSUME TypeOK, TypeOK', CopiesOK, process' = process, mails' = mails, unheard' = unheard, faults' = faults,
           \A k \in Keys : One(Claimable(k)') + overruns[k] <= One(Claimable(k)) + overruns'[k]
    PROVE  CopiesOK'
<1> SUFFICES ASSUME NEW k \in Keys
             PROVE  mails'[k] + (Cardinality(Senders(k)') + One(Claimable(k)')) <= 1 + unheard'[k] + overruns'[k] + faults'
  BY DEF CopiesOK, MayStillMail, One
<1>1. mails[k] + (Cardinality(Senders(k)) + One(Claimable(k))) <= 1 + unheard[k] + overruns[k] + faults
  BY DEF CopiesOK, MayStillMail, One
<1>2. Cardinality(Senders(k)) \in Nat /\ Senders(k)' = Senders(k)
  BY SendersCount, EmailQueueAssumption DEF Senders
<1>3. /\ mails[k] \in Nat /\ unheard[k] \in Nat /\ overruns[k] \in Nat /\ overruns'[k] \in Nat /\ faults \in Nat
  BY EmailQueueAssumption DEF TypeOK, EmailQueueAssumption
<1>4. One(Claimable(k)) \in Nat /\ One(Claimable(k)') \in Nat
  BY DEF One
<1> QED
  BY <1>1, <1>2, <1>3, <1>4

LEMMA LeasedTurn ==
    ASSUME TypeOK, NEW p \in Processes, NEW y, Turns(p, y), NEW k, email'[k].next = email[k].next,
           WorksOn(y, k) /\ y.claim = email[k].next
           <=> WorksOn(process[p], k) /\ process[p].claim = email[k].next
    PROVE  Leased(k)' <=> Leased(k)
<1>1. process'[p] = y /\ \A q \in Processes \ {p} : process'[q] = process[q]
  BY TurnsAre
<1> QED
  BY <1>1 DEF Leased

LEMMA TypesTurn ==
    ASSUME TypeOK, NEW p \in Processes, NEW y, Turns(p, y),
           email' \in [Keys -> EmailRow], mails' \in [Keys -> Nat], unheard' \in [Keys -> Nat],
           faults' \in 0..MaxFaults, UNCHANGED <<active, queue, smtp, overruns>>
    PROVE  TypeOK'
<1>1. process' \in [Processes -> {Resting} \cup Runs]
  BY TurnsAre
<1> QED
  BY <1>1 DEF TypeOK, Runs

LEMMA RunMoves ==
    ASSUME TypeOK, NEW p \in Processes, NEW y, Turns(p, y), GoesOn(process[p], y)
    PROVE  Moves(p)
<1>1. process'[p] = y /\ \A q \in Processes \ {p} : process'[q] = process[q]
  BY TurnsAre
<1>2. \A q \in Processes : GoesOn(process[q], process[q])
  BY DEF GoesOn
<1> QED
  BY <1>1, <1>2 DEF Moves

LEMMA WorkerShape ==
    ASSUME TypeOK, NEW p \in Processes, Works(process[p])
    PROVE  /\ process[p] \in Runs /\ process[p].claim \in Nat
           /\ RowOf(process[p]) \in Snapshot /\ RowOf(process[p]).key \in Keys
           /\ RowOf(process[p]).attempts \in Nat
           /\ RowOf(process[p]) \in Seen(process[p])
<1>1. process[p] \in Runs
  BY RunShape, RestingShape
<1> QED
  BY <1>1, BatchShape DEF Snapshot, Runs

-----------------------------------------------------------------------------
(* A run leaves the row at hand, with its result written.                  *)
LEMMA LeavesKeeps ==
    ASSUME IInv, NEW p \in Processes, Works(process[p]), NextRow(p),
           NEW k \in Keys, k = RowOf(process[p]).key, NEW f \in EmailRow,
           email' = [email EXCEPT ![k] = f], f.attempts = email[k].attempts,
           \/ (f.status \in Settled \cup {"WAITING_CONFIG"} /\ f.next = Null)
           \/ (f.status = "RETRY" /\ f.next = process[p].claim),
           f.status \in {"RETRY", "WAITING_CONFIG"} => MaySend(process[p]),
           f.status = "SENT" <=> process[p].step = "sent",
           f.status = "FAILED" => RowOf(process[p]).attempts + 1 >= MaxAttempts,
           UNCHANGED <<active, queue, smtp, mails, unheard, overruns, faults>>
    PROVE  IInv'
<1> DEFINE x == process[p]
<1>1. /\ TypeOK /\ RowsOK /\ BatchesOK /\ RetriesOK /\ ClaimsOK /\ CopiesOK /\ CalmOK
      /\ x \in Runs /\ x.claim \in Nat /\ RowOf(x).attempts \in Nat
  BY WorkerShape DEF IInv
<1>2. PICK y : /\ Turns(p, y) /\ ~Works(y) /\ ~MaySend(y)
               /\ Coming(y) \subseteq Coming(x) /\ Seen(y) \subseteq Seen(x)
  BY <1>1, NextRowTurns
<1>3. GoesOn(x, y) /\ Moves(p)
  BY <1>1, <1>2, RunMoves DEF GoesOn
<1>4. email'[k] = f /\ \A j \in Keys \ {k} : email'[j] = email[j]
  BY <1>1 DEF TypeOK
<1>5. TypeOK'
  BY <1>1, <1>2, TypesTurn DEF TypeOK
<1>6. process'[p] = y /\ \A q \in Processes \ {p} : process'[q] = process[q]
  BY <1>1, <1>2, TurnsAre
<1>7. /\ ClaimFits(x, email[k]) /\ x.claim <= email[k].attempts /\ RowOf(x).attempts < x.claim
      /\ x.step = "sent" => mails[k] > 0
  BY <1>1 DEF ClaimsOK, ClaimFits
<1>8. email[k].attempts \in Nat /\ MaxAttempts \in Nat \ {0}
  BY <1>1, EmailQueueAssumption DEF TypeOK, EmailRow, EmailQueueAssumption
<1>9. f.status \notin {"ABSENT", "PENDING", "SENDING"}
  BY DEF Settled
<1>10. RowsOK'
  <2>1. f.status \in Waiting <=> f.next # Null
    BY <1>1 DEF Waiting, Settled, Null
  <2>2. f.status = "FAILED" => f.attempts >= MaxAttempts
    BY <1>1, <1>7, <1>8
  <2>3. NothingForgotten'
    BY <1>1, <1>4, <2>1 DEF RowsOK, NothingForgotten
  <2>4. SentWasMailed'
    BY <1>1, <1>4, <1>7 DEF RowsOK, SentWasMailed
  <2>5. FailedWasTried'
    BY <1>1, <1>4, <2>2 DEF RowsOK, FailedWasTried
  <2>6. \A j \in Keys : email'[j].status = "ABSENT" => email'[j].attempts = 0
    BY <1>1, <1>4, <1>9 DEF RowsOK
  <2> QED
    BY <2>3, <2>4, <2>5, <2>6 DEF RowsOK
<1>11. \A q \in Processes : \A r \in Seen(process[q]) : r \in Snapshot /\ r.key \in Keys
  BY <1>1, RunShape, BatchShape, RestingShape DEF Snapshot
<1>12. \A q \in Processes : Coming(process[q]) \subseteq Seen(process[q])
  BY DEF Coming, Seen
<1>13. BatchesOK'
  <2>1. ASSUME NEW q \in Processes, NEW r \in Coming(process[q]) PROVE Fits(r, email'[r.key])
    <3>1. Fits(r, email[r.key]) /\ r.key \in Keys
      BY <1>1, <1>11, <1>12 DEF BatchesOK
    <3>2. CASE r.key = k
      <4>1. r.status = "RETRY" => r.next # x.claim
        BY <1>1, <3>2 DEF RetriesOK, WorksOn
      <4>2. \/ f.status = "RETRY" /\ f.next = x.claim
            \/ f.status \notin Waiting
        BY DEF Settled, Waiting
      <4>3. email[r.key].attempts = f.attempts
        BY <3>2
      <4>4. Fits(r, f)
        BY <3>1, <4>1, <4>2, <4>3 DEF Fits
      <4> QED
        BY <1>4, <3>2, <4>4
    <3>3. CASE r.key # k
      BY <1>4, <3>1, <3>3
    <3> QED
      BY <3>2, <3>3
  <2>2. \A q \in Processes : \A r \in Seen(process[q]) :
           email[r.key].status # "ABSENT" => email'[r.key].status # "ABSENT"
    BY <1>4, <1>9, <1>11
  <2> QED
    BY <1>1, <1>3, <2>1, <2>2, BatchesKept
<1>14. RetriesOK'
  BY <1>1, <1>3, RetriesKept
<1>15. ClaimsOK'
  <2>1. \A j \in Keys : /\ email'[j].next <= email'[j].attempts
                        /\ email[j].attempts <= email'[j].attempts
                        /\ mails[j] <= mails'[j]
    <3> SUFFICES ASSUME NEW j \in Keys
                 PROVE  /\ email'[j].next <= email'[j].attempts
                        /\ email[j].attempts <= email'[j].attempts
                        /\ mails[j] <= mails'[j]
      OBVIOUS
    <3>1. email[j].attempts \in Nat /\ mails[j] \in Nat /\ email[j].next <= email[j].attempts
      BY <1>1 DEF TypeOK, EmailRow, ClaimsOK
    <3>2. f.next <= f.attempts
      BY <1>1, <1>7, <1>8 DEF Null
    <3> QED
      BY <1>4, <1>8, <3>1, <3>2
  <2>2. ASSUME NEW q \in Processes \ {p}, Works(process[q]), email'[RowOf(process[q]).key].status = "RETRY"
        PROVE  email'[RowOf(process[q]).key].next # process[q].claim
    <3>1. PICK j \in Keys : j = RowOf(process[q]).key
      BY <1>1, <2>2, WorkerShape
    <3>2. CASE j = k
      <4>1. x.claim # process[q].claim
        BY <1>1, <2>2, <3>1, <3>2 DEF ClaimsOK, WorksOn
      <4>2. f.next = x.claim
        BY <1>4, <2>2, <3>1, <3>2 DEF Settled
      <4> QED
        BY <1>4, <3>1, <3>2, <4>1, <4>2
    <3>3. CASE j # k
      BY <1>1, <1>4, <2>2, <3>1, <3>3 DEF ClaimsOK, ClaimFits
    <3> QED
      BY <3>2, <3>3
  <2> QED
    BY <1>1, <1>2, <1>3, <1>5, <1>6, <2>1, <2>2, ClaimsKept
<1>16. CopiesOK'
  <2> SUFFICES ASSUME NEW j \in Keys
               PROVE  mails'[j] + One(Sender(y, j)) + One(Claimable(j)') + unheard[j] + overruns[j] + faults
                      <= mails[j] + One(Sender(x, j)) + One(Claimable(j)) + unheard'[j] + overruns'[j] + faults'
    BY <1>1, <1>2, <1>5, CopiesTurn
  <2>1. mails[j] \in Nat /\ unheard[j] \in Nat /\ overruns[j] \in Nat /\ faults \in Nat
    BY <1>1, EmailQueueAssumption DEF TypeOK, EmailQueueAssumption
  <2>2. One(Sender(y, j)) = 0
    BY <1>2 DEF Sender, One
  <2>3. One(Claimable(j)') <= One(Sender(x, j)) + One(Claimable(j))
    <3>1. CASE j = k
      <4>1. Claimable(j)' => f.status \in {"RETRY", "WAITING_CONFIG"}
        BY <1>4, <1>9, <3>1 DEF Claimable
      <4>2. f.status \in {"RETRY", "WAITING_CONFIG"} => Sender(x, j)
        BY <3>1 DEF Sender, WorksOn
      <4> QED
        BY <4>1, <4>2 DEF One
    <3>2. CASE j # k
      <4>1. ~WorksOn(x, j) /\ ~WorksOn(y, j)
        BY <1>2, <3>2 DEF WorksOn
      <4>2. Leased(j)' <=> Leased(j)
        BY <1>1, <1>2, <1>4, <3>2, <4>1, LeasedTurn
      <4>3. Claimable(j)' <=> Claimable(j)
        BY <1>4, <3>2, <4>2 DEF Claimable
      <4> QED
        BY <4>3 DEF One
    <3> QED
      BY <3>1, <3>2
  <2>4. One(Claimable(j)') \in Nat /\ One(Sender(x, j)) \in Nat /\ One(Claimable(j)) \in Nat
    BY DEF One
  <2> QED
    BY <2>1, <2>2, <2>3, <2>4
<1>17. CalmOK'
  <2> SUFFICES ASSUME NEW j \in Keys, unheard[j] = 0, overruns[j] = 0, faults = 0
               PROVE  /\ \A q \in Processes : WorksOn(process'[q], j) =>
                            /\ email'[j].status = "SENDING" /\ email'[j].next = process'[q].claim
                            /\ ~email'[j].due
                      /\ mails[j] > 0 => \/ email'[j].status = "SENT"
                                         \/ \E q \in Processes : /\ WorksOn(process'[q], j)
                                                                 /\ process'[q].step = "sent"
    BY DEF CalmOK
  <2>1. ~WorksOn(y, j)
    BY <1>2 DEF WorksOn
  <2>2. /\ \A q \in Processes : WorksOn(process[q], j) =>
             email[j].status = "SENDING" /\ email[j].next = process[q].claim /\ ~email[j].due
        /\ mails[j] > 0 => \/ email[j].status = "SENT"
                           \/ \E q \in Processes : WorksOn(process[q], j) /\ process[q].step = "sent"
    BY <1>1 DEF CalmOK
  <2>3. CASE j = k
    <3>1. email[k].status = "SENDING" /\ email[k].next = x.claim
      BY <2>2, <2>3 DEF WorksOn
    <3>2. \A q \in Processes \ {p} : ~WorksOn(process[q], k)
      BY <1>1, <2>2, <2>3, <3>1 DEF ClaimsOK
    <3>3. mails[k] > 0 => x.step = "sent"
      BY <2>2, <2>3, <3>1, <3>2
    <3> QED
      BY <1>4, <1>6, <2>1, <2>3, <3>2, <3>3
  <2>4. CASE j # k
    <3>1. ~WorksOn(x, j)
      BY <2>4 DEF WorksOn
    <3> QED
      BY <1>4, <1>6, <2>1, <2>2, <2>4, <3>1
  <2> QED
    BY <2>3, <2>4
<1> QED
  BY <1>5, <1>10, <1>13, <1>14, <1>15, <1>16, <1>17 DEF IInv

LEMMA SkipKeeps ==
    ASSUME IInv, NEW p \in Processes, Skip(p) PROVE IInv'
<1>1. process[p].step = "skip" /\ Works(process[p]) /\ TypeOK
  BY DEF Skip, At, Works, IInv
<1>2. PICK k \in Keys : k = RowOf(process[p]).key
  BY <1>1, WorkerShape
<1>3. PICK f : f = [email[k] EXCEPT !.status = "SKIPPED", !.next = Null, !.due = FALSE]
  OBVIOUS
<1>4. f \in EmailRow /\ f.status = "SKIPPED" /\ f.next = Null /\ f.attempts = email[k].attempts
  BY <1>1, <1>3 DEF TypeOK, EmailRow, EmailStatus, Settled
<1>5. email' = [email EXCEPT ![k] = f] /\ NextRow(p)
      /\ UNCHANGED <<active, queue, smtp, mails, unheard, overruns, faults>>
  BY <1>2, <1>3 DEF Skip, Settle, row, RowOf
<1> QED
  BY <1>1, <1>2, <1>4, <1>5, LeavesKeeps DEF Settled

LEMMA RecordKeeps ==
    ASSUME IInv, NEW p \in Processes, Record(p) PROVE IInv'
<1> DEFINE x == process[p]
<1>1. x.step \in Outcome /\ Works(x) /\ TypeOK
  BY DEF Record, Works, IInv
<1>2. PICK k \in Keys : k = RowOf(x).key
  BY <1>1, WorkerShape
<1>3. PICK c \in Nat : c = x.claim
  BY <1>1, WorkerShape
<1>4. PICK status \in {"SENT", "WAITING_CONFIG", "FAILED", "RETRY"} :
         /\ email' = [email EXCEPT ![k].status = status, ![k].next = IF status = "RETRY" THEN c ELSE Null,
                                   ![k].due = FALSE]
         /\ status = "SENT" <=> x.step = "sent"
         /\ status \in {"RETRY", "WAITING_CONFIG"} => MaySend(x)
         /\ status = "FAILED" => RowOf(x).attempts + 1 >= MaxAttempts
  <2>1. CASE At(p, "sent") /\ Settle(k, "SENT")
    BY <2>1 DEF Settle, At
  <2>2. CASE At(p, "not_configured") /\ Settle(k, "WAITING_CONFIG")
    BY <2>2 DEF Settle, At, MaySend
  <2>3. CASE At(p, "failed") /\ Exhausted(row(p)) /\ Settle(k, "FAILED")
    BY <2>3 DEF Settle, At, Exhausted, row, RowOf
  <2>4. CASE /\ At(p, "failed")
             /\ email' = [email EXCEPT ![k].status = "RETRY", ![k].next = c, ![k].due = FALSE]
    BY <2>4 DEF At, MaySend
  <2> QED
    BY <1>2, <1>3, <2>1, <2>2, <2>3, <2>4 DEF Record, row, RowOf
<1>5. PICK f : f = [email[k] EXCEPT !.status = status, !.next = IF status = "RETRY" THEN c ELSE Null, !.due = FALSE]
  OBVIOUS
<1>6. /\ f \in EmailRow /\ f.status = status /\ f.attempts = email[k].attempts
      /\ f.next = IF status = "RETRY" THEN c ELSE Null
  BY <1>1, <1>5 DEF TypeOK, EmailRow, EmailStatus, Settled, Waiting
<1>7. email' = [email EXCEPT ![k] = f] /\ NextRow(p)
      /\ UNCHANGED <<active, queue, smtp, mails, unheard, overruns, faults>>
  BY <1>4, <1>5 DEF Record
<1>8. \/ (f.status \in Settled \cup {"WAITING_CONFIG"} /\ f.next = Null)
      \/ (f.status = "RETRY" /\ f.next = x.claim)
  BY <1>3, <1>6 DEF Settled
<1>9. /\ f.status \in {"RETRY", "WAITING_CONFIG"} => MaySend(x)
      /\ f.status = "SENT" <=> x.step = "sent"
      /\ f.status = "FAILED" => RowOf(x).attempts + 1 >= MaxAttempts
  BY <1>4, <1>6
<1>10. UNCHANGED <<active, queue, smtp, mails, unheard, overruns, faults>> /\ NextRow(p)
       /\ email' = [email EXCEPT ![k] = f] /\ f \in EmailRow /\ f.attempts = email[k].attempts
  BY <1>6, <1>7
<1> QED
  BY <1>1, <1>2, <1>8, <1>9, <1>10, LeavesKeeps

-----------------------------------------------------------------------------
(* Steps of a run that leave the rows alone.                               *)
LEMMA QuietKeeps ==
    ASSUME IInv, NEW p \in Processes, NEW y, Turns(p, y),
           Coming(y) \subseteq Coming(process[p]), Seen(y) \subseteq Seen(process[p]),
           Works(y) => Works(process[p]) /\ RowOf(y) = RowOf(process[p]) /\ y.claim = process[p].claim,
           UNCHANGED <<active, email, queue, smtp, overruns>>,
           mails' \in [Keys -> Nat], unheard' \in [Keys -> Nat], faults' \in 0..MaxFaults,
           \A k \in Keys : mails[k] <= mails'[k],
           Works(y) /\ y.step = "sent" => mails'[RowOf(y).key] > 0,
           \A k \in Keys :
              mails'[k] + One(Sender(y, k)) + One(Claimable(k)') + unheard[k] + faults
              <= mails[k] + One(Sender(process[p], k)) + One(Claimable(k)) + unheard'[k] + faults',
           CalmOK'
    PROVE  IInv'
<1> DEFINE x == process[p]
<1>1. TypeOK /\ RowsOK /\ BatchesOK /\ RetriesOK /\ ClaimsOK /\ CopiesOK
  BY DEF IInv
<1>2. TypeOK'
  BY <1>1, TypesTurn DEF TypeOK
<1>3. GoesOn(x, y) /\ Moves(p)
  BY <1>1, RunMoves DEF GoesOn
<1>4. process'[p] = y
  BY <1>1, TurnsAre
<1>5. RowsOK'
  <2>1. SentWasMailed'
    <3> SUFFICES ASSUME NEW k \in Keys, email[k].status = "SENT" PROVE mails'[k] > 0
      BY DEF SentWasMailed
    <3>1. mails[k] > 0 /\ mails[k] <= mails'[k] /\ mails[k] \in Nat /\ mails'[k] \in Nat
      BY <1>1 DEF RowsOK, SentWasMailed, TypeOK
    <3> QED
      BY <3>1
  <2> QED
    BY <1>1, <2>1 DEF RowsOK, NothingForgotten, FailedWasTried
<1>6. BatchesOK'
  BY <1>1, <1>3, BatchesKept DEF BatchesOK
<1>7. RetriesOK'
  BY <1>1, <1>3, RetriesKept
<1>8. ClaimsOK'
  <2>1. \A k \in Keys : email[k].next <= email[k].attempts /\ email[k].attempts <= email[k].attempts
    BY <1>1 DEF ClaimsOK, TypeOK, EmailRow
  <2>2. \A q \in Processes \ {p} : Works(process[q]) /\ email'[RowOf(process[q]).key].status = "RETRY"
              => email'[RowOf(process[q]).key].next # process[q].claim
    BY <1>1 DEF ClaimsOK, ClaimFits
  <2>3. Works(y) => ClaimFits(y, email[RowOf(y).key])
    BY <1>1 DEF ClaimsOK, ClaimFits
  <2> QED
    BY <1>1, <1>2, <1>3, <1>4, <2>1, <2>2, <2>3, ClaimsKept
<1>9. CopiesOK'
  <2> SUFFICES ASSUME NEW k \in Keys
               PROVE  mails'[k] + One(Sender(y, k)) + One(Claimable(k)') + unheard[k] + overruns[k] + faults
                      <= mails[k] + One(Sender(x, k)) + One(Claimable(k)) + unheard'[k] + overruns'[k] + faults'
    BY <1>1, <1>2, CopiesTurn
  <2>1. /\ mails[k] \in Nat /\ mails'[k] \in Nat /\ unheard[k] \in Nat /\ unheard'[k] \in Nat
      /\ overruns[k] \in Nat /\ overruns'[k] = overruns[k]
        /\ faults \in Nat /\ faults' \in Nat
    BY <1>1, EmailQueueAssumption DEF TypeOK, EmailQueueAssumption
  <2>2. One(Claimable(k)') \in Nat /\ One(Sender(x, k)) \in Nat /\ One(Claimable(k)) \in Nat
        /\ One(Sender(y, k)) \in Nat
    BY DEF One
  <2>3. mails'[k] + One(Sender(y, k)) + One(Claimable(k)') + unheard[k] + faults
        <= mails[k] + One(Sender(x, k)) + One(Claimable(k)) + unheard'[k] + faults'
    OBVIOUS
  <2> QED
    BY <2>1, <2>2, <2>3
<1> QED
  BY <1>2, <1>5, <1>6, <1>7, <1>8, <1>9 DEF IInv

(* A lease of which the holder goes on stays a lease.                      *)
LEMMA ClaimableTurn ==
    ASSUME TypeOK, NEW p \in Processes, NEW y, Turns(p, y), email' = email, NEW k,
           WorksOn(y, k) <=> WorksOn(process[p], k), WorksOn(y, k) => y.claim = process[p].claim
    PROVE  Claimable(k)' <=> Claimable(k)
<1>1. Leased(k)' <=> Leased(k)
  BY LeasedTurn
<1> QED
  BY <1>1 DEF Claimable

(* Before the first lost answer, fault and overrun lease.                  *)
LEMMA CalmTurn ==
    ASSUME TypeOK, CalmOK, NEW p \in Processes, NEW y, Turns(p, y), email' = email,
           overruns' = overruns, faults' = 0 => faults = 0,
           Works(y) => Works(process[p]) /\ RowOf(y) = RowOf(process[p]) /\ y.claim = process[p].claim,
           \A k \in Keys : unheard'[k] = 0 =>
              unheard[k] = 0 /\ (mails'[k] # mails[k] => WorksOn(y, k) /\ y.step = "sent"),
           faults' = 0 => process[p].step # "sent"
    PROVE  CalmOK'
<1>1. process'[p] = y /\ \A q \in Processes \ {p} : process'[q] = process[q]
  BY TurnsAre
<1> SUFFICES ASSUME NEW k \in Keys, unheard'[k] = 0, overruns[k] = 0, faults' = 0
             PROVE  /\ \A q \in Processes : WorksOn(process'[q], k) =>
                          /\ email[k].status = "SENDING" /\ email[k].next = process'[q].claim
                          /\ ~email[k].due
                    /\ mails'[k] > 0 => \/ email[k].status = "SENT"
                                        \/ \E q \in Processes : /\ WorksOn(process'[q], k)
                                                                /\ process'[q].step = "sent"
  BY DEF CalmOK
<1>2. /\ \A q \in Processes : WorksOn(process[q], k) =>
           email[k].status = "SENDING" /\ email[k].next = process[q].claim /\ ~email[k].due
      /\ mails[k] > 0 => \/ email[k].status = "SENT"
                         \/ \E q \in Processes : WorksOn(process[q], k) /\ process[q].step = "sent"
  BY DEF CalmOK
<1>3. \A q \in Processes : WorksOn(process'[q], k) =>
         WorksOn(process[q], k) /\ process'[q].claim = process[q].claim
  BY <1>1 DEF WorksOn
<1>4. mails'[k] > 0 => \/ email[k].status = "SENT"
                       \/ \E q \in Processes : WorksOn(process'[q], k) /\ process'[q].step = "sent"
  <2>1. CASE mails'[k] # mails[k]
    BY <1>1, <2>1
  <2>2. CASE mails'[k] = mails[k]
    BY <1>1, <1>2, <2>2
  <2> QED
    BY <2>1, <2>2
<1> QED
  BY <1>2, <1>3, <1>4

LEMMA SendKeeps ==
    ASSUME IInv, NEW p \in Processes, Send(p) PROVE IInv'
<1> DEFINE x == process[p]
<1>1. x.step = "send" /\ Works(x) /\ MaySend(x) /\ TypeOK /\ CalmOK
  BY DEF Send, At, Works, MaySend, IInv
<1>2. PICK k \in Keys : k = RowOf(x).key
  BY <1>1, WorkerShape
<1>3. x \in Runs
  BY <1>1, WorkerShape
<1>4. PICK step \in Outcome, mailed \in BOOLEAN :
         /\ Continue(p, step)
         /\ step = "sent" => mailed
         /\ mails' = IF mailed THEN [mails EXCEPT ![k] = @ + 1] ELSE mails
         /\ unheard' = IF mailed /\ step # "sent" THEN [unheard EXCEPT ![k] = @ + 1] ELSE unheard
  BY <1>2 DEF Send, row, RowOf, Outcome
<1>5. PICK y : /\ Turns(p, y) /\ y \in Runs /\ y.step = step /\ y.claim = x.claim
               /\ Works(y) /\ RowOf(y) = RowOf(x)
               /\ Coming(y) \subseteq Coming(x) /\ Seen(y) \subseteq Seen(x)
  BY <1>1, <1>3, <1>4, ContinueTurns
<1>6. UNCHANGED <<active, email, queue, smtp, overruns, faults>>
  BY DEF Send
<1>7. /\ mails \in [Keys -> Nat] /\ mails' \in [Keys -> Nat]
      /\ unheard \in [Keys -> Nat] /\ unheard' \in [Keys -> Nat]
      /\ \A j \in Keys : mails'[j] = mails[j] + One(j = k /\ mailed)
      /\ \A j \in Keys : unheard'[j] = unheard[j] + One(j = k /\ mailed /\ step # "sent")
  BY <1>1, <1>4 DEF TypeOK, One
<1>8. \A j \in Keys : WorksOn(x, j) <=> j = k
  BY <1>1, <1>2 DEF WorksOn
<1>9. \A j \in Keys : WorksOn(y, j) <=> j = k
  BY <1>2, <1>5 DEF WorksOn
<1>10. CalmOK'
  <2>1. \A j \in Keys : unheard'[j] = 0 =>
           unheard[j] = 0 /\ (mails'[j] # mails[j] => WorksOn(y, j) /\ y.step = "sent")
    BY <1>5, <1>7, <1>9 DEF One
  <2> QED
    BY <1>1, <1>5, <1>6, <2>1, CalmTurn
<1>11. ASSUME NEW j \in Keys
       PROVE  mails'[j] + One(Sender(y, j)) + One(Claimable(j)') + unheard[j] + faults
              <= mails[j] + One(Sender(x, j)) + One(Claimable(j)) + unheard'[j] + faults'
  <2>1. Claimable(j)' <=> Claimable(j)
    BY <1>1, <1>5, <1>6, <1>8, <1>9, ClaimableTurn
  <2>2. Sender(x, j) <=> j = k
    BY <1>1, <1>8 DEF Sender
  <2>3. Sender(y, j) <=> j = k /\ step # "sent"
    BY <1>5, <1>9 DEF Sender, MaySend, Outcome
  <2>4. One(Claimable(j)') = One(Claimable(j)) /\ One(Claimable(j)) \in Nat
    BY <2>1 DEF One
  <2>5. /\ One(Sender(y, j)) + One(j = k /\ mailed) <= One(Sender(x, j)) + One(j = k /\ mailed /\ step # "sent")
        /\ One(Sender(x, j)) \in Nat /\ One(Sender(y, j)) \in Nat
        /\ One(j = k /\ mailed) \in Nat /\ One(j = k /\ mailed /\ step # "sent") \in Nat
    BY <1>4, <2>2, <2>3 DEF One
  <2>6. mails[j] \in Nat /\ unheard[j] \in Nat /\ faults \in Nat
    BY <1>1, EmailQueueAssumption DEF TypeOK, EmailQueueAssumption
  <2> QED
    BY <1>6, <1>7, <2>4, <2>5, <2>6
<1>12. /\ faults' \in 0..MaxFaults
       /\ \A j \in Keys : mails[j] <= mails'[j]
       /\ Works(y) /\ y.step = "sent" => mails'[RowOf(y).key] > 0
  <2>1. faults' \in 0..MaxFaults
    BY <1>1, <1>6 DEF TypeOK
  <2>2. \A j \in Keys : mails[j] <= mails'[j]
    BY <1>7 DEF One
  <2>3. y.step = "sent" => mails'[k] > 0
    BY <1>4, <1>5, <1>7 DEF One
  <2> QED
    BY <1>2, <1>5, <2>1, <2>2, <2>3
<1> QED
  BY <1>1, <1>5, <1>6, <1>7, <1>10, <1>11, <1>12, QuietKeeps

(* A fault: whatever it does to one row is one copy more at most.          *)
LEMMA FaultKeeps ==
    ASSUME IInv, NEW p \in Processes, NEW y, Turns(p, y), Fault,
           Coming(y) \subseteq Coming(process[p]), Seen(y) \subseteq Seen(process[p]),
           Works(y) => Works(process[p]) /\ RowOf(y) = RowOf(process[p]) /\ y.claim = process[p].claim,
           y.step # "sent",
           ~Works(y) \/ ~MaySend(process[p]) \/ MaySend(y),
           UNCHANGED <<active, email, queue, smtp, mails, unheard, overruns>>
    PROVE  IInv'
<1> DEFINE x == process[p]
<1>1. TypeOK /\ CalmOK /\ faults \in Nat /\ faults' = faults + 1 /\ faults' \in 0..MaxFaults
  BY EmailQueueAssumption DEF IInv, TypeOK, Fault, EmailQueueAssumption
<1>2. CalmOK'
  <2>1. faults' # 0
    BY <1>1
  <2> QED
    BY <1>1, <2>1, CalmTurn
<1>3. ASSUME NEW k \in Keys
      PROVE  mails'[k] + One(Sender(y, k)) + One(Claimable(k)') + unheard[k] + faults
             <= mails[k] + One(Sender(x, k)) + One(Claimable(k)) + unheard'[k] + faults'
  <2>1. mails[k] \in Nat /\ unheard[k] \in Nat
    BY <1>1 DEF TypeOK
  <2>2. One(Sender(y, k)) + One(Claimable(k)') <= One(Sender(x, k)) + One(Claimable(k)) + 1
    <3>1. CASE WorksOn(y, k)
      <4>1. WorksOn(x, k)
        BY <3>1 DEF WorksOn
      <4>2. Claimable(k)' <=> Claimable(k)
        BY <1>1, <3>1, <4>1, ClaimableTurn DEF WorksOn
      <4> QED
        BY <4>2 DEF One
    <3>2. CASE ~WorksOn(y, k)
      BY <3>2 DEF One, Sender
    <3> QED
      BY <3>1, <3>2
  <2>3. One(Sender(y, k)) \in Nat /\ One(Claimable(k)') \in Nat /\ One(Sender(x, k)) \in Nat
        /\ One(Claimable(k)) \in Nat
    BY DEF One
  <2> QED
    BY <1>1, <2>1, <2>2, <2>3
<1>4. \A k \in Keys : mails[k] <= mails'[k]
  BY <1>1 DEF TypeOK
<1>5. mails' \in [Keys -> Nat] /\ unheard' \in [Keys -> Nat] /\ UNCHANGED <<active, email, queue, smtp, overruns>>
  BY <1>1 DEF TypeOK
<1> QED
  BY <1>1, <1>2, <1>3, <1>4, <1>5, QuietKeeps

LEMMA RecordFaultKeeps ==
    ASSUME IInv, NEW p \in Processes, RecordFault(p) PROVE IInv'
<1>1. TypeOK /\ Works(process[p]) /\ process[p].step \in {"sent", "not_configured"} /\ Continue(p, "failed") /\ Fault
  BY DEF IInv, RecordFault, Works, Outcome
<1>2. process[p] \in Runs /\ "failed" \in {"skip", "send"} \cup Outcome
  BY <1>1, WorkerShape DEF Outcome
<1>3. PICK y : /\ Turns(p, y) /\ y \in Runs /\ y.step = "failed" /\ y.claim = process[p].claim
               /\ Works(y) /\ RowOf(y) = RowOf(process[p])
               /\ Coming(y) \subseteq Coming(process[p]) /\ Seen(y) \subseteq Seen(process[p])
  BY <1>1, <1>2, ContinueTurns
<1>4. UNCHANGED <<active, email, queue, smtp, mails, unheard, overruns>> /\ MaySend(y) /\ y.step # "sent"
  BY <1>3 DEF RecordFault, MaySend
<1> QED
  BY <1>1, <1>3, <1>4, FaultKeeps

LEMMA RunFaultKeeps ==
    ASSUME IInv, NEW p \in Processes, RunFault(p) PROVE IInv'
<1>1. PICK y : y = Resting
  OBVIOUS
<1>2. Turns(p, y) /\ Fault /\ UNCHANGED <<active, email, queue, smtp, mails, unheard, overruns>>
  BY <1>1 DEF RunFault, Turns
<1>3. ~Works(y) /\ y.step # "sent" /\ Coming(y) = {} /\ Seen(y) = {}
  BY <1>1, RestingShape
<1> QED
  BY <1>2, <1>3, FaultKeeps

(* The row was written by another run since.                               *)
LEMMA PassKeeps ==
    ASSUME IInv, NEW p \in Processes, At(p, "claim"), NextRow(p),
           UNCHANGED <<active, email, queue, smtp, mails, unheard, overruns, faults>>
    PROVE  IInv'
<1> DEFINE x == process[p]
<1>1. TypeOK /\ CalmOK /\ x.step = "claim"
  BY DEF IInv, At
<1>2. ~Works(x) /\ x \in Runs
  BY <1>1, RunShape DEF Works, Outcome
<1>3. PICK y : /\ Turns(p, y) /\ ~Works(y) /\ ~MaySend(y)
               /\ Coming(y) \subseteq Coming(x) /\ Seen(y) \subseteq Seen(x)
  BY <1>1, <1>2, NextRowTurns
<1>4. CalmOK'
  BY <1>1, <1>3, CalmTurn
<1>5. ASSUME NEW k \in Keys
      PROVE  mails'[k] + One(Sender(y, k)) + One(Claimable(k)') + unheard[k] + faults
             <= mails[k] + One(Sender(x, k)) + One(Claimable(k)) + unheard'[k] + faults'
  <2>1. ~WorksOn(x, k) /\ ~WorksOn(y, k)
    BY <1>2, <1>3 DEF WorksOn
  <2>2. Claimable(k)' <=> Claimable(k)
    BY <1>1, <1>3, <2>1, ClaimableTurn
  <2>3. mails[k] \in Nat /\ unheard[k] \in Nat /\ faults \in Nat
    BY <1>1, EmailQueueAssumption DEF TypeOK, EmailQueueAssumption
  <2> QED
    BY <2>1, <2>2, <2>3 DEF One, Sender
<1>6. /\ \A k \in Keys : mails[k] <= mails'[k]
      /\ mails' \in [Keys -> Nat] /\ unheard' \in [Keys -> Nat] /\ faults' \in 0..MaxFaults
  BY <1>1 DEF TypeOK
<1> QED
  BY <1>1, <1>3, <1>4, <1>5, <1>6, QuietKeeps

(* The claim of a row that is as the run read it, hence claimable.         *)
LEMMA TakeKeeps ==
    ASSUME IInv, NEW p \in Processes, At(p, "claim"),
           NEW k \in Keys, k = RowOf(process[p]).key, Unchanged(RowOf(process[p])),
           NEW f, f = [status |-> "SENDING", attempts |-> email[k].attempts + 1,
                       next |-> email[k].attempts + 1, due |-> FALSE],
           email' = [email EXCEPT ![k] = f],
           NEW step \in {"send", "skip"},
           process' = [process EXCEPT ![p].step = step, ![p].claim = email[k].attempts + 1],
           UNCHANGED <<active, queue, smtp, mails, unheard, overruns, faults>>
    PROVE  IInv'
<1> DEFINE x == process[p]
<1>1. /\ TypeOK /\ RowsOK /\ BatchesOK /\ RetriesOK /\ ClaimsOK /\ CopiesOK /\ CalmOK
      /\ x.step = "claim"
  BY DEF IInv, At
<1>2. ~Works(x) /\ x \in Runs
  BY <1>1, RunShape DEF Works, Outcome
<1>3. PICK a \in Nat : a = email[k].attempts
  BY <1>1 DEF TypeOK, EmailRow
<1>4. PICK y : /\ Turns(p, y) /\ y \in Runs /\ y.step = step /\ y.claim = a + 1
               /\ Works(y) /\ RowOf(y) = RowOf(x)
               /\ Coming(y) \subseteq Coming(x) /\ Seen(y) \subseteq Seen(x)
  <2>1. PICK c \in Nat : c = a + 1
    OBVIOUS
  <2>2. PICK y : y = [process[p] EXCEPT !.step = step, !.claim = c]
    OBVIOUS
  <2>3. y \in Runs /\ y.step = step /\ y.claim = c /\ y.batch = process[p].batch
    BY <1>2, <2>2 DEF Runs
  <2>4. Turns(p, y)
    BY <1>3, <2>1, <2>2, <2>3 DEF Turns
  <2> QED
    BY <2>1, <2>3, <2>4, SameBatch
<1>5. f \in EmailRow /\ f.status = "SENDING" /\ f.attempts = a + 1 /\ f.next = a + 1 /\ f.due = FALSE
  BY <1>3 DEF EmailRow, EmailStatus, Waiting
<1> HIDE DEF x
<1>6. email'[k] = f /\ (\A j \in Keys \ {k} : email'[j] = email[j]) /\ email' \in [Keys -> EmailRow]
  BY <1>1, <1>5 DEF TypeOK
<1>7. process'[p] = y /\ \A q \in Processes \ {p} : process'[q] = process[q]
  BY <1>1, <1>4, TurnsAre
<1>8. TypeOK'
  BY <1>1, <1>4, <1>6, TypesTurn DEF TypeOK
<1>9. GoesOn(x, y) /\ Moves(p)
  <2>1. y.claim > email[RowOf(y).key].attempts
    BY <1>3, <1>4 DEF x
  <2> QED
    BY <1>1, <1>4, <2>1, RunMoves DEF GoesOn, x
<1>10. /\ RowOf(x) \in Coming(x) /\ RowOf(x) \in Snapshot
       /\ Fits(RowOf(x), email[k])
       /\ email[k].status = RowOf(x).status /\ email[k].next = RowOf(x).next
  <2>1. RowOf(x) \in Coming(x) /\ RowOf(x) \in Snapshot
    BY <1>1, <1>2, BatchShape DEF x
  <2> QED
    BY <1>1, <2>1 DEF BatchesOK, Unchanged, x
<1>11. /\ email[k].status \in Waiting \cup {"WAITING_CONFIG"}
       /\ email[k].status = "SENDING" => email[k].due
       /\ RowOf(x).attempts \in Nat /\ RowOf(x).attempts <= a
  BY <1>3, <1>10 DEF Fits, Waiting, Snapshot
<1>12. RowsOK'
  <2>1. NothingForgotten'
    BY <1>1, <1>5, <1>6 DEF RowsOK, NothingForgotten, Waiting, Null
  <2>2. SentWasMailed'
    BY <1>1, <1>5, <1>6 DEF RowsOK, SentWasMailed
  <2>3. FailedWasTried'
    BY <1>1, <1>5, <1>6 DEF RowsOK, FailedWasTried
  <2>4. \A j \in Keys : email'[j].status = "ABSENT" => email'[j].attempts = 0
    BY <1>1, <1>5, <1>6 DEF RowsOK
  <2> QED
    BY <2>1, <2>2, <2>3, <2>4 DEF RowsOK
<1>13. \A q \in Processes : \A r \in Seen(process[q]) : r \in Snapshot /\ r.key \in Keys
  BY <1>1, RunShape, BatchShape, RestingShape DEF Snapshot
<1>14. \A q \in Processes : Coming(process[q]) \subseteq Seen(process[q])
  BY DEF Coming, Seen
<1>15. BatchesOK'
  <2>1. ASSUME NEW q \in Processes, NEW r \in Coming(process[q]) PROVE Fits(r, email'[r.key])
    <3>1. Fits(r, email[r.key]) /\ r.key \in Keys /\ r \in Snapshot
      BY <1>1, <1>13, <1>14 DEF BatchesOK
    <3>2. CASE r.key = k
      <4>1. /\ r.status \in Waiting \cup {"WAITING_CONFIG"} /\ r.next <= a /\ r.attempts <= a
            /\ r.next \in Int /\ r.attempts \in Nat
        BY <1>3, <3>1, <3>2 DEF Fits, Snapshot, Null
      <4>2. r.next <= a + 1 /\ r.attempts <= a + 1 /\ r.next # a + 1
        BY <4>1
      <4>3. Fits(r, f)
        BY <1>5, <4>1, <4>2 DEF Fits
      <4> QED
        BY <1>6, <3>2, <4>3
    <3>3. CASE r.key # k
      BY <1>6, <3>1, <3>3
    <3> QED
      BY <3>2, <3>3
  <2>2. \A q \in Processes : \A r \in Seen(process[q]) :
           email[r.key].status # "ABSENT" => email'[r.key].status # "ABSENT"
    BY <1>5, <1>6, <1>13
  <2> QED
    BY <1>1, <1>9, <2>1, <2>2, BatchesKept
<1>16. RetriesOK'
  BY <1>1, <1>9, RetriesKept
<1>17. ClaimsOK'
  <2>1. \A j \in Keys : /\ email'[j].next <= email'[j].attempts
                        /\ email[j].attempts <= email'[j].attempts
                        /\ mails[j] <= mails'[j]
    <3> SUFFICES ASSUME NEW j \in Keys
                 PROVE  /\ email'[j].next <= email'[j].attempts
                        /\ email[j].attempts <= email'[j].attempts
                        /\ mails[j] <= mails'[j]
      OBVIOUS
    <3>1. email[j].attempts \in Nat /\ mails[j] \in Nat /\ email[j].next <= email[j].attempts
      BY <1>1 DEF TypeOK, EmailRow, ClaimsOK
    <3> QED
      BY <1>3, <1>5, <1>6, <3>1
  <2>2. ASSUME NEW q \in Processes \ {p}, Works(process[q]), email'[RowOf(process[q]).key].status = "RETRY"
        PROVE  email'[RowOf(process[q]).key].next # process[q].claim
    <3>1. PICK j \in Keys : j = RowOf(process[q]).key
      BY <1>1, <2>2, WorkerShape
    <3>2. j # k
      BY <1>5, <1>6, <2>2, <3>1
    <3> QED
      BY <1>1, <1>6, <2>2, <3>1, <3>2 DEF ClaimsOK, ClaimFits
  <2>3. ClaimFits(y, email'[RowOf(y).key]) /\ y.step # "sent"
    <3>1. RowOf(y).key = k
      BY <1>4 DEF x
    <3>2. RowOf(y).attempts < a + 1
      BY <1>4, <1>11
    <3> QED
      BY <1>4, <1>5, <1>6, <3>1, <3>2 DEF ClaimFits
  <2> QED
    BY <1>1, <1>7, <1>8, <1>9, <2>1, <2>2, <2>3, ClaimsKept
<1>18. \A j \in Keys : WorksOn(y, j) <=> j = k
  BY <1>4 DEF WorksOn, x
<1>19. CopiesOK'
  <2> SUFFICES ASSUME NEW j \in Keys
               PROVE  mails'[j] + One(Sender(y, j)) + One(Claimable(j)') + unheard[j] + overruns[j] + faults
                      <= mails[j] + One(Sender(process[p], j)) + One(Claimable(j)) + unheard'[j] + overruns'[j] + faults'
    BY <1>1, <1>4, <1>8, CopiesTurn
  <2>1. mails[j] \in Nat /\ unheard[j] \in Nat /\ overruns[j] \in Nat /\ faults \in Nat
    BY <1>1, EmailQueueAssumption DEF TypeOK, EmailQueueAssumption
  <2>2. One(Sender(process[p], j)) = 0
    BY <1>2 DEF Sender, WorksOn, One, x
  <2>3. One(Sender(y, j)) + One(Claimable(j)') <= One(Claimable(j))
    <3>1. CASE j = k
      <4>1. Claimable(k)
        BY <1>11 DEF Claimable, Waiting
      <4>2. Leased(k)'
        BY <1>4, <1>5, <1>6, <1>7, <1>18 DEF Leased
      <4>3. ~Claimable(k)'
        BY <1>5, <1>6, <4>2 DEF Claimable
      <4> QED
        BY <3>1, <4>1, <4>3 DEF One
    <3>2. CASE j # k
      <4>1. ~WorksOn(process[p], j) /\ ~WorksOn(y, j)
        BY <1>2, <1>18, <3>2 DEF WorksOn, x
      <4>2. Leased(j)' <=> Leased(j)
        BY <1>1, <1>4, <1>6, <3>2, <4>1, LeasedTurn
      <4>3. Claimable(j)' <=> Claimable(j)
        BY <1>6, <3>2, <4>2 DEF Claimable
      <4> QED
        BY <4>1, <4>3 DEF One, Sender
    <3> QED
      BY <3>1, <3>2
  <2>4. One(Claimable(j)') \in Nat /\ One(Sender(y, j)) \in Nat /\ One(Claimable(j)) \in Nat
    BY DEF One
  <2> QED
    BY <2>1, <2>2, <2>3, <2>4
<1>20. CalmOK'
  <2> SUFFICES ASSUME NEW j \in Keys, unheard[j] = 0, overruns[j] = 0, faults = 0
               PROVE  /\ \A q \in Processes : WorksOn(process'[q], j) =>
                            /\ email'[j].status = "SENDING" /\ email'[j].next = process'[q].claim
                            /\ ~email'[j].due
                      /\ mails[j] > 0 => \/ email'[j].status = "SENT"
                                         \/ \E q \in Processes : /\ WorksOn(process'[q], j)
                                                                 /\ process'[q].step = "sent"
    BY DEF CalmOK
  <2>1. /\ \A q \in Processes : WorksOn(process[q], j) =>
             email[j].status = "SENDING" /\ email[j].next = process[q].claim /\ ~email[j].due
        /\ mails[j] > 0 => \/ email[j].status = "SENT"
                           \/ \E q \in Processes : WorksOn(process[q], j) /\ process[q].step = "sent"
    BY <1>1 DEF CalmOK
  <2>2. CASE j = k
    <3>1. \A q \in Processes : ~WorksOn(process[q], k)
      BY <1>11, <2>1, <2>2
    <3>2. ~(mails[k] > 0)
      BY <1>11, <2>1, <2>2, <3>1 DEF Waiting
    <3>3. ASSUME NEW q \in Processes, WorksOn(process'[q], k) PROVE q = p
      BY <1>7, <3>1, <3>3
    <3>4. email'[k].status = "SENDING" /\ email'[k].next = process'[p].claim /\ ~email'[k].due
      BY <1>4, <1>5, <1>6, <1>7
    <3> QED
      BY <2>2, <3>2, <3>3, <3>4
  <2>3. CASE j # k
    <3>1. ~WorksOn(process[p], j) /\ ~WorksOn(y, j)
      BY <1>2, <1>18, <2>3 DEF WorksOn, x
    <3> QED
      BY <1>6, <1>7, <2>1, <2>3, <3>1
  <2> QED
    BY <2>2, <2>3
<1> QED
  BY <1>8, <1>12, <1>15, <1>16, <1>17, <1>19, <1>20 DEF IInv

LEMMA ClaimKeeps ==
    ASSUME IInv, NEW p \in Processes, Claim(p) PROVE IInv'
<1>1. TypeOK /\ process[p].step = "claim" /\ At(p, "claim") /\ row(p) = RowOf(process[p])
      /\ UNCHANGED <<active, queue, smtp, mails, unheard, overruns, faults>>
  BY DEF IInv, Claim, At, row, RowOf
<1>2. process[p] \in Runs
  BY <1>1, RunShape
<1>3. PICK k \in Keys : k = RowOf(process[p]).key
  BY <1>2, BatchShape
<1>4. CASE NextRow(p) /\ UNCHANGED email
  BY <1>1, <1>4, PassKeeps
<1>5. CASE ~(NextRow(p) /\ UNCHANGED email)
  <2>1. PICK f : f = [status |-> "SENDING", attempts |-> email[k].attempts + 1,
                      next |-> email[k].attempts + 1, due |-> FALSE]
    OBVIOUS
  <2>2. PICK step \in {"send", "skip"} : step = IF row(p).active THEN "send" ELSE "skip"
    OBVIOUS
  <2>3. /\ Unchanged(RowOf(process[p])) /\ email' = [email EXCEPT ![k] = f]
        /\ process' = [process EXCEPT ![p].step = step, ![p].claim = email[k].attempts + 1]
    BY <1>1, <1>3, <1>5, <2>1, <2>2 DEF Claim
  <2> QED
    BY <1>1, <1>3, <2>1, <2>3, TakeKeeps
<1> QED
  BY <1>4, <1>5

-----------------------------------------------------------------------------
(* A run reads due rows only.                                              *)
LEMMA PollTurns ==
    ASSUME TypeOK, NEW p \in Processes, Poll(p)
    PROVE  \E y : /\ Turns(p, y) /\ y \in Runs /\ ~Works(y) /\ Coming(y) = Seen(y)
                  /\ \A r \in Seen(y) : \E k \in Keys : Eligible(p, k) /\ r = Read(k)
<1>1. PICK order \in [1 .. Cardinality(Oldest(p)) -> Oldest(p)] :
         process' = [process EXCEPT ![p] =
            [step |-> "claim", batch |-> [i \in DOMAIN order |-> Read(queue[order[i]])], claim |-> 0]]
  BY DEF Poll
<1>2. \A n \in Oldest(p) : n \in DOMAIN queue /\ Eligible(p, queue[n])
  BY DEF Oldest
<1>3. PICK n : n = Cardinality(Oldest(p))
  OBVIOUS
<1>4. n \in Nat \ {0}
  <2>1. DOMAIN queue = 1..Len(queue) /\ Len(queue) \in Nat
    BY LenProperties DEF TypeOK
  <2>2. IsFiniteSet(1..Len(queue))
    BY <2>1, FS_Interval
  <2>3. Oldest(p) \subseteq 1..Len(queue)
    BY <1>2, <2>1
  <2>4. IsFiniteSet(Oldest(p)) /\ Oldest(p) # {}
    BY <2>2, <2>3, FS_Subset DEF Poll
  <2> QED
    BY <1>3, <2>4, FS_CardinalityType, FS_EmptySet
<1>5. \A i \in 1..n : order[i] \in DOMAIN queue /\ Eligible(p, queue[order[i]]) /\ queue[order[i]] \in Keys
  <2>1. \A m \in DOMAIN queue : queue[m] \in Keys
    BY ElementOfSeq DEF TypeOK
  <2> QED
    BY <1>2, <1>3, <2>1
<1>6. DOMAIN order = 1..n
  BY <1>3
<1>7. PICK batch : batch = [i \in 1..n |-> Read(queue[order[i]])]
  OBVIOUS
<1>8. \A k \in Keys : Read(k) \in Snapshot
  <2> SUFFICES ASSUME NEW k \in Keys PROVE Read(k) \in Snapshot
    OBVIOUS
  <2>1. email[k] \in EmailRow /\ active \in BOOLEAN
    BY DEF TypeOK
  <2> QED
    BY <2>1 DEF Read, Snapshot, EmailRow
<1>9. batch \in Seq(Snapshot) /\ batch # <<>> /\ DOMAIN batch = 1..n
  <2>1. batch \in [1..n -> Snapshot]
    BY <1>5, <1>7, <1>8
  <2>2. batch \in Seq(Snapshot) /\ Len(batch) = n
    BY <1>4, <2>1, SeqDef, LenProperties
  <2> QED
    BY <1>4, <2>1, <2>2, EmptySeq
<1>10. PICK y : y = [step |-> "claim", batch |-> batch, claim |-> 0]
  OBVIOUS
<1>11. y \in Runs /\ y.step = "claim" /\ y.batch = batch
  BY <1>9, <1>10 DEF Runs
<1>12. Turns(p, y)
  BY <1>1, <1>6, <1>7, <1>10, <1>11 DEF Turns
<1>13. ~Works(y) /\ Coming(y) = Seen(y)
  BY <1>11 DEF Works, Outcome, Coming, Seen
<1>14. \A r \in Seen(y) : \E k \in Keys : Eligible(p, k) /\ r = Read(k)
  BY <1>5, <1>7, <1>9, <1>11 DEF Seen
<1> QED
  BY <1>11, <1>12, <1>13, <1>14

LEMMA PollKeeps ==
    ASSUME IInv, NEW p \in Processes, Poll(p) PROVE IInv'
<1> DEFINE x == process[p]
<1>1. /\ TypeOK /\ RowsOK /\ BatchesOK /\ RetriesOK /\ ClaimsOK /\ CopiesOK /\ CalmOK
  BY DEF IInv
<1>2. UNCHANGED <<active, email, queue, smtp, mails, unheard, overruns, faults>> /\ x = Resting
  BY DEF Poll
<1>3. PICK y : /\ Turns(p, y) /\ y \in Runs /\ ~Works(y) /\ Coming(y) = Seen(y)
               /\ \A r \in Seen(y) : \E k \in Keys : Eligible(p, k) /\ r = Read(k)
  BY <1>1, PollTurns
<1>4. process'[p] = y /\ \A q \in Processes \ {p} : process'[q] = process[q]
  BY <1>1, <1>3, TurnsAre
<1>5. TypeOK'
  BY <1>1, <1>2, <1>3, TypesTurn DEF TypeOK
<1>6. RowsOK'
  BY <1>1, <1>2 DEF RowsOK, NothingForgotten, SentWasMailed, FailedWasTried
<1>7. ASSUME NEW r \in Seen(y)
      PROVE  /\ Fits(r, email[r.key]) /\ email[r.key].status # "ABSENT" /\ r.key \in Keys
             /\ r.status = email[r.key].status /\ r.next = email[r.key].next
  <2>1. PICK k \in Keys : Eligible(p, k) /\ r = Read(k)
    BY <1>3, <1>7
  <2>2. r.key = k /\ r.status = email[k].status /\ r.next = email[k].next /\ r.attempts = email[k].attempts
    BY <2>1 DEF Read
  <2>3. email[k].attempts \in Nat /\ email[k].next <= email[k].attempts
    BY <1>1 DEF TypeOK, EmailRow, ClaimsOK
  <2>4. \/ email[k].status \in Waiting /\ email[k].due
        \/ email[k].status = "WAITING_CONFIG"
    BY <2>1 DEF Eligible
  <2>5. email[k].status \in Waiting => email[k].due
    BY <2>4 DEF Waiting
  <2>6. Fits(r, email[k])
    BY <2>2, <2>3, <2>4, <2>5 DEF Fits
  <2>7. email[k].status # "ABSENT"
    BY <2>4 DEF Waiting
  <2> QED
    BY <2>2, <2>6, <2>7
<1>8. BatchesOK'
  <2> SUFFICES ASSUME NEW q \in Processes
               PROVE  /\ \A r \in Coming(process'[q]) : Fits(r, email[r.key])
                      /\ \A r \in Seen(process'[q]) : email[r.key].status # "ABSENT"
    BY <1>2 DEF BatchesOK
  <2> QED
    BY <1>1, <1>3, <1>4, <1>7 DEF BatchesOK
<1>9. RetriesOK'
  <2> SUFFICES ASSUME NEW q \in Processes, NEW u \in Processes, NEW r \in Coming(process'[q]),
                      WorksOn(process'[u], r.key), r.status = "RETRY"
               PROVE  r.next # process'[u].claim
    BY DEF RetriesOK
  <2>1. u # p /\ process'[u] = process[u]
    BY <1>3, <1>4 DEF WorksOn
  <2>2. CASE q = p
    <3>1. r.status = email[r.key].status /\ r.next = email[r.key].next
      BY <1>3, <1>4, <1>7, <2>2
    <3> QED
      BY <1>1, <2>1, <3>1 DEF ClaimsOK, ClaimFits, WorksOn
  <2>3. CASE q # p
    BY <1>1, <1>4, <2>1, <2>3 DEF RetriesOK
  <2> QED
    BY <2>2, <2>3
<1>10. \A q \in Processes : Works(process'[q]) => process'[q] = process[q]
  BY <1>3, <1>4
<1>11. ClaimsOK'
  <2>1. \A q \in Processes : Works(process'[q]) =>
           /\ ClaimFits(process'[q], email[RowOf(process'[q]).key])
           /\ process'[q].step = "sent" => mails[RowOf(process'[q]).key] > 0
    BY <1>1, <1>10 DEF ClaimsOK
  <2>2. \A q, u \in Processes :
           q # u /\ Works(process'[q]) /\ WorksOn(process'[u], RowOf(process'[q]).key)
           => process'[q].claim # process'[u].claim
    BY <1>1, <1>10 DEF ClaimsOK, WorksOn
  <2> QED
    BY <1>1, <1>2, <2>1, <2>2 DEF ClaimsOK
<1>12. ~Works(x)
  BY <1>2, RestingShape
<1>13. CopiesOK'
  <2> SUFFICES ASSUME NEW k \in Keys
               PROVE  mails'[k] + One(Sender(y, k)) + One(Claimable(k)') + unheard[k] + overruns[k] + faults
                      <= mails[k] + One(Sender(process[p], k)) + One(Claimable(k)) + unheard'[k] + overruns'[k] + faults'
    BY <1>1, <1>3, <1>5, CopiesTurn
  <2>1. ~WorksOn(y, k) /\ ~WorksOn(process[p], k)
    BY <1>3, <1>12 DEF WorksOn
  <2>2. Claimable(k)' <=> Claimable(k)
    BY <1>1, <1>2, <1>3, <2>1, ClaimableTurn
  <2>3. mails[k] \in Nat /\ unheard[k] \in Nat /\ overruns[k] \in Nat /\ faults \in Nat
    BY <1>1, EmailQueueAssumption DEF TypeOK, EmailQueueAssumption
  <2> QED
    BY <1>2, <2>1, <2>2, <2>3 DEF One, Sender
<1>14. CalmOK'
  <2>1. process[p].step # "sent"
    BY <1>2, RestingShape
  <2> QED
    BY <1>1, <1>2, <1>3, <2>1, CalmTurn
<1> QED
  BY <1>5, <1>6, <1>8, <1>9, <1>11, <1>13, <1>14 DEF IInv

-----------------------------------------------------------------------------
(* A new row, of which no run can know.                                    *)
LEMMA EnqueueKeeps ==
    ASSUME IInv, NEW k \in Keys, Enqueue(k) PROVE IInv'
<1>1. /\ TypeOK /\ RowsOK /\ BatchesOK /\ RetriesOK /\ ClaimsOK /\ CopiesOK /\ CalmOK
  BY DEF IInv
<1>2. /\ UNCHANGED <<active, process, smtp, mails, unheard, overruns, faults>>
      /\ email[k].status = "ABSENT" /\ email[k].attempts = 0
  BY <1>1 DEF Enqueue, RowsOK
<1>3. PICK f : f = [status |-> "PENDING", attempts |-> 0, next |-> 0, due |-> TRUE]
  OBVIOUS
<1>4. f \in EmailRow /\ f.status = "PENDING" /\ f.attempts = 0 /\ f.next = 0 /\ f.due = TRUE
  BY <1>3 DEF EmailRow, EmailStatus, Waiting
<1>5. email' = [email EXCEPT ![k] = f]
  BY <1>3 DEF Enqueue
<1>6. email'[k] = f /\ (\A j \in Keys \ {k} : email'[j] = email[j]) /\ email' \in [Keys -> EmailRow]
  BY <1>1, <1>4, <1>5 DEF TypeOK
<1>7. TypeOK'
  <2>1. queue' \in Seq(Keys)
    BY <1>1, AppendProperties DEF TypeOK, Enqueue
  <2> QED
    BY <1>1, <1>2, <1>6, <2>1 DEF TypeOK
<1>8. RowsOK'
  <2>1. NothingForgotten'
    BY <1>1, <1>4, <1>6 DEF RowsOK, NothingForgotten, Waiting, Null
  <2>2. SentWasMailed'
    BY <1>1, <1>2, <1>4, <1>6 DEF RowsOK, SentWasMailed
  <2>3. FailedWasTried'
    BY <1>1, <1>4, <1>6 DEF RowsOK, FailedWasTried
  <2>4. \A j \in Keys : email'[j].status = "ABSENT" => email'[j].attempts = 0
    BY <1>1, <1>4, <1>6 DEF RowsOK
  <2> QED
    BY <2>1, <2>2, <2>3, <2>4 DEF RowsOK
<1>9. \A q \in Processes : \A r \in Seen(process[q]) : r.key \in Keys \ {k} /\ email'[r.key] = email[r.key]
  <2>1. \A q \in Processes : \A r \in Seen(process[q]) : r.key \in Keys
    BY <1>1, RunShape, BatchShape, RestingShape DEF Snapshot
  <2> QED
    BY <1>1, <1>2, <1>6, <2>1 DEF BatchesOK
<1>10. \A q \in Processes : Coming(process[q]) \subseteq Seen(process[q])
  BY DEF Coming, Seen
<1>11. BatchesOK'
  BY <1>1, <1>2, <1>9, <1>10 DEF BatchesOK
<1>12. RetriesOK'
  BY <1>1, <1>2 DEF RetriesOK
<1>13. \A q \in Processes : Works(process[q]) => RowOf(process[q]) \in Seen(process[q])
  BY <1>1, WorkerShape
<1>14. ClaimsOK'
  <2>1. \A j \in Keys : email'[j].next <= email'[j].attempts
    BY <1>1, <1>4, <1>6 DEF ClaimsOK
  <2>2. \A q \in Processes : Works(process[q]) =>
           /\ ClaimFits(process[q], email'[RowOf(process[q]).key])
           /\ process[q].step = "sent" => mails[RowOf(process[q]).key] > 0
    BY <1>1, <1>9, <1>13 DEF ClaimsOK
  <2> QED
    BY <1>1, <1>2, <2>1, <2>2 DEF ClaimsOK
<1>15. \A q \in Processes : ~WorksOn(process[q], k)
  BY <1>9, <1>13 DEF WorksOn
<1>16. CopiesOK'
  <2>1. ASSUME NEW j \in Keys
        PROVE  One(Claimable(j)') + overruns[j] <= One(Claimable(j)) + overruns'[j]
    <3>1. overruns[j] \in Nat /\ overruns'[j] = overruns[j]
      BY <1>1, <1>2, EmailQueueAssumption DEF TypeOK, EmailQueueAssumption
    <3>2. CASE j = k
      <4>1. Claimable(k)
        BY <1>2 DEF Claimable
      <4> QED
        BY <3>1, <3>2, <4>1 DEF One
    <3>3. CASE j # k
      <4>1. Claimable(j)' <=> Claimable(j)
        BY <1>2, <1>6, <3>3 DEF Claimable, Leased
      <4> QED
        BY <3>1, <4>1 DEF One
    <3> QED
      BY <3>2, <3>3
  <2> QED
    BY <1>1, <1>2, <1>7, <2>1, CopiesSame
<1>17. CalmOK'
  BY <1>1, <1>2, <1>4, <1>6, <1>15 DEF CalmOK
<1> QED
  BY <1>7, <1>8, <1>11, <1>12, <1>14, <1>16, <1>17 DEF IInv

(* A moment comes; if it ends a lease that is held, it is counted.         *)
LEMMA TimePassesKeeps ==
    ASSUME IInv, NEW k \in Keys, TimePasses(k) PROVE IInv'
<1>1. /\ TypeOK /\ RowsOK /\ BatchesOK /\ RetriesOK /\ ClaimsOK /\ CopiesOK /\ CalmOK
  BY DEF IInv
<1>2. UNCHANGED <<active, queue, process, smtp, mails, unheard, faults>> /\ ~email[k].due
  BY DEF TimePasses
<1>3. PICK f : f = [email[k] EXCEPT !.due = TRUE]
  OBVIOUS
<1>4. /\ f \in EmailRow /\ f.status = email[k].status /\ f.attempts = email[k].attempts
      /\ f.next = email[k].next /\ f.due = TRUE
  BY <1>1, <1>3 DEF TypeOK, EmailRow
<1>5. email' = [email EXCEPT ![k] = f]
  BY <1>3 DEF TimePasses
<1>6. email'[k] = f /\ (\A j \in Keys \ {k} : email'[j] = email[j]) /\ email' \in [Keys -> EmailRow]
  BY <1>1, <1>4, <1>5 DEF TypeOK
<1>7. \A j \in Keys : /\ email'[j].status = email[j].status /\ email'[j].attempts = email[j].attempts
                      /\ email'[j].next = email[j].next
  BY <1>4, <1>6
<1>8. Held(k) <=> email[k].status = "SENDING" /\ Leased(k)
  BY DEF Held, Leased, WorksOn, Works, RowOf, row
<1>9. /\ overruns' \in [Keys -> 0..MaxOverruns]
      /\ \A j \in Keys : overruns'[j] = overruns[j] + One(j = k /\ Held(k))
  <2>1. overruns \in [Keys -> 0..MaxOverruns] /\ MaxOverruns \in Nat
    BY <1>1, EmailQueueAssumption DEF TypeOK, EmailQueueAssumption
  <2>2. CASE ~Held(k)
    BY <2>1, <2>2 DEF TimePasses, One
  <2>3. CASE Held(k)
    BY <2>1, <2>3 DEF TimePasses, One
  <2> QED
    BY <2>2, <2>3
<1>10. TypeOK'
  BY <1>1, <1>2, <1>6, <1>9 DEF TypeOK
<1>11. RowsOK'
  BY <1>1, <1>2, <1>7 DEF RowsOK, NothingForgotten, SentWasMailed, FailedWasTried
<1>12. BatchesOK'
  <2>1. \A q \in Processes : \A r \in Seen(process[q]) : r.key \in Keys
    BY <1>1, RunShape, BatchShape, RestingShape DEF Snapshot
  <2>2. \A q \in Processes : Coming(process[q]) \subseteq Seen(process[q])
    BY DEF Coming, Seen
  <2>3. ASSUME NEW q \in Processes, NEW r \in Coming(process[q]) PROVE Fits(r, email'[r.key])
    <3>1. Fits(r, email[r.key]) /\ r.key \in Keys
      BY <1>1, <2>1, <2>2 DEF BatchesOK
    <3>2. email'[r.key].due \/ email'[r.key] = email[r.key]
      BY <1>4, <1>6, <3>1
    <3> QED
      BY <1>7, <3>1, <3>2 DEF Fits
  <2> QED
    BY <1>1, <1>2, <1>7, <2>1, <2>3 DEF BatchesOK
<1>13. RetriesOK'
  BY <1>1, <1>2 DEF RetriesOK
<1>14. ClaimsOK'
  <2>1. \A q \in Processes : Works(process[q]) => ClaimFits(process[q], email'[RowOf(process[q]).key])
    BY <1>1, <1>7, WorkerShape DEF ClaimsOK, ClaimFits
  <2> QED
    BY <1>1, <1>2, <1>7, <2>1 DEF ClaimsOK
<1>15. CopiesOK'
  <2>1. ASSUME NEW j \in Keys
        PROVE  One(Claimable(j)') + overruns[j] <= One(Claimable(j)) + overruns'[j]
    <3>1. overruns[j] \in Nat /\ overruns'[j] = overruns[j] + One(j = k /\ Held(k))
      BY <1>1, <1>9, EmailQueueAssumption DEF TypeOK, EmailQueueAssumption
    <3>2. Leased(j)' <=> Leased(j)
      BY <1>2, <1>7 DEF Leased
    <3>3. CASE j = k /\ ~Held(k)
      <4>1. Claimable(k)' => Claimable(k)
        BY <1>7, <1>8, <3>3 DEF Claimable
      <4> QED
        BY <3>1, <3>3, <4>1 DEF One
    <3>4. CASE j = k /\ Held(k)
      BY <3>1, <3>4 DEF One
    <3>5. CASE j # k
      <4>1. Claimable(j)' <=> Claimable(j)
        BY <1>6, <3>2, <3>5 DEF Claimable
      <4> QED
        BY <3>1, <3>5, <4>1 DEF One
    <3> QED
      BY <3>3, <3>4, <3>5
  <2> QED
    BY <1>1, <1>2, <1>10, <2>1, CopiesSame
<1>16. CalmOK'
  <2> SUFFICES ASSUME NEW j \in Keys, unheard[j] = 0, overruns'[j] = 0, faults = 0
               PROVE  /\ \A q \in Processes : WorksOn(process[q], j) =>
                            email'[j].status = "SENDING" /\ email'[j].next = process[q].claim /\ ~email'[j].due
                      /\ mails[j] > 0 => \/ email'[j].status = "SENT"
                                         \/ \E q \in Processes : /\ WorksOn(process[q], j)
                                                                 /\ process[q].step = "sent"
    BY <1>2 DEF CalmOK
  <2>1. overruns[j] = 0 /\ ~(j = k /\ Held(k))
    <3>1. overruns[j] \in Nat /\ overruns'[j] = overruns[j] + One(j = k /\ Held(k))
      BY <1>1, <1>9, EmailQueueAssumption DEF TypeOK, EmailQueueAssumption
    <3> QED
      BY <3>1 DEF One
  <2>2. /\ \A q \in Processes : WorksOn(process[q], j) =>
             email[j].status = "SENDING" /\ email[j].next = process[q].claim /\ ~email[j].due
        /\ mails[j] > 0 => \/ email[j].status = "SENT"
                           \/ \E q \in Processes : WorksOn(process[q], j) /\ process[q].step = "sent"
    BY <1>1, <2>1 DEF CalmOK
  <2>3. CASE j = k
    <3>1. \A q \in Processes : ~WorksOn(process[q], k)
      BY <1>8, <2>1, <2>2, <2>3 DEF Leased
    <3> QED
      BY <1>7, <2>2, <2>3, <3>1
  <2>4. CASE j # k
    BY <1>6, <2>2, <2>4
  <2> QED
    BY <2>3, <2>4
<1> QED
  BY <1>10, <1>11, <1>12, <1>13, <1>14, <1>15, <1>16 DEF IInv

(* Steps that concern neither the rows nor the runs.                       *)
LEMMA OthersKeep ==
    ASSUME IInv, active' \in BOOLEAN, smtp' \in [Processes -> BOOLEAN],
           UNCHANGED <<email, queue, process, mails, unheard, overruns, faults>>
    PROVE  IInv'
<1>1. TypeOK'
  BY DEF IInv, TypeOK
<1>2. RowsOK'
  BY DEF IInv, RowsOK, NothingForgotten, SentWasMailed, FailedWasTried
<1>3. BatchesOK'
  BY DEF IInv, BatchesOK
<1>4. RetriesOK'
  BY DEF IInv, RetriesOK
<1>5. ClaimsOK'
  BY DEF IInv, ClaimsOK
<1>6. CopiesOK'
  <2>1. \A k \in Keys : (Claimable(k)' <=> Claimable(k)) /\ Senders(k)' = Senders(k)
    BY DEF Claimable, Leased, Senders
  <2> QED
    BY <2>1 DEF IInv, CopiesOK, MayStillMail
<1>7. CalmOK'
  BY DEF IInv, CalmOK
<1> QED
  BY <1>1, <1>2, <1>3, <1>4, <1>5, <1>6, <1>7 DEF IInv

LEMMA QueueStepKeeps ==
    ASSUME IInv, QueueNext PROVE IInv'
<1>0. TypeOK
  BY DEF IInv
<1>1. CASE updateUser
  BY <1>0, <1>1, OthersKeep DEF updateUser, TypeOK
<1>2. ASSUME NEW p \in Processes, Run(p) \/ RecordFault(p) \/ RunFault(p) \/ Configure(p) PROVE IInv'
  <2>1. CASE Poll(p)
    BY <2>1, PollKeeps
  <2>2. CASE Claim(p)
    BY <2>2, ClaimKeeps
  <2>3. CASE Skip(p)
    BY <2>3, SkipKeeps
  <2>4. CASE Send(p)
    BY <2>4, SendKeeps
  <2>5. CASE Record(p)
    BY <2>5, RecordKeeps
  <2>6. CASE RecordFault(p)
    BY <2>6, RecordFaultKeeps
  <2>7. CASE RunFault(p)
    BY <2>7, RunFaultKeeps
  <2>8. CASE Configure(p)
    <3>1. smtp' \in [Processes -> BOOLEAN] /\ active' \in BOOLEAN
      BY <1>0, <2>8 DEF Configure, TypeOK
    <3> QED
      BY <2>8, <3>1, OthersKeep DEF Configure
  <2> QED
    BY <1>2, <2>1, <2>2, <2>3, <2>4, <2>5, <2>6, <2>7, <2>8 DEF Run
<1>3. ASSUME NEW k \in Keys, TimePasses(k) PROVE IInv'
  BY <1>3, TimePassesKeeps
<1> QED
  BY <1>1, <1>2, <1>3 DEF QueueNext

LEMMA UnchangedKeeps ==
    ASSUME IInv, UNCHANGED vars PROVE IInv'
<1>1. active' \in BOOLEAN /\ smtp' \in [Processes -> BOOLEAN]
  BY DEF vars, IInv, TypeOK
<1> QED
  BY <1>1, OthersKeep DEF vars

LEMMA QueueStarts ==
    ASSUME Init PROVE IInv
<1>1. \A p \in Processes : process[p] = Resting
  BY DEF Init
<1>2. \A p \in Processes : /\ ~Works(process[p]) /\ ~MaySend(process[p])
                           /\ Coming(process[p]) = {} /\ Seen(process[p]) = {}
  BY <1>1, RestingShape
<1>3. \A k \in Keys : /\ email[k] = NoEmail /\ mails[k] = 0 /\ unheard[k] = 0 /\ overruns[k] = 0
                      /\ email[k] \in EmailRow
  BY DEF Init, NoEmail, EmailRow, EmailStatus
<1>4. \A k \in Keys : email[k].status = "ABSENT" /\ email[k].attempts = 0 /\ email[k].next = Null
  BY <1>3 DEF NoEmail
<1>5. TypeOK
  <2>1. queue \in Seq(Keys)
    BY EmptySeq DEF Init
  <2>2. email \in [Keys -> EmailRow] /\ mails \in [Keys -> Nat] /\ unheard \in [Keys -> Nat]
        /\ overruns \in [Keys -> 0..MaxOverruns]
        /\ faults \in 0..MaxFaults
    BY <1>3, EmailQueueAssumption DEF Init, EmailQueueAssumption
  <2> QED
    BY <2>1, <2>2 DEF Init, TypeOK
<1>6. RowsOK
  BY <1>4 DEF RowsOK, NothingForgotten, SentWasMailed, FailedWasTried, Waiting
<1>7. BatchesOK /\ RetriesOK
  BY <1>2 DEF BatchesOK, RetriesOK
<1>8. ClaimsOK
  BY <1>2, <1>4 DEF ClaimsOK, Null
<1>9. CopiesOK
  <2>1. \A k \in Keys : Senders(k) = {} /\ Claimable(k)
    BY <1>2, <1>4 DEF Senders, Claimable
  <2>2. \A k \in Keys : MayStillMail(k) = 1
    BY <2>1, FS_EmptySet DEF MayStillMail
  <2>3. faults = 0
    BY DEF Init
  <2> QED
    BY <1>3, <2>2, <2>3 DEF CopiesOK
<1>10. CalmOK
  BY <1>2, <1>3 DEF CalmOK, WorksOn
<1> QED
  BY <1>5, <1>6, <1>7, <1>8, <1>9, <1>10 DEF IInv

(* The invariant of the queue holds, whatever rows are emitted and however *)
(* polls, claims, results, faults and overrun leases of any number of      *)
(* processes interleave (processPendingNotificationEmails).                *)
THEOREM QueueInvariance == Spec => []IInv
<1>1. Init => IInv
  BY QueueStarts
<1>2. IInv /\ [Next]_vars => IInv'
  <2>1. IInv /\ QueueNext => IInv'
    BY QueueStepKeeps
  <2>2. ASSUME IInv, NEW k \in Keys, Enqueue(k) PROVE IInv'
    BY <2>2, EnqueueKeeps
  <2>3. IInv /\ UNCHANGED vars => IInv'
    BY UnchangedKeeps
  <2> QED
    BY <2>1, <2>2, <2>3 DEF Next
<1> QED
  BY <1>1, <1>2, PTL DEF Spec

LEMMA RowsFollow ==
    ASSUME IInv PROVE RowsExplained
<1>1. /\ TypeOK /\ CopiesOK /\ CalmOK
      /\ NothingForgotten /\ SentWasMailed /\ FailedWasTried
  BY DEF IInv, RowsOK
<1>2. \A k \in Keys : mails[k] \in Nat /\ unheard[k] \in Nat /\ overruns[k] \in Nat /\ faults \in Nat
  BY <1>1, EmailQueueAssumption DEF TypeOK, EmailQueueAssumption
<1>3. DuplicatesExplained
  <2> SUFFICES ASSUME NEW k \in Keys PROVE mails[k] <= 1 + unheard[k] + overruns[k] + faults
    BY DEF DuplicatesExplained
  <2>1. MayStillMail(k) \in Nat
    BY SendersCount, EmailQueueAssumption DEF MayStillMail
  <2>2. mails[k] + MayStillMail(k) <= 1 + unheard[k] + overruns[k] + faults
    BY <1>1 DEF CopiesOK
  <2> QED
    BY <1>2, <2>1, <2>2
<1>4. MailedIsShown
  <2> SUFFICES ASSUME NEW k \in Keys, mails[k] > 0, ~(unheard[k] + overruns[k] + faults > 0)
               PROVE  email[k].status \in {"SENDING", "SENT"}
    BY DEF MailedIsShown
  <2>1. unheard[k] = 0 /\ overruns[k] = 0 /\ faults = 0
    BY <1>2
  <2> QED
    BY <1>1, <2>1 DEF CalmOK
<1> QED
  BY <1>1, <1>3, <1>4 DEF RowsExplained, MailExplained

(* The delivery rows can be relied on: one that is still to be sent has a  *)
(* moment at which it is looked at again, SENT was mailed, what was mailed *)
(* is shown and copies do not multiply but by a lost answer of the mail    *)
(* server, a fault or a lease that ran out, and FAILED was tried as often  *)
(* as the code promises (sendMail, processPendingNotificationEmails).      *)
THEOREM RowsAreExplained == Spec => []RowsExplained
<1>1. IInv => RowsExplained
  BY RowsFollow
<1> QED
  BY <1>1, QueueInvariance, PTL

-----------------------------------------------------------------------------
(* Notifications.                                                          *)
Calls == [step : {"write"}, key : Keys, inApp : BOOLEAN, email : BOOLEAN]
Asks(call) == call.inApp \/ call.email

Deliveries(k) == Cardinality({k} \cap inApp) + (IF email[k].status = "ABSENT" THEN 0 ELSE 1)

NoticesInv ==
    /\ IInv
    /\ pref \in Preference
    /\ emitter \in [Emitters -> {Quiet} \cup Calls]
    /\ \A e \in Emitters : emitter[e] # Quiet => Asks(emitter[e])
    /\ notices \in [Keys -> Nat]
    /\ inApp \subseteq Keys
    /\ NoticeHasDelivery

LEMMA InAppCount ==
    ASSUME NEW S, NEW k
    PROVE  Cardinality({k} \cap S) = IF k \in S THEN 1 ELSE 0
<1>1. CASE k \in S
  <2>1. {k} \cap S = {k}
    BY <1>1
  <2> QED
    BY <1>1, <2>1, FS_Singleton
<1>2. CASE k \notin S
  <2>1. {k} \cap S = {}
    BY <1>2
  <2> QED
    BY <1>2, <2>1, FS_EmptySet
<1> QED
  BY <1>1, <1>2

(* No step of the queue gives up a row.                                    *)
LEMMA RowsStay ==
    ASSUME TypeOK, QueueNext, NEW k \in Keys, email[k].status # "ABSENT"
    PROVE  email'[k].status # "ABSENT"
<1>1. CASE UNCHANGED email
  BY <1>1
<1>2. ASSUME NEW j, NEW f, f.status # "ABSENT", email' = [email EXCEPT ![j] = f]
      PROVE  email'[k].status # "ABSENT"
  BY <1>2 DEF TypeOK
<1> QED
  <2>1. ASSUME NEW p \in Processes, Run(p) \/ RecordFault(p) \/ RunFault(p) \/ Configure(p)
        PROVE  email'[k].status # "ABSENT"
    <3>1. CASE Claim(p)
      <4>1. PICK f : f = [status |-> "SENDING", attempts |-> email[row(p).key].attempts + 1,
                          next |-> email[row(p).key].attempts + 1, due |-> FALSE]
        OBVIOUS
      <4>2. UNCHANGED email \/ email' = [email EXCEPT ![row(p).key] = f]
        BY <3>1, <4>1 DEF Claim
      <4>3. f.status # "ABSENT"
        BY <4>1
      <4> QED
        BY <1>1, <1>2, <4>2, <4>3
    <3>2. CASE Skip(p)
      BY <3>2 DEF Skip, Settle, TypeOK, EmailRow
    <3>3. CASE Record(p)
      <4>1. PICK j : j = row(p).key
        OBVIOUS
      <4>2. PICK status, next : /\ status # "ABSENT"
                                /\ email' = [email EXCEPT ![j].status = status, ![j].next = next,
                                                          ![j].due = FALSE]
        <5>1. CASE \E status \in {"SENT", "WAITING_CONFIG", "FAILED"} : Settle(j, status)
          BY <5>1 DEF Settle
        <5>2. CASE email' = [email EXCEPT ![j].status = "RETRY", ![j].next = process[p].claim, ![j].due = FALSE]
          BY <5>2
        <5> QED
          BY <3>3, <4>1, <5>1, <5>2 DEF Record
      <4> QED
        BY <4>2 DEF TypeOK, EmailRow
    <3>4. CASE UNCHANGED email
      BY <3>4
    <3> QED
      BY <2>1, <3>1, <3>2, <3>3, <3>4 DEF Run, Poll, Send, RecordFault, RunFault, Configure
  <2>2. ASSUME NEW j \in Keys, TimePasses(j) PROVE email'[k].status # "ABSENT"
    BY <2>2 DEF TimePasses, TypeOK, EmailRow
  <2> QED
    BY <1>1, <2>1, <2>2 DEF QueueNext, updateUser

LEMMA NoticesCount ==
    ASSUME NoticesInv, NEW k \in Keys
    PROVE  notices[k] \in Nat /\ Deliveries(k) \in Nat /\ notices[k] <= Deliveries(k)
           /\ Deliveries(k) = (IF k \in inApp THEN 1 ELSE 0) + (IF email[k].status = "ABSENT" THEN 0 ELSE 1)
<1>1. Cardinality({k} \cap inApp) = IF k \in inApp THEN 1 ELSE 0
  BY InAppCount
<1> QED
  BY <1>1 DEF NoticesInv, NoticeHasDelivery, Deliveries

LEMMA EmitReadKeeps ==
    ASSUME NoticesInv, NEW e \in Emitters, NEW k \in Keys, EmitRead(e, k)
    PROVE  NoticesInv'
<1>1. PICK call : call = [step |-> "write", key |-> k, inApp |-> pref.inApp, email |-> pref.email]
  OBVIOUS
<1>2. call \in Calls /\ Asks(call)
  BY <1>1 DEF NoticesInv, Preference, Calls, Asks, EmitRead
<1>3. emitter' = [emitter EXCEPT ![e] = call] /\ UNCHANGED <<vars, pref, notices, inApp>>
  BY <1>1 DEF EmitRead
<1>4. IInv'
  BY <1>3, UnchangedKeeps DEF NoticesInv
<1>5. emitter' \in [Emitters -> {Quiet} \cup Calls] /\ \A u \in Emitters : emitter'[u] # Quiet => Asks(emitter'[u])
  BY <1>2, <1>3 DEF NoticesInv
<1>6. NoticeHasDelivery'
  BY <1>3 DEF NoticesInv, NoticeHasDelivery, vars
<1> QED
  BY <1>3, <1>4, <1>5, <1>6 DEF NoticesInv

LEMMA EmitWriteKeeps ==
    ASSUME NoticesInv, NEW e \in Emitters, EmitWrite(e)
    PROVE  NoticesInv'
<1>1. PICK call : call = emitter[e]
  OBVIOUS
<1>2. call \in Calls /\ Asks(call)
  BY <1>1 DEF NoticesInv, EmitWrite, Quiet
<1>3. emitter' = [emitter EXCEPT ![e] = Quiet] /\ UNCHANGED pref
  BY DEF EmitWrite
<1>4. emitter' \in [Emitters -> {Quiet} \cup Calls] /\ \A u \in Emitters : emitter'[u] # Quiet => Asks(emitter'[u])
  BY <1>3 DEF NoticesInv
<1>5. CASE UNCHANGED <<vars, notices, inApp>>
  <2>1. IInv'
    BY <1>5, UnchangedKeeps DEF NoticesInv
  <2>2. NoticeHasDelivery'
    BY <1>5 DEF NoticesInv, NoticeHasDelivery, vars
  <2> QED
    BY <1>3, <1>4, <1>5, <2>1, <2>2 DEF NoticesInv
<1>6. CASE ~UNCHANGED <<vars, notices, inApp>>
  <2>1. PICK k \in Keys : k = call.key
    BY <1>2 DEF Calls
  <2>2. /\ ~Taken(call)
        /\ notices' = [notices EXCEPT ![k] = @ + 1]
        /\ inApp' = IF call.inApp THEN inApp \cup {k} ELSE inApp
        /\ IF call.email THEN Enqueue(k) ELSE UNCHANGED vars
    BY <1>1, <1>6, <2>1 DEF EmitWrite
  <2>3. IInv'
    BY <2>2, EnqueueKeeps, UnchangedKeeps DEF NoticesInv
  <2>4. inApp' \subseteq Keys /\ notices' \in [Keys -> Nat] /\ notices'[k] = notices[k] + 1
        /\ \A j \in Keys \ {k} : notices'[j] = notices[j]
    BY <2>2 DEF NoticesInv
  <2>5. /\ \A j \in Keys \ {k} : email'[j] = email[j]
        /\ email'[k].status = "ABSENT" <=> (email[k].status = "ABSENT" /\ ~call.email)
    <3>1. CASE call.email
      <4>1. email \in [Keys -> EmailRow] /\ Enqueue(k)
        BY <2>2, <3>1 DEF NoticesInv, IInv, TypeOK
      <4> QED
        BY <3>1, <4>1 DEF Enqueue
    <3>2. CASE ~call.email
      BY <2>2, <3>2 DEF vars
    <3> QED
      BY <3>1, <3>2
  <2>6. ASSUME NEW j \in Keys
        PROVE  notices'[j] <= Cardinality({j} \cap inApp') + (IF email'[j].status = "ABSENT" THEN 0 ELSE 1)
    <3>1. Cardinality({j} \cap inApp') = IF j \in inApp' THEN 1 ELSE 0
      BY InAppCount
    <3>2. notices[j] \in Nat /\ notices[j] <= (IF j \in inApp THEN 1 ELSE 0) + (IF email[j].status = "ABSENT" THEN 0 ELSE 1)
      BY NoticesCount
    <3>3. CASE j = k
      <4>1. /\ call.inApp => k \notin inApp
            /\ call.email => email[k].status = "ABSENT"
            /\ call.inApp \in BOOLEAN /\ call.email \in BOOLEAN
            /\ call.inApp \/ call.email
        BY <1>2, <2>1, <2>2 DEF Taken, Asks, Calls
      <4>2. k \in inApp' <=> call.inApp \/ k \in inApp
        BY <2>2, <4>1
      <4> QED
        BY <2>4, <2>5, <3>1, <3>2, <3>3, <4>1, <4>2
    <3>4. CASE j # k
      <4>1. j \in inApp' <=> j \in inApp
        BY <2>2, <3>4
      <4> QED
        BY <2>4, <2>5, <3>1, <3>2, <3>4, <4>1
    <3> QED
      BY <3>3, <3>4
  <2>7. NoticeHasDelivery'
    BY <2>6 DEF NoticeHasDelivery
  <2> QED
    BY <1>3, <1>4, <2>3, <2>4, <2>7 DEF NoticesInv
<1> QED
  BY <1>5, <1>6

LEMMA QueueKeepsNotices ==
    ASSUME NoticesInv, QueueNext, UNCHANGED emitVars
    PROVE  NoticesInv'
<1>1. IInv'
  BY QueueStepKeeps DEF NoticesInv
<1>2. UNCHANGED <<pref, emitter, notices, inApp>>
  BY DEF emitVars
<1>3. NoticeHasDelivery'
  <2> SUFFICES ASSUME NEW k \in Keys
               PROVE  notices[k] <= Cardinality({k} \cap inApp) + (IF email'[k].status = "ABSENT" THEN 0 ELSE 1)
    BY <1>2 DEF NoticeHasDelivery
  <2>1. Cardinality({k} \cap inApp) = IF k \in inApp THEN 1 ELSE 0
    BY InAppCount
  <2>2. /\ notices[k] \in Nat
        /\ notices[k] <= (IF k \in inApp THEN 1 ELSE 0) + (IF email[k].status = "ABSENT" THEN 0 ELSE 1)
    BY NoticesCount
  <2>3. email[k].status # "ABSENT" => email'[k].status # "ABSENT"
    BY RowsStay DEF NoticesInv, IInv
  <2> QED
    BY <2>1, <2>2, <2>3
<1> QED
  BY <1>1, <1>2, <1>3 DEF NoticesInv

(* The queue and the notifications together, whatever emitters, preference *)
(* changes and runs of the queue interleave (emitNotification).            *)
THEOREM NotificationsInvariance == NotificationsSpec => []NoticesInv
<1>1. NotificationsInit => NoticesInv
  <2> SUFFICES ASSUME NotificationsInit PROVE NoticesInv
    OBVIOUS
  <2>1. IInv /\ \A k \in Keys : email[k].status = "ABSENT"
    BY QueueStarts DEF NotificationsInit, Init, NoEmail
  <2>2. NoticeHasDelivery
    <3>1. \A k \in Keys : Cardinality({k} \cap inApp) = 0
      BY InAppCount DEF NotificationsInit
    <3> QED
      BY <2>1, <3>1 DEF NotificationsInit, NoticeHasDelivery
  <2> QED
    BY <2>1, <2>2 DEF NotificationsInit, NoticesInv, Preference
<1>2. NoticesInv /\ [NotificationsNext]_<<vars, emitVars>> => NoticesInv'
  <2> SUFFICES ASSUME NoticesInv, [NotificationsNext]_<<vars, emitVars>> PROVE NoticesInv'
    OBVIOUS
  <2>1. ASSUME NEW e \in Emitters, EmitWrite(e) PROVE NoticesInv'
    BY <2>1, EmitWriteKeeps
  <2>2. ASSUME NEW e \in Emitters, NEW k \in Keys, EmitRead(e, k) PROVE NoticesInv'
    BY <2>2, EmitReadKeeps
  <2>3. CASE setNotificationPreference
    <3>1. IInv'
      BY <2>3, UnchangedKeeps DEF NoticesInv, setNotificationPreference
    <3>2. NoticeHasDelivery'
      BY <2>3 DEF NoticesInv, NoticeHasDelivery, setNotificationPreference, vars
    <3> QED
      BY <2>3, <3>1, <3>2 DEF NoticesInv, setNotificationPreference
  <2>4. CASE QueueNext /\ UNCHANGED emitVars
    BY <2>4, QueueKeepsNotices
  <2>5. CASE UNCHANGED <<vars, emitVars>>
    <3>1. IInv'
      BY <2>5, UnchangedKeeps DEF NoticesInv
    <3>2. NoticeHasDelivery'
      BY <2>5 DEF NoticesInv, NoticeHasDelivery, emitVars, vars
    <3> QED
      BY <2>5, <3>1, <3>2 DEF NoticesInv, emitVars
  <2> QED
    BY <2>1, <2>2, <2>3, <2>4, <2>5 DEF NotificationsNext
<1> QED
  BY <1>1, <1>2, PTL DEF NotificationsSpec

(* A notification row has a delivery of its own on one of the channels:    *)
(* an event that is emitted again, by any number of callers at once, rolls *)
(* back whole (emitNotification).                                          *)
THEOREM NoticesAreDelivered == NotificationsSpec => []NoticeHasDelivery
<1>1. NoticesInv => NoticeHasDelivery
  BY DEF NoticesInv
<1> QED
  BY <1>1, NotificationsInvariance, PTL
=============================================================================
