--------------------------- MODULE SlaEscalation ----------------------------
(***************************************************************************)
(* The timer that escalates missed service levels                          *)
(* (backend/src/services/sla-escalation.service.ts, started every fifteen  *)
(* minutes by server.ts).                                                  *)
(*                                                                         *)
(* A scan takes the oldest breached rows of each table, as many as fit in  *)
(* its window, and emits one notification per manager and missed deadline. *)
(* A notification's dedupe key names row, deadline and manager, so what a  *)
(* scan emits again is dropped: alerted is a set.  A row that was alerted  *)
(* stays in the window as long as it is breached.                          *)
(*                                                                         *)
(* Rows change as ServiceLevel says; deadlines pass at any moment, the     *)
(* response deadline of a row before its resolution deadline.              *)
(***************************************************************************)
EXTENDS ServiceLevel, Naturals, Sequences, FiniteSets

CONSTANTS
    Kinds,        \* the tables: bugs, maintenance requests
    Kind,         \* [Rows -> Kinds]
    Recipients,   \* the managers of the project
    Processes,    \* the API processes, each with its timer
    Window,       \* rows of one table that a scan takes (100 in the code)
    MaxFaults     \* bound: emissions that fail and processes that die

ASSUME SlaAssumption ==
    /\ Kind \in [Rows -> Kinds]
    /\ Window \in Nat \ {0}
    /\ MaxFaults \in Nat

VARIABLES
    filed,       \* the rows in the order of reportedAt, createdAt
    overdue,     \* the deadlines that have passed
    alerted,     \* the notifications there are, by row, deadline and manager
    scan,        \* [Processes -> the notifications its scan has still to emit]
    missed,      \* history: deadlines that passed, or stood passed, unmet on an open row
    faults

slaVars == <<row, filed, overdue, alerted, scan, missed, faults>>

Stage == {"response", "resolution"}
Alert == Rows \X Stage \X Recipients

(* Rows, deadlines and notifications are what they should be.              *)
SlaTypeOK ==
    /\ row \in [Rows -> Row \cup {NotFiled}]
    /\ filed \in Seq(Rows)
    /\ overdue \subseteq Rows \X Stage
    /\ missed \subseteq overdue
    /\ alerted \subseteq Alert
    /\ scan \in [Processes -> SUBSET Alert]
    /\ faults \in 0..MaxFaults

SlaInit ==
    /\ RowsInit
    /\ filed = <<>>
    /\ overdue = {} /\ alerted = {} /\ missed = {}
    /\ scan = [p \in Processes |-> {}]
    /\ faults = 0

-----------------------------------------------------------------------------
Met(r, stage) == IF stage = "response" THEN row[r].responded ELSE row[r].resolved
Breached(r, stage) == row[r].open /\ <<r, stage>> \in overdue /\ ~Met(r, stage)
BreachedRow(r) == \E stage \in Stage : Breached(r, stage)

(* The rows a scan selects: the oldest of each kind.                       *)
Selected(kind) ==
    LET breached == {i \in DOMAIN filed : Kind[filed[i]] = kind /\ BreachedRow(filed[i])}
    IN {filed[i] : i \in {i \in breached : Cardinality({j \in breached : j < i}) < Window}}
InWindow(r) == r \in Selected(Kind[r])

(* escalate: the deadlines of the selected rows that were missed.          *)
(* Mutant: deadlines that were met are told too.                           *)
X_EscalatesMet(r) == {stage \in Stage : <<r, stage>> \in overdue}
(* Mutant: the resolution is told only when the response was met.          *)
X_OneStage(r) ==
    IF <<r, "response">> \in overdue /\ ~Met(r, "response") THEN {"response"}
    ELSE {stage \in {"resolution"} : <<r, stage>> \in overdue /\ ~Met(r, stage)}
Escalated(r) == {stage \in Stage : <<r, stage>> \in overdue /\ ~Met(r, stage)}

Remember == missed' = missed \cup {d \in overdue' : Breached(d[1], d[2])'}

(* createBug, createMaintenance, and the next occurrence                   *)
File(r) ==
    /\ row[r] = NotFiled
    /\ row' = [row EXCEPT ![r] = New]
    /\ filed' = Append(filed, r)
    /\ UNCHANGED <<overdue, alerted, scan, missed, faults>>

(* updateBug, updateMaintenance                                            *)
Work(r) ==
    /\ row[r] # NotFiled
    /\ \E x \in MayBecome(r) \ {row[r]} : row' = [row EXCEPT ![r] = x]
    /\ UNCHANGED <<filed, overdue, alerted, scan, faults>>
    /\ Remember

DeadlinePasses(r, stage) ==
    /\ row[r] # NotFiled
    /\ stage = "resolution" => <<r, "response">> \in overdue
    /\ overdue' = overdue \cup {<<r, stage>>}
    /\ UNCHANGED <<row, filed, alerted, scan, faults>>
    /\ Remember

(* scanSlaBreaches, up to the first await of an emission                   *)
ScanRead(p) ==
    /\ scan[p] = {}
    /\ scan' = [scan EXCEPT ![p] = UNION {
          {r} \X Escalated(r) \X Recipients : r \in UNION {Selected(kind) : kind \in Kinds}}]
    /\ UNCHANGED <<row, filed, overdue, alerted, missed, faults>>

Emit(p) ==
    /\ \E a \in scan[p] :
          /\ alerted' = alerted \cup {a}
          /\ scan' = [scan EXCEPT ![p] = @ \ {a}]
    /\ UNCHANGED <<row, filed, overdue, missed, faults>>

(* emitNotification throws; the scan logs it and goes on.                  *)
EmitFails(p) ==
    /\ faults < MaxFaults
    /\ \E a \in scan[p] : scan' = [scan EXCEPT ![p] = @ \ {a}]
    /\ faults' = faults + 1
    /\ UNCHANGED <<row, filed, overdue, alerted, missed>>

Die(p) ==
    /\ faults < MaxFaults
    /\ scan[p] # {}
    /\ scan' = [scan EXCEPT ![p] = {}]
    /\ faults' = faults + 1
    /\ UNCHANGED <<row, filed, overdue, alerted, missed>>

SlaNext ==
    \/ \E r \in Rows : File(r) \/ Work(r) \/ \E stage \in Stage : DeadlinePasses(r, stage)
    \/ \E p \in Processes : ScanRead(p) \/ Emit(p) \/ EmitFails(p) \/ Die(p)

SlaFairness == \A p \in Processes : WF_slaVars(ScanRead(p)) /\ WF_slaVars(Emit(p))

SlaSpec == SlaInit /\ [][SlaNext]_slaVars /\ SlaFairness

-----------------------------------------------------------------------------
(* Managers are told of deadlines that were really missed: one that was    *)
(* met in time on a row that stayed as it was makes no alert, however long *)
(* a scan works from what it read (escalate).                              *)
AlertsTrue == \A a \in alerted : <<a[1], a[2]>> \in missed

(* A deadline that stays missed, on a row that stays in the window, is     *)
(* escalated to every manager, whatever fails on the way.  The second      *)
(* condition is needed: behind a window full of rows that stay breached a  *)
(* row is never seen (scanSlaBreaches takes the oldest, told or not).      *)
BreachIsTold ==
    \A a \in Alert :
        \/ []<>~(Breached(a[1], a[2]) /\ InWindow(a[1]))
        \/ <>(a \in alerted)
=============================================================================
