------------------------------- MODULE Workforce -------------------------------
(***************************************************************************)
(* Human resources: employee records, which HR creates or the timesheets   *)
(* create on first use, the attendance of one day and leave requests.      *)
(* Each call reads a row, decides, and writes by id.  The database keeps   *)
(* one record for a user and one attendance row for an employee and a day, *)
(* so the second of two inserts fails.  Left out: the fields of a record,  *)
(* timesheets (any status over any other) and the audit.                   *)
(***************************************************************************)
EXTENDS Integers

CONSTANTS
    People,     \* users
    Clerks      \* calls in flight at once

ASSUME PeopleAssumption == People # {}

VARIABLES
    records,    \* users with an employee record
    day,        \* attendance of today: how often each time was written
    leave,      \* a leave request of each employee, and how often it was decided
    clerk,      \* where each call stands
    hasty       \* history: what was written over a write the call had not seen

workforceVars == <<records, day, leave, clerk, hasty>>

-----------------------------------------------------------------------------
Marks == 0 .. 2
NoDay == [in |-> 0, out |-> 0]
NoLeave == [status |-> "none", decisions |-> 0]
ClerkIdle == [step |-> "idle", who |-> CHOOSE p \in People : TRUE, seen |-> 0]

ClerkState == [step : {"idle", "hire", "checkIn", "checkOut", "request", "decide"}, who : People, seen : Marks]

WorkforceTypeOK ==
    /\ records \subseteq People
    /\ day \in [People -> [in : Marks, out : Marks]]
    /\ leave \in [People -> [status : {"none", "PENDING", "APPROVED", "REJECTED"}, decisions : Marks]]
    /\ clerk \in [Clerks -> ClerkState]
    /\ hasty \subseteq People \X {"checkOut", "decide"}

WorkforceInit ==
    /\ records = {}
    /\ day = [p \in People |-> NoDay]
    /\ leave = [p \in People |-> NoLeave]
    /\ clerk = [c \in Clerks |-> ClerkIdle]
    /\ hasty = {}

(* The call has read what it needs and will write; it has seen n writes.   *)
Finds(c, step, p, n) ==
    /\ clerk[c].step = "idle"
    /\ clerk' = [clerk EXCEPT ![c] = [step |-> step, who |-> p, seen |-> n]]
    /\ UNCHANGED <<records, day, leave, hasty>>

Done(c) == clerk' = [clerk EXCEPT ![c] = ClerkIdle]

(* What is written over a write that came after the call's read.           *)
Over(c, step, n) == IF clerk[c].seen = n THEN hasty ELSE hasty \cup {<<clerk[c].who, step>>}

(* -- createEmployee, ensureEmployee ------------------------------------- *)
FindUser(c) == \E p \in People \ records : Finds(c, "hire", p, 0)

InsertEmployee(c) ==
    /\ clerk[c].step = "hire"
    /\ records' = records \cup {clerk[c].who}
    /\ Done(c)
    /\ UNCHANGED <<day, leave, hasty>>

(* -- checkIn, checkOut --------------------------------------------------- *)
MayCheckOut(p) == day[p].in > 0 /\ day[p].out = 0

FindAttendance(c) == \E p \in records :
    \/ day[p].in = 0 /\ Finds(c, "checkIn", p, 0)
    \/ MayCheckOut(p) /\ day[p].out < 2 /\ Finds(c, "checkOut", p, day[p].out)

(* A second check-in of the day meets the unique row, and fails.           *)
CheckIn(c) ==
    /\ clerk[c].step = "checkIn"
    /\ day' = [day EXCEPT ![clerk[c].who].in = 1]
    /\ Done(c)
    /\ UNCHANGED <<records, leave, hasty>>

CheckOut(c) == LET p == clerk[c].who IN
    /\ clerk[c].step = "checkOut" /\ day[p].out < 2
    /\ day' = [day EXCEPT ![p].out = @ + 1]
    /\ hasty' = Over(c, "checkOut", day[p].out)
    /\ Done(c)
    /\ UNCHANGED <<records, leave>>

(* -- createLeaveRequest, updateLeaveRequest ------------------------------ *)
(* Mutant: a decided request can be decided again. *)
X_Undecided(p) == leave[p].status # "none"

Undecided(p) == leave[p].status = "PENDING"

FindLeave(c) == \E p \in records :
    \/ leave[p].status = "none" /\ Finds(c, "request", p, 0)
    \/ Undecided(p) /\ Finds(c, "decide", p, leave[p].decisions)

(* Bound: one request of each employee. *)
RequestLeave(c) == LET p == clerk[c].who IN
    /\ clerk[c].step = "request" /\ leave[p].status = "none"
    /\ leave' = [leave EXCEPT ![p] = [status |-> "PENDING", decisions |-> 0]]
    /\ Done(c)
    /\ UNCHANGED <<records, day, hasty>>

Decide(c) == LET p == clerk[c].who IN
    /\ clerk[c].step = "decide" /\ leave[p].decisions < 2
    /\ \E status \in {"APPROVED", "REJECTED"} :
          leave' = [leave EXCEPT ![p] = [status |-> status, decisions |-> @.decisions + 1]]
    /\ hasty' = Over(c, "decide", leave[p].decisions)
    /\ Done(c)
    /\ UNCHANGED <<records, day>>

ClerkAborts(c) ==
    /\ clerk[c].step # "idle"
    /\ Done(c)
    /\ UNCHANGED <<records, day, leave, hasty>>

WorkforceNext == \E c \in Clerks :
    \/ FindUser(c) \/ InsertEmployee(c) \/ FindAttendance(c) \/ CheckIn(c) \/ CheckOut(c)
    \/ FindLeave(c) \/ RequestLeave(c) \/ Decide(c) \/ ClerkAborts(c)

WorkforceSpec == WorkforceInit /\ [][WorkforceNext]_workforceVars

-----------------------------------------------------------------------------
(* A leave request is decided once and a day checked out of once, unless   *)
(* two calls had read the row before either wrote ("This request has       *)
(* already been decided", "You have already checked out").                 *)
DecidedOnce ==
    \A p \in People : /\ leave[p].decisions > 1 => <<p, "decide">> \in hasty
                      /\ day[p].out > 1 => <<p, "checkOut">> \in hasty

=============================================================================
