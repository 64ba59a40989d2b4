------------------------------ MODULE Milestones ------------------------------
(***************************************************************************)
(* Milestones of a project: created, updated by partial requests, deleted  *)
(* softly.  The date of completion follows the status: it is set on        *)
(* reaching COMPLETED and cleared on leaving it, judged by the status that *)
(* the call has read before its write.  The other fields are left out.     *)
(***************************************************************************)
CONSTANTS
    Milestone,  \* identifiers of milestones
    Desks       \* calls in flight at once

ASSUME MilestoneAssumption == Milestone # {}

VARIABLES
    milestones, \* the rows
    desk,       \* where each call stands
    mislaid     \* history: milestones written over a completion the call had not seen

milestonesVars == <<milestones, desk, mislaid>>

-----------------------------------------------------------------------------
Statuses == {"PENDING", "COMPLETED"}
NoRow == [is |-> "unused", status |-> "PENDING", completedAt |-> FALSE]
AtRest == [step |-> "idle", row |-> CHOOSE m \in Milestone : TRUE, wasCompleted |-> FALSE]

MilestoneRow == [is : {"unused", "there", "deleted"}, status : Statuses, completedAt : BOOLEAN]
DeskState == [step : {"idle", "write", "delete"}, row : Milestone, wasCompleted : BOOLEAN]

MilestonesTypeOK ==
    /\ milestones \in [Milestone -> MilestoneRow]
    /\ desk \in [Desks -> DeskState]
    /\ mislaid \subseteq Milestone

MilestonesInit ==
    /\ milestones = [m \in Milestone |-> NoRow]
    /\ desk = [d \in Desks |-> AtRest]
    /\ mislaid = {}

Completed(m) == milestones[m].status = "COMPLETED"
Rests(d) == desk' = [desk EXCEPT ![d] = AtRest]

createMilestone == \E m \in Milestone, status \in Statuses :
    /\ milestones[m].is = "unused"
    /\ milestones' = [milestones EXCEPT ![m] = [is |-> "there", status |-> status,
                                                completedAt |-> status = "COMPLETED"]]
    /\ UNCHANGED <<desk, mislaid>>

DeskReads(d, step) == \E m \in Milestone :
    /\ desk[d].step = "idle" /\ milestones[m].is = "there"
    /\ desk' = [desk EXCEPT ![d] = [step |-> step, row |-> m, wasCompleted |-> Completed(m)]]
    /\ UNCHANGED <<milestones, mislaid>>

(* Mutant: the date is not cleared when the milestone is reopened. *)
X_Stamp(status, was, old) == IF status = "COMPLETED" /\ ~was THEN TRUE ELSE old

(* completionStamp: a new date, no date, or the old one. *)
Stamp(status, was, old) == IF status = "COMPLETED" THEN ~was \/ old ELSE ~was /\ old

(* A request without a status writes neither it nor the date.              *)
UpdateMilestone(d) == LET m == desk[d].row IN
    /\ desk[d].step = "write"
    /\ \/ UNCHANGED <<milestones, mislaid>>
       \/ \E status \in Statuses :
             /\ milestones' = [milestones EXCEPT ![m].status = status,
                                                 ![m].completedAt = Stamp(status, desk[d].wasCompleted, @)]
             /\ mislaid' = IF Completed(m) = desk[d].wasCompleted THEN mislaid ELSE mislaid \cup {m}
    /\ Rests(d)

DeleteMilestone(d) ==
    /\ desk[d].step = "delete"
    /\ milestones' = [milestones EXCEPT ![desk[d].row].is = "deleted"]
    /\ Rests(d) /\ UNCHANGED mislaid

DeskAborts(d) == desk[d].step # "idle" /\ Rests(d) /\ UNCHANGED <<milestones, mislaid>>

MilestonesNext ==
    \/ createMilestone
    \/ \E d \in Desks : DeskReads(d, "write") \/ DeskReads(d, "delete") \/ UpdateMilestone(d) \/ DeleteMilestone(d)
                        \/ DeskAborts(d)

MilestonesSpec == MilestonesInit /\ [][MilestonesNext]_milestonesVars

-----------------------------------------------------------------------------
(* "completedAt tracks the COMPLETED status: set on reaching it, cleared   *)
(* on leaving", unless an update was written over a completion or a        *)
(* reopening it had not read (updateMilestone reads, then writes by id).   *)
CompletionTracked ==
    \A m \in Milestone : (milestones[m].completedAt = Completed(m)) \/ m \in mislaid

=============================================================================
