------------------------------- MODULE Tasks -------------------------------
(***************************************************************************)
(* Engineering tasks of one project: proposal, independent review, work,   *)
(* QA and completion (backend/src/services/engineering.service.ts and      *)
(* task.service.ts).                                                       *)
(*                                                                         *)
(* TaskGraph holds which tasks exist and the edges between them.           *)
(*                                                                         *)
(* A task row is written by two services.  As in Billing, an action is one *)
(* awaited call with the code up to the next await, and handler[w] holds   *)
(* what the code remembers of the row it read.  updateTask moves a         *)
(* reviewed task by compare-and-set on its status; every other write goes  *)
(* by id.                                                                  *)
(*                                                                         *)
(* A route asks for a permission before the service is called; the guards  *)
(* of a call name it first.                                                *)
(*                                                                         *)
(* Reads that only look up members, milestones, phases or parents decide   *)
(* nothing here and are not steps.  Comments, hours, progress reports,     *)
(* dates and attachments are left out.                                     *)
(***************************************************************************)
EXTENDS TaskGraph

CONSTANTS
    Proposals,    \* the tasks that go through createEngineeringTask
    PlainStatus,  \* the statuses the other tasks are given
    Users,
    Managers,     \* users with manage access to the project
    Members,      \* active members of the project
    Engineers,    \* of these, the ones with an engineering role
    QaEngineers,  \* of these, the members with role QA_ENGINEER
    Updaters,     \* accounts with the permission tasks.update
    Proposers,    \* with engineering.tasks.create
    Reviewers,    \* with engineering.tasks.review
    Nobody        \* a null user id

Status == {"BACKLOG", "TODO", "IN_PROGRESS", "BLOCKED", "IN_REVIEW", "TESTING", "DONE", "CANCELLED"}

ASSUME TasksAssumption ==
    /\ Proposals \subseteq Tasks
    /\ PlainStatus \subseteq Status
    /\ Managers \subseteq Users
    /\ Members \subseteq Users
    /\ Engineers \subseteq Members
    /\ QaEngineers \subseteq Engineers
    /\ Updaters \subseteq Users
    /\ Proposers \subseteq Users
    /\ Reviewers \subseteq Users
    /\ Nobody \notin Users

VARIABLES
    task,      \* [Tasks -> TaskRow]; NoTask where there is no row
    handler    \* [Workers -> the call in flight on a task, or Idle]

vars == <<graphVars, task, handler>>

Approval == {"DRAFT", "SUBMITTED", "UNDER_REVIEW", "CHANGES_REQUESTED", "APPROVED", "REJECTED"}
Decision == {"START_REVIEW", "APPROVE", "REQUEST_CHANGES", "REJECT"}
Keep == "keep"     \* the field is not in the request
User == Users \cup {Nobody}

(* checklist: no items, some item open, or all items complete.             *)
(* qa is qaVerifiedById, set and cleared together with qaVerifiedAt.       *)
TaskRow == [status : Status, approval : Approval, reviewRequired : BOOLEAN,
            reporter : User, assignee : User, reviewer : User, qa : User,
            checklist : {"none", "open", "complete"}]

NoTask == [status |-> "TODO", approval |-> "DRAFT", reviewRequired |-> TRUE,
           reporter |-> Nobody, assignee |-> Nobody, reviewer |-> Nobody, qa |-> Nobody,
           checklist |-> "none"]

(* The fields of a request.  Bounds: a request gives a status or an        *)
(* assignee; a task without review takes the statuses in PlainStatus.      *)
Update == [status : Status \cup {Keep}, assignee : User \cup {Keep}]
Requests(t) == {input \in Update :
    /\ (input.status = Keep) # (input.assignee = Keep)
    /\ t \in Proposals \/ input.status \in PlainStatus \cup {Keep}}

Idle == [step |-> "idle"]
Handler ==
    {Idle}
    \cup [step : {"prerequisites", "checklist", "move"}, task : Tasks,
          input : {input \in Update : input.status # Keep}, from : Status, verified : BOOLEAN]
    \cup [step : {"overwrite"}, task : Tasks, input : Update]
    \cup [step : {"submit", "addItem", "completeItem", "reopenItem"}, task : Tasks]
    \cup [step : {"review"}, task : Tasks, user : Users, decision : Decision]
    \cup [step : {"verifyQa"}, task : Tasks, user : Users]

(* Rows and calls in flight have the types of the schema and the code.     *)
TypeOK ==
    /\ GraphTypeOK
    /\ task \in [Tasks -> TaskRow]
    /\ handler \in [Workers -> Handler]

Init ==
    /\ GraphInit
    /\ task = [t \in Tasks |-> NoTask]
    /\ handler = [w \in Workers |-> Idle]

-----------------------------------------------------------------------------
Become(w, h) == handler' = [handler EXCEPT ![w] = h]
Finish(w) == Become(w, Idle)
At(w, step) == handler[w].step = step
Free(w) == At(w, "idle") /\ adding[w] = NoEdge

(* visibleTask                                                             *)
Visible(u, t) ==
    /\ Live(t)
    /\ \/ u \in Managers
       \/ u \in Members /\ (task[t].approval = "APPROVED" \/ u \in {task[t].reporter, task[t].assignee})

(* createTask, by a manager: no review, any initial status.                *)
createTask(t, status, assignee) ==
    /\ t \notin Proposals
    /\ assignee \in Members \cup {Nobody}
    /\ Insert(t, {})
    /\ task' = [task EXCEPT ![t] = [NoTask EXCEPT
          !.status = status, !.approval = "APPROVED", !.reviewRequired = FALSE, !.assignee = assignee]]
    /\ UNCHANGED handler

(* createEngineeringTask: a proposal, possibly with a checklist and with   *)
(* prerequisites.                                                          *)
createEngineeringTask(t, u, assignee, items, prerequisites) ==
    /\ t \in Proposals
    /\ u \in Proposers \cap Engineers
    /\ assignee \in Engineers
    /\ Insert(t, prerequisites)
    /\ task' = [task EXCEPT ![t] = [NoTask EXCEPT
          !.status = "TODO", !.reporter = u, !.assignee = assignee, !.checklist = items]]
    /\ UNCHANGED handler

deleteTask(t) == SoftDelete(t) /\ UNCHANGED <<task, handler>>

-----------------------------------------------------------------------------
(* submitEngineeringTask                                                   *)
Submittable(u, row) ==
    /\ u \in Proposers \cap Engineers
    /\ row.reporter = u
    /\ row.approval \in {"DRAFT", "CHANGES_REQUESTED"}

SubmitRead(w, u, t) ==
    /\ Free(w)
    /\ Live(t)
    /\ Submittable(u, task[t])
    /\ Become(w, [step |-> "submit", task |-> t])
    /\ UNCHANGED <<graphVars, task>>

SubmitWrite(w) ==
    /\ At(w, "submit")
    /\ task' = [task EXCEPT ![handler[w].task].approval = "SUBMITTED",
                            ![handler[w].task].reviewer = Nobody]
    /\ Finish(w)
    /\ UNCHANGED graphVars

(* Mutant: the author may review the proposal.                             *)
Reviewable_ByAuthor(u, row, decision) ==
    /\ u \in Reviewers \cap Managers
    /\ row.approval \in {"SUBMITTED", "UNDER_REVIEW"}
    /\ decision = "START_REVIEW" => row.approval = "SUBMITTED"
(* Mutant: any proposal can be reviewed, in particular an approved one.    *)
Reviewable_AnyTime(u, row, decision) ==
    /\ u \in Reviewers \cap Managers
    /\ row.reviewRequired => row.reporter # u
    /\ row.approval # "DRAFT"
Reviewable(u, row, decision) ==
    /\ u \in Reviewers \cap Managers
    /\ row.reviewRequired => row.reporter # u
    /\ row.approval \in {"SUBMITTED", "UNDER_REVIEW"}
    /\ decision = "START_REVIEW" => row.approval = "SUBMITTED"

approvalStatus == [START_REVIEW |-> "UNDER_REVIEW", APPROVE |-> "APPROVED",
                   REQUEST_CHANGES |-> "CHANGES_REQUESTED", REJECT |-> "REJECTED"]

(* reviewEngineeringTask                                                   *)
ReviewRead(w, u, t, decision) ==
    /\ Free(w)
    /\ Live(t)
    /\ Reviewable(u, task[t], decision)
    /\ Become(w, [step |-> "review", task |-> t, user |-> u, decision |-> decision])
    /\ UNCHANGED <<graphVars, task>>

ReviewWrite(w) ==
    LET h == handler[w] IN
    /\ At(w, "review")
    /\ task' = [task EXCEPT ![h.task].approval = approvalStatus[h.decision],
                            ![h.task].reviewer = h.user]
    /\ Finish(w)
    /\ UNCHANGED graphVars

-----------------------------------------------------------------------------
(* updateTask                                                              *)
(* Mutant: work can be taken back to the list of things to do.             *)
X_transitions ==
    [BACKLOG |-> {"TODO", "CANCELLED"}, TODO |-> {"IN_PROGRESS", "BLOCKED", "CANCELLED"},
     IN_PROGRESS |-> {"TODO", "BLOCKED", "IN_REVIEW", "CANCELLED"}, BLOCKED |-> {"IN_PROGRESS", "CANCELLED"},
     IN_REVIEW |-> {"TESTING", "IN_PROGRESS"}, TESTING |-> {"DONE", "IN_PROGRESS"},
     DONE |-> {"IN_PROGRESS"}, CANCELLED |-> {}]
transitions ==
    [BACKLOG |-> {"TODO", "CANCELLED"}, TODO |-> {"IN_PROGRESS", "BLOCKED", "CANCELLED"},
     IN_PROGRESS |-> {"BLOCKED", "IN_REVIEW", "CANCELLED"}, BLOCKED |-> {"IN_PROGRESS", "CANCELLED"},
     IN_REVIEW |-> {"TESTING", "IN_PROGRESS"}, TESTING |-> {"DONE", "IN_PROGRESS"},
     DONE |-> {"IN_PROGRESS"}, CANCELLED |-> {}]

MayUpdate(u, row, input) ==
    /\ u \in Updaters
    /\ input.assignee \in Members \cup {Nobody, Keep}
    /\ \/ u \in Managers
       \/ row.assignee = u /\ row.approval = "APPROVED" /\ input.assignee = Keep

Gated(row, input) == row.reviewRequired /\ input.status \notin {Keep, row.status}

Allowed(row, input) ==
    /\ row.approval = "APPROVED"
    /\ input.status \in transitions[row.status]
    /\ input.status = "DONE" => row.qa # Nobody

UpdateRead(w, u, t, input) ==
    LET row == task[t]
        move == [step |-> "move", task |-> t, input |-> input,
                 from |-> row.status, verified |-> row.qa # Nobody]
    IN
    /\ Free(w)
    /\ Live(t)
    /\ MayUpdate(u, row, input)
    /\ \/ /\ ~Gated(row, input)
          /\ Become(w, [step |-> "overwrite", task |-> t, input |-> input])
       \/ /\ Gated(row, input)
          /\ Allowed(row, input)
          /\ Become(w, CASE input.status = "IN_PROGRESS" -> [move EXCEPT !.step = "prerequisites"]
                         [] input.status = "IN_REVIEW" -> [move EXCEPT !.step = "checklist"]
                         [] OTHER -> move)
    /\ UNCHANGED <<graphVars, task>>

(* Mutant: the tasks that need t are looked at.                            *)
Pending_Dependents(t) == {d \in Tasks : <<d, t>> \in needs /\ task[d].status # "DONE" /\ d \notin deleted}
Pending(t) == {d \in Tasks : <<t, d>> \in needs /\ task[d].status # "DONE" /\ d \notin deleted}

CheckPrerequisites(w) ==
    /\ At(w, "prerequisites")
    /\ Become(w, IF Pending(handler[w].task) = {} THEN [handler[w] EXCEPT !.step = "move"] ELSE Idle)
    /\ UNCHANGED <<graphVars, task>>

CheckChecklist(w) ==
    /\ At(w, "checklist")
    /\ Become(w, IF task[handler[w].task].checklist # "open"
                 THEN [handler[w] EXCEPT !.step = "move"] ELSE Idle)
    /\ UNCHANGED <<graphVars, task>>

Assigned(row, input) == IF input.assignee = Keep THEN row.assignee ELSE input.assignee

Moved(row, h) ==
    [row EXCEPT !.status = h.input.status, !.assignee = Assigned(row, h.input),
                !.qa = IF h.input.status = "IN_PROGRESS" /\ h.verified THEN Nobody ELSE @]

Move(w) ==
    LET h == handler[w] IN
    /\ At(w, "move")
    /\ \/ /\ task[h.task].status = h.from
          /\ task[h.task].approval = "APPROVED"
          /\ task' = [task EXCEPT ![h.task] = Moved(@, h)]
       \/ /\ task[h.task].status # h.from \/ task[h.task].approval # "APPROVED"
          /\ UNCHANGED task
    /\ Finish(w)
    /\ UNCHANGED graphVars

Overwrite(w) ==
    LET h == handler[w] IN
    /\ At(w, "overwrite")
    /\ task' = [task EXCEPT ![h.task].status = IF h.input.status = Keep THEN @ ELSE h.input.status,
                            ![h.task].assignee = Assigned(task[h.task], h.input)]
    /\ Finish(w)
    /\ UNCHANGED graphVars

-----------------------------------------------------------------------------
(* verifyTaskQa                                                            *)
Verifiable(u, row) ==
    /\ u \in Reviewers \cap (Managers \cup QaEngineers)
    /\ row.assignee # u
    /\ row.status = "TESTING"
    /\ row.approval = "APPROVED"

VerifyRead(w, u, t) ==
    /\ Free(w)
    /\ Visible(u, t)
    /\ Verifiable(u, task[t])
    /\ Become(w, [step |-> "verifyQa", task |-> t, user |-> u])
    /\ UNCHANGED <<graphVars, task>>

VerifyWrite(w) ==
    LET h == handler[w]
        unchanged == task[h.task].status = "TESTING" /\ task[h.task].qa = Nobody
    IN
    /\ At(w, "verifyQa")
    /\ task' = IF unchanged THEN [task EXCEPT ![h.task].qa = h.user] ELSE task
    /\ Finish(w)
    /\ UNCHANGED graphVars

-----------------------------------------------------------------------------
(* addTaskChecklistItem and setTaskChecklistItem                           *)
Completable(u, row) ==
    /\ u \in Proposers
    /\ u \in Managers \cup {row.assignee}
    /\ row.approval = "APPROVED"
    /\ row.checklist # "none"

ChecklistRead(w, u, t) ==
    LET row == task[t] IN
    /\ Free(w)
    /\ Visible(u, t)
    /\ \/ /\ u \in Proposers
          /\ u \in Managers \cup {row.reporter}
          /\ row.status # "DONE"
          /\ Become(w, [step |-> "addItem", task |-> t])
       \/ /\ Completable(u, row)
          /\ \E step \in {"completeItem", "reopenItem"} : Become(w, [step |-> step, task |-> t])
    /\ UNCHANGED <<graphVars, task>>

(* Completing one item may or may not complete the list.                   *)
ChecklistWrite(w) ==
    LET t == handler[w].task IN
    /\ \/ /\ handler[w].step \in {"addItem", "reopenItem"}
          /\ task' = [task EXCEPT ![t].checklist = "open"]
       \/ /\ At(w, "completeItem")
          /\ \E items \in {task[t].checklist, "complete"} :
                task' = [task EXCEPT ![t].checklist = items]
    /\ Finish(w)
    /\ UNCHANGED graphVars

(* A call throws or the process dies between two steps.                    *)
Abort(w) ==
    /\ ~At(w, "idle")
    /\ Finish(w)
    /\ UNCHANGED <<graphVars, task>>

-----------------------------------------------------------------------------
ReviewStep(w) ==
    \/ \E u \in Users, t \in Tasks : SubmitRead(w, u, t)
    \/ SubmitWrite(w)
    \/ \E u \in Users, t \in Tasks, decision \in Decision : ReviewRead(w, u, t, decision)
    \/ ReviewWrite(w)

UpdateStep(w) ==
    \/ \E u \in Users, t \in Tasks : \E input \in Requests(t) : UpdateRead(w, u, t, input)
    \/ CheckPrerequisites(w)
    \/ CheckChecklist(w)
    \/ Move(w)
    \/ Overwrite(w)

QaStep(w) ==
    \/ \E u \in Users, t \in Tasks : VerifyRead(w, u, t) \/ ChecklistRead(w, u, t)
    \/ VerifyWrite(w)
    \/ ChecklistWrite(w)

(* addTaskDependency and removeTaskDependency, by a manager.               *)
Dependencies ==
    /\ DependencyStep
    /\ \A w \in Workers : adding'[w] # NoEdge => At(w, "idle")
    /\ UNCHANGED <<task, handler>>

Next ==
    \/ \E w \in Workers : ReviewStep(w) \/ UpdateStep(w) \/ QaStep(w) \/ Abort(w)
    \/ Dependencies
    \/ \E t \in Tasks, status \in PlainStatus, assignee \in User : createTask(t, status, assignee)
    \/ \E t \in Tasks, u, assignee \in Users, items \in {"none", "open"}, D \in SUBSET Tasks :
          createEngineeringTask(t, u, assignee, items, D)
    \/ \E t \in Tasks : deleteTask(t)

Spec == Init /\ [][Next]_vars

-----------------------------------------------------------------------------
(* Calls that overlap.  A call decides by the status, the approval and the *)
(* sign-off of its task; a move to work or to review also by what a gate   *)
(* saw of the prerequisites and the checklist.                             *)
InFlight(w, t) == ~At(w, "idle") /\ handler[w].task = t
Decided(t) == <<task[t].status, task[t].approval, task[t].qa>>

(* On the tasks in Q no call is overtaken: what it decides by is written   *)
(* only when no other call on the task is in flight.                       *)
NotOvertaken(Q) ==
    \A t \in Q : Decided(t)' # Decided(t) => \A w \in Workers : ~InFlight(w, t)'

(* While a call on a task in Q goes on, the task gains no prerequisite,    *)
(* those it has keep their status, and so does its checklist.              *)
GatesUntouched(Q) ==
    \A w \in Workers, t \in Q : InFlight(w, t) /\ InFlight(w, t)' =>
        /\ \A d \in Tasks : <<t, d>> \in needs' =>
              <<t, d>> \in needs /\ task'[d].status = task[d].status
        /\ task'[t].checklist = task[t].checklist

-----------------------------------------------------------------------------
Proposal(t) == t \in created /\ task[t].reviewRequired

(* Work on a proposal begins only once it is approved, and it stays        *)
(* approved: no later write takes the approval back.                       *)
WorkIsApproved == \A t \in Tasks : Proposal(t) /\ task[t].status # "TODO" => task[t].approval = "APPROVED"

(* A proposal is approved by someone other than its author.                *)
ApprovedByAnother ==
    \A t \in Tasks : Proposal(t) /\ task[t].approval = "APPROVED" =>
        task[t].reviewer \in Managers \ {task[t].reporter}

(* A completed proposal was signed off by QA.                              *)
DoneWasVerified == \A t \in Tasks : Proposal(t) /\ task[t].status = "DONE" => task[t].qa # Nobody

(* The sign-off is for the present round of testing: taking the task up    *)
(* again forgets it.                                                       *)
VerifiedThisRound ==
    \A t \in Tasks : Proposal(t) /\ task[t].qa # Nobody => task[t].status \in {"TESTING", "DONE"}

(* Work on a proposal was approved, and its completion signed off by QA in *)
(* the present round, where no call is overtaken by another on its task    *)
(* (updateTask, reviewEngineeringTask, verifyTaskQa).                      *)
ReviewRespected == WorkIsApproved /\ DoneWasVerified /\ VerifiedThisRound

(* A proposal is taken up only when what it needs is done, and goes to     *)
(* review only with no open checklist item, where also what the gates look *)
(* at is left alone while the call goes on.                                *)
GatesHold ==
    [][\A t \in Tasks : Proposal(t) /\ task'[t].status # task[t].status =>
          /\ task'[t].status = "IN_PROGRESS" => \A d \in Tasks : <<t, d>> \in needs =>
                task[d].status = "DONE" \/ d \in deleted
          /\ task'[t].status = "IN_REVIEW" => task[t].checklist # "open"]_vars
=============================================================================
