----------------------------- MODULE TaskScreens -----------------------------
(***************************************************************************)
(* The pages that work on Tasks: the list, the board and the form of       *)
(* TasksPage.tsx, the task lists of EngineeringWorkspacePage.tsx and the   *)
(* detail of TaskPlanningPage.tsx (frontend/src/features).                 *)
(*                                                                         *)
(* A page shows the statuses as they were when it loaded the list.  The    *)
(* form of a task sends all its fields, the status it was opened with      *)
(* among them; the board sends the status of the column a card was dropped *)
(* on, be it the one it came from.  So a call can ask for a status that    *)
(* nobody changed, on a task that has moved on since.                      *)
(*                                                                         *)
(* caller[w] is where the call in flight at w came from: a tab, and its    *)
(* form or not.                                                            *)
(***************************************************************************)
EXTENDS Tasks

CONSTANTS
    Tabs,       \* the open pages
    NoTab       \* a call that comes from no page

ASSUME TaskScreensAssumption == NoTab \notin Tabs

VARIABLES
    shown,      \* [Tabs -> the status of each proposal that the page shows, or "none"]
    form,       \* [Tabs -> the form that is open, or NoForm]
    caller      \* [Workers -> the tab, and whether its form, sent the call]

screenVars == <<vars, shown, form, caller>>

NoForm == [task |-> "none"]
From(tab, isForm) == [tab |-> tab, isForm |-> isForm]
NoCaller == From(NoTab, FALSE)

-----------------------------------------------------------------------------
(* The commands that a page offers user u on a proposal, by what it shows  *)
(* of it and the permissions of u.                                         *)
OfferedInWorkspace(u, row) ==
    (IF row.approval = "APPROVED" /\ row.assignee = u THEN Status ELSE {})
    \cup (IF row.approval = "DRAFT" /\ u \in Proposers THEN {"submit"} ELSE {})
    \cup (IF row.approval = "SUBMITTED" /\ u \in Reviewers THEN {"approve"} ELSE {})

OfferedOnBoard(u) == IF u \in Updaters THEN Status ELSE {}

(* Mutant: the assignee, and nobody else, is offered the sign-off.         *)
X_OfferedInDetail(u, row) ==
    (IF row.status = "TESTING" /\ u \in Reviewers /\ row.qa = Nobody /\ row.assignee = u
     THEN {"verifyQa"} ELSE {})
    \cup (IF row.approval = "APPROVED" /\ row.checklist = "open" THEN {"completeItem"} ELSE {})
OfferedInDetail(u, row) ==
    (IF row.status = "TESTING" /\ u \in Reviewers /\ row.qa = Nobody /\ row.assignee # u
     THEN {"verifyQa"} ELSE {})
    \cup (IF row.approval = "APPROVED" /\ row.checklist = "open" THEN {"completeItem"} ELSE {})

Offered(u, row) == OfferedInWorkspace(u, row) \cup OfferedOnBoard(u) \cup OfferedInDetail(u, row)

Send(w, u, t, status) == UpdateRead(w, u, t, [status |-> status, assignee |-> Keep])

-----------------------------------------------------------------------------
(* The list is loaded when the page is opened, after a command of its own  *)
(* and when its data is older than the client keeps it.                    *)
Load(tab) ==
    /\ shown' = [shown EXCEPT ![tab] =
          [t \in Proposals |-> IF Live(t) THEN task[t].status ELSE "none"]]
    /\ UNCHANGED <<vars, form, caller>>

Call(tab, w, isForm) == caller' = [caller EXCEPT ![w] = From(tab, isForm)]
FormWaits(tab) == \E w \in Workers : caller[w] = From(tab, TRUE)

(* A card is dropped on a column, or a status is chosen from a list.  The  *)
(* board does not wait for its last call.                                  *)
Choose(tab, w, u, t, status) ==
    /\ form[tab] = NoForm
    /\ shown[tab][t] # "none"
    /\ Send(w, u, t, status)
    /\ Call(tab, w, FALSE)
    /\ UNCHANGED <<shown, form>>

OpenForm(tab, t) ==
    /\ form[tab] = NoForm
    /\ shown[tab][t] # "none"
    /\ form' = [form EXCEPT ![tab] = [task |-> t, status |-> shown[tab][t]]]
    /\ UNCHANGED <<vars, shown, caller>>

CloseForm(tab) ==
    /\ form[tab] # NoForm
    /\ form' = [form EXCEPT ![tab] = NoForm]
    /\ UNCHANGED <<vars, shown, caller>>

(* The form sends every field, and only a manager may change more than the *)
(* status.  Its button waits for the answer.                               *)
SaveForm(tab, w, u, status) ==
    /\ form[tab] # NoForm /\ ~FormWaits(tab)
    /\ u \in Managers
    /\ Send(w, u, form[tab].task, status)
    /\ Call(tab, w, TRUE)
    /\ UNCHANGED <<shown, form>>

(* The answer of success closes the form that is open by then, if a form   *)
(* had sent the call; a refusal or an error leaves it open.                *)
Succeeds(w) ==
    LET h == handler[w]
    IN \/ At(w, "overwrite")
       \/ At(w, "move") /\ task[h.task].status = h.from /\ task[h.task].approval = "APPROVED"

Answer(w) ==
    /\ ~At(w, "idle")
    /\ \/ /\ ReviewStep(w) \/ UpdateStep(w) \/ QaStep(w)
          /\ form' = IF caller[w].isForm /\ Succeeds(w)
                     THEN [form EXCEPT ![caller[w].tab] = NoForm] ELSE form
       \/ Abort(w) /\ UNCHANGED form
    /\ caller' = IF handler'[w] = Idle THEN [caller EXCEPT ![w] = NoCaller] ELSE caller
    /\ UNCHANGED shown

(* Calls that come from no page of these, and the tasks that are filed.    *)
Elsewhere ==
    /\ \/ \E w \in Workers : At(w, "idle") /\ (ReviewStep(w) \/ UpdateStep(w) \/ QaStep(w))
       \/ \E t \in Proposals, u, assignee \in Users : createEngineeringTask(t, u, assignee, "none", {})
       \/ \E t \in Proposals : deleteTask(t)
    /\ UNCHANGED <<shown, form, caller>>

ScreenInit ==
    /\ Init
    /\ shown = [tab \in Tabs |-> [t \in Proposals |-> "none"]]
    /\ form = [tab \in Tabs |-> NoForm]
    /\ caller = [w \in Workers |-> NoCaller]

ScreenNext ==
    \/ \E tab \in Tabs : Load(tab) \/ CloseForm(tab) \/ \E t \in Proposals : OpenForm(tab, t)
    \/ \E tab \in Tabs, w \in Workers, u \in Users, status \in Status :
          SaveForm(tab, w, u, status) \/ \E t \in Proposals : Choose(tab, w, u, t, status)
    \/ \E w \in Workers : Answer(w)
    \/ Elsewhere

ScreenSpec == ScreenInit /\ [][ScreenNext]_screenVars

-----------------------------------------------------------------------------
(* A call for the very status that the page shows, a form saved without a  *)
(* change to it or a card dropped where it was, moves a proposal only from *)
(* where it went since to work, from work to where it had been sent back   *)
(* from, or over a step it takes a second time.  It never cancels a task,  *)
(* never starts one and never skips the approval (TaskFormModal.tsx and    *)
(* TaskKanban.tsx against the table of updateTask).                        *)
Slips ==
    {"BLOCKED", "IN_REVIEW", "TESTING", "DONE"} \X {"IN_PROGRESS"}
    \cup {"IN_PROGRESS"} \X {"BLOCKED", "IN_REVIEW"}
    \cup {<<"IN_REVIEW", "TESTING">>, <<"TESTING", "DONE">>}

Seen(tab, t) == IF form[tab] # NoForm THEN form[tab].status ELSE shown[tab][t]

UntouchedStep ==
    \A w \in Workers :
        LET h == handler'[w]
        IN At(w, "idle") /\ h.step \in {"prerequisites", "checklist", "move"} /\ caller'[w] # NoCaller
               /\ h.input.status = Seen(caller'[w].tab, h.task)
           => <<h.from, h.input.status>> \in Slips

UntouchedSaves == [][UntouchedStep]_screenVars

(* The service does what the command asks for, if no other call comes in   *)
(* between.                                                                *)
GatesOpen(t, status) ==
    /\ status = "IN_PROGRESS" => Pending(t) = {}
    /\ status = "IN_REVIEW" => task[t].checklist # "open"

Accepts(u, t, command) ==
    LET input == [status |-> command, assignee |-> Keep] IN
    /\ Visible(u, t)
    /\ \/ command = "submit" /\ Submittable(u, task[t])
       \/ command = "approve" /\ Reviewable(u, task[t], "APPROVE")
       \/ command = "verifyQa" /\ Verifiable(u, task[t])
       \/ command = "completeItem" /\ Completable(u, task[t])
       \/ /\ command \in Status
          /\ MayUpdate(u, task[t], input)
          /\ Gated(task[t], input) => Allowed(task[t], input) /\ GatesOpen(t, command)

(* The commands that bring a proposal nearer to its end.                   *)
Forward == {<<"BACKLOG", "TODO">>, <<"TODO", "IN_PROGRESS">>, <<"BLOCKED", "IN_PROGRESS">>,
            <<"IN_PROGRESS", "IN_REVIEW">>, <<"IN_REVIEW", "TESTING">>, <<"TESTING", "DONE">>}
Ahead(row) == {"submit", "approve", "verifyQa", "completeItem"}
              \cup {status \in Status : <<row.status, status>> \in Forward}

(* It is to be taken up, and something that it needs is not done.          *)
Waits(t) == task[t].approval = "APPROVED" /\ task[t].status \in {"TODO", "BLOCKED"} /\ Pending(t) # {}

(* Every proposal that is not at its end can be brought nearer to it from  *)
(* a page: some user is offered a command on it, with the permission the   *)
(* page asks for, that goes forward and that the service does not refuse,  *)
(* its gates on prerequisites, checklist and sign-off included (updateTask *)
(* and engineering.service.ts).  Left out are a proposal that waits for    *)
(* another task, and one under review or returned for changes: no page     *)
(* offers the decision on the first or submits the second again            *)
(* (EngineeringWorkspacePage.tsx offers DRAFT and SUBMITTED only).         *)
ProposalsMoveOn ==
    \A t \in Proposals : Live(t) =>
        \/ task[t].status \in {"DONE", "CANCELLED"}
        \/ task[t].approval \in {"REJECTED", "UNDER_REVIEW", "CHANGES_REQUESTED"}
        \/ Waits(t)
        \/ \E u \in Users : \E command \in Offered(u, task[t]) \cap Ahead(task[t]) : Accepts(u, t, command)
=============================================================================
