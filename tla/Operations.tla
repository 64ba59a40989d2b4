----------------------------- MODULE Operations -----------------------------
(***************************************************************************)
(* What happens to a managed system after it was built: updates, bugs,     *)
(* maintenance requests, releases and the records of their deployments     *)
(* (backend/src/services/engineering-operations.service.ts).               *)
(*                                                                         *)
(* Four status machines that share a pattern: a call reads the row, checks *)
(* the move against its table of transitions, and writes.  An action is    *)
(* one awaited call with the code up to the next await; handler[w] holds   *)
(* what the code keeps of the row it read.  The writes differ, and that is *)
(* what the properties are about: updates, maintenance and most moves of a *)
(* release are compare-and-set on the status that was read, updateBug and  *)
(* approveRelease write by id.                                             *)
(*                                                                         *)
(* fresh and disturbed are history: handler[w].fresh turns FALSE when      *)
(* somebody else writes the row that w has read, and a row is disturbed    *)
(* once a write landed on it that was not fresh, or once the recording of  *)
(* a deployment stopped between its two writes.                            *)
(*                                                                         *)
(* Titles, dates of deadlines, notes and notifications are left out, and   *)
(* so are records of STAGING deployments, which nothing reads.             *)
(***************************************************************************)
EXTENDS Naturals, FiniteSets

CONSTANTS
    Updates, Bugs, Requests, Releases,   \* the rows of each table
    Admins,        \* administrators
    Managers,      \* managers of the project
    Engineers,     \* active members with an engineering role
    Nobody,        \* a null user id
    Handlers,      \* calls that may be in flight at once
    MaxFiled       \* bound: rows that are filed (not counting the next occurrences)

Ids == Updates \cup Bugs \cup Requests \cup Releases
People == Admins \cup Managers \cup Engineers
Keep == "keep"      \* the field is not in the request

ASSUME OperationsAssumption ==
    /\ MaxFiled \in Nat
    /\ Nobody \notin People \cup Requests
    /\ Keep \notin People \cup {Nobody}
    /\ Updates \cap Bugs = {}
    /\ (Updates \cup Bugs) \cap Requests = {}
    /\ (Updates \cup Bugs \cup Requests) \cap Releases = {}

VARIABLES
    system,        \* there is a managed system
    update,        \* [Updates -> UpdateRow or Absent]
    bug,           \* [Bugs -> BugRow or Absent]
    request,       \* [Requests -> RequestRow or Absent]
    release,       \* [Releases -> ReleaseRow or Absent]
    link,          \* the tasks and pull requests linked to releases
    handler,       \* [Handlers -> the call in flight, or Idle]
    disturbed      \* history: the rows that overlapping or broken calls wrote

tables == <<update, bug, request, release>>
vars == <<system, tables, link, handler, disturbed>>

-----------------------------------------------------------------------------
UPDATE_TRANSITIONS ==
    {<<"REQUESTED", "APPROVED">>, <<"APPROVED", "ASSIGNED">>, <<"ASSIGNED", "IN_DEVELOPMENT">>,
     <<"IN_DEVELOPMENT", "CODE_REVIEW">>, <<"CODE_REVIEW", "IN_DEVELOPMENT">>,
     <<"CODE_REVIEW", "TESTING">>, <<"TESTING", "IN_DEVELOPMENT">>, <<"TESTING", "STAGING">>,
     <<"STAGING", "TESTING">>, <<"STAGING", "PRODUCTION_APPROVAL">>,
     <<"PRODUCTION_APPROVAL", "DEPLOYED">>, <<"DEPLOYED", "VERIFIED">>, <<"VERIFIED", "COMPLETED">>}
    \cup {"REQUESTED", "APPROVED", "ASSIGNED", "IN_DEVELOPMENT", "CODE_REVIEW", "TESTING",
          "STAGING", "PRODUCTION_APPROVAL"} \X {"CANCELLED"}

allowedBugTransitions ==
    {<<"REPORTED", "TRIAGED">>, <<"REPORTED", "ASSIGNED">>, <<"TRIAGED", "ASSIGNED">>,
     <<"ASSIGNED", "IN_PROGRESS">>, <<"CODE_REVIEW", "IN_PROGRESS">>, <<"CODE_REVIEW", "TESTING">>,
     <<"TESTING", "IN_PROGRESS">>, <<"TESTING", "RESOLVED">>,
     <<"RESOLVED", "CLOSED">>, <<"RESOLVED", "REOPENED">>, <<"CLOSED", "REOPENED">>}
    \cup {"IN_PROGRESS"} \X {"CODE_REVIEW", "TESTING", "RESOLVED"}
    \cup {"REOPENED"} \X {"TRIAGED", "ASSIGNED", "IN_PROGRESS"}

MAINTENANCE_TRANSITIONS ==
    {<<"REQUESTED", "SCHEDULED">>, <<"REQUESTED", "IN_PROGRESS">>, <<"SCHEDULED", "IN_PROGRESS">>,
     <<"IN_PROGRESS", "COMPLETED">>}
    \cup {"REQUESTED", "SCHEDULED", "IN_PROGRESS"} \X {"CANCELLED"}

(* Mutant: an approved release can be taken back to work.                  *)
X_RELEASE_TRANSITIONS ==
    {<<"PLANNED", "IN_PROGRESS">>, <<"IN_PROGRESS", "PENDING_APPROVAL">>,
     <<"PENDING_APPROVAL", "IN_PROGRESS">>, <<"APPROVED", "DEPLOYED">>,
     <<"APPROVED", "IN_PROGRESS">>,
     <<"DEPLOYED", "VERIFIED">>, <<"DEPLOYED", "ROLLED_BACK">>, <<"VERIFIED", "ROLLED_BACK">>}
    \cup {"PLANNED", "IN_PROGRESS", "PENDING_APPROVAL", "APPROVED"} \X {"CANCELLED"}

RELEASE_TRANSITIONS ==
    {<<"PLANNED", "IN_PROGRESS">>, <<"IN_PROGRESS", "PENDING_APPROVAL">>,
     <<"PENDING_APPROVAL", "IN_PROGRESS">>, <<"APPROVED", "DEPLOYED">>,
     <<"DEPLOYED", "VERIFIED">>, <<"DEPLOYED", "ROLLED_BACK">>, <<"VERIFIED", "ROLLED_BACK">>}
    \cup {"PLANNED", "IN_PROGRESS", "PENDING_APPROVAL", "APPROVED"} \X {"CANCELLED"}

(* The statuses a transition call may ask for: DEPLOYED is not one, it     *)
(* comes with the record of the deployment (transitionReleaseSchema).      *)
TransitionTarget == {"IN_PROGRESS", "PENDING_APPROVAL", "VERIFIED", "ROLLED_BACK", "CANCELLED"}

Ends(transitions) == {move[1] : move \in transitions} \cup {move[2] : move \in transitions}
UpdateStatus == Ends(UPDATE_TRANSITIONS)
BugStatus == Ends(allowedBugTransitions)
RequestStatus == Ends(MAINTENANCE_TRANSITIONS)
ReleaseStatus == Ends(RELEASE_TRANSITIONS)

Person == People \cup {Nobody}
Absent == [status |-> "ABSENT"]
UpdateRow == [status : UpdateStatus, approved : BOOLEAN]
BugRow == [status : BugStatus, assignee : Person, responded : BOOLEAN, resolved : BOOLEAN]
RequestRow == [status : RequestStatus, assignee : Person, scheduled : BOOLEAN,
               recurring : BOOLEAN, responded : BOOLEAN, after : Requests \cup {Nobody}]
ReleaseRow == [status : ReleaseStatus, approved : BOOLEAN,
               records : SUBSET {"SUCCEEDED", "FAILED", "ROLLED_BACK"}]

Idle == [step |-> "idle"]
Handler ==
    {Idle}
    \cup [step : {"update"}, id : Updates, from : UpdateStatus, to : UpdateStatus, fresh : BOOLEAN]
    \cup [step : {"approveUpdate"}, id : Updates, fresh : BOOLEAN]
    \cup [step : {"bug"}, id : Bugs, from : BugStatus, to : BugStatus,
          assignee : Person \cup {Keep}, fresh : BOOLEAN]
    \cup [step : {"maintenance"}, id : Requests, from : RequestStatus, to : RequestStatus,
          assignee : Person, scheduled : BOOLEAN, fresh : BOOLEAN]
    \cup [step : {"deployments", "release"}, id : Releases, from : ReleaseStatus,
          to : ReleaseStatus, fresh : BOOLEAN]
    \cup [step : {"approveRelease"}, id : Releases, fresh : BOOLEAN]
    \cup [step : {"record"}, id : Releases, from : ReleaseStatus,
          to : {"SUCCEEDED", "FAILED", "ROLLED_BACK"}, fresh : BOOLEAN]
    \cup [step : {"ship"}, id : Releases, from : {"APPROVED", "DEPLOYED"},
          to : {"DEPLOYED", "ROLLED_BACK"}, fresh : BOOLEAN]

(* Rows and calls have the types of the schema and the code.               *)
TypeOK ==
    /\ system \in BOOLEAN
    /\ update \in [Updates -> UpdateRow \cup {Absent}]
    /\ bug \in [Bugs -> BugRow \cup {Absent}]
    /\ request \in [Requests -> RequestRow \cup {Absent}]
    /\ release \in [Releases -> ReleaseRow \cup {Absent}]
    /\ link \subseteq Releases \X {"task", "pullRequest"}
    /\ handler \in [Handlers -> Handler]
    /\ disturbed \subseteq Ids

Init ==
    /\ system = FALSE
    /\ update = [u \in Updates |-> Absent]
    /\ bug = [b \in Bugs |-> Absent]
    /\ request = [q \in Requests |-> Absent]
    /\ release = [r \in Releases |-> Absent]
    /\ link = {}
    /\ handler = [w \in Handlers |-> Idle]
    /\ disturbed = {}

-----------------------------------------------------------------------------
CanManage(p) == p \in Admins \cup Managers       \* projectAccess(..., manage)
Present(table) == {id \in DOMAIN table : table[id] # Absent}

Filed == Present(update) \cup Present(bug) \cup Present(release)
         \cup {q \in Present(request) : request[q].after = Nobody}
MayFile == system /\ Cardinality(Filed) < MaxFiled

At(w, step) == handler[w].step = step
Start(w, h) == At(w, "idle") /\ handler' = [handler EXCEPT ![w] = h]
Finish(w) == handler' = [handler EXCEPT ![w] = Idle]

(* The end of a call that wrote row id: what others hold of it is stale.   *)
Wrote(w, id) ==
    handler' = [v \in Handlers |->
        IF v = w THEN Idle
        ELSE IF handler[v] # Idle /\ handler[v].id = id THEN [handler[v] EXCEPT !.fresh = FALSE]
        ELSE handler[v]]

(* A write that lands although the row changed since it was read.          *)
Land(w, id) ==
    /\ Wrote(w, id)
    /\ disturbed' = IF handler[w].fresh THEN disturbed ELSE disturbed \cup {id}

-----------------------------------------------------------------------------
createSystem(p) ==
    /\ CanManage(p)
    /\ system' = TRUE
    /\ UNCHANGED <<tables, link, handler, disturbed>>

createUpdate(p, u) ==
    /\ CanManage(p) /\ MayFile /\ update[u] = Absent
    /\ update' = [update EXCEPT ![u] = [status |-> "REQUESTED", approved |-> FALSE]]
    /\ UNCHANGED <<system, bug, request, release, link, handler, disturbed>>

(* transitionUpdate                                                        *)
UpdateMayMove(p, u, to) ==
    /\ CanManage(p)
    /\ <<update[u].status, to>> \in UPDATE_TRANSITIONS
    /\ to = "DEPLOYED" => update[u].approved

UpdateRead(w, p, u, to) ==
    /\ UpdateMayMove(p, u, to)
    /\ Start(w, [step |-> "update", id |-> u, from |-> update[u].status, to |-> to, fresh |-> TRUE])
    /\ UNCHANGED <<system, tables, link, disturbed>>

(* Mutant: the write is by id, not a compare-and-set.                      *)
X_UpdateWrite(w) ==
    /\ At(w, "update")
    /\ update' = [update EXCEPT ![handler[w].id].status = handler[w].to]
    /\ Land(w, handler[w].id)
    /\ UNCHANGED <<system, bug, request, release, link>>

UpdateWrite(w) ==
    /\ At(w, "update")
    /\ LET h == handler[w]
       IN \/ /\ update[h.id].status = h.from
             /\ update' = [update EXCEPT ![h.id].status = h.to]
             /\ Land(w, h.id)
          \/ /\ update[h.id].status # h.from        \* "Update was changed by another user"
             /\ Finish(w)
             /\ UNCHANGED <<update, disturbed>>
    /\ UNCHANGED <<system, bug, request, release, link>>

(* approveUpdateProduction                                                 *)
AwaitsApproval(row) == row.status = "PRODUCTION_APPROVAL" /\ ~row.approved

ApproveUpdateRead(w, p, u) ==
    /\ p \in Admins
    /\ AwaitsApproval(update[u])
    /\ Start(w, [step |-> "approveUpdate", id |-> u, fresh |-> TRUE])
    /\ UNCHANGED <<system, tables, link, disturbed>>

ApproveUpdateWrite(w) ==
    /\ At(w, "approveUpdate")
    /\ LET u == handler[w].id
       IN \/ /\ AwaitsApproval(update[u])
             /\ update' = [update EXCEPT ![u].approved = TRUE]
             /\ Land(w, u)
          \/ /\ ~AwaitsApproval(update[u])
             /\ Finish(w)
             /\ UNCHANGED <<update, disturbed>>
    /\ UNCHANGED <<system, bug, request, release, link>>

-----------------------------------------------------------------------------
(* Anybody with access to the project reports a bug.                       *)
createBug(p, b) ==
    /\ p \in People /\ MayFile /\ bug[b] = Absent
    /\ bug' = [bug EXCEPT ![b] =
          [status |-> "REPORTED", assignee |-> Nobody, responded |-> FALSE, resolved |-> FALSE]]
    /\ UNCHANGED <<system, update, request, release, link, handler, disturbed>>

(* updateBug: assignee is an engineer, null, or not in the request.        *)
BugMayMove(p, b, to, assignee) ==
    /\ <<bug[b].status, to>> \in allowedBugTransitions
    /\ \/ CanManage(p)
       \/ p = bug[b].assignee /\ assignee = Keep /\ to # "CLOSED"
    /\ to = "ASSIGNED" =>
          \/ assignee \in Engineers
          \/ assignee \in {Keep, Nobody} /\ bug[b].assignee # Nobody

BugRead(w, p, b, to, assignee) ==
    /\ BugMayMove(p, b, to, assignee)
    /\ Start(w, [step |-> "bug", id |-> b, from |-> bug[b].status, to |-> to,
                 assignee |-> assignee, fresh |-> TRUE])
    /\ UNCHANGED <<system, tables, link, disturbed>>

(* Mutant: the date of resolution survives a reopening.                    *)
X_KeepsResolved(h, row) ==
    [status |-> h.to, assignee |-> IF h.assignee = Keep THEN row.assignee ELSE h.assignee,
     responded |-> row.responded \/ h.from = "REPORTED",
     resolved |-> h.to = "RESOLVED" \/ row.resolved]

(* Mutant: every update but the first takes the answer back.               *)
X_DropsAnswer(h, row) ==
    [status |-> h.to, assignee |-> IF h.assignee = Keep THEN row.assignee ELSE h.assignee,
     responded |-> h.from = "REPORTED",
     resolved |-> h.to = "RESOLVED" \/ (row.resolved /\ h.to # "REOPENED")]

BugMoved(h, row) ==
    [status |-> h.to, assignee |-> IF h.assignee = Keep THEN row.assignee ELSE h.assignee,
     responded |-> row.responded \/ h.from = "REPORTED",
     resolved |-> h.to = "RESOLVED" \/ (row.resolved /\ h.to # "REOPENED")]

BugWrite(w) ==
    /\ At(w, "bug")
    /\ LET h == handler[w]
       IN /\ bug' = [bug EXCEPT ![h.id] = BugMoved(h, @)]
          /\ Land(w, h.id)
    /\ UNCHANGED <<system, update, request, release, link>>

-----------------------------------------------------------------------------
createMaintenance(p, q, assignee, scheduled, recurring) ==
    /\ CanManage(p) /\ MayFile /\ request[q] = Absent
    /\ recurring => scheduled                     \* createMaintenanceRequestSchema
    /\ request' = [request EXCEPT ![q] =
          [status |-> "REQUESTED", assignee |-> assignee, scheduled |-> scheduled,
           recurring |-> recurring, responded |-> FALSE, after |-> Nobody]]
    /\ UNCHANGED <<system, update, bug, release, link, handler, disturbed>>

(* updateMaintenance: the assignee and the date of the request, or those   *)
(* of the row that was read.                                               *)
AssigneeId(q, assignee) == IF assignee = Keep THEN request[q].assignee ELSE assignee
ScheduledAt(q, date) == IF date = Keep THEN request[q].scheduled ELSE date = "date"

RequestMayMove(p, q, to, assignee, date) ==
    /\ <<request[q].status, to>> \in MAINTENANCE_TRANSITIONS
    /\ \/ CanManage(p)
       \/ p = request[q].assignee /\ assignee = Keep /\ to # "CANCELLED"
    /\ to = "IN_PROGRESS" => AssigneeId(q, assignee) # Nobody
    /\ to = "SCHEDULED" \/ request[q].recurring => ScheduledAt(q, date)

MaintenanceRead(w, p, q, to, assignee, date) ==
    /\ RequestMayMove(p, q, to, assignee, date)
    /\ Start(w, [step |-> "maintenance", id |-> q, from |-> request[q].status, to |-> to,
                 assignee |-> AssigneeId(q, assignee), scheduled |-> ScheduledAt(q, date),
                 fresh |-> TRUE])
    /\ UNCHANGED <<system, tables, link, disturbed>>

(* One transaction: the compare-and-set and, for a recurring request that  *)
(* is completed, the next occurrence (in a row n that is not in use; the   *)
(* set Requests bounds how often a request recurs).                        *)
Occurrence(q, h) ==
    [status |-> "SCHEDULED", assignee |-> h.assignee, scheduled |-> TRUE,
     recurring |-> TRUE, responded |-> FALSE, after |-> q]

Moved(h) ==
    [request EXCEPT ![h.id].status = h.to, ![h.id].assignee = h.assignee,
                    ![h.id].scheduled = h.scheduled,
                    ![h.id].responded = @ \/ h.to = "IN_PROGRESS"]

Recurs(h) == h.to = "COMPLETED" /\ request[h.id].recurring /\ h.scheduled

(* Mutant: the write is by id, not a compare-and-set.                      *)
X_Unchanged(h) == TRUE
Unchanged(h) == request[h.id].status = h.from

MaintenanceWrite(w) ==
    /\ At(w, "maintenance")
    /\ LET h == handler[w]
       IN \/ /\ Unchanged(h) /\ ~Recurs(h)
             /\ request' = Moved(h)
             /\ Land(w, h.id)
          \/ /\ Unchanged(h) /\ Recurs(h)
             /\ \E n \in Requests \ Present(request) :
                   request' = [Moved(h) EXCEPT ![n] = Occurrence(h.id, h)]
             /\ Land(w, h.id)
          \/ /\ ~Unchanged(h)                   \* "Maintenance was changed by another user"
             /\ Finish(w)
             /\ UNCHANGED <<request, disturbed>>
    /\ UNCHANGED <<system, update, bug, release, link>>

-----------------------------------------------------------------------------
createRelease(p, r) ==
    /\ CanManage(p) /\ MayFile /\ release[r] = Absent
    /\ release' = [release EXCEPT ![r] = [status |-> "PLANNED", approved |-> FALSE, records |-> {}]]
    /\ UNCHANGED <<system, update, bug, request, link, handler, disturbed>>

(* changeReleaseTask and changeReleasePullRequest look at no status.       *)
changeReleaseTask(p, r, add) ==
    /\ CanManage(p) /\ release[r] # Absent
    /\ link' = IF add THEN link \cup {<<r, "task">>} ELSE link \ {<<r, "task">>}
    /\ UNCHANGED <<system, tables, handler, disturbed>>

changeReleasePullRequest(p, r, add) ==
    /\ CanManage(p) /\ release[r] # Absent
    /\ IF add THEN link' = link \cup {<<r, "pullRequest">>}
       ELSE <<r, "pullRequest">> \in link /\ link' = link \ {<<r, "pullRequest">>}
    /\ UNCHANGED <<system, tables, handler, disturbed>>

ApproveReleaseRead(w, p, r) ==
    /\ p \in Admins
    /\ release[r].status = "PENDING_APPROVAL"
    /\ Start(w, [step |-> "approveRelease", id |-> r, fresh |-> TRUE])
    /\ UNCHANGED <<system, tables, link, disturbed>>

(* By id: whatever became of the release since it was read.                *)
ApproveReleaseWrite(w) ==
    /\ At(w, "approveRelease")
    /\ release' = [release EXCEPT ![handler[w].id].status = "APPROVED",
                                  ![handler[w].id].approved = TRUE]
    /\ Land(w, handler[w].id)
    /\ UNCHANGED <<system, update, bug, request, link>>

(* transitionRelease.  The records of deployments are a second read.       *)
ReleaseMayMove(p, r, to) ==
    /\ CanManage(p)
    /\ to \in TransitionTarget
    /\ <<release[r].status, to>> \in RELEASE_TRANSITIONS

ReleaseRead(w, p, r, to) ==
    /\ ReleaseMayMove(p, r, to)
    /\ Start(w, [step |-> IF to = "VERIFIED" THEN "deployments" ELSE "release",
                 id |-> r, from |-> release[r].status, to |-> to, fresh |-> TRUE])
    /\ UNCHANGED <<system, tables, link, disturbed>>

HasProduction(r) == "SUCCEEDED" \in release[r].records

FindDeployment(w) ==
    /\ At(w, "deployments")
    /\ IF HasProduction(handler[w].id)
       THEN handler' = [handler EXCEPT ![w].step = "release"]
       ELSE Finish(w)
    /\ UNCHANGED <<system, tables, link, disturbed>>

ReleaseWrite(w) ==
    /\ At(w, "release")
    /\ LET h == handler[w]
       IN \/ /\ release[h.id].status = h.from
             /\ release' = [release EXCEPT ![h.id].status = h.to]
             /\ Land(w, h.id)
          \/ /\ release[h.id].status # h.from       \* "Release was changed by another user"
             /\ Finish(w)
             /\ UNCHANGED <<release, disturbed>>
    /\ UNCHANGED <<system, update, bug, request, link>>

(* recordDeployment, PRODUCTION                                            *)
(* Mutant: the status is not looked at.                                    *)
X_Recordable(r) == release[r].approved
Recordable(r) == release[r].approved /\ release[r].status \in {"APPROVED", "DEPLOYED"}

RecordRead(w, p, r, status) ==
    /\ p \in Admins
    /\ release[r] # Absent
    /\ Recordable(r)
    /\ Start(w, [step |-> "record", id |-> r, from |-> release[r].status, to |-> status,
                 fresh |-> TRUE])
    /\ UNCHANGED <<system, tables, link, disturbed>>

(* The deployment is created, and the release moved by a second write when *)
(* it was read as APPROVED (a success) or DEPLOYED (a rollback).           *)
RecordCreate(w) ==
    /\ At(w, "record")
    /\ LET h == handler[w]
           Ship(to) == [step |-> "ship", id |-> h.id, from |-> h.from, to |-> to, fresh |-> h.fresh]
       IN /\ release' = [release EXCEPT ![h.id].records = @ \cup {h.to}]
          /\ handler' = [handler EXCEPT ![w] =
                IF h.to = "SUCCEEDED" /\ h.from = "APPROVED" THEN Ship("DEPLOYED")
                ELSE IF h.to = "ROLLED_BACK" /\ h.from = "DEPLOYED" THEN Ship("ROLLED_BACK")
                ELSE Idle]
    /\ UNCHANGED <<system, update, bug, request, link, disturbed>>

ShipWrite(w) ==
    /\ At(w, "ship")
    /\ LET h == handler[w]
       IN IF release[h.id].status = h.from
          THEN /\ release' = [release EXCEPT ![h.id].status = h.to]
               /\ Land(w, h.id)
          ELSE /\ Finish(w)
               /\ disturbed' = disturbed \cup {h.id}
               /\ UNCHANGED release
    /\ UNCHANGED <<system, update, bug, request, link>>

(* A call that fails, or whose process dies, between two awaits.           *)
Abort(w) ==
    /\ handler[w] # Idle
    /\ Finish(w)
    /\ disturbed' = IF At(w, "ship") THEN disturbed \cup {handler[w].id} ELSE disturbed
    /\ UNCHANGED <<system, tables, link>>

-----------------------------------------------------------------------------
Create(p) ==
    \/ createSystem(p)
    \/ \E u \in Updates : createUpdate(p, u)
    \/ \E b \in Bugs : createBug(p, b)
    \/ \E q \in Requests, assignee \in Engineers \cup {Nobody}, scheduled, recurring \in BOOLEAN :
          createMaintenance(p, q, assignee, scheduled, recurring)
    \/ \E r \in Releases : createRelease(p, r)
    \/ \E r \in Releases, add \in BOOLEAN :
          changeReleaseTask(p, r, add) \/ changeReleasePullRequest(p, r, add)

Call(w, p) ==
    \/ \E u \in Present(update) : \/ \E to \in UpdateStatus : UpdateRead(w, p, u, to)
                                  \/ ApproveUpdateRead(w, p, u)
    \/ \E b \in Present(bug), to \in BugStatus, assignee \in Engineers \cup {Nobody, Keep} :
          BugRead(w, p, b, to, assignee)
    \/ \E q \in Present(request), to \in RequestStatus, assignee \in Engineers \cup {Nobody, Keep},
          date \in {"date", "null", Keep} : MaintenanceRead(w, p, q, to, assignee, date)
    \/ \E r \in Present(release) : \/ ApproveReleaseRead(w, p, r)
                                   \/ \E to \in ReleaseStatus : ReleaseRead(w, p, r, to)
                                   \/ \E status \in {"SUCCEEDED", "FAILED", "ROLLED_BACK"} :
                                         RecordRead(w, p, r, status)

Proceed(w) ==
    \/ UpdateWrite(w) \/ ApproveUpdateWrite(w)
    \/ BugWrite(w)
    \/ MaintenanceWrite(w)
    \/ ApproveReleaseWrite(w) \/ FindDeployment(w) \/ ReleaseWrite(w)
    \/ RecordCreate(w) \/ ShipWrite(w)
    \/ Abort(w)

Next ==
    \/ \E p \in People : Create(p) \/ \E w \in Handlers : Call(w, p)
    \/ \E w \in Handlers : Proceed(w)

Spec == Init /\ [][Next]_vars

-----------------------------------------------------------------------------
(* Nothing reaches production unapproved, whatever overlaps: an update is  *)
(* deployed, verified or completed only after an administrator approved it *)
(* while it waited for that, and once approved it is never back in         *)
(* development; a release is approved before anything of it is recorded as *)
(* being in production, and DEPLOYED and VERIFIED have a record that says  *)
(* so (transitionUpdate, approveUpdateProduction, recordDeployment).       *)
(* recordDeployment writes the record first and the release second: one    *)
(* with a success on record is cancelled only when calls overlapped on it  *)
(* or a recording broke off or is still between its writes.                *)
UpdateGate ==
    \A u \in Present(update) :
        /\ update[u].status \in {"DEPLOYED", "VERIFIED", "COMPLETED"} => update[u].approved
        /\ update[u].approved => update[u].status \in
              {"PRODUCTION_APPROVAL", "DEPLOYED", "VERIFIED", "COMPLETED", "CANCELLED"}

ReleaseGate ==
    \A r \in Present(release) :
        /\ release[r].status \in {"APPROVED", "DEPLOYED", "VERIFIED", "ROLLED_BACK"}
              \/ release[r].records # {} => release[r].approved
        /\ release[r].status \in {"DEPLOYED", "VERIFIED"} => HasProduction(r)
        /\ release[r].status = "CANCELLED" /\ HasProduction(r) =>
              r \in disturbed \/ \E w \in Handlers : At(w, "ship") /\ handler[w].id = r

ProductionGate == UpdateGate /\ ReleaseGate

(* A recurring request has one next occurrence exactly when it is          *)
(* completed, however many calls complete, move or cancel it at once; no   *)
(* other request has one, and work in progress has somebody on it          *)
(* (updateMaintenance's transaction).                                      *)
OneNextOccurrence ==
    \A q \in Present(request) :
        /\ Cardinality({n \in Present(request) : request[n].after = q}) =
              IF request[q].recurring /\ request[q].status = "COMPLETED" THEN 1 ELSE 0
        /\ request[q].status = "IN_PROGRESS" => request[q].assignee # Nobody

(* The dates a bug carries fit its status: it is answered once it left     *)
(* REPORTED, and it has a date of resolution exactly while it is RESOLVED  *)
(* or CLOSED, unless two updates of it overlapped (updateBug writes by     *)
(* id).                                                                    *)
BugDatesExplained ==
    \A b \in Present(bug) :
        /\ bug[b].responded <=> bug[b].status # "REPORTED"
        /\ b \notin disturbed => (bug[b].resolved <=> bug[b].status \in {"RESOLVED", "CLOSED"})

(* Every change of a status is a move of its table.  Updates and           *)
(* maintenance keep to this at every interleaving, and a maintenance       *)
(* request is never even written from a stale read (its table has no way   *)
(* back, so that an equal status means an unchanged row); a bug or release *)
(* leaves its table only by a write over a row that changed under it.      *)
Follows(table, transitions) ==
    \A id \in Present(table) :
        table'[id].status # table[id].status => <<table[id].status, table'[id].status>> \in transitions

MovesStep ==
    /\ Follows(update, UPDATE_TRANSITIONS)
    /\ Follows(request, MAINTENANCE_TRANSITIONS)
    /\ disturbed' \cap Requests = {}
    /\ \A b \in Present(bug) : bug'[b].status # bug[b].status =>
          <<bug[b].status, bug'[b].status>> \in allowedBugTransitions \/ b \in disturbed'
    /\ \A r \in Present(release) : release'[r].status # release[r].status =>
          \/ <<release[r].status, release'[r].status>> \in
                RELEASE_TRANSITIONS \cup {<<"PENDING_APPROVAL", "APPROVED">>}
          \/ r \in disturbed'

StatusMoves == [][MovesStep]_vars

-----------------------------------------------------------------------------
(* Bugs and maintenance requests as the escalation of service levels sees  *)
(* them.                                                                   *)
ServiceRow(id) ==
    IF id \in Bugs
    THEN [open |-> bug[id].status \notin {"RESOLVED", "CLOSED"},
          responded |-> bug[id].responded, resolved |-> bug[id].resolved]
    ELSE [open |-> request[id].status \notin {"COMPLETED", "CANCELLED"},
          responded |-> request[id].responded, resolved |-> request[id].status = "COMPLETED"]

SL == INSTANCE ServiceLevel WITH
    Rows <- Bugs \cup Requests,
    row <- [id \in Bugs \cup Requests |->
               IF id \in Present(bug) \cup Present(request) THEN ServiceRow(id)
               ELSE [open |-> FALSE]]

(* What SlaEscalation assumes of its rows is what the calls do: a row is   *)
(* new, open and unanswered when it appears (the next occurrence too), and *)
(* an answer that stopped the response deadline is never taken back, also  *)
(* not by an update that overlaps another (updateBug, updateMaintenance).  *)
AsServiceLevels == SL!RowsSpec
=============================================================================
