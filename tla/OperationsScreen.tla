-------------------------- MODULE OperationsScreen --------------------------
(***************************************************************************)
(* The pages that work on Operations: EngineeringOperationsPage.tsx and    *)
(* the bugs of EngineeringWorkspacePage.tsx (frontend/src/features/        *)
(* engineering).                                                           *)
(*                                                                         *)
(* A page shows rows as they were when it loaded them, offers commands by  *)
(* tables of its own (UPDATE_NEXT and its siblings) and sends the status   *)
(* to move to, not the status it showed.  The service decides on the row   *)
(* as it is.  So the two sets of tables have to fit together, and a click  *)
(* on an outdated page can be accepted and do something else than what was *)
(* offered.                                                                *)
(*                                                                         *)
(* A tab is a handler of Operations whose calls come from a page; the      *)
(* calls of the other handlers come from anywhere.  may is what the        *)
(* account may do: engineering.manage, engineering.tasks.create.           *)
(***************************************************************************)
EXTENDS Operations, Sequences

CONSTANT Tabs     \* the handlers that serve the clicks of a page

ASSUME TabsAssumption == Tabs \subseteq Handlers

VARIABLE shown    \* [Tabs -> the rows that the page last loaded]

screenVars == <<vars, shown>>

-----------------------------------------------------------------------------
UPDATE_NEXT ==
    {<<"REQUESTED", "APPROVED">>, <<"APPROVED", "ASSIGNED">>, <<"ASSIGNED", "IN_DEVELOPMENT">>,
     <<"IN_DEVELOPMENT", "CODE_REVIEW">>, <<"CODE_REVIEW", "IN_DEVELOPMENT">>,
     <<"CODE_REVIEW", "TESTING">>, <<"TESTING", "IN_DEVELOPMENT">>, <<"TESTING", "STAGING">>,
     <<"STAGING", "TESTING">>, <<"STAGING", "PRODUCTION_APPROVAL">>,
     <<"PRODUCTION_APPROVAL", "DEPLOYED">>, <<"DEPLOYED", "VERIFIED">>, <<"VERIFIED", "COMPLETED">>}
    \cup {"REQUESTED", "APPROVED", "ASSIGNED", "IN_DEVELOPMENT"} \X {"CANCELLED"}

BUG_NEXT ==
    {<<"REPORTED", "TRIAGED">>, <<"REPORTED", "ASSIGNED">>, <<"TRIAGED", "ASSIGNED">>,
     <<"ASSIGNED", "IN_PROGRESS">>, <<"CODE_REVIEW", "IN_PROGRESS">>, <<"CODE_REVIEW", "TESTING">>,
     <<"TESTING", "IN_PROGRESS">>, <<"TESTING", "RESOLVED">>,
     <<"RESOLVED", "CLOSED">>, <<"RESOLVED", "REOPENED">>, <<"CLOSED", "REOPENED">>}
    \cup {"IN_PROGRESS"} \X {"CODE_REVIEW", "TESTING", "RESOLVED"}
    \cup {"REOPENED"} \X {"TRIAGED", "ASSIGNED", "IN_PROGRESS"}

MAINTENANCE_NEXT ==
    {<<"REQUESTED", "SCHEDULED">>, <<"REQUESTED", "IN_PROGRESS">>, <<"SCHEDULED", "IN_PROGRESS">>,
     <<"IN_PROGRESS", "COMPLETED">>}
    \cup {"REQUESTED", "SCHEDULED", "IN_PROGRESS"} \X {"CANCELLED"}

(* Mutant: a verified release is not offered its roll-back.                *)
X_RELEASE_NEXT ==
    {<<"PLANNED", "IN_PROGRESS">>, <<"IN_PROGRESS", "PENDING_APPROVAL">>,
     <<"PENDING_APPROVAL", "IN_PROGRESS">>, <<"DEPLOYED", "VERIFIED">>, <<"DEPLOYED", "ROLLED_BACK">>}
    \cup {"PLANNED", "IN_PROGRESS", "PENDING_APPROVAL"} \X {"CANCELLED"}

(* An approved release is offered no move, not even CANCELLED.             *)
RELEASE_NEXT ==
    {<<"PLANNED", "IN_PROGRESS">>, <<"IN_PROGRESS", "PENDING_APPROVAL">>,
     <<"PENDING_APPROVAL", "IN_PROGRESS">>, <<"DEPLOYED", "VERIFIED">>,
     <<"DEPLOYED", "ROLLED_BACK">>, <<"VERIFIED", "ROLLED_BACK">>}
    \cup {"PLANNED", "IN_PROGRESS", "PENDING_APPROVAL"} \X {"CANCELLED"}

-----------------------------------------------------------------------------
(* What a page shows, and the commands it offers on a row that it shows.   *)
Showing(table, fields) ==
    [id \in DOMAIN table |-> [f \in DOMAIN table[id] \cap fields |-> table[id][f]]]
Loaded == [update |-> Showing(update, {"status", "approved"}),
           bug |-> Showing(bug, {"status", "assignee"}),
           request |-> Showing(request, {"status", "assignee", "scheduled"}),
           release |-> Showing(release, {"status"})]
Nothing == [update |-> [u \in Updates |-> Absent], bug |-> [b \in Bugs |-> Absent],
            request |-> [q \in Requests |-> Absent], release |-> [r \in Releases |-> Absent]]

Command(do, id, to, assignee, date) ==
    [do |-> do, id |-> id, to |-> to, assignee |-> assignee, date |-> date]
Plain(do, id, to) == Command(do, id, to, Keep, Keep)

Following(next, row) == {move[2] : move \in {m \in next : m[1] = row.status}}

OfferedUpdate(u, row, may) ==
    IF "manage" \notin may THEN {}
    ELSE {Plain("update", u, to) : to \in {t \in Following(UPDATE_NEXT, row) : t = "DEPLOYED" => row.approved}}
         \cup (IF AwaitsApproval(row) THEN {Plain("approveUpdate", u, "APPROVED")} ELSE {})

(* The buttons of a bug are shown to everybody; ASSIGNED asks for one of   *)
(* the engineers that the page lists.                                      *)
OfferedBug(b, row) ==
    UNION {{Command("bug", b, to, assignee, Keep) :
               assignee \in IF to = "ASSIGNED" THEN Engineers ELSE {Keep}} :
           to \in Following(BUG_NEXT, row)}

(* The workspace offers a manager to assign any bug that is not closed,    *)
(* and the assignee to start and to resolve it.                            *)
OfferedInWorkspace(p, b, row, may) ==
    {Command("bug", b, "ASSIGNED", e, Keep) :
        e \in {e \in Engineers : "manage" \in may /\ row.status # "CLOSED"}}
    \cup {Plain("bug", b, to) :
        to \in {to \in Following({<<"ASSIGNED", "IN_PROGRESS">>, <<"IN_PROGRESS", "RESOLVED">>}, row) :
                 row.assignee = p}}

(* The date and the engineer are asked for when the row lacks them.        *)
OfferedRequest(q, row) ==
    UNION {{Command("maintenance", q, to, assignee, IF to = "SCHEDULED" /\ ~row.scheduled THEN "date" ELSE Keep) :
               assignee \in IF to = "IN_PROGRESS" /\ row.assignee = Nobody THEN Engineers ELSE {Keep}} :
           to \in Following(MAINTENANCE_NEXT, row)}

OfferedRelease(r, row, may) ==
    IF "manage" \notin may THEN {}
    ELSE {Plain("release", r, to) : to \in Following(RELEASE_NEXT, row)}
         \cup (IF row.status = "PENDING_APPROVAL" THEN {Plain("approveRelease", r, "APPROVED")} ELSE {})
         \cup (IF row.status \in {"APPROVED", "DEPLOYED"}
               THEN {Plain("record", r, to) : to \in {"SUCCEEDED", "FAILED", "ROLLED_BACK"}} ELSE {})

(* The links that a release is shown with are taken to be up to date: they *)
(* depend on no status and no status depends on them.                      *)
OfferedLink(r, may) ==
    {c \in {Plain("task", r, IF <<r, "task">> \in link THEN "unlink" ELSE "link"),
            Plain("pullRequest", r, IF <<r, "pullRequest">> \in link THEN "unlink" ELSE "link")} :
        "manage" \in may}

Offered(p, rows, may) ==
    UNION ({OfferedUpdate(u, rows.update[u], may) : u \in Present(rows.update)}
           \cup {OfferedBug(b, rows.bug[b]) : b \in Present(rows.bug)}
           \cup {OfferedInWorkspace(p, b, rows.bug[b], may) : b \in Present(rows.bug)}
           \cup {OfferedRequest(q, rows.request[q]) : q \in Present(rows.request)}
           \cup {OfferedRelease(r, rows.release[r], may) : r \in Present(rows.release)}
           \cup {OfferedLink(r, may) : r \in Present(rows.release)})

(* The forms, which file a new row.                                        *)
Form(p, may) ==
    \/ \E b \in Bugs : createBug(p, b) /\ may # {}
    \/ /\ "manage" \in may
       /\ \/ createSystem(p)
          \/ \E u \in Updates : createUpdate(p, u)
          \/ \E q \in Requests, assignee \in Engineers \cup {Nobody}, scheduled, recurring \in BOOLEAN :
                createMaintenance(p, q, assignee, scheduled, recurring)
          \/ \E r \in Releases : createRelease(p, r)

-----------------------------------------------------------------------------
(* The routes ask for a permission before the service sees the call.       *)
Routed(may, c) ==
    IF c.do \in {"bug", "maintenance"} THEN may # {} ELSE "manage" \in may

Accepts(p, may, c) ==
    /\ Routed(may, c)
    /\ CASE c.do = "update"         -> UpdateMayMove(p, c.id, c.to)
         [] c.do = "approveUpdate"  -> p \in Admins /\ AwaitsApproval(update[c.id])
         [] c.do = "bug"            -> BugMayMove(p, c.id, c.to, c.assignee)
         [] c.do = "maintenance"    -> RequestMayMove(p, c.id, c.to, c.assignee, c.date)
         [] c.do = "release"        -> ReleaseMayMove(p, c.id, c.to)
         [] c.do = "approveRelease" -> p \in Admins /\ release[c.id].status = "PENDING_APPROVAL"
         [] c.do = "record"         -> p \in Admins /\ Recordable(c.id)
         [] c.do = "task"           -> CanManage(p)
         [] c.do = "pullRequest"    -> CanManage(p) /\
                                       (c.to = "unlink" => <<c.id, "pullRequest">> \in link)

Send(w, p, c) ==
    \/ c.do = "update" /\ UpdateRead(w, p, c.id, c.to)
    \/ c.do = "approveUpdate" /\ ApproveUpdateRead(w, p, c.id)
    \/ c.do = "bug" /\ BugRead(w, p, c.id, c.to, c.assignee)
    \/ c.do = "maintenance" /\ MaintenanceRead(w, p, c.id, c.to, c.assignee, c.date)
    \/ c.do = "release" /\ ReleaseRead(w, p, c.id, c.to)
    \/ c.do = "approveRelease" /\ ApproveReleaseRead(w, p, c.id)
    \/ c.do = "record" /\ RecordRead(w, p, c.id, c.to)
    \/ c.do = "task" /\ changeReleaseTask(p, c.id, c.to = "link")
    \/ c.do = "pullRequest" /\ changeReleasePullRequest(p, c.id, c.to = "link")

Permissions == {{}, {"create"}, {"create", "manage"}}

(* A click that the service refuses changes nothing but a message.         *)
Click(w, p) ==
    /\ handler[w] = Idle
    /\ \E may \in Permissions : \E c \in Offered(p, shown[w], may) : Routed(may, c) /\ Send(w, p, c)
    /\ UNCHANGED shown

Submit(p) == (\E may \in Permissions : Form(p, may)) /\ UNCHANGED shown

(* A query of the page: when it is opened, after each of its own commands  *)
(* (refresh), and when its data is older than the client keeps it.         *)
Load(w) == shown' = [shown EXCEPT ![w] = Loaded] /\ UNCHANGED vars

Elsewhere ==
    /\ \/ \E w \in Handlers \ Tabs, p \in People : Call(w, p)
       \/ \E w \in Handlers : Proceed(w)
    /\ UNCHANGED shown

ScreenInit == Init /\ shown = [w \in Tabs |-> Nothing]

ScreenNext ==
    \/ \E p \in People : Submit(p) \/ \E w \in Tabs : Click(w, p)
    \/ \E w \in Tabs : Load(w)
    \/ Elsewhere

ScreenSpec == ScreenInit /\ [][ScreenNext]_screenVars

-----------------------------------------------------------------------------
(* What a page offers on the rows as they are, the service accepts: from   *)
(* an administrator everything but a new engineer for a bug that already   *)
(* has work on it (the workspace offers that, and updateBug refuses        *)
(* ASSIGNED from there); from a manager of the project everything but that *)
(* and the three acts of an administrator; from the engineer a bug or a    *)
(* request is assigned to, every step of the work.  (While calls are in    *)
(* flight there is nothing to add: any of them may fail and leave the same *)
(* rows at rest.)                                                          *)
Reassigns(c) == c.do = "bug" /\ c.to = "ASSIGNED"
                /\ bug[c.id].status \notin {"REPORTED", "TRIAGED", "REOPENED"}
AdministratorOnly(c) == c.do \in {"approveUpdate", "approveRelease", "record"}
WorkOn(c) == c.do \in {"bug", "maintenance"} /\ c.assignee = Keep /\ c.to \notin {"CLOSED", "CANCELLED"}
AssigneeOf(c) == IF c.do = "bug" THEN bug[c.id].assignee ELSE request[c.id].assignee

AtRest == \A w \in Handlers : handler[w] = Idle

OffersHonoured ==
    AtRest => \A p \in People, may \in Permissions \ {{}} : \A c \in Offered(p, Loaded, may) :
        \/ Accepts(p, may, c)
        \/ p \in Admins /\ (Reassigns(c) \/ ~Routed(may, c))
        \/ p \in Managers /\ (Reassigns(c) \/ AdministratorOnly(c))
        \/ p \in Engineers /\ ~(WorkOn(c) /\ AssigneeOf(c) = p)

(* No row is stuck: short of its last status there is always a command     *)
(* that a page offers somebody and the service accepts from them.  (An     *)
(* approved release is offered the record of its deployment only; a        *)
(* deployed one is verified only with a success on record, which it always *)
(* has.)                                                                   *)
Ended == {"CANCELLED", "COMPLETED", "ROLLED_BACK"}

NoDeadEnd ==
    AtRest => \A id \in Present(update) \cup Present(bug) \cup Present(request) \cup Present(release) :
        \/ id \in Updates /\ update[id].status \in Ended
        \/ id \in Requests /\ request[id].status \in Ended
        \/ id \in Releases /\ release[id].status \in Ended
        \/ \E p \in People : \E c \in Offered(p, Loaded, {"create", "manage"}) :
              c.id = id /\ c.do \notin {"task", "pullRequest"} /\ Accepts(p, {"create", "manage"}, c)

(* The pages fit the service: it accepts what they offer, and they offer a *)
(* way on from every status (EngineeringOperationsPage.tsx against         *)
(* engineering-operations.service.ts).                                     *)
PagesFit == OffersHonoured /\ NoDeadEnd

(* A click on an outdated page takes a row the way it was offered, forward *)
(* or back, with these exceptions.  A step that was offered as one forward *)
(* takes back                                                              *)
(*   - an update in review or testing to development, by a page that still *)
(*     shows it as assigned; one in staging to testing, by a page that     *)
(*     still shows it in review;                                           *)
(*   - a bug in review or testing to the work on it, by a page that still  *)
(*     shows it as assigned or reopened;                                   *)
(*   - a release that waits for its approval to work, by a page that still *)
(*     shows it as planned.                                                *)
(* And a step that was offered as one back takes forward                   *)
(*   - an update out of its review, when the page still shows it in        *)
(*     staging and offers to test it again;                                *)
(*   - a bug that is assigned or open again into work, when the page still *)
(*     shows it in review or testing.                                      *)
(* No such click takes back what was approved for production or is there.  *)
(* (Handing a bug to an engineer is offered at every status but CLOSED,    *)
(* and has no direction.)                                                  *)
UpdateOrder == <<"REQUESTED", "APPROVED", "ASSIGNED", "IN_DEVELOPMENT", "CODE_REVIEW", "TESTING",
                 "STAGING", "PRODUCTION_APPROVAL", "DEPLOYED", "VERIFIED", "COMPLETED">>
BugOrder == <<"REOPENED", "REPORTED", "TRIAGED", "ASSIGNED", "IN_PROGRESS", "CODE_REVIEW",
              "TESTING", "RESOLVED", "CLOSED">>
RequestOrder == <<"REQUESTED", "SCHEDULED", "IN_PROGRESS", "COMPLETED">>
ReleaseOrder == <<"PLANNED", "IN_PROGRESS", "PENDING_APPROVAL", "APPROVED", "DEPLOYED", "VERIFIED",
                  "ROLLED_BACK">>

Before(order, s, t) ==
    \E i, j \in DOMAIN order : i < j /\ order[i] = s /\ order[j] = t

TakesBack ==
    {<<"ASSIGNED", "CODE_REVIEW", "IN_DEVELOPMENT">>, <<"ASSIGNED", "TESTING", "IN_DEVELOPMENT">>,
     <<"CODE_REVIEW", "STAGING", "TESTING">>,
     <<"PLANNED", "PENDING_APPROVAL", "IN_PROGRESS">>}
    \cup {"ASSIGNED", "REOPENED"} \X {"CODE_REVIEW", "TESTING"} \X {"IN_PROGRESS"}

TakesForward ==
    {<<"STAGING", "CODE_REVIEW", "TESTING">>}
    \cup {"CODE_REVIEW", "TESTING"} \X {"ASSIGNED", "REOPENED"} \X {"IN_PROGRESS"}

AsOffered(w, order, row) ==
    LET h == handler'[w]
    IN \/ row = Absent                                  \* no click: the page does not show it
       \/ h.to = "ASSIGNED" /\ h.step = "bug"
       \/ Before(order, row.status, h.to) <=> Before(order, h.from, h.to)
       \/ <<row.status, h.from, h.to>> \in TakesBack \cup TakesForward

ClickStep ==
    \A w \in Tabs : At(w, "idle") /\ handler'[w] # Idle =>
        LET h == handler'[w]
        IN CASE h.step = "update"  -> AsOffered(w, UpdateOrder, shown[w].update[h.id])
             [] h.step = "bug"     -> AsOffered(w, BugOrder, shown[w].bug[h.id])
             [] h.step = "maintenance" -> AsOffered(w, RequestOrder, shown[w].request[h.id])
             [] h.step \in {"release", "deployments"} ->
                                      AsOffered(w, ReleaseOrder, shown[w].release[h.id])
             [] OTHER -> TRUE

OutdatedClicks == [][ClickStep]_screenVars
=============================================================================
