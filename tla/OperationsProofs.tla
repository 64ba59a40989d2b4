-------------------------- MODULE OperationsProofs --------------------------
(***************************************************************************)
(* Proofs about Operations for every set of rows, people and calls in      *)
(* flight, and about SlaEscalation for every number of scans.              *)
(*                                                                         *)
(* The four tables share one argument: a call holds what it read of its    *)
(* row, and what it holds stays true until it writes, because everybody    *)
(* else's write keeps it (UpdateKnows, BugKnows, RequestKnows,             *)
(* ReleaseKnows).  Each table has an invariant that says so of its rows    *)
(* and calls; an action of one table leaves the calls of the others as     *)
(* they are (OnlyEnds), so that the four can be proved one by one and      *)
(* combined (IInv).                                                        *)
(*                                                                         *)
(* The last part is about OperationsScreen: a click is a call of           *)
(* Operations, what a page shows was once there (ScreenInv), and the       *)
(* tables of the pages are compared with those of the service.             *)
(***************************************************************************)
EXTENDS OperationsScreen, SlaEscalation, FiniteSetTheorems, SequenceTheorems, TLAPS

UpdateSteps == {"update", "approveUpdate"}
ReleaseSteps == {"approveRelease", "deployments", "release", "record", "ship"}

(* The compare-and-set tells a call that its status is still the one it    *)
(* read; that the update is approved, it has only read.  Approval is never *)
(* taken back.                                                             *)
UpdateKnows(h) ==
    /\ h.step \in UpdateSteps => update[h.id] # Absent
    /\ h.step = "update" =>
          /\ <<h.from, h.to>> \in UPDATE_TRANSITIONS
          /\ h.to = "DEPLOYED" => update[h.id].approved

UpdatesOK ==
    /\ update \in [Updates -> UpdateRow \cup {Absent}]
    /\ UpdateGate
    /\ \A w \in Handlers : UpdateKnows(handler[w])

(* updateBug writes by id: fresh is all that says the status is still the  *)
(* one that was read.                                                      *)
BugKnows(h) ==
    h.step = "bug" =>
        /\ bug[h.id] # Absent
        /\ <<h.from, h.to>> \in allowedBugTransitions
        /\ h.from # "REPORTED" => bug[h.id].responded
        /\ h.fresh => bug[h.id].status = h.from

BugsOK ==
    /\ bug \in [Bugs -> BugRow \cup {Absent}]
    /\ BugDatesExplained
    /\ \A w \in Handlers : BugKnows(handler[w])

(* A maintenance request only moves forward.                               *)
Progress(status) ==
    IF status = "REQUESTED" THEN 0 ELSE IF status = "SCHEDULED" THEN 1
    ELSE IF status = "IN_PROGRESS" THEN 2 ELSE 3

(* A stale call finds the request further on than it read it, so that the  *)
(* compare-and-set fails: an equal status means an unchanged row.          *)
RequestKnows(h) ==
    h.step = "maintenance" =>
        /\ request[h.id] # Absent
        /\ <<h.from, h.to>> \in MAINTENANCE_TRANSITIONS
        /\ h.to = "IN_PROGRESS" => h.assignee # Nobody
        /\ request[h.id].recurring => h.scheduled
        /\ h.fresh => request[h.id].status = h.from
        /\ ~h.fresh => Progress(h.from) < Progress(request[h.id].status)

(* The next occurrences of a request.                                      *)
NextOf(q) == {n \in Requests : request[n] # Absent /\ request[n].after = q}

RecursOnce ==
    \A q \in Requests :
        /\ request[q] # Absent /\ request[q].recurring /\ request[q].status = "COMPLETED" =>
              \E n \in Requests : NextOf(q) = {n}
        /\ ~(request[q] # Absent /\ request[q].recurring /\ request[q].status = "COMPLETED") =>
              NextOf(q) = {}
        /\ request[q] # Absent /\ request[q].status = "IN_PROGRESS" => request[q].assignee # Nobody

RequestsOK ==
    /\ request \in [Requests -> RequestRow \cup {Absent}]
    /\ RecursOnce
    /\ \A w \in Handlers : RequestKnows(handler[w])

Shipped == {"DEPLOYED", "VERIFIED", "ROLLED_BACK"}

(* Approval and the records of deployments only grow.                      *)
ReleaseKnows(h) ==
    /\ h.step \in ReleaseSteps => release[h.id] # Absent
    /\ h.step = "approveRelease" /\ h.fresh => release[h.id].status = "PENDING_APPROVAL"
    /\ h.step \in {"deployments", "release"} =>
          /\ <<h.from, h.to>> \in RELEASE_TRANSITIONS
          /\ h.to \in TransitionTarget
    /\ h.step = "release" /\ h.to = "VERIFIED" => HasProduction(h.id)
    /\ h.step \in {"record", "ship"} => release[h.id].approved
    /\ h.step = "record" =>
          /\ h.from \in {"APPROVED", "DEPLOYED"}
          /\ h.from = "DEPLOYED" => HasProduction(h.id)
    /\ h.step = "ship" =>
          /\ <<h.from, h.to>> \in {<<"APPROVED", "DEPLOYED">>, <<"DEPLOYED", "ROLLED_BACK">>}
          /\ HasProduction(h.id)

Shipping(r) == \E w \in Handlers : At(w, "ship") /\ handler[w].id = r

(* Between the two writes of recordDeployment, and after a recording that  *)
(* broke off there, a release has a success on record and no status for it. *)
RecordsExplained ==
    \A r \in Releases :
        release[r] # Absent /\ HasProduction(r) /\ release[r].status \notin Shipped =>
            r \in disturbed \/ Shipping(r)

ReleasesOK ==
    /\ release \in [Releases -> ReleaseRow \cup {Absent}]
    /\ ReleaseGate
    /\ RecordsExplained
    /\ \A w \in Handlers : ReleaseKnows(handler[w])

HandlersOK == handler \in [Handlers -> Handler]

-----------------------------------------------------------------------------
(* The table of updates: what is approved for production stays there.      *)
LEMMA UpdateMoves ==
    ASSUME NEW s, NEW t, <<s, t>> \in UPDATE_TRANSITIONS
    PROVE  /\ s \in UpdateStatus /\ t \in UpdateStatus
           /\ t \in {"DEPLOYED", "VERIFIED", "COMPLETED"} =>
                 s \in {"PRODUCTION_APPROVAL", "DEPLOYED", "VERIFIED"}
           /\ s \in {"DEPLOYED", "VERIFIED", "PRODUCTION_APPROVAL"} => t \in {"DEPLOYED", "VERIFIED", "COMPLETED", "CANCELLED"}
           /\ s # "ABSENT" /\ t # "ABSENT"
<1>1. s \in UpdateStatus /\ t \in UpdateStatus
  BY DEF UpdateStatus, Ends
<1> QED
  BY <1>1 DEF UPDATE_TRANSITIONS

(* A call of each kind, by its step.                                       *)
LEMMA CallTypes ==
    ASSUME NEW h \in Handler
    PROVE  /\ h.step \in {"idle", "bug", "maintenance"} \cup UpdateSteps \cup ReleaseSteps
           /\ h.step = "idle" <=> h = Idle
           /\ h.step = "update" => h \in [step : {"update"}, id : Updates, from : UpdateStatus, to : UpdateStatus, fresh : BOOLEAN]
           /\ h.step = "approveUpdate" => h \in [step : {"approveUpdate"}, id : Updates, fresh : BOOLEAN]
           /\ h.step = "bug" => h \in [step : {"bug"}, id : Bugs, from : BugStatus, to : BugStatus,
                                       assignee : Person \cup {Keep}, fresh : BOOLEAN]
           /\ h.step = "maintenance" => h \in [step : {"maintenance"}, id : Requests, from : RequestStatus, to : RequestStatus,
                                               assignee : Person, scheduled : BOOLEAN, fresh : BOOLEAN]
           /\ h.step \in {"deployments", "release"} =>
                h \in [step : {"deployments", "release"}, id : Releases, from : ReleaseStatus,
                       to : ReleaseStatus, fresh : BOOLEAN]
           /\ h.step = "approveRelease" => h \in [step : {"approveRelease"}, id : Releases, fresh : BOOLEAN]
           /\ h.step = "record" => h \in [step : {"record"}, id : Releases, from : ReleaseStatus,
                                           to : {"SUCCEEDED", "FAILED", "ROLLED_BACK"}, fresh : BOOLEAN]
           /\ h.step = "ship" => h \in [step : {"ship"}, id : Releases, from : {"APPROVED", "DEPLOYED"},
                                        to : {"DEPLOYED", "ROLLED_BACK"}, fresh : BOOLEAN]
  BY DEF Handler, Idle, UpdateSteps, ReleaseSteps

(* A call whose row was written goes on as before, but stale.              *)
LEMMA StaleCall ==
    ASSUME NEW h \in Handler, h # Idle
    PROVE  LET g == [h EXCEPT !.fresh = FALSE] IN
           /\ g \in Handler
           /\ g.step = h.step /\ g.id = h.id /\ g.fresh = FALSE
           /\ h.step \in {"update", "bug", "maintenance", "deployments", "release", "record", "ship"} =>
                g.from = h.from /\ g.to = h.to
           /\ h.step \in {"bug", "maintenance"} => g.assignee = h.assignee
           /\ h.step = "maintenance" => g.scheduled = h.scheduled
<1> DEFINE g == [h EXCEPT !.fresh = FALSE]
<1>1. CASE h.step = "update"
  BY <1>1, CallTypes DEF Handler
<1>2. CASE h.step = "approveUpdate"
  BY <1>2, CallTypes DEF Handler
<1>3. CASE h.step = "bug"
  BY <1>3, CallTypes DEF Handler
<1>4. CASE h.step = "maintenance"
  BY <1>4, CallTypes DEF Handler
<1>5. CASE h.step \in {"deployments", "release"}
  BY <1>5, CallTypes DEF Handler
<1>6. CASE h.step = "approveRelease"
  BY <1>6, CallTypes DEF Handler
<1>7. CASE h.step = "record"
  BY <1>7, CallTypes DEF Handler
<1>8. CASE h.step = "ship"
  BY <1>8, CallTypes DEF Handler
<1> QED
  BY <1>1, <1>2, <1>3, <1>4, <1>5, <1>6, <1>7, <1>8, CallTypes DEF UpdateSteps, ReleaseSteps

LEMMA WroteCalls ==
    ASSUME HandlersOK, NEW w \in Handlers, NEW id, Wrote(w, id)
    PROVE  /\ HandlersOK'
           /\ handler'[w] = Idle
           /\ \A v \in Handlers \ {w} : handler[v] # Idle /\ handler[v].id = id =>
                 handler'[v] = [handler[v] EXCEPT !.fresh = FALSE]
           /\ \A v \in Handlers \ {w} : handler[v] = Idle \/ handler[v].id # id =>
                 handler'[v] = handler[v]
<1>1. \A v \in Handlers : handler[v] # Idle => [handler[v] EXCEPT !.fresh = FALSE] \in Handler
  BY StaleCall DEF HandlersOK
<1>2. Idle \in Handler
  BY DEF Handler
<1> QED
  BY <1>1, <1>2 DEF HandlersOK, Wrote

LEMMA StartCalls ==
    ASSUME HandlersOK, NEW w \in Handlers, NEW h \in Handler, handler' = [handler EXCEPT ![w] = h]
    PROVE  /\ HandlersOK'
           /\ handler'[w] = h
           /\ \A v \in Handlers \ {w} : handler'[v] = handler[v]
  BY DEF HandlersOK

(* Another call of the same table goes on with the row it has read.        *)
SameCall(g, h) ==
    /\ g.step = h.step
    /\ h.step # "idle" => g.id = h.id
    /\ h.step \in {"update", "bug", "maintenance", "deployments", "release", "record", "ship"} =>
          g.from = h.from /\ g.to = h.to
    /\ h.step \in {"bug", "maintenance"} => g.assignee = h.assignee
    /\ h.step = "maintenance" => g.scheduled = h.scheduled

LEMMA WroteOthers ==
    ASSUME HandlersOK, NEW w \in Handlers, NEW id, Wrote(w, id), NEW v \in Handlers \ {w}
    PROVE  /\ SameCall(handler'[v], handler[v])
           /\ handler[v] # Idle /\ handler[v].id = id => ~handler'[v].fresh
           /\ handler[v] # Idle /\ handler[v].id # id => handler'[v] = handler[v]
<1>1. CASE handler[v] # Idle /\ handler[v].id = id
  <2>1. handler[v] \in Handler /\ handler'[v] = [handler[v] EXCEPT !.fresh = FALSE]
    BY <1>1, WroteCalls DEF HandlersOK
  <2> QED
    BY <1>1, <2>1, StaleCall DEF SameCall
<1>2. CASE handler[v] = Idle \/ handler[v].id # id
  BY <1>2, WroteCalls DEF SameCall
<1> QED
  BY <1>1, <1>2

(* What a step does to the calls of other tables: nothing.                 *)
OnlyEnds(steps) ==
    \A v \in Handlers : handler'[v].step \in steps => handler'[v] = handler[v]

LEMMA Foreign ==
    ASSUME HandlersOK, NEW w \in Handlers, NEW h, NEW id, NEW steps,
           "idle" \notin steps,
           \A v \in Handlers : handler[v].step \in steps => handler[v].id # id,
           \/ handler' = handler
           \/ handler' = [handler EXCEPT ![w] = h] /\ h.step \notin steps
           \/ Wrote(w, id)
    PROVE  OnlyEnds(steps)
<1>1. CASE handler' = handler
  BY <1>1 DEF OnlyEnds
<1>2. CASE handler' = [handler EXCEPT ![w] = h] /\ h.step \notin steps
  BY <1>2 DEF OnlyEnds, HandlersOK
<1>3. CASE Wrote(w, id)
  <2>1. ASSUME NEW v \in Handlers \ {w}, handler'[v].step \in steps
        PROVE  handler'[v] = handler[v]
    <3>1. CASE handler[v] # Idle /\ handler[v].id = id
      <4>1. handler[v] \in Handler /\ handler'[v] = [handler[v] EXCEPT !.fresh = FALSE]
        BY <1>3, <3>1, WroteCalls DEF HandlersOK
      <4>2. handler'[v].step = handler[v].step
        BY <4>1, <3>1, StaleCall
      <4> QED
        BY <2>1, <3>1, <4>2
    <3> QED
      BY <1>3, <3>1, WroteCalls
  <2>2. handler'[w].step \notin steps
    BY <1>3, WroteCalls DEF Idle
  <2> QED
    BY <2>1, <2>2 DEF OnlyEnds
<1> QED
  BY <1>1, <1>2, <1>3

-----------------------------------------------------------------------------
LEMMA UpdatesKept ==
    ASSUME UpdatesOK, OnlyEnds(UpdateSteps), update' = update
    PROVE  UpdatesOK'
<1>1. UpdateGate' /\ update' \in [Updates -> UpdateRow \cup {Absent}]
  BY DEF UpdatesOK, UpdateGate, Present
<1>2. ASSUME NEW w \in Handlers PROVE UpdateKnows(handler[w])'
  <2>1. UpdateKnows(handler[w])
    BY DEF UpdatesOK
  <2> QED
    BY <2>1 DEF UpdateKnows, OnlyEnds, UpdateSteps
<1> QED
  BY <1>1, <1>2 DEF UpdatesOK

(* A row that is written: what the others know of it holds on.             *)
LEMMA UpdatesWritten ==
    ASSUME UpdatesOK, HandlersOK, NEW w \in Handlers, NEW u \in Updates, NEW rec \in UpdateRow,
           update[u] # Absent,
           update' = [update EXCEPT ![u] = rec],
           update[u].approved => rec.approved,
           rec.status \in {"DEPLOYED", "VERIFIED", "COMPLETED"} => rec.approved,
           rec.approved => rec.status \in {"PRODUCTION_APPROVAL", "DEPLOYED", "VERIFIED", "COMPLETED", "CANCELLED"},
           Wrote(w, u)
    PROVE  UpdatesOK'
<1>1. rec # Absent
  BY DEF UpdateRow, Absent
<1>2. UpdateGate'
  BY <1>1 DEF UpdatesOK, UpdateGate, Present
<1>3. ASSUME NEW v \in Handlers PROVE UpdateKnows(handler[v])'
  <2>1. CASE v = w
    BY <2>1, WroteCalls DEF UpdateKnows, Idle, UpdateSteps
  <2>2. CASE v # w
    <3>1. handler[v] \in Handler /\ SameCall(handler'[v], handler[v])
      BY <2>2, WroteOthers DEF HandlersOK
    <3>2. UpdateKnows(handler[v])
      BY DEF UpdatesOK
    <3> QED
      BY <3>1, <3>2, <1>1, CallTypes DEF SameCall, UpdateKnows, UpdatesOK, UpdateSteps
  <2> QED
    BY <2>1, <2>2
<1> QED
  BY <1>2, <1>3 DEF UpdatesOK

LEMMA CreateUpdateKeeps ==
    ASSUME UpdatesOK, HandlersOK, NEW p, NEW u \in Updates, createUpdate(p, u)
    PROVE  UpdatesOK'
<1> DEFINE rec == [status |-> "REQUESTED", approved |-> FALSE]
<1>1. rec \in UpdateRow /\ rec # Absent
  <2>1. <<"REQUESTED", "APPROVED">> \in UPDATE_TRANSITIONS
    BY DEF UPDATE_TRANSITIONS
  <2> QED
    BY <2>1, UpdateMoves DEF UpdateRow, Absent
<1>2. UpdateGate'
  BY <1>1 DEF createUpdate, UpdatesOK, UpdateGate, Present
<1>3. ASSUME NEW v \in Handlers PROVE UpdateKnows(handler[v])'
  <2>1. UpdateKnows(handler[v]) /\ handler[v] \in Handler
    BY DEF UpdatesOK, HandlersOK
  <2> QED
    BY <2>1, <1>1, CallTypes DEF UpdateKnows, createUpdate, UpdatesOK, UpdateSteps
<1> QED
  BY <1>1, <1>2, <1>3 DEF UpdatesOK, createUpdate

LEMMA UpdateReadKeeps ==
    ASSUME UpdatesOK, HandlersOK, NEW w \in Handlers, NEW p, NEW u \in Present(update), NEW to,
           UpdateRead(w, p, u, to)
    PROVE  UpdatesOK' /\ HandlersOK'
<1> DEFINE h == [step |-> "update", id |-> u, from |-> update[u].status, to |-> to, fresh |-> TRUE]
<1>1. <<update[u].status, to>> \in UPDATE_TRANSITIONS /\ (to = "DEPLOYED" => update[u].approved)
      /\ update[u] # Absent /\ u \in Updates /\ update' = update
  BY DEF UpdateRead, UpdateMayMove, Present, UpdatesOK, tables
<1>2. h \in Handler
  BY <1>1, UpdateMoves DEF Handler
<1>3. handler' = [handler EXCEPT ![w] = h]
  BY DEF UpdateRead, Start
<1>4. ASSUME NEW v \in Handlers PROVE UpdateKnows(handler[v])'
  BY <1>1, <1>2, <1>3, StartCalls DEF UpdatesOK, UpdateKnows
<1> QED
  BY <1>1, <1>2, <1>3, <1>4, StartCalls DEF UpdatesOK, UpdateGate, Present

LEMMA UpdateWriteKeeps ==
    ASSUME UpdatesOK, HandlersOK, NEW w \in Handlers, UpdateWrite(w)
    PROVE  UpdatesOK' /\ HandlersOK'
<1> DEFINE h == handler[w]
<1>1. h \in Handler /\ h.step = "update" /\ UpdateKnows(h)
  BY DEF UpdateWrite, At, HandlersOK, UpdatesOK
<1>2. /\ h.id \in Updates /\ update[h.id] # Absent /\ update[h.id] \in UpdateRow
      /\ <<h.from, h.to>> \in UPDATE_TRANSITIONS
      /\ h.to = "DEPLOYED" => update[h.id].approved
  BY <1>1, CallTypes DEF UpdatesOK, UpdateKnows, UpdateSteps
<1>3. CASE /\ update[h.id].status = h.from
           /\ update' = [update EXCEPT ![h.id].status = h.to]
           /\ Land(w, h.id)
  <2> DEFINE rec == [update[h.id] EXCEPT !.status = h.to]
  <2>1. rec \in UpdateRow /\ rec.approved = update[h.id].approved /\ rec.status = h.to
    BY <1>2, UpdateMoves DEF UpdateRow
  <2>2. rec.status \in {"DEPLOYED", "VERIFIED", "COMPLETED"} => rec.approved
    BY <1>2, <1>3, <2>1, UpdateMoves DEF UpdatesOK, UpdateGate, Present, UPDATE_TRANSITIONS
  <2>3. rec.approved => rec.status \in {"PRODUCTION_APPROVAL", "DEPLOYED", "VERIFIED", "COMPLETED", "CANCELLED"}
    BY <1>2, <1>3, <2>1, UpdateMoves DEF UpdatesOK, UpdateGate, Present, UPDATE_TRANSITIONS
  <2>4. update' = [update EXCEPT ![h.id] = rec] /\ Wrote(w, h.id)
    BY <1>3, <1>2 DEF Land, UpdatesOK
  <2> HIDE DEF rec
  <2> QED
    BY <1>2, <2>1, <2>2, <2>3, <2>4, UpdatesWritten, WroteCalls
<1>4. CASE Finish(w) /\ UNCHANGED update
  <2>1. OnlyEnds(UpdateSteps) /\ HandlersOK'
    BY <1>4 DEF Finish, OnlyEnds, HandlersOK, Idle, UpdateSteps, Handler
  <2> QED
    BY <1>4, <2>1, UpdatesKept
<1> QED
  BY <1>3, <1>4 DEF UpdateWrite

LEMMA ApproveUpdateReadKeeps ==
    ASSUME UpdatesOK, HandlersOK, NEW w \in Handlers, NEW p, NEW u \in Present(update),
           ApproveUpdateRead(w, p, u)
    PROVE  UpdatesOK' /\ HandlersOK'
<1> DEFINE h == [step |-> "approveUpdate", id |-> u, fresh |-> TRUE]
<1>1. update[u] # Absent /\ u \in Updates /\ update' = update /\ handler' = [handler EXCEPT ![w] = h]
  BY DEF ApproveUpdateRead, Present, UpdatesOK, Start, tables
<1>2. h \in Handler
  BY <1>1 DEF Handler
<1>3. ASSUME NEW v \in Handlers PROVE UpdateKnows(handler[v])'
  BY <1>1, <1>2, StartCalls DEF UpdatesOK, UpdateKnows
<1> QED
  BY <1>1, <1>2, <1>3, StartCalls DEF UpdatesOK, UpdateGate, Present

LEMMA ApproveUpdateWriteKeeps ==
    ASSUME UpdatesOK, HandlersOK, NEW w \in Handlers, ApproveUpdateWrite(w)
    PROVE  UpdatesOK' /\ HandlersOK'
<1> DEFINE u == handler[w].id
<1>1. u \in Updates /\ update[u] # Absent /\ update[u] \in UpdateRow
  BY CallTypes DEF ApproveUpdateWrite, At, HandlersOK, UpdatesOK, UpdateKnows, UpdateSteps
<1>2. CASE AwaitsApproval(update[u]) /\ update' = [update EXCEPT ![u].approved = TRUE] /\ Land(w, u)
  <2> DEFINE rec == [update[u] EXCEPT !.approved = TRUE]
  <2>1. rec \in UpdateRow /\ rec.approved /\ rec.status = "PRODUCTION_APPROVAL"
    BY <1>1, <1>2 DEF UpdateRow, AwaitsApproval
  <2>2. update' = [update EXCEPT ![u] = rec] /\ Wrote(w, u)
    BY <1>1, <1>2 DEF Land, UpdatesOK
  <2> HIDE DEF rec
  <2> QED
    BY <1>1, <2>1, <2>2, UpdatesWritten, WroteCalls
<1>3. CASE Finish(w) /\ UNCHANGED update
  <2>1. OnlyEnds(UpdateSteps) /\ HandlersOK'
    BY <1>3 DEF Finish, OnlyEnds, HandlersOK, Idle, UpdateSteps, Handler
  <2> QED
    BY <1>3, <2>1, UpdatesKept
<1> QED
  BY <1>2, <1>3 DEF ApproveUpdateWrite

-----------------------------------------------------------------------------
(* The table of bugs: REPORTED is left for good.                           *)
LEMMA BugMoves ==
    ASSUME NEW s, NEW t, <<s, t>> \in allowedBugTransitions
    PROVE  /\ s \in BugStatus /\ t \in BugStatus
           /\ s # "ABSENT" /\ t # "ABSENT" /\ t # "REPORTED"
           /\ t = "CLOSED" => s = "RESOLVED"
           /\ s \in {"RESOLVED", "CLOSED"} => t \in {"CLOSED", "REOPENED"}
<1>1. s \in BugStatus /\ t \in BugStatus
  BY DEF BugStatus, Ends
<1> QED
  BY <1>1 DEF allowedBugTransitions

LEMMA BugsKept ==
    ASSUME BugsOK, OnlyEnds({"bug"}), bug' = bug, disturbed \subseteq disturbed'
    PROVE  BugsOK'
<1>1. BugDatesExplained' /\ bug' \in [Bugs -> BugRow \cup {Absent}]
  BY DEF BugsOK, BugDatesExplained, Present
<1>2. ASSUME NEW w \in Handlers PROVE BugKnows(handler[w])'
  <2>1. BugKnows(handler[w])
    BY DEF BugsOK
  <2> QED
    BY <2>1 DEF BugKnows, OnlyEnds
<1> QED
  BY <1>1, <1>2 DEF BugsOK

LEMMA CreateBugKeeps ==
    ASSUME BugsOK, HandlersOK, NEW p, NEW b \in Bugs, createBug(p, b)
    PROVE  BugsOK'
<1> DEFINE rec == [status |-> "REPORTED", assignee |-> Nobody, responded |-> FALSE, resolved |-> FALSE]
<1>1. rec \in BugRow /\ rec # Absent
  <2>1. <<"REPORTED", "TRIAGED">> \in allowedBugTransitions
    BY DEF allowedBugTransitions
  <2> QED
    BY <2>1, BugMoves DEF BugRow, Absent, Person
<1>2. BugDatesExplained'
  BY <1>1 DEF createBug, BugsOK, BugDatesExplained, Present
<1>3. ASSUME NEW v \in Handlers PROVE BugKnows(handler[v])'
  <2>1. BugKnows(handler[v]) /\ handler[v] \in Handler
    BY DEF BugsOK, HandlersOK
  <2> QED
    BY <2>1, <1>1, CallTypes DEF BugKnows, createBug, BugsOK
<1> QED
  BY <1>1, <1>2, <1>3 DEF BugsOK, createBug

LEMMA BugReadKeeps ==
    ASSUME BugsOK, HandlersOK, NEW w \in Handlers, NEW p, NEW b \in Present(bug), NEW to,
           NEW assignee \in Engineers \cup {Nobody, Keep}, BugRead(w, p, b, to, assignee)
    PROVE  BugsOK' /\ HandlersOK'
<1> DEFINE h == [step |-> "bug", id |-> b, from |-> bug[b].status, to |-> to,
                 assignee |-> assignee, fresh |-> TRUE]
<1>1. <<bug[b].status, to>> \in allowedBugTransitions /\ bug[b] # Absent /\ b \in Bugs /\ bug' = bug /\ disturbed' = disturbed
  BY DEF BugRead, BugMayMove, Present, BugsOK, tables
<1>2. h \in Handler
  BY <1>1, BugMoves DEF Handler, Person, People
<1>3. handler' = [handler EXCEPT ![w] = h]
  BY DEF BugRead, Start
<1>4. bug[b].status # "REPORTED" => bug[b].responded
  BY <1>1 DEF BugsOK, BugDatesExplained, Present
<1>5. ASSUME NEW v \in Handlers PROVE BugKnows(handler[v])'
  BY <1>1, <1>2, <1>3, <1>4, StartCalls DEF BugsOK, BugKnows
<1> QED
  BY <1>1, <1>2, <1>3, <1>5, StartCalls DEF BugsOK, BugDatesExplained, Present

LEMMA BugWriteKeeps ==
    ASSUME BugsOK, HandlersOK, NEW w \in Handlers, BugWrite(w)
    PROVE  BugsOK' /\ HandlersOK'
<1> DEFINE h == handler[w]
           b == h.id
           rec == BugMoved(h, bug[b])
<1>1. h \in Handler /\ h.step = "bug" /\ BugKnows(h)
  BY DEF BugWrite, At, HandlersOK, BugsOK
<1>2. /\ b \in Bugs /\ bug[b] # Absent /\ bug[b] \in BugRow
      /\ h.from \in BugStatus /\ h.to \in BugStatus /\ h.assignee \in Person \cup {Keep}
      /\ <<h.from, h.to>> \in allowedBugTransitions
  BY <1>1, CallTypes DEF BugsOK, BugKnows
<1>3. bug' = [bug EXCEPT ![b] = rec] /\ Land(w, b)
  BY DEF BugWrite
<1>4. /\ rec \in BugRow /\ rec # Absent /\ rec.status = h.to
      /\ rec.responded = (bug[b].responded \/ h.from = "REPORTED")
      /\ rec.resolved = (h.to = "RESOLVED" \/ (bug[b].resolved /\ h.to # "REOPENED"))
  BY <1>2 DEF BugMoved, BugRow, Absent
<1>5. rec.responded /\ rec.status # "REPORTED"
  BY <1>1, <1>2, <1>4, BugMoves DEF BugKnows
<1>6. h.fresh => (rec.resolved <=> rec.status \in {"RESOLVED", "CLOSED"}) \/ b \in disturbed
  <2> SUFFICES ASSUME h.fresh, b \notin disturbed
               PROVE  rec.resolved <=> rec.status \in {"RESOLVED", "CLOSED"}
    OBVIOUS
  <2>1. bug[b].resolved <=> h.from \in {"RESOLVED", "CLOSED"}
    BY <1>1, <1>2 DEF BugKnows, BugsOK, BugDatesExplained, Present
  <2>2. /\ h.to = "CLOSED" => h.from = "RESOLVED"
        /\ h.from \in {"RESOLVED", "CLOSED"} => h.to \in {"CLOSED", "REOPENED"}
    BY <1>2, BugMoves
  <2> HIDE DEF rec, h, b
  <2> QED
    BY <2>1, <2>2, <1>4
<1>7. disturbed \subseteq disturbed' /\ (~h.fresh => b \in disturbed') /\ Wrote(w, b)
  BY <1>3 DEF Land
<1> HIDE DEF rec
<1>8. BugDatesExplained'
  BY <1>2, <1>3, <1>4, <1>5, <1>6, <1>7 DEF BugsOK, BugDatesExplained, Present
<1>9. ASSUME NEW v \in Handlers PROVE BugKnows(handler[v])'
  <2>1. CASE v = w
    BY <1>7, <2>1, WroteCalls DEF BugKnows, Idle
  <2>2. CASE v # w
    <3>1. /\ handler[v] \in Handler /\ SameCall(handler'[v], handler[v])
          /\ handler[v] # Idle /\ handler[v].id = b => ~handler'[v].fresh
          /\ handler[v] # Idle /\ handler[v].id # b => handler'[v] = handler[v]
      BY <1>7, <2>2, WroteOthers DEF HandlersOK
    <3>2. BugKnows(handler[v])
      BY DEF BugsOK
    <3> QED
      BY <3>1, <3>2, <1>2, <1>3, <1>4, <1>5, CallTypes DEF SameCall, BugKnows, BugsOK
  <2> QED
    BY <2>1, <2>2
<1> QED
  BY <1>2, <1>3, <1>4, <1>7, <1>8, <1>9, WroteCalls DEF BugsOK

-----------------------------------------------------------------------------
(* The table of maintenance requests: every move is progress.              *)
LEMMA RequestMoves ==
    ASSUME NEW s, NEW t, <<s, t>> \in MAINTENANCE_TRANSITIONS
    PROVE  /\ s \in RequestStatus /\ t \in RequestStatus
           /\ s # "ABSENT" /\ t # "ABSENT" /\ t # "REQUESTED"
           /\ s # "COMPLETED"
           /\ Progress(s) < Progress(t)
           /\ t = "COMPLETED" => s = "IN_PROGRESS"
<1>1. s \in RequestStatus /\ t \in RequestStatus
  BY DEF RequestStatus, Ends
<1> QED
  BY <1>1 DEF MAINTENANCE_TRANSITIONS, Progress

LEMMA ProgressIsNat == \A s : Progress(s) \in Nat
  BY DEF Progress

LEMMA RequestStatuses == {"REQUESTED", "SCHEDULED"} \subseteq RequestStatus
<1>1. <<"REQUESTED", "SCHEDULED">> \in MAINTENANCE_TRANSITIONS
  BY DEF MAINTENANCE_TRANSITIONS
<1> QED
  BY <1>1, RequestMoves

LEMMA RequestsKept ==
    ASSUME RequestsOK, OnlyEnds({"maintenance"}), request' = request
    PROVE  RequestsOK'
<1>1. RecursOnce' /\ request' \in [Requests -> RequestRow \cup {Absent}]
  BY DEF RequestsOK, RecursOnce, NextOf
<1>2. ASSUME NEW w \in Handlers PROVE RequestKnows(handler[w])'
  <2>1. RequestKnows(handler[w])
    BY DEF RequestsOK
  <2> QED
    BY <2>1 DEF RequestKnows, OnlyEnds
<1> QED
  BY <1>1, <1>2 DEF RequestsOK

LEMMA CreateMaintenanceKeeps ==
    ASSUME OperationsAssumption, RequestsOK, HandlersOK, NEW p, NEW q \in Requests, NEW assignee \in Engineers \cup {Nobody},
           NEW scheduled \in BOOLEAN, NEW recurring \in BOOLEAN,
           createMaintenance(p, q, assignee, scheduled, recurring)
    PROVE  RequestsOK'
<1> DEFINE rec == [status |-> "REQUESTED", assignee |-> assignee, scheduled |-> scheduled,
                   recurring |-> recurring, responded |-> FALSE, after |-> Nobody]
<1>1. rec \in RequestRow /\ rec # Absent /\ rec.status = "REQUESTED" /\ rec.after = Nobody
  BY RequestStatuses DEF RequestRow, Absent, Person, People
<1>2. request[q] = Absent /\ request' = [request EXCEPT ![q] = rec] /\ handler' = handler
  BY DEF createMaintenance
<1> HIDE DEF rec
<1>3. ASSUME NEW x \in Requests PROVE NextOf(x)' = NextOf(x)
  BY <1>1, <1>2 DEF NextOf, RequestsOK, OperationsAssumption
<1>4. RecursOnce'
  BY <1>1, <1>2, <1>3 DEF RequestsOK, RecursOnce
<1>5. ASSUME NEW v \in Handlers PROVE RequestKnows(handler[v])'
  <2>1. RequestKnows(handler[v]) /\ handler[v] \in Handler
    BY DEF RequestsOK, HandlersOK
  <2> QED
    BY <2>1, <1>1, <1>2, CallTypes DEF RequestKnows, RequestsOK
<1> QED
  BY <1>1, <1>2, <1>4, <1>5 DEF RequestsOK

LEMMA MaintenanceReadKeeps ==
    ASSUME RequestsOK, HandlersOK, NEW w \in Handlers, NEW p, NEW q \in Present(request), NEW to,
           NEW assignee \in Engineers \cup {Nobody, Keep}, NEW date \in {"date", "null", Keep},
           MaintenanceRead(w, p, q, to, assignee, date)
    PROVE  RequestsOK' /\ HandlersOK'
<1> DEFINE h == [step |-> "maintenance", id |-> q, from |-> request[q].status, to |-> to,
                 assignee |-> AssigneeId(q, assignee), scheduled |-> ScheduledAt(q, date), fresh |-> TRUE]
<1>1. /\ <<request[q].status, to>> \in MAINTENANCE_TRANSITIONS /\ request[q] # Absent /\ q \in Requests
      /\ request[q] \in RequestRow
      /\ request' = request
      /\ to = "IN_PROGRESS" => AssigneeId(q, assignee) # Nobody
      /\ request[q].recurring => ScheduledAt(q, date)
  BY DEF MaintenanceRead, RequestMayMove, Present, RequestsOK, tables
<1>2. AssigneeId(q, assignee) \in Person /\ ScheduledAt(q, date) \in BOOLEAN
  BY <1>1 DEF AssigneeId, ScheduledAt, RequestRow, Person, People
<1>3. h \in Handler
  BY <1>1, <1>2, RequestMoves DEF Handler
<1>4. handler' = [handler EXCEPT ![w] = h]
  BY DEF MaintenanceRead, Start
<1>5. ASSUME NEW v \in Handlers PROVE RequestKnows(handler[v])'
  BY <1>1, <1>3, <1>4, StartCalls DEF RequestsOK, RequestKnows
<1>6. RecursOnce'
  BY <1>1 DEF RequestsOK, RecursOnce, NextOf
<1> HIDE DEF h
<1> QED
  BY <1>1, <1>3, <1>4, <1>5, <1>6, StartCalls DEF RequestsOK

(* The completion of a recurring request and its next occurrence.          *)
LEMMA OccurrenceRecurs ==
    ASSUME RequestsOK, NEW q \in Requests, NEW n \in Requests \ {q}, NEW rec, NEW next,
           request[q] # Absent, request[q].status # "COMPLETED", request[n] = Absent,
           rec # Absent, rec.status = "COMPLETED", rec.recurring, rec.after = request[q].after,
           next # Absent, next.status = "SCHEDULED", next.after = q,
           request'[q] = rec, request'[n] = next,
           \A x \in Requests \ {q, n} : request'[x] = request[x]
    PROVE  RecursOnce'
<1> DEFINE Once(x) ==
      /\ request[x] # Absent /\ request[x].recurring /\ request[x].status = "COMPLETED" =>
            \E m \in Requests : NextOf(x) = {m}
      /\ ~(request[x] # Absent /\ request[x].recurring /\ request[x].status = "COMPLETED") =>
            NextOf(x) = {}
      /\ request[x] # Absent /\ request[x].status = "IN_PROGRESS" => request[x].assignee # Nobody
<1>1. \A x \in Requests : Once(x)
  BY DEF RequestsOK, RecursOnce
<1>2. NextOf(q)' = {n}
  <2>1. NextOf(q) = {}
    BY <1>1
  <2>2. n \in NextOf(q)'
    BY DEF NextOf
  <2>3. ASSUME NEW x \in NextOf(q)', x # n PROVE FALSE
    BY <2>1, <2>3 DEF NextOf
  <2> QED
    BY <2>2, <2>3
<1>3. \A x \in Requests \ {q} : NextOf(x)' = NextOf(x)
  BY DEF NextOf
<1>4. NextOf(n) = {}
  BY <1>1
<1>5. Once(q)'
  BY <1>2
<1>6. Once(n)'
  BY <1>3, <1>4
<1>7. ASSUME NEW x \in Requests \ {q, n} PROVE Once(x)'
  BY <1>1, <1>3
<1>8. \A x \in Requests : Once(x)'
  BY <1>5, <1>6, <1>7
<1> QED
  BY <1>8 DEF RecursOnce

LEMMA MaintenanceWriteKeeps ==
    ASSUME OperationsAssumption, RequestsOK, HandlersOK, NEW w \in Handlers, MaintenanceWrite(w)
    PROVE  /\ RequestsOK' /\ HandlersOK'
           /\ disturbed' = disturbed
<1> DEFINE h == handler[w]
           q == h.id
           rec == [request[q] EXCEPT !.status = h.to, !.assignee = h.assignee,
                        !.scheduled = h.scheduled, !.responded = @ \/ h.to = "IN_PROGRESS"]
<1>1. h \in Handler /\ h.step = "maintenance" /\ RequestKnows(h)
  BY DEF MaintenanceWrite, At, HandlersOK, RequestsOK
<1>2. /\ q \in Requests /\ request[q] # Absent /\ request[q] \in RequestRow
      /\ <<h.from, h.to>> \in MAINTENANCE_TRANSITIONS
      /\ h.from \in RequestStatus /\ h.to \in RequestStatus /\ h.assignee \in Person
      /\ h.scheduled \in BOOLEAN /\ h.fresh \in BOOLEAN
      /\ h.to = "IN_PROGRESS" => h.assignee # Nobody
      /\ request[q].recurring => h.scheduled
  BY <1>1, CallTypes DEF RequestsOK, RequestKnows
<1>3. /\ rec \in RequestRow /\ rec # Absent /\ rec.status = h.to /\ rec.assignee = h.assignee
      /\ rec.after = request[q].after /\ rec.recurring = request[q].recurring
  BY <1>2 DEF RequestRow, Absent
<1>4. CASE Finish(w) /\ UNCHANGED <<request, disturbed>>
  <2>1. OnlyEnds({"maintenance"}) /\ HandlersOK'
    BY <1>4 DEF Finish, OnlyEnds, HandlersOK, Idle, Handler
  <2> QED
    BY <1>4, <2>1, RequestsKept
<1>5. CASE Unchanged(h) /\ Land(w, q)
  <2>1. request[q].status = h.from
    BY <1>5 DEF Unchanged
  <2>2. h.fresh
    BY <1>1, <2>1, ProgressIsNat DEF RequestKnows
  <2>3. disturbed' = disturbed /\ Wrote(w, q)
    BY <1>5, <2>2 DEF Land
  <2>4. ASSUME \A x \in Requests : request[x] # Absent => request'[x] = IF x = q THEN rec ELSE request[x],
               NEW v \in Handlers
        PROVE  RequestKnows(handler[v])'
    <3>1. CASE v = w
      BY <2>3, <3>1, WroteCalls DEF RequestKnows, Idle
    <3>2. CASE v # w
      <4>1. /\ handler[v] \in Handler /\ SameCall(handler'[v], handler[v])
            /\ handler[v] # Idle /\ handler[v].id = q => ~handler'[v].fresh
            /\ handler[v] # Idle /\ handler[v].id # q => handler'[v] = handler[v]
        BY <2>3, <3>2, WroteOthers DEF HandlersOK
      <4>2. RequestKnows(handler[v])
        BY DEF RequestsOK
      <4>3. Progress(h.from) < Progress(h.to)
        BY <1>2, RequestMoves
      <4>4. SUFFICES ASSUME handler[v].step = "maintenance" PROVE RequestKnows(handler[v])'
        BY <4>1 DEF SameCall, RequestKnows
      <4>5. handler[v].id \in Requests /\ handler[v] # Idle /\ handler[v].fresh \in BOOLEAN
        BY <4>1, <4>4, CallTypes DEF Idle
      <4> HIDE DEF rec, h
      <4>6. CASE handler[v].id = q
        <5>1. request'[q] = rec /\ handler'[v].id = q /\ ~handler'[v].fresh
          BY <4>1, <4>4, <4>5, <4>6, <2>4, <1>2 DEF SameCall
        <5>2. Progress(handler[v].from) <= Progress(h.from)
          BY <4>2, <4>4, <4>5, <4>6, <2>1, ProgressIsNat DEF RequestKnows
        <5>3. Progress(handler'[v].from) < Progress(request'[q].status)
          BY <5>1, <5>2, <4>3, <4>4, <4>1, <1>3, ProgressIsNat DEF SameCall
        <5> QED
          BY <5>1, <5>3, <4>1, <4>2, <4>4, <4>6, <1>3 DEF SameCall, RequestKnows
      <4>7. CASE handler[v].id # q
        BY <4>1, <4>2, <4>4, <4>5, <4>7, <2>4 DEF RequestKnows
      <4> QED
        BY <4>6, <4>7
    <3> QED
      BY <3>1, <3>2
  <2>5. CASE ~Recurs(h) /\ request' = Moved(h)
    <3>1. request' = [request EXCEPT ![q] = rec]
      BY <2>5, <1>2 DEF Moved, RequestsOK
    <3> HIDE DEF rec
    <3>2. \A x \in Requests : NextOf(x)' = NextOf(x)
      BY <3>1, <1>2, <1>3 DEF NextOf, RequestsOK
    <3>3. ~(request[q].recurring /\ h.to = "COMPLETED")
      BY <2>5, <1>2 DEF Recurs
    <3>4. request[q].status # "COMPLETED"
      BY <1>2, <2>1, RequestMoves
    <3>5. RecursOnce'
      BY <3>1, <3>2, <3>3, <3>4, <1>2, <1>3 DEF RequestsOK, RecursOnce
    <3>6. \A v \in Handlers : RequestKnows(handler[v])'
      BY <2>4, <3>1, <1>2 DEF RequestsOK
    <3> QED
      BY <3>1, <3>5, <3>6, <1>2, <1>3, <2>3, WroteCalls DEF RequestsOK
  <2>6. ASSUME Recurs(h), NEW n \in Requests \ Present(request), request' = [Moved(h) EXCEPT ![n] = Occurrence(q, h)]
        PROVE  RequestsOK' /\ HandlersOK'
    <3> DEFINE next == Occurrence(q, h)
    <3>1. n \in Requests /\ request[n] = Absent /\ n # q
      BY <2>6, <1>2 DEF Present, RequestsOK
    <3>2. /\ next \in RequestRow /\ next # Absent /\ next.after = q /\ next.status = "SCHEDULED"
          /\ next.recurring = TRUE
      BY <1>2, RequestStatuses DEF Occurrence, RequestRow, Absent
    <3>3. request' = [request EXCEPT ![q] = rec, ![n] = next]
      BY <2>6, <1>2 DEF Moved, RequestsOK
    <3> HIDE DEF rec, next
    <3>4. /\ \A x \in Requests \ {q, n} : request'[x] = request[x]
          /\ request'[q] = rec /\ request'[n] = next
      BY <3>1, <3>3, <1>2 DEF RequestsOK
    <3>5. request[q].status # "COMPLETED"
      BY <1>2, <2>1, RequestMoves
    <3>8. request[q].recurring /\ h.to = "COMPLETED"
      BY <2>6 DEF Recurs
    <3>10. RecursOnce'
      <4> HIDE DEF h, q
      <4>1. /\ request[q] # Absent /\ request[n] = Absent /\ n \in Requests \ {q} /\ q \in Requests
            /\ rec # Absent /\ rec.status = "COMPLETED" /\ rec.after = request[q].after
            /\ next # Absent /\ next.status = "SCHEDULED" /\ next.after = q
        BY <3>1, <3>2, <3>8, <1>2, <1>3
      <4>2. rec.recurring
        BY <3>8, <1>2, <1>3 DEF RequestRow
      <4> QED
        BY <4>1, <4>2, <3>4, <3>5, OccurrenceRecurs
    <3>11. \A v \in Handlers : RequestKnows(handler[v])'
      BY <2>4, <3>1, <3>4
    <3> QED
      BY <3>1, <3>2, <3>3, <3>10, <3>11, <1>2, <1>3, <2>3, WroteCalls DEF RequestsOK
  <2>7. RequestsOK' /\ HandlersOK'
    BY <2>5, <2>6, <1>1, <2>1, RequestMoves DEF MaintenanceWrite, Unchanged
  <2> QED
    BY <2>3, <2>7
<1> QED
  BY <1>4, <1>5 DEF MaintenanceWrite

-----------------------------------------------------------------------------
(* The table of releases: only recordDeployment's moves and approval enter *)
(* APPROVED and DEPLOYED.                                                  *)
LEMMA ReleaseMoves ==
    ASSUME NEW s, NEW t, <<s, t>> \in RELEASE_TRANSITIONS
    PROVE  /\ s \in ReleaseStatus /\ t \in ReleaseStatus
           /\ s # "ABSENT" /\ t # "ABSENT" /\ t # "APPROVED"
           /\ t \in Shipped => s \in {"APPROVED", "DEPLOYED", "VERIFIED"}
           /\ s \in Shipped => t \in Shipped
           /\ t \in {"VERIFIED", "ROLLED_BACK"} => s \in {"DEPLOYED", "VERIFIED"}
<1>1. s \in ReleaseStatus /\ t \in ReleaseStatus
  BY DEF ReleaseStatus, Ends
<1> QED
  BY <1>1 DEF RELEASE_TRANSITIONS, Shipped

LEMMA ReleaseStatuses ==
    {"PLANNED", "APPROVED", "DEPLOYED", "ROLLED_BACK"} \subseteq ReleaseStatus
<1>1. /\ <<"PLANNED", "IN_PROGRESS">> \in RELEASE_TRANSITIONS
      /\ <<"APPROVED", "DEPLOYED">> \in RELEASE_TRANSITIONS
      /\ <<"DEPLOYED", "ROLLED_BACK">> \in RELEASE_TRANSITIONS
  BY DEF RELEASE_TRANSITIONS
<1> QED
  BY <1>1, ReleaseMoves

LEMMA ReleasesKept ==
    ASSUME ReleasesOK, OnlyEnds(ReleaseSteps), release' = release, disturbed \subseteq disturbed',
           \A v \in Handlers : handler[v].step = "ship" =>
               handler'[v] = handler[v] \/ handler[v].id \in disturbed'
    PROVE  ReleasesOK'
<1>1. /\ release' \in [Releases -> ReleaseRow \cup {Absent}]
      /\ \A r \in Releases : HasProduction(r)' = HasProduction(r)
  BY DEF ReleasesOK, HasProduction
<1>2. RecordsExplained'
  BY DEF ReleasesOK, RecordsExplained, Shipping, At, HasProduction
<1>3. ReleaseGate'
  BY <1>2 DEF ReleasesOK, ReleaseGate, RecordsExplained, Shipping, Present, HasProduction, Shipped
<1>4. ASSUME NEW w \in Handlers PROVE ReleaseKnows(handler[w])'
  <2>1. ReleaseKnows(handler[w])
    BY DEF ReleasesOK
  <2> QED
    BY <2>1 DEF ReleaseKnows, OnlyEnds, ReleaseSteps, HasProduction
<1> QED
  BY <1>1, <1>2, <1>3, <1>4 DEF ReleasesOK

(* A step of a call that writes no row.                                    *)
LEMMA ReleasesRead ==
    ASSUME ReleasesOK, HandlersOK, NEW w \in Handlers, NEW h \in Handler,
           handler' = [handler EXCEPT ![w] = h], ReleaseKnows(h),
           release' = release, disturbed \subseteq disturbed',
           handler[w].step = "ship" => handler[w].id \in disturbed'
    PROVE  ReleasesOK' /\ HandlersOK'
<1>1. /\ HandlersOK' /\ handler'[w] = h
      /\ \A v \in Handlers \ {w} : handler'[v] = handler[v]
  BY StartCalls
<1>2. RecordsExplained'
  BY <1>1 DEF ReleasesOK, RecordsExplained, Shipping, At, HasProduction
<1>3. ReleaseGate'
  BY <1>2 DEF ReleasesOK, ReleaseGate, RecordsExplained, Shipping, Present, HasProduction, Shipped
<1>4. ASSUME NEW v \in Handlers PROVE ReleaseKnows(handler[v])'
  <2>1. ReleaseKnows(handler[v])
    BY DEF ReleasesOK
  <2> QED
    BY <2>1, <1>1 DEF ReleaseKnows, HasProduction
<1> QED
  BY <1>1, <1>2, <1>3, <1>4 DEF ReleasesOK

(* A row that is written at the end of a call.                             *)
LEMMA ReleasesWritten ==
    ASSUME ReleasesOK, HandlersOK, NEW w \in Handlers, NEW r \in Releases, NEW rec \in ReleaseRow,
           handler[w] # Idle, handler[w].id = r,
           release[r] # Absent,
           release' = [release EXCEPT ![r] = rec],
           rec.records = release[r].records,
           release[r].approved => rec.approved,
           rec.status \in {"APPROVED"} \cup Shipped => rec.approved,
           rec.status \in {"DEPLOYED", "VERIFIED"} => HasProduction(r),
           HasProduction(r) /\ rec.status \notin Shipped =>
               r \in disturbed' \/ (handler[w].step # "ship" /\ release[r].status \notin Shipped),
           disturbed \subseteq disturbed',
           Wrote(w, r)
    PROVE  ReleasesOK' /\ HandlersOK'
<1>1. rec # Absent /\ release' \in [Releases -> ReleaseRow \cup {Absent}]
  BY DEF ReleaseRow, Absent, ReleasesOK
<1>2. /\ HandlersOK' /\ handler'[w] = Idle
      /\ \A v \in Handlers \ {w} :
            /\ handler[v] \in Handler
            /\ SameCall(handler'[v], handler[v])
            /\ handler[v] # Idle /\ handler[v].id = r => ~handler'[v].fresh
            /\ handler[v] # Idle /\ handler[v].id # r => handler'[v] = handler[v]
  BY WroteCalls, WroteOthers DEF HandlersOK
<1>3. ASSUME NEW x \in Releases PROVE HasProduction(x)' = HasProduction(x)
  BY <1>1 DEF HasProduction, ReleasesOK
<1>4. ASSUME NEW x \in Releases, Shipping(x), x # r \/ handler[w].step # "ship"
      PROVE  Shipping(x)'
  BY <1>2, <1>4 DEF Shipping, At, SameCall
<1>5. RecordsExplained'
  <2> SUFFICES ASSUME NEW x \in Releases, (release[x] # Absent)', HasProduction(x)', (release[x].status \notin Shipped)'
               PROVE  x \in disturbed' \/ Shipping(x)'
    BY DEF RecordsExplained
  <2>1. CASE x = r
    BY <2>1, <1>3, <1>4 DEF ReleasesOK, RecordsExplained
  <2>2. CASE x # r
    BY <2>2, <1>3, <1>4 DEF ReleasesOK, RecordsExplained
  <2> QED
    BY <2>1, <2>2
<1>6. ReleaseGate'
  <2> SUFFICES ASSUME NEW x \in Releases, release'[x] # Absent
               PROVE  /\ release'[x].status \in {"APPROVED", "DEPLOYED", "VERIFIED", "ROLLED_BACK"}
                            \/ release'[x].records # {} => release'[x].approved
                      /\ release'[x].status \in {"DEPLOYED", "VERIFIED"} => HasProduction(x)'
    BY <1>5, <1>1 DEF ReleaseGate, Present, RecordsExplained, Shipping, Shipped
  <2>1. /\ release[x] # Absent =>
            /\ release[x].status \in {"APPROVED", "DEPLOYED", "VERIFIED", "ROLLED_BACK"}
                   \/ release[x].records # {} => release[x].approved
            /\ release[x].status \in {"DEPLOYED", "VERIFIED"} => HasProduction(x)
    BY DEF ReleasesOK, ReleaseGate, Present
  <2>2. CASE x = r
    BY <2>1, <2>2, <1>3 DEF ReleasesOK, Shipped
  <2>3. CASE x # r
    BY <2>1, <2>3, <1>3 DEF ReleasesOK
  <2> QED
    BY <2>2, <2>3
<1>7. ASSUME NEW v \in Handlers PROVE ReleaseKnows(handler[v])'
  <2>1. CASE v = w
    BY <1>2, <2>1 DEF ReleaseKnows, Idle, ReleaseSteps
  <2>2. CASE v # w
    <3>1. /\ handler[v] \in Handler /\ SameCall(handler'[v], handler[v])
          /\ handler[v] # Idle /\ handler[v].id = r => ~handler'[v].fresh
          /\ handler[v] # Idle /\ handler[v].id # r => handler'[v] = handler[v]
      BY <1>2, <2>2
    <3>2. ReleaseKnows(handler[v])
      BY DEF ReleasesOK
    <3>3. handler[v].step \in ReleaseSteps => handler[v].id \in Releases /\ handler[v] # Idle
      BY <3>1, CallTypes DEF ReleaseSteps, Idle
    <3> QED
      BY <3>1, <3>2, <3>3, <1>1, <1>3 DEF SameCall, ReleaseKnows, ReleasesOK, ReleaseSteps
  <2> QED
    BY <2>1, <2>2
<1> QED
  BY <1>1, <1>2, <1>5, <1>6, <1>7 DEF ReleasesOK

LEMMA CreateReleaseKeeps ==
    ASSUME ReleasesOK, HandlersOK, NEW p, NEW r \in Releases, createRelease(p, r)
    PROVE  ReleasesOK'
<1> DEFINE rec == [status |-> "PLANNED", approved |-> FALSE, records |-> {}]
<1>1. rec \in ReleaseRow /\ rec # Absent /\ rec.status = "PLANNED" /\ rec.records = {}
  BY ReleaseStatuses DEF ReleaseRow, Absent
<1>2. release[r] = Absent /\ release' = [release EXCEPT ![r] = rec]
      /\ handler' = handler /\ disturbed' = disturbed
  BY DEF createRelease
<1> HIDE DEF rec
<1>3. ASSUME NEW x \in Releases PROVE HasProduction(x)' => x # r /\ HasProduction(x)
  BY <1>1, <1>2, <1>3 DEF HasProduction, ReleasesOK
<1>4. ReleaseGate' /\ RecordsExplained'
  BY <1>1, <1>2, <1>3 DEF ReleasesOK, ReleaseGate, RecordsExplained, Shipping, At, Present, HasProduction
<1>5. ASSUME NEW v \in Handlers PROVE ReleaseKnows(handler[v])'
  <2>1. ReleaseKnows(handler[v]) /\ handler[v] \in Handler
    BY DEF ReleasesOK, HandlersOK
  <2>2. handler[v].step \in ReleaseSteps => handler[v].id \in Releases \ {r}
    BY <2>1, <1>2, CallTypes DEF ReleaseKnows, ReleaseSteps
  <2> QED
    BY <2>1, <2>2, <1>2 DEF ReleaseKnows, ReleasesOK, ReleaseSteps, HasProduction
<1> QED
  BY <1>1, <1>2, <1>4, <1>5 DEF ReleasesOK

LEMMA ApproveReleaseReadKeeps ==
    ASSUME ReleasesOK, HandlersOK, NEW w \in Handlers, NEW p, NEW r \in Present(release),
           ApproveReleaseRead(w, p, r)
    PROVE  ReleasesOK' /\ HandlersOK'
<1> DEFINE h == [step |-> "approveRelease", id |-> r, fresh |-> TRUE]
<1>1. /\ r \in Releases /\ release[r] # Absent /\ release[r].status = "PENDING_APPROVAL"
      /\ handler' = [handler EXCEPT ![w] = h] /\ handler[w].step = "idle"
      /\ release' = release /\ disturbed' = disturbed
  BY DEF ApproveReleaseRead, Present, ReleasesOK, Start, At, tables
<1>2. h \in Handler /\ ReleaseKnows(h)
  BY <1>1 DEF Handler, ReleaseKnows
<1> QED
  BY <1>1, <1>2, ReleasesRead

LEMMA ReleaseReadKeeps ==
    ASSUME ReleasesOK, HandlersOK, NEW w \in Handlers, NEW p, NEW r \in Present(release), NEW to,
           ReleaseRead(w, p, r, to)
    PROVE  ReleasesOK' /\ HandlersOK'
<1> DEFINE h == [step |-> IF to = "VERIFIED" THEN "deployments" ELSE "release",
                 id |-> r, from |-> release[r].status, to |-> to, fresh |-> TRUE]
<1>1. /\ r \in Releases /\ release[r] # Absent
      /\ <<release[r].status, to>> \in RELEASE_TRANSITIONS /\ to \in TransitionTarget
      /\ handler' = [handler EXCEPT ![w] = h] /\ handler[w].step = "idle"
      /\ release' = release /\ disturbed' = disturbed
  BY DEF ReleaseRead, ReleaseMayMove, Present, ReleasesOK, Start, At, tables
<1>2. h \in Handler
  BY <1>1, ReleaseMoves DEF Handler
<1>3. ReleaseKnows(h)
  BY <1>1 DEF ReleaseKnows
<1> QED
  BY <1>1, <1>2, <1>3, ReleasesRead

LEMMA FindDeploymentKeeps ==
    ASSUME ReleasesOK, HandlersOK, NEW w \in Handlers, FindDeployment(w)
    PROVE  ReleasesOK' /\ HandlersOK'
<1>1. /\ handler[w] \in Handler /\ handler[w].step = "deployments" /\ ReleaseKnows(handler[w])
      /\ release' = release /\ disturbed' = disturbed
  BY DEF FindDeployment, At, HandlersOK, ReleasesOK, tables
<1>2. CASE HasProduction(handler[w].id)
  <2> DEFINE h == [handler[w] EXCEPT !.step = "release"]
  <2>1. h \in Handler
    BY <1>1, CallTypes DEF Handler
  <2>2. ReleaseKnows(h)
    BY <1>1, <1>2, CallTypes DEF ReleaseKnows, ReleaseSteps
  <2>3. handler' = [handler EXCEPT ![w] = h]
    BY <1>2 DEF FindDeployment, HandlersOK
  <2> HIDE DEF h
  <2> QED
    BY <1>1, <2>1, <2>2, <2>3, ReleasesRead
<1>3. CASE ~HasProduction(handler[w].id)
  <2>1. Idle \in Handler /\ ReleaseKnows(Idle)
    BY DEF Handler, ReleaseKnows, Idle, ReleaseSteps
  <2>2. handler' = [handler EXCEPT ![w] = Idle]
    BY <1>3 DEF FindDeployment, Finish
  <2> QED
    BY <1>1, <2>1, <2>2, ReleasesRead
<1> QED
  BY <1>2, <1>3

LEMMA RecordReadKeeps ==
    ASSUME ReleasesOK, HandlersOK, NEW w \in Handlers, NEW p, NEW r \in Present(release),
           NEW status \in {"SUCCEEDED", "FAILED", "ROLLED_BACK"}, RecordRead(w, p, r, status)
    PROVE  ReleasesOK' /\ HandlersOK'
<1> DEFINE h == [step |-> "record", id |-> r, from |-> release[r].status, to |-> status, fresh |-> TRUE]
<1>1. /\ r \in Releases /\ release[r] # Absent
      /\ release[r].approved /\ release[r].status \in {"APPROVED", "DEPLOYED"}
      /\ handler' = [handler EXCEPT ![w] = h] /\ handler[w].step = "idle"
      /\ release' = release /\ disturbed' = disturbed
  BY DEF RecordRead, Recordable, Present, ReleasesOK, Start, At, tables
<1>2. h \in Handler
  BY <1>1, ReleaseStatuses DEF Handler
<1>3. ReleaseKnows(h)
  BY <1>1 DEF ReleaseKnows, ReleasesOK, ReleaseGate, Present
<1> QED
  BY <1>1, <1>2, <1>3, ReleasesRead

LEMMA FinishReleases ==
    ASSUME ReleasesOK, HandlersOK, NEW w \in Handlers, Finish(w), release' = release,
           disturbed \subseteq disturbed',
           handler[w].step = "ship" => handler[w].id \in disturbed'
    PROVE  ReleasesOK' /\ HandlersOK'
<1>1. Idle \in Handler /\ ReleaseKnows(Idle)
  BY DEF Handler, ReleaseKnows, Idle, ReleaseSteps
<1> QED
  BY <1>1, ReleasesRead DEF Finish

LEMMA ApproveReleaseWriteKeeps ==
    ASSUME ReleasesOK, HandlersOK, NEW w \in Handlers, ApproveReleaseWrite(w)
    PROVE  ReleasesOK' /\ HandlersOK'
<1> DEFINE r == handler[w].id
           rec == [release[r] EXCEPT !.status = "APPROVED", !.approved = TRUE]
<1>1. /\ handler[w] \in Handler /\ handler[w].step = "approveRelease" /\ ReleaseKnows(handler[w])
      /\ release[r] # Absent
  BY DEF ApproveReleaseWrite, At, HandlersOK, ReleasesOK, ReleaseKnows, ReleaseSteps
<1>2. r \in Releases /\ release[r] \in ReleaseRow /\ handler[w] # Idle
      /\ handler[w].fresh \in BOOLEAN
  BY <1>1, CallTypes DEF ReleasesOK, Idle
<1>3. /\ rec \in ReleaseRow /\ rec.status = "APPROVED" /\ rec.approved
      /\ rec.records = release[r].records
  BY <1>2, ReleaseStatuses DEF ReleaseRow
<1>4. release' = [release EXCEPT ![r] = rec] /\ Land(w, r)
  BY <1>2 DEF ApproveReleaseWrite, ReleasesOK
<1>5. /\ disturbed \subseteq disturbed' /\ Wrote(w, r)
      /\ ~handler[w].fresh => r \in disturbed'
  BY <1>4 DEF Land
<1>6. handler[w].fresh => release[r].status \notin Shipped
  BY <1>1 DEF ReleaseKnows, Shipped
<1>7. r \in disturbed' \/ (handler[w].step # "ship" /\ release[r].status \notin Shipped)
  BY <1>1, <1>2, <1>5, <1>6
<1> HIDE DEF rec, r
<1>8. rec.status \notin {"DEPLOYED", "VERIFIED"}
  BY <1>3
<1>9. handler[w].id = r /\ Wrote(w, r) /\ release' = [release EXCEPT ![r] = rec]
  BY <1>4, <1>5 DEF r
<1>10. /\ rec.status \in {"DEPLOYED", "VERIFIED"} => HasProduction(r)
       /\ release[r].approved => rec.approved
       /\ rec.status \in {"APPROVED"} \cup Shipped => rec.approved
       /\ HasProduction(r) /\ rec.status \notin Shipped =>
             r \in disturbed' \/ (handler[w].step # "ship" /\ release[r].status \notin Shipped)
  BY <1>3, <1>7, <1>8
<1> QED
  BY <1>1, <1>2, <1>3, <1>5, <1>9, <1>10, ReleasesWritten

LEMMA ReleaseWriteKeeps ==
    ASSUME ReleasesOK, HandlersOK, NEW w \in Handlers, ReleaseWrite(w)
    PROVE  ReleasesOK' /\ HandlersOK'
<1> DEFINE h == handler[w]
           r == h.id
           rec == [release[r] EXCEPT !.status = h.to]
<1>1. /\ h \in Handler /\ h.step = "release" /\ ReleaseKnows(h)
      /\ release[r] # Absent
  BY DEF ReleaseWrite, At, HandlersOK, ReleasesOK, ReleaseKnows, ReleaseSteps
<1>2. /\ r \in Releases /\ release[r] \in ReleaseRow /\ h # Idle
      /\ <<h.from, h.to>> \in RELEASE_TRANSITIONS /\ h.to \in TransitionTarget
      /\ h.to = "VERIFIED" => HasProduction(r)
  BY <1>1, CallTypes DEF ReleasesOK, ReleaseKnows, Idle
<1>3. CASE /\ release[r].status = h.from
           /\ release' = [release EXCEPT ![r].status = h.to]
           /\ Land(w, r)
  <2>1. /\ rec \in ReleaseRow /\ rec.status = h.to /\ rec.approved = release[r].approved
        /\ rec.records = release[r].records
    BY <1>2, ReleaseMoves DEF ReleaseRow
  <2>2. release' = [release EXCEPT ![r] = rec]
    BY <1>2, <1>3 DEF ReleasesOK
  <2>3. disturbed \subseteq disturbed' /\ Wrote(w, r)
    BY <1>3 DEF Land
  <2>4. rec.status \in {"APPROVED"} \cup Shipped => rec.approved
    <3>1. h.to \in {"APPROVED"} \cup Shipped => h.from \in {"DEPLOYED", "VERIFIED"}
      BY <1>2, ReleaseMoves DEF TransitionTarget, Shipped
    <3>2. h.from \in {"DEPLOYED", "VERIFIED"} => release[r].approved
      BY <1>1, <1>2, <1>3 DEF ReleasesOK, ReleaseGate, Present
    <3> HIDE DEF rec
    <3> QED
      BY <3>1, <3>2, <2>1
  <2>5. rec.status \in {"DEPLOYED", "VERIFIED"} => HasProduction(r)
    BY <2>1, <1>2 DEF TransitionTarget
  <2>6. rec.status \notin Shipped => release[r].status \notin Shipped
    BY <2>1, <1>2, <1>3, ReleaseMoves
  <2> HIDE DEF rec, r
  <2> QED
    BY <1>1, <1>2, <2>1, <2>2, <2>3, <2>4, <2>5, <2>6, ReleasesWritten DEF r
<1>4. CASE Finish(w) /\ UNCHANGED <<release, disturbed>>
  BY <1>1, <1>4, FinishReleases
<1> QED
  BY <1>3, <1>4 DEF ReleaseWrite

LEMMA ShipWriteKeeps ==
    ASSUME ReleasesOK, HandlersOK, NEW w \in Handlers, ShipWrite(w)
    PROVE  ReleasesOK' /\ HandlersOK'
<1> DEFINE h == handler[w]
           r == h.id
           rec == [release[r] EXCEPT !.status = h.to]
<1>1. /\ h \in Handler /\ h.step = "ship" /\ ReleaseKnows(h)
      /\ release[r] # Absent
  BY DEF ShipWrite, At, HandlersOK, ReleasesOK, ReleaseKnows, ReleaseSteps
<1>2. /\ r \in Releases /\ release[r] \in ReleaseRow /\ h # Idle
      /\ h.to \in {"DEPLOYED", "ROLLED_BACK"} /\ release[r].approved /\ HasProduction(r)
  BY <1>1, CallTypes DEF ReleasesOK, ReleaseKnows, Idle
<1>3. CASE release[r].status = h.from
  <2>1. /\ rec \in ReleaseRow /\ rec.status = h.to /\ rec.approved
        /\ rec.records = release[r].records
    BY <1>2, ReleaseStatuses DEF ReleaseRow
  <2>2. release' = [release EXCEPT ![r] = rec]
    BY <1>2, <1>3 DEF ReleasesOK, ShipWrite
  <2>3. disturbed \subseteq disturbed' /\ Wrote(w, r)
    BY <1>3 DEF Land, ShipWrite
  <2>4. rec.status \in Shipped
    BY <2>1, <1>2 DEF Shipped
  <2> HIDE DEF rec, r
  <2> QED
    BY <1>1, <1>2, <2>1, <2>2, <2>3, <2>4, ReleasesWritten DEF r
<1>4. CASE release[r].status # h.from
  <2>1. Finish(w) /\ release' = release /\ disturbed \subseteq disturbed' /\ r \in disturbed'
    BY <1>4 DEF ShipWrite
  <2> QED
    BY <2>1, FinishReleases
<1> QED
  BY <1>3, <1>4

LEMMA RecordCreateKeeps ==
    ASSUME ReleasesOK, HandlersOK, NEW w \in Handlers, RecordCreate(w)
    PROVE  ReleasesOK' /\ HandlersOK'
<1> DEFINE h == handler[w]
           r == h.id
           Ship(to) == [step |-> "ship", id |-> h.id, from |-> h.from, to |-> to, fresh |-> h.fresh]
           g == IF h.to = "SUCCEEDED" /\ h.from = "APPROVED" THEN Ship("DEPLOYED")
                ELSE IF h.to = "ROLLED_BACK" /\ h.from = "DEPLOYED" THEN Ship("ROLLED_BACK")
                ELSE Idle
           rec == [release[r] EXCEPT !.records = @ \cup {h.to}]
<1>1. /\ h \in Handler /\ h.step = "record" /\ ReleaseKnows(h)
      /\ release[r] # Absent
  BY DEF RecordCreate, At, HandlersOK, ReleasesOK, ReleaseKnows, ReleaseSteps
<1>2. /\ r \in Releases /\ release[r] \in ReleaseRow
      /\ h.to \in {"SUCCEEDED", "FAILED", "ROLLED_BACK"} /\ release[r].approved
      /\ h.from \in {"APPROVED", "DEPLOYED"} /\ (h.from = "DEPLOYED" => HasProduction(r))
      /\ h.fresh \in BOOLEAN
  BY <1>1, CallTypes DEF ReleasesOK, ReleaseKnows
<1>3. /\ rec \in ReleaseRow /\ rec # Absent /\ rec.status = release[r].status /\ rec.approved
      /\ rec.records = release[r].records \cup {h.to}
  BY <1>2 DEF ReleaseRow, Absent
<1>4. /\ release' = [release EXCEPT ![r] = rec] /\ handler' = [handler EXCEPT ![w] = g]
      /\ disturbed' = disturbed
  BY <1>2 DEF RecordCreate, ReleasesOK
<1>5. g \in Handler
  BY <1>2 DEF Handler
<1>6. /\ g.step \in {"idle", "ship"}
      /\ h.to = "SUCCEEDED" /\ h.from = "APPROVED" => g.step = "ship" /\ g.id = r
      /\ g.step = "ship" =>
            /\ g.id = r
            /\ <<g.from, g.to>> \in {<<"APPROVED", "DEPLOYED">>, <<"DEPLOYED", "ROLLED_BACK">>}
            /\ h.to = "SUCCEEDED" \/ HasProduction(r)
  BY <1>2 DEF Idle
<1> HIDE DEF g, rec
<1>7. /\ HandlersOK' /\ handler'[w] = g
      /\ \A v \in Handlers \ {w} : handler'[v] = handler[v]
  BY <1>4, <1>5, StartCalls
<1>8. PICK x \in Releases : x = r
  BY <1>2
<1>9. ASSUME NEW y \in Releases
      PROVE  /\ HasProduction(y) => HasProduction(y)'
             /\ HasProduction(y)' => HasProduction(y) \/ (y = x /\ h.to = "SUCCEEDED")
             /\ y # x => release'[y] = release[y]
  BY <1>2, <1>3, <1>4, <1>8 DEF HasProduction, ReleasesOK
<1>10. h.to = "SUCCEEDED" => HasProduction(x)'
  BY <1>2, <1>3, <1>4, <1>8 DEF HasProduction, ReleasesOK
<1>11. release'[x] = rec
  BY <1>2, <1>3, <1>4, <1>8 DEF ReleasesOK
<1>12. ASSUME NEW y \in Releases, Shipping(y) PROVE Shipping(y)'
  BY <1>1, <1>7, <1>12 DEF Shipping, At
<1>13. RecordsExplained'
  <2> SUFFICES ASSUME NEW y \in Releases, (release[y] # Absent)', HasProduction(y)', (release[y].status \notin Shipped)'
               PROVE  y \in disturbed' \/ Shipping(y)'
    BY DEF RecordsExplained
  <2>1. CASE HasProduction(y)
    <3>1. release[y] # Absent /\ release[y].status \notin Shipped
      BY <1>1, <1>3, <1>8, <1>9, <1>11
    <3> QED
      BY <2>1, <3>1, <1>4, <1>12 DEF ReleasesOK, RecordsExplained
  <2>2. CASE ~HasProduction(y)
    <3>1. y = x /\ h.to = "SUCCEEDED" /\ h.from = "APPROVED"
      BY <2>2, <1>2, <1>8, <1>9
    <3> QED
      BY <3>1, <1>6, <1>7, <1>8 DEF Shipping, At
  <2> QED
    BY <2>1, <2>2
<1>14. release' \in [Releases -> ReleaseRow \cup {Absent}]
  BY <1>3, <1>4 DEF ReleasesOK
<1>15. ReleaseGate'
  <2> SUFFICES ASSUME NEW y \in Releases, release'[y] # Absent
               PROVE  /\ release'[y].status \in {"APPROVED", "DEPLOYED", "VERIFIED", "ROLLED_BACK"}
                            \/ release'[y].records # {} => release'[y].approved
                      /\ release'[y].status \in {"DEPLOYED", "VERIFIED"} => HasProduction(y)'
    BY <1>13, <1>14 DEF ReleaseGate, Present, RecordsExplained, Shipping, Shipped
  <2>1. release[y] # Absent =>
            /\ release[y].status \in {"APPROVED", "DEPLOYED", "VERIFIED", "ROLLED_BACK"}
                   \/ release[y].records # {} => release[y].approved
            /\ release[y].status \in {"DEPLOYED", "VERIFIED"} => HasProduction(y)
    BY DEF ReleasesOK, ReleaseGate, Present
  <2>2. CASE y = x
    BY <2>1, <2>2, <1>1, <1>3, <1>8, <1>9, <1>11
  <2>3. CASE y # x
    BY <2>1, <2>3, <1>9
  <2> QED
    BY <2>2, <2>3
<1>16. ASSUME NEW v \in Handlers PROVE ReleaseKnows(handler[v])'
  <2>1. CASE v = w
    <3>1. handler'[v] = g /\ release'[x] = rec
      BY <2>1, <1>7, <1>11
    <3>2. g.step = "ship" => HasProduction(x)'
      BY <1>6, <1>8, <1>9, <1>10
    <3> QED
      BY <3>1, <3>2, <1>3, <1>6, <1>8 DEF ReleaseKnows, ReleaseSteps, HasProduction
  <2>2. CASE v # w
    <3>1. ReleaseKnows(handler[v]) /\ handler'[v] = handler[v] /\ handler[v] \in Handler
      BY <1>7, <2>2 DEF ReleasesOK, HandlersOK
    <3>2. handler[v].step \in ReleaseSteps => handler[v].id \in Releases
      BY <3>1, CallTypes DEF ReleaseSteps
    <3>3. handler[v].step \in ReleaseSteps =>
             /\ release'[handler[v].id] # Absent
             /\ release'[handler[v].id].status = release[handler[v].id].status
             /\ release[handler[v].id].approved => release'[handler[v].id].approved
             /\ HasProduction(handler[v].id) => "SUCCEEDED" \in release'[handler[v].id].records
      BY <3>1, <3>2, <1>3, <1>8, <1>9, <1>11 DEF ReleaseKnows, HasProduction
    <3> QED
      BY <3>1, <3>3 DEF ReleaseKnows, ReleaseSteps, HasProduction
  <2> QED
    BY <2>1, <2>2
<1> QED
  BY <1>7, <1>13, <1>15, <1>16, <1>14 DEF ReleasesOK

-----------------------------------------------------------------------------
(* The inductive invariant: types, and the four tables.                    *)
IInv ==
    /\ system \in BOOLEAN
    /\ link \subseteq Releases \X {"task", "pullRequest"}
    /\ disturbed \subseteq Ids /\ disturbed \cap Requests = {}
    /\ HandlersOK
    /\ UpdatesOK
    /\ BugsOK
    /\ RequestsOK
    /\ ReleasesOK

(* What one call does to the calls in flight.                              *)
Acts(w, id, h) ==
    handler' = handler \/ handler' = [handler EXCEPT ![w] = h] \/ Wrote(w, id)

LEMMA CallIds ==
    ASSUME OperationsAssumption, HandlersOK, NEW v \in Handlers
    PROVE  /\ handler[v].step \in UpdateSteps =>
                 handler[v].id \in Updates \ (Bugs \cup Requests \cup Releases)
           /\ handler[v].step = "bug" =>
                 handler[v].id \in Bugs \ (Updates \cup Requests \cup Releases)
           /\ handler[v].step = "maintenance" =>
                 handler[v].id \in Requests \ (Updates \cup Bugs \cup Releases)
           /\ handler[v].step \in ReleaseSteps =>
                 handler[v].id \in Releases \ (Updates \cup Bugs \cup Requests)
<1>1. handler[v] \in Handler
  BY DEF HandlersOK
<1> QED
  BY <1>1, CallTypes DEF OperationsAssumption, UpdateSteps, ReleaseSteps

LEMMA ForeignUpdates ==
    ASSUME OperationsAssumption, HandlersOK, UpdatesOK, update' = update,
           NEW w \in Handlers, NEW id, id \notin Updates, NEW h, h.step \notin UpdateSteps,
           Acts(w, id, h)
    PROVE  UpdatesOK'
<1>1. \A v \in Handlers : handler[v].step \in UpdateSteps => handler[v].id # id
  BY CallIds
<1>2. "idle" \notin UpdateSteps
  BY DEF UpdateSteps
<1> QED
  BY <1>1, <1>2, Foreign, UpdatesKept DEF Acts

LEMMA ForeignBugs ==
    ASSUME OperationsAssumption, HandlersOK, BugsOK, bug' = bug, disturbed \subseteq disturbed',
           NEW w \in Handlers, NEW id, id \notin Bugs, NEW h, h.step # "bug",
           Acts(w, id, h)
    PROVE  BugsOK'
<1>1. \A v \in Handlers : handler[v].step \in {"bug"} => handler[v].id # id
  BY CallIds
<1>2. OnlyEnds({"bug"})
  BY <1>1, Foreign DEF Acts
<1> QED
  BY <1>2, BugsKept

LEMMA ForeignRequests ==
    ASSUME OperationsAssumption, HandlersOK, RequestsOK, request' = request,
           NEW w \in Handlers, NEW id, id \notin Requests, NEW h, h.step # "maintenance",
           Acts(w, id, h)
    PROVE  RequestsOK'
<1>1. \A v \in Handlers : handler[v].step \in {"maintenance"} => handler[v].id # id
  BY CallIds
<1>2. OnlyEnds({"maintenance"})
  BY <1>1, Foreign DEF Acts
<1> QED
  BY <1>2, RequestsKept

LEMMA ForeignReleases ==
    ASSUME OperationsAssumption, HandlersOK, ReleasesOK, release' = release, disturbed \subseteq disturbed',
           NEW w \in Handlers, NEW id, id \notin Releases, NEW h, h.step \notin ReleaseSteps,
           handler[w].step # "ship",
           Acts(w, id, h)
    PROVE  ReleasesOK'
<1>1. \A v \in Handlers : handler[v].step \in ReleaseSteps => handler[v].id # id
  BY CallIds
<1>2. "idle" \notin ReleaseSteps
  BY DEF ReleaseSteps
<1>3. OnlyEnds(ReleaseSteps)
  BY <1>1, <1>2, Foreign DEF Acts
<1>4. ASSUME NEW v \in Handlers, handler[v].step = "ship" PROVE handler'[v] = handler[v]
  <2>1. v # w /\ handler[v] # Idle /\ handler[v].id # id
    BY <1>1, <1>4 DEF ReleaseSteps, Idle
  <2>2. CASE Wrote(w, id)
    BY <2>1, <2>2, WroteCalls
  <2> QED
    BY <2>1, <2>2 DEF Acts, HandlersOK
<1> QED
  BY <1>3, <1>4, ReleasesKept

(* A call that writes nothing ends.                                        *)
LEMMA FinishKeeps ==
    ASSUME OperationsAssumption, IInv, NEW w \in Handlers, Finish(w), UNCHANGED <<system, tables, link>>,
           disturbed' = IF At(w, "ship") THEN disturbed \cup {handler[w].id} ELSE disturbed
    PROVE  IInv'
<1>1. /\ Idle.step = "idle" /\ Idle \in Handler
      /\ Idle.step \notin UpdateSteps \cup ReleaseSteps /\ Idle.step # "bug" /\ Idle.step # "maintenance"
  BY DEF Idle, UpdateSteps, ReleaseSteps, Handler
<1>2. handler' = [handler EXCEPT ![w] = Idle]
  BY DEF Finish
<1>3. OnlyEnds(UpdateSteps) /\ OnlyEnds({"bug"}) /\ OnlyEnds({"maintenance"}) /\ HandlersOK'
  BY <1>1, <1>2, StartCalls DEF OnlyEnds, IInv
<1>4. /\ disturbed \subseteq disturbed' /\ disturbed' \subseteq Ids /\ disturbed' \cap Requests = {}
      /\ handler[w].step = "ship" => handler[w].id \in disturbed'
  BY CallIds DEF At, IInv, Ids, ReleaseSteps
<1>5. UpdatesOK' /\ BugsOK' /\ RequestsOK'
  BY <1>3, <1>4, UpdatesKept, BugsKept, RequestsKept DEF IInv, tables
<1>6. ReleasesOK'
  BY <1>4, FinishReleases DEF IInv, tables
<1> QED
  BY <1>3, <1>4, <1>5, <1>6 DEF IInv, tables

LEMMA CreateKeeps ==
    ASSUME OperationsAssumption, IInv, NEW p, Create(p)
    PROVE  IInv'
<1>1. CASE createSystem(p) \/ \E r \in Releases, add \in BOOLEAN :
                                  changeReleaseTask(p, r, add) \/ changeReleasePullRequest(p, r, add)
  <2>1. UNCHANGED <<tables, handler, disturbed>>
    BY <1>1 DEF createSystem, changeReleaseTask, changeReleasePullRequest
  <2>2. system' \in BOOLEAN /\ link' \subseteq Releases \X {"task", "pullRequest"}
    <3>1. CASE createSystem(p)
      BY <3>1 DEF IInv, createSystem
    <3>2. ASSUME NEW r \in Releases, NEW add \in BOOLEAN, changeReleaseTask(p, r, add)
          PROVE  system' = system /\ link' \subseteq link \cup {<<r, "task">>}
      BY <3>2 DEF changeReleaseTask
    <3>3. ASSUME NEW r \in Releases, NEW add \in BOOLEAN, changeReleasePullRequest(p, r, add)
          PROVE  system' = system /\ link' \subseteq link \cup {<<r, "pullRequest">>}
      BY <3>3 DEF changeReleasePullRequest
    <3> QED
      BY <1>1, <3>1, <3>2, <3>3 DEF IInv
  <2>3. OnlyEnds(UpdateSteps) /\ OnlyEnds({"bug"}) /\ OnlyEnds({"maintenance"}) /\ OnlyEnds(ReleaseSteps)
    BY <2>1 DEF OnlyEnds
  <2> QED
    BY <2>1, <2>2, <2>3, UpdatesKept, BugsKept, RequestsKept, ReleasesKept DEF IInv, tables, HandlersOK
<1>2. ASSUME handler' = handler /\ disturbed' = disturbed /\ system' = system /\ link' = link
      PROVE  /\ OnlyEnds(UpdateSteps) /\ OnlyEnds({"bug"}) /\ OnlyEnds({"maintenance"}) /\ OnlyEnds(ReleaseSteps)
             /\ UpdatesOK' /\ BugsOK' /\ RequestsOK' /\ ReleasesOK' => IInv'
  BY <1>2 DEF OnlyEnds, IInv, HandlersOK
<1>3. ASSUME NEW u \in Updates, createUpdate(p, u) PROVE IInv'
  <2>1. UpdatesOK' /\ UNCHANGED <<system, bug, request, release, link, handler, disturbed>>
    BY <1>3, CreateUpdateKeeps DEF IInv, createUpdate
  <2> QED
    BY <2>1, <1>2, BugsKept, RequestsKept, ReleasesKept DEF IInv
<1>4. ASSUME NEW b \in Bugs, createBug(p, b) PROVE IInv'
  <2>1. BugsOK' /\ UNCHANGED <<system, update, request, release, link, handler, disturbed>>
    BY <1>4, CreateBugKeeps DEF IInv, createBug
  <2> QED
    BY <2>1, <1>2, UpdatesKept, RequestsKept, ReleasesKept DEF IInv
<1>5. ASSUME NEW q \in Requests, NEW assignee \in Engineers \cup {Nobody}, NEW scheduled \in BOOLEAN,
             NEW recurring \in BOOLEAN, createMaintenance(p, q, assignee, scheduled, recurring)
      PROVE  IInv'
  <2>1. RequestsOK' /\ UNCHANGED <<system, update, bug, release, link, handler, disturbed>>
    BY <1>5, CreateMaintenanceKeeps DEF IInv, createMaintenance
  <2> QED
    BY <2>1, <1>2, UpdatesKept, BugsKept, ReleasesKept DEF IInv
<1>6. ASSUME NEW r \in Releases, createRelease(p, r) PROVE IInv'
  <2>1. ReleasesOK' /\ UNCHANGED <<system, update, bug, request, link, handler, disturbed>>
    BY <1>6, CreateReleaseKeeps DEF IInv, createRelease
  <2> QED
    BY <2>1, <1>2, UpdatesKept, BugsKept, RequestsKept DEF IInv
<1> QED
  BY <1>1, <1>3, <1>4, <1>5, <1>6 DEF Create

(* The first step of a call: its own table, and the three others.          *)
LEMMA StartKeeps ==
    ASSUME OperationsAssumption, IInv, NEW w \in Handlers, NEW h \in Handler, Start(w, h),
           UNCHANGED <<system, tables, link, disturbed>>,
           h.step \in UpdateSteps => UpdatesOK', h.step = "bug" => BugsOK',
           h.step = "maintenance" => RequestsOK', h.step \in ReleaseSteps => ReleasesOK'
    PROVE  IInv'
<1>1. Acts(w, Nobody, h) /\ handler[w].step # "ship"
  BY DEF Start, At, Acts
<1>2. /\ h.step \notin UpdateSteps => OnlyEnds(UpdateSteps)
      /\ h.step # "bug" => OnlyEnds({"bug"})
      /\ h.step # "maintenance" => OnlyEnds({"maintenance"})
      /\ h.step \notin ReleaseSteps => OnlyEnds(ReleaseSteps)
  BY DEF OnlyEnds, Start, IInv, HandlersOK
<1>3. HandlersOK'
  BY StartCalls DEF IInv, Start
<1>4. \A v \in Handlers : handler[v].step = "ship" => handler'[v] = handler[v]
  BY DEF Start, At, IInv, HandlersOK
<1> QED
  BY <1>2, <1>3, <1>4, UpdatesKept, BugsKept, RequestsKept, ReleasesKept DEF IInv, tables

LEMMA CallKeeps ==
    ASSUME OperationsAssumption, IInv, NEW w \in Handlers, NEW p, Call(w, p)
    PROVE  IInv'
<1>1. ASSUME NEW u \in Present(update), NEW to, UpdateRead(w, p, u, to) PROVE IInv'
  <2> DEFINE h == [step |-> "update", id |-> u, from |-> update[u].status, to |-> to, fresh |-> TRUE]
  <2>1. UpdatesOK' /\ HandlersOK' /\ Start(w, h) /\ UNCHANGED <<system, tables, link, disturbed>>
    BY <1>1, UpdateReadKeeps DEF IInv, UpdateRead
  <2>2. h \in Handler /\ h.step = "update"
    BY <2>1 DEF Start, HandlersOK, IInv
  <2> QED
    BY <2>1, <2>2, StartKeeps DEF UpdateSteps, ReleaseSteps
<1>2. ASSUME NEW u \in Present(update), ApproveUpdateRead(w, p, u) PROVE IInv'
  <2> DEFINE h == [step |-> "approveUpdate", id |-> u, fresh |-> TRUE]
  <2>1. UpdatesOK' /\ HandlersOK' /\ Start(w, h) /\ UNCHANGED <<system, tables, link, disturbed>>
    BY <1>2, ApproveUpdateReadKeeps DEF IInv, ApproveUpdateRead
  <2>2. h \in Handler /\ h.step = "approveUpdate"
    BY <2>1 DEF Start, HandlersOK, IInv
  <2> QED
    BY <2>1, <2>2, StartKeeps DEF UpdateSteps, ReleaseSteps
<1>3. ASSUME NEW b \in Present(bug), NEW to, NEW assignee \in Engineers \cup {Nobody, Keep},
             BugRead(w, p, b, to, assignee)
      PROVE  IInv'
  <2> DEFINE h == [step |-> "bug", id |-> b, from |-> bug[b].status, to |-> to,
                   assignee |-> assignee, fresh |-> TRUE]
  <2>1. BugsOK' /\ HandlersOK' /\ Start(w, h) /\ UNCHANGED <<system, tables, link, disturbed>>
    BY <1>3, BugReadKeeps DEF IInv, BugRead
  <2>2. h \in Handler /\ h.step = "bug"
    BY <2>1 DEF Start, HandlersOK, IInv
  <2> QED
    BY <2>1, <2>2, StartKeeps DEF UpdateSteps, ReleaseSteps
<1>4. ASSUME NEW q \in Present(request), NEW to, NEW assignee \in Engineers \cup {Nobody, Keep},
             NEW date \in {"date", "null", Keep}, MaintenanceRead(w, p, q, to, assignee, date)
      PROVE  IInv'
  <2> DEFINE h == [step |-> "maintenance", id |-> q, from |-> request[q].status, to |-> to,
                   assignee |-> AssigneeId(q, assignee), scheduled |-> ScheduledAt(q, date),
                   fresh |-> TRUE]
  <2>1. Start(w, h) /\ UNCHANGED <<system, tables, link, disturbed>>
    BY <1>4 DEF MaintenanceRead
  <2>2. RequestsOK' /\ HandlersOK'
    BY <1>4, MaintenanceReadKeeps DEF IInv
  <2>3. h \in Handler /\ h.step = "maintenance"
    BY <2>1, <2>2 DEF Start, HandlersOK, IInv
  <2> HIDE DEF h
  <2> QED
    BY <2>1, <2>2, <2>3, StartKeeps DEF UpdateSteps, ReleaseSteps
<1>5. ASSUME NEW r \in Present(release), ApproveReleaseRead(w, p, r) PROVE IInv'
  <2> DEFINE h == [step |-> "approveRelease", id |-> r, fresh |-> TRUE]
  <2>1. ReleasesOK' /\ HandlersOK' /\ Start(w, h) /\ UNCHANGED <<system, tables, link, disturbed>>
    BY <1>5, ApproveReleaseReadKeeps DEF IInv, ApproveReleaseRead
  <2>2. h \in Handler /\ h.step = "approveRelease"
    BY <2>1 DEF Start, HandlersOK, IInv
  <2> QED
    BY <2>1, <2>2, StartKeeps DEF UpdateSteps, ReleaseSteps
<1>6. ASSUME NEW r \in Present(release), NEW to, ReleaseRead(w, p, r, to) PROVE IInv'
  <2> DEFINE h == [step |-> IF to = "VERIFIED" THEN "deployments" ELSE "release",
                   id |-> r, from |-> release[r].status, to |-> to, fresh |-> TRUE]
  <2>1. ReleasesOK' /\ HandlersOK' /\ Start(w, h) /\ UNCHANGED <<system, tables, link, disturbed>>
    BY <1>6, ReleaseReadKeeps DEF IInv, ReleaseRead
  <2>2. h \in Handler /\ h.step \in {"deployments", "release"}
    BY <2>1 DEF Start, HandlersOK, IInv
  <2> HIDE DEF h
  <2> QED
    BY <2>1, <2>2, StartKeeps DEF UpdateSteps, ReleaseSteps
<1>7. ASSUME NEW r \in Present(release), NEW status \in {"SUCCEEDED", "FAILED", "ROLLED_BACK"},
             RecordRead(w, p, r, status)
      PROVE  IInv'
  <2> DEFINE h == [step |-> "record", id |-> r, from |-> release[r].status, to |-> status, fresh |-> TRUE]
  <2>1. ReleasesOK' /\ HandlersOK' /\ Start(w, h) /\ UNCHANGED <<system, tables, link, disturbed>>
    BY <1>7, RecordReadKeeps DEF IInv, RecordRead
  <2>2. h \in Handler /\ h.step = "record"
    BY <2>1 DEF Start, HandlersOK, IInv
  <2> QED
    BY <2>1, <2>2, StartKeeps DEF UpdateSteps, ReleaseSteps
<1> QED
  BY <1>1, <1>2, <1>3, <1>4, <1>5, <1>6, <1>7 DEF Call

(* The write at the end of a call: its own table, and the three others.    *)
LEMMA LandKeeps ==
    ASSUME OperationsAssumption, IInv, NEW w \in Handlers, NEW id \in Ids, Land(w, id),
           handler[w].step # "idle", handler[w].id = id,
           UNCHANGED <<system, link>>, disturbed' \cap Requests = {},
           id \in Updates => UpdatesOK' /\ UNCHANGED <<bug, request, release>>,
           id \in Bugs => BugsOK' /\ UNCHANGED <<update, request, release>>,
           id \in Requests => RequestsOK' /\ UNCHANGED <<update, bug, release>>,
           id \in Releases => ReleasesOK' /\ UNCHANGED <<update, bug, request>>
    PROVE  IInv'
<1>1. Wrote(w, id) /\ disturbed \subseteq disturbed' /\ disturbed' \subseteq Ids
  BY DEF Land, IInv, Ids
<1>2. HandlersOK /\ HandlersOK' /\ Acts(w, id, Idle)
  BY <1>1, WroteCalls DEF Acts, IInv
<1>3. /\ Idle.step \notin UpdateSteps \cup ReleaseSteps /\ Idle.step # "bug" /\ Idle.step # "maintenance"
  BY DEF Idle, UpdateSteps, ReleaseSteps
<1>4. id \notin Releases => handler[w].step # "ship"
  BY <1>2, CallIds DEF ReleaseSteps
<1>5. id \notin Updates => UpdatesOK'
  BY <1>2, <1>3, ForeignUpdates DEF IInv, Ids
<1>6. id \notin Bugs => BugsOK'
  BY <1>1, <1>2, <1>3, ForeignBugs DEF IInv, Ids
<1>7. id \notin Requests => RequestsOK'
  BY <1>2, <1>3, ForeignRequests DEF IInv, Ids
<1>8. id \notin Releases => ReleasesOK'
  BY <1>1, <1>2, <1>3, <1>4, ForeignReleases DEF IInv, Ids
<1> QED
  BY <1>1, <1>2, <1>5, <1>6, <1>7, <1>8 DEF IInv

LEMMA ProceedKeeps ==
    ASSUME OperationsAssumption, IInv, NEW w \in Handlers, Proceed(w)
    PROVE  IInv'
<1>1. /\ HandlersOK /\ UpdatesOK /\ BugsOK /\ RequestsOK /\ ReleasesOK /\ handler[w] \in Handler
      /\ disturbed \subseteq Ids /\ disturbed \cap Requests = {}
  BY DEF IInv, HandlersOK
<1>2. ASSUME NEW id \in Ids \ Requests, Land(w, id) PROVE disturbed' \cap Requests = {}
  BY <1>1, <1>2 DEF Land
<1>3. ASSUME Finish(w), UNCHANGED <<system, tables, link, disturbed>>, handler[w].step # "ship" PROVE IInv'
  BY <1>3, FinishKeeps DEF At
<1>4. CASE UpdateWrite(w) \/ ApproveUpdateWrite(w)
  <2>1. UpdatesOK' /\ handler[w].step \in UpdateSteps /\ UNCHANGED <<system, bug, request, release, link>>
    BY <1>1, <1>4, UpdateWriteKeeps, ApproveUpdateWriteKeeps
    DEF UpdateWrite, ApproveUpdateWrite, At, UpdateSteps
  <2>2. PICK id \in Updates \ (Bugs \cup Requests \cup Releases) : id = handler[w].id
    BY <1>1, <2>1, CallIds
  <2>3. handler[w].step # "idle" /\ handler[w].step # "ship" /\ id \in Ids
    BY <2>1, <2>2 DEF UpdateSteps, Ids
  <2>4. Land(w, id) \/ (Finish(w) /\ UNCHANGED <<update, disturbed>>)
    BY <1>4, <2>2 DEF UpdateWrite, ApproveUpdateWrite
  <2> QED
    BY <1>2, <1>3, <2>1, <2>2, <2>3, <2>4, LandKeeps DEF tables
<1>5. CASE BugWrite(w)
  <2>1. BugsOK' /\ handler[w].step = "bug" /\ UNCHANGED <<system, update, request, release, link>>
    BY <1>1, <1>5, BugWriteKeeps DEF BugWrite, At
  <2>2. PICK id \in Bugs \ (Updates \cup Requests \cup Releases) : id = handler[w].id
    BY <1>1, <2>1, CallIds
  <2>3. id \in Ids /\ Land(w, id)
    BY <1>5, <2>2 DEF Ids, BugWrite
  <2> QED
    BY <1>2, <2>1, <2>2, <2>3, LandKeeps
<1>6. CASE MaintenanceWrite(w)
  <2>1. /\ RequestsOK' /\ handler[w].step = "maintenance" /\ disturbed' = disturbed
        /\ UNCHANGED <<system, update, bug, release, link>>
    BY <1>1, <1>6, MaintenanceWriteKeeps DEF MaintenanceWrite, At
  <2>2. PICK id \in Requests \ (Updates \cup Bugs \cup Releases) : id = handler[w].id
    BY <1>1, <2>1, CallIds
  <2>3. id \in Ids /\ disturbed' \cap Requests = {}
    BY <1>1, <2>1, <2>2 DEF Ids
  <2>4. Land(w, id) \/ (Finish(w) /\ UNCHANGED <<request, disturbed>>)
    BY <1>6, <2>2 DEF MaintenanceWrite
  <2>5. CASE Land(w, id)
    BY <2>1, <2>2, <2>3, <2>5, LandKeeps
  <2> QED
    BY <1>3, <2>1, <2>4, <2>5 DEF tables
<1>7. CASE ApproveReleaseWrite(w) \/ ReleaseWrite(w) \/ ShipWrite(w)
  <2>1. /\ ReleasesOK' /\ handler[w].step \in {"approveRelease", "release", "ship"}
        /\ UNCHANGED <<system, update, bug, request, link>>
    BY <1>1, <1>7, ApproveReleaseWriteKeeps, ReleaseWriteKeeps, ShipWriteKeeps
    DEF ApproveReleaseWrite, ReleaseWrite, ShipWrite, At
  <2>2. PICK id \in Releases \ (Updates \cup Bugs \cup Requests) : id = handler[w].id
    BY <1>1, <2>1, CallIds DEF ReleaseSteps
  <2>3. handler[w].step # "idle" /\ id \in Ids
    BY <2>1, <2>2 DEF Ids
  <2>4. \/ Land(w, id)
        \/ Finish(w) /\ UNCHANGED release /\ disturbed' = IF At(w, "ship") THEN disturbed \cup {handler[w].id} ELSE disturbed
    BY <1>7, <2>2 DEF ApproveReleaseWrite, ReleaseWrite, ShipWrite, At
  <2> QED
    BY <1>2, <2>1, <2>2, <2>3, <2>4, LandKeeps, FinishKeeps DEF tables
<1>8. CASE FindDeployment(w) \/ RecordCreate(w)
  <2>1. /\ ReleasesOK' /\ HandlersOK' /\ handler[w].step \in {"deployments", "record"}
        /\ UNCHANGED <<system, update, bug, request, link, disturbed>>
    BY <1>1, <1>8, FindDeploymentKeeps, RecordCreateKeeps
    DEF FindDeployment, RecordCreate, At, tables
  <2>2. PICK h : handler' = [handler EXCEPT ![w] = h] /\ h.step \in {"release", "ship", "idle"}
    <3>1. CASE FindDeployment(w)
      <4>1. [handler[w] EXCEPT !.step = "release"].step = "release"
        BY <1>1, <2>1, CallTypes
      <4> QED
        BY <3>1, <4>1, <1>1 DEF FindDeployment, Finish, Idle, HandlersOK
    <3>2. CASE RecordCreate(w)
      <4> DEFINE Ship(to) == [step |-> "ship", id |-> handler[w].id, from |-> handler[w].from,
                              to |-> to, fresh |-> handler[w].fresh]
                 g == IF handler[w].to = "SUCCEEDED" /\ handler[w].from = "APPROVED" THEN Ship("DEPLOYED")
                      ELSE IF handler[w].to = "ROLLED_BACK" /\ handler[w].from = "DEPLOYED"
                           THEN Ship("ROLLED_BACK")
                      ELSE Idle
      <4>1. g.step \in {"release", "ship", "idle"}
        BY DEF Idle
      <4>2. handler' = [handler EXCEPT ![w] = g]
        BY <3>2 DEF RecordCreate
      <4> HIDE DEF g
      <4> QED
        BY <4>1, <4>2
    <3> QED
      BY <1>8, <3>1, <3>2
  <2>3. OnlyEnds(UpdateSteps) /\ OnlyEnds({"bug"}) /\ OnlyEnds({"maintenance"})
    BY <1>1, <2>2 DEF OnlyEnds, HandlersOK, UpdateSteps
  <2> QED
    BY <1>1, <2>1, <2>3, UpdatesKept, BugsKept, RequestsKept DEF IInv
<1>9. CASE Abort(w)
  BY <1>9, FinishKeeps DEF Abort
<1> QED
  BY <1>4, <1>5, <1>6, <1>7, <1>8, <1>9 DEF Proceed

LEMMA InitHolds == Init => IInv
<1> SUFFICES ASSUME Init PROVE IInv
  OBVIOUS
<1>1. \A w \in Handlers : handler[w] = Idle /\ Idle \in Handler
  BY DEF Init, Handler
<1>2. HandlersOK
  BY <1>1 DEF HandlersOK, Init
<1>3. UpdatesOK
  BY <1>1 DEF Init, UpdatesOK, UpdateGate, Present, UpdateKnows, Idle, UpdateSteps
<1>4. BugsOK
  BY <1>1 DEF Init, BugsOK, BugDatesExplained, Present, BugKnows, Idle
<1>5. RequestsOK
  BY <1>1 DEF Init, RequestsOK, RecursOnce, NextOf, RequestKnows, Idle
<1>6. ReleasesOK
  BY <1>1 DEF Init, ReleasesOK, ReleaseGate, RecordsExplained, Present, ReleaseKnows, Idle, ReleaseSteps
<1> QED
  BY <1>2, <1>3, <1>4, <1>5, <1>6 DEF IInv, Init

LEMMA StutterKeeps == ASSUME IInv, UNCHANGED vars PROVE IInv'
<1>1. UNCHANGED <<system, update, bug, request, release, link, handler, disturbed>>
  BY DEF vars, tables
<1>2. OnlyEnds(UpdateSteps) /\ OnlyEnds({"bug"}) /\ OnlyEnds({"maintenance"}) /\ OnlyEnds(ReleaseSteps)
  BY <1>1 DEF OnlyEnds
<1> QED
  BY <1>1, <1>2, UpdatesKept, BugsKept, RequestsKept, ReleasesKept DEF IInv, HandlersOK

LEMMA NextKeeps == OperationsAssumption /\ IInv /\ [Next]_vars => IInv'
  BY CreateKeeps, CallKeeps, ProceedKeeps, StutterKeeps DEF Next

(* The inductive invariant holds in every reachable state.                 *)
THEOREM OperationsInvariance == Spec => []IInv
  BY OperationsAssumption, InitHolds, NextKeeps, PTL DEF Spec

(* Rows and calls have the types of the schema and the code.               *)
THEOREM OperationsTypeCorrect == Spec => []TypeOK
<1>1. IInv => TypeOK
  BY DEF IInv, TypeOK, HandlersOK, UpdatesOK, BugsOK, RequestsOK, ReleasesOK
<1> QED
  BY <1>1, OperationsInvariance, PTL

(* Nothing reaches production unapproved, however the calls of             *)
(* transitionUpdate, approveUpdateProduction, transitionRelease and        *)
(* recordDeployment overlap and wherever one of them breaks off.           *)
THEOREM ProductionIsGated == Spec => []ProductionGate
<1>1. IInv => ProductionGate
  BY DEF IInv, UpdatesOK, ReleasesOK, ProductionGate
<1> QED
  BY <1>1, OperationsInvariance, PTL

(* The dates of a bug fit its status, unless two updates of it overlapped  *)
(* (updateBug).                                                            *)
THEOREM BugDatesAreExplained == Spec => []BugDatesExplained
<1>1. IInv => BugDatesExplained
  BY DEF IInv, BugsOK
<1> QED
  BY <1>1, OperationsInvariance, PTL

(* A recurring request has one next occurrence exactly when it is          *)
(* completed, however many calls complete it at once (updateMaintenance).  *)
THEOREM RecursExactlyOnce == Spec => []OneNextOccurrence
<1>1. IInv => OneNextOccurrence
  <2> SUFFICES ASSUME IInv, NEW q \in Present(request)
               PROVE  /\ Cardinality({n \in Present(request) : request[n].after = q}) =
                            IF request[q].recurring /\ request[q].status = "COMPLETED" THEN 1 ELSE 0
                      /\ request[q].status = "IN_PROGRESS" => request[q].assignee # Nobody
    BY DEF OneNextOccurrence
  <2>1. q \in Requests /\ request[q] # Absent /\ {n \in Present(request) : request[n].after = q} = NextOf(q)
    BY DEF IInv, RequestsOK, Present, NextOf
  <2>2. /\ request[q].recurring /\ request[q].status = "COMPLETED" => \E n \in Requests : NextOf(q) = {n}
        /\ ~(request[q].recurring /\ request[q].status = "COMPLETED") => NextOf(q) = {}
        /\ request[q].status = "IN_PROGRESS" => request[q].assignee # Nobody
    BY <2>1 DEF IInv, RequestsOK, RecursOnce
  <2>3. Cardinality({}) = 0 /\ \A n : Cardinality({n}) = 1
    BY FS_EmptySet, FS_Singleton
  <2> QED
    BY <2>1, <2>2, <2>3
<1> QED
  BY <1>1, OperationsInvariance, PTL

-----------------------------------------------------------------------------
(* Which calls write to which table.                                       *)
LEMMA Writers ==
    ASSUME [Next]_vars
    PROVE  /\ \/ update' = update
              \/ \E u \in Updates : \E p : createUpdate(p, u)
              \/ \E w \in Handlers : UpdateWrite(w) \/ ApproveUpdateWrite(w)
           /\ \/ bug' = bug
              \/ \E b \in Bugs : \E p : createBug(p, b)
              \/ \E w \in Handlers : BugWrite(w)
           /\ \/ request' = request
              \/ \E q \in Requests, assignee \in Engineers \cup {Nobody}, scheduled, recurring \in BOOLEAN :
                    \E p : createMaintenance(p, q, assignee, scheduled, recurring)
              \/ \E w \in Handlers : MaintenanceWrite(w)
           /\ \/ release' = release
              \/ \E r \in Releases : \E p : createRelease(p, r)
              \/ \E w \in Handlers : ApproveReleaseWrite(w) \/ ReleaseWrite(w) \/ ShipWrite(w)
              \/ \E w \in Handlers : RecordCreate(w)
<1>1. CASE UNCHANGED vars
  BY <1>1 DEF vars, tables
<1>2. ASSUME NEW p, Create(p)
      PROVE  /\ update' = update \/ \E u \in Updates : createUpdate(p, u)
             /\ bug' = bug \/ \E b \in Bugs : createBug(p, b)
             /\ request' = request
                \/ \E q \in Requests, assignee \in Engineers \cup {Nobody}, scheduled, recurring \in BOOLEAN :
                      createMaintenance(p, q, assignee, scheduled, recurring)
             /\ release' = release \/ \E r \in Releases : createRelease(p, r)
  BY <1>2 DEF Create, createSystem, createUpdate, createBug, createMaintenance, createRelease,
              changeReleaseTask, changeReleasePullRequest, tables
<1>3. ASSUME NEW w \in Handlers, NEW p, Call(w, p) PROVE UNCHANGED tables
  BY <1>3 DEF Call, UpdateRead, ApproveUpdateRead, BugRead, MaintenanceRead, ApproveReleaseRead,
              ReleaseRead, RecordRead
<1>4. ASSUME NEW w \in Handlers, Proceed(w)
      PROVE  /\ update' = update \/ UpdateWrite(w) \/ ApproveUpdateWrite(w)
             /\ bug' = bug \/ BugWrite(w)
             /\ request' = request \/ MaintenanceWrite(w)
             /\ release' = release \/ ApproveReleaseWrite(w) \/ ReleaseWrite(w) \/ ShipWrite(w) \/ RecordCreate(w)
  BY <1>4 DEF Proceed, UpdateWrite, ApproveUpdateWrite, BugWrite, MaintenanceWrite, ApproveReleaseWrite,
              FindDeployment, ReleaseWrite, RecordCreate, ShipWrite, Abort, tables
<1>5. CASE \E p \in People : Create(p)
  BY <1>2, <1>5
<1>6. CASE \E p \in People, w \in Handlers : Call(w, p)
  BY <1>3, <1>6 DEF tables
<1>7. CASE \E w \in Handlers : Proceed(w)
  BY <1>4, <1>7
<1> QED
  BY <1>1, <1>5, <1>6, <1>7 DEF Next

LEMMA UpdatesMove ==
    ASSUME IInv, [Next]_vars PROVE Follows(update, UPDATE_TRANSITIONS)
<1>1. CASE update' = update
  BY <1>1 DEF Follows
<1>2. ASSUME NEW p, NEW u \in Updates, createUpdate(p, u) PROVE Follows(update, UPDATE_TRANSITIONS)
  BY <1>2 DEF createUpdate, Follows, Present, IInv, UpdatesOK
<1>3. ASSUME NEW w \in Handlers, UpdateWrite(w), update' # update
      PROVE  Follows(update, UPDATE_TRANSITIONS)
  <2>1. /\ update[handler[w].id].status = handler[w].from
        /\ update' = [update EXCEPT ![handler[w].id].status = handler[w].to]
        /\ <<handler[w].from, handler[w].to>> \in UPDATE_TRANSITIONS
    BY <1>3 DEF UpdateWrite, At, IInv, UpdatesOK, UpdateKnows
  <2> QED
    BY <2>1 DEF Follows, Present, IInv, UpdatesOK, UpdateRow
<1>4. ASSUME NEW w \in Handlers, ApproveUpdateWrite(w), update' # update
      PROVE  Follows(update, UPDATE_TRANSITIONS)
  BY <1>4 DEF ApproveUpdateWrite, Follows, Present, IInv, UpdatesOK, UpdateRow
<1> QED
  BY <1>1, <1>2, <1>3, <1>4, Writers

LEMMA BugsMove ==
    ASSUME IInv, [Next]_vars, NEW b \in Present(bug), bug'[b].status # bug[b].status
    PROVE  <<bug[b].status, bug'[b].status>> \in allowedBugTransitions \/ b \in disturbed'
<1>1. b \in Bugs /\ bug[b] # Absent
  BY DEF Present, IInv, BugsOK
<1>2. ASSUME NEW p, NEW c \in Bugs, createBug(p, c) PROVE FALSE
  BY <1>1, <1>2 DEF createBug, IInv, BugsOK
<1>3. ASSUME NEW w \in Handlers, BugWrite(w)
      PROVE  <<bug[b].status, bug'[b].status>> \in allowedBugTransitions \/ b \in disturbed'
  <2>1. /\ bug' = [bug EXCEPT ![handler[w].id] = BugMoved(handler[w], @)]
        /\ Land(w, handler[w].id) /\ BugKnows(handler[w]) /\ handler[w].step = "bug"
    BY <1>3 DEF BugWrite, At, IInv, BugsOK
  <2>2. b = handler[w].id /\ bug'[b].status = handler[w].to
    BY <1>1, <2>1 DEF BugMoved, IInv, BugsOK
  <2>3. CASE handler[w].fresh
    BY <2>1, <2>2, <2>3 DEF BugKnows
  <2>4. CASE ~handler[w].fresh
    BY <2>1, <2>2, <2>4 DEF Land
  <2> QED
    BY <2>3, <2>4
<1> QED
  BY <1>2, <1>3, Writers

LEMMA RequestsMove ==
    ASSUME IInv, [Next]_vars PROVE Follows(request, MAINTENANCE_TRANSITIONS)
<1>1. CASE request' = request
  BY <1>1 DEF Follows
<1>2. ASSUME NEW p, NEW q \in Requests, NEW assignee, NEW scheduled, NEW recurring,
             createMaintenance(p, q, assignee, scheduled, recurring)
      PROVE  Follows(request, MAINTENANCE_TRANSITIONS)
  BY <1>2 DEF createMaintenance, Follows, Present, IInv, RequestsOK
<1>3. ASSUME NEW w \in Handlers, MaintenanceWrite(w), request' # request
      PROVE  Follows(request, MAINTENANCE_TRANSITIONS)
  <2> DEFINE h == handler[w]
  <2>1. /\ request[h.id].status = h.from
        /\ <<h.from, h.to>> \in MAINTENANCE_TRANSITIONS
        /\ \/ request' = Moved(h)
           \/ \E n \in Requests \ Present(request) : request' = [Moved(h) EXCEPT ![n] = Occurrence(h.id, h)]
    BY <1>3 DEF MaintenanceWrite, Unchanged, At, IInv, RequestsOK, RequestKnows
  <2>2. ASSUME NEW q \in Present(request)
        PROVE  q \in Requests /\ request'[q].status = IF q = h.id THEN h.to ELSE request[q].status
    <3>1. request \in [Requests -> RequestRow \cup {Absent}] /\ q \in Requests /\ request[q] \in RequestRow
      BY DEF IInv, RequestsOK, Present
    <3>2. Moved(h)[q].status = IF q = h.id THEN h.to ELSE request[q].status
      BY <3>1 DEF Moved, RequestRow
    <3>3. DOMAIN Moved(h) = Requests
      BY <3>1 DEF Moved
    <3> QED
      BY <2>1, <3>1, <3>2, <3>3
  <2> QED
    BY <2>1, <2>2 DEF Follows
<1> QED
  BY <1>1, <1>2, <1>3, Writers

LEMMA ReleasesMove ==
    ASSUME IInv, [Next]_vars, NEW r \in Present(release), release'[r].status # release[r].status
    PROVE  \/ <<release[r].status, release'[r].status>> \in
                 RELEASE_TRANSITIONS \cup {<<"PENDING_APPROVAL", "APPROVED">>}
           \/ r \in disturbed'
<1>1. r \in Releases /\ release[r] \in ReleaseRow /\ release[r] # Absent
      /\ release \in [Releases -> ReleaseRow \cup {Absent}]
  BY DEF Present, IInv, ReleasesOK
<1>2. ASSUME NEW p, NEW c \in Releases, createRelease(p, c) PROVE FALSE
  BY <1>1, <1>2 DEF createRelease
<1>3. ASSUME NEW w \in Handlers, RecordCreate(w) PROVE FALSE
  BY <1>1, <1>3 DEF RecordCreate, ReleaseRow
<1>4. ASSUME NEW w \in Handlers, ApproveReleaseWrite(w)
      PROVE  \/ <<release[r].status, release'[r].status>> = <<"PENDING_APPROVAL", "APPROVED">>
             \/ r \in disturbed'
  <2>1. /\ Land(w, handler[w].id) /\ ReleaseKnows(handler[w]) /\ handler[w].step = "approveRelease"
        /\ r = handler[w].id /\ release'[r].status = "APPROVED"
    BY <1>1, <1>4 DEF ApproveReleaseWrite, At, IInv, ReleasesOK, ReleaseRow
  <2> QED
    BY <2>1 DEF Land, ReleaseKnows
<1>5. ASSUME NEW w \in Handlers, ReleaseWrite(w) \/ ShipWrite(w)
      PROVE  <<release[r].status, release'[r].status>> \in RELEASE_TRANSITIONS
  <2>1. /\ release' = [release EXCEPT ![handler[w].id].status = handler[w].to]
        /\ release[handler[w].id].status = handler[w].from
    BY <1>1, <1>5 DEF ReleaseWrite, ShipWrite
  <2>2. <<handler[w].from, handler[w].to>> \in RELEASE_TRANSITIONS
    BY <1>5 DEF ReleaseWrite, ShipWrite, At, IInv, ReleasesOK, ReleaseKnows, RELEASE_TRANSITIONS
  <2> QED
    BY <1>1, <2>1, <2>2 DEF ReleaseRow
<1> QED
  BY <1>2, <1>3, <1>4, <1>5, Writers

(* Every change of a status is a move of its table: for updates and        *)
(* maintenance at every interleaving, for bugs and releases unless the     *)
(* write landed on a row that changed under it; and a maintenance request  *)
(* is never written from a stale read at all.                              *)
THEOREM StatusesMoveByTable == Spec => StatusMoves
<1>1. ASSUME IInv, IInv', [Next]_vars PROVE MovesStep
  <2>1. disturbed' \cap Requests = {}
    BY <1>1 DEF IInv
  <2> QED
    BY <1>1, <2>1, UpdatesMove, BugsMove, RequestsMove, ReleasesMove DEF MovesStep
<1>2. IInv /\ IInv' /\ [Next]_vars => [MovesStep]_vars
  BY <1>1
<1> QED
  BY <1>2, OperationsInvariance, PTL DEF Spec, StatusMoves

-----------------------------------------------------------------------------
(* The refinement of ServiceLevel.                                         *)
Served == [id \in Bugs \cup Requests |->
              IF id \in Present(bug) \cup Present(request) THEN ServiceRow(id)
              ELSE [open |-> FALSE]]

LEMMA ServedType ==
    ASSUME OperationsAssumption, IInv, NEW id \in Bugs \cup Requests
    PROVE  /\ id \in Present(bug) \cup Present(request) => Served[id] \in SL!Row /\ Served[id] # SL!NotFiled
           /\ id \notin Present(bug) \cup Present(request) => Served[id] = SL!NotFiled
<1>1. ASSUME id \in Present(bug) \cup Present(request)
      PROVE  ServiceRow(id) \in SL!Row
  <2>1. \/ id \in Bugs /\ bug[id] \in BugRow
        \/ id \notin Bugs /\ id \in Requests /\ request[id] \in RequestRow
    BY <1>1 DEF Present, IInv, BugsOK, RequestsOK, OperationsAssumption
  <2> QED
    BY <2>1 DEF ServiceRow, SL!Row, BugRow, RequestRow
<1>2. SL!NotFiled \notin SL!Row
  <2>1. "responded" \notin DOMAIN SL!NotFiled
    BY DEF SL!NotFiled
  <2>2. \A x \in SL!Row : "responded" \in DOMAIN x
    BY DEF SL!Row
  <2> QED
    BY <2>1, <2>2
<1> QED
  BY <1>1, <1>2 DEF Served, SL!NotFiled

(* An answer, once given, is never taken back.                             *)
LEMMA BugStaysServed ==
    ASSUME IInv, [Next]_vars, NEW b \in Bugs
    PROVE  /\ bug[b] # Absent => bug'[b] # Absent /\ (bug[b].responded => bug'[b].responded)
           /\ bug[b] = Absent => bug'[b] = Absent \/
                bug'[b] = [status |-> "REPORTED", assignee |-> Nobody, responded |-> FALSE, resolved |-> FALSE]
<1>1. bug \in [Bugs -> BugRow \cup {Absent}]
  BY DEF IInv, BugsOK
<1>2. ASSUME NEW c \in Bugs, NEW p, createBug(p, c)
      PROVE  /\ bug[b] # Absent => bug'[b] = bug[b]
             /\ bug'[b] = bug[b] \/
                bug'[b] = [status |-> "REPORTED", assignee |-> Nobody, responded |-> FALSE, resolved |-> FALSE]
  BY <1>1, <1>2 DEF createBug
<1>3. ASSUME NEW w \in Handlers, BugWrite(w)
      PROVE  /\ bug[b] # Absent => bug'[b] # Absent /\ (bug[b].responded => bug'[b].responded)
             /\ bug[b] = Absent => bug'[b] = bug[b]
  <2> DEFINE h == handler[w]
             rec == BugMoved(h, bug[h.id])
  <2>1. bug' = [bug EXCEPT ![h.id] = rec] /\ bug[h.id] # Absent
    BY <1>3 DEF BugWrite, At, IInv, BugsOK, BugKnows
  <2>2. h.id \in Bugs => rec # Absent /\ (bug[h.id].responded => rec.responded)
    BY DEF BugMoved, Absent
  <2> HIDE DEF rec
  <2> QED
    BY <1>1, <2>1, <2>2
<1> QED
  BY <1>2, <1>3, Writers

LEMMA RequestStaysServed ==
    ASSUME IInv, [Next]_vars, NEW q \in Requests
    PROVE  /\ request[q] # Absent => request'[q] # Absent /\ (request[q].responded => request'[q].responded)
           /\ request[q] = Absent => request'[q] = Absent \/
                 (/\ request'[q].status \in {"REQUESTED", "SCHEDULED"}
                  /\ request'[q].responded = FALSE)
<1>1. request \in [Requests -> RequestRow \cup {Absent}]
  BY DEF IInv, RequestsOK
<1>2. ASSUME NEW p, NEW x \in Requests, NEW assignee, NEW scheduled, NEW recurring,
             createMaintenance(p, x, assignee, scheduled, recurring)
      PROVE  /\ request[q] # Absent => request'[q] = request[q]
             /\ request'[q] = request[q] \/
                 (/\ request'[q].status \in {"REQUESTED", "SCHEDULED"}
                  /\ request'[q].responded = FALSE)
  BY <1>1, <1>2 DEF createMaintenance
<1>3. ASSUME NEW w \in Handlers, MaintenanceWrite(w), request' # request
      PROVE  /\ request[q] # Absent => request'[q] # Absent /\ (request[q].responded => request'[q].responded)
             /\ request[q] = Absent => request'[q] = request[q] \/
                   (/\ request'[q].status \in {"REQUESTED", "SCHEDULED"}
                    /\ request'[q].responded = FALSE)
  <2> DEFINE h == handler[w]
             rec == [request[h.id] EXCEPT !.status = h.to, !.assignee = h.assignee,
                        !.scheduled = h.scheduled, !.responded = @ \/ h.to = "IN_PROGRESS"]
  <2>1. h.id \in Requests /\ request[h.id] \in RequestRow /\ request[h.id] # Absent /\ h.to \in RequestStatus
        /\ h.assignee \in Person /\ h.scheduled \in BOOLEAN
    BY <1>1, <1>3, CallTypes DEF MaintenanceWrite, At, IInv, HandlersOK, RequestsOK, RequestKnows
  <2>2. Moved(h) = [request EXCEPT ![h.id] = rec]
    BY <1>1, <2>1 DEF Moved
  <2>3. rec # Absent /\ (request[h.id].responded => rec.responded)
    BY <2>1 DEF RequestRow, Absent
  <2>4. \/ request' = Moved(h)
        \/ \E n \in Requests : request[n] = Absent /\ request' = [Moved(h) EXCEPT ![n] = Occurrence(h.id, h)]
    BY <1>1, <1>3 DEF MaintenanceWrite, Present
  <2>5. Occurrence(h.id, h).status = "SCHEDULED" /\ Occurrence(h.id, h).responded = FALSE
    BY DEF Occurrence
  <2> HIDE DEF rec
  <2> QED
    BY <1>1, <2>1, <2>2, <2>3, <2>4, <2>5
<1> QED
  BY <1>2, <1>3, Writers

ServedTyped ==
    \A id \in Bugs \cup Requests :
        /\ id \in Present(bug) \cup Present(request) => Served[id] \in SL!Row /\ Served[id] # SL!NotFiled
        /\ id \notin Present(bug) \cup Present(request) => Served[id] = SL!NotFiled

LEMMA ServedTypeThen == IInv' => ServedTyped'
<1>1. IInv => ServedTyped
  BY OperationsAssumption, ServedType DEF ServedTyped
<1> QED
  BY <1>1, PTL

LEMMA ServedStep ==
    ASSUME OperationsAssumption, IInv, IInv', [Next]_vars, NEW id \in Bugs \cup Requests
    PROVE  Served[id]' \in SL!MayBecome(id)
<1> DEFINE On == id \in Present(bug) \cup Present(request)
<1>1. /\ On => Served[id] = ServiceRow(id) /\ Served[id] \in SL!Row /\ Served[id] # SL!NotFiled
      /\ ~On => Served[id] = SL!NotFiled
      /\ On' => Served[id]' = ServiceRow(id)' /\ Served[id]' \in SL!Row
      /\ ~On' => Served[id]' = SL!NotFiled
  <2>1. IInv => /\ On => Served[id] = ServiceRow(id) /\ Served[id] \in SL!Row /\ Served[id] # SL!NotFiled
                /\ ~On => Served[id] = SL!NotFiled
    BY ServedType DEF Served
  <2>2. IInv' => /\ On' => Served[id]' = ServiceRow(id)' /\ Served[id]' \in SL!Row
                 /\ ~On' => Served[id]' = SL!NotFiled
    BY ServedTypeThen DEF Served, ServedTyped
  <2> QED
    BY <2>1, <2>2
<1>2. SL!MayBecome(id) = IF Served[id] = SL!NotFiled THEN {SL!NotFiled, SL!New}
                         ELSE {x \in SL!Row : Served[id].responded => x.responded}
  BY DEF SL!MayBecome, Served
<1>3. /\ On => On' /\ (ServiceRow(id).responded => ServiceRow(id)'.responded)
      /\ ~On => ~On' \/ ServiceRow(id)' = SL!New
  <2>1. CASE id \in Bugs
    <3>1. /\ On <=> bug[id] # Absent
          /\ On' <=> bug'[id] # Absent
      BY <2>1 DEF Present, IInv, BugsOK, RequestsOK, OperationsAssumption
    <3>2. ServiceRow(id).responded = bug[id].responded /\ ServiceRow(id)'.responded = bug'[id].responded
      BY <2>1 DEF ServiceRow
    <3>3. bug'[id] = [status |-> "REPORTED", assignee |-> Nobody, responded |-> FALSE, resolved |-> FALSE]
             => ServiceRow(id)' = SL!New
      <4> DEFINE rec == [status |-> "REPORTED", assignee |-> Nobody, responded |-> FALSE, resolved |-> FALSE]
      <4> SUFFICES ASSUME bug'[id] = rec PROVE ServiceRow(id)' = SL!New
        OBVIOUS
      <4>1. ServiceRow(id)' = [open |-> bug'[id].status \notin {"RESOLVED", "CLOSED"},
                               responded |-> bug'[id].responded, resolved |-> bug'[id].resolved]
        BY <2>1 DEF ServiceRow
      <4>2. /\ (bug'[id].status \notin {"RESOLVED", "CLOSED"}) = TRUE
            /\ bug'[id].responded = FALSE /\ bug'[id].resolved = FALSE
        OBVIOUS
      <4> QED
        BY <4>1, <4>2 DEF SL!New
    <3> HIDE DEF On
    <3> QED
      BY <2>1, <3>1, <3>2, <3>3, BugStaysServed
  <2>2. CASE id \in Requests
    <3>1. /\ On <=> request[id] # Absent
          /\ On' <=> request'[id] # Absent
          /\ id \notin Bugs
      BY <2>2 DEF Present, IInv, BugsOK, RequestsOK, OperationsAssumption
    <3>2. ServiceRow(id).responded = request[id].responded /\ ServiceRow(id)'.responded = request'[id].responded
      BY <3>1 DEF ServiceRow
    <3>3. request'[id].status \in {"REQUESTED", "SCHEDULED"} /\ request'[id].responded = FALSE
             => ServiceRow(id)' = SL!New
      BY <3>1 DEF ServiceRow, SL!New
    <3> HIDE DEF On
    <3> QED
      BY <2>2, <3>1, <3>2, <3>3, RequestStaysServed
  <2> QED
    BY <2>1, <2>2
<1> HIDE DEF On
<1> QED
  BY <1>1, <1>2, <1>3

(* What the escalation of service levels assumes of its rows is what the   *)
(* calls do: a bug or request appears open and unanswered, never goes      *)
(* away, and an answer is never taken back, also not by an update that     *)
(* overlaps another (createBug, updateBug, updateMaintenance).             *)
THEOREM OperationsImplementServiceLevel == Spec => AsServiceLevels
<1>1. Init => SL!RowsInit
  BY DEF Init, SL!RowsInit, SL!NotFiled, Present, Absent
<1>2. OperationsAssumption /\ IInv /\ IInv' /\ [Next]_vars => SL!RowsNext
  BY ServedStep DEF SL!RowsNext, Served
<1> QED
  BY <1>1, <1>2, OperationsAssumption, OperationsInvariance, PTL DEF Spec, AsServiceLevels, SL!RowsSpec

-----------------------------------------------------------------------------
(* -- SlaEscalation ------------------------------------------------------ *)

(* Every deadline that is missed now is remembered, and what a scan has    *)
(* still to tell was missed when it read.                                  *)
Missed(alerts, deadlines) == \A a \in alerts : <<a[1], a[2]>> \in deadlines

SlaInv ==
    /\ SlaTypeOK
    /\ \A r \in Rows, stage \in Stage : <<r, stage>> \in overdue => row[r] # NotFiled
    /\ \A r \in Rows, stage \in Stage : Breached(r, stage) => <<r, stage>> \in missed
    /\ \A p \in Processes : Missed(scan[p], missed)
    /\ AlertsTrue

LEMMA NewIsOpen == New \in Row /\ New # NotFiled
<1>1. New \in Row
  BY DEF New, Row
<1>2. New.open # NotFiled.open
  BY DEF New, NotFiled
<1> QED
  BY <1>1, <1>2

LEMMA RowIsFiled == ASSUME NEW x \in Row PROVE x # NotFiled
<1>1. DOMAIN x = {"open", "responded", "resolved"} /\ DOMAIN NotFiled = {"open"}
  BY DEF Row, NotFiled
<1>2. "resolved" \in DOMAIN x /\ "resolved" \notin DOMAIN NotFiled
  BY <1>1
<1> QED
  BY <1>2

(* A step of the rows or of the clock.                                     *)
LEMMA RowsMove ==
    ASSUME SlaInv, row' \in [Rows -> Row \cup {NotFiled}], overdue' \subseteq Rows \X Stage,
           overdue \subseteq overdue', Remember,
           \A r \in Rows, stage \in Stage : <<r, stage>> \in overdue' => row'[r] # NotFiled,
           UNCHANGED <<filed, alerted, scan, faults>>
    PROVE  SlaInv'
<1>1. missed \subseteq missed' /\ missed' \subseteq overdue'
  BY DEF Remember, SlaInv, SlaTypeOK
<1>2. \A r \in Rows, stage \in Stage : Breached(r, stage)' => <<r, stage>> \in missed'
  BY DEF Breached, Met, Remember
<1>3. SlaTypeOK'
  BY <1>1 DEF SlaInv, SlaTypeOK
<1>4. (\A p \in Processes : Missed(scan'[p], missed')) /\ AlertsTrue'
  BY <1>1 DEF SlaInv, Missed, AlertsTrue
<1> QED
  BY <1>2, <1>3, <1>4 DEF SlaInv

LEMMA WorkKeeps ==
    ASSUME SlaInv, NEW r \in Rows, Work(r) PROVE SlaInv'
<1>1. PICK x \in MayBecome(r) \ {row[r]} : row' = [row EXCEPT ![r] = x]
  BY DEF Work
<1>2. x \in Row /\ x # NotFiled
  BY RowIsFiled DEF Work, MayBecome
<1>3. row' \in [Rows -> Row \cup {NotFiled}] /\ \A s \in Rows : row[s] # NotFiled => row'[s] # NotFiled
  BY <1>1, <1>2 DEF SlaInv, SlaTypeOK
<1>4. UNCHANGED <<filed, alerted, scan, faults>> /\ overdue' = overdue /\ Remember
  BY DEF Work
<1>5. overdue' \subseteq Rows \X Stage
        /\ \A s \in Rows, stage \in Stage : <<s, stage>> \in overdue' => row'[s] # NotFiled
  BY <1>3, <1>4 DEF SlaInv, SlaTypeOK
<1> QED
  BY <1>3, <1>4, <1>5, RowsMove

LEMMA DeadlineKeeps ==
    ASSUME SlaInv, NEW r \in Rows, NEW stage \in Stage, DeadlinePasses(r, stage) PROVE SlaInv'
<1>1. /\ row[r] # NotFiled /\ row' = row /\ overdue' = overdue \cup {<<r, stage>>}
      /\ UNCHANGED <<filed, alerted, scan, faults>> /\ Remember
  BY DEF DeadlinePasses
<1>2. row' \in [Rows -> Row \cup {NotFiled}] /\ overdue' \subseteq Rows \X Stage
  BY <1>1 DEF SlaInv, SlaTypeOK
<1>3. \A s \in Rows, t \in Stage : <<s, t>> \in overdue' => row'[s] # NotFiled
  BY <1>1 DEF SlaInv
<1> QED
  BY <1>1, <1>2, <1>3, RowsMove

LEMMA FileKeeps ==
    ASSUME SlaInv, NEW r \in Rows, File(r) PROVE SlaInv'
<1>1. /\ row[r] = NotFiled /\ row' = [row EXCEPT ![r] = New] /\ filed' = Append(filed, r)
      /\ UNCHANGED <<overdue, alerted, scan, missed, faults>>
  BY DEF File
<1>2. row' \in [Rows -> Row \cup {NotFiled}] /\ row'[r] = New /\ \A s \in Rows \ {r} : row'[s] = row[s]
  BY <1>1, NewIsOpen DEF SlaInv, SlaTypeOK
<1>3. filed' \in Seq(Rows)
  BY <1>1 DEF SlaInv, SlaTypeOK
<1>4. SlaTypeOK'
  BY <1>1, <1>2, <1>3 DEF SlaInv, SlaTypeOK
<1>5. \A stage \in Stage : <<r, stage>> \notin overdue
  BY <1>1 DEF SlaInv
<1>6. \A s \in Rows, stage \in Stage : <<s, stage>> \in overdue' => row'[s] # NotFiled
  BY <1>1, <1>2, <1>5 DEF SlaInv
<1>7. \A s \in Rows, stage \in Stage : Breached(s, stage)' => <<s, stage>> \in missed'
  BY <1>1, <1>2, <1>5 DEF SlaInv, Breached, Met
<1>8. (\A p \in Processes : Missed(scan'[p], missed')) /\ AlertsTrue'
  BY <1>1 DEF SlaInv, Missed, AlertsTrue
<1> QED
  BY <1>4, <1>6, <1>7, <1>8 DEF SlaInv

(* A step of a scan; what is emitted is part of what it had to tell.       *)
LEMMA ScanMoves ==
    ASSUME SlaInv, NEW p \in Processes, NEW todo \in SUBSET Alert, scan' = [scan EXCEPT ![p] = todo],
           Missed(todo, missed), alerted' \subseteq alerted \cup scan[p], faults' \in 0..MaxFaults,
           UNCHANGED <<row, filed, overdue, missed>>
    PROVE  SlaInv'
<1>1. scan' \in [Processes -> SUBSET Alert] /\ scan'[p] = todo /\ \A q \in Processes \ {p} : scan'[q] = scan[q]
  BY DEF SlaInv, SlaTypeOK
<1>2. SlaTypeOK'
  BY <1>1 DEF SlaInv, SlaTypeOK
<1>3. \A r \in Rows, stage \in Stage : Breached(r, stage)' => <<r, stage>> \in missed'
  BY DEF SlaInv, Breached, Met
<1>4. (\A q \in Processes : Missed(scan'[q], missed')) /\ AlertsTrue'
  BY <1>1 DEF SlaInv, Missed, AlertsTrue
<1> QED
  BY <1>2, <1>3, <1>4 DEF SlaInv

LEMMA ScanReadKeeps ==
    ASSUME SlaInv, NEW p \in Processes, ScanRead(p) PROVE SlaInv'
<1>1. PICK todo : todo = UNION {{r} \X Escalated(r) \X Recipients : r \in UNION {Selected(kind) : kind \in Kinds}}
  OBVIOUS
<1>2. ASSUME NEW kind \in Kinds, NEW r \in Selected(kind) PROVE r \in Rows /\ BreachedRow(r)
  <2>1. PICK i \in DOMAIN filed : r = filed[i] /\ BreachedRow(filed[i])
    BY <1>2 DEF Selected
  <2>2. filed[i] \in Rows
    BY ElementOfSeq DEF SlaInv, SlaTypeOK
  <2> QED
    BY <2>1, <2>2
<1>3. ASSUME NEW a \in todo PROVE a \in Alert /\ <<a[1], a[2]>> \in missed
  <2>1. PICK r \in UNION {Selected(kind) : kind \in Kinds} : a \in {r} \X Escalated(r) \X Recipients
    BY <1>1, <1>3
  <2>2. PICK stage \in Escalated(r), m \in Recipients : a = <<r, stage, m>>
    BY <2>1
  <2>3. r \in Rows /\ row[r].open /\ stage \in Stage /\ <<r, stage>> \in overdue /\ ~Met(r, stage)
    BY <1>2, <2>1, <2>2 DEF Escalated, BreachedRow, Breached
  <2>4. <<r, stage>> \in missed
    BY <2>3 DEF SlaInv, Breached
  <2> QED
    BY <2>2, <2>3, <2>4 DEF Alert
<1>4. /\ scan' = [scan EXCEPT ![p] = todo] /\ todo \in SUBSET Alert /\ Missed(todo, missed)
      /\ alerted' \subseteq alerted \cup scan[p] /\ faults' \in 0..MaxFaults
      /\ UNCHANGED <<row, filed, overdue, missed>>
  BY <1>1, <1>3 DEF ScanRead, Missed, SlaInv, SlaTypeOK
<1> QED
  BY <1>4, ScanMoves

LEMMA TellKeeps ==
    ASSUME SlaInv, NEW p \in Processes, Emit(p) \/ EmitFails(p) \/ Die(p) PROVE SlaInv'
<1>1. PICK todo \in SUBSET scan[p] : scan' = [scan EXCEPT ![p] = todo]
  BY DEF Emit, EmitFails, Die
<1>2. todo \in SUBSET Alert /\ Missed(todo, missed)
  BY <1>1 DEF SlaInv, SlaTypeOK, Missed
<1>3. faults' \in 0..MaxFaults
  BY SlaAssumption DEF Emit, EmitFails, Die, SlaInv, SlaTypeOK, SlaAssumption
<1>4. alerted' \subseteq alerted \cup scan[p] /\ UNCHANGED <<row, filed, overdue, missed>>
  BY DEF Emit, EmitFails, Die
<1> QED
  BY <1>1, <1>2, <1>3, <1>4, ScanMoves

(* No manager is told of a deadline that was not missed, however many      *)
(* processes scan and however long one works from what it read             *)
(* (scanSlaBreaches, escalate).                                            *)
THEOREM AlertsAreTrue == SlaSpec => []AlertsTrue
<1>1. SlaInit => SlaInv
  <2> SUFFICES ASSUME SlaInit PROVE SlaInv
    OBVIOUS
  <2>1. SlaTypeOK
    BY SlaAssumption DEF SlaInit, RowsInit, SlaTypeOK, SlaAssumption
  <2>2. \A r \in Rows : ~row[r].open
    BY DEF SlaInit, RowsInit, NotFiled
  <2> QED
    BY <2>1, <2>2 DEF SlaInit, SlaInv, Missed, AlertsTrue, Breached
<1>2. SlaInv /\ [SlaNext]_slaVars => SlaInv'
  <2> SUFFICES ASSUME SlaInv, [SlaNext]_slaVars PROVE SlaInv'
    OBVIOUS
  <2>1. ASSUME NEW r \in Rows, NEW stage \in Stage, DeadlinePasses(r, stage) PROVE SlaInv'
    BY <2>1, DeadlineKeeps
  <2>2. CASE UNCHANGED slaVars
    BY <2>2 DEF slaVars, SlaInv, SlaTypeOK, Breached, Met, Missed, AlertsTrue
  <2> QED
    BY <2>1, <2>2, FileKeeps, WorkKeeps, ScanReadKeeps, TellKeeps DEF SlaNext
<1>3. SlaInv => AlertsTrue
  BY DEF SlaInv
<1> QED
  BY <1>1, <1>2, <1>3, PTL DEF SlaSpec

-----------------------------------------------------------------------------
(* The pages of Operations (OperationsScreen).  A call that a page starts  *)
(* is one of Operations, so that what is proved above holds with the pages *)
(* too; what the pages add is what they show (ScreenInv).  The offers come *)
(* first, each with what it says of the row it is made on.                 *)

(* A command on an update that a page offers.                              *)
UpdateOffer(c, u, x, may) ==
    /\ c.id = u /\ "manage" \in may
    /\ \/ c.do = "update" /\ <<x.status, c.to>> \in UPDATE_NEXT /\ (c.to = "DEPLOYED" => x.approved)
       \/ c.do = "approveUpdate" /\ AwaitsApproval(x)

LEMMA UpdateOffers ==
    ASSUME NEW u, NEW x, NEW may, NEW c \in OfferedUpdate(u, x, may)
    PROVE  UpdateOffer(c, u, x, may)
<1>1. "manage" \in may BY DEF OfferedUpdate
<1>2. ASSUME NEW to \in Following(UPDATE_NEXT, x), to = "DEPLOYED" => x.approved, c = Plain("update", u, to)
      PROVE  c.id = u /\ c.do = "update" /\ <<x.status, c.to>> \in UPDATE_NEXT /\ (c.to = "DEPLOYED" => x.approved)
  <2>1. PICK m \in UPDATE_NEXT : m[1] = x.status /\ to = m[2] BY <1>2 DEF Following
  <2>2. m = <<m[1], m[2]>> BY DEF UPDATE_NEXT
  <2> QED BY <1>2, <2>1, <2>2 DEF Plain, Command
<1>3. ASSUME AwaitsApproval(x), c = Plain("approveUpdate", u, "APPROVED")
      PROVE  c.id = u /\ c.do = "approveUpdate"
  BY <1>3 DEF Plain, Command
<1> QED BY <1>1, <1>2, <1>3 DEF OfferedUpdate, UpdateOffer

(* A command on a bug, from the page of operations.                        *)
BugOffer(c, b, x) ==
    /\ c.id = b /\ c.do = "bug" /\ <<x.status, c.to>> \in BUG_NEXT
    /\ c.assignee \in IF c.to = "ASSIGNED" THEN Engineers ELSE {Keep}

LEMMA BugOffers ==
    ASSUME NEW b, NEW x, NEW c \in OfferedBug(b, x)
    PROVE  BugOffer(c, b, x)
<1>1. PICK to \in Following(BUG_NEXT, x) :
        \E assignee \in IF to = "ASSIGNED" THEN Engineers ELSE {Keep} : c = Command("bug", b, to, assignee, Keep)
  BY DEF OfferedBug
<1>2. PICK m \in BUG_NEXT : m[1] = x.status /\ to = m[2] BY DEF Following
<1>3. m = <<m[1], m[2]>> BY DEF BUG_NEXT
<1> QED BY <1>1, <1>2, <1>3 DEF Command, BugOffer

(* A command on a bug, from the workspace of p.                            *)
WorkspaceOffer(c, p, b, x, may) ==
    /\ c.id = b /\ c.do = "bug"
    /\ \/ c.to = "ASSIGNED" /\ "manage" \in may /\ x.status # "CLOSED" /\ c.assignee \in Engineers
       \/ /\ <<x.status, c.to>> \in {<<"ASSIGNED", "IN_PROGRESS">>, <<"IN_PROGRESS", "RESOLVED">>}
          /\ x.assignee = p /\ c.assignee = Keep

LEMMA WorkspaceOffers ==
    ASSUME NEW p, NEW b, NEW x, NEW may, NEW c \in OfferedInWorkspace(p, b, x, may)
    PROVE  WorkspaceOffer(c, p, b, x, may)
<1>1. ASSUME NEW e \in Engineers, "manage" \in may, x.status # "CLOSED",
             c = Command("bug", b, "ASSIGNED", e, Keep)
      PROVE  c.id = b /\ c.do = "bug" /\ c.to = "ASSIGNED" /\ c.assignee \in Engineers
  BY <1>1 DEF Command
<1>2. ASSUME NEW to \in Following({<<"ASSIGNED", "IN_PROGRESS">>, <<"IN_PROGRESS", "RESOLVED">>}, x),
             x.assignee = p, c = Plain("bug", b, to)
      PROVE  /\ c.id = b /\ c.do = "bug" /\ c.assignee = Keep
             /\ <<x.status, c.to>> \in {<<"ASSIGNED", "IN_PROGRESS">>, <<"IN_PROGRESS", "RESOLVED">>}
  BY <1>2 DEF Following, Plain, Command
<1> QED BY <1>1, <1>2 DEF OfferedInWorkspace, WorkspaceOffer

(* A command on a maintenance request.                                     *)
RequestOffer(c, q, x) ==
    /\ c.id = q /\ c.do = "maintenance" /\ <<x.status, c.to>> \in MAINTENANCE_NEXT
    /\ c.assignee \in IF c.to = "IN_PROGRESS" /\ x.assignee = Nobody THEN Engineers ELSE {Keep}
    /\ c.date = IF c.to = "SCHEDULED" /\ ~x.scheduled THEN "date" ELSE Keep

LEMMA RequestOffers ==
    ASSUME NEW q, NEW x, NEW c \in OfferedRequest(q, x)
    PROVE  RequestOffer(c, q, x)
<1>1. PICK to \in Following(MAINTENANCE_NEXT, x) :
        \E assignee \in IF to = "IN_PROGRESS" /\ x.assignee = Nobody THEN Engineers ELSE {Keep} :
           c = Command("maintenance", q, to, assignee, IF to = "SCHEDULED" /\ ~x.scheduled THEN "date" ELSE Keep)
  BY DEF OfferedRequest
<1>2. PICK m \in MAINTENANCE_NEXT : m[1] = x.status /\ to = m[2] BY DEF Following
<1>3. m = <<m[1], m[2]>> BY DEF MAINTENANCE_NEXT
<1> QED BY <1>1, <1>2, <1>3 DEF Command, RequestOffer

(* A command on a release.                                                 *)
ReleaseOffer(c, r, x, may) ==
    /\ c.id = r /\ "manage" \in may
    /\ \/ c.do = "release" /\ <<x.status, c.to>> \in RELEASE_NEXT
       \/ c.do = "approveRelease" /\ x.status = "PENDING_APPROVAL"
       \/ /\ c.do = "record" /\ x.status \in {"APPROVED", "DEPLOYED"}
          /\ c.to \in {"SUCCEEDED", "FAILED", "ROLLED_BACK"}

LEMMA ReleaseOffers ==
    ASSUME NEW r, NEW x, NEW may, NEW c \in OfferedRelease(r, x, may)
    PROVE  ReleaseOffer(c, r, x, may)
<1>1. "manage" \in may BY DEF OfferedRelease
<1>2. ASSUME NEW to \in Following(RELEASE_NEXT, x), c = Plain("release", r, to)
      PROVE  c.id = r /\ c.do = "release" /\ <<x.status, c.to>> \in RELEASE_NEXT
  <2>1. PICK m \in RELEASE_NEXT : m[1] = x.status /\ to = m[2] BY DEF Following
  <2>2. m = <<m[1], m[2]>> BY DEF RELEASE_NEXT
  <2> QED BY <1>2, <2>1, <2>2 DEF Plain, Command
<1>3. ASSUME x.status = "PENDING_APPROVAL", c = Plain("approveRelease", r, "APPROVED")
      PROVE  c.id = r /\ c.do = "approveRelease"
  BY <1>3 DEF Plain, Command
<1>4. ASSUME NEW to \in {"SUCCEEDED", "FAILED", "ROLLED_BACK"}, c = Plain("record", r, to)
      PROVE  c.id = r /\ c.do = "record" /\ c.to \in {"SUCCEEDED", "FAILED", "ROLLED_BACK"}
  BY <1>4 DEF Plain, Command
<1> QED BY <1>1, <1>2, <1>3, <1>4 DEF OfferedRelease, ReleaseOffer

(* A command that links a release to its work, or unlinks it.              *)
LinkOffer(c, r, may) ==
    /\ c.id = r /\ "manage" \in may
    /\ \/ c.do = "task"
       \/ c.do = "pullRequest" /\ (c.to = "unlink" => <<r, "pullRequest">> \in link)

LEMMA LinkOffers ==
    ASSUME NEW r, NEW may, NEW c \in OfferedLink(r, may)
    PROVE  LinkOffer(c, r, may)
  BY DEF LinkOffer, OfferedLink, Plain, Command

(* One of the six lists of a page.                                         *)
LEMMA Offers ==
    ASSUME NEW p, NEW rows, NEW may, NEW c \in Offered(p, rows, may)
    PROVE  \/ \E u \in Present(rows.update) : c \in OfferedUpdate(u, rows.update[u], may)
           \/ \E b \in Present(rows.bug) : c \in OfferedBug(b, rows.bug[b])
           \/ \E b \in Present(rows.bug) : c \in OfferedInWorkspace(p, b, rows.bug[b], may)
           \/ \E q \in Present(rows.request) : c \in OfferedRequest(q, rows.request[q])
           \/ \E r \in Present(rows.release) : c \in OfferedRelease(r, rows.release[r], may)
           \/ \E r \in Present(rows.release) : c \in OfferedLink(r, may)
  BY DEF Offered

(* The rows as the pages show them.                                        *)
BugShown == [status : BugStatus, assignee : Person]
RequestShown == [status : RequestStatus, assignee : Person, scheduled : BOOLEAN]
ReleaseShown == [status : ReleaseStatus]

(* A bug, a request and a release as a page shows them.                    *)
BugSeen(x) == [status |-> x.status, assignee |-> x.assignee]
RequestSeen(x) == [status |-> x.status, assignee |-> x.assignee, scheduled |-> x.scheduled]
ReleaseSeen(x) == [status |-> x.status]

(* The fields of a row that a page shows.                                  *)
Shown(r, fields) == [f \in DOMAIN r \cap fields |-> r[f]]

LEMMA ShowsAbsent == ASSUME NEW fields, "status" \in fields PROVE Shown(Absent, fields) = Absent
  BY DEF Shown, Absent
LEMMA ShowsUpdate == ASSUME NEW r \in UpdateRow PROVE Shown(r, {"status", "approved"}) = r
  BY DEF Shown, UpdateRow
LEMMA ShowsBug == ASSUME NEW r \in BugRow PROVE Shown(r, {"status", "assignee"}) = BugSeen(r)
  BY DEF Shown, BugRow, BugSeen
LEMMA ShowsRequest == ASSUME NEW r \in RequestRow PROVE Shown(r, {"status", "assignee", "scheduled"}) = RequestSeen(r)
  BY DEF Shown, RequestRow, RequestSeen
LEMMA ShowsRelease == ASSUME NEW r \in ReleaseRow PROVE Shown(r, {"status"}) = ReleaseSeen(r)
  BY DEF Shown, ReleaseRow, ReleaseSeen

-----------------------------------------------------------------------------
(* Which moves lead forward in the order of a table.                       *)
LEMMA UpdateDirections ==
    ASSUME NEW s, NEW t, <<s, t>> \in UPDATE_TRANSITIONS
    PROVE  Before(UpdateOrder, s, t) <=>
             t # "CANCELLED" /\ <<s, t>> \notin {<<"CODE_REVIEW", "IN_DEVELOPMENT">>,
                <<"TESTING", "IN_DEVELOPMENT">>, <<"STAGING", "TESTING">>}
<1>1. DOMAIN UpdateOrder = 1..11 BY DEF UpdateOrder
<1>2. /\ UpdateOrder[1] = "REQUESTED" /\ UpdateOrder[2] = "APPROVED" /\ UpdateOrder[3] = "ASSIGNED"
      /\ UpdateOrder[4] = "IN_DEVELOPMENT" /\ UpdateOrder[5] = "CODE_REVIEW" /\ UpdateOrder[6] = "TESTING"
      /\ UpdateOrder[7] = "STAGING" /\ UpdateOrder[8] = "PRODUCTION_APPROVAL" /\ UpdateOrder[9] = "DEPLOYED"
      /\ UpdateOrder[10] = "VERIFIED" /\ UpdateOrder[11] = "COMPLETED"
  BY DEF UpdateOrder
<1>3. \A i \in 1..11 : i \in {1, 2, 3, 4, 5, 6, 7, 8, 9, 10, 11} OBVIOUS
<1>4. ASSUME NEW i \in 1..11, NEW j \in 1..11, i < j, UpdateOrder[i] = s, UpdateOrder[j] = t
      PROVE  t # "CANCELLED" /\ <<s, t>> \notin {<<"CODE_REVIEW", "IN_DEVELOPMENT">>,
                <<"TESTING", "IN_DEVELOPMENT">>, <<"STAGING", "TESTING">>}
  BY <1>2, <1>3, <1>4
<1>5. ASSUME t # "CANCELLED", <<s, t>> \notin {<<"CODE_REVIEW", "IN_DEVELOPMENT">>,
                <<"TESTING", "IN_DEVELOPMENT">>, <<"STAGING", "TESTING">>}
      PROVE \E i, j \in 1..11 : i < j /\ UpdateOrder[i] = s /\ UpdateOrder[j] = t
  BY <1>2, <1>5 DEF UPDATE_TRANSITIONS
<1> QED BY <1>1, <1>4, <1>5 DEF Before

LEMMA BugDirections ==
    ASSUME NEW s, NEW t, <<s, t>> \in allowedBugTransitions
    PROVE  Before(BugOrder, s, t) <=>
             t # "REOPENED" /\ <<s, t>> \notin {<<"CODE_REVIEW", "IN_PROGRESS">>, <<"TESTING", "IN_PROGRESS">>}
<1> DEFINE Forward == t # "REOPENED"
                      /\ <<s, t>> \notin {<<"CODE_REVIEW", "IN_PROGRESS">>, <<"TESTING", "IN_PROGRESS">>}
<1>1. DOMAIN BugOrder = 1..9 /\ \A i \in 1..9 : i \in {1, 2, 3, 4, 5, 6, 7, 8, 9}
  BY DEF BugOrder
<1>2. /\ BugOrder[1] = "REOPENED" /\ BugOrder[2] = "REPORTED" /\ BugOrder[3] = "TRIAGED"
      /\ BugOrder[4] = "ASSIGNED" /\ BugOrder[5] = "IN_PROGRESS" /\ BugOrder[6] = "CODE_REVIEW"
      /\ BugOrder[7] = "TESTING" /\ BugOrder[8] = "RESOLVED" /\ BugOrder[9] = "CLOSED"
  BY DEF BugOrder
<1>3. ASSUME NEW i \in 1..9, NEW j \in 1..9, i < j, BugOrder[i] = s, BugOrder[j] = t
      PROVE  Forward
  BY <1>1, <1>2, <1>3
<1>4. ASSUME Forward PROVE \E i, j \in 1..9 : i < j /\ BugOrder[i] = s /\ BugOrder[j] = t
  BY <1>2, <1>4 DEF allowedBugTransitions
<1> QED BY <1>1, <1>3, <1>4 DEF Before

LEMMA RequestDirections ==
    ASSUME NEW s, NEW t, <<s, t>> \in MAINTENANCE_TRANSITIONS
    PROVE  Before(RequestOrder, s, t) <=> t # "CANCELLED"
<1>1. DOMAIN RequestOrder = 1..4 /\ \A i \in 1..4 : i \in {1, 2, 3, 4}
  BY DEF RequestOrder
<1>2. /\ RequestOrder[1] = "REQUESTED" /\ RequestOrder[2] = "SCHEDULED"
      /\ RequestOrder[3] = "IN_PROGRESS" /\ RequestOrder[4] = "COMPLETED"
  BY DEF RequestOrder
<1>3. ASSUME NEW i \in 1..4, NEW j \in 1..4, i < j, RequestOrder[i] = s, RequestOrder[j] = t
      PROVE  t # "CANCELLED"
  BY <1>1, <1>2, <1>3
<1>4. ASSUME t # "CANCELLED" PROVE \E i, j \in 1..4 : i < j /\ RequestOrder[i] = s /\ RequestOrder[j] = t
  BY <1>2, <1>4 DEF MAINTENANCE_TRANSITIONS
<1> QED BY <1>1, <1>3, <1>4 DEF Before

LEMMA ReleaseDirections ==
    ASSUME NEW s, NEW t, <<s, t>> \in RELEASE_TRANSITIONS
    PROVE  Before(ReleaseOrder, s, t) <=>
             t # "CANCELLED" /\ <<s, t>> # <<"PENDING_APPROVAL", "IN_PROGRESS">>
<1> DEFINE Forward == t # "CANCELLED" /\ <<s, t>> # <<"PENDING_APPROVAL", "IN_PROGRESS">>
<1>1. DOMAIN ReleaseOrder = 1..7 /\ \A i \in 1..7 : i \in {1, 2, 3, 4, 5, 6, 7}
  BY DEF ReleaseOrder
<1>2. /\ ReleaseOrder[1] = "PLANNED" /\ ReleaseOrder[2] = "IN_PROGRESS"
      /\ ReleaseOrder[3] = "PENDING_APPROVAL" /\ ReleaseOrder[4] = "APPROVED"
      /\ ReleaseOrder[5] = "DEPLOYED" /\ ReleaseOrder[6] = "VERIFIED" /\ ReleaseOrder[7] = "ROLLED_BACK"
  BY DEF ReleaseOrder
<1>3. ASSUME NEW i \in 1..7, NEW j \in 1..7, i < j, ReleaseOrder[i] = s, ReleaseOrder[j] = t
      PROVE  Forward
  BY <1>1, <1>2, <1>3
<1>4. ASSUME Forward PROVE \E i, j \in 1..7 : i < j /\ ReleaseOrder[i] = s /\ ReleaseOrder[j] = t
  BY <1>2, <1>4 DEF RELEASE_TRANSITIONS
<1> QED BY <1>1, <1>3, <1>4 DEF Before

(* The statuses to which an update, and a release, never returns.          *)
UpdateEarly == {"ABSENT", "REQUESTED", "APPROVED", "ASSIGNED"}
ReleaseEarly == {"ABSENT", "PLANNED"}

(* A move that a page offers on the row as it shows it, and that the       *)
(* service takes on the row as it is, leads the same way in both, or is    *)
(* one of the listed exceptions.  So for each of the four tables.          *)
LEMMA UpdateDirectionsAgree ==
    ASSUME NEW s, NEW f, NEW t, <<s, t>> \in UPDATE_NEXT, <<f, t>> \in UPDATE_TRANSITIONS,
           s \notin UpdateEarly => f \notin UpdateEarly
    PROVE  \/ Before(UpdateOrder, s, t) <=> Before(UpdateOrder, f, t)
           \/ <<s, f, t>> \in TakesBack \cup TakesForward
<1>1. <<s, t>> \in UPDATE_TRANSITIONS BY DEF UPDATE_NEXT, UPDATE_TRANSITIONS
<1> DEFINE Forward(x) == t # "CANCELLED" /\ <<x, t>> \notin {<<"CODE_REVIEW", "IN_DEVELOPMENT">>,
                            <<"TESTING", "IN_DEVELOPMENT">>, <<"STAGING", "TESTING">>}
<1>2. (Before(UpdateOrder, s, t) <=> Forward(s)) /\ (Before(UpdateOrder, f, t) <=> Forward(f))
  BY <1>1, UpdateDirections
<1>3. CASE Forward(s) /\ ~Forward(f)
  <2>1. <<s, f, t>> \in TakesBack
    BY <1>1, <1>3 DEF TakesBack, UPDATE_TRANSITIONS
  <2> QED BY <2>1
<1>4. CASE ~Forward(s) /\ Forward(f)
  <2>1. <<s, f, t>> \in TakesForward
    BY <1>1, <1>4 DEF TakesForward, UPDATE_TRANSITIONS, UpdateEarly
  <2> QED BY <2>1
<1> QED BY <1>2, <1>3, <1>4

LEMMA BugDirectionsAgree ==
    ASSUME NEW s, NEW f, NEW t, <<s, t>> \in BUG_NEXT, <<f, t>> \in allowedBugTransitions
    PROVE  \/ Before(BugOrder, s, t) <=> Before(BugOrder, f, t)
           \/ <<s, f, t>> \in TakesBack \cup TakesForward
<1>1. <<s, t>> \in allowedBugTransitions BY DEF BUG_NEXT, allowedBugTransitions
<1> DEFINE Forward(x) == t # "REOPENED" /\ <<x, t>> \notin {<<"CODE_REVIEW", "IN_PROGRESS">>, <<"TESTING", "IN_PROGRESS">>}
<1>2. (Before(BugOrder, s, t) <=> Forward(s)) /\ (Before(BugOrder, f, t) <=> Forward(f))
  BY <1>1, BugDirections
<1>3. CASE Forward(s) /\ ~Forward(f)
  <2>1. <<s, f, t>> \in TakesBack
    BY <1>1, <1>3 DEF TakesBack, allowedBugTransitions
  <2> QED BY <2>1
<1>4. CASE ~Forward(s) /\ Forward(f)
  <2>1. <<s, f, t>> \in TakesForward
    BY <1>1, <1>4 DEF TakesForward, allowedBugTransitions
  <2> QED BY <2>1
<1> QED BY <1>2, <1>3, <1>4

LEMMA RequestDirectionsAgree ==
    ASSUME NEW s, NEW f, NEW t, <<s, t>> \in MAINTENANCE_NEXT, <<f, t>> \in MAINTENANCE_TRANSITIONS
    PROVE  Before(RequestOrder, s, t) <=> Before(RequestOrder, f, t)
<1>1. <<s, t>> \in MAINTENANCE_TRANSITIONS BY DEF MAINTENANCE_NEXT, MAINTENANCE_TRANSITIONS
<1> QED BY <1>1, RequestDirections

LEMMA ReleaseDirectionsAgree ==
    ASSUME NEW s, NEW f, NEW t, <<s, t>> \in RELEASE_NEXT, <<f, t>> \in RELEASE_TRANSITIONS,
           s \notin ReleaseEarly => f \notin ReleaseEarly
    PROVE  \/ Before(ReleaseOrder, s, t) <=> Before(ReleaseOrder, f, t)
           \/ <<s, f, t>> \in TakesBack \cup TakesForward
<1>1. <<s, t>> \in RELEASE_TRANSITIONS BY DEF RELEASE_NEXT, RELEASE_TRANSITIONS
<1> DEFINE Forward(x) == t # "CANCELLED" /\ <<x, t>> # <<"PENDING_APPROVAL", "IN_PROGRESS">>
<1>2. (Before(ReleaseOrder, s, t) <=> Forward(s)) /\ (Before(ReleaseOrder, f, t) <=> Forward(f))
  BY <1>1, ReleaseDirections
<1>3. CASE Forward(s) /\ ~Forward(f)
  <2>1. <<s, f, t>> \in TakesBack
    BY <1>1, <1>3 DEF TakesBack, RELEASE_TRANSITIONS
  <2> QED BY <2>1
<1>4. CASE ~Forward(s) /\ Forward(f)
  BY <1>1, <1>4 DEF RELEASE_TRANSITIONS, ReleaseEarly
<1> QED BY <1>2, <1>3, <1>4

-----------------------------------------------------------------------------
(* What a page shows is what was there: an update that is begun, and a     *)
(* release that is begun, never return to their first statuses, so that a  *)
(* page that shows them begun is right about that for ever.                *)
(* What the pages show are rows, or nothing.                               *)
ShownOK ==
    shown \in [Tabs -> [update : [Updates -> UpdateRow \cup {Absent}],
                        bug : [Bugs -> BugShown \cup {Absent}],
                        request : [Requests -> RequestShown \cup {Absent}],
                        release : [Releases -> ReleaseShown \cup {Absent}]]]

(* A page that shows an update or a release begun is right about that.     *)
NeverBack ==
    \A w \in Tabs :
        /\ \A u \in Updates : shown[w].update[u].status \notin UpdateEarly => update[u].status \notin UpdateEarly
        /\ \A r \in Releases : shown[w].release[r].status \notin ReleaseEarly => release[r].status \notin ReleaseEarly

ScreenInv == IInv /\ ShownOK /\ NeverBack

(* What a page loads, row by row.                                          *)
LEMMA LoadedIs ==
    ASSUME IInv
    PROVE  /\ Loaded \in [update : [Updates -> UpdateRow \cup {Absent}],
                          bug : [Bugs -> BugShown \cup {Absent}],
                          request : [Requests -> RequestShown \cup {Absent}],
                          release : [Releases -> ReleaseShown \cup {Absent}]]
           /\ \A u \in Updates : Loaded.update[u] = update[u]
           /\ \A b \in Bugs : Loaded.bug[b] =
                 IF bug[b] = Absent THEN Absent ELSE BugSeen(bug[b])
           /\ \A q \in Requests : Loaded.request[q] =
                 IF request[q] = Absent THEN Absent
                 ELSE RequestSeen(request[q])
           /\ \A r \in Releases : Loaded.release[r] =
                 IF release[r] = Absent THEN Absent ELSE ReleaseSeen(release[r])
<1>0. /\ update \in [Updates -> UpdateRow \cup {Absent}] /\ bug \in [Bugs -> BugRow \cup {Absent}]
      /\ request \in [Requests -> RequestRow \cup {Absent}] /\ release \in [Releases -> ReleaseRow \cup {Absent}]
  BY DEF IInv, UpdatesOK, BugsOK, RequestsOK, ReleasesOK
<1>1. /\ Loaded.update = [u \in Updates |-> Shown(update[u], {"status", "approved"})]
      /\ Loaded.bug = [b \in Bugs |-> Shown(bug[b], {"status", "assignee"})]
      /\ Loaded.request = [q \in Requests |-> Shown(request[q], {"status", "assignee", "scheduled"})]
      /\ Loaded.release = [r \in Releases |-> Shown(release[r], {"status"})]
  <2>1. DOMAIN update = Updates /\ DOMAIN bug = Bugs /\ DOMAIN request = Requests /\ DOMAIN release = Releases
    BY <1>0
  <2> QED BY <2>1 DEF Loaded, Showing, Shown
<1>2. \A u \in Updates : Loaded.update[u] = update[u]
  BY <1>0, <1>1, ShowsUpdate, ShowsAbsent
<1>3. \A b \in Bugs : /\ bug[b] = Absent => Loaded.bug[b] = Absent
                      /\ bug[b] # Absent => bug[b] \in BugRow /\ Loaded.bug[b] = BugSeen(bug[b])
  BY <1>0, <1>1, ShowsBug, ShowsAbsent
<1>4. \A q \in Requests : /\ request[q] = Absent => Loaded.request[q] = Absent
                          /\ request[q] # Absent => request[q] \in RequestRow /\ Loaded.request[q] = RequestSeen(request[q])
  BY <1>0, <1>1, ShowsRequest, ShowsAbsent
<1>5. \A r \in Releases : /\ release[r] = Absent => Loaded.release[r] = Absent
                          /\ release[r] # Absent => release[r] \in ReleaseRow /\ Loaded.release[r] = ReleaseSeen(release[r])
  BY <1>0, <1>1, ShowsRelease, ShowsAbsent
<1>6. Loaded.update \in [Updates -> UpdateRow \cup {Absent}]
  <2>1. \A u \in Updates : Loaded.update[u] \in UpdateRow \cup {Absent} BY <1>0, <1>2
  <2> QED BY <1>1, <2>1
<1>7. Loaded.bug \in [Bugs -> BugShown \cup {Absent}]
  <2>1. \A b \in Bugs : Loaded.bug[b] \in BugShown \cup {Absent}
    <3>1. ASSUME NEW b \in Bugs, bug[b] \in BugRow
          PROVE  BugSeen(bug[b]) \in BugShown
      BY <3>1 DEF BugShown, BugRow, BugSeen
    <3> QED BY <1>3, <3>1
  <2> QED BY <1>1, <2>1
<1>8. Loaded.request \in [Requests -> RequestShown \cup {Absent}]
  <2>1. \A q \in Requests : Loaded.request[q] \in RequestShown \cup {Absent}
    <3>1. ASSUME NEW q \in Requests, request[q] \in RequestRow
          PROVE  RequestSeen(request[q]) \in RequestShown
      BY <3>1 DEF RequestShown, RequestRow, RequestSeen
    <3> QED BY <1>4, <3>1
  <2> QED BY <1>1, <2>1
<1>9. Loaded.release \in [Releases -> ReleaseShown \cup {Absent}]
  <2>1. \A r \in Releases : Loaded.release[r] \in ReleaseShown \cup {Absent}
    <3>1. ASSUME NEW r \in Releases, release[r] \in ReleaseRow
          PROVE  ReleaseSeen(release[r]) \in ReleaseShown
      BY <3>1 DEF ReleaseShown, ReleaseRow, ReleaseSeen
    <3> QED BY <1>5, <3>1
  <2> QED BY <1>1, <2>1
<1>10. Loaded = [update |-> Loaded.update, bug |-> Loaded.bug, request |-> Loaded.request, release |-> Loaded.release]
  BY DEF Loaded
<1>11. Loaded \in [update : [Updates -> UpdateRow \cup {Absent}],
                   bug : [Bugs -> BugShown \cup {Absent}],
                   request : [Requests -> RequestShown \cup {Absent}],
                   release : [Releases -> ReleaseShown \cup {Absent}]]
  BY <1>6, <1>7, <1>8, <1>9, <1>10
<1> QED BY <1>2, <1>3, <1>4, <1>5, <1>11

(* A click is a call of Operations.                                        *)
LEMMA SendIsCall ==
    ASSUME IInv, ShownOK, NEW w \in Tabs, NEW p \in People, NEW may, NEW c \in Offered(p, shown[w], may), Send(w, p, c)
    PROVE  Call(w, p) \/ Create(p)
<1>1. /\ Present(shown[w].update) \subseteq Updates /\ Present(shown[w].bug) \subseteq Bugs
      /\ Present(shown[w].request) \subseteq Requests /\ Present(shown[w].release) \subseteq Releases
  BY DEF Present, ShownOK
<1>2. /\ DOMAIN update = Updates /\ DOMAIN bug = Bugs /\ DOMAIN request = Requests /\ DOMAIN release = Releases
  BY DEF IInv, UpdatesOK, BugsOK, RequestsOK, ReleasesOK
<1>3. ASSUME NEW u \in Updates, c.id = u, c.do \in {"update", "approveUpdate"} PROVE Call(w, p)
  <2>1. CASE c.do = "update" /\ UpdateRead(w, p, u, c.to)
    <3>1. <<update[u].status, c.to>> \in UPDATE_TRANSITIONS BY <2>1 DEF UpdateRead, UpdateMayMove
    <3>2. c.to \in UpdateStatus /\ update[u].status # "ABSENT" BY <3>1, UpdateMoves
    <3>3. u \in Present(update) BY <1>2, <3>2 DEF Present, Absent
    <3> QED BY <2>1, <3>2, <3>3 DEF Call
  <2>2. CASE c.do = "approveUpdate" /\ ApproveUpdateRead(w, p, u)
    <3>1. u \in Present(update) BY <1>2, <2>2 DEF ApproveUpdateRead, AwaitsApproval, Present, Absent
    <3> QED BY <2>2, <3>1 DEF Call
  <2> QED BY <1>3, <2>1, <2>2 DEF Send
<1>4. ASSUME NEW b \in Bugs, c.id = b, c.do = "bug", c.assignee \in Engineers \cup {Keep} PROVE Call(w, p)
  <2>1. BugRead(w, p, b, c.to, c.assignee) BY <1>4 DEF Send
  <2>2. <<bug[b].status, c.to>> \in allowedBugTransitions BY <2>1 DEF BugRead, BugMayMove
  <2>3. c.to \in BugStatus /\ bug[b].status # "ABSENT" BY <2>2, BugMoves DEF allowedBugTransitions
  <2>4. b \in Present(bug) BY <1>2, <2>3 DEF Present, Absent
  <2> QED BY <1>4, <2>1, <2>3, <2>4 DEF Call
<1>5. ASSUME NEW q \in Requests, c.id = q, c.do = "maintenance", c.assignee \in Engineers \cup {Keep},
             c.date \in {"date", Keep}
      PROVE  Call(w, p)
  <2>1. MaintenanceRead(w, p, q, c.to, c.assignee, c.date) BY <1>5 DEF Send
  <2>2. <<request[q].status, c.to>> \in MAINTENANCE_TRANSITIONS BY <2>1 DEF MaintenanceRead, RequestMayMove
  <2>3. c.to \in RequestStatus /\ request[q].status # "ABSENT" BY <2>2, RequestMoves DEF MAINTENANCE_TRANSITIONS
  <2>4. q \in Present(request) BY <1>2, <2>3 DEF Present, Absent
  <2> QED BY <1>5, <2>1, <2>3, <2>4 DEF Call
<1>6. ASSUME NEW r \in Releases, c.id = r, c.do \in {"release", "approveRelease", "record"},
             c.do = "record" => c.to \in {"SUCCEEDED", "FAILED", "ROLLED_BACK"}
      PROVE  Call(w, p)
  <2>1. CASE c.do = "release" /\ ReleaseRead(w, p, r, c.to)
    <3>1. <<release[r].status, c.to>> \in RELEASE_TRANSITIONS BY <2>1 DEF ReleaseRead, ReleaseMayMove
    <3>2. c.to \in ReleaseStatus /\ release[r].status # "ABSENT" BY <3>1, ReleaseMoves DEF RELEASE_TRANSITIONS
    <3>3. r \in Present(release) BY <1>2, <3>2 DEF Present, Absent
    <3> QED BY <2>1, <3>2, <3>3 DEF Call
  <2>2. CASE c.do = "approveRelease" /\ ApproveReleaseRead(w, p, r)
    <3>1. r \in Present(release) BY <1>2, <2>2 DEF ApproveReleaseRead, Present, Absent
    <3> QED BY <2>2, <3>1 DEF Call
  <2>3. CASE c.do = "record" /\ RecordRead(w, p, r, c.to)
    <3>1. r \in Present(release) BY <1>2, <2>3 DEF RecordRead, Present
    <3> QED BY <1>6, <2>3, <3>1 DEF Call
  <2> QED BY <1>6, <2>1, <2>2, <2>3 DEF Send
<1>7. ASSUME NEW r \in Releases, c.id = r, c.do \in {"task", "pullRequest"} PROVE Create(p)
  <2>1. \E add \in BOOLEAN : changeReleaseTask(p, r, add) \/ changeReleasePullRequest(p, r, add)
    BY <1>7 DEF Send
  <2> QED BY <2>1 DEF Create
<1>8. ASSUME NEW u \in Present(shown[w].update), c \in OfferedUpdate(u, shown[w].update[u], may) PROVE Call(w, p)
  <2>1. c.id = u /\ c.do \in {"update", "approveUpdate"} 
    <3>1. UpdateOffer(c, u, shown[w].update[u], may) BY <1>8, UpdateOffers
    <3> QED BY <3>1 DEF UpdateOffer
  <2> QED BY <1>1, <1>3, <2>1
<1>9. ASSUME NEW b \in Present(shown[w].bug),
             c \in OfferedBug(b, shown[w].bug[b]) \/ c \in OfferedInWorkspace(p, b, shown[w].bug[b], may)
      PROVE  Call(w, p)
  <2>1. c.id = b /\ c.do = "bug" /\ c.assignee \in Engineers \cup {Keep}
    <3>1. CASE c \in OfferedBug(b, shown[w].bug[b])
      <4>1. c.id = b /\ c.do = "bug" /\ c.assignee \in IF c.to = "ASSIGNED" THEN Engineers ELSE {Keep}
        <5>1. BugOffer(c, b, shown[w].bug[b]) BY <3>1, BugOffers
        <5> QED BY <5>1 DEF BugOffer
      <4> QED BY <4>1
    <3>2. CASE c \in OfferedInWorkspace(p, b, shown[w].bug[b], may)
      <4>1. c.id = b /\ c.do = "bug" /\ (c.assignee \in Engineers \/ c.assignee = Keep)
        <5>1. WorkspaceOffer(c, p, b, shown[w].bug[b], may) BY <3>2, WorkspaceOffers
        <5> QED BY <5>1 DEF WorkspaceOffer
      <4> QED BY <4>1
    <3> QED BY <1>9, <3>1, <3>2
  <2> QED BY <1>1, <1>4, <2>1
<1>10. ASSUME NEW q \in Present(shown[w].request), c \in OfferedRequest(q, shown[w].request[q]) PROVE Call(w, p)
  <2>1. /\ c.id = q /\ c.do = "maintenance"
        /\ c.assignee \in IF c.to = "IN_PROGRESS" /\ shown[w].request[q].assignee = Nobody THEN Engineers ELSE {Keep}
        /\ c.date = IF c.to = "SCHEDULED" /\ ~shown[w].request[q].scheduled THEN "date" ELSE Keep
    <3>1. RequestOffer(c, q, shown[w].request[q]) BY <1>10, RequestOffers
    <3> QED BY <3>1 DEF RequestOffer
  <2>2. c.assignee \in Engineers \cup {Keep} /\ c.date \in {"date", Keep}
    BY <2>1
  <2> QED BY <1>1, <1>5, <2>1, <2>2
<1>11. ASSUME NEW r \in Present(shown[w].release), c \in OfferedRelease(r, shown[w].release[r], may) PROVE Call(w, p)
  <2>1. /\ c.id = r /\ c.do \in {"release", "approveRelease", "record"}
        /\ c.do = "record" => c.to \in {"SUCCEEDED", "FAILED", "ROLLED_BACK"}
    <3>1. /\ c.id = r
          /\ \/ c.do = "release" \/ c.do = "approveRelease"
             \/ c.do = "record" /\ c.to \in {"SUCCEEDED", "FAILED", "ROLLED_BACK"}
      <4>1. ReleaseOffer(c, r, shown[w].release[r], may) BY <1>11, ReleaseOffers
      <4> QED BY <4>1 DEF ReleaseOffer
    <3> QED BY <3>1
  <2> QED BY <1>1, <1>6, <2>1
<1>12. ASSUME NEW r \in Present(shown[w].release), c \in OfferedLink(r, may) PROVE Create(p)
  <2>1. c.id = r /\ c.do \in {"task", "pullRequest"}
    <3>1. LinkOffer(c, r, may) BY <1>12, LinkOffers
    <3> QED BY <3>1 DEF LinkOffer
  <2> QED BY <1>1, <1>7, <2>1
<1> QED BY <1>8, <1>9, <1>10, <1>11, <1>12, Offers

LEMMA FormIsCreate ==
    ASSUME NEW p \in People, NEW may, Form(p, may) PROVE Create(p)
  BY DEF Form, Create

LEMMA PagesStep ==
    ASSUME IInv, ShownOK, [ScreenNext]_screenVars
    PROVE  [Next]_vars
<1>1. CASE UNCHANGED screenVars BY <1>1 DEF screenVars
<1>2. ASSUME NEW p \in People, Submit(p) PROVE Next
  BY <1>2, FormIsCreate DEF Submit, Next
<1>3. ASSUME NEW p \in People, NEW w \in Tabs, Click(w, p) PROVE Next
  <2>1. Call(w, p) \/ Create(p) BY <1>3, SendIsCall DEF Click
  <2> QED BY <2>1, TabsAssumption DEF Next
<1>4. ASSUME NEW w \in Tabs, Load(w) PROVE UNCHANGED vars
  BY <1>4 DEF Load
<1>5. CASE Elsewhere BY <1>5 DEF Elsewhere, Next
<1> QED BY <1>1, <1>2, <1>3, <1>4, <1>5 DEF ScreenNext

(* An update that was begun is never at its beginning again.               *)
LEMMA UpdatesStayLate ==
    ASSUME IInv, [Next]_vars, NEW u \in Updates, update[u].status \notin UpdateEarly
    PROVE  update'[u].status \notin UpdateEarly
<1>1. u \in Present(update)
  BY DEF Present, IInv, UpdatesOK, UpdateEarly, Absent
<1>2. Follows(update, UPDATE_TRANSITIONS) BY UpdatesMove
<1>3. CASE update'[u].status = update[u].status BY <1>3
<1>4. CASE <<update[u].status, update'[u].status>> \in UPDATE_TRANSITIONS
  BY <1>4 DEF UPDATE_TRANSITIONS, UpdateEarly
<1> QED BY <1>1, <1>2, <1>3, <1>4 DEF Follows

(* A release that was begun is never planned again, not even by a write by *)
(* id.                                                                     *)
LEMMA ReleasesStayLate ==
    ASSUME IInv, [Next]_vars, NEW r \in Releases, release[r].status \notin ReleaseEarly
    PROVE  release'[r].status \notin ReleaseEarly
<1>1. release[r] \in ReleaseRow /\ release[r] # Absent /\ release \in [Releases -> ReleaseRow \cup {Absent}]
  BY DEF IInv, ReleasesOK, ReleaseEarly, Absent
<1>2. CASE release' = release BY <1>2
<1>3. ASSUME NEW c \in Releases, NEW p, createRelease(p, c) PROVE release'[r] = release[r]
  BY <1>1, <1>3 DEF createRelease
<1>4. ASSUME NEW w \in Handlers, ApproveReleaseWrite(w)
      PROVE  release'[r].status \in {release[r].status, "APPROVED"}
  BY <1>1, <1>4 DEF ApproveReleaseWrite, ReleaseRow
<1>5. ASSUME NEW w \in Handlers, ReleaseWrite(w) \/ ShipWrite(w)
      PROVE  release'[r].status \notin ReleaseEarly
  <2>1. release'[r].status \in {release[r].status, handler[w].to}
    BY <1>1, <1>5 DEF ReleaseWrite, ShipWrite, ReleaseRow
  <2>2. handler[w].to \notin ReleaseEarly
    BY <1>5 DEF ReleaseWrite, ShipWrite, At, IInv, ReleasesOK, ReleaseKnows, ReleaseEarly, TransitionTarget
  <2> QED BY <2>1, <2>2
<1>6. ASSUME NEW w \in Handlers, RecordCreate(w) PROVE release'[r].status = release[r].status
  BY <1>1, <1>6 DEF RecordCreate, ReleaseRow
<1> QED BY <1>2, <1>3, <1>4, <1>5, <1>6, Writers DEF ReleaseEarly

(* Every step of the pages keeps the invariant.                            *)
LEMMA ScreenKeeps ==
    ASSUME OperationsAssumption, ScreenInv, [ScreenNext]_screenVars
    PROVE  ScreenInv'
<1>1. [Next]_vars BY PagesStep DEF ScreenInv
<1>2. IInv' BY <1>1, NextKeeps DEF ScreenInv
<1>3. CASE shown' = shown
  <2>1. ShownOK' BY <1>3 DEF ScreenInv, ShownOK
  <2>2. NeverBack' BY <1>1, <1>3, UpdatesStayLate, ReleasesStayLate DEF ScreenInv, NeverBack
  <2> QED BY <1>2, <2>1, <2>2 DEF ScreenInv
<1>4. ASSUME NEW w \in Tabs, Load(w) PROVE ScreenInv'
  <2>1. shown' = [shown EXCEPT ![w] = Loaded] /\ update' = update /\ release' = release
    BY <1>4 DEF Load, vars, tables
  <2>2. ShownOK' BY <2>1, LoadedIs DEF ScreenInv, ShownOK
  <2>3. ASSUME NEW v \in Tabs, NEW u \in Updates, shown'[v].update[u].status \notin UpdateEarly
        PROVE  update'[u].status \notin UpdateEarly
    <3>1. CASE v = w
      <4>1. shown'[v] = Loaded BY <2>1, <3>1 DEF ScreenInv, ShownOK
      <4>2. Loaded.update[u] = update[u] BY LoadedIs DEF ScreenInv
      <4> QED BY <2>1, <2>3, <4>1, <4>2
    <3>2. CASE v # w
      <4>1. shown'[v] = shown[v] BY <2>1, <3>2 DEF ScreenInv, ShownOK
      <4> QED BY <2>1, <2>3, <4>1 DEF ScreenInv, NeverBack
    <3> QED BY <3>1, <3>2
  <2>4. ASSUME NEW v \in Tabs, NEW r \in Releases, shown'[v].release[r].status \notin ReleaseEarly
        PROVE  release'[r].status \notin ReleaseEarly
    <3>1. CASE v = w
      <4>1. shown'[v] = Loaded BY <2>1, <3>1 DEF ScreenInv, ShownOK
      <4>2. Loaded.release[r] = IF release[r] = Absent THEN Absent ELSE ReleaseSeen(release[r])
        BY LoadedIs DEF ScreenInv
      <4>3. Loaded.release[r].status = release[r].status
        BY <4>2 DEF ReleaseSeen, Absent
      <4> QED BY <2>1, <2>4, <4>1, <4>3
    <3>2. CASE v # w
      <4>1. shown'[v] = shown[v] BY <2>1, <3>2 DEF ScreenInv, ShownOK
      <4> QED BY <2>1, <2>4, <4>1 DEF ScreenInv, NeverBack
    <3> QED BY <3>1, <3>2
  <2> QED BY <1>2, <2>2, <2>3, <2>4 DEF ScreenInv, NeverBack
<1>5. shown' = shown \/ \E w \in Tabs : Load(w)
  BY DEF ScreenNext, screenVars, Submit, Click, Elsewhere
<1> QED BY <1>3, <1>4, <1>5

LEMMA ScreenInitHolds == ScreenInit => ScreenInv
<1> SUFFICES ASSUME ScreenInit PROVE ScreenInv
  OBVIOUS
<1>1. IInv BY InitHolds DEF ScreenInit
<1>2. ShownOK BY DEF ScreenInit, ShownOK, Nothing
<1>3. NeverBack BY DEF ScreenInit, NeverBack, Nothing, Absent, UpdateEarly, ReleaseEarly
<1> QED BY <1>1, <1>2, <1>3 DEF ScreenInv

(* The invariant of Operations holds with its pages, what a page shows are *)
(* rows, and an update or a release that it shows begun is begun.          *)
THEOREM ScreenInvariance == ScreenSpec => []ScreenInv
<1>1. ScreenInv /\ [ScreenNext]_screenVars => ScreenInv'
  BY ScreenKeeps, OperationsAssumption
<1> QED BY <1>1, ScreenInitHolds, PTL DEF ScreenSpec

(* What the pages do is what Operations does: a click is a call that any   *)
(* user might make, whatever the page shows.                               *)
THEOREM PagesImplementOperations == ScreenSpec => Spec
<1>1. ScreenInit => Init BY DEF ScreenInit
<1>2. ScreenInv /\ [ScreenNext]_screenVars => [Next]_vars
  BY PagesStep DEF ScreenInv
<1> QED BY <1>1, <1>2, ScreenInvariance, PTL DEF ScreenSpec, Spec

-----------------------------------------------------------------------------
(* A tab that starts a call was clicked.                                   *)
LEMMA StartsByClick ==
    ASSUME IInv, [ScreenNext]_screenVars, NEW w \in Tabs, At(w, "idle"), handler'[w] # Idle
    PROVE  \E p \in People : Click(w, p)
<1>1. handler[w] = Idle /\ w \in Handlers
  BY CallTypes, TabsAssumption DEF IInv, HandlersOK, At
<1>2. handler \in [Handlers -> Handler] BY DEF IInv, HandlersOK
<1>3. ASSUME NEW p, NEW may, Form(p, may) PROVE handler' = handler
  BY <1>3 DEF Form, createSystem, createUpdate, createBug, createMaintenance, createRelease
<1>4. CASE UNCHANGED screenVars BY <1>1, <1>4 DEF screenVars, vars
<1>5. ASSUME NEW p \in People, Submit(p) PROVE FALSE
  BY <1>1, <1>3, <1>5 DEF Submit
<1>6. ASSUME NEW p \in People, NEW v \in Tabs, v # w, Click(v, p) PROVE FALSE
  <2>1. PICK c : Send(v, p, c) BY <1>6 DEF Click
  <2>2. handler' = handler \/ \E h : handler' = [handler EXCEPT ![v] = h]
    BY <2>1 DEF Send, Start, UpdateRead, ApproveUpdateRead, BugRead, MaintenanceRead, ReleaseRead,
                ApproveReleaseRead, RecordRead, changeReleaseTask, changeReleasePullRequest
  <2> QED BY <1>1, <1>2, <1>6, <2>2
<1>7. ASSUME NEW v \in Tabs, Load(v) PROVE FALSE
  BY <1>1, <1>7 DEF Load, vars
<1>8. ASSUME NEW v \in Handlers \ Tabs, NEW p \in People, Call(v, p) PROVE FALSE
  <2>1. \E h : handler' = [handler EXCEPT ![v] = h]
    BY <1>8 DEF Call, Start, UpdateRead, ApproveUpdateRead, BugRead, MaintenanceRead, ReleaseRead,
                ApproveReleaseRead, RecordRead
  <2> QED BY <1>1, <1>2, <1>8, <2>1
<1>9. ASSUME NEW v \in Handlers, Proceed(v) PROVE FALSE
  <2>1. v # w BY <1>1, <1>9 DEF Proceed, UpdateWrite, ApproveUpdateWrite, BugWrite, MaintenanceWrite,
              ApproveReleaseWrite, FindDeployment, ReleaseWrite, RecordCreate, ShipWrite, Abort, At, Idle
  <2>2. \/ \E h : handler' = [handler EXCEPT ![v] = h]
        \/ \E id : Wrote(v, id)
    BY <1>9 DEF Proceed, UpdateWrite, ApproveUpdateWrite, BugWrite, MaintenanceWrite,
              ApproveReleaseWrite, FindDeployment, ReleaseWrite, RecordCreate, ShipWrite, Abort, Land, Finish
  <2>3. CASE \E h : handler' = [handler EXCEPT ![v] = h] BY <1>1, <1>2, <2>1, <2>3
  <2>4. CASE \E id : Wrote(v, id)  BY <1>1, <1>2, <2>1, <2>4 DEF Wrote
  <2> QED BY <2>2, <2>3, <2>4
<1> QED BY <1>4, <1>5, <1>6, <1>7, <1>8, <1>9 DEF ScreenNext, Elsewhere

(* The call that a click starts is about the row it was offered on.        *)
LEMMA UpdateClicked ==
    ASSUME ScreenInv, NEW w \in Tabs, NEW p \in People, NEW may, NEW c, NEW u \in Present(shown[w].update),
           UpdateOffer(c, u, shown[w].update[u], may), At(w, "idle"), Send(w, p, c)
    PROVE  /\ handler'[w].step \in {"update", "approveUpdate"}
           /\ handler'[w].step = "update" => AsOffered(w, UpdateOrder, shown[w].update[handler'[w].id])
<1>1. /\ handler \in [Handlers -> Handler] /\ w \in Handlers /\ u \in Updates
  BY TabsAssumption DEF ScreenInv, IInv, HandlersOK, ShownOK, Present
<1>2. c.id = u /\ c.do \in {"update", "approveUpdate"} BY DEF UpdateOffer
<1>3. CASE c.do = "update" /\ UpdateRead(w, p, u, c.to)
  <2>1. /\ handler'[w].step = "update" /\ handler'[w].id = u
        /\ handler'[w].from = update[u].status /\ handler'[w].to = c.to
    BY <1>1, <1>3 DEF UpdateRead, Start
  <2>2. <<shown[w].update[u].status, c.to>> \in UPDATE_NEXT BY <1>3 DEF UpdateOffer
  <2>3. <<update[u].status, c.to>> \in UPDATE_TRANSITIONS BY <1>3 DEF UpdateRead, UpdateMayMove
  <2>4. shown[w].update[u].status \notin UpdateEarly => update[u].status \notin UpdateEarly
    BY <1>1 DEF ScreenInv, NeverBack
  <2>5. \/ Before(UpdateOrder, shown[w].update[u].status, c.to) <=> Before(UpdateOrder, update[u].status, c.to)
        \/ <<shown[w].update[u].status, update[u].status, c.to>> \in TakesBack \cup TakesForward
    BY <2>2, <2>3, <2>4, UpdateDirectionsAgree
  <2> QED BY <2>1, <2>5 DEF AsOffered
<1>4. CASE c.do = "approveUpdate" /\ ApproveUpdateRead(w, p, u)
  BY <1>1, <1>4 DEF ApproveUpdateRead, Start
<1> QED BY <1>2, <1>3, <1>4 DEF Send

(* The same for the other tables.                                          *)
LEMMA BugClicked ==
    ASSUME ScreenInv, NEW w \in Tabs, NEW p \in People, NEW may, NEW c, NEW b \in Present(shown[w].bug),
           BugOffer(c, b, shown[w].bug[b]) \/ WorkspaceOffer(c, p, b, shown[w].bug[b], may),
           At(w, "idle"), Send(w, p, c)
    PROVE  handler'[w].step = "bug" /\ AsOffered(w, BugOrder, shown[w].bug[handler'[w].id])
<1>1. /\ handler \in [Handlers -> Handler] /\ w \in Handlers /\ b \in Bugs
  BY TabsAssumption DEF ScreenInv, IInv, HandlersOK, ShownOK, Present
<1>2. /\ c.id = b /\ c.do = "bug"
      /\ c.to = "ASSIGNED" \/ <<shown[w].bug[b].status, c.to>> \in BUG_NEXT
  BY DEF BugOffer, WorkspaceOffer, BUG_NEXT
<1>3. BugRead(w, p, b, c.to, c.assignee) BY <1>2 DEF Send
<1>4. /\ handler'[w].step = "bug" /\ handler'[w].id = b
      /\ handler'[w].from = bug[b].status /\ handler'[w].to = c.to
  BY <1>1, <1>3 DEF BugRead, Start
<1>5. CASE c.to = "ASSIGNED" BY <1>4, <1>5 DEF AsOffered
<1>6. CASE <<shown[w].bug[b].status, c.to>> \in BUG_NEXT
  <2>1. <<bug[b].status, c.to>> \in allowedBugTransitions BY <1>3 DEF BugRead, BugMayMove
  <2>2. \/ Before(BugOrder, shown[w].bug[b].status, c.to) <=> Before(BugOrder, bug[b].status, c.to)
        \/ <<shown[w].bug[b].status, bug[b].status, c.to>> \in TakesBack \cup TakesForward
    BY <1>6, <2>1, BugDirectionsAgree
  <2> QED BY <1>4, <2>2 DEF AsOffered
<1> QED BY <1>2, <1>5, <1>6

LEMMA RequestClicked ==
    ASSUME ScreenInv, NEW w \in Tabs, NEW p \in People, NEW c, NEW q \in Present(shown[w].request),
           RequestOffer(c, q, shown[w].request[q]), At(w, "idle"), Send(w, p, c)
    PROVE  handler'[w].step = "maintenance" /\ AsOffered(w, RequestOrder, shown[w].request[handler'[w].id])
<1>1. /\ handler \in [Handlers -> Handler] /\ w \in Handlers /\ q \in Requests
  BY TabsAssumption DEF ScreenInv, IInv, HandlersOK, ShownOK, Present
<1>2. /\ c.id = q /\ c.do = "maintenance" /\ <<shown[w].request[q].status, c.to>> \in MAINTENANCE_NEXT
  BY DEF RequestOffer
<1>3. MaintenanceRead(w, p, q, c.to, c.assignee, c.date) BY <1>2 DEF Send
<1>4. /\ handler'[w].step = "maintenance" /\ handler'[w].id = q
      /\ handler'[w].from = request[q].status /\ handler'[w].to = c.to
  BY <1>1, <1>3 DEF MaintenanceRead, Start
<1>5. <<request[q].status, c.to>> \in MAINTENANCE_TRANSITIONS BY <1>3 DEF MaintenanceRead, RequestMayMove
<1>6. Before(RequestOrder, shown[w].request[q].status, c.to) <=> Before(RequestOrder, request[q].status, c.to)
  BY <1>2, <1>5, RequestDirectionsAgree
<1> QED BY <1>4, <1>6 DEF AsOffered

LEMMA ReleaseClicked ==
    ASSUME ScreenInv, NEW w \in Tabs, NEW p \in People, NEW may, NEW c, NEW r \in Present(shown[w].release),
           ReleaseOffer(c, r, shown[w].release[r], may), At(w, "idle"), Send(w, p, c)
    PROVE  /\ handler'[w].step \in {"release", "deployments", "approveRelease", "record"}
           /\ handler'[w].step \in {"release", "deployments"} =>
                 AsOffered(w, ReleaseOrder, shown[w].release[handler'[w].id])
<1>1. /\ handler \in [Handlers -> Handler] /\ w \in Handlers /\ r \in Releases
  BY TabsAssumption DEF ScreenInv, IInv, HandlersOK, ShownOK, Present
<1>2. c.id = r /\ c.do \in {"release", "approveRelease", "record"} BY DEF ReleaseOffer
<1>3. CASE c.do = "release" /\ ReleaseRead(w, p, r, c.to)
  <2>1. /\ handler'[w].step \in {"release", "deployments"} /\ handler'[w].id = r
        /\ handler'[w].from = release[r].status /\ handler'[w].to = c.to
    BY <1>1, <1>3 DEF ReleaseRead, Start
  <2>2. <<shown[w].release[r].status, c.to>> \in RELEASE_NEXT BY <1>3 DEF ReleaseOffer
  <2>3. <<release[r].status, c.to>> \in RELEASE_TRANSITIONS BY <1>3 DEF ReleaseRead, ReleaseMayMove
  <2>4. shown[w].release[r].status \notin ReleaseEarly => release[r].status \notin ReleaseEarly
    BY <1>1 DEF ScreenInv, NeverBack
  <2>5. \/ Before(ReleaseOrder, shown[w].release[r].status, c.to) <=> Before(ReleaseOrder, release[r].status, c.to)
        \/ <<shown[w].release[r].status, release[r].status, c.to>> \in TakesBack \cup TakesForward
    BY <2>2, <2>3, <2>4, ReleaseDirectionsAgree
  <2> QED BY <2>1, <2>5 DEF AsOffered
<1>4. CASE c.do = "approveRelease" /\ ApproveReleaseRead(w, p, r)
  BY <1>1, <1>4 DEF ApproveReleaseRead, Start
<1>5. CASE c.do = "record" /\ RecordRead(w, p, r, c.to)
  BY <1>1, <1>5 DEF RecordRead, Start
<1> QED BY <1>2, <1>3, <1>4, <1>5 DEF Send

(* Linking is one step and leaves no call in flight.                       *)
LEMMA LinkClicked ==
    ASSUME NEW w \in Tabs, NEW p, NEW may, NEW c, NEW r, LinkOffer(c, r, may), Send(w, p, c)
    PROVE  handler' = handler
<1>1. c.do \in {"task", "pullRequest"} BY DEF LinkOffer
<1> QED BY <1>1 DEF Send, changeReleaseTask, changeReleasePullRequest

LEMMA ClickIsKnown ==
    ASSUME ScreenInv, [ScreenNext]_screenVars
    PROVE  ClickStep
<1> SUFFICES ASSUME NEW w \in Tabs, At(w, "idle"), handler'[w] # Idle
             PROVE  LET h == handler'[w]
                    IN CASE h.step = "update"  -> AsOffered(w, UpdateOrder, shown[w].update[h.id])
                         [] h.step = "bug"     -> AsOffered(w, BugOrder, shown[w].bug[h.id])
                         [] h.step = "maintenance" -> AsOffered(w, RequestOrder, shown[w].request[h.id])
                         [] h.step \in {"release", "deployments"} ->
                                AsOffered(w, ReleaseOrder, shown[w].release[h.id])
                         [] OTHER -> TRUE
  BY DEF ClickStep
<1>1. PICK p \in People : Click(w, p) BY StartsByClick DEF ScreenInv
<1>2. PICK may, c : c \in Offered(p, shown[w], may) /\ Send(w, p, c) BY <1>1 DEF Click
<1>3. ASSUME NEW u \in Present(shown[w].update), c \in OfferedUpdate(u, shown[w].update[u], may)
      PROVE  /\ handler'[w].step \in {"update", "approveUpdate"}
             /\ handler'[w].step = "update" => AsOffered(w, UpdateOrder, shown[w].update[handler'[w].id])
  <2>1. UpdateOffer(c, u, shown[w].update[u], may) BY <1>3, UpdateOffers
  <2> QED BY <1>2, <2>1, UpdateClicked
<1>4. ASSUME NEW b \in Present(shown[w].bug),
             c \in OfferedBug(b, shown[w].bug[b]) \/ c \in OfferedInWorkspace(p, b, shown[w].bug[b], may)
      PROVE  handler'[w].step = "bug" /\ AsOffered(w, BugOrder, shown[w].bug[handler'[w].id])
  <2>1. BugOffer(c, b, shown[w].bug[b]) \/ WorkspaceOffer(c, p, b, shown[w].bug[b], may)
    BY <1>4, BugOffers, WorkspaceOffers
  <2> QED BY <1>2, <2>1, BugClicked
<1>5. ASSUME NEW q \in Present(shown[w].request), c \in OfferedRequest(q, shown[w].request[q])
      PROVE  handler'[w].step = "maintenance" /\ AsOffered(w, RequestOrder, shown[w].request[handler'[w].id])
  <2>1. RequestOffer(c, q, shown[w].request[q]) BY <1>5, RequestOffers
  <2> QED BY <1>2, <2>1, RequestClicked
<1>6. ASSUME NEW r \in Present(shown[w].release), c \in OfferedRelease(r, shown[w].release[r], may)
      PROVE  /\ handler'[w].step \in {"release", "deployments", "approveRelease", "record"}
             /\ handler'[w].step \in {"release", "deployments"} =>
                   AsOffered(w, ReleaseOrder, shown[w].release[handler'[w].id])
  <2>1. ReleaseOffer(c, r, shown[w].release[r], may) BY <1>6, ReleaseOffers
  <2> QED BY <1>2, <2>1, ReleaseClicked
<1>7. ASSUME NEW r \in Present(shown[w].release), c \in OfferedLink(r, may) PROVE FALSE
  <2>1. LinkOffer(c, r, may) BY <1>7, LinkOffers
  <2>2. handler'[w] = handler[w] BY <1>2, <2>1, LinkClicked
  <2>3. handler[w] = Idle BY <1>1 DEF Click
  <2> QED BY <2>2, <2>3
<1>8. \/ \E u \in Present(shown[w].update) : c \in OfferedUpdate(u, shown[w].update[u], may)
      \/ \E b \in Present(shown[w].bug) : c \in OfferedBug(b, shown[w].bug[b])
      \/ \E b \in Present(shown[w].bug) : c \in OfferedInWorkspace(p, b, shown[w].bug[b], may)
      \/ \E q \in Present(shown[w].request) : c \in OfferedRequest(q, shown[w].request[q])
      \/ \E r \in Present(shown[w].release) : c \in OfferedRelease(r, shown[w].release[r], may)
      \/ \E r \in Present(shown[w].release) : c \in OfferedLink(r, may)
  BY <1>2, Offers
<1>9. CASE \E u \in Present(shown[w].update) : c \in OfferedUpdate(u, shown[w].update[u], may)
  BY <1>3, <1>9
<1>10. CASE \E b \in Present(shown[w].bug) :
              c \in OfferedBug(b, shown[w].bug[b]) \/ c \in OfferedInWorkspace(p, b, shown[w].bug[b], may)
  BY <1>4, <1>10
<1>11. CASE \E q \in Present(shown[w].request) : c \in OfferedRequest(q, shown[w].request[q])
  BY <1>5, <1>11
<1>12. CASE \E r \in Present(shown[w].release) : c \in OfferedRelease(r, shown[w].release[r], may)
  BY <1>6, <1>12
<1> QED BY <1>7, <1>8, <1>9, <1>10, <1>11, <1>12

(* A click on an outdated page takes a row the way it was offered, or it   *)
(* is one of the listed exceptions, whatever happened to the row since it  *)
(* was shown.                                                              *)
THEOREM OutdatedClicksAreKnown == ScreenSpec => OutdatedClicks
<1>1. ScreenInv /\ [ScreenNext]_screenVars => [ClickStep]_screenVars
  BY ClickIsKnown
<1> QED BY <1>1, ScreenInvariance, PTL DEF ScreenSpec, OutdatedClicks

-----------------------------------------------------------------------------
(* A recurring request always has a date: it is filed with one, a call     *)
(* that takes the date away is refused, and its next occurrence has one.   *)
RecurringDated == \A q \in Present(request) : request[q].recurring => request[q].scheduled

LEMMA RecurringStaysDated ==
    ASSUME IInv, RecurringDated, [Next]_vars
    PROVE  RecurringDated'
<1>1. /\ request \in [Requests -> RequestRow \cup {Absent}] /\ handler \in [Handlers -> Handler]
      /\ \A v \in Handlers : RequestKnows(handler[v])
  BY DEF IInv, RequestsOK, HandlersOK
<1>2. CASE request' = request BY <1>2 DEF RecurringDated, Present
<1>3. ASSUME NEW q \in Requests, NEW assignee, NEW scheduled, NEW recurring, NEW p,
             createMaintenance(p, q, assignee, scheduled, recurring)
      PROVE  RecurringDated'
  BY <1>1, <1>3 DEF createMaintenance, RecurringDated, Present
<1>4. ASSUME NEW w \in Handlers, MaintenanceWrite(w) PROVE RecurringDated'
  <2> DEFINE h == handler[w]
             rec == [request[h.id] EXCEPT !.status = h.to, !.assignee = h.assignee,
                        !.scheduled = h.scheduled, !.responded = @ \/ h.to = "IN_PROGRESS"]
  <2>1. /\ h.id \in Requests /\ request[h.id] # Absent /\ request[h.id] \in RequestRow
        /\ request[h.id].recurring => h.scheduled
    BY <1>1, <1>4, CallTypes DEF MaintenanceWrite, At, RequestKnows
  <2>2. rec.recurring => rec.scheduled
    BY <2>1 DEF RequestRow
  <2>3. Moved(h) = [request EXCEPT ![h.id] = rec] /\ h.id \in DOMAIN request
    BY <1>1, <2>1 DEF Moved
  <2> HIDE DEF rec, h
  <2>4. CASE request' = Moved(h)
    BY <1>1, <2>1, <2>2, <2>3, <2>4 DEF RecurringDated, Present
  <2>5. ASSUME NEW n \in Requests \ Present(request), request' = [Moved(h) EXCEPT ![n] = Occurrence(h.id, h)]
        PROVE  RecurringDated'
    <3>1. Occurrence(h.id, h).scheduled BY DEF Occurrence
    <3>2. request' = [[request EXCEPT ![h.id] = rec] EXCEPT ![n] = Occurrence(h.id, h)] BY <2>3, <2>5
    <3>3. ASSUME NEW q \in Present(request)', request'[q].recurring PROVE request'[q].scheduled
      <4>1. q \in Requests /\ request'[q] # Absent BY <1>1, <3>2, <3>3 DEF Present
      <4>2. CASE q = n BY <1>1, <3>1, <3>2, <4>1, <4>2
      <4>3. CASE q # n /\ q = h.id BY <1>1, <2>2, <3>2, <3>3, <4>1, <4>3
      <4>4. CASE q # n /\ q # h.id
        BY <1>1, <3>2, <3>3, <4>1, <4>4 DEF RecurringDated, Present
      <4> QED BY <4>2, <4>3, <4>4
    <3> QED BY <3>3 DEF RecurringDated
  <2> QED BY <1>2, <1>4, <2>4, <2>5 DEF MaintenanceWrite, h
<1> QED BY <1>2, <1>3, <1>4, Writers

-----------------------------------------------------------------------------
(* What is shown of a row is what the service reads of it.                 *)
LEMMA PresentLoaded ==
    ASSUME IInv
    PROVE  /\ \A u \in Present(Loaded.update) :
                 u \in Updates /\ update[u] \in UpdateRow /\ update[u] # Absent /\ Loaded.update[u] = update[u]
           /\ \A b \in Present(Loaded.bug) :
                 b \in Bugs /\ bug[b] \in BugRow /\ bug[b] # Absent /\ Loaded.bug[b] = BugSeen(bug[b])
           /\ \A q \in Present(Loaded.request) :
                 /\ q \in Requests /\ request[q] \in RequestRow /\ request[q] # Absent
                 /\ Loaded.request[q] = RequestSeen(request[q])
           /\ \A r \in Present(Loaded.release) :
                 /\ r \in Releases /\ release[r] \in ReleaseRow /\ release[r] # Absent
                 /\ Loaded.release[r] = ReleaseSeen(release[r])
<1>1. /\ DOMAIN Loaded.update = Updates /\ DOMAIN Loaded.bug = Bugs
      /\ DOMAIN Loaded.request = Requests /\ DOMAIN Loaded.release = Releases
  BY LoadedIs
<1>2. /\ update \in [Updates -> UpdateRow \cup {Absent}] /\ bug \in [Bugs -> BugRow \cup {Absent}]
      /\ request \in [Requests -> RequestRow \cup {Absent}] /\ release \in [Releases -> ReleaseRow \cup {Absent}]
  BY DEF IInv, UpdatesOK, BugsOK, RequestsOK, ReleasesOK
<1>3. ASSUME NEW u \in Present(Loaded.update)
      PROVE  u \in Updates /\ update[u] \in UpdateRow /\ update[u] # Absent /\ Loaded.update[u] = update[u]
  <2>1. u \in Updates /\ Loaded.update[u] # Absent BY <1>1 DEF Present
  <2> QED BY <1>2, <2>1, LoadedIs
<1>4. ASSUME NEW b \in Present(Loaded.bug)
      PROVE  b \in Bugs /\ bug[b] \in BugRow /\ bug[b] # Absent /\ Loaded.bug[b] = BugSeen(bug[b])
  <2>1. b \in Bugs /\ Loaded.bug[b] # Absent BY <1>1 DEF Present
  <2> QED BY <1>2, <2>1, LoadedIs
<1>5. ASSUME NEW q \in Present(Loaded.request)
      PROVE  /\ q \in Requests /\ request[q] \in RequestRow /\ request[q] # Absent
             /\ Loaded.request[q] = RequestSeen(request[q])
  <2>1. q \in Requests /\ Loaded.request[q] # Absent BY <1>1 DEF Present
  <2> QED BY <1>2, <2>1, LoadedIs
<1>6. ASSUME NEW r \in Present(Loaded.release)
      PROVE  /\ r \in Releases /\ release[r] \in ReleaseRow /\ release[r] # Absent
             /\ Loaded.release[r] = ReleaseSeen(release[r])
  <2>1. r \in Releases /\ Loaded.release[r] # Absent BY <1>1 DEF Present
  <2> QED BY <1>2, <2>1, LoadedIs
<1> QED BY <1>3, <1>4, <1>5, <1>6

(* Every row is shown.                                                     *)
LEMMA LoadedPresent ==
    ASSUME IInv
    PROVE  /\ Present(update) \subseteq Present(Loaded.update) /\ Present(bug) \subseteq Present(Loaded.bug)
           /\ Present(request) \subseteq Present(Loaded.request)
           /\ Present(release) \subseteq Present(Loaded.release)
<1>1. /\ DOMAIN Loaded.update = Updates /\ DOMAIN Loaded.bug = Bugs
      /\ DOMAIN Loaded.request = Requests /\ DOMAIN Loaded.release = Releases
  BY LoadedIs
<1>2. /\ update \in [Updates -> UpdateRow \cup {Absent}] /\ bug \in [Bugs -> BugRow \cup {Absent}]
      /\ request \in [Requests -> RequestRow \cup {Absent}] /\ release \in [Releases -> ReleaseRow \cup {Absent}]
  BY DEF IInv, UpdatesOK, BugsOK, RequestsOK, ReleasesOK
<1>4. \A r \in Releases : release[r] \in ReleaseRow => ReleaseSeen(release[r]) # Absent
  BY DEF ReleaseSeen, ReleaseRow, Absent, ReleaseStatus, Ends, RELEASE_TRANSITIONS
<1>5. Present(update) \subseteq Present(Loaded.update) BY <1>1, <1>2, LoadedIs DEF Present
<1>6. Present(bug) \subseteq Present(Loaded.bug)
  <2>1. \A b \in Bugs : BugSeen(bug[b]) # Absent BY DEF BugSeen, Absent
  <2> QED BY <1>1, <1>2, <2>1, LoadedIs DEF Present
<1>7. Present(request) \subseteq Present(Loaded.request)
  <2>1. \A q \in Requests : RequestSeen(request[q]) # Absent BY DEF RequestSeen, Absent
  <2> QED BY <1>1, <1>2, <2>1, LoadedIs DEF Present
<1>8. Present(release) \subseteq Present(Loaded.release)
  BY <1>1, <1>2, <1>4, LoadedIs DEF Present
<1> QED BY <1>5, <1>6, <1>7, <1>8

-----------------------------------------------------------------------------
(* What is left of a claim about an offer, once it is known to be routed.  *)
Honoured(p, may, c) ==
    \/ Accepts(p, may, c)
    \/ p \in Admins /\ (Reassigns(c) \/ ~Routed(may, c))
    \/ p \in Managers /\ (Reassigns(c) \/ AdministratorOnly(c))
    \/ p \in Engineers /\ ~(WorkOn(c) /\ AssigneeOf(c) = p)

(* What a page offers on a row as it is, the service honours.              *)
LEMMA UpdateHonoured ==
    ASSUME NEW p \in People, NEW may, NEW c, NEW u, UpdateOffer(c, u, update[u], may)
    PROVE  Honoured(p, may, c)
<1>1. c.id = u /\ c.do \in {"update", "approveUpdate"} /\ "manage" \in may BY DEF UpdateOffer
<1>2. Routed(may, c) BY <1>1 DEF Routed
<1>3. CASE p \in Engineers BY <1>1, <1>3 DEF Honoured, WorkOn
<1>4. CASE p \in Admins \cup Managers /\ c.do = "update"
  <2>1. UpdateMayMove(p, u, c.to)
    BY <1>4 DEF UpdateOffer, UpdateMayMove, CanManage, UPDATE_NEXT, UPDATE_TRANSITIONS
  <2> QED BY <1>1, <1>2, <1>4, <2>1 DEF Honoured, Accepts
<1>5. CASE p \in Admins /\ c.do = "approveUpdate"
  <2>1. AwaitsApproval(update[u]) BY <1>5 DEF UpdateOffer
  <2> QED BY <1>1, <1>2, <1>5, <2>1 DEF Honoured, Accepts
<1>6. CASE p \in Managers /\ c.do = "approveUpdate" BY <1>6 DEF Honoured, AdministratorOnly
<1> QED BY <1>1, <1>3, <1>4, <1>5, <1>6 DEF People

LEMMA BugHonoured ==
    ASSUME OperationsAssumption, NEW p \in People, NEW may, may # {}, NEW c, NEW b,
           BugOffer(c, b, BugSeen(bug[b])) \/ WorkspaceOffer(c, p, b, BugSeen(bug[b]), may),
           bug[b] \in BugRow
    PROVE  Honoured(p, may, c)
<1>1. c.id = b /\ c.do = "bug" BY DEF BugOffer, WorkspaceOffer
<1>2. Routed(may, c) BY <1>1 DEF Routed
<1>3. /\ Keep \notin Engineers /\ Nobody \notin Engineers /\ p # Nobody
      /\ BugSeen(bug[b]).status = bug[b].status /\ BugSeen(bug[b]).assignee = bug[b].assignee
  BY DEF OperationsAssumption, People, BugSeen
<1>4. \/ /\ <<bug[b].status, c.to>> \in allowedBugTransitions
         /\ c.to = "ASSIGNED" => c.assignee \in Engineers
      \/ Reassigns(c) /\ c.assignee \in Engineers
  <2>1. CASE BugOffer(c, b, BugSeen(bug[b]))
    BY <1>3, <2>1 DEF BugOffer, BUG_NEXT, allowedBugTransitions
  <2>2. CASE WorkspaceOffer(c, p, b, BugSeen(bug[b]), may)
    BY <1>1, <1>3, <2>2 DEF WorkspaceOffer, allowedBugTransitions, Reassigns
  <2> QED BY <2>1, <2>2
<1>5. CASE Reassigns(c) /\ c.assignee \in Engineers
  BY <1>3, <1>5 DEF Honoured, WorkOn, People
<1>6. CASE /\ <<bug[b].status, c.to>> \in allowedBugTransitions
           /\ c.to = "ASSIGNED" => c.assignee \in Engineers
  <2>1. CASE CanManage(p) \/ (p = bug[b].assignee /\ c.assignee = Keep /\ c.to # "CLOSED")
    <3>1. BugMayMove(p, b, c.to, c.assignee) BY <1>6, <2>1 DEF BugMayMove
    <3> QED BY <1>1, <1>2, <3>1 DEF Honoured, Accepts
  <2>2. CASE ~CanManage(p) /\ ~(p = bug[b].assignee /\ c.assignee = Keep /\ c.to # "CLOSED")
    BY <1>1, <2>2 DEF Honoured, CanManage, People, WorkOn, AssigneeOf
  <2> QED BY <2>1, <2>2
<1> QED BY <1>4, <1>5, <1>6

LEMMA RequestHonoured ==
    ASSUME OperationsAssumption, NEW p \in People, NEW may, may # {}, NEW c, NEW q,
           RequestOffer(c, q, RequestSeen(request[q])),
           request[q] \in RequestRow, request[q].recurring => request[q].scheduled
    PROVE  Honoured(p, may, c)
<1>1. /\ c.id = q /\ c.do = "maintenance" /\ <<request[q].status, c.to>> \in MAINTENANCE_TRANSITIONS
      /\ c.assignee \in IF c.to = "IN_PROGRESS" /\ request[q].assignee = Nobody THEN Engineers ELSE {Keep}
      /\ c.date = IF c.to = "SCHEDULED" /\ ~request[q].scheduled THEN "date" ELSE Keep
  BY DEF RequestOffer, RequestSeen, MAINTENANCE_NEXT, MAINTENANCE_TRANSITIONS
<1>2. Routed(may, c) BY <1>1 DEF Routed
<1>3. Nobody \notin Engineers /\ Keep \notin Engineers /\ p # Nobody
  BY DEF OperationsAssumption, People
<1>4. c.to = "IN_PROGRESS" => AssigneeId(q, c.assignee) # Nobody
  BY <1>1, <1>3 DEF AssigneeId
<1>5. c.to = "SCHEDULED" \/ request[q].recurring => ScheduledAt(q, c.date)
  <2>1. CASE c.date = Keep BY <1>1, <2>1 DEF ScheduledAt, Keep
  <2>2. CASE c.date # Keep BY <1>1, <2>2 DEF ScheduledAt
  <2> QED BY <2>1, <2>2
<1>6. CASE CanManage(p) \/ (p = request[q].assignee /\ c.assignee = Keep /\ c.to # "CANCELLED")
  <2>1. RequestMayMove(p, q, c.to, c.assignee, c.date) BY <1>1, <1>4, <1>5, <1>6 DEF RequestMayMove
  <2> QED BY <1>1, <1>2, <2>1 DEF Honoured, Accepts
<1>7. CASE ~CanManage(p) /\ ~(p = request[q].assignee /\ c.assignee = Keep /\ c.to # "CANCELLED")
  BY <1>1, <1>7 DEF Honoured, CanManage, People, WorkOn, AssigneeOf
<1> QED BY <1>6, <1>7

LEMMA ReleaseHonoured ==
    ASSUME IInv, NEW p \in People, NEW may, NEW c, NEW r \in Releases, release[r] # Absent,
           ReleaseOffer(c, r, ReleaseSeen(release[r]), may)
    PROVE  Honoured(p, may, c)
<1>1. /\ c.id = r /\ c.do \in {"release", "approveRelease", "record"} /\ "manage" \in may
      /\ ReleaseSeen(release[r]).status = release[r].status
  BY DEF ReleaseOffer, ReleaseSeen
<1>2. Routed(may, c) BY <1>1 DEF Routed
<1>3. CASE p \in Engineers BY <1>1, <1>3 DEF Honoured, WorkOn
<1>4. CASE p \in Admins \cup Managers /\ c.do = "release"
  <2>1. ReleaseMayMove(p, r, c.to)
    BY <1>1, <1>4 DEF ReleaseOffer, ReleaseMayMove, CanManage, RELEASE_NEXT, RELEASE_TRANSITIONS, TransitionTarget
  <2> QED BY <1>1, <1>2, <1>4, <2>1 DEF Honoured, Accepts
<1>5. CASE p \in Admins /\ c.do = "approveRelease"
  <2>1. release[r].status = "PENDING_APPROVAL" BY <1>1, <1>5 DEF ReleaseOffer
  <2> QED BY <1>1, <1>2, <1>5, <2>1 DEF Honoured, Accepts
<1>6. CASE p \in Admins /\ c.do = "record"
  <2>1. release[r].status \in {"APPROVED", "DEPLOYED"} BY <1>1, <1>6 DEF ReleaseOffer
  <2>2. r \in Present(release) BY DEF IInv, ReleasesOK, Present
  <2>3. Recordable(r) BY <2>1, <2>2 DEF IInv, ReleasesOK, ReleaseGate, Recordable
  <2> QED BY <1>1, <1>2, <1>6, <2>3 DEF Honoured, Accepts
<1>7. CASE p \in Managers /\ c.do \in {"approveRelease", "record"}
  BY <1>7 DEF Honoured, AdministratorOnly
<1> QED BY <1>1, <1>3, <1>4, <1>5, <1>6, <1>7 DEF People

LEMMA LinkHonoured ==
    ASSUME NEW p \in People, NEW may, NEW c, NEW r, LinkOffer(c, r, may)
    PROVE  Honoured(p, may, c)
<1>1. c.id = r /\ c.do \in {"task", "pullRequest"} /\ "manage" \in may BY DEF LinkOffer
<1>2. CASE p \in Engineers BY <1>1, <1>2 DEF Honoured, WorkOn
<1>3. CASE p \in Admins \cup Managers
  BY <1>1, <1>3 DEF LinkOffer, Honoured, Accepts, Routed, CanManage
<1> QED BY <1>2, <1>3 DEF People

LEMMA OffersAreHonoured ==
    ASSUME OperationsAssumption, IInv, RecurringDated
    PROVE  OffersHonoured
<1> SUFFICES ASSUME NEW p \in People, NEW may \in Permissions \ {{}}, NEW c \in Offered(p, Loaded, may)
             PROVE  Honoured(p, may, c)
  BY DEF OffersHonoured, Honoured
<1>1. ASSUME NEW u \in Present(Loaded.update), c \in OfferedUpdate(u, Loaded.update[u], may)
      PROVE  Honoured(p, may, c)
  <2>1. UpdateOffer(c, u, Loaded.update[u], may) BY <1>1, UpdateOffers
  <2>2. Loaded.update[u] = update[u] BY <1>1, PresentLoaded
  <2>3. UpdateOffer(c, u, update[u], may) BY <2>1, <2>2
  <2> QED BY <2>3, UpdateHonoured
<1>2. ASSUME NEW b \in Present(Loaded.bug),
             c \in OfferedBug(b, Loaded.bug[b]) \/ c \in OfferedInWorkspace(p, b, Loaded.bug[b], may)
      PROVE  Honoured(p, may, c)
  <2>1. BugOffer(c, b, Loaded.bug[b]) \/ WorkspaceOffer(c, p, b, Loaded.bug[b], may)
    BY <1>2, BugOffers, WorkspaceOffers
  <2>2. Loaded.bug[b] = BugSeen(bug[b]) /\ bug[b] \in BugRow BY <1>2, PresentLoaded
  <2>3. BugOffer(c, b, BugSeen(bug[b])) \/ WorkspaceOffer(c, p, b, BugSeen(bug[b]), may) BY <2>1, <2>2
  <2> QED BY <2>2, <2>3, BugHonoured
<1>3. ASSUME NEW q \in Present(Loaded.request), c \in OfferedRequest(q, Loaded.request[q])
      PROVE  Honoured(p, may, c)
  <2>1. RequestOffer(c, q, Loaded.request[q]) BY <1>3, RequestOffers
  <2>2. /\ Loaded.request[q] = RequestSeen(request[q]) /\ request[q] \in RequestRow
        /\ request[q] # Absent /\ q \in Requests
    BY <1>3, PresentLoaded
  <2>3. request[q].recurring => request[q].scheduled
    BY <2>2 DEF RecurringDated, Present, IInv, RequestsOK
  <2>4. RequestOffer(c, q, RequestSeen(request[q])) BY <2>1, <2>2
  <2> QED BY <2>2, <2>3, <2>4, RequestHonoured
<1>4. ASSUME NEW r \in Present(Loaded.release), c \in OfferedRelease(r, Loaded.release[r], may)
      PROVE  Honoured(p, may, c)
  <2>1. ReleaseOffer(c, r, Loaded.release[r], may) BY <1>4, ReleaseOffers
  <2>2. Loaded.release[r] = ReleaseSeen(release[r]) /\ release[r] # Absent /\ r \in Releases
    BY <1>4, PresentLoaded
  <2>3. ReleaseOffer(c, r, ReleaseSeen(release[r]), may) BY <2>1, <2>2
  <2> QED BY <2>2, <2>3, ReleaseHonoured
<1>5. ASSUME NEW r \in Present(Loaded.release), c \in OfferedLink(r, may)
      PROVE  Honoured(p, may, c)
  <2>1. LinkOffer(c, r, may) BY <1>5, LinkOffers
  <2> QED BY <2>1, LinkHonoured
<1>6. \/ \E u \in Present(Loaded.update) : c \in OfferedUpdate(u, Loaded.update[u], may)
      \/ \E b \in Present(Loaded.bug) : c \in OfferedBug(b, Loaded.bug[b])
      \/ \E b \in Present(Loaded.bug) : c \in OfferedInWorkspace(p, b, Loaded.bug[b], may)
      \/ \E q \in Present(Loaded.request) : c \in OfferedRequest(q, Loaded.request[q])
      \/ \E r \in Present(Loaded.release) : c \in OfferedRelease(r, Loaded.release[r], may)
      \/ \E r \in Present(Loaded.release) : c \in OfferedLink(r, may)
  BY Offers
<1> QED BY <1>1, <1>2, <1>3, <1>4, <1>5, <1>6

-----------------------------------------------------------------------------
(* The permissions of a manager.                                           *)
Everything == {"create", "manage"}

(* The way on from a row: somebody is offered it and may take it.          *)
WayOn(id) ==
    \E p \in People : \E c \in Offered(p, Loaded, Everything) :
        c.id = id /\ c.do \notin {"task", "pullRequest"} /\ Accepts(p, Everything, c)

(* There is a way on from every update, bug, request and release that is   *)
(* not at an end.                                                          *)
LEMMA UpdateWayOn ==
    ASSUME IInv, NEW a \in Admins, NEW u \in Present(update), update[u].status \notin Ended
    PROVE  WayOn(u)
<1>1. update[u] \in UpdateRow /\ u \in Present(Loaded.update) /\ Loaded.update[u] = update[u]
  BY LoadedPresent, PresentLoaded
<1>2. ASSUME NEW c \in OfferedUpdate(u, Loaded.update[u], Everything), c.id = u,
             c.do \in {"update", "approveUpdate"}, Accepts(a, Everything, c)
      PROVE  WayOn(u)
  <2>1. c \in Offered(a, Loaded, Everything) BY <1>1 DEF Offered
  <2> QED BY <1>2, <2>1 DEF WayOn, People
<1>3. CASE AwaitsApproval(update[u])
  <2> DEFINE c == Plain("approveUpdate", u, "APPROVED")
  <2>1. c \in OfferedUpdate(u, Loaded.update[u], Everything) BY <1>1, <1>3 DEF OfferedUpdate, Everything
  <2>2. c.id = u /\ c.do = "approveUpdate" BY DEF Plain, Command
  <2>3. Accepts(a, Everything, c) BY <1>3, <2>2 DEF Accepts, Routed, Everything
  <2> QED BY <1>2, <2>1, <2>2, <2>3
<1>4. ASSUME NEW to, <<update[u].status, to>> \in UPDATE_NEXT, to = "DEPLOYED" => update[u].approved
      PROVE  WayOn(u)
  <2> DEFINE c == Plain("update", u, to)
  <2>1. to \in Following(UPDATE_NEXT, Loaded.update[u]) BY <1>1, <1>4 DEF Following
  <2>2. c \in OfferedUpdate(u, Loaded.update[u], Everything) BY <1>1, <1>4, <2>1 DEF OfferedUpdate, Everything
  <2>3. c.id = u /\ c.do = "update" /\ c.to = to BY DEF Plain, Command
  <2>4. UpdateMayMove(a, u, to)
    BY <1>4 DEF UpdateMayMove, CanManage, UPDATE_NEXT, UPDATE_TRANSITIONS
  <2>5. Accepts(a, Everything, c) BY <2>3, <2>4 DEF Accepts, Routed, Everything
  <2> QED BY <1>2, <2>2, <2>3, <2>5
<1>5. ASSUME update[u].status # "PRODUCTION_APPROVAL" PROVE WayOn(u)
  <2>1. \E to : <<update[u].status, to>> \in UPDATE_NEXT /\ to # "DEPLOYED"
    <3>1. update[u].status \in UpdateStatus BY <1>1 DEF UpdateRow
    <3>2. update[u].status \in {"REQUESTED", "APPROVED", "ASSIGNED", "IN_DEVELOPMENT", "CODE_REVIEW",
              "TESTING", "STAGING", "DEPLOYED", "VERIFIED"}
      BY <1>5, <3>1 DEF UpdateStatus, Ends, UPDATE_TRANSITIONS, Ended
    <3> QED BY <3>2 DEF UPDATE_NEXT
  <2> QED BY <1>4, <2>1
<1>6. ASSUME update[u].status = "PRODUCTION_APPROVAL", update[u].approved PROVE WayOn(u)
  BY <1>4, <1>6 DEF UPDATE_NEXT
<1> QED BY <1>3, <1>5, <1>6 DEF AwaitsApproval

LEMMA BugWayOn ==
    ASSUME OperationsAssumption, IInv, NEW a \in Admins, NEW e \in Engineers, NEW b \in Present(bug)
    PROVE  WayOn(b)
<1>1. bug[b] \in BugRow /\ b \in Present(Loaded.bug) /\ Loaded.bug[b] = BugSeen(bug[b])
  BY LoadedPresent, PresentLoaded
<1>2. ASSUME NEW to, <<bug[b].status, to>> \in BUG_NEXT,
             NEW who \in IF to = "ASSIGNED" THEN Engineers ELSE {Keep}
      PROVE  WayOn(b)
  <2> DEFINE c == Command("bug", b, to, who, Keep)
  <2>1. to \in Following(BUG_NEXT, Loaded.bug[b]) BY <1>1, <1>2 DEF Following, BugSeen
  <2>2. c \in OfferedBug(b, Loaded.bug[b]) BY <1>2, <2>1 DEF OfferedBug
  <2>3. c \in Offered(a, Loaded, Everything) BY <1>1, <2>2 DEF Offered
  <2>4. c.id = b /\ c.do = "bug" /\ c.to = to /\ c.assignee = who BY DEF Command
  <2>5. BugMayMove(a, b, to, who)
    BY <1>2 DEF BugMayMove, CanManage, BUG_NEXT, allowedBugTransitions
  <2>6. Accepts(a, Everything, c) BY <2>4, <2>5 DEF Accepts, Routed, Everything
  <2> QED BY <2>3, <2>4, <2>6 DEF WayOn, People
<1>3. bug[b].status \in {"REPORTED", "TRIAGED", "ASSIGNED", "IN_PROGRESS", "CODE_REVIEW", "TESTING",
                         "RESOLVED", "CLOSED", "REOPENED"}
  BY <1>1 DEF BugRow, BugStatus, Ends, allowedBugTransitions
<1>4. CASE bug[b].status \in {"REPORTED", "TRIAGED", "REOPENED"}
  BY <1>2, <1>4 DEF BUG_NEXT
<1>5. \E to : bug[b].status \notin {"REPORTED", "TRIAGED", "REOPENED"} =>
                 <<bug[b].status, to>> \in BUG_NEXT /\ to # "ASSIGNED"
  BY <1>3 DEF BUG_NEXT
<1> QED BY <1>2, <1>4, <1>5

LEMMA RequestWayOn ==
    ASSUME OperationsAssumption, IInv, RecurringDated, NEW a \in Admins, NEW q \in Present(request),
           request[q].status \notin Ended
    PROVE  WayOn(q)
<1>1. /\ request[q] \in RequestRow /\ q \in Present(Loaded.request) /\ request[q] # Absent
      /\ Loaded.request[q] = RequestSeen(request[q])
      /\ request[q].recurring => request[q].scheduled
  BY LoadedPresent, PresentLoaded DEF RecurringDated
<1>2. <<request[q].status, "CANCELLED">> \in MAINTENANCE_NEXT
  BY <1>1 DEF RequestRow, RequestStatus, Ends, MAINTENANCE_TRANSITIONS, MAINTENANCE_NEXT, Ended
<1> DEFINE c == Command("maintenance", q, "CANCELLED", Keep, Keep)
<1>3. "CANCELLED" \in Following(MAINTENANCE_NEXT, Loaded.request[q]) BY <1>1, <1>2 DEF Following, RequestSeen
<1>4. c \in OfferedRequest(q, Loaded.request[q])
  BY <1>3 DEF OfferedRequest
<1>5. c \in Offered(a, Loaded, Everything) BY <1>1, <1>4 DEF Offered
<1>6. c.id = q /\ c.do = "maintenance" /\ c.to = "CANCELLED" /\ c.assignee = Keep /\ c.date = Keep
  BY DEF Command
<1>7. RequestMayMove(a, q, "CANCELLED", Keep, Keep)
  BY <1>1, <1>2 DEF RequestMayMove, CanManage, ScheduledAt, MAINTENANCE_NEXT, MAINTENANCE_TRANSITIONS
<1>8. Accepts(a, Everything, c) BY <1>6, <1>7 DEF Accepts, Routed, Everything
<1> QED BY <1>5, <1>6, <1>8 DEF WayOn, People

LEMMA ReleaseWayOn ==
    ASSUME IInv, NEW a \in Admins, NEW r \in Present(release), release[r].status \notin Ended
    PROVE  WayOn(r)
<1>1. /\ release[r] \in ReleaseRow /\ r \in Present(Loaded.release)
      /\ Loaded.release[r] = ReleaseSeen(release[r])
  BY LoadedPresent, PresentLoaded
<1>2. ASSUME NEW c \in OfferedRelease(r, Loaded.release[r], Everything), c.id = r,
             c.do \in {"release", "approveRelease", "record"}, Accepts(a, Everything, c)
      PROVE  WayOn(r)
  <2>1. c \in Offered(a, Loaded, Everything) BY <1>1 DEF Offered
  <2> QED BY <1>2, <2>1 DEF WayOn, People
<1>3. release[r].status \in {"PLANNED", "IN_PROGRESS", "PENDING_APPROVAL", "APPROVED", "DEPLOYED", "VERIFIED"}
  BY <1>1 DEF ReleaseRow, ReleaseStatus, Ends, RELEASE_TRANSITIONS, Ended
<1>4. CASE release[r].status = "APPROVED"
  <2> DEFINE c == Plain("record", r, "SUCCEEDED")
  <2>1. c \in OfferedRelease(r, Loaded.release[r], Everything)
    BY <1>1, <1>4 DEF OfferedRelease, Everything, ReleaseSeen
  <2>2. c.id = r /\ c.do = "record" BY DEF Plain, Command
  <2>3. Recordable(r) BY <1>4 DEF IInv, ReleasesOK, ReleaseGate, Recordable
  <2>4. Accepts(a, Everything, c) BY <2>2, <2>3 DEF Accepts, Routed, Everything
  <2> QED BY <1>2, <2>1, <2>2, <2>4
<1>5. CASE release[r].status # "APPROVED"
  <2>1. PICK to : <<release[r].status, to>> \in RELEASE_NEXT BY <1>3, <1>5 DEF RELEASE_NEXT
  <2> DEFINE c == Plain("release", r, to)
  <2>2. to \in Following(RELEASE_NEXT, Loaded.release[r]) BY <1>1, <2>1 DEF Following, ReleaseSeen
  <2>3. c \in OfferedRelease(r, Loaded.release[r], Everything) BY <2>2 DEF OfferedRelease, Everything
  <2>4. c.id = r /\ c.do = "release" /\ c.to = to BY DEF Plain, Command
  <2>5. ReleaseMayMove(a, r, to)
    BY <2>1 DEF ReleaseMayMove, CanManage, RELEASE_NEXT, RELEASE_TRANSITIONS, TransitionTarget
  <2>6. Accepts(a, Everything, c) BY <2>4, <2>5 DEF Accepts, Routed, Everything
  <2> QED BY <1>2, <2>3, <2>4, <2>6
<1> QED BY <1>4, <1>5

LEMMA NothingIsStuck ==
    ASSUME OperationsAssumption, Admins # {}, Engineers # {}, IInv, RecurringDated
    PROVE  NoDeadEnd
<1> SUFFICES ASSUME NEW id \in Present(update) \cup Present(bug) \cup Present(request) \cup Present(release),
                    ~(id \in Updates /\ update[id].status \in Ended),
                    ~(id \in Requests /\ request[id].status \in Ended),
                    ~(id \in Releases /\ release[id].status \in Ended)
             PROVE  WayOn(id)
  BY DEF NoDeadEnd, WayOn, Everything
<1>1. PICK a \in Admins : TRUE OBVIOUS
<1>2. PICK e \in Engineers : TRUE OBVIOUS
<1>3. /\ DOMAIN update = Updates /\ DOMAIN request = Requests /\ DOMAIN release = Releases
  BY DEF IInv, UpdatesOK, RequestsOK, ReleasesOK
<1>4. CASE id \in Present(update) BY <1>3, <1>4, UpdateWayOn DEF Present
<1>5. CASE id \in Present(bug) BY <1>1, <1>2, <1>5, BugWayOn
<1>6. CASE id \in Present(request) BY <1>3, <1>6, RequestWayOn DEF Present
<1>7. CASE id \in Present(release) BY <1>3, <1>7, ReleaseWayOn DEF Present
<1> QED BY <1>4, <1>5, <1>6, <1>7

(* The pages fit the service: it accepts what they offer on the rows as    *)
(* they are, and from every status that is not a last one they offer a way *)
(* on, where there is an administrator and an engineer at all.             *)
THEOREM PagesFitTheService ==
    ASSUME Admins # {}, Engineers # {}
    PROVE  ScreenSpec => []PagesFit
<1>1. ScreenInit => RecurringDated BY DEF ScreenInit, Init, RecurringDated, Present
<1>2. ScreenInv /\ RecurringDated /\ [ScreenNext]_screenVars => RecurringDated'
  BY PagesStep, RecurringStaysDated DEF ScreenInv
<1>3. ScreenInv /\ RecurringDated => PagesFit
  BY OperationsAssumption, OffersAreHonoured, NothingIsStuck DEF ScreenInv, PagesFit
<1> QED BY <1>1, <1>2, <1>3, ScreenInvariance, PTL DEF ScreenSpec
=============================================================================
