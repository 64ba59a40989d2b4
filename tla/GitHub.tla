------------------------------- MODULE GitHub -------------------------------
(***************************************************************************)
(* The GitHub App (backend/src/services/github.service.ts): installations  *)
(* an administrator connects, their repositories, links from tasks to      *)
(* issues and pull requests, and the webhook deliveries that keep them up  *)
(* to date.                                                                *)
(*                                                                         *)
(* As in Billing, an action is one awaited call with the code up to the    *)
(* next await.  A delivery is inserted as RECEIVED, which the unique index *)
(* on deliveryId lets happen once, applied by a chain of separate writes,  *)
(* and ends PROCESSED, or FAILED if any of them throws.  GitHub may send a *)
(* delivery again at any time; only a FAILED one is taken up again.        *)
(*                                                                         *)
(* A task is seen only through its project, so a link is given the project *)
(* of the task it belongs to.  Items are issues, pull requests, branches,  *)
(* commits, check runs and releases alike.                                 *)
(***************************************************************************)
CONSTANTS
    Installations, Repositories, Items, Projects,
    Deliveries,   \* X-GitHub-Delivery ids
    Workers,      \* handlers that may be in flight at once
    None

ASSUME GitHubAssumption == None \notin Projects \cup Installations

VARIABLES
    installation,   \* [Installations -> connection status], "ABSENT" without a row
    repository,     \* [Repositories -> RepositoryRow]
    link,           \* [Repositories \X Items -> LinkRow]
    told,           \* dedupe keys of the notifications sent to managers
    delivery,       \* [Deliveries -> webhook event status], "NEW" before the first one
    event,          \* [Deliveries -> what GitHub reports with it]
    orphans,        \* deliveries whose handler died, or could not note its failure
    handler,        \* [Workers -> the handler in flight, or Idle]
    overtaken       \* history: handlers at work for an installation when it was disconnected

vars == <<installation, repository, link, told, delivery, event, orphans, handler, overtaken>>

Connection == {"ACTIVE", "SUSPENDED", "DISCONNECTED"}

(* installation is None where there is no row.                             *)
RepositoryRow == [installation : Installations \cup {None}, active : BOOLEAN,
                  project : Projects \cup {None}]
NoRepository == [installation |-> None, active |-> FALSE, project |-> None]

(* opened: a pull request was opened.  concluded: it was merged, or a      *)
(* check run succeeded or failed.  changed: any other news of an item.     *)
News == {"opened", "concluded", "changed"}

NoLink == [project |-> None, state |-> "none"]
LinkRow == [project : Projects, state : News \cup {"none"}] \cup {NoLink}

(* installation_repositories reports both sets; a repository event reports *)
(* one repository in one of them.  task is the project of the task that an *)
(* opened pull request declares.  A push, which updates the links of a     *)
(* branch and then of a commit, is seen through one of the two.            *)
Event ==
    [type : {"installation"}, installation : Installations, status : Connection,
     added : SUBSET Repositories]
    \cup [type : {"repositories"}, installation : Installations,
          removed : SUBSET Repositories, added : SUBSET Repositories]
    \cup [type : {"item"}, installation : Installations, repository : Repositories,
          item : Items, news : News, task : Projects \cup {None}]
NoEvent == [type |-> "none"]

(* Steps of a handler that holds a delivery.                               *)
Applying == {"apply", "setStatus", "deactivate", "remove", "upsert", "lookup",
             "sync", "announce", "findTask", "link", "tell", "close", "markFailed"}

Idle == [step |-> "idle"]
WebhookHandler ==
    [step : {"claim"} \cup Applying, delivery : Deliveries,
     todo : SUBSET Repositories, project : Projects \cup {None}]
ConnectHandler ==
    [step : {"connect", "refresh", "prune"}, installation : Installations,
     status : {"ACTIVE", "SUSPENDED"}, listed : SUBSET Repositories,
     todo : SUBSET Repositories]
Handler ==
    {Idle} \cup WebhookHandler \cup ConnectHandler
    \cup [step : {"disconnect"}, installation : Installations]
    \cup [step : {"map"}, repository : Repositories, project : Projects \cup {None}]
    \cup [step : {"linkTask"}, repository : Repositories, item : Items, project : Projects]

(* Rows, notifications and handlers have the types of the schema.          *)
TypeOK ==
    /\ installation \in [Installations -> Connection \cup {"ABSENT"}]
    /\ repository \in [Repositories -> RepositoryRow]
    /\ link \in [Repositories \X Items -> LinkRow]
    /\ told \subseteq {"opened", "concluded"} \X Repositories \X Items
    /\ delivery \in [Deliveries -> {"NEW", "RECEIVED", "PROCESSED", "FAILED"}]
    /\ event \in [Deliveries -> Event \cup {NoEvent}]
    /\ orphans \subseteq Deliveries
    /\ handler \in [Workers -> Handler]
    /\ overtaken \subseteq Workers

Init ==
    /\ installation = [i \in Installations |-> "ABSENT"]
    /\ repository = [r \in Repositories |-> NoRepository]
    /\ link = [x \in Repositories \X Items |-> NoLink]
    /\ told = {}
    /\ delivery = [d \in Deliveries |-> "NEW"]
    /\ event = [d \in Deliveries |-> NoEvent]
    /\ orphans = {}
    /\ handler = [w \in Workers |-> Idle]
    /\ overtaken = {}

-----------------------------------------------------------------------------
Become(w, h) == handler' = [handler EXCEPT ![w] = h]
Finish(w) == Become(w, Idle)
At(w, step) == handler[w].step = step
Continue(w, step) == Become(w, [handler[w] EXCEPT !.step = step])
Reported(w) == event[handler[w].delivery]

Upserted(r, i) == [repository EXCEPT ![r].installation = i, ![r].active = TRUE]
Deactivated(i, R) ==
    [r \in Repositories |->
        IF repository[r].installation = i /\ r \in R
        THEN [repository[r] EXCEPT !.active = FALSE] ELSE repository[r]]

(* A repository that can be mapped and linked.                             *)
Open(r) ==
    /\ repository[r].active
    /\ repository[r].installation # None
    /\ installation[repository[r].installation] = "ACTIVE"

-----------------------------------------------------------------------------
(* connectInstallation: GitHub is asked first.                             *)
ConnectStart(w, i, status, listed) ==
    /\ At(w, "idle")
    /\ Become(w, [step |-> "connect", installation |-> i, status |-> status,
                  listed |-> listed, todo |-> listed])
    /\ UNCHANGED <<installation, repository, link, told, delivery, event, orphans>>

ConnectWrite(w) ==
    /\ At(w, "connect")
    /\ installation' = [installation EXCEPT ![handler[w].installation] = handler[w].status]
    /\ Continue(w, IF handler[w].todo = {} THEN "prune" ELSE "refresh")
    /\ UNCHANGED <<repository, link, told, delivery, event, orphans>>

ConnectRefresh(w) ==
    LET h == handler[w] IN
    /\ At(w, "refresh")
    /\ \E r \in h.todo :
          /\ repository' = Upserted(r, h.installation)
          /\ Become(w, [h EXCEPT !.todo = @ \ {r},
                                 !.step = IF h.todo = {r} THEN "prune" ELSE "refresh"])
    /\ UNCHANGED <<installation, link, told, delivery, event, orphans>>

ConnectPrune(w) ==
    LET h == handler[w] IN
    /\ At(w, "prune")
    /\ repository' = Deactivated(h.installation, Repositories \ h.listed)
    /\ Finish(w)
    /\ UNCHANGED <<installation, link, told, delivery, event, orphans>>

(* disconnectInstallation; the write is one transaction.                   *)
DisconnectRead(w, i) ==
    /\ At(w, "idle")
    /\ installation[i] # "ABSENT"
    /\ Become(w, [step |-> "disconnect", installation |-> i])
    /\ UNCHANGED <<installation, repository, link, told, delivery, event, orphans>>

DisconnectWrite(w) ==
    LET i == handler[w].installation IN
    /\ At(w, "disconnect")
    /\ installation' = [installation EXCEPT ![i] = "DISCONNECTED"]
    /\ repository' = Deactivated(i, Repositories)
    /\ Finish(w)
    /\ UNCHANGED <<link, told, delivery, event, orphans>>

(* mapRepository                                                           *)
MapRead(w, r, p) ==
    /\ At(w, "idle")
    /\ Open(r)
    /\ Become(w, [step |-> "map", repository |-> r, project |-> p])
    /\ UNCHANGED <<installation, repository, link, told, delivery, event, orphans>>

MapWrite(w) ==
    LET h == handler[w] IN
    /\ At(w, "map")
    /\ repository' = [repository EXCEPT ![h.repository].project = h.project]
    /\ Finish(w)
    /\ UNCHANGED <<installation, link, told, delivery, event, orphans>>

(* createTaskLink, for a task of project p, and removeTaskLink.            *)
LinkRead(w, r, x, p) ==
    /\ At(w, "idle")
    /\ Open(r)
    /\ repository[r].project = p
    /\ Become(w, [step |-> "linkTask", repository |-> r, item |-> x, project |-> p])
    /\ UNCHANGED <<installation, repository, link, told, delivery, event, orphans>>

LinkWrite(w) ==
    LET h == handler[w] IN
    /\ At(w, "linkTask")
    /\ IF link[<<h.repository, h.item>>] = NoLink
       THEN link' = [link EXCEPT ![<<h.repository, h.item>>] = [project |-> h.project, state |-> "none"]]
       ELSE UNCHANGED link
    /\ Finish(w)
    /\ UNCHANGED <<installation, repository, told, delivery, event, orphans>>

removeTaskLink(r, x) ==
    /\ link[<<r, x>>] # NoLink
    /\ link' = [link EXCEPT ![<<r, x>>] = NoLink]
    /\ UNCHANGED <<installation, repository, told, delivery, event, orphans, handler>>

-----------------------------------------------------------------------------
(* receiveWebhook takes a delivery up: by inserting it, or by taking over  *)
(* one that FAILED.                                                        *)
Receive(w, d, e) ==
    /\ At(w, "idle")
    /\ \/ /\ delivery[d] = "NEW"
          /\ delivery' = [delivery EXCEPT ![d] = "RECEIVED"]
          /\ event' = [event EXCEPT ![d] = e]
          /\ Become(w, [step |-> "apply", delivery |-> d, todo |-> {}, project |-> None])
       \/ /\ delivery[d] # "NEW"
          /\ event[d] = e
          /\ UNCHANGED <<delivery, event>>
          /\ Become(w, [step |-> "claim", delivery |-> d, todo |-> {}, project |-> None])
    /\ UNCHANGED <<installation, repository, link, told, orphans>>

(* Mutant: every delivery is taken up again.                               *)
Claimable_Always(d) == TRUE
Claimable(d) == delivery[d] = "FAILED"

Claim(w) ==
    LET d == handler[w].delivery IN
    /\ At(w, "claim")
    /\ \/ /\ Claimable(d)
          /\ delivery' = [delivery EXCEPT ![d] = "RECEIVED"]
          /\ Continue(w, "apply")
       \/ /\ ~Claimable(d)
          /\ Finish(w)
          /\ UNCHANGED delivery
    /\ UNCHANGED <<installation, repository, link, told, event, orphans>>

(* Mutant: only a connection is required, not one that still holds.        *)
Accepts_Known(i) == installation[i] # "ABSENT"
(* "Explicit admin connection is required before accepting data."          *)
Accepts(i) == installation[i] \notin {"ABSENT", "DISCONNECTED"}

(* applyWebhookEvent reads the installation.                               *)
Apply(w) ==
    LET e == Reported(w) IN
    /\ At(w, "apply")
    /\ Continue(w,
          CASE e.type = "installation" -> IF Accepts(e.installation) THEN "setStatus" ELSE "close"
            [] e.type # "installation" /\ installation[e.installation] # "ACTIVE" -> "close"
            [] e.type = "repositories" /\ installation[e.installation] = "ACTIVE" -> "remove"
            [] e.type = "item" /\ installation[e.installation] = "ACTIVE" -> "lookup")
    /\ UNCHANGED <<installation, repository, link, told, delivery, event, orphans>>

UpsertAll(w, R) ==
    Become(w, [handler[w] EXCEPT !.todo = R, !.step = IF R = {} THEN "close" ELSE "upsert"])

SetStatus(w) ==
    LET e == Reported(w) IN
    /\ At(w, "setStatus")
    /\ installation' = [installation EXCEPT ![e.installation] = e.status]
    /\ IF e.status = "ACTIVE" THEN UpsertAll(w, e.added) ELSE Continue(w, "deactivate")
    /\ UNCHANGED <<repository, link, told, delivery, event, orphans>>

Deactivate(w) ==
    /\ At(w, "deactivate")
    /\ repository' = Deactivated(Reported(w).installation, Repositories)
    /\ Continue(w, "close")
    /\ UNCHANGED <<installation, link, told, delivery, event, orphans>>

Remove(w) ==
    LET e == Reported(w) IN
    /\ At(w, "remove")
    /\ repository' = Deactivated(e.installation, e.removed)
    /\ UpsertAll(w, e.added)
    /\ UNCHANGED <<installation, link, told, delivery, event, orphans>>

Upsert(w) ==
    LET h == handler[w] IN
    /\ At(w, "upsert")
    /\ \E r \in h.todo :
          /\ repository' = Upserted(r, Reported(w).installation)
          /\ UpsertAll(w, h.todo \ {r})
    /\ UNCHANGED <<installation, link, told, delivery, event, orphans>>

(* An item: is its repository known here, and whose is it?                 *)
Lookup(w) ==
    LET e == Reported(w)
        row == repository[e.repository]
    IN
    /\ At(w, "lookup")
    /\ IF row.installation = e.installation /\ row.active
       THEN Become(w, [handler[w] EXCEPT !.step = "sync", !.project = row.project])
       ELSE Continue(w, "close")
    /\ UNCHANGED <<installation, repository, link, told, delivery, event, orphans>>

(* updateLinkedItem                                                        *)
Synced(r, x, news) == IF link[<<r, x>>] = NoLink THEN link ELSE [link EXCEPT ![<<r, x>>].state = news]

Sync(w) ==
    LET e == Reported(w)
        mapped == handler[w].project # None
    IN
    /\ At(w, "sync")
    /\ link' = Synced(e.repository, e.item, e.news)
    /\ Continue(w, CASE mapped /\ e.news = "concluded" -> "announce"
                     [] mapped /\ e.news = "opened" /\ e.task # None -> "findTask"
                     [] ~mapped \/ e.news = "changed" \/ (e.news = "opened" /\ e.task = None) -> "close")
    /\ UNCHANGED <<installation, repository, told, delivery, event, orphans>>

(* The project's manager, if it has one, is notified; the dedupe key makes *)
(* it once.                                                                *)
Notify(w, news) ==
    \/ told' = told \cup {<<news, Reported(w).repository, Reported(w).item>>}
    \/ UNCHANGED told

Announce(w) ==
    /\ At(w, "announce")
    /\ Notify(w, "concluded")
    /\ Continue(w, "close")
    /\ UNCHANGED <<installation, repository, link, delivery, event, orphans>>

(* The declared task must be in the mapped project, and exist.             *)
FindTask(w) ==
    /\ At(w, "findTask")
    /\ \/ Reported(w).task = handler[w].project /\ Continue(w, "link")
       \/ Continue(w, "close")
    /\ UNCHANGED <<installation, repository, link, told, delivery, event, orphans>>

(* A link that is there already ends the work: no manager is told.         *)
Link(w) ==
    LET e == Reported(w) IN
    /\ At(w, "link")
    /\ \/ /\ link[<<e.repository, e.item>>] = NoLink
          /\ link' = [link EXCEPT ![<<e.repository, e.item>>] =
                        [project |-> e.task, state |-> e.news]]
          /\ Continue(w, "tell")
       \/ /\ link[<<e.repository, e.item>>] # NoLink
          /\ Continue(w, "close")
          /\ UNCHANGED link
    /\ UNCHANGED <<installation, repository, told, delivery, event, orphans>>

Tell(w) ==
    /\ At(w, "tell")
    /\ Notify(w, "opened")
    /\ Continue(w, "close")
    /\ UNCHANGED <<installation, repository, link, delivery, event, orphans>>

Close(w) ==
    /\ At(w, "close")
    /\ delivery' = [delivery EXCEPT ![handler[w].delivery] = "PROCESSED"]
    /\ Finish(w)
    /\ UNCHANGED <<installation, repository, link, told, event, orphans>>

(* A call of applyWebhookEvent, or the last update, throws.                *)
Throw(w) ==
    /\ handler[w].step \in Applying \ {"markFailed"}
    /\ Continue(w, "markFailed")
    /\ UNCHANGED <<installation, repository, link, told, delivery, event, orphans>>

(* Mutant: the error is passed on without being noted.                     *)
MarkFailed_Silent(w) ==
    /\ At(w, "markFailed")
    /\ Finish(w)
    /\ UNCHANGED <<installation, repository, link, told, delivery, event, orphans>>
MarkFailed(w) ==
    /\ At(w, "markFailed")
    /\ delivery' = [delivery EXCEPT ![handler[w].delivery] = "FAILED"]
    /\ Finish(w)
    /\ UNCHANGED <<installation, repository, link, told, event, orphans>>

(* The process dies, or a call outside the try block throws.               *)
Die(w) ==
    /\ ~At(w, "idle")
    /\ orphans' = IF handler[w].step \in Applying
                  THEN orphans \cup {handler[w].delivery} ELSE orphans
    /\ Finish(w)
    /\ UNCHANGED <<installation, repository, link, told, delivery, event>>

-----------------------------------------------------------------------------
AdminStep(w) ==
    \/ \E i \in Installations, status \in {"ACTIVE", "SUSPENDED"}, listed \in SUBSET Repositories :
          ConnectStart(w, i, status, listed)
    \/ ConnectWrite(w) \/ ConnectRefresh(w) \/ ConnectPrune(w)
    \/ \E i \in Installations : DisconnectRead(w, i)
    \/ DisconnectWrite(w)
    \/ \E r \in Repositories, p \in Projects \cup {None} : MapRead(w, r, p)
    \/ MapWrite(w)

LinkStep(w) ==
    \/ \E r \in Repositories, x \in Items, p \in Projects : LinkRead(w, r, x, p)
    \/ LinkWrite(w)

InstallationStep(w) ==
    \/ Apply(w) \/ SetStatus(w) \/ Deactivate(w) \/ Remove(w) \/ Upsert(w)

ItemStep(w) ==
    \/ Lookup(w) \/ Sync(w) \/ Announce(w) \/ FindTask(w) \/ Link(w) \/ Tell(w)

DeliveryStep(w) ==
    \/ \E d \in Deliveries, e \in Event : Receive(w, d, e)
    \/ Claim(w) \/ Close(w) \/ Throw(w) \/ MarkFailed(w)

Step ==
    \/ \E w \in Workers :
          AdminStep(w) \/ LinkStep(w) \/ DeliveryStep(w) \/ InstallationStep(w) \/ ItemStep(w) \/ Die(w)
    \/ \E r \in Repositories, x \in Items : removeTaskLink(r, x)

(* A handler that read or wrote the row of an installation and will write  *)
(* the row or its repositories, and the installation it works for.         *)
AtWork(w) == handler[w].step \in {"setStatus", "remove", "upsert", "refresh"}
WorksFor(w) == IF At(w, "refresh") THEN handler[w].installation ELSE Reported(w).installation

Disconnected(i) == installation[i] # "DISCONNECTED" /\ installation'[i] = "DISCONNECTED"

Next ==
    /\ Step
    /\ overtaken' = {w \in Workers : AtWork(w) /\ AtWork(w)'
                                       /\ (w \in overtaken \/ Disconnected(WorksFor(w)))}

Spec == Init /\ [][Next]_vars

-----------------------------------------------------------------------------
Holds(w, d) == handler[w].step \in Applying /\ handler[w].delivery = d

(* "Delivery IDs are deduplicated": however often GitHub repeats a         *)
(* delivery, and however its repetitions race with the handler that        *)
(* failed, at most one handler applies it, and the row says RECEIVED.      *)
OneHandler ==
    \A d \in Deliveries, v \in Workers : Holds(v, d) =>
        /\ delivery[d] = "RECEIVED"
        /\ \A w \in Workers : Holds(w, d) => v = w

(* A delivery that was applied to the end is never applied again.          *)
ProcessedIsFinal ==
    [][\A d \in Deliveries : delivery[d] = "PROCESSED" => delivery'[d] = "PROCESSED"]_vars

(* What failed can be retried: a delivery that is RECEIVED is in the hands *)
(* of a handler, unless its handler died or could not note the failure.    *)
OrphansExplained ==
    \A d \in Deliveries :
        delivery[d] = "RECEIVED" => d \in orphans \/ \E w \in Workers : Holds(w, d)

(* Every delivery that is RECEIVED has its one handler, or the reason why  *)
(* it has none (receiveWebhook).                                           *)
DeliveriesExplained == OneHandler /\ OrphansExplained

(* An installation exists here only because an administrator connected it, *)
(* whatever webhooks claim.                                                *)
ConnectedByAdmin ==
    [][\A i \in Installations : installation[i] = "ABSENT" /\ installation'[i] # "ABSENT" =>
          \E w \in Workers : At(w, "connect") /\ handler[w].installation = i]_vars

(* "A subsequent verified webhook must not reactivate it": once an         *)
(* installation is disconnected, neither its row nor any of its            *)
(* repositories comes back, unless an administrator connects it again, or  *)
(* by a handler that was at work for it when it was disconnected           *)
(* (disconnectInstallation, applyWebhookEvent, connectInstallation).       *)
StaysDisconnected ==
    [][\A i \in Installations : installation[i] = "DISCONNECTED" =>
          \/ /\ installation'[i] = "DISCONNECTED"
             /\ \A r \in Repositories :
                   repository'[r].installation = i /\ repository'[r].active =>
                      repository[r].installation = i /\ repository[r].active
          \/ \E w \in Workers :
                \/ At(w, "connect") /\ handler[w].installation = i
                \/ w \in overtaken /\ WorksFor(w) = i]_vars

(* What has ended stays ended, however late the handlers of other calls    *)
(* write: a delivery that was PROCESSED, an installation that was          *)
(* disconnected (receiveWebhook, disconnectInstallation).                  *)
EndsHold == ProcessedIsFinal /\ StaysDisconnected
=============================================================================
