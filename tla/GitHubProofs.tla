---------------------------- MODULE GitHubProofs ----------------------------
(***************************************************************************)
(* Proofs about GitHub for every number of handlers, deliveries,           *)
(* installations and repositories.                                         *)
(*                                                                         *)
(* The argument: a delivery gets into a handler's hands by the insert,     *)
(* which needs a NEW row, or by the claim, which needs a FAILED one, and   *)
(* both leave it RECEIVED; so no second handler gets hold of it before the *)
(* first lets go (Inv).  What a delivery reports never changes after the   *)
(* insert, so a handler works on the event it was started with (Knows).    *)
(* And a handler is at work for an installation that is disconnected only  *)
(* if it was at work when that happened (Current).                         *)
(***************************************************************************)
EXTENDS GitHub, TLAPS

OfItem == {"lookup", "sync", "announce", "findTask", "link", "tell"}

(* What a handler knows of the event it applies.                           *)
Knows(h) ==
    LET e == event[h.delivery] IN
    /\ h.step \in {"claim"} \cup Applying => e \in Event /\ delivery[h.delivery] # "NEW"
    /\ h.step \in {"setStatus", "deactivate"} => e.type = "installation"
    /\ h.step = "remove" => e.type = "repositories"
    /\ h.step = "upsert" => e.type # "item"
    /\ h.step \in OfItem => e.type = "item"
    /\ h.step \in {"findTask", "link"} => e.task \in Projects

TablesOK ==
    /\ installation \in [Installations -> Connection \cup {"ABSENT"}]
    /\ repository \in [Repositories -> RepositoryRow]
    /\ link \in [Repositories \X Items -> LinkRow]
    /\ told \subseteq {"opened", "concluded"} \X Repositories \X Items

(* The types of all variables but the history.                             *)
RowsOK ==
    /\ TablesOK
    /\ delivery \in [Deliveries -> {"NEW", "RECEIVED", "PROCESSED", "FAILED"}]
    /\ event \in [Deliveries -> Event \cup {NoEvent}]
    /\ orphans \subseteq Deliveries
    /\ handler \in [Workers -> Handler]

Inv ==
    /\ RowsOK
    /\ OneHandler
    /\ OrphansExplained
    /\ \A w \in Workers : Knows(handler[w])

-----------------------------------------------------------------------------
(* The step of a handler tells which record it is.                         *)
LEMMA StepTypes ==
    ASSUME NEW h \in Handler
    PROVE  /\ h.step \in {"claim"} \cup Applying => h \in WebhookHandler
           /\ h.step \in {"connect", "refresh", "prune"} => h \in ConnectHandler
           /\ h.step = "disconnect" => h \in [step : {"disconnect"}, installation : Installations]
           /\ h.step = "map" => h \in [step : {"map"}, repository : Repositories, project : Projects \cup {None}]
           /\ h.step = "linkTask" =>
                 h \in [step : {"linkTask"}, repository : Repositories, item : Items, project : Projects]
    BY DEF Handler, WebhookHandler, ConnectHandler, Idle, Applying

(* Going on to another step keeps the record's type.                       *)
LEMMA StepChanged ==
    ASSUME NEW h \in WebhookHandler, NEW s \in Applying
    PROVE  /\ [h EXCEPT !.step = s] \in WebhookHandler
           /\ [h EXCEPT !.step = s].step = s
           /\ [h EXCEPT !.step = s].delivery = h.delivery
    BY DEF WebhookHandler

LEMMA TodoChanged ==
    ASSUME NEW h \in WebhookHandler, NEW s \in Applying, NEW R \in SUBSET Repositories
    PROVE  /\ [h EXCEPT !.todo = R, !.step = s] \in WebhookHandler
           /\ [h EXCEPT !.todo = R, !.step = s].step = s
           /\ [h EXCEPT !.todo = R, !.step = s].delivery = h.delivery
    BY DEF WebhookHandler

LEMMA ProjectChanged ==
    ASSUME NEW h \in WebhookHandler, NEW s \in Applying, NEW p \in Projects \cup {None}
    PROVE  /\ [h EXCEPT !.step = s, !.project = p] \in WebhookHandler
           /\ [h EXCEPT !.step = s, !.project = p].step = s
           /\ [h EXCEPT !.step = s, !.project = p].delivery = h.delivery
    BY DEF WebhookHandler

(* The shapes of the three kinds of event.                                 *)
LEMMA EventTypes ==
    ASSUME NEW e \in Event
    PROVE  /\ e.type \in {"installation", "repositories", "item"}
           /\ e.type = "installation" =>
                 e.installation \in Installations /\ e.status \in Connection /\ e.added \subseteq Repositories
           /\ e.type = "repositories" =>
                 e.installation \in Installations /\ e.removed \subseteq Repositories /\ e.added \subseteq Repositories
           /\ e.type = "item" =>
                 /\ e.installation \in Installations
                 /\ e.repository \in Repositories
                 /\ e.item \in Items
                 /\ e.news \in News
                 /\ e.task \in Projects \cup {None}
    BY DEF Event

(* Repository rows stay rows.                                              *)
LEMMA UpsertedType ==
    ASSUME repository \in [Repositories -> RepositoryRow], NEW i \in Installations, NEW r \in Repositories
    PROVE  Upserted(r, i) \in [Repositories -> RepositoryRow]
    BY DEF Upserted, RepositoryRow

LEMMA DeactivatedType ==
    ASSUME repository \in [Repositories -> RepositoryRow], NEW i, NEW R
    PROVE  Deactivated(i, R) \in [Repositories -> RepositoryRow]
    BY DEF Deactivated, RepositoryRow

-----------------------------------------------------------------------------
LEMMA InitInv == Init => Inv
    BY DEF Init, Inv, RowsOK, TablesOK, OneHandler, OrphansExplained, Knows, Holds, Handler, Idle, Applying, OfItem,
           NoRepository, RepositoryRow, LinkRow

(* A step of a handler that has no delivery, before and after.             *)
LEMMA AdminKeeps ==
    ASSUME Inv, TablesOK', NEW w \in Workers, NEW h \in Handler, Become(w, h),
           handler[w].step \notin Applying, h.step \notin {"claim"} \cup Applying,
           UNCHANGED <<delivery, event, orphans>>
    PROVE  Inv'
<1>1. /\ handler' \in [Workers -> Handler]
      /\ \A v \in Workers : handler'[v] = IF v = w THEN h ELSE handler[v]
    BY DEF Inv, RowsOK, Become
<1>2. RowsOK'
    BY <1>1 DEF Inv, RowsOK, TablesOK
<1>3. \A d \in Deliveries, v \in Workers : Holds(v, d)' <=> Holds(v, d)
    BY <1>1 DEF Holds
<1>4. OneHandler' /\ OrphansExplained'
    BY <1>3 DEF Inv, OneHandler, OrphansExplained
<1>5. \A v \in Workers : Knows(handler[v])'
    BY <1>1 DEF Inv, Knows, Applying, OfItem
<1> QED
    BY <1>2, <1>4, <1>5 DEF Inv

(* A handler goes on with the delivery it applies.                         *)
LEMMA ApplyKeeps ==
    ASSUME Inv, TablesOK', NEW w \in Workers, NEW h \in WebhookHandler, Become(w, h),
           handler[w].step \in Applying, h.step \in Applying, h.delivery = handler[w].delivery,
           Knows(h), UNCHANGED <<delivery, event, orphans>>
    PROVE  Inv'
<1>1. /\ handler' \in [Workers -> Handler]
      /\ \A v \in Workers : handler'[v] = IF v = w THEN h ELSE handler[v]
    BY DEF Inv, RowsOK, Become, Handler
<1>2. RowsOK'
    BY <1>1 DEF Inv, RowsOK, TablesOK
<1>3. \A d \in Deliveries, v \in Workers : Holds(v, d)' <=> Holds(v, d)
    BY <1>1 DEF Holds
<1>4. OneHandler' /\ OrphansExplained'
    BY <1>3 DEF Inv, OneHandler, OrphansExplained
<1>5. \A v \in Workers : Knows(handler[v])'
    BY <1>1 DEF Inv, Knows
<1> QED
    BY <1>2, <1>4, <1>5 DEF Inv

(* A handler without a delivery takes up one that is in no hands.          *)
LEMMA TakeUp ==
    ASSUME Inv, NEW w \in Workers, NEW d \in Deliveries,
           \A v \in Workers : ~Holds(v, d),
           \A b \in Deliveries : ~Holds(w, b),
           \A v \in Workers, b \in Deliveries : Holds(v, b)' <=> IF v = w THEN b = d ELSE Holds(v, b),
           delivery' = [delivery EXCEPT ![d] = "RECEIVED"], orphans' = orphans
    PROVE  OneHandler' /\ OrphansExplained'
<1>1. \A b \in Deliveries : delivery'[b] = IF b = d THEN "RECEIVED" ELSE delivery[b]
    BY DEF Inv, RowsOK
<1>2. OneHandler'
    BY <1>1 DEF Inv, OneHandler
<1>3. ASSUME NEW b \in Deliveries, delivery'[b] = "RECEIVED"
      PROVE  b \in orphans' \/ \E v \in Workers : Holds(v, b)'
    <2>1. CASE b = d
        BY <2>1
    <2>2. CASE b # d
        BY <1>1, <1>3, <2>2 DEF Inv, OrphansExplained
    <2> QED
        BY <2>1, <2>2
<1> QED
    BY <1>2, <1>3 DEF OrphansExplained

(* Administrators and people who link tasks by hand.                       *)
LEMMA AdminStepInv ==
    ASSUME Inv, NEW w \in Workers, AdminStep(w) \/ LinkStep(w)
    PROVE  Inv'
<1> USE DEF At
<1>t. /\ TablesOK
      /\ handler[w] \in Handler
      /\ Idle \in Handler /\ Idle.step \notin {"claim"} \cup Applying
    BY DEF Inv, RowsOK, TablesOK, Handler, Idle, Applying
<1>1. ASSUME NEW i \in Installations, NEW status \in {"ACTIVE", "SUSPENDED"},
             NEW listed \in SUBSET Repositories, ConnectStart(w, i, status, listed)
      PROVE  Inv'
    <2> DEFINE h == [step |-> "connect", installation |-> i, status |-> status,
                     listed |-> listed, todo |-> listed]
    <2>1. h \in Handler /\ h.step \notin {"claim"} \cup Applying
        BY DEF Handler, ConnectHandler, Applying
    <2>2. Become(w, h) /\ handler[w].step \notin Applying
        BY <1>1 DEF ConnectStart, Applying
    <2>3. TablesOK' /\ UNCHANGED <<delivery, event, orphans>>
        BY <1>1, <1>t DEF ConnectStart, TablesOK
    <2> QED
        BY <2>1, <2>2, <2>3, AdminKeeps
<1>2. CASE ConnectWrite(w)
    <2>1. handler[w] \in ConnectHandler
        BY <1>2, <1>t, StepTypes DEF ConnectWrite
    <2>2. PICK s \in {"prune", "refresh"} : Continue(w, s)
        BY <1>2 DEF ConnectWrite
    <2>3. /\ Become(w, [handler[w] EXCEPT !.step = s])
          /\ [handler[w] EXCEPT !.step = s] \in Handler
          /\ [handler[w] EXCEPT !.step = s].step \notin {"claim"} \cup Applying
          /\ handler[w].step \notin Applying
        BY <1>2, <2>1, <2>2 DEF Continue, ConnectHandler, Handler, Applying, ConnectWrite
    <2>4. TablesOK' /\ UNCHANGED <<delivery, event, orphans>>
        BY <1>2, <1>t, <2>1 DEF ConnectWrite, TablesOK, ConnectHandler, Connection
    <2> QED
        BY <2>3, <2>4, AdminKeeps
<1>3. CASE ConnectRefresh(w)
    <2>1. handler[w] \in ConnectHandler
        BY <1>3, <1>t, StepTypes DEF ConnectRefresh
    <2>2. PICK r \in handler[w].todo :
              /\ repository' = Upserted(r, handler[w].installation)
              /\ Become(w, [handler[w] EXCEPT !.todo = @ \ {r},
                             !.step = IF handler[w].todo = {r} THEN "prune" ELSE "refresh"])
        BY <1>3 DEF ConnectRefresh
    <2> DEFINE h == [handler[w] EXCEPT !.todo = @ \ {r},
                     !.step = IF handler[w].todo = {r} THEN "prune" ELSE "refresh"]
    <2>3. h \in Handler /\ h.step \notin {"claim"} \cup Applying /\ handler[w].step \notin Applying
        BY <1>3, <2>1 DEF ConnectHandler, Handler, Applying, ConnectRefresh
    <2>4. handler[w].installation \in Installations /\ r \in Repositories
        BY <2>1 DEF ConnectHandler
    <2>5. TablesOK' /\ UNCHANGED <<delivery, event, orphans>>
        BY <1>3, <1>t, <2>2, <2>4, UpsertedType DEF ConnectRefresh, TablesOK
    <2> QED
        BY <2>2, <2>3, <2>5, AdminKeeps
<1>4. CASE ConnectPrune(w)
    <2>1. handler[w] \in ConnectHandler
        BY <1>4, <1>t, StepTypes DEF ConnectPrune
    <2>2. handler[w].installation \in Installations /\ handler[w].step \notin Applying
        BY <1>4, <2>1 DEF ConnectHandler, ConnectPrune, Applying
    <2>3. TablesOK' /\ UNCHANGED <<delivery, event, orphans>>
        BY <1>4, <1>t, <2>2, DeactivatedType DEF ConnectPrune, TablesOK
    <2> QED
        BY <1>4, <1>t, <2>2, <2>3, AdminKeeps DEF ConnectPrune, Finish
<1>5. ASSUME NEW i \in Installations, DisconnectRead(w, i) PROVE Inv'
    <2> DEFINE h == [step |-> "disconnect", installation |-> i]
    <2>1. h \in Handler /\ h.step \notin {"claim"} \cup Applying
        BY DEF Handler, Applying
    <2>2. Become(w, h) /\ handler[w].step \notin Applying
        BY <1>5 DEF DisconnectRead, Applying
    <2>3. TablesOK' /\ UNCHANGED <<delivery, event, orphans>>
        BY <1>5, <1>t DEF DisconnectRead, TablesOK
    <2> QED
        BY <2>1, <2>2, <2>3, AdminKeeps
<1>6. CASE DisconnectWrite(w)
    <2>1. handler[w].installation \in Installations /\ handler[w].step \notin Applying
        BY <1>6, <1>t, StepTypes DEF DisconnectWrite, Applying
    <2>2. TablesOK' /\ UNCHANGED <<delivery, event, orphans>>
        BY <1>6, <1>t, <2>1, DeactivatedType DEF DisconnectWrite, TablesOK, Connection
    <2> QED
        BY <1>6, <1>t, <2>1, <2>2, AdminKeeps DEF DisconnectWrite, Finish
<1>7. ASSUME NEW r \in Repositories, NEW p \in Projects \cup {None}, MapRead(w, r, p) PROVE Inv'
    <2> DEFINE h == [step |-> "map", repository |-> r, project |-> p]
    <2>1. h \in Handler /\ h.step \notin {"claim"} \cup Applying
        BY DEF Handler, Applying
    <2>2. Become(w, h) /\ handler[w].step \notin Applying
        BY <1>7 DEF MapRead, Applying
    <2>3. TablesOK' /\ UNCHANGED <<delivery, event, orphans>>
        BY <1>7, <1>t DEF MapRead, TablesOK
    <2> QED
        BY <2>1, <2>2, <2>3, AdminKeeps
<1>8. CASE MapWrite(w)
    <2>1. /\ handler[w].repository \in Repositories
          /\ handler[w].project \in Projects \cup {None}
          /\ handler[w].step \notin Applying
        BY <1>8, <1>t, StepTypes DEF MapWrite, Applying
    <2>2. TablesOK' /\ UNCHANGED <<delivery, event, orphans>>
        BY <1>8, <1>t, <2>1 DEF MapWrite, TablesOK, RepositoryRow
    <2> QED
        BY <1>8, <1>t, <2>1, <2>2, AdminKeeps DEF MapWrite, Finish
<1>9. ASSUME NEW r \in Repositories, NEW x \in Items, NEW p \in Projects, LinkRead(w, r, x, p) PROVE Inv'
    <2> DEFINE h == [step |-> "linkTask", repository |-> r, item |-> x, project |-> p]
    <2>1. h \in Handler /\ h.step \notin {"claim"} \cup Applying
        BY DEF Handler, Applying
    <2>2. Become(w, h) /\ handler[w].step \notin Applying
        BY <1>9 DEF LinkRead, Applying
    <2>3. TablesOK' /\ UNCHANGED <<delivery, event, orphans>>
        BY <1>9, <1>t DEF LinkRead, TablesOK
    <2> QED
        BY <2>1, <2>2, <2>3, AdminKeeps
<1>10. CASE LinkWrite(w)
    <2>1. /\ handler[w].project \in Projects
          /\ handler[w].step \notin Applying
        BY <1>10, <1>t, StepTypes DEF LinkWrite, Applying
    <2>2. [project |-> handler[w].project, state |-> "none"] \in LinkRow
        BY <2>1 DEF LinkRow
    <2>3. TablesOK' /\ UNCHANGED <<delivery, event, orphans>>
        BY <1>10, <1>t, <2>2 DEF LinkWrite, TablesOK
    <2> QED
        BY <1>10, <1>t, <2>1, <2>3, AdminKeeps DEF LinkWrite, Finish
<1> QED
    BY <1>1, <1>2, <1>3, <1>4, <1>5, <1>6, <1>7, <1>8, <1>9, <1>10 DEF AdminStep, LinkStep

(* The steps that apply a delivery.                                        *)
LEMMA ApplyStepInv ==
    ASSUME GitHubAssumption, Inv, NEW w \in Workers,
           InstallationStep(w) \/ ItemStep(w) \/ Throw(w)
    PROVE  Inv'
<1> DEFINE h == handler[w]
           e == Reported(w)
<1> USE DEF At
<1>t. TablesOK /\ h \in Handler
    BY DEF Inv, RowsOK, TablesOK
<1>a. h.step \in Applying /\ UNCHANGED <<delivery, event, orphans>>
    BY DEF InstallationStep, ItemStep, Throw, Apply, SetStatus, Deactivate, Remove, Upsert,
           Lookup, Sync, Announce, FindTask, Link, Tell, Applying
<1>h. h \in WebhookHandler
    BY <1>t, <1>a, StepTypes
<1>k. Knows(h) /\ e \in Event /\ delivery[h.delivery] # "NEW"
    BY <1>a DEF Inv, Knows, Reported
(* Going on to a step that needs to know no more than the present one.     *)
<1>c. ASSUME NEW s \in Applying, NEW R \in SUBSET Repositories, NEW p \in Projects \cup {None},
             TablesOK',
             \/ Become(w, [h EXCEPT !.step = s])
             \/ Become(w, [h EXCEPT !.todo = R, !.step = s])
             \/ Become(w, [h EXCEPT !.step = s, !.project = p]),
             s \in {"setStatus", "deactivate"} => e.type = "installation",
             s = "remove" => e.type = "repositories",
             s = "upsert" => e.type # "item",
             s \in OfItem => e.type = "item",
             s \in {"findTask", "link"} => e.task \in Projects
      PROVE  Inv'
    <2>1. PICK g : /\ Become(w, g)
                   /\ g \in {[h EXCEPT !.step = s], [h EXCEPT !.todo = R, !.step = s],
                             [h EXCEPT !.step = s, !.project = p]}
        BY <1>c
    <2>2. g \in WebhookHandler /\ g.step = s /\ g.delivery = h.delivery
        <3>1. CASE g = [h EXCEPT !.step = s]
            BY <3>1, <1>h, StepChanged
        <3>2. CASE g = [h EXCEPT !.todo = R, !.step = s]
            BY <3>2, <1>h, TodoChanged
        <3>3. CASE g = [h EXCEPT !.step = s, !.project = p]
            <4>1. p \in Projects \cup {None}
                BY <1>c
            <4> HIDE DEF h
            <4>2. /\ [h EXCEPT !.step = s, !.project = p] \in WebhookHandler
                  /\ [h EXCEPT !.step = s, !.project = p].step = s
                  /\ [h EXCEPT !.step = s, !.project = p].delivery = h.delivery
                BY <4>1, <1>h, ProjectChanged
            <4> QED
                BY <3>3, <4>2
        <3> QED
            BY <2>1, <3>1, <3>2, <3>3
    <2>3. Knows(g)
        BY <2>2, <1>k, <1>c DEF Knows, Reported
    <2> QED
        BY <2>1, <2>2, <2>3, <1>a, <1>c, ApplyKeeps
<1> HIDE DEF h, e
<1>1. CASE Apply(w)
    <2>1. /\ TablesOK'
          /\ e.type \in {"installation", "repositories", "item"}
        BY <1>1, <1>t, <1>k, EventTypes DEF Apply, TablesOK
    <2>2. PICK s \in {"setStatus", "close", "remove", "lookup"} :
              /\ Continue(w, s)
              /\ s = "setStatus" => e.type = "installation"
              /\ s = "remove" => e.type = "repositories"
              /\ s = "lookup" => e.type = "item"
        BY <1>1, <2>1 DEF Apply, e
    <2> QED
        BY <2>1, <2>2, <1>c DEF Continue, Applying, OfItem, h
<1>2. CASE SetStatus(w)
    <2>1. e.type = "installation" /\ h.step = "setStatus"
        BY <1>2, <1>k DEF SetStatus, Knows, e, h, Reported
    <2>2. e.installation \in Installations /\ e.status \in Connection /\ e.added \in SUBSET Repositories
        BY <2>1, <1>k, EventTypes
    <2>3. TablesOK'
        BY <1>2, <1>t, <2>2 DEF SetStatus, TablesOK, e
    <2>4. CASE e.status = "ACTIVE"
        <3>1. PICK s \in {"close", "upsert"} : Become(w, [h EXCEPT !.todo = e.added, !.step = s])
            BY <1>2, <2>4 DEF SetStatus, UpsertAll, h, e
        <3> QED
            BY <3>1, <2>1, <2>2, <2>3, <1>c DEF Applying, OfItem
    <2>5. CASE e.status # "ACTIVE"
        <3>1. Become(w, [h EXCEPT !.step = "deactivate"])
            BY <1>2, <2>5 DEF SetStatus, Continue, h, e
        <3> QED
            BY <3>1, <2>1, <2>3, <1>c DEF Applying, OfItem
    <2> QED
        BY <2>4, <2>5
<1>3. CASE Deactivate(w)
    <2>1. TablesOK'
        BY <1>3, <1>t, DeactivatedType DEF Deactivate, TablesOK
    <2>2. Become(w, [h EXCEPT !.step = "close"])
        BY <1>3 DEF Deactivate, Continue, h
    <2> QED
        BY <2>1, <2>2, <1>c DEF Applying, OfItem
<1>4. CASE Remove(w)
    <2>1. e.type = "repositories"
        BY <1>4, <1>k DEF Remove, Knows, e, h, Reported
    <2>2. e.installation \in Installations /\ e.added \in SUBSET Repositories
        BY <2>1, <1>k, EventTypes
    <2>3. TablesOK'
        BY <1>4, <1>t, DeactivatedType DEF Remove, TablesOK, e
    <2>4. PICK s \in {"close", "upsert"} : Become(w, [h EXCEPT !.todo = e.added, !.step = s])
        BY <1>4 DEF Remove, UpsertAll, h, e
    <2> QED
        BY <2>1, <2>2, <2>3, <2>4, <1>c DEF Applying, OfItem
<1>5. CASE Upsert(w)
    <2>1. e.type # "item"
        BY <1>5, <1>k DEF Upsert, Knows, e, h, Reported
    <2>2. e.installation \in Installations /\ h.todo \in SUBSET Repositories
        BY <2>1, <1>k, <1>h, EventTypes DEF WebhookHandler
    <2>3. PICK r \in h.todo : repository' = Upserted(r, e.installation) /\ UpsertAll(w, h.todo \ {r})
        BY <1>5 DEF Upsert, h, e
    <2>4. TablesOK'
        BY <1>5, <1>t, <2>2, <2>3, UpsertedType DEF Upsert, TablesOK
    <2>5. PICK s \in {"close", "upsert"} : Become(w, [h EXCEPT !.todo = h.todo \ {r}, !.step = s])
        BY <2>3 DEF UpsertAll, h
    <2>6. h.todo \ {r} \in SUBSET Repositories
        BY <2>2
    <2> QED
        BY <2>1, <2>4, <2>5, <2>6, <1>c DEF Applying, OfItem
<1>6. CASE ItemStep(w)
    <2>1. e.type = "item"
        BY <1>6, <1>k DEF ItemStep, Lookup, Sync, Announce, FindTask, Link, Tell, Knows, OfItem, e, h, Reported
    <2>2. /\ e.repository \in Repositories /\ e.item \in Items
          /\ e.news \in News /\ e.task \in Projects \cup {None}
        BY <2>1, <1>k, EventTypes
    <2>3. CASE Lookup(w)
        <3>1. TablesOK' /\ repository[e.repository].project \in Projects \cup {None}
            BY <2>3, <1>t, <2>2 DEF Lookup, TablesOK, RepositoryRow
        <3>2. \/ Become(w, [h EXCEPT !.step = "sync", !.project = repository[e.repository].project])
              \/ Become(w, [h EXCEPT !.step = "close"])
            BY <2>3 DEF Lookup, Continue, h, e
        <3> QED
            BY <2>1, <3>1, <3>2, <1>c DEF Applying, OfItem
    <2>4. CASE Sync(w)
        <3>1. TablesOK'
            BY <2>4, <1>t, <2>2 DEF Sync, Synced, TablesOK, LinkRow, NoLink, e
        <3>2. PICK s \in {"announce", "findTask", "close"} :
                  Become(w, [h EXCEPT !.step = s]) /\ (s = "findTask" => e.task # None)
            BY <2>4, <2>2 DEF Sync, Continue, News, h, e
        <3> QED
            BY <2>1, <2>2, <3>1, <3>2, <1>c DEF Applying, OfItem
    <2>5. CASE Announce(w)
        <3>1. TablesOK' /\ Become(w, [h EXCEPT !.step = "close"])
            BY <2>5, <1>t, <2>2 DEF Announce, Notify, TablesOK, Continue, h, e
        <3> QED
            BY <3>1, <1>c DEF Applying, OfItem
    <2>6. CASE FindTask(w)
        <3>1. e.task \in Projects
            BY <2>6, <1>k DEF FindTask, Knows, e, h, Reported
        <3>2. PICK s \in {"link", "close"} : Become(w, [h EXCEPT !.step = s])
            BY <2>6 DEF FindTask, Continue, h
        <3>3. TablesOK'
            BY <2>6, <1>t DEF FindTask, TablesOK
        <3> QED
            BY <2>1, <3>1, <3>2, <3>3, <1>c DEF Applying, OfItem
    <2>7. CASE Link(w)
        <3>1. e.task \in Projects
            BY <2>7, <1>k DEF Link, Knows, e, h, Reported
        <3>2. [project |-> e.task, state |-> e.news] \in LinkRow
            BY <3>1, <2>2 DEF LinkRow
        <3>3. TablesOK'
            BY <2>7, <1>t, <3>2 DEF Link, TablesOK, e
        <3>4. PICK s \in {"tell", "close"} : Become(w, [h EXCEPT !.step = s])
            BY <2>7 DEF Link, Continue, h
        <3> QED
            BY <2>1, <3>3, <3>4, <1>c DEF Applying, OfItem
    <2>8. CASE Tell(w)
        <3>1. TablesOK' /\ Become(w, [h EXCEPT !.step = "close"])
            BY <2>8, <1>t, <2>2 DEF Tell, Notify, TablesOK, Continue, h, e
        <3> QED
            BY <3>1, <1>c DEF Applying, OfItem
    <2> QED
        BY <1>6, <2>3, <2>4, <2>5, <2>6, <2>7, <2>8 DEF ItemStep
<1>7. CASE Throw(w)
    <2>1. TablesOK' /\ Become(w, [h EXCEPT !.step = "markFailed"])
        BY <1>7, <1>t DEF Throw, TablesOK, Continue, h
    <2> QED
        BY <2>1, <1>c DEF Applying, OfItem
<1> QED
    BY <1>1, <1>2, <1>3, <1>4, <1>5, <1>6, <1>7 DEF InstallationStep

(* A delivery comes into a handler's hands, and leaves them.               *)
LEMMA DeliveryStepInv ==
    ASSUME GitHubAssumption, Inv, NEW w \in Workers, DeliveryStep(w) \/ Die(w)
    PROVE  Inv'
<1> DEFINE h == handler[w]
           d == h.delivery
<1> USE DEF At
<1>t. /\ TablesOK /\ h \in Handler
      /\ handler \in [Workers -> Handler]
      /\ delivery \in [Deliveries -> {"NEW", "RECEIVED", "PROCESSED", "FAILED"}]
      /\ event \in [Deliveries -> Event \cup {NoEvent}]
      /\ orphans \subseteq Deliveries
      /\ Idle \in Handler /\ Idle.step = "idle" /\ "idle" \notin {"claim"} \cup Applying
    BY DEF Inv, RowsOK, TablesOK, Handler, Idle, Applying
<1>1. ASSUME NEW c \in Deliveries, NEW e \in Event, Receive(w, c, e) PROVE Inv'
    <2> DEFINE g(s) == [step |-> s, delivery |-> c, todo |-> {}, project |-> None]
    <2>1. \A s \in {"claim"} \cup Applying : g(s) \in Handler /\ g(s).step = s /\ g(s).delivery = c
        BY DEF Handler, WebhookHandler
    <2>2. TablesOK' /\ orphans' = orphans /\ h.step = "idle"
        BY <1>1, <1>t DEF Receive, TablesOK
    <2>3. CASE delivery[c] = "NEW"
        <3>1. /\ delivery' = [delivery EXCEPT ![c] = "RECEIVED"]
              /\ event' = [event EXCEPT ![c] = e]
              /\ Become(w, g("apply"))
            BY <1>1, <2>3 DEF Receive
        <3>2. \A v \in Workers : handler'[v] = IF v = w THEN g("apply") ELSE handler[v]
            BY <1>t, <3>1 DEF Become
        <3>3. "apply" \in Applying
            BY DEF Applying
        <3>4. RowsOK'
            BY <1>t, <2>1, <2>2, <3>1, <3>3 DEF RowsOK, TablesOK, Become
        <3>5. \A v \in Workers, b \in Deliveries :
                  Holds(v, b)' <=> IF v = w THEN b = c ELSE Holds(v, b)
            BY <3>2, <3>3, <2>1 DEF Holds
        <3>6. \A v \in Workers : ~Holds(v, c)
            BY <2>3 DEF Inv, OneHandler
        <3>7. OneHandler' /\ OrphansExplained'
            <4>1. \A b \in Deliveries : ~Holds(w, b)
                BY <1>t, <2>2 DEF Holds
            <4> QED
                BY <2>2, <3>1, <3>5, <3>6, <4>1, TakeUp
        <3>8. Knows(g("apply"))'
            BY <1>t, <2>1, <3>1, <3>3 DEF Knows, OfItem
        <3>9. ASSUME NEW v \in Workers, v # w PROVE Knows(handler[v])'
            <4>1. handler[v] \in Handler /\ Knows(handler[v]) /\ handler'[v] = handler[v]
                BY <1>t, <3>2, <3>9 DEF Inv
            <4>2. CASE handler[v].step \in {"claim"} \cup Applying
                <5>1. handler[v].delivery \in Deliveries /\ handler[v].delivery # c
                    BY <4>1, <4>2, <2>3, StepTypes DEF Knows, WebhookHandler
                <5> QED
                    BY <1>t, <3>1, <4>1, <5>1 DEF Knows
            <4>3. CASE handler[v].step \notin {"claim"} \cup Applying
                BY <4>1, <4>3 DEF Knows, Applying, OfItem
            <4> QED
                BY <4>2, <4>3
        <3> QED
            BY <3>2, <3>4, <3>7, <3>8, <3>9 DEF Inv
    <2>4. CASE delivery[c] # "NEW"
        <3>1. event[c] = e /\ UNCHANGED <<delivery, event>> /\ Become(w, g("claim"))
            BY <1>1, <2>4 DEF Receive
        <3>2. \A v \in Workers : handler'[v] = IF v = w THEN g("claim") ELSE handler[v]
            BY <1>t, <3>1 DEF Become
        <3>3. "claim" \notin Applying
            BY DEF Applying
        <3>4. RowsOK'
            BY <1>t, <2>1, <2>2, <3>1 DEF RowsOK, TablesOK, Become
        <3>5. \A v \in Workers, b \in Deliveries : Holds(v, b)' <=> Holds(v, b)
            BY <1>t, <3>2, <3>3, <2>1, <2>2 DEF Holds
        <3>6. OneHandler' /\ OrphansExplained'
            BY <2>2, <3>1, <3>5 DEF Inv, OneHandler, OrphansExplained
        <3>7. Knows(g("claim"))'
            BY <2>1, <2>4, <3>1 DEF Knows, OfItem
        <3>8. \A v \in Workers : Knows(handler[v])'
            BY <3>1, <3>2, <3>7 DEF Inv, Knows
        <3> QED
            BY <3>4, <3>6, <3>8 DEF Inv
    <2> QED
        BY <2>3, <2>4
(* From here on the step ends the handler or lets it take the delivery up. *)
<1>w. h.step \in {"claim"} \cup Applying =>
          h \in WebhookHandler /\ d \in Deliveries /\ event[d] \in Event /\ delivery[d] # "NEW"
    BY <1>t, StepTypes DEF Inv, Knows, WebhookHandler
<1>i. ASSUME Finish(w), TablesOK', event' = event,
             NEW s \in {"RECEIVED", "PROCESSED", "FAILED"}, d \in Deliveries,
             delivery' = [delivery EXCEPT ![d] = s], orphans' = orphans, OneHandler', OrphansExplained'
      PROVE  Inv'
    <2>1. \A v \in Workers : handler'[v] = IF v = w THEN Idle ELSE handler[v]
        BY <1>t, <1>i DEF Finish, Become
    <2>2. RowsOK'
        BY <1>t, <1>i DEF RowsOK, TablesOK, Finish, Become
    <2>3. \A b \in Deliveries : delivery[b] # "NEW" => delivery'[b] # "NEW"
        BY <1>t, <1>i
    <2>4. \A v \in Workers : handler[v].step \in {"claim"} \cup Applying => handler[v].delivery \in Deliveries
        BY <1>t, StepTypes DEF WebhookHandler
    <2>5. \A v \in Workers : Knows(handler[v])'
        BY <1>t, <1>i, <2>1, <2>3, <2>4 DEF Inv, Knows, Applying, OfItem
    <2> QED
        BY <1>i, <2>2, <2>5 DEF Inv
<1>2. CASE Claim(w)
    <2>1. /\ TablesOK' /\ orphans' = orphans /\ event' = event
          /\ h.step = "claim" /\ h.step \notin Applying
        BY <1>2, <1>t DEF Claim, TablesOK, Applying
    <2>2. CASE Claimable(d)
        <3> DEFINE g == [h EXCEPT !.step = "apply"]
        <3>1. /\ delivery[d] = "FAILED"
              /\ delivery' = [delivery EXCEPT ![d] = "RECEIVED"]
              /\ Become(w, g)
            BY <1>2, <2>2 DEF Claim, Claimable, Continue
        <3>2. g \in WebhookHandler /\ g.step = "apply" /\ g.delivery = d /\ "apply" \in Applying
            BY <1>w, <2>1 DEF WebhookHandler, Applying
        <3>3. \A v \in Workers : handler'[v] = IF v = w THEN g ELSE handler[v]
            BY <1>t, <3>1 DEF Become
        <3>4. RowsOK'
            BY <1>t, <2>1, <3>1, <3>2 DEF RowsOK, TablesOK, Become, Handler
        <3>5. \A v \in Workers, b \in Deliveries :
                  Holds(v, b)' <=> IF v = w THEN b = d ELSE Holds(v, b)
            BY <3>2, <3>3 DEF Holds
        <3>6. d \in Deliveries /\ \A v \in Workers : ~Holds(v, d)
            BY <1>w, <2>1, <3>1 DEF Inv, OneHandler
        <3>7. OneHandler' /\ OrphansExplained'
            <4>1. \A b \in Deliveries : ~Holds(w, b)
                BY <2>1 DEF Holds
            <4> HIDE DEF d
            <4> QED
                BY <2>1, <3>1, <3>5, <3>6, <4>1, TakeUp
        <3>8. \A b \in Deliveries : delivery[b] # "NEW" => delivery'[b] # "NEW"
            BY <1>t, <3>1
        <3>9. /\ handler'[w].step = "apply" /\ handler'[w].delivery = d
              /\ event'[d] \in Event /\ delivery'[d] # "NEW"
            BY <1>w, <2>1, <3>2, <3>3, <3>8
        <3> HIDE DEF g, d
        <3>10. ASSUME NEW v \in Workers PROVE Knows(handler[v])'
            <4>1. CASE v = w
                BY <3>9, <4>1 DEF Knows, OfItem
            <4>2. CASE v # w
                <5>1. handler'[v] = handler[v] /\ Knows(handler[v])
                    BY <3>3, <4>2 DEF Inv
                <5>2. handler[v].step \in {"claim"} \cup Applying => handler[v].delivery \in Deliveries
                    BY <1>t, StepTypes DEF WebhookHandler
                <5> QED
                    BY <2>1, <3>8, <5>1, <5>2 DEF Knows, Applying, OfItem
            <4> QED
                BY <4>1, <4>2
        <3> QED
            BY <3>4, <3>7, <3>10 DEF Inv
    <2>3. CASE ~Claimable(d)
        <3>1. Finish(w) /\ UNCHANGED <<delivery, event, orphans>>
            BY <1>2, <2>1, <2>3 DEF Claim
        <3> QED
            BY <1>t, <2>1, <3>1, AdminKeeps DEF Finish
    <2> QED
        BY <2>2, <2>3
<1>3. CASE Close(w) \/ MarkFailed(w)
    <2>1. /\ h.step \in Applying /\ Finish(w) /\ TablesOK' /\ UNCHANGED <<event, orphans>>
        BY <1>3, <1>t DEF Close, MarkFailed, TablesOK, Applying
    <2>2. PICK s \in {"PROCESSED", "FAILED"} : delivery' = [delivery EXCEPT ![d] = s]
        BY <1>3 DEF Close, MarkFailed
    <2>3. d \in Deliveries /\ Holds(w, d)
        BY <1>w, <2>1 DEF Holds
    <2>4. \A v \in Workers, b \in Deliveries : Holds(v, b)' <=> v # w /\ Holds(v, b)
        BY <1>t, <2>1 DEF Holds, Finish, Become
    <2>5. \A v \in Workers : v # w => ~Holds(v, d)
        BY <2>3 DEF Inv, OneHandler
    <2>6. \A b \in Deliveries : Holds(w, b) => b = d
        BY DEF Holds
    <2>7. OneHandler' /\ OrphansExplained'
        BY <1>t, <2>1, <2>2, <2>3, <2>4, <2>5, <2>6 DEF Inv, OneHandler, OrphansExplained
    <2> QED
        BY <1>i, <2>1, <2>2, <2>3, <2>7
<1>4. CASE Die(w)
    <2>1. /\ Finish(w) /\ TablesOK' /\ UNCHANGED <<delivery, event>>
          /\ orphans' = IF h.step \in Applying THEN orphans \cup {d} ELSE orphans
        BY <1>4, <1>t DEF Die, TablesOK
    <2>2. CASE h.step \notin Applying
        BY <1>t, <2>1, <2>2, AdminKeeps DEF Finish
    <2>3. CASE h.step \in Applying
        <3>1. d \in Deliveries /\ orphans' = orphans \cup {d}
            BY <1>w, <2>1, <2>3
        <3>2. \A v \in Workers : handler'[v] = IF v = w THEN Idle ELSE handler[v]
            BY <1>t, <2>1 DEF Finish, Become
        <3>3. RowsOK'
            BY <1>t, <2>1, <3>1 DEF RowsOK, TablesOK, Finish, Become
        <3>4. \A v \in Workers, b \in Deliveries : Holds(v, b)' <=> v # w /\ Holds(v, b)
            BY <1>t, <3>2 DEF Holds
        <3>5. \A b \in Deliveries : Holds(w, b) => b = d
            BY DEF Holds
        <3>6. OneHandler' /\ OrphansExplained'
            BY <2>1, <3>1, <3>4, <3>5 DEF Inv, OneHandler, OrphansExplained
        <3>7. \A v \in Workers : Knows(handler[v])'
            BY <1>t, <2>1, <3>2 DEF Inv, Knows, Applying, OfItem
        <3> QED
            BY <3>3, <3>6, <3>7 DEF Inv
    <2> QED
        BY <2>2, <2>3
<1> QED
    BY <1>1, <1>2, <1>3, <1>4, ApplyStepInv DEF DeliveryStep

(* No handler moves: a link is removed by hand, or nothing happens.        *)
LEMMA OtherStepInv ==
    ASSUME Inv, link' \in [Repositories \X Items -> LinkRow],
           UNCHANGED <<installation, repository, told, delivery, event, orphans, handler>>
    PROVE  Inv'
    BY DEF Inv, RowsOK, TablesOK, OneHandler, OrphansExplained, Holds, Knows

LEMMA NextInv == ASSUME GitHubAssumption, Inv, [Next]_vars PROVE Inv'
<1>1. ASSUME NEW w \in Workers, AdminStep(w) \/ LinkStep(w) PROVE Inv'
    BY <1>1, AdminStepInv
<1>2. ASSUME NEW w \in Workers, InstallationStep(w) \/ ItemStep(w) PROVE Inv'
    BY <1>2, ApplyStepInv
<1>3. ASSUME NEW w \in Workers, DeliveryStep(w) \/ Die(w) PROVE Inv'
    BY <1>3, DeliveryStepInv
<1>4. ASSUME NEW r \in Repositories, NEW x \in Items, removeTaskLink(r, x) PROVE Inv'
    <2>1. NoLink \in LinkRow /\ link \in [Repositories \X Items -> LinkRow]
        BY DEF LinkRow, Inv, RowsOK, TablesOK
    <2>2. link' \in [Repositories \X Items -> LinkRow]
        BY <1>4, <2>1 DEF removeTaskLink
    <2> QED
        BY <1>4, <2>2, OtherStepInv DEF removeTaskLink
<1>5. CASE UNCHANGED vars
    BY <1>5, OtherStepInv DEF vars, Inv, RowsOK, TablesOK
<1> QED
    BY <1>1, <1>2, <1>3, <1>4, <1>5 DEF Next, Step

(* A delivery is in one pair of hands, and nothing else is, in any state   *)
(* the service reaches.                                                    *)
THEOREM GitHubInvariance == Spec => []Inv
<1>1. Init => Inv
    BY InitInv
<1>2. Inv /\ [Next]_vars => Inv'
    BY NextInv, GitHubAssumption
<1> QED
    BY <1>1, <1>2, PTL DEF Spec

(* Every row and every handler keeps its type (the schema's enums, the     *)
(* fields each step of github.service.ts reads).                           *)
THEOREM GitHubTypeCorrect == Spec => []TypeOK
<1>1. Init => overtaken \subseteq Workers
    BY DEF Init
<1>2. overtaken \subseteq Workers /\ [Next]_vars => (overtaken \subseteq Workers)'
    BY DEF Next, Step, vars
<1>3. Inv /\ overtaken \subseteq Workers => TypeOK
    BY DEF Inv, RowsOK, TablesOK, TypeOK
<1> QED
    BY <1>1, <1>2, <1>3, GitHubInvariance, PTL DEF Spec

(* receiveWebhook: however deliveries repeat, race and fail, at most one   *)
(* handler applies each, and its row says RECEIVED meanwhile.              *)
THEOREM AppliedByOne == Spec => []OneHandler
<1>1. Inv => OneHandler
    BY DEF Inv
<1> QED
    BY <1>1, GitHubInvariance, PTL

(* receiveWebhook: only a crash, or a failure to note the failure, leaves  *)
(* a delivery RECEIVED with nobody applying it.                            *)
THEOREM OnlyCrashesOrphan == Spec => []OrphansExplained
<1>1. Inv => OrphansExplained
    BY DEF Inv
<1> QED
    BY <1>1, GitHubInvariance, PTL

(* receiveWebhook: a delivery that is RECEIVED has exactly one handler, or *)
(* was orphaned by a crash.                                                *)
THEOREM DeliveriesAreExplained == Spec => []DeliveriesExplained
<1>1. OneHandler /\ OrphansExplained => DeliveriesExplained
    BY DEF DeliveriesExplained
<1> QED
    BY <1>1, AppliedByOne, OnlyCrashesOrphan, PTL

-----------------------------------------------------------------------------
(* The status of a delivery is written by the insert, the claim, and the   *)
(* two writes that close it, each of which finds it in another status.     *)
LEMMA ProcessedStep ==
    ASSUME Inv, [Next]_vars, NEW d \in Deliveries, delivery[d] = "PROCESSED"
    PROVE  delivery'[d] = "PROCESSED"
<1> USE DEF At
<1>t. delivery \in [Deliveries -> {"NEW", "RECEIVED", "PROCESSED", "FAILED"}]
    BY DEF Inv, RowsOK
<1>1. ASSUME NEW w \in Workers, NEW c \in Deliveries, NEW e \in Event, Receive(w, c, e)
      PROVE  delivery'[d] = "PROCESSED"
    BY <1>1, <1>t DEF Receive
<1>2. ASSUME NEW w \in Workers, Claim(w) PROVE delivery'[d] = "PROCESSED"
    BY <1>2, <1>t DEF Claim, Claimable
<1>3. ASSUME NEW w \in Workers, Close(w) \/ MarkFailed(w) PROVE delivery'[d] = "PROCESSED"
    <2>1. handler[w].step \in Applying
        BY <1>3 DEF Close, MarkFailed, Applying
    <2>2. handler[w].delivery # d
        BY <2>1 DEF Inv, OneHandler, Holds
    <2> QED
        BY <1>3, <1>t, <2>2 DEF Close, MarkFailed
<1>4. ASSUME NEW w \in Workers,
             \/ AdminStep(w) \/ LinkStep(w) \/ InstallationStep(w) \/ ItemStep(w)
             \/ Throw(w) \/ Die(w)
      PROVE  delivery' = delivery
    BY <1>4 DEF AdminStep, LinkStep, InstallationStep, ItemStep, Throw, Die, ConnectStart,
                ConnectWrite, ConnectRefresh, ConnectPrune, DisconnectRead, DisconnectWrite, MapRead,
                MapWrite, LinkRead, LinkWrite, Apply, SetStatus, Deactivate, Remove, Upsert, Lookup,
                Sync, Announce, FindTask, Link, Tell
<1>5. ASSUME NEW r \in Repositories, NEW x \in Items, removeTaskLink(r, x) PROVE delivery' = delivery
    BY <1>5 DEF removeTaskLink
<1> QED
    BY <1>1, <1>2, <1>3, <1>4, <1>5 DEF Next, Step, DeliveryStep, vars

(* receiveWebhook: a delivery that was applied to the end stays PROCESSED, *)
(* so no repetition of it is applied again.                                *)
THEOREM ProcessedStays == Spec => ProcessedIsFinal
<1>1. Inv /\ [Next]_vars =>
          [\A d \in Deliveries : delivery[d] = "PROCESSED" => delivery'[d] = "PROCESSED"]_vars
    BY ProcessedStep
<1> QED
    BY <1>1, GitHubInvariance, PTL DEF Spec, ProcessedIsFinal

-----------------------------------------------------------------------------
(* Whoever is about to write the status of an installation, except to      *)
(* connect it, has read its row; and rows are not deleted.                 *)
Connected ==
    \A w \in Workers :
        /\ At(w, "setStatus") => installation[Reported(w).installation] # "ABSENT"
        /\ At(w, "disconnect") => installation[handler[w].installation] # "ABSENT"

(* A row of an installation appears when an administrator connects it.     *)
LEMMA RowsStep ==
    ASSUME Inv, Connected, [Next]_vars, NEW i \in Installations
    PROVE  /\ installation[i] # "ABSENT" => installation'[i] # "ABSENT"
           /\ installation[i] = "ABSENT" /\ installation'[i] # "ABSENT" =>
                 \E w \in Workers : At(w, "connect") /\ handler[w].installation = i
<1> USE DEF At
<1>t. installation \in [Installations -> Connection \cup {"ABSENT"}] /\ handler \in [Workers -> Handler]
    BY DEF Inv, RowsOK, TablesOK
<1>1. ASSUME NEW w \in Workers, ConnectWrite(w)
      PROVE  /\ installation[i] # "ABSENT" => installation'[i] # "ABSENT"
             /\ installation'[i] # installation[i] => At(w, "connect") /\ handler[w].installation = i
    <2>1. handler[w].status # "ABSENT"
        BY <1>1, <1>t, StepTypes DEF ConnectWrite, ConnectHandler
    <2> QED
        BY <1>1, <1>t, <2>1 DEF ConnectWrite
<1>2. ASSUME NEW w \in Workers, DisconnectWrite(w) \/ SetStatus(w), installation'[i] # installation[i]
      PROVE  installation[i] # "ABSENT" /\ installation'[i] # "ABSENT"
    <2>1. CASE SetStatus(w)
        <3>1. Reported(w) \in Event /\ Reported(w).type = "installation"
            BY <2>1 DEF SetStatus, Inv, Knows, Reported, Applying
        <3>2. Reported(w).status # "ABSENT"
            BY <3>1, EventTypes DEF Connection
        <3> QED
            BY <1>2, <1>t, <2>1, <3>2 DEF SetStatus, Connected
    <2>2. CASE DisconnectWrite(w)
        BY <1>2, <1>t, <2>2 DEF DisconnectWrite, Connected
    <2> QED
        BY <1>2, <2>1, <2>2
<1>3. ASSUME NEW w \in Workers, \/ AdminStep(w) /\ ~ConnectWrite(w) /\ ~DisconnectWrite(w)
                                \/ LinkStep(w) \/ ItemStep(w) \/ DeliveryStep(w) \/ Die(w)
                                \/ InstallationStep(w) /\ ~SetStatus(w)
      PROVE  installation' = installation
    BY <1>3 DEF AdminStep, LinkStep, InstallationStep, ItemStep, DeliveryStep, Die, ConnectStart,
                ConnectRefresh, ConnectPrune, DisconnectRead, MapRead, MapWrite, LinkRead, LinkWrite,
                Apply, Deactivate, Remove, Upsert, Lookup, Sync, Announce, FindTask, Link, Tell,
                Receive, Claim, Close, Throw, MarkFailed
<1>4. ASSUME NEW r \in Repositories, NEW x \in Items, removeTaskLink(r, x)
      PROVE  installation' = installation
    BY <1>4 DEF removeTaskLink
<1>5. CASE \E w \in Workers : ConnectWrite(w) \/ DisconnectWrite(w) \/ SetStatus(w)
    BY <1>1, <1>2, <1>5
<1>6. CASE ~\E w \in Workers : ConnectWrite(w) \/ DisconnectWrite(w) \/ SetStatus(w)
    BY <1>3, <1>4, <1>6 DEF Next, Step, vars
<1> QED
    BY <1>5, <1>6

(* What was reported with a delivery stays.                                *)
LEMMA EventStep ==
    ASSUME Inv, [Next]_vars, NEW d \in Deliveries, delivery[d] # "NEW"
    PROVE  event'[d] = event[d]
<1>1. event \in [Deliveries -> Event \cup {NoEvent}]
    BY DEF Inv, RowsOK
<1>2. ASSUME NEW w \in Workers, NEW c \in Deliveries, NEW e \in Event, Receive(w, c, e)
      PROVE  event'[d] = event[d]
    BY <1>1, <1>2 DEF Receive
<1>3. ASSUME NEW w \in Workers,
             \/ AdminStep(w) \/ LinkStep(w) \/ InstallationStep(w) \/ ItemStep(w)
             \/ Claim(w) \/ Close(w) \/ Throw(w) \/ MarkFailed(w) \/ Die(w)
      PROVE  event' = event
    BY <1>3 DEF AdminStep, LinkStep, InstallationStep, ItemStep, ConnectStart, ConnectWrite,
                ConnectRefresh, ConnectPrune, DisconnectRead, DisconnectWrite, MapRead, MapWrite,
                LinkRead, LinkWrite, Apply, SetStatus, Deactivate, Remove, Upsert, Lookup, Sync,
                Announce, FindTask, Link, Tell, Claim, Close, Throw, MarkFailed, Die
<1>4. ASSUME NEW r \in Repositories, NEW x \in Items, removeTaskLink(r, x) PROVE event' = event
    BY <1>4 DEF removeTaskLink
<1> QED
    BY <1>2, <1>3, <1>4 DEF Next, Step, DeliveryStep, vars

(* Only the step that reads a row makes a handler one that will write it.  *)
LEMMA WriterStep ==
    ASSUME Inv, [Next]_vars, NEW v \in Workers, handler'[v] # handler[v],
           handler'[v].step \in {"setStatus", "disconnect"}
    PROVE  \/ /\ Apply(v) /\ handler'[v] = [handler[v] EXCEPT !.step = "setStatus"]
              /\ Accepts(Reported(v).installation)
           \/ \E i \in Installations :
                 DisconnectRead(v, i) /\ handler'[v] = [step |-> "disconnect", installation |-> i]
<1> USE DEF At
<1>t. handler \in [Workers -> Handler]
    BY DEF Inv, RowsOK
<1>1. PICK w \in Workers :
          AdminStep(w) \/ LinkStep(w) \/ DeliveryStep(w) \/ InstallationStep(w) \/ ItemStep(w) \/ Die(w)
    BY DEF Next, Step, vars, removeTaskLink
<1>2. ASSUME NEW h, Become(w, h) PROVE v = w /\ handler'[v] = h
    BY <1>2, <1>t DEF Become
<1>3. Idle.step = "idle"
    BY DEF Idle
<1>4. ASSUME NEW s, Continue(w, s), handler[w].step \in {"connect"} \cup {"claim"} \cup Applying
      PROVE  v = w /\ handler'[v] = [handler[v] EXCEPT !.step = s] /\ handler'[v].step = s
    <2>1. v = w /\ handler'[v] = [handler[v] EXCEPT !.step = s]
        BY <1>2, <1>4 DEF Continue
    <2>2. handler[w] \in WebhookHandler \cup ConnectHandler
        BY <1>4, <1>t, StepTypes
    <2> QED
        BY <2>1, <2>2 DEF WebhookHandler, ConnectHandler
<1>5. CASE AdminStep(w) \/ LinkStep(w)
    <2>1. CASE ConnectWrite(w)
        <3>1. PICK s \in {"prune", "refresh"} : Continue(w, s)
            BY <2>1 DEF ConnectWrite
        <3>2. handler[w].step = "connect"
            BY <2>1 DEF ConnectWrite
        <3> QED
            BY <3>1, <3>2, <1>4
    <2>2. CASE ConnectRefresh(w)
        <3>1. handler[w] \in ConnectHandler
            BY <2>2, <1>t, StepTypes DEF ConnectRefresh
        <3>2. PICK r : Become(w, [handler[w] EXCEPT !.todo = @ \ {r},
                                    !.step = IF handler[w].todo = {r} THEN "prune" ELSE "refresh"])
            BY <2>2 DEF ConnectRefresh
        <3> DEFINE g == [handler[w] EXCEPT !.todo = @ \ {r},
                                    !.step = IF handler[w].todo = {r} THEN "prune" ELSE "refresh"]
        <3>3. g.step \in {"prune", "refresh"}
            BY <3>1 DEF ConnectHandler
        <3> HIDE DEF g
        <3>4. Become(w, g)
            BY <3>2 DEF g
        <3> QED
            BY <3>3, <3>4, <1>2
    <2>3. CASE ConnectPrune(w) \/ DisconnectWrite(w) \/ MapWrite(w) \/ LinkWrite(w)
        BY <2>3, <1>2, <1>3 DEF ConnectPrune, DisconnectWrite, MapWrite, LinkWrite, Finish
    <2>4. ASSUME NEW i \in Installations, NEW status \in {"ACTIVE", "SUSPENDED"},
                 NEW listed \in SUBSET Repositories, ConnectStart(w, i, status, listed)
          PROVE  FALSE
        BY <2>4, <1>2 DEF ConnectStart
    <2>5. ASSUME NEW r \in Repositories, NEW p \in Projects \cup {None}, MapRead(w, r, p) PROVE FALSE
        BY <2>5, <1>2 DEF MapRead
    <2>6. ASSUME NEW r \in Repositories, NEW x \in Items, NEW p \in Projects, LinkRead(w, r, x, p)
          PROVE  FALSE
        BY <2>6, <1>2 DEF LinkRead
    <2>7. ASSUME NEW i \in Installations, DisconnectRead(w, i)
          PROVE  DisconnectRead(v, i) /\ handler'[v] = [step |-> "disconnect", installation |-> i]
        BY <2>7, <1>2 DEF DisconnectRead
    <2> QED
        BY <1>5, <2>1, <2>2, <2>3, <2>4, <2>5, <2>6, <2>7 DEF AdminStep, LinkStep
<1>6. CASE InstallationStep(w) \/ ItemStep(w)
    <2>1. handler[w].step \in Applying /\ handler[w] \in WebhookHandler
        <3>1. handler[w].step \in Applying
            BY <1>6 DEF InstallationStep, ItemStep, Apply, SetStatus, Deactivate, Remove, Upsert,
                   Lookup, Sync, Announce, FindTask, Link, Tell, Applying
        <3> QED
            BY <3>1, <1>t, StepTypes
    <2>2. CASE Apply(w)
        <3>1. PICK s \in {"setStatus", "close", "remove", "lookup"} :
                  Continue(w, s) /\ (s = "setStatus" => Accepts(Reported(w).installation))
            <4>1. Reported(w) \in Event
                BY <2>1 DEF Inv, Knows, Reported
            <4>2. Reported(w).type \in {"installation", "repositories", "item"}
                BY <4>1, EventTypes
            <4> QED
                BY <2>2, <4>2 DEF Apply
        <3> QED
            BY <2>1, <2>2, <3>1, <1>4
    <2>3. CASE Lookup(w)
        <3> DEFINE g(p) == [handler[w] EXCEPT !.step = "sync", !.project = p]
                   c == [handler[w] EXCEPT !.step = "close"]
        <3>1. c.step = "close" /\ \A p : g(p).step = "sync"
            BY <2>1 DEF WebhookHandler
        <3>2. Become(w, c) \/ Become(w, g(repository[Reported(w).repository].project))
            BY <2>3 DEF Lookup, Continue
        <3> HIDE DEF c, g
        <3> QED
            BY <3>1, <3>2, <1>2
    <2>4. CASE SetStatus(w) \/ Remove(w) \/ Upsert(w)
        <3> DEFINE g(R) == [handler[w] EXCEPT !.todo = R, !.step = IF R = {} THEN "close" ELSE "upsert"]
                   c == [handler[w] EXCEPT !.step = "deactivate"]
        <3>1. c.step = "deactivate" /\ \A R : g(R).step \in {"close", "upsert"}
            BY <2>1 DEF WebhookHandler
        <3>2. Become(w, c) \/ \E R : Become(w, g(R))
            <4>1. ASSUME NEW R, UpsertAll(w, R) PROVE Become(w, g(R))
                BY <4>1 DEF UpsertAll
            <4> HIDE DEF g
            <4> QED
                BY <2>4, <4>1 DEF SetStatus, Remove, Upsert, Continue
        <3> HIDE DEF c, g
        <3> QED
            BY <3>1, <3>2, <1>2
    <2>5. CASE \/ Deactivate(w) \/ Sync(w) \/ Announce(w) \/ FindTask(w) \/ Link(w) \/ Tell(w)
        <3>1. PICK s \in {"close", "announce", "findTask", "link", "tell"} : Continue(w, s)
            <4>1. CASE Sync(w)
                <5>1. Reported(w) \in Event /\ Reported(w).type = "item"
                    BY <4>1, <2>1 DEF Sync, Inv, Knows, OfItem, Reported
                <5>2. Reported(w).news \in News
                    BY <5>1, EventTypes
                <5> QED
                    BY <4>1, <5>2 DEF Sync, News
            <4> QED
                BY <2>5, <4>1 DEF Deactivate, Announce, FindTask, Link, Tell
        <3> QED
            BY <2>1, <3>1, <1>4
    <2> QED
        BY <1>6, <2>2, <2>3, <2>4, <2>5 DEF InstallationStep, ItemStep
<1>7. CASE DeliveryStep(w) \/ Die(w)
    <2>1. ASSUME NEW c \in Deliveries, NEW e \in Event, Receive(w, c, e) PROVE FALSE
        BY <2>1, <1>2 DEF Receive
    <2>2. CASE Claim(w)
        <3>1. handler[w] \in WebhookHandler
            BY <2>2, <1>t, StepTypes DEF Claim
        <3>2. PICK g : Become(w, g) /\ g.step \in {"apply", "idle"}
            BY <2>2, <1>3, <3>1 DEF Claim, Finish, Continue, WebhookHandler
        <3> QED
            BY <3>2, <1>2
    <2>3. CASE Close(w) \/ MarkFailed(w) \/ Die(w)
        BY <2>3, <1>2, <1>3 DEF Close, MarkFailed, Die, Finish
    <2>4. CASE Throw(w)
        BY <2>4, <1>4 DEF Throw
    <2> QED
        BY <1>7, <2>1, <2>2, <2>3, <2>4 DEF DeliveryStep
<1> QED
    BY <1>1, <1>5, <1>6, <1>7

LEMMA ConnectedStep == ASSUME Inv, Connected, [Next]_vars PROVE Connected'
<1> USE DEF At
<1>t. handler \in [Workers -> Handler]
    BY DEF Inv, RowsOK
<1>1. ASSUME NEW v \in Workers, handler[v].step = "setStatus"
      PROVE  /\ handler[v].delivery \in Deliveries
             /\ event'[handler[v].delivery] = event[handler[v].delivery]
             /\ Reported(v).installation \in Installations
    <2>1. handler[v].delivery \in Deliveries
        BY <1>1, <1>t, StepTypes DEF Applying, WebhookHandler
    <2>2. Reported(v) \in Event /\ Reported(v).type = "installation" /\ delivery[handler[v].delivery] # "NEW"
        BY <1>1 DEF Inv, Knows, Applying, Reported
    <2> QED
        BY <2>1, <2>2, EventStep, EventTypes
<1>2. ASSUME NEW v \in Workers, handler'[v] = handler[v]
      PROVE  /\ handler'[v].step = "setStatus" => installation'[Reported(v)'.installation] # "ABSENT"
             /\ handler'[v].step = "disconnect" => installation'[handler'[v].installation] # "ABSENT"
    <2>1. CASE handler[v].step = "setStatus"
        <3>1. Reported(v)' = Reported(v)
            BY <1>1, <1>2, <2>1 DEF Reported
        <3> QED
            BY <1>1, <1>2, <2>1, <3>1, RowsStep DEF Connected
    <2>2. CASE handler[v].step = "disconnect"
        <3>1. handler[v].installation \in Installations
            BY <2>2, <1>t, StepTypes
        <3> QED
            BY <1>2, <2>2, <3>1, RowsStep DEF Connected
    <2> QED
        BY <1>2, <2>1, <2>2
<1>3. ASSUME NEW v \in Workers, handler'[v] # handler[v],
             handler'[v].step \in {"setStatus", "disconnect"}
      PROVE  /\ handler'[v].step = "setStatus" => installation'[Reported(v)'.installation] # "ABSENT"
             /\ handler'[v].step = "disconnect" => installation'[handler'[v].installation] # "ABSENT"
    <2>1. CASE /\ Apply(v) /\ handler'[v] = [handler[v] EXCEPT !.step = "setStatus"]
               /\ Accepts(Reported(v).installation)
        <3>1. handler[v] \in WebhookHandler /\ UNCHANGED <<installation, event>>
            BY <2>1, <1>t, StepTypes DEF Apply, Applying
        <3>2. handler'[v].delivery = handler[v].delivery /\ handler'[v].step = "setStatus"
            BY <2>1, <3>1 DEF WebhookHandler
        <3>3. Reported(v)' = Reported(v)
            BY <3>1, <3>2 DEF Reported
        <3> QED
            BY <2>1, <3>1, <3>2, <3>3 DEF Accepts
    <2>2. ASSUME NEW i \in Installations, DisconnectRead(v, i),
                 handler'[v] = [step |-> "disconnect", installation |-> i]
          PROVE  /\ handler'[v].step = "disconnect"
                 /\ installation'[handler'[v].installation] # "ABSENT"
        BY <2>2 DEF DisconnectRead
    <2> QED
        BY <1>3, <2>1, <2>2, WriterStep
<1> QED
    BY <1>2, <1>3 DEF Connected

(* Whatever webhooks claim, and however long one takes between its read    *)
(* and its write, the row of an installation appears only when an          *)
(* administrator connects it (connectInstallation).                        *)
THEOREM ConnectionNeedsAdmin == Spec => ConnectedByAdmin
<1>1. Init => Connected
    BY DEF Init, Connected, At, Idle
<1>2. Inv /\ Connected /\ [Next]_vars => Connected'
    BY ConnectedStep
<1>3. Inv /\ Connected /\ [Next]_vars =>
          [\A i \in Installations : installation[i] = "ABSENT" /\ installation'[i] # "ABSENT" =>
              \E w \in Workers : At(w, "connect") /\ handler[w].installation = i]_vars
    BY RowsStep
<1> QED
    BY <1>1, <1>2, <1>3, GitHubInvariance, PTL DEF Spec, ConnectedByAdmin
-----------------------------------------------------------------------------
(* A handler at work for a disconnected installation was overtaken.        *)
Current ==
    \A w \in Workers :
        AtWork(w) /\ installation[WorksFor(w)] = "DISCONNECTED" => w \in overtaken

(* Whom a handler works for, and that it is an installation.               *)
LEMMA WorkTypes ==
    ASSUME Inv, NEW w \in Workers, AtWork(w)
    PROVE  /\ WorksFor(w) \in Installations
           /\ ~At(w, "refresh") => /\ handler[w] \in WebhookHandler
                                  /\ Reported(w) \in Event
                                  /\ delivery[handler[w].delivery] # "NEW"
                                  /\ handler[w].delivery \in Deliveries
           /\ At(w, "refresh") => handler[w] \in ConnectHandler
<1> USE DEF At
<1>t. handler[w] \in Handler
    BY DEF Inv, RowsOK
<1>1. CASE At(w, "refresh")
    BY <1>1, <1>t, StepTypes DEF WorksFor, ConnectHandler
<1>2. CASE ~At(w, "refresh")
    <2>1. handler[w].step \in {"setStatus", "remove", "upsert"}
        BY <1>2 DEF AtWork
    <2>2. handler[w] \in WebhookHandler /\ handler[w].delivery \in Deliveries
        BY <2>1, <1>t, StepTypes DEF Applying, WebhookHandler
    <2>3. /\ Reported(w) \in Event /\ delivery[handler[w].delivery] # "NEW"
          /\ Reported(w).type \in {"installation", "repositories"}
        <3>1. Knows(handler[w])
            BY DEF Inv
        <3>2. Reported(w) \in Event /\ delivery[handler[w].delivery] # "NEW" /\ Reported(w).type # "item"
            BY <2>1, <3>1 DEF Knows, Reported, Applying
        <3> QED
            BY <3>2, EventTypes
    <2>4. WorksFor(w) = Reported(w).installation
        BY <1>2 DEF WorksFor
    <2> QED
        BY <1>2, <2>2, <2>3, <2>4, EventTypes
<1> QED
    BY <1>1, <1>2

(* Who comes to work has just read the row as connected, or is about to    *)
(* connect it; who stays at work stays with the same installation.         *)
LEMMA WorkStep ==
    ASSUME GitHubAssumption, Inv, Step, NEW v \in Workers, handler'[v] # handler[v], AtWork(v)'
    PROVE  \/ /\ Apply(v) /\ ~AtWork(v) /\ installation[Reported(v).installation] # "DISCONNECTED"
              /\ ~At(v, "refresh")' /\ handler'[v].delivery = handler[v].delivery
           \/ /\ ConnectWrite(v) /\ ~AtWork(v) /\ At(v, "refresh")'
              /\ handler'[v].installation = handler[v].installation
           \/ /\ At(v, "refresh") /\ At(v, "refresh")'
              /\ handler'[v].installation = handler[v].installation
           \/ /\ AtWork(v) /\ ~At(v, "refresh") /\ ~At(v, "refresh")'
              /\ handler'[v].delivery = handler[v].delivery
<1> USE DEF At
<1>t. handler \in [Workers -> Handler]
    BY DEF Inv, RowsOK
<1>1. PICK w \in Workers :
          AdminStep(w) \/ LinkStep(w) \/ DeliveryStep(w) \/ InstallationStep(w) \/ ItemStep(w) \/ Die(w)
    BY DEF Step, removeTaskLink
<1>2. ASSUME NEW h, Become(w, h) PROVE v = w /\ handler'[v] = h
    BY <1>2, <1>t DEF Become
<1>3. Idle.step = "idle"
    BY DEF Idle
<1>w. handler'[v].step \in {"setStatus", "remove", "upsert", "refresh"}
    BY DEF AtWork
<1>4. ASSUME NEW s, Continue(w, s), handler[w] \in WebhookHandler \cup ConnectHandler
      PROVE  /\ v = w /\ handler'[v].step = s
             /\ handler[w] \in WebhookHandler => handler'[v].delivery = handler[v].delivery
             /\ handler[w] \in ConnectHandler => handler'[v].installation = handler[v].installation
    <2>1. v = w /\ handler'[v] = [handler[v] EXCEPT !.step = s]
        BY <1>2, <1>4 DEF Continue
    <2> QED
        BY <2>1, <1>4 DEF WebhookHandler, ConnectHandler
<1>5. CASE AdminStep(w) \/ LinkStep(w)
    <2>1. CASE ConnectWrite(w)
        <3>1. PICK s \in {"prune", "refresh"} : Continue(w, s)
            BY <2>1 DEF ConnectWrite
        <3>2. handler[w].step = "connect" /\ handler[w] \in ConnectHandler
            <4>1. handler[w].step = "connect"
                BY <2>1 DEF ConnectWrite
            <4> QED
                BY <4>1, <1>t, StepTypes
        <3>3. v = w /\ handler'[v].step = s /\ handler'[v].installation = handler[v].installation
            BY <1>4, <3>1, <3>2
        <3> QED
            BY <1>w, <2>1, <3>2, <3>3 DEF AtWork
    <2>2. CASE ConnectRefresh(w)
        <3>1. handler[w] \in ConnectHandler /\ handler[w].step = "refresh"
            <4>1. handler[w].step = "refresh"
                BY <2>2 DEF ConnectRefresh
            <4> QED
                BY <4>1, <1>t, StepTypes
        <3> DEFINE g(r) == [handler[w] EXCEPT !.todo = @ \ {r},
                                    !.step = IF handler[w].todo = {r} THEN "prune" ELSE "refresh"]
        <3>2. \E r : Become(w, g(r))
            BY <2>2 DEF ConnectRefresh
        <3>3. \A r : g(r).step \in {"prune", "refresh"} /\ g(r).installation = handler[w].installation
            BY <3>1 DEF ConnectHandler
        <3> HIDE DEF g
        <3>4. v = w /\ handler'[v].step \in {"prune", "refresh"}
              /\ handler'[v].installation = handler[v].installation
            BY <3>2, <3>3, <1>2
        <3> QED
            BY <1>w, <3>1, <3>4
    <2>3. CASE ConnectPrune(w) \/ DisconnectWrite(w) \/ MapWrite(w) \/ LinkWrite(w)
        BY <2>3, <1>w, <1>2, <1>3 DEF ConnectPrune, DisconnectWrite, MapWrite, LinkWrite, Finish
    <2>4. ASSUME NEW i \in Installations, NEW status \in {"ACTIVE", "SUSPENDED"},
                 NEW listed \in SUBSET Repositories, ConnectStart(w, i, status, listed)
          PROVE  FALSE
        BY <2>4, <1>w, <1>2 DEF ConnectStart
    <2>5. ASSUME NEW r \in Repositories, NEW p \in Projects \cup {None}, MapRead(w, r, p) PROVE FALSE
        BY <2>5, <1>w, <1>2 DEF MapRead
    <2>6. ASSUME NEW r \in Repositories, NEW x \in Items, NEW p \in Projects, LinkRead(w, r, x, p)
          PROVE  FALSE
        BY <2>6, <1>w, <1>2 DEF LinkRead
    <2>7. ASSUME NEW i \in Installations, DisconnectRead(w, i) PROVE FALSE
        BY <2>7, <1>w, <1>2 DEF DisconnectRead
    <2> QED
        BY <1>5, <2>1, <2>2, <2>3, <2>4, <2>5, <2>6, <2>7 DEF AdminStep, LinkStep
<1>6. CASE InstallationStep(w) \/ ItemStep(w)
    <2>1. handler[w].step \in Applying /\ handler[w] \in WebhookHandler
        <3>1. handler[w].step \in Applying
            BY <1>6 DEF InstallationStep, ItemStep, Apply, SetStatus, Deactivate, Remove, Upsert,
                   Lookup, Sync, Announce, FindTask, Link, Tell, Applying
        <3> QED
            BY <3>1, <1>t, StepTypes
    <2>2. CASE Apply(w)
        <3>1. PICK s \in {"setStatus", "close", "remove", "lookup"} :
                  /\ Continue(w, s)
                  /\ s \in {"setStatus", "remove"} => installation[Reported(w).installation] # "DISCONNECTED"
            <4>1. Reported(w) \in Event
                BY <2>1 DEF Inv, Knows, Reported
            <4>2. Reported(w).type \in {"installation", "repositories", "item"}
                BY <4>1, EventTypes
            <4> QED
                BY <2>2, <4>2 DEF Apply, Accepts
        <3>2. v = w /\ handler'[v].step = s /\ handler'[v].delivery = handler[v].delivery
            BY <1>4, <2>1, <3>1
        <3>3. s \in {"setStatus", "remove"}
            BY <1>w, <3>2
        <3> QED
            BY <2>2, <3>1, <3>2, <3>3 DEF Apply, AtWork
    <2>3. CASE Lookup(w)
        <3> DEFINE g(p) == [handler[w] EXCEPT !.step = "sync", !.project = p]
                   c == [handler[w] EXCEPT !.step = "close"]
        <3>1. c.step = "close" /\ \A p : g(p).step = "sync"
            BY <2>1 DEF WebhookHandler
        <3>2. Become(w, c) \/ Become(w, g(repository[Reported(w).repository].project))
            BY <2>3 DEF Lookup, Continue
        <3> HIDE DEF c, g
        <3> QED
            BY <3>1, <3>2, <1>w, <1>2
    <2>4. CASE SetStatus(w) \/ Remove(w) \/ Upsert(w)
        <3> DEFINE g(R) == [handler[w] EXCEPT !.todo = R, !.step = IF R = {} THEN "close" ELSE "upsert"]
                   c == [handler[w] EXCEPT !.step = "deactivate"]
        <3>1. c.step = "deactivate" /\ \A R : g(R).step \in {"close", "upsert"} /\ g(R).delivery = handler[w].delivery
            BY <2>1 DEF WebhookHandler
        <3>2. Become(w, c) \/ \E R : Become(w, g(R))
            <4>1. ASSUME NEW R, UpsertAll(w, R) PROVE Become(w, g(R))
                BY <4>1 DEF UpsertAll
            <4> HIDE DEF g
            <4> QED
                BY <2>4, <4>1 DEF SetStatus, Remove, Upsert, Continue
        <3> HIDE DEF c, g
        <3>3. v = w /\ handler'[v].step = "upsert" /\ handler'[v].delivery = handler[v].delivery
            BY <3>1, <3>2, <1>w, <1>2
        <3>4. AtWork(w) /\ handler[w].step # "refresh"
            BY <2>4 DEF SetStatus, Remove, Upsert, AtWork
        <3> QED
            BY <3>3, <3>4
    <2>5. CASE \/ Deactivate(w) \/ Sync(w) \/ Announce(w) \/ FindTask(w) \/ Link(w) \/ Tell(w)
        <3>1. PICK s \in {"close", "announce", "findTask", "link", "tell"} : Continue(w, s)
            <4>1. CASE Sync(w)
                <5>1. Reported(w) \in Event /\ Reported(w).type = "item"
                    BY <4>1, <2>1 DEF Sync, Inv, Knows, OfItem, Reported
                <5>2. Reported(w).news \in News
                    BY <5>1, EventTypes
                <5> QED
                    BY <4>1, <5>2 DEF Sync, News
            <4> QED
                BY <2>5, <4>1 DEF Deactivate, Announce, FindTask, Link, Tell
        <3> QED
            BY <2>1, <3>1, <1>w, <1>4
    <2> QED
        BY <1>6, <2>2, <2>3, <2>4, <2>5 DEF InstallationStep, ItemStep
<1>7. CASE DeliveryStep(w) \/ Die(w)
    <2>1. ASSUME NEW c \in Deliveries, NEW e \in Event, Receive(w, c, e) PROVE FALSE
        BY <2>1, <1>w, <1>2 DEF Receive
    <2>2. CASE Claim(w)
        <3>1. handler[w] \in WebhookHandler
            BY <2>2, <1>t, StepTypes DEF Claim
        <3>2. PICK g : Become(w, g) /\ g.step \in {"apply", "idle"}
            BY <2>2, <1>3, <3>1 DEF Claim, Finish, Continue, WebhookHandler
        <3> QED
            BY <3>2, <1>w, <1>2
    <2>3. CASE Close(w) \/ MarkFailed(w) \/ Die(w)
        BY <2>3, <1>w, <1>2, <1>3 DEF Close, MarkFailed, Die, Finish
    <2>4. CASE Throw(w)
        <3>1. handler[w] \in WebhookHandler
            BY <2>4, <1>t, StepTypes DEF Throw
        <3> QED
            BY <2>4, <3>1, <1>w, <1>4 DEF Throw
    <2> QED
        BY <1>7, <2>1, <2>2, <2>3, <2>4 DEF DeliveryStep
<1> QED
    BY <1>1, <1>5, <1>6, <1>7

LEMMA CurrentStep == ASSUME GitHubAssumption, Inv, Current, [Next]_vars PROVE Current'
<1> USE DEF At
<1>1. CASE UNCHANGED vars
    BY <1>1 DEF vars, Current, AtWork, WorksFor, Reported
<1>2. CASE Next
    <2> SUFFICES ASSUME NEW v \in Workers, AtWork(v)', installation'[WorksFor(v)'] = "DISCONNECTED"
                 PROVE  v \in overtaken'
        BY DEF Current
    <2>1. Step /\ overtaken' = {w \in Workers : AtWork(w) /\ AtWork(w)'
                                             /\ (w \in overtaken \/ Disconnected(WorksFor(w)))}
        BY <1>2 DEF Next
    (* Who was at work already works for the same installation.            *)
    <2>2. ASSUME AtWork(v), WorksFor(v)' = WorksFor(v) PROVE v \in overtaken'
        BY <2>1, <2>2 DEF Current, Disconnected
    <2>3. ASSUME NEW h \in WebhookHandler, h = handler[v], handler'[v].delivery = h.delivery,
                 delivery[h.delivery] # "NEW"
          PROVE  Reported(v)' = Reported(v)
        <3>1. h.delivery \in Deliveries
            BY DEF WebhookHandler
        <3>2. event'[h.delivery] = event[h.delivery]
            BY <2>3, <3>1, EventStep
        <3> QED
            BY <2>3, <3>2 DEF Reported
    <2>4. CASE handler'[v] = handler[v]
        <3>1. AtWork(v)
            BY <2>4 DEF AtWork
        <3>2. ~At(v, "refresh") => Reported(v)' = Reported(v)
            BY <2>3, <2>4, <3>1, WorkTypes
        <3>3. WorksFor(v)' = WorksFor(v)
            BY <2>4, <3>2 DEF WorksFor
        <3> QED
            BY <2>2, <3>1, <3>3
    <2>5. CASE handler'[v] # handler[v]
        <3>1. CASE /\ Apply(v) /\ ~AtWork(v) /\ installation[Reported(v).installation] # "DISCONNECTED"
                   /\ ~At(v, "refresh")' /\ handler'[v].delivery = handler[v].delivery
            <4>1. UNCHANGED <<installation, event>>
                BY <3>1 DEF Apply
            <4>2. WorksFor(v)' = Reported(v).installation
                BY <3>1, <4>1 DEF WorksFor, Reported
            <4> QED
                BY <3>1, <4>1, <4>2
        <3>2. CASE /\ ConnectWrite(v) /\ ~AtWork(v) /\ At(v, "refresh")'
                   /\ handler'[v].installation = handler[v].installation
            <4>1. WorksFor(v)' = handler[v].installation
                BY <3>2 DEF WorksFor
            <4>2. handler[v].status # "DISCONNECTED" /\ handler[v].installation \in Installations
                BY <3>2, StepTypes DEF ConnectWrite, ConnectHandler, Inv, RowsOK
            <4>3. installation'[handler[v].installation] = handler[v].status
                BY <3>2, <4>2 DEF ConnectWrite, Inv, RowsOK, TablesOK
            <4> QED
                BY <4>1, <4>2, <4>3
        <3>3. CASE /\ At(v, "refresh") /\ At(v, "refresh")'
                   /\ handler'[v].installation = handler[v].installation
            BY <2>2, <3>3 DEF AtWork, WorksFor
        <3>4. CASE /\ AtWork(v) /\ ~At(v, "refresh") /\ ~At(v, "refresh")'
                   /\ handler'[v].delivery = handler[v].delivery
            <4>1. Reported(v)' = Reported(v)
                BY <2>3, <3>4, WorkTypes
            <4> QED
                BY <2>2, <3>4, <4>1 DEF WorksFor
        <3> QED
            BY <2>1, <2>5, <3>1, <3>2, <3>3, <3>4, WorkStep
    <2> QED
        BY <2>4, <2>5
<1> QED
    BY <1>1, <1>2

Revived(i) ==
    \/ installation'[i] # "DISCONNECTED"
    \/ \E r \in Repositories :
          /\ repository'[r].installation = i /\ repository'[r].active
          /\ ~(repository[r].installation = i /\ repository[r].active)

(* Four writes can bring an installation or a repository back to life.     *)
LEMMA ReviveStep ==
    ASSUME Inv, Current, [Next]_vars, NEW i \in Installations,
           installation[i] = "DISCONNECTED", Revived(i)
    PROVE  \E w \in Workers :
              \/ At(w, "connect") /\ handler[w].installation = i
              \/ w \in overtaken /\ WorksFor(w) = i
<1> USE DEF At
<1>t. /\ installation \in [Installations -> Connection \cup {"ABSENT"}]
      /\ repository \in [Repositories -> RepositoryRow]
      /\ handler \in [Workers -> Handler]
    BY DEF Inv, RowsOK, TablesOK
<1>u. ~UNCHANGED <<installation, repository>>
    BY DEF Revived
<1>1. ASSUME NEW j, NEW r \in Repositories, UNCHANGED installation, repository' = Upserted(r, j)
      PROVE  i = j
    BY <1>t, <1>1 DEF Revived, Upserted, RepositoryRow
<1>2. ASSUME NEW j, NEW R, repository' = Deactivated(j, R), installation'[i] = "DISCONNECTED"
      PROVE  FALSE
    BY <1>t, <1>2 DEF Revived, Deactivated, RepositoryRow
<1>3. ASSUME NEW w \in Workers, AtWork(w), WorksFor(w) = i PROVE w \in overtaken
    BY <1>3 DEF Current
<1>4. ASSUME NEW w \in Workers, ConnectWrite(w) PROVE At(w, "connect") /\ handler[w].installation = i
    BY <1>4, <1>t DEF ConnectWrite, Revived
<1>5. ASSUME NEW w \in Workers, ConnectRefresh(w) PROVE w \in overtaken /\ WorksFor(w) = i
    <2>1. handler[w].step = "refresh"
        BY <1>5 DEF ConnectRefresh
    <2>2. handler[w] \in ConnectHandler
        BY <2>1, <1>t, StepTypes
    <2>3. PICK r \in handler[w].todo :
             repository' = Upserted(r, handler[w].installation) /\ UNCHANGED installation
        BY <1>5 DEF ConnectRefresh
    <2>4. r \in Repositories
        BY <2>2, <2>3 DEF ConnectHandler
    <2>5. i = handler[w].installation
        BY <1>1, <2>3, <2>4
    <2>6. AtWork(w) /\ WorksFor(w) = i
        BY <2>1, <2>5 DEF AtWork, WorksFor
    <2> QED
        BY <1>3, <2>6
<1>6. ASSUME NEW w \in Workers, SetStatus(w) PROVE w \in overtaken /\ WorksFor(w) = i
    <2>1. handler[w].step = "setStatus"
        BY <1>6 DEF SetStatus
    <2>2. i = Reported(w).installation
        BY <1>6, <1>t DEF SetStatus, Revived
    <2>3. AtWork(w) /\ WorksFor(w) = i
        BY <2>1, <2>2 DEF AtWork, WorksFor
    <2> QED
        BY <1>3, <2>3
<1>7. ASSUME NEW w \in Workers, Upsert(w) PROVE w \in overtaken /\ WorksFor(w) = i
    <2>1. handler[w].step = "upsert"
        BY <1>7 DEF Upsert
    <2>2. handler[w] \in WebhookHandler
        BY <2>1, <1>t, StepTypes DEF Applying
    <2>3. PICK r \in handler[w].todo :
             repository' = Upserted(r, Reported(w).installation) /\ UNCHANGED installation
        BY <1>7 DEF Upsert
    <2>4. r \in Repositories
        BY <2>2, <2>3 DEF WebhookHandler
    <2>5. i = Reported(w).installation
        BY <1>1, <2>3, <2>4
    <2>6. AtWork(w) /\ WorksFor(w) = i
        BY <2>1, <2>5 DEF AtWork, WorksFor
    <2> QED
        BY <1>3, <2>6
<1>8. ASSUME NEW w \in Workers, ConnectPrune(w) \/ Deactivate(w) \/ Remove(w) PROVE FALSE
    BY <1>2, <1>8 DEF ConnectPrune, Deactivate, Remove
<1>9. ASSUME NEW w \in Workers, DisconnectWrite(w) PROVE FALSE
    <2>1. installation'[i] = "DISCONNECTED" /\ repository' = Deactivated(handler[w].installation, Repositories)
        BY <1>9, <1>t DEF DisconnectWrite
    <2> QED
        BY <1>2, <2>1
<1>10. ASSUME NEW w \in Workers, MapWrite(w) PROVE FALSE
    BY <1>10, <1>t DEF MapWrite, Revived, RepositoryRow
<1>11. ASSUME NEW w \in Workers,
              \/ AdminStep(w) /\ ~ConnectWrite(w) /\ ~ConnectRefresh(w) /\ ~ConnectPrune(w)
                 /\ ~DisconnectWrite(w) /\ ~MapWrite(w)
              \/ LinkStep(w) \/ ItemStep(w) \/ DeliveryStep(w) \/ Die(w)
              \/ Apply(w)
       PROVE  UNCHANGED <<installation, repository>>
    BY <1>11 DEF AdminStep, LinkStep, ItemStep, DeliveryStep, Die, ConnectStart, DisconnectRead,
                 MapRead, LinkRead, LinkWrite, Apply, Lookup, Sync, Announce, FindTask, Link, Tell,
                 Receive, Claim, Close, Throw, MarkFailed
<1>12. ASSUME NEW r \in Repositories, NEW x \in Items, removeTaskLink(r, x)
       PROVE  UNCHANGED <<installation, repository>>
    BY <1>12 DEF removeTaskLink
<1>13. PICK w \in Workers : AdminStep(w) \/ LinkStep(w) \/ DeliveryStep(w) \/ InstallationStep(w)
                             \/ ItemStep(w) \/ Die(w)
    BY <1>u, <1>12 DEF Next, Step, vars
<1> QED
    BY <1>u, <1>4, <1>5, <1>6, <1>7, <1>8, <1>9, <1>10, <1>11, <1>13 DEF InstallationStep

(* disconnectInstallation, "a subsequent verified webhook must not         *)
(* reactivate it": what comes back after a disconnect is connected again   *)
(* by an administrator, or was being worked on when it was disconnected.   *)
THEOREM DisconnectsHold == Spec => StaysDisconnected
<1>1. Init => Current
    BY DEF Init, Current, AtWork, Idle
<1>2. Inv /\ Current /\ [Next]_vars => Current'
    BY CurrentStep, GitHubAssumption
<1>3. Inv /\ Current /\ [Next]_vars =>
          [\A i \in Installations : installation[i] = "DISCONNECTED" =>
              \/ /\ installation'[i] = "DISCONNECTED"
                 /\ \A r \in Repositories :
                       repository'[r].installation = i /\ repository'[r].active =>
                          repository[r].installation = i /\ repository[r].active
              \/ \E w \in Workers :
                    \/ At(w, "connect") /\ handler[w].installation = i
                    \/ w \in overtaken /\ WorksFor(w) = i]_vars
    BY ReviveStep DEF Revived
<1> QED
    BY <1>1, <1>2, <1>3, GitHubInvariance, PTL DEF Spec, StaysDisconnected

(* receiveWebhook, disconnectInstallation: a processed delivery and a      *)
(* disconnected installation stay what they are, at any concurrency.       *)
THEOREM EndsAreKept == Spec => EndsHold
BY ProcessedStays, DisconnectsHold DEF EndsHold
=============================================================================
