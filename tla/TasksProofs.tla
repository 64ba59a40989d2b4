---------------------------- MODULE TasksProofs ----------------------------
(***************************************************************************)
(* Proofs about Tasks for every set of tasks and users.                    *)
(*                                                                         *)
(* However many calls are in flight, a proposal is approved by a manager   *)
(* who is not its author: who wrote it and that it needs review never      *)
(* change, so what reviewEngineeringTask checked still holds when it       *)
(* writes (ReviewInv).                                                     *)
(*                                                                         *)
(* That work is approved and completed work is verified is proved for      *)
(* calls that overlap, as long as none is overtaken on its task: then what *)
(* a call read is still so when it writes (FreshCall).  A call at a time   *)
(* is the special case; without the assumption it is false.                *)
(*                                                                         *)
(* The first part is about the graph of dependencies alone: as long as no  *)
(* edge is added between the search and the write of another call, no      *)
(* chain of prerequisites comes back to its start, for any number of       *)
(* tasks.  "b is not reached from a" has a witness: a set closed under the *)
(* edges that holds a and not b.  Each step says how the witnesses carry   *)
(* over.                                                                   *)
(*                                                                         *)
(* The last parts: what the gates of updateTask have seen is still so when *)
(* the status is written, if it is left alone in between (GatesInv); the   *)
(* status that a page has of a proposal is one that the proposal had, from *)
(* which the table of transitions leads to the present one (PagesInv); and *)
(* a page offers somebody the next step of every proposal (AuthorInv).     *)
(***************************************************************************)
EXTENDS TaskScreens, TLAPS

-----------------------------------------------------------------------------
(* -- The graph of dependencies ------------------------------------------ *)

GraphInv == GraphTypeOK /\ Acyclic /\ CheckedEdgeSafe

(* A witness restricted to tasks that exist survives the insertion of a    *)
(* task that does not.                                                     *)
LEMMA InsertKeepsApart ==
    ASSUME NEW known \in SUBSET Tasks, NEW edges \in SUBSET (known \X known),
           NEW t \in Tasks \ known, NEW D \in SUBSET known,
           NEW a \in known, NEW b \in known, ~Reaches(a, b, edges)
    PROVE  ~Reaches(a, b, edges \cup ({t} \X D))
<1>1. PICK S \in SUBSET Tasks : a \in S /\ Closed(S, edges) /\ b \notin S  BY DEF Reaches
<1>2. S \cap known \in SUBSET Tasks  OBVIOUS
<1>3. Closed(S \cap known, edges \cup ({t} \X D))
  <2>1. SUFFICES ASSUME NEW e \in edges \cup ({t} \X D), e[1] \in S \cap known
                 PROVE  e[2] \in S \cap known
        BY DEF Closed
  <2>2. e \in edges  BY <2>1
  <2> QED  BY <1>1, <2>1, <2>2 DEF Closed
<1> QED  BY <1>1, <1>2, <1>3 DEF Reaches

(* The edges of a new task close no cycle: nothing leads to it.            *)
LEMMA InsertIsFresh ==
    ASSUME NEW known \in SUBSET Tasks, NEW edges \in SUBSET (known \X known),
           NEW t \in Tasks \ known, NEW D \in SUBSET known, NEW d \in D
    PROVE  ~Reaches(d, t, edges \cup ({t} \X D))
<1>1. Closed(known, edges \cup ({t} \X D))  BY DEF Closed
<1> QED  BY <1>1 DEF Reaches

(* An edge <<t, d>> with no path from d to t leaves every edge off a cycle.*)
LEMMA EdgeKeepsApart ==
    ASSUME NEW edges \in SUBSET (Tasks \X Tasks), NEW t \in Tasks, NEW d \in Tasks,
           ~Reaches(d, t, edges),
           NEW a \in Tasks, NEW b \in Tasks, <<a, b>> \in edges, ~Reaches(b, a, edges)
    PROVE  ~Reaches(b, a, edges \cup {<<t, d>>})
<1> DEFINE more == edges \cup {<<t, d>>}
<1>1. PICK S \in SUBSET Tasks : d \in S /\ Closed(S, edges) /\ t \notin S  BY DEF Reaches
<1>2. PICK R \in SUBSET Tasks : b \in R /\ Closed(R, edges) /\ a \notin R  BY DEF Reaches
<1>3. CASE t \notin R
  <2>1. Closed(R, more)  BY <1>2, <1>3 DEF Closed
  <2> QED  BY <1>2, <2>1 DEF Reaches
<1>4. CASE t \in R /\ a \notin S
  <2>1. Closed(R \cup S, more)  BY <1>1, <1>2 DEF Closed
  <2>2. b \in R \cup S /\ a \notin R \cup S /\ R \cup S \in SUBSET Tasks  BY <1>2, <1>4
  <2> HIDE DEF more
  <2> QED  BY <2>1, <2>2 DEF Reaches, more
<1>5. CASE a \in S
  <2>1. b \in S  BY <1>1, <1>5 DEF Closed
  <2>2. Closed(S \cap R, more)  BY <1>1, <1>2 DEF Closed
  <2>3. b \in S \cap R /\ a \notin S \cap R /\ S \cap R \in SUBSET Tasks  BY <1>2, <2>1
  <2> QED  BY <2>2, <2>3 DEF Reaches
<1> QED  BY <1>3, <1>4, <1>5

LEMMA EdgeIsSafe ==
    ASSUME NEW edges \in SUBSET (Tasks \X Tasks), NEW t \in Tasks, NEW d \in Tasks,
           ~Reaches(d, t, edges)
    PROVE  ~Reaches(d, t, edges \cup {<<t, d>>})
<1>1. PICK S \in SUBSET Tasks : d \in S /\ Closed(S, edges) /\ t \notin S  BY DEF Reaches
<1>2. Closed(S, edges \cup {<<t, d>>})  BY <1>1 DEF Closed
<1> QED  BY <1>1, <1>2 DEF Reaches

(* Fewer edges reach less.                                                 *)
LEMMA FewerReachLess ==
    ASSUME NEW edges, NEW fewer \in SUBSET edges, NEW a, NEW b, ~Reaches(a, b, edges)
    PROVE  ~Reaches(a, b, fewer)
BY DEF Reaches, Closed

-----------------------------------------------------------------------------
LEMMA GraphInitInv == GraphInit => GraphInv
BY DEF GraphInit, GraphInv, GraphTypeOK, Acyclic, CheckedEdgeSafe

(* The type part needs no assumption on the workers.                       *)
LEMMA GraphTypeStep == GraphTypeOK /\ [GraphNext]_graphVars => GraphTypeOK'
<1> SUFFICES ASSUME GraphTypeOK, [GraphNext]_graphVars PROVE GraphTypeOK'  OBVIOUS
<1> USE DEF GraphTypeOK
<1>1. ASSUME NEW t \in Tasks, NEW D \in SUBSET Tasks, Insert(t, D) PROVE GraphTypeOK'
  <2>1. D \subseteq created  BY <1>1 DEF Insert, Live
  <2> QED  BY <1>1, <2>1 DEF Insert
<1>2. ASSUME NEW t \in Tasks, SoftDelete(t) PROVE GraphTypeOK'
  BY <1>2 DEF SoftDelete, Live
<1>3. ASSUME NEW w \in Workers, NEW t \in Tasks, NEW d \in Tasks, DependencyRead(w, t, d)
      PROVE  GraphTypeOK'
  BY <1>3 DEF DependencyRead, Live
<1>4. ASSUME NEW w \in Workers, DependencyWrite(w) PROVE GraphTypeOK'
  BY <1>4 DEF DependencyWrite
<1>5. ASSUME NEW w \in Workers, DependencyAbort(w) PROVE GraphTypeOK'
  BY <1>5 DEF DependencyAbort
<1>6. ASSUME NEW t \in Tasks, NEW d \in Tasks, removeTaskDependency(t, d) PROVE GraphTypeOK'
  BY <1>6 DEF removeTaskDependency
<1>7. CASE UNCHANGED graphVars
  BY <1>7 DEF graphVars
<1> QED
  BY <1>1, <1>2, <1>3, <1>4, <1>5, <1>6, <1>7 DEF GraphNext, DependencyStep

LEMMA GraphStepInv ==
    ASSUME GraphInv, [GraphNext]_graphVars, [EdgesAlone]_graphVars
    PROVE  GraphInv'
<1> USE DEF GraphInv
<1>t. GraphTypeOK'  BY GraphTypeStep
<1>e. \A e \in needs : e = <<e[1], e[2]>> /\ e[1] \in created /\ e[2] \in created /\ e[1] \in Tasks /\ e[2] \in Tasks
  BY DEF GraphTypeOK
<1>a. \A w \in Workers : adding[w] # NoEdge =>
          /\ adding[w] = <<adding[w][1], adding[w][2]>>
          /\ adding[w][1] \in created /\ adding[w][2] \in created
          /\ adding[w][1] \in Tasks /\ adding[w][2] \in Tasks
  BY DEF GraphTypeOK
<1>1. ASSUME NEW t \in Tasks, NEW D \in SUBSET Tasks, Insert(t, D)
      PROVE  (Acyclic /\ CheckedEdgeSafe)'
  <2> DEFINE more == needs \cup ({t} \X D)
  <2>1. /\ created \in SUBSET Tasks /\ needs \in SUBSET (created \X created)
        /\ t \in Tasks \ created /\ D \in SUBSET created
        /\ needs' = more /\ adding' = adding
    BY <1>1 DEF Insert, Live, GraphTypeOK
  <2>2. ASSUME NEW a \in created, NEW b \in created, ~Reaches(a, b, needs)
        PROVE  ~Reaches(a, b, more)
    BY <2>1, <2>2, InsertKeepsApart
  <2>3. ASSUME NEW d \in D PROVE ~Reaches(d, t, more)
    BY <2>1, InsertIsFresh
  <2> HIDE DEF more
  <2>4. Acyclic'
    <3>1. SUFFICES ASSUME NEW e \in more PROVE ~Reaches(e[2], e[1], more)
          BY <2>1 DEF Acyclic
    <3>2. CASE e \in needs  BY <1>e, <2>2, <3>2 DEF Acyclic
    <3>3. CASE e \in {t} \X D  BY <2>3, <3>3
    <3> QED  BY <3>1, <3>2, <3>3 DEF more
  <2>5. CheckedEdgeSafe'
    BY <1>a, <2>1, <2>2 DEF CheckedEdgeSafe
  <2> QED  BY <2>4, <2>5
<1>2. ASSUME NEW t \in Tasks, SoftDelete(t) PROVE (Acyclic /\ CheckedEdgeSafe)'
  BY <1>2 DEF SoftDelete, Acyclic, CheckedEdgeSafe
<1>3. ASSUME NEW w \in Workers, NEW t \in Tasks, NEW d \in Tasks, DependencyRead(w, t, d)
      PROVE  (Acyclic /\ CheckedEdgeSafe)'
  <2>1. Acyclic'  BY <1>3 DEF DependencyRead, Acyclic
  <2>2. \A v \in Workers : adding'[v] = IF v = w THEN <<t, d>> ELSE adding[v]
    BY <1>3 DEF DependencyRead, GraphTypeOK
  <2>3. CheckedEdgeSafe'
    BY <1>3, <2>2 DEF DependencyRead, WouldCycle, CheckedEdgeSafe
  <2> QED  BY <2>1, <2>3
<1>4. ASSUME NEW w \in Workers, DependencyWrite(w) PROVE (Acyclic /\ CheckedEdgeSafe)'
  <2> DEFINE t == adding[w][1]
             d == adding[w][2]
  <2>1. /\ adding[w] = <<t, d>> /\ t \in Tasks /\ d \in Tasks
        /\ needs \in SUBSET (Tasks \X Tasks)
        /\ needs' = needs \cup {<<t, d>>}
        /\ ~Reaches(d, t, needs)
    BY <1>4, <1>a DEF DependencyWrite, CheckedEdgeSafe, GraphTypeOK
  <2> HIDE DEF t, d
  <2>2. Acyclic'
    <3>1. SUFFICES ASSUME NEW e \in needs' PROVE ~Reaches(e[2], e[1], needs')
          BY DEF Acyclic
    <3>2. CASE e \in needs
      <4>1. e[1] \in Tasks /\ e[2] \in Tasks /\ <<e[1], e[2]>> \in needs /\ ~Reaches(e[2], e[1], needs)
        BY <1>e, <3>2 DEF Acyclic
      <4> QED  BY <2>1, <4>1, EdgeKeepsApart
    <3>3. CASE e = <<t, d>>
      BY <2>1, <3>3, EdgeIsSafe
    <3> QED  BY <2>1, <3>1, <3>2, <3>3
  <2>3. CheckedEdgeSafe'
    <3>1. CASE <<t, d>> \in needs
      <4>1. needs' = needs  BY <2>1, <3>1
      <4> QED  BY <1>4, <4>1 DEF DependencyWrite, CheckedEdgeSafe, GraphTypeOK
    <3>2. CASE <<t, d>> \notin needs
      <4>1. t \in created  BY <1>4, <1>a DEF DependencyWrite, t
      <4>2. <<t, d>> \in needs' \ needs /\ <<t, d>>[1] \in created  BY <2>1, <3>2, <4>1
      <4>3. EdgesAlone  BY <2>1, <3>2 DEF graphVars
      <4>4. \A v \in Workers : adding'[v] = NoEdge  BY <4>2, <4>3 DEF EdgesAlone
      <4> QED  BY <4>4 DEF CheckedEdgeSafe
    <3> QED  BY <3>1, <3>2
  <2> QED  BY <2>2, <2>3
<1>5. ASSUME NEW w \in Workers, DependencyAbort(w) PROVE (Acyclic /\ CheckedEdgeSafe)'
  BY <1>5 DEF DependencyAbort, Acyclic, CheckedEdgeSafe, GraphTypeOK
<1>6. ASSUME NEW t \in Tasks, NEW d \in Tasks, removeTaskDependency(t, d)
      PROVE  (Acyclic /\ CheckedEdgeSafe)'
  <2>1. needs' \in SUBSET needs /\ adding' = adding  BY <1>6 DEF removeTaskDependency
  <2> QED  BY <2>1, FewerReachLess DEF Acyclic, CheckedEdgeSafe
<1>7. CASE UNCHANGED graphVars
  BY <1>t, <1>7 DEF graphVars, Acyclic, CheckedEdgeSafe
<1> QED
  BY <1>t, <1>1, <1>2, <1>3, <1>4, <1>5, <1>6, <1>7 DEF GraphNext, DependencyStep

(* The rows keep their types however many calls are in flight.             *)
THEOREM GraphTypeCorrect == GraphSpec => []GraphTypeOK
<1>1. GraphInit => GraphTypeOK  BY GraphInitInv DEF GraphInv
<1> QED  BY <1>1, GraphTypeStep, PTL DEF GraphSpec

(* Where no edge is added between the search and the write of another      *)
(* call, addTaskDependency's search keeps the prerequisites free of        *)
(* cycles, for every set of tasks and any number of calls.                 *)
THEOREM EdgesAloneAcyclic == GraphSpec /\ [][EdgesAlone]_graphVars => [](Acyclic /\ CheckedEdgeSafe)
<1>1. GraphInv /\ [GraphNext]_graphVars /\ [EdgesAlone]_graphVars => GraphInv'  BY GraphStepInv
<1>2. GraphInv => Acyclic /\ CheckedEdgeSafe  BY DEF GraphInv
<1> QED  BY <1>1, <1>2, GraphInitInv, PTL DEF GraphSpec

LEMMA OneCallAddsAlone ==
    ASSUME \A v, w \in Workers : v = w, GraphTypeOK, [GraphNext]_graphVars
    PROVE  [EdgesAlone]_graphVars
<1>1. ASSUME NEW w \in Workers, DependencyWrite(w) PROVE EdgesAlone
  BY <1>1 DEF DependencyWrite, EdgesAlone, GraphTypeOK
<1>2. ASSUME NEW t \in Tasks, NEW D, Insert(t, D) PROVE EdgesAlone
  BY <1>2 DEF Insert, EdgesAlone
<1>3. needs' \subseteq needs => EdgesAlone
  BY DEF EdgesAlone
<1> QED
  BY <1>1, <1>2, <1>3 DEF GraphNext, DependencyStep, DependencyRead, DependencyAbort, removeTaskDependency, SoftDelete

(* One call at a time is a case of it.                                     *)
THEOREM GraphAcyclic ==
    ASSUME \A v, w \in Workers : v = w
    PROVE  GraphSpec => [](Acyclic /\ CheckedEdgeSafe)
<1>1. GraphTypeOK /\ [GraphNext]_graphVars => [EdgesAlone]_graphVars  BY OneCallAddsAlone
<1> QED  BY <1>1, GraphTypeCorrect, EdgesAloneAcyclic, PTL DEF GraphSpec

-----------------------------------------------------------------------------
(* -- Reviews, approvals and checklists ---------------------------------- *)

Busy(w) == ~At(w, "idle")

(* A call in flight is about a task on record, and a reviewer about to     *)
(* write is a manager and not the author of the proposal.                  *)
ReviewInv ==
    /\ TypeOK
    /\ ApprovedByAnother
    /\ \A w \in Workers :
          /\ Busy(w) => handler[w].task \in created
          /\ At(w, "review") =>
                /\ handler[w].user \in Managers
                /\ task[handler[w].task].reviewRequired =>
                      handler[w].user # task[handler[w].task].reporter

(* What the serial invariants say of one row.                              *)
Sound(row) ==
    row.reviewRequired =>
       /\ row.status # "TODO" => row.approval = "APPROVED"
       /\ row.status = "DONE" => row.qa # Nobody
       /\ row.qa # Nobody => row.status \in {"TESTING", "DONE"}

(* What call h read of a proposal is still so in its row.                  *)
FreshCall(h, row) ==
    /\ h.step = "submit" => row.approval \in {"DRAFT", "CHANGES_REQUESTED"}
    /\ h.step = "review" => row.approval \in {"SUBMITTED", "UNDER_REVIEW"}
    /\ h.step = "overwrite" /\ row.reviewRequired => h.input.status \in {Keep, row.status}
    /\ h.step \in {"prerequisites", "checklist", "move"} =>
          /\ row.approval = "APPROVED"
          /\ row.status = h.from
          /\ (row.qa # Nobody) = h.verified
          /\ h.input.status \in transitions[h.from]
          /\ h.input.status = "DONE" => h.verified

(* Q: the tasks on which no call is overtaken.                             *)
SerialRest(Q) ==
    /\ \A t \in Q : t \in created => Sound(task[t])
    /\ \A w \in Workers : InFlight(w, handler[w].task) /\ handler[w].task \in Q =>
          FreshCall(handler[w], task[handler[w].task])

SerialInv(Q) == ReviewInv /\ SerialRest(Q)

-----------------------------------------------------------------------------
(* The fields of a handler in flight.                                      *)
LEMMA HandlerShape ==
    ASSUME NEW h \in Handler
    PROVE  /\ h.step # "idle" => h.task \in Tasks
           /\ h.step \in {"prerequisites", "checklist", "move"} =>
                 h.input \in Update /\ h.input.status # Keep /\ h.from \in Status /\ h.verified \in BOOLEAN
           /\ h.step = "overwrite" => h.input \in Update
           /\ h.step = "review" => h.user \in Users /\ h.decision \in Decision
           /\ h.step = "verifyQa" => h.user \in Users
           /\ h.step \in {"prerequisites", "checklist"} => [h EXCEPT !.step = "move"] \in Handler
  BY DEF Handler, Idle

LEMMA RowShape ==
    ASSUME NEW r \in TaskRow
    PROVE  /\ r.status \in Status /\ r.approval \in Approval /\ r.reviewRequired \in BOOLEAN
           /\ r.reporter \in User /\ r.assignee \in User /\ r.reviewer \in User /\ r.qa \in User
  BY DEF TaskRow

(* Every step of Tasks is a step of TaskGraph or leaves it alone.          *)
LEMMA TaskStepIsGraphStep == [Next]_vars => [GraphNext]_graphVars
<1> SUFFICES ASSUME [Next]_vars PROVE [GraphNext]_graphVars  OBVIOUS
<1> USE DEF graphVars
<1>1. ASSUME NEW w \in Workers, ReviewStep(w) PROVE UNCHANGED graphVars
  BY <1>1 DEF ReviewStep, SubmitRead, SubmitWrite, ReviewRead, ReviewWrite
<1>2. ASSUME NEW w \in Workers, UpdateStep(w) PROVE UNCHANGED graphVars
  BY <1>2 DEF UpdateStep, UpdateRead, CheckPrerequisites, CheckChecklist, Move, Overwrite
<1>3. ASSUME NEW w \in Workers, QaStep(w) PROVE UNCHANGED graphVars
  BY <1>3 DEF QaStep, VerifyRead, VerifyWrite, ChecklistRead, ChecklistWrite
<1>4. ASSUME NEW w \in Workers, Abort(w) PROVE UNCHANGED graphVars
  BY <1>4 DEF Abort
<1>5. CASE Dependencies
  BY <1>5 DEF Dependencies, GraphNext
<1>6. ASSUME NEW t \in Tasks, NEW status, NEW assignee, createTask(t, status, assignee)
      PROVE  GraphNext
  BY <1>6 DEF createTask, GraphNext
<1>7. ASSUME NEW t \in Tasks, NEW u, NEW assignee, NEW items, NEW D \in SUBSET Tasks,
             createEngineeringTask(t, u, assignee, items, D)
      PROVE  GraphNext
  BY <1>7 DEF createEngineeringTask, GraphNext
<1>8. ASSUME NEW t \in Tasks, deleteTask(t) PROVE GraphNext
  BY <1>8 DEF deleteTask, GraphNext
<1>9. CASE UNCHANGED vars
  BY <1>9 DEF vars
<1> QED
  BY <1>1, <1>2, <1>3, <1>4, <1>5, <1>6, <1>7, <1>8, <1>9 DEF Next

(* Tasks implements TaskGraph.                                             *)
THEOREM TasksImplementsGraph == Spec => GraphSpec
<1>1. Init => GraphInit  BY DEF Init
<1> QED  BY <1>1, TaskStepIsGraphStep, PTL DEF Spec, GraphSpec

-----------------------------------------------------------------------------
(* Type correctness, action by action.                                     *)
LEMMA TypeStep == TypeOK /\ [Next]_vars => TypeOK'
<1> SUFFICES ASSUME TypeOK, [Next]_vars PROVE TypeOK'  OBVIOUS
<1>g. GraphTypeOK'  BY TaskStepIsGraphStep, GraphTypeStep DEF TypeOK
<1>t. /\ task \in [Tasks -> TaskRow] /\ handler \in [Workers -> Handler]
      /\ \A w \in Workers : handler[w] \in Handler
      /\ Idle \in Handler
  BY DEF TypeOK, Handler
<1> DEFINE Typed == task' \in [Tasks -> TaskRow] /\ handler' \in [Workers -> Handler]
<1>b. ASSUME NEW w \in Workers, NEW h \in Handler, Become(w, h)
      PROVE  handler' \in [Workers -> Handler]
  BY <1>t, <1>b DEF Become
<1>f. ASSUME NEW w \in Workers, Finish(w) PROVE handler' \in [Workers -> Handler]
  BY <1>t, <1>b, <1>f DEF Finish
<1>1. ASSUME NEW w \in Workers, NEW u \in Users, NEW t \in Tasks, SubmitRead(w, u, t) PROVE Typed
  <2>1. [step |-> "submit", task |-> t] \in Handler  BY DEF Handler
  <2> QED  BY <1>1, <1>t, <1>b, <2>1 DEF SubmitRead
<1>2. ASSUME NEW w \in Workers, SubmitWrite(w) PROVE Typed
  <2>1. handler[w].task \in Tasks  BY <1>2, <1>t, HandlerShape DEF SubmitWrite, At
  <2>2. "SUBMITTED" \in Approval /\ Nobody \in User  BY DEF Approval, User
  <2>3. task' \in [Tasks -> TaskRow]  BY <1>2, <1>t, <2>1, <2>2 DEF SubmitWrite, TaskRow
  <2> QED  BY <1>2, <1>f, <2>3 DEF SubmitWrite
<1>3. ASSUME NEW w \in Workers, NEW u \in Users, NEW t \in Tasks, NEW decision \in Decision,
             ReviewRead(w, u, t, decision)
      PROVE  Typed
  <2>1. [step |-> "review", task |-> t, user |-> u, decision |-> decision] \in Handler  BY DEF Handler
  <2> QED  BY <1>3, <1>t, <1>b, <2>1 DEF ReviewRead
<1>4. ASSUME NEW w \in Workers, ReviewWrite(w) PROVE Typed
  <2>1. handler[w].task \in Tasks /\ handler[w].user \in Users /\ handler[w].decision \in Decision
    BY <1>4, <1>t, HandlerShape DEF ReviewWrite, At
  <2>2. approvalStatus[handler[w].decision] \in Approval  BY <2>1 DEF approvalStatus, Approval, Decision
  <2>3. task' \in [Tasks -> TaskRow]  BY <1>4, <1>t, <2>1, <2>2 DEF ReviewWrite, TaskRow, User
  <2> QED  BY <1>4, <1>f, <2>3 DEF ReviewWrite
<1>5. ASSUME NEW w \in Workers, NEW u \in Users, NEW t \in Tasks, NEW input \in Requests(t),
             UpdateRead(w, u, t, input)
      PROVE  Typed
  <2>1. input \in Update /\ task[t].status \in Status  BY <1>t, RowShape DEF Requests
  <2>2. input.status # Keep => \A step \in {"prerequisites", "checklist", "move"} :
           [step |-> step, task |-> t, input |-> input,
            from |-> task[t].status, verified |-> task[t].qa # Nobody] \in Handler
    BY <2>1 DEF Handler
  <2>3. [step |-> "overwrite", task |-> t, input |-> input] \in Handler  BY <2>1 DEF Handler
  <2>4. \E h \in Handler : Become(w, h)  BY <1>5, <2>2, <2>3 DEF UpdateRead, Gated
  <2> QED  BY <1>5, <1>t, <1>b, <2>4 DEF UpdateRead
<1>6. ASSUME NEW w \in Workers, CheckPrerequisites(w) \/ CheckChecklist(w) PROVE Typed
  <2>1. [handler[w] EXCEPT !.step = "move"] \in Handler
    BY <1>6, <1>t, HandlerShape DEF CheckPrerequisites, CheckChecklist, At
  <2>2. \E h \in Handler : Become(w, h)
    BY <1>6, <1>t, <2>1 DEF CheckPrerequisites, CheckChecklist
  <2> QED  BY <1>6, <1>t, <1>b, <2>2 DEF CheckPrerequisites, CheckChecklist
<1>7. ASSUME NEW w \in Workers, Move(w) PROVE Typed
  <2> DEFINE h == handler[w]
  <2>1. h.task \in Tasks /\ h.input \in Update /\ h.input.status # Keep
    BY <1>7, <1>t, HandlerShape DEF Move, At
  <2>2. Moved(task[h.task], h) \in TaskRow
    <3>1. task[h.task] \in TaskRow  BY <1>t, <2>1
    <3>2. h.input.status \in Status /\ h.input.assignee \in User \cup {Keep}  BY <2>1 DEF Update
    <3>3. Assigned(task[h.task], h.input) \in User  BY <3>1, <3>2, RowShape DEF Assigned
    <3>4. Nobody \in User  BY DEF User
    <3> HIDE DEF h
    <3> QED  BY <3>1, <3>2, <3>3, <3>4 DEF Moved, TaskRow
  <2>3. task' \in [Tasks -> TaskRow]
    BY <1>7, <1>t, <2>1, <2>2 DEF Move
  <2> QED  BY <1>7, <1>f, <2>3 DEF Move
<1>8. ASSUME NEW w \in Workers, Overwrite(w) PROVE Typed
  <2> DEFINE h == handler[w]
  <2>1. h.task \in Tasks /\ h.input \in Update
    BY <1>8, <1>t, HandlerShape DEF Overwrite, At
  <2>2. task' \in [Tasks -> TaskRow]
    BY <1>8, <1>t, <2>1 DEF Overwrite, Assigned, TaskRow, Update, User
  <2> QED  BY <1>8, <1>f, <2>2 DEF Overwrite
<1>9. ASSUME NEW w \in Workers, NEW u \in Users, NEW t \in Tasks, VerifyRead(w, u, t) PROVE Typed
  <2>1. [step |-> "verifyQa", task |-> t, user |-> u] \in Handler  BY DEF Handler
  <2> QED  BY <1>9, <1>t, <1>b, <2>1 DEF VerifyRead
<1>10. ASSUME NEW w \in Workers, VerifyWrite(w) PROVE Typed
  <2>1. handler[w].task \in Tasks /\ handler[w].user \in User
    BY <1>10, <1>t, HandlerShape DEF VerifyWrite, At, User
  <2>2. task' \in [Tasks -> TaskRow]  BY <1>10, <1>t, <2>1 DEF VerifyWrite, TaskRow
  <2> QED  BY <1>10, <1>f, <2>2 DEF VerifyWrite
<1>11. ASSUME NEW w \in Workers, NEW u \in Users, NEW t \in Tasks, ChecklistRead(w, u, t) PROVE Typed
  <2>1. \A step \in {"addItem", "completeItem", "reopenItem"} : [step |-> step, task |-> t] \in Handler
    BY DEF Handler
  <2>2. \E h \in Handler : Become(w, h)  BY <1>11, <2>1 DEF ChecklistRead
  <2> QED  BY <1>11, <1>t, <1>b, <2>2 DEF ChecklistRead
<1>12. ASSUME NEW w \in Workers, ChecklistWrite(w) PROVE Typed
  <2>1. handler[w].task \in Tasks  BY <1>12, <1>t, HandlerShape DEF ChecklistWrite, At
  <2>2. task' \in [Tasks -> TaskRow]  BY <1>12, <1>t, <2>1 DEF ChecklistWrite, TaskRow
  <2> QED  BY <1>12, <1>f, <2>2 DEF ChecklistWrite
<1>13. ASSUME NEW w \in Workers, Abort(w) PROVE Typed
  BY <1>13, <1>t, <1>f DEF Abort
<1>14. ASSUME Dependencies PROVE Typed
  BY <1>14, <1>t DEF Dependencies
<1>15. ASSUME NEW t \in Tasks, NEW status \in PlainStatus, NEW assignee \in User,
              createTask(t, status, assignee)
       PROVE  Typed
  <2>1. status \in Status /\ Nobody \in User  BY TasksAssumption DEF User
  <2>2. task' \in [Tasks -> TaskRow]
    BY <1>15, <1>t, <2>1 DEF createTask, NoTask, TaskRow, Status, Approval
  <2> QED  BY <1>15, <1>t, <2>2 DEF createTask
<1>16. ASSUME NEW t \in Tasks, NEW u \in Users, NEW assignee \in Users,
              NEW items \in {"none", "open"}, NEW D \in SUBSET Tasks,
              createEngineeringTask(t, u, assignee, items, D)
       PROVE  Typed
  <2>1. u \in User /\ assignee \in User /\ Nobody \in User  BY DEF User
  <2>2. task' \in [Tasks -> TaskRow]
    BY <1>16, <1>t, <2>1 DEF createEngineeringTask, NoTask, TaskRow, Status, Approval
  <2> QED  BY <1>16, <1>t, <2>2 DEF createEngineeringTask
<1>17. ASSUME NEW t \in Tasks, deleteTask(t) PROVE Typed
  BY <1>17, <1>t DEF deleteTask
<1>18. ASSUME UNCHANGED vars PROVE Typed
  BY <1>18, <1>t DEF vars
<1>19. Typed
  BY <1>1, <1>2, <1>3, <1>4, <1>5, <1>6, <1>7, <1>8, <1>9, <1>10, <1>11, <1>12, <1>13, <1>14,
     <1>15, <1>16, <1>17, <1>18 DEF Next, ReviewStep, UpdateStep, QaStep
<1> QED  BY <1>g, <1>19 DEF TypeOK

LEMMA InitType == Init => TypeOK
<1> SUFFICES ASSUME Init PROVE TypeOK  OBVIOUS
<1>1. GraphTypeOK  BY GraphInitInv DEF Init, GraphInv
<1>2. NoTask \in TaskRow  BY DEF NoTask, TaskRow, Status, Approval, User
<1>3. Idle \in Handler  BY DEF Handler
<1> QED  BY <1>1, <1>2, <1>3 DEF Init, TypeOK

(* The rows and the calls in flight keep their types.                      *)
THEOREM TasksTypeCorrect == Spec => []TypeOK
BY InitType, TypeStep, PTL DEF Spec

-----------------------------------------------------------------------------
Reviewed(row) ==
    row.reviewRequired /\ row.approval = "APPROVED" => row.reviewer \in Managers \ {row.reporter}

ReviewRest ==
    /\ ApprovedByAnother
    /\ \A w \in Workers :
          /\ Busy(w) => handler[w].task \in created
          /\ At(w, "review") =>
                /\ handler[w].user \in Managers
                /\ task[handler[w].task].reviewRequired =>
                      handler[w].user # task[handler[w].task].reporter

(* A step that writes no row and leaves a call that is no review.          *)
LEMMA ReadKeepsReview ==
    ASSUME ReviewInv, NEW w \in Workers, NEW h \in Handler, Become(w, h),
           UNCHANGED <<created, task>>,
           h.step # "idle" => h.task \in created,
           h.step = "review" =>
              h.user \in Managers /\ (task[h.task].reviewRequired => h.user # task[h.task].reporter)
    PROVE  ReviewRest'
<1>1. \A v \in Workers : handler'[v] = IF v = w THEN h ELSE handler[v]
  BY DEF ReviewInv, TypeOK, Become
<1>2. ApprovedByAnother'  BY DEF ReviewInv, ApprovedByAnother, Proposal
<1>3. ASSUME NEW v \in Workers
      PROVE  /\ Busy(v)' => handler'[v].task \in created'
             /\ At(v, "review")' =>
                   /\ handler'[v].user \in Managers
                   /\ task'[handler'[v].task].reviewRequired =>
                         handler'[v].user # task'[handler'[v].task].reporter
  BY <1>1 DEF ReviewInv, Busy, At
<1> QED  BY <1>2, <1>3 DEF ReviewRest

(* A step that ends a call and writes one row on record, which keeps its   *)
(* author.                                                                 *)
LEMMA WriteKeepsReview ==
    ASSUME ReviewInv, NEW w \in Workers, Finish(w), created' = created,
           NEW t \in created, NEW row, task' = [task EXCEPT ![t] = row],
           row.reporter = task[t].reporter, row.reviewRequired = task[t].reviewRequired,
           Reviewed(row)
    PROVE  ReviewRest'
<1>1. \A v \in Workers : handler'[v] = IF v = w THEN Idle ELSE handler[v]
  BY DEF ReviewInv, TypeOK, Finish, Become
<1>2. \A d \in Tasks : task'[d] = IF d = t THEN row ELSE task[d]
  BY DEF ReviewInv, TypeOK, GraphTypeOK
<1>3. \A d \in Tasks : task'[d].reporter = task[d].reporter /\ task'[d].reviewRequired = task[d].reviewRequired
  BY <1>2
<1>4. ApprovedByAnother'
  BY <1>2 DEF ReviewInv, ApprovedByAnother, Proposal, Reviewed
<1>5. ASSUME NEW v \in Workers
      PROVE  /\ Busy(v)' => handler'[v].task \in created'
             /\ At(v, "review")' =>
                   /\ handler'[v].user \in Managers
                   /\ task'[handler'[v].task].reviewRequired =>
                         handler'[v].user # task'[handler'[v].task].reporter
  <2>1. CASE v = w  BY <1>1, <2>1 DEF Busy, At, Idle
  <2>2. CASE v # w
    <3>1. handler'[v] = handler[v] /\ handler[v] \in Handler  BY <1>1, <2>2 DEF ReviewInv, TypeOK
    <3>2. Busy(v) => handler[v].task \in Tasks  BY <3>1, HandlerShape DEF Busy, At
    <3> QED  BY <1>3, <3>1, <3>2 DEF ReviewInv, Busy, At
  <2> QED  BY <2>1, <2>2
<1> QED  BY <1>4, <1>5 DEF ReviewRest

(* A step that inserts a row for a task without one.                       *)
LEMMA InsertKeepsReview ==
    ASSUME ReviewInv, NEW t \in Tasks \ created, NEW row,
           created' = created \cup {t}, task' = [task EXCEPT ![t] = row], handler' = handler,
           Reviewed(row)
    PROVE  ReviewRest'
<1>1. \A d \in Tasks : task'[d] = IF d = t THEN row ELSE task[d]
  BY DEF ReviewInv, TypeOK
<1>2. ApprovedByAnother'
  BY <1>1 DEF ReviewInv, ApprovedByAnother, Proposal, Reviewed
<1>3. ASSUME NEW v \in Workers
      PROVE  /\ Busy(v)' => handler'[v].task \in created'
             /\ At(v, "review")' =>
                   /\ handler'[v].user \in Managers
                   /\ task'[handler'[v].task].reviewRequired =>
                         handler'[v].user # task'[handler'[v].task].reporter
  <2>1. Busy(v) => handler[v].task \in created /\ handler[v].task \in Tasks
    BY DEF ReviewInv, TypeOK, GraphTypeOK
  <2>2. At(v, "review") => Busy(v)  BY DEF At, Busy
  <2> QED  BY <1>1, <2>1, <2>2 DEF ReviewInv, Busy, At
<1> QED  BY <1>2, <1>3 DEF ReviewRest

LEMMA ReviewStepInv == ReviewInv /\ [Next]_vars => ReviewInv'
<1> SUFFICES ASSUME ReviewInv, [Next]_vars PROVE ReviewRest'
    BY TypeStep DEF ReviewInv, ReviewRest
<1>t. /\ task \in [Tasks -> TaskRow] /\ handler \in [Workers -> Handler]
      /\ \A w \in Workers : handler[w] \in Handler
      /\ Idle \in Handler /\ Idle.step = "idle"
      /\ created \subseteq Tasks
  BY DEF ReviewInv, TypeOK, GraphTypeOK, Handler, Idle
<1>o. \A w \in Workers : Busy(w) => handler[w].task \in created
  BY DEF ReviewInv
<1>r. \A d \in created : task[d] \in TaskRow /\ Reviewed(task[d])
  BY <1>t DEF ReviewInv, ApprovedByAnother, Proposal, Reviewed
<1>1. ASSUME NEW w \in Workers, NEW u \in Users, NEW t \in Tasks, SubmitRead(w, u, t) PROVE ReviewRest'
  <2> DEFINE h == [step |-> "submit", task |-> t]
  <2>1. h \in Handler  BY DEF Handler
  <2> QED  BY <1>1, <2>1, ReadKeepsReview DEF SubmitRead, Live, graphVars
<1>2. ASSUME NEW w \in Workers, SubmitWrite(w) PROVE ReviewRest'
  <2> DEFINE t == handler[w].task
             row == [task[t] EXCEPT !.approval = "SUBMITTED", !.reviewer = Nobody]
  <2>1. t \in created  BY <1>2, <1>o DEF SubmitWrite, Busy, At
  <2>2. task' = [task EXCEPT ![t] = row]  BY <1>2, <1>t, <2>1 DEF SubmitWrite, TaskRow
  <2>3. /\ row.reporter = task[t].reporter /\ row.reviewRequired = task[t].reviewRequired
        /\ Reviewed(row)
    BY <1>r, <2>1 DEF TaskRow, Reviewed
  <2> HIDE DEF row, t
  <2> QED  BY <1>2, <2>1, <2>2, <2>3, WriteKeepsReview DEF SubmitWrite, graphVars
<1>3. ASSUME NEW w \in Workers, NEW u \in Users, NEW t \in Tasks, NEW decision \in Decision,
             ReviewRead(w, u, t, decision)
      PROVE  ReviewRest'
  <2> DEFINE h == [step |-> "review", task |-> t, user |-> u, decision |-> decision]
  <2>1. h \in Handler  BY DEF Handler
  <2>2. t \in created /\ u \in Managers /\ (task[t].reviewRequired => u # task[t].reporter)
    BY <1>3 DEF ReviewRead, Live, Reviewable
  <2> QED  BY <1>3, <2>1, <2>2, ReadKeepsReview DEF ReviewRead, graphVars
<1>4. ASSUME NEW w \in Workers, ReviewWrite(w) PROVE ReviewRest'
  <2> DEFINE h == handler[w]
             t == h.task
             row == [task[t] EXCEPT !.approval = approvalStatus[h.decision], !.reviewer = h.user]
  <2>1. t \in created  BY <1>4, <1>o DEF ReviewWrite, Busy, At
  <2>2. task' = [task EXCEPT ![t] = row]  BY <1>4, <1>t, <2>1 DEF ReviewWrite, TaskRow
  <2>3. h.user \in Managers /\ (task[t].reviewRequired => h.user # task[t].reporter)
    BY <1>4 DEF ReviewWrite, ReviewInv
  <2>4. task[t] \in TaskRow  BY <1>r, <2>1
  <2>5. /\ row.reporter = task[t].reporter /\ row.reviewRequired = task[t].reviewRequired
        /\ row.reviewer = h.user
    <3> HIDE DEF h, t
    <3> QED  BY <2>4 DEF TaskRow
  <2>6. Reviewed(row)
    <3> HIDE DEF h, t, row
    <3> QED  BY <2>3, <2>5 DEF Reviewed
  <2> HIDE DEF row, t, h
  <2> QED  BY <1>4, <2>1, <2>2, <2>5, <2>6, WriteKeepsReview DEF ReviewWrite, graphVars
<1>5. ASSUME NEW w \in Workers, NEW u \in Users, NEW t \in Tasks, NEW input \in Requests(t),
             UpdateRead(w, u, t, input)
      PROVE  ReviewRest'
  <2>1. t \in created  BY <1>5 DEF UpdateRead, Live
  <2>2. input \in Update /\ task[t].status \in Status  BY <1>t, RowShape DEF Requests
  <2>3. PICK h : Become(w, h) /\ h \in Handler /\ h.task = t /\ h.step \notin {"idle", "review"}
    <3> DEFINE move == [step |-> "move", task |-> t, input |-> input,
                        from |-> task[t].status, verified |-> task[t].qa # Nobody]
               early(step) == [move EXCEPT !.step = step]
    <3>1. CASE Gated(task[t], input)
      <4>1. /\ move \in Handler /\ early("prerequisites") \in Handler /\ early("checklist") \in Handler
            /\ move.task = t /\ early("prerequisites").task = t /\ early("checklist").task = t
            /\ move.step = "move" /\ early("prerequisites").step = "prerequisites"
            /\ early("checklist").step = "checklist"
        BY <2>2, <3>1 DEF Handler, Gated
      <4>2. \/ Become(w, move) \/ Become(w, early("prerequisites")) \/ Become(w, early("checklist"))
        BY <1>5, <3>1 DEF UpdateRead
      <4> HIDE DEF move, early
      <4> QED  BY <4>1, <4>2
    <3>2. CASE ~Gated(task[t], input)
      <4> DEFINE over == [step |-> "overwrite", task |-> t, input |-> input]
      <4>1. over \in Handler  BY <2>2 DEF Handler
      <4>2. Become(w, over)  BY <1>5, <3>2 DEF UpdateRead
      <4> QED  BY <4>1, <4>2
    <3> QED  BY <3>1, <3>2
  <2> QED  BY <1>5, <2>1, <2>3, ReadKeepsReview DEF UpdateRead, graphVars
<1>6. ASSUME NEW w \in Workers, CheckPrerequisites(w) \/ CheckChecklist(w) PROVE ReviewRest'
  <2> DEFINE next == [handler[w] EXCEPT !.step = "move"]
  <2>1. handler[w].step \in {"prerequisites", "checklist"} /\ handler[w] \in Handler
    BY <1>6, <1>t DEF CheckPrerequisites, CheckChecklist, At
  <2>2. next \in Handler /\ next.step = "move" /\ next.task = handler[w].task
    BY <2>1, HandlerShape DEF Handler, Idle
  <2>3. handler[w].task \in created  BY <1>o, <2>1 DEF Busy, At
  <2>4. Become(w, next) \/ Become(w, Idle)
    BY <1>6 DEF CheckPrerequisites, CheckChecklist
  <2>5. UNCHANGED <<created, task>>  BY <1>6 DEF CheckPrerequisites, CheckChecklist, graphVars
  <2> HIDE DEF next
  <2> QED  BY <1>t, <2>2, <2>3, <2>4, <2>5, ReadKeepsReview
<1>7. ASSUME NEW w \in Workers, Move(w) PROVE ReviewRest'
  <2> DEFINE h == handler[w]
             t == h.task
  <2>1. t \in created /\ h.step # "idle"  BY <1>7, <1>o DEF Move, Busy, At
  <2>2. CASE task' = [task EXCEPT ![t] = Moved(@, h)]
    <3> DEFINE row == Moved(task[t], h)
    <3>1. task[t] \in TaskRow /\ Reviewed(task[t])  BY <1>r, <2>1
    <3>2. /\ row.reporter = task[t].reporter /\ row.reviewRequired = task[t].reviewRequired
          /\ row.approval = task[t].approval /\ row.reviewer = task[t].reviewer
      <4> HIDE DEF h, t
      <4> QED  BY <3>1 DEF Moved, TaskRow
    <3>3. Reviewed(row)
      <4> HIDE DEF row, h, t
      <4> QED  BY <3>1, <3>2 DEF Reviewed
    <3>4. task' = [task EXCEPT ![t] = row]  BY <2>2
    <3> HIDE DEF row, t, h
    <3> QED  BY <1>7, <2>1, <3>2, <3>3, <3>4, WriteKeepsReview DEF Move, graphVars
  <2>3. CASE UNCHANGED task
    BY <1>7, <1>t, <2>3, ReadKeepsReview DEF Move, Finish, graphVars
  <2> QED  BY <1>7, <2>2, <2>3 DEF Move
<1>8. ASSUME NEW w \in Workers, Overwrite(w) PROVE ReviewRest'
  <2> DEFINE h == handler[w]
             t == h.task
             row == [task[t] EXCEPT !.status = IF h.input.status = Keep THEN @ ELSE h.input.status,
                                    !.assignee = Assigned(task[t], h.input)]
  <2>1. t \in created  BY <1>8, <1>o DEF Overwrite, Busy, At
  <2>2. task[t] \in TaskRow /\ Reviewed(task[t])  BY <1>r, <2>1
  <2>3. task' = [task EXCEPT ![t] = row]  BY <1>8, <1>t, <2>1, <2>2 DEF Overwrite, TaskRow
  <2>4. /\ row.reporter = task[t].reporter /\ row.reviewRequired = task[t].reviewRequired
        /\ row.approval = task[t].approval /\ row.reviewer = task[t].reviewer
    <3> HIDE DEF h, t
    <3> QED  BY <2>2 DEF TaskRow
  <2>5. Reviewed(row)
    <3> HIDE DEF row, t, h
    <3> QED  BY <2>2, <2>4 DEF Reviewed
  <2> HIDE DEF row, t, h
  <2> QED  BY <1>8, <2>1, <2>3, <2>4, <2>5, WriteKeepsReview DEF Overwrite, graphVars
<1>9. ASSUME NEW w \in Workers, NEW u \in Users, NEW t \in Tasks, VerifyRead(w, u, t) PROVE ReviewRest'
  <2> DEFINE h == [step |-> "verifyQa", task |-> t, user |-> u]
  <2>1. h \in Handler  BY DEF Handler
  <2> QED  BY <1>9, <2>1, ReadKeepsReview DEF VerifyRead, Visible, Live, graphVars
<1>10. ASSUME NEW w \in Workers, VerifyWrite(w) PROVE ReviewRest'
  <2> DEFINE h == handler[w]
             t == h.task
             row == [task[t] EXCEPT !.qa = h.user]
  <2>1. t \in created  BY <1>10, <1>o DEF VerifyWrite, Busy, At
  <2>2. CASE task' = [task EXCEPT ![t].qa = h.user]
    <3>1. task[t] \in TaskRow /\ Reviewed(task[t])  BY <1>r, <2>1
    <3>2. /\ row.reporter = task[t].reporter /\ row.reviewRequired = task[t].reviewRequired
          /\ row.approval = task[t].approval /\ row.reviewer = task[t].reviewer
      <4> HIDE DEF h, t
      <4> QED  BY <3>1 DEF TaskRow
    <3>3. Reviewed(row)
      <4> HIDE DEF row, t, h
      <4> QED  BY <3>1, <3>2 DEF Reviewed
    <3>4. task' = [task EXCEPT ![t] = row]  BY <2>2
    <3> HIDE DEF row, t, h
    <3> QED  BY <1>10, <2>1, <3>2, <3>3, <3>4, WriteKeepsReview DEF VerifyWrite, graphVars
  <2>3. CASE UNCHANGED task
    BY <1>10, <1>t, <2>3, ReadKeepsReview DEF VerifyWrite, Finish, graphVars
  <2> QED  BY <1>10, <2>2, <2>3 DEF VerifyWrite
<1>11. ASSUME NEW w \in Workers, NEW u \in Users, NEW t \in Tasks, ChecklistRead(w, u, t) PROVE ReviewRest'
  <2> DEFINE h(step) == [step |-> step, task |-> t]
  <2>1. \A step \in {"addItem", "completeItem", "reopenItem"} : h(step) \in Handler
    BY DEF Handler
  <2>2. PICK step \in {"addItem", "completeItem", "reopenItem"} : Become(w, h(step))
    BY <1>11 DEF ChecklistRead
  <2>3. h(step).task = t /\ h(step).step = step  OBVIOUS
  <2> HIDE DEF h
  <2> QED  BY <1>11, <2>1, <2>2, <2>3, ReadKeepsReview DEF ChecklistRead, Visible, Live, graphVars
<1>12. ASSUME NEW w \in Workers, ChecklistWrite(w) PROVE ReviewRest'
  <2> DEFINE t == handler[w].task
             row(items) == [task[t] EXCEPT !.checklist = items]
  <2>1. t \in created  BY <1>12, <1>o DEF ChecklistWrite, Busy, At
  <2>2. PICK items : task' = [task EXCEPT ![t].checklist = items]
    BY <1>12 DEF ChecklistWrite
  <2>3. task[t] \in TaskRow /\ Reviewed(task[t])  BY <1>r, <2>1
  <2>4. /\ row(items).reporter = task[t].reporter /\ row(items).reviewRequired = task[t].reviewRequired
        /\ row(items).approval = task[t].approval /\ row(items).reviewer = task[t].reviewer
    <3> HIDE DEF t
    <3> QED  BY <2>3 DEF TaskRow
  <2>5. task' = [task EXCEPT ![t] = row(items)]  BY <2>2
  <2> HIDE DEF row, t
  <2>6. Reviewed(row(items))  BY <2>3, <2>4 DEF Reviewed
  <2> QED  BY <1>12, <2>1, <2>4, <2>5, <2>6, WriteKeepsReview DEF ChecklistWrite, graphVars
<1>13. ASSUME NEW w \in Workers, Abort(w) PROVE ReviewRest'
  BY <1>13, <1>t, ReadKeepsReview DEF Abort, Finish, graphVars
<1>14. ASSUME Dependencies PROVE ReviewRest'
  <2>1. UNCHANGED <<created, task, handler>>
    BY <1>14 DEF Dependencies, DependencyStep, DependencyRead, DependencyWrite, DependencyAbort,
                 removeTaskDependency
  <2> QED  BY <2>1 DEF ReviewInv, ReviewRest, ApprovedByAnother, Proposal, Busy, At
<1>15. ASSUME NEW t \in Tasks, NEW status \in PlainStatus, NEW assignee \in User,
              createTask(t, status, assignee)
       PROVE  ReviewRest'
  <2> DEFINE row == [NoTask EXCEPT !.status = status, !.approval = "APPROVED",
                                   !.reviewRequired = FALSE, !.assignee = assignee]
  <2>1. Reviewed(row)  BY DEF Reviewed, NoTask
  <2> HIDE DEF row
  <2> QED  BY <1>15, <2>1, InsertKeepsReview DEF createTask, Insert, row
<1>16. ASSUME NEW t \in Tasks, NEW u \in Users, NEW assignee \in Users,
              NEW items \in {"none", "open"}, NEW D \in SUBSET Tasks,
              createEngineeringTask(t, u, assignee, items, D)
       PROVE  ReviewRest'
  <2> DEFINE row == [NoTask EXCEPT !.status = "TODO", !.reporter = u, !.assignee = assignee,
                                   !.checklist = items]
  <2>1. Reviewed(row)  BY DEF Reviewed, NoTask
  <2> HIDE DEF row
  <2> QED  BY <1>16, <2>1, InsertKeepsReview DEF createEngineeringTask, Insert, row
<1>17. ASSUME NEW t \in Tasks, deleteTask(t) PROVE ReviewRest'
  BY <1>17 DEF deleteTask, SoftDelete, ReviewInv, ReviewRest, ApprovedByAnother, Proposal, Busy, At
<1>18. ASSUME UNCHANGED vars PROVE ReviewRest'
  BY <1>18 DEF vars, graphVars, ReviewInv, ReviewRest, ApprovedByAnother, Proposal, Busy, At
<1> QED
  BY <1>1, <1>2, <1>3, <1>4, <1>5, <1>6, <1>7, <1>8, <1>9, <1>10, <1>11, <1>12, <1>13, <1>14,
     <1>15, <1>16, <1>17, <1>18 DEF Next, ReviewStep, UpdateStep, QaStep

LEMMA ReviewInit == Init => ReviewInv
BY InitType DEF Init, GraphInit, ReviewInv, ApprovedByAnother, Proposal, Busy, At, Idle

(* However many calls are in flight, an approved proposal was approved by  *)
(* a manager who is not its author.                                        *)
THEOREM ProposalsApprovedByAnother == Spec => []ApprovedByAnother
<1>1. ReviewInv => ApprovedByAnother  BY DEF ReviewInv
<1> QED  BY <1>1, ReviewInit, ReviewStepInv, PTL DEF Spec

(* Tasks keeps TaskGraph's promise.                                        *)
THEOREM TasksEdgesAloneAcyclic == Spec /\ [][EdgesAlone]_graphVars => []Acyclic
<1>1. GraphSpec /\ [][EdgesAlone]_graphVars => [](Acyclic /\ CheckedEdgeSafe)  BY EdgesAloneAcyclic
<1> QED  BY <1>1, TasksImplementsGraph, PTL

(* In particular with one call at a time.                                  *)
THEOREM TasksAcyclic ==
    ASSUME \A v, w \in Workers : v = w
    PROVE  Spec => []Acyclic
<1>1. GraphSpec => [](Acyclic /\ CheckedEdgeSafe)  BY GraphAcyclic
<1> QED  BY <1>1, TasksImplementsGraph, PTL

-----------------------------------------------------------------------------
LEMMA SoundRows ==
    ASSUME TypeOK, \A t \in Tasks : t \in created => Sound(task[t])
    PROVE  ReviewRespected
BY DEF ReviewRespected, WorkIsApproved, DoneWasVerified, VerifiedThisRound, Sound, Proposal

LEMMA IdleIsFresh == \A row : FreshCall(Idle, row)
BY DEF FreshCall, Idle

(* Freshness asks only for what NotOvertaken guards.                       *)
LEMMA SameIsFresh ==
    ASSUME NEW h, NEW old, NEW row, FreshCall(h, old),
           <<row.status, row.approval, row.qa>> = <<old.status, old.approval, old.qa>>,
           row.reviewRequired = old.reviewRequired
    PROVE  FreshCall(h, row)
BY DEF FreshCall

(* Reading leaves the rows alone, and the call that read is fresh.         *)
LEMMA ReadKeepsSerial ==
    ASSUME NEW Q \in SUBSET Tasks, SerialInv(Q),
           NEW w \in Workers, NEW h, Become(w, h), UNCHANGED <<created, task>>,
           h.step # "idle" /\ h.task \in Q => FreshCall(h, task[h.task])
    PROVE  SerialRest(Q)'
<1>1. \A v \in Workers : handler'[v] = IF v = w THEN h ELSE handler[v]
  BY DEF SerialInv, ReviewInv, TypeOK, Become
<1>2. ASSUME NEW v \in Workers, InFlight(v, handler[v].task)', handler'[v].task \in Q
      PROVE  FreshCall(handler'[v], task'[handler'[v].task])
  <2>1. CASE v = w
    BY <1>1, <1>2, <2>1 DEF InFlight, At
  <2>2. CASE v # w
    BY <1>1, <1>2, <2>2 DEF SerialInv, SerialRest, InFlight, At
  <2> QED  BY <2>1, <2>2
<1> QED  BY <1>2 DEF SerialInv, SerialRest

(* Writing one row ends the call, and no other call of the tasks in Q is   *)
(* overtaken by it.                                                        *)
LEMMA WriteKeepsSerial ==
    ASSUME NEW Q \in SUBSET Tasks, SerialInv(Q), NotOvertaken(Q),
           NEW w \in Workers, Finish(w), created' = created,
           NEW t \in created, NEW row, task' = [task EXCEPT ![t] = row],
           row.reviewRequired = task[t].reviewRequired,
           t \in Q => Sound(row)
    PROVE  SerialRest(Q)'
<1>1. \A v \in Workers : handler'[v] = IF v = w THEN Idle ELSE handler[v]
  BY DEF SerialInv, ReviewInv, TypeOK, Finish, Become
<1>2. \A d \in Tasks : task'[d] = IF d = t THEN row ELSE task[d]
  BY DEF SerialInv, ReviewInv, TypeOK, GraphTypeOK
<1>3. ASSUME NEW v \in Workers, InFlight(v, handler[v].task)', handler'[v].task \in Q
      PROVE  FreshCall(handler'[v], task'[handler'[v].task])
  <2>1. v # w /\ handler'[v] = handler[v]
    BY <1>1, <1>3 DEF InFlight, At, Idle
  <2>2. PICK d \in Q : d = handler[v].task
    BY <1>3, <2>1
  <2>6. InFlight(v, d)' /\ FreshCall(handler[v], task[d])
    BY <1>3, <2>1, <2>2 DEF InFlight, At, SerialInv, SerialRest
  <2>3. Decided(d)' = Decided(d)
    BY <2>2, <2>6 DEF NotOvertaken
  <2>4. task'[d].reviewRequired = task[d].reviewRequired
    BY <1>2, <2>2
  <2>5. <<task'[d].status, task'[d].approval, task'[d].qa>> = <<task[d].status, task[d].approval, task[d].qa>>
    BY <2>3 DEF Decided
  <2>7. FreshCall(handler[v], task'[d])
    BY <2>4, <2>5, <2>6, SameIsFresh
  <2> QED  BY <2>1, <2>2, <2>7
<1>4. ASSUME NEW d \in Q, d \in created' PROVE Sound(task'[d])
  BY <1>2, <1>4 DEF SerialInv, SerialRest
<1> QED  BY <1>3, <1>4 DEF SerialRest

(* Inserting a row does not touch the row a call in flight is about.       *)
LEMMA InsertKeepsSerial ==
    ASSUME NEW Q \in SUBSET Tasks, SerialInv(Q), NEW t \in Tasks \ created, NEW row,
           created' = created \cup {t}, task' = [task EXCEPT ![t] = row], handler' = handler,
           Sound(row)
    PROVE  SerialRest(Q)'
<1>1. \A d \in Tasks : task'[d] = IF d = t THEN row ELSE task[d]
  BY DEF SerialInv, ReviewInv, TypeOK
<1>2. ASSUME NEW w \in Workers, InFlight(w, handler[w].task)', handler'[w].task \in Q
      PROVE  FreshCall(handler'[w], task'[handler'[w].task])
  <2>1. handler[w].task \in created /\ handler[w].task \in Tasks
    BY <1>2 DEF InFlight, At, Busy, SerialInv, ReviewInv
  <2>2. task'[handler[w].task] = task[handler[w].task]  BY <1>1, <2>1
  <2> QED  BY <1>2, <2>2 DEF InFlight, At, SerialInv, SerialRest
<1>3. ASSUME NEW d \in Q, d \in created' PROVE Sound(task'[d])
  BY <1>1, <1>3 DEF SerialInv, SerialRest
<1> QED  BY <1>2, <1>3 DEF SerialRest

LEMMA SerialStepInv ==
    ASSUME NEW Q \in SUBSET Tasks, SerialInv(Q), [Next]_vars, [NotOvertaken(Q)]_vars
    PROVE  SerialInv(Q)'
<1> SUFFICES SerialRest(Q)'
    BY ReviewStepInv DEF SerialInv
<1>t. /\ TypeOK /\ task \in [Tasks -> TaskRow] /\ handler \in [Workers -> Handler]
      /\ \A w \in Workers : handler[w] \in Handler
      /\ created \subseteq Tasks
  BY DEF SerialInv, ReviewInv, TypeOK, GraphTypeOK
<1>o. \A w \in Workers : Busy(w) => handler[w].task \in created
  BY DEF SerialInv, ReviewInv
<1>r. \A d \in created : task[d] \in TaskRow /\ (d \in Q => Sound(task[d]))
  BY <1>t DEF SerialInv, SerialRest
<1>f. \A w \in Workers : Busy(w) /\ handler[w].task \in Q => FreshCall(handler[w], task[handler[w].task])
  BY DEF SerialInv, SerialRest, InFlight, Busy
<1>idle. FreshCall(Idle, task[Idle.task])  BY IdleIsFresh
<1>n. UNCHANGED vars \/ NotOvertaken(Q)  OBVIOUS
<1>w. ASSUME NEW w \in Workers, Finish(w), UNCHANGED graphVars,
             NEW t \in created, NEW row, task' = [task EXCEPT ![t] = row],
             row.reviewRequired = task[t].reviewRequired,
             t \in Q => Sound(row)
      PROVE  SerialRest(Q)'
  <2>1. CASE NotOvertaken(Q)
    <3>1. created' = created  BY <1>w DEF graphVars
    <3> QED  BY <1>w, <2>1, <3>1, WriteKeepsSerial
  <2>2. CASE UNCHANGED vars
    BY <2>2 DEF vars, graphVars, SerialInv, SerialRest, InFlight, At
  <2> QED  BY <1>n, <2>1, <2>2
<1>1. ASSUME NEW w \in Workers, NEW u \in Users, NEW t \in Tasks, SubmitRead(w, u, t) PROVE SerialRest(Q)'
  <2> DEFINE h == [step |-> "submit", task |-> t]
  <2>1. FreshCall(h, task[h.task])  BY <1>1 DEF SubmitRead, Submittable, FreshCall
  <2> QED  BY <1>1, <2>1, ReadKeepsSerial DEF SubmitRead, graphVars
<1>2. ASSUME NEW w \in Workers, SubmitWrite(w) PROVE SerialRest(Q)'
  <2> DEFINE t == handler[w].task
             row == [task[t] EXCEPT !.approval = "SUBMITTED", !.reviewer = Nobody]
  <2>1. t \in created  BY <1>2, <1>o DEF SubmitWrite, Busy, At
  <2>2. task' = [task EXCEPT ![t] = row]  BY <1>2, <1>t, <2>1 DEF SubmitWrite, TaskRow
  <2>3. task[t] \in TaskRow /\ (t \in Q => Sound(task[t]))  BY <1>r, <2>1
  <2>4. t \in Q => task[t].approval \in {"DRAFT", "CHANGES_REQUESTED"}
    BY <1>2, <1>f DEF SubmitWrite, Busy, At, FreshCall
  <2>5. /\ row.status = task[t].status /\ row.qa = task[t].qa
        /\ row.reviewRequired = task[t].reviewRequired
    <3> HIDE DEF t
    <3> QED  BY <2>3 DEF TaskRow
  <2> HIDE DEF row, t
  <2>6. t \in Q => Sound(row)  BY <2>3, <2>4, <2>5 DEF Sound
  <2> QED  BY <1>2, <2>1, <2>2, <2>5, <2>6, <1>w DEF SubmitWrite
<1>3. ASSUME NEW w \in Workers, NEW u \in Users, NEW t \in Tasks, NEW decision \in Decision,
             ReviewRead(w, u, t, decision)
      PROVE  SerialRest(Q)'
  <2> DEFINE h == [step |-> "review", task |-> t, user |-> u, decision |-> decision]
  <2>1. FreshCall(h, task[h.task])  BY <1>3 DEF ReviewRead, Reviewable, FreshCall
  <2> QED  BY <1>3, <2>1, ReadKeepsSerial DEF ReviewRead, graphVars
<1>4. ASSUME NEW w \in Workers, ReviewWrite(w) PROVE SerialRest(Q)'
  <2> DEFINE h == handler[w]
             t == h.task
             row == [task[t] EXCEPT !.approval = approvalStatus[h.decision], !.reviewer = h.user]
  <2>1. t \in created  BY <1>4, <1>o DEF ReviewWrite, Busy, At
  <2>2. task' = [task EXCEPT ![t] = row]  BY <1>4, <1>t, <2>1 DEF ReviewWrite, TaskRow
  <2>3. task[t] \in TaskRow /\ (t \in Q => Sound(task[t]))  BY <1>r, <2>1
  <2>4. t \in Q => task[t].approval \in {"SUBMITTED", "UNDER_REVIEW"}
    BY <1>4, <1>f DEF ReviewWrite, Busy, At, FreshCall
  <2>5. /\ row.status = task[t].status /\ row.qa = task[t].qa
        /\ row.reviewRequired = task[t].reviewRequired
    <3> HIDE DEF h, t
    <3> QED  BY <2>3 DEF TaskRow
  <2> HIDE DEF row, t, h
  <2>6. t \in Q => Sound(row)  BY <2>3, <2>4, <2>5 DEF Sound
  <2> QED  BY <1>4, <2>1, <2>2, <2>5, <2>6, <1>w DEF ReviewWrite
<1>5. ASSUME NEW w \in Workers, NEW u \in Users, NEW t \in Tasks, NEW input \in Requests(t),
             UpdateRead(w, u, t, input)
      PROVE  SerialRest(Q)'
  <2> DEFINE move(step) == [step |-> step, task |-> t, input |-> input,
                            from |-> task[t].status, verified |-> task[t].qa # Nobody]
             over == [step |-> "overwrite", task |-> t, input |-> input]
  <2>1. CASE Gated(task[t], input)
    <3>1. Become(w, move("move")) \/ Become(w, move("prerequisites")) \/ Become(w, move("checklist"))
      BY <1>5, <2>1 DEF UpdateRead
    <3>2. Allowed(task[t], input)  BY <1>5, <2>1 DEF UpdateRead
    <3>3. \A step \in {"move", "prerequisites", "checklist"} : FreshCall(move(step), task[move(step).task])
      BY <3>2 DEF Allowed, FreshCall
    <3> HIDE DEF move
    <3> QED  BY <1>5, <3>1, <3>3, ReadKeepsSerial DEF UpdateRead, graphVars
  <2>2. CASE ~Gated(task[t], input)
    <3>1. Become(w, over)  BY <1>5, <2>2 DEF UpdateRead
    <3>2. FreshCall(over, task[over.task])  BY <2>2 DEF Gated, FreshCall
    <3> HIDE DEF over
    <3> QED  BY <1>5, <3>1, <3>2, ReadKeepsSerial DEF UpdateRead, graphVars
  <2> QED  BY <2>1, <2>2
<1>6. ASSUME NEW w \in Workers, CheckPrerequisites(w) \/ CheckChecklist(w) PROVE SerialRest(Q)'
  <2> DEFINE next == [handler[w] EXCEPT !.step = "move"]
  <2>1. handler[w].step \in {"prerequisites", "checklist"} /\ handler[w] \in Handler
    BY <1>6, <1>t DEF CheckPrerequisites, CheckChecklist, At
  <2>2. /\ next.step = "move" /\ next.task = handler[w].task /\ next.from = handler[w].from
        /\ next.verified = handler[w].verified /\ next.input = handler[w].input
    BY <2>1 DEF Handler, Idle
  <2>3. next.task \in Q => FreshCall(next, task[next.task])
    <3> HIDE DEF next
    <3> QED  BY <1>f, <2>1, <2>2 DEF FreshCall, Busy, At
  <2>4. Become(w, next) \/ Become(w, Idle)
    BY <1>6 DEF CheckPrerequisites, CheckChecklist
  <2>5. UNCHANGED <<created, task>>  BY <1>6 DEF CheckPrerequisites, CheckChecklist, graphVars
  <2> HIDE DEF next
  <2> QED  BY <1>idle, <2>3, <2>4, <2>5, ReadKeepsSerial
<1>7. ASSUME NEW w \in Workers, Move(w) PROVE SerialRest(Q)'
  <2> DEFINE h == handler[w]
             t == h.task
             row == Moved(task[t], h)
  <2>1. t \in created /\ h.step = "move" /\ h \in Handler  BY <1>7, <1>t, <1>o DEF Move, Busy, At
  <2>2. CASE UNCHANGED task
    BY <1>7, <1>idle, <2>2, ReadKeepsSerial DEF Move, Finish, graphVars
  <2>3. CASE /\ task[t].approval = "APPROVED"
             /\ task' = [task EXCEPT ![t] = row]
    <3>1. task[t] \in TaskRow /\ (t \in Q => Sound(task[t]) /\ FreshCall(h, task[t]))
      BY <1>r, <1>f, <2>1 DEF Busy, At
    <3>2. /\ row.status = h.input.status /\ row.approval = "APPROVED"
          /\ row.reviewRequired = task[t].reviewRequired
          /\ row.qa = IF h.input.status = "IN_PROGRESS" /\ h.verified THEN Nobody ELSE task[t].qa
      <4>1. task[t].approval = "APPROVED"  BY <2>3
      <4> HIDE DEF h, t
      <4> QED  BY <2>1, <3>1, <4>1 DEF Moved, TaskRow
    <3>3. ASSUME t \in Q PROVE Sound(row)
      <4>1. FreshCall(h, task[t]) /\ Sound(task[t])  BY <3>1, <3>3
      <4> HIDE DEF h, t, row
      <4>2. /\ (task[t].qa # Nobody) = h.verified
            /\ h.input.status \in transitions[task[t].status]
            /\ h.input.status = "DONE" => h.verified
            /\ task[t].status \in Status
            /\ h.verified \in BOOLEAN
        BY <2>1, <3>1, <4>1, RowShape, HandlerShape DEF FreshCall
      <4>3. /\ h.input.status \in {"TODO", "CANCELLED", "IN_PROGRESS", "BLOCKED", "IN_REVIEW", "TESTING", "DONE"}
            /\ task[t].status \in {"TESTING", "DONE"} => h.input.status \in {"DONE", "IN_PROGRESS"}
        BY <4>2 DEF transitions, Status
      <4> QED  BY <3>2, <4>1, <4>2, <4>3 DEF Sound
    <3>4. task' = [task EXCEPT ![t] = row]  BY <2>3
    <3>5. row.reviewRequired = task[t].reviewRequired  BY <3>2
    <3> HIDE DEF row, t, h
    <3> QED  BY <1>7, <1>w, <2>1, <3>3, <3>4, <3>5 DEF Move
  <2> QED  BY <1>7, <2>2, <2>3 DEF Move
<1>8. ASSUME NEW w \in Workers, Overwrite(w) PROVE SerialRest(Q)'
  <2> DEFINE h == handler[w]
             t == h.task
             row == [task[t] EXCEPT !.status = IF h.input.status = Keep THEN @ ELSE h.input.status,
                                    !.assignee = Assigned(task[t], h.input)]
  <2>1. t \in created /\ h.step = "overwrite"  BY <1>8, <1>o DEF Overwrite, Busy, At
  <2>2. task[t] \in TaskRow /\ (t \in Q => Sound(task[t]) /\ FreshCall(h, task[t]))
    BY <1>r, <1>f, <2>1 DEF Busy, At
  <2>3. task' = [task EXCEPT ![t] = row]  BY <1>8, <1>t, <2>1, <2>2 DEF Overwrite, TaskRow
  <2>4. /\ row.status = IF h.input.status = Keep THEN task[t].status ELSE h.input.status
        /\ row.approval = task[t].approval /\ row.qa = task[t].qa
        /\ row.reviewRequired = task[t].reviewRequired
    <3> HIDE DEF h, t
    <3> QED  BY <2>2 DEF TaskRow
  <2> HIDE DEF row, t, h
  <2>5. t \in Q => Sound(row)  BY <2>1, <2>2, <2>4 DEF Sound, FreshCall
  <2> QED  BY <1>8, <2>1, <2>3, <2>4, <2>5, <1>w DEF Overwrite
<1>9. ASSUME NEW w \in Workers, NEW u \in Users, NEW t \in Tasks, VerifyRead(w, u, t) PROVE SerialRest(Q)'
  <2> DEFINE h == [step |-> "verifyQa", task |-> t, user |-> u]
  <2>1. FreshCall(h, task[h.task])  BY DEF FreshCall
  <2> QED  BY <1>9, <2>1, ReadKeepsSerial DEF VerifyRead, graphVars
<1>10. ASSUME NEW w \in Workers, VerifyWrite(w) PROVE SerialRest(Q)'
  <2> DEFINE h == handler[w]
             t == h.task
             row == [task[t] EXCEPT !.qa = h.user]
  <2>1. t \in created  BY <1>10, <1>o DEF VerifyWrite, Busy, At
  <2>2. CASE task[t].status = "TESTING" /\ task[t].qa = Nobody
    <3>1. task[t] \in TaskRow /\ (t \in Q => Sound(task[t]))  BY <1>r, <2>1
    <3>2. /\ row.status = task[t].status /\ row.approval = task[t].approval
          /\ row.reviewRequired = task[t].reviewRequired
      <4> HIDE DEF h, t
      <4> QED  BY <3>1 DEF TaskRow
    <3>3. task' = [task EXCEPT ![t] = row]  BY <1>10, <2>2 DEF VerifyWrite
    <3> HIDE DEF row, t, h
    <3>4. t \in Q => Sound(row)  BY <2>2, <3>1, <3>2 DEF Sound
    <3> QED  BY <1>10, <2>1, <3>3, <3>2, <3>4, <1>w DEF VerifyWrite
  <2>3. CASE ~(task[t].status = "TESTING" /\ task[t].qa = Nobody)
    BY <1>10, <1>idle, <2>3, ReadKeepsSerial DEF VerifyWrite, Finish, graphVars
  <2> QED  BY <2>2, <2>3
<1>11. ASSUME NEW w \in Workers, NEW u \in Users, NEW t \in Tasks, ChecklistRead(w, u, t) PROVE SerialRest(Q)'
  <2> DEFINE h(step) == [step |-> step, task |-> t]
  <2>1. PICK step \in {"addItem", "completeItem", "reopenItem"} : Become(w, h(step))
    BY <1>11 DEF ChecklistRead
  <2>2. FreshCall(h(step), task[h(step).task])  BY DEF FreshCall
  <2> HIDE DEF h
  <2> QED  BY <1>11, <2>1, <2>2, ReadKeepsSerial DEF ChecklistRead, graphVars
<1>12. ASSUME NEW w \in Workers, ChecklistWrite(w) PROVE SerialRest(Q)'
  <2> DEFINE t == handler[w].task
             row(items) == [task[t] EXCEPT !.checklist = items]
  <2>1. t \in created  BY <1>12, <1>o DEF ChecklistWrite, Busy, At
  <2>2. PICK items : task' = [task EXCEPT ![t].checklist = items]
    BY <1>12 DEF ChecklistWrite
  <2>3. task[t] \in TaskRow /\ (t \in Q => Sound(task[t]))  BY <1>r, <2>1
  <2>4. /\ row(items).status = task[t].status /\ row(items).approval = task[t].approval
        /\ row(items).qa = task[t].qa /\ row(items).reviewRequired = task[t].reviewRequired
    <3> HIDE DEF t
    <3> QED  BY <2>3 DEF TaskRow
  <2>5. task' = [task EXCEPT ![t] = row(items)]  BY <2>2
  <2> HIDE DEF row, t
  <2>6. t \in Q => Sound(row(items))  BY <2>3, <2>4 DEF Sound
  <2> QED  BY <1>12, <2>1, <2>4, <2>5, <2>6, <1>w DEF ChecklistWrite
<1>13. ASSUME NEW w \in Workers, Abort(w) PROVE SerialRest(Q)'
  BY <1>13, <1>idle, ReadKeepsSerial DEF Abort, Finish, graphVars
<1>14. ASSUME UNCHANGED <<created, task, handler>> PROVE SerialRest(Q)'
  BY <1>14 DEF SerialInv, SerialRest, InFlight, At
<1>15. ASSUME NEW t \in Tasks, NEW status \in PlainStatus, NEW assignee \in User,
              createTask(t, status, assignee)
       PROVE  SerialRest(Q)'
  <2> DEFINE row == [NoTask EXCEPT !.status = status, !.approval = "APPROVED",
                                   !.reviewRequired = FALSE, !.assignee = assignee]
  <2>1. Sound(row)  BY DEF Sound, NoTask
  <2> HIDE DEF row
  <2> QED  BY <1>15, <2>1, InsertKeepsSerial DEF createTask, Insert, row
<1>16. ASSUME NEW t \in Tasks, NEW u \in Users, NEW assignee \in Users,
              NEW items \in {"none", "open"}, NEW D \in SUBSET Tasks,
              createEngineeringTask(t, u, assignee, items, D)
       PROVE  SerialRest(Q)'
  <2> DEFINE row == [NoTask EXCEPT !.status = "TODO", !.reporter = u, !.assignee = assignee,
                                   !.checklist = items]
  <2>1. Sound(row)  BY DEF Sound, NoTask
  <2> HIDE DEF row
  <2> QED  BY <1>16, <2>1, InsertKeepsSerial DEF createEngineeringTask, Insert, row
<1>17. Dependencies \/ (\E t \in Tasks : deleteTask(t)) \/ UNCHANGED vars => UNCHANGED <<created, task, handler>>
  BY DEF Dependencies, DependencyStep, DependencyRead, DependencyWrite, DependencyAbort,
         removeTaskDependency, deleteTask, SoftDelete, vars, graphVars
<1> QED
  BY <1>1, <1>2, <1>3, <1>4, <1>5, <1>6, <1>7, <1>8, <1>9, <1>10, <1>11, <1>12, <1>13, <1>14,
     <1>15, <1>16, <1>17 DEF Next, ReviewStep, UpdateStep, QaStep

LEMMA SerialInit == ASSUME NEW Q \in SUBSET Tasks PROVE Init => SerialInv(Q)
BY ReviewInit DEF Init, GraphInit, SerialInv, SerialRest, InFlight, At, Idle

(* Where no call is overtaken on its task: work on a proposal is approved, *)
(* a completed proposal was signed off by QA, and the sign-off belongs to  *)
(* the present round of testing, for every set of tasks and users and any  *)
(* number of calls in flight.                                              *)
THEOREM NotOvertakenReviews == Spec /\ [][NotOvertaken(Tasks)]_vars => []ReviewRespected
<1>1. Init => SerialInv(Tasks)  BY SerialInit
<1>2. SerialInv(Tasks) /\ [Next]_vars /\ [NotOvertaken(Tasks)]_vars => SerialInv(Tasks)'  BY SerialStepInv
<1>3. SerialInv(Tasks) => ReviewRespected
  BY SoundRows DEF SerialInv, SerialRest, ReviewInv
<1> QED  BY <1>1, <1>2, <1>3, PTL DEF Spec

-----------------------------------------------------------------------------
(* -- The gates of updateTask -------------------------------------------- *)

(* What the gates of updateTask have seen of the tasks a task needs and of *)
(* its checklist is still so when the status is written.                   *)
GateOpen(h, rows, edges, gone) ==
    /\ h.step = "prerequisites" => h.input.status = "IN_PROGRESS"
    /\ h.step = "checklist" => h.input.status = "IN_REVIEW"
    /\ h.step = "move" /\ h.input.status = "IN_PROGRESS" =>
          \A d \in Tasks : <<h.task, d>> \in edges => rows[d].status = "DONE" \/ d \in gone
    /\ h.step = "move" /\ h.input.status = "IN_REVIEW" => rows[h.task].checklist # "open"

(* Q: the tasks whose gates are left alone while a call goes on.           *)
GatesRest(Q) ==
    \A w \in Workers : InFlight(w, handler[w].task) /\ handler[w].task \in Q =>
        GateOpen(handler[w], task, needs, deleted)

GatesInv(Q) == SerialInv(Q) /\ GatesRest(Q)

(* A call that does not step itself finds what its gate saw.               *)
LEMMA OthersStayOpen ==
    ASSUME NEW Q \in SUBSET Tasks, GatesInv(Q), GatesUntouched(Q), deleted \subseteq deleted',
           NEW v \in Workers, handler'[v] = handler[v],
           InFlight(v, handler[v].task)', handler'[v].task \in Q
    PROVE  GateOpen(handler'[v], task', needs', deleted')
<1>1. PICK h : h = handler[v]
  OBVIOUS
<1>2. h.task \in Q /\ InFlight(v, h.task) /\ InFlight(v, h.task)' /\ GateOpen(h, task, needs, deleted)
  BY <1>1 DEF GatesInv, GatesRest, InFlight, At
<1>3. /\ \A d \in Tasks : <<h.task, d>> \in needs' =>
            <<h.task, d>> \in needs /\ task'[d].status = task[d].status
      /\ task'[h.task].checklist = task[h.task].checklist
  BY <1>2 DEF GatesUntouched
<1>4. GateOpen(h, task', needs', deleted')
  BY <1>2, <1>3 DEF GateOpen
<1> QED
  BY <1>1, <1>4

(* A step of one call.                                                     *)
LEMMA CallKeepsGates ==
    ASSUME NEW Q \in SUBSET Tasks, GatesInv(Q), GatesUntouched(Q), deleted \subseteq deleted',
           NEW w \in Workers, NEW h, Become(w, h),
           h.step # "idle" /\ h.task \in Q => GateOpen(h, task', needs', deleted')
    PROVE  GatesRest(Q)'
<1>1. \A v \in Workers : handler'[v] = IF v = w THEN h ELSE handler[v]
  BY DEF GatesInv, SerialInv, ReviewInv, TypeOK, Become
<1>2. ASSUME NEW v \in Workers, InFlight(v, handler[v].task)', handler'[v].task \in Q
      PROVE  GateOpen(handler'[v], task', needs', deleted')
  <2>1. CASE v = w
    BY <1>1, <1>2, <2>1 DEF InFlight, At
  <2>2. CASE v # w
    BY <1>1, <1>2, <2>2, OthersStayOpen
  <2> QED
    BY <2>1, <2>2
<1> QED
  BY <1>2 DEF GatesRest

(* A step outside the calls.                                               *)
LEMMA OutsideKeepsGates ==
    ASSUME NEW Q \in SUBSET Tasks, GatesInv(Q), GatesUntouched(Q), deleted \subseteq deleted',
           UNCHANGED handler
    PROVE  GatesRest(Q)'
BY OthersStayOpen DEF GatesRest

LEMMA GatesStep ==
    ASSUME NEW Q \in SUBSET Tasks, GatesInv(Q), [Next]_vars, [NotOvertaken(Q)]_vars, [GatesUntouched(Q)]_vars
    PROVE  GatesInv(Q)'
<1>s. SerialInv(Q)'
  BY SerialStepInv DEF GatesInv
<1>u. CASE UNCHANGED vars
  BY <1>s, <1>u DEF vars, graphVars, GatesInv, GatesRest, InFlight, At
<1>g. CASE ~UNCHANGED vars
<2>0. /\ TypeOK /\ GatesUntouched(Q) /\ Next
      /\ \A w \in Workers : Busy(w) /\ handler[w].task \in Q => GateOpen(handler[w], task, needs, deleted)
  BY <1>g DEF GatesInv, GatesRest, SerialInv, ReviewInv, InFlight, Busy
<2>d. deleted \subseteq deleted'
  BY TaskStepIsGraphStep DEF GraphNext, DependencyStep, DependencyRead, DependencyWrite, DependencyAbort,
     removeTaskDependency, Insert, SoftDelete, graphVars
<2>1. ASSUME NEW w \in Workers, NEW h, Become(w, h),
             h.step # "idle" /\ h.task \in Q => GateOpen(h, task', needs', deleted')
      PROVE  GatesInv(Q)'
  BY <1>s, <2>0, <2>d, <2>1, CallKeepsGates DEF GatesInv
<2>2. ASSUME NEW w \in Workers, NEW h, Become(w, h),
             h.step \in {"submit", "review", "verifyQa", "addItem", "completeItem", "reopenItem", "overwrite"}
      PROVE  GatesInv(Q)'
  <3>1. GateOpen(h, task', needs', deleted')
    BY <2>2 DEF GateOpen
  <3> QED
    BY <2>1, <2>2, <3>1
<2>3. ASSUME NEW w \in Workers, NEW u \in Users, NEW t \in Tasks, SubmitRead(w, u, t) PROVE GatesInv(Q)'
  <3>1. PICK h : h = [step |-> "submit", task |-> t]
    OBVIOUS
  <3> QED
    BY <2>2, <2>3, <3>1 DEF SubmitRead
<2>4. ASSUME NEW w \in Workers, NEW u \in Users, NEW t \in Tasks, NEW decision \in Decision,
             ReviewRead(w, u, t, decision)
      PROVE  GatesInv(Q)'
  <3>1. PICK h : h = [step |-> "review", task |-> t, user |-> u, decision |-> decision]
    OBVIOUS
  <3> QED
    BY <2>2, <2>4, <3>1 DEF ReviewRead
<2>5. ASSUME NEW w \in Workers, NEW u \in Users, NEW t \in Tasks, VerifyRead(w, u, t) PROVE GatesInv(Q)'
  <3>1. PICK h : h = [step |-> "verifyQa", task |-> t, user |-> u]
    OBVIOUS
  <3> QED
    BY <2>2, <2>5, <3>1 DEF VerifyRead
<2>6. ASSUME NEW w \in Workers, NEW u \in Users, NEW t \in Tasks, ChecklistRead(w, u, t) PROVE GatesInv(Q)'
  <3>1. PICK step \in {"addItem", "completeItem", "reopenItem"} : Become(w, [step |-> step, task |-> t])
    BY <2>6 DEF ChecklistRead
  <3>2. PICK h : h = [step |-> step, task |-> t]
    OBVIOUS
  <3> QED
    BY <2>2, <3>1, <3>2
<2>7. ASSUME NEW w \in Workers, NEW u \in Users, NEW t \in Tasks, NEW input \in Update, UpdateRead(w, u, t, input)
      PROVE  GatesInv(Q)'
  <3>1. CASE ~Gated(task[t], input)
    <4>1. PICK h : h = [step |-> "overwrite", task |-> t, input |-> input]
      OBVIOUS
    <4> QED
      BY <2>2, <2>7, <3>1, <4>1 DEF UpdateRead
  <3>2. CASE Gated(task[t], input)
    <4>1. PICK step : step = CASE input.status = "IN_PROGRESS" -> "prerequisites"
                               [] input.status = "IN_REVIEW" -> "checklist"
                               [] OTHER -> "move"
      OBVIOUS
    <4>2. PICK h : h = [step |-> step, task |-> t, input |-> input,
                        from |-> task[t].status, verified |-> task[t].qa # Nobody]
      OBVIOUS
    <4>3. h.step = step /\ h.input = input
      BY <4>2
    <4>4. GateOpen(h, task', needs', deleted')
      BY <4>1, <4>3 DEF GateOpen
    <4>5. Become(w, h)
      BY <2>7, <3>2, <4>1, <4>2 DEF UpdateRead
    <4> QED
      BY <2>1, <4>4, <4>5
  <3> QED
    BY <3>1, <3>2
<2>8. ASSUME NEW w \in Workers, Finish(w) PROVE GatesInv(Q)'
  <3>1. PICK h : h = Idle
    OBVIOUS
  <3>2. h.step = "idle"
    BY <3>1 DEF Idle
  <3> QED
    BY <2>1, <2>8, <3>1, <3>2 DEF Finish
<2>9. ASSUME NEW w \in Workers, CheckPrerequisites(w) \/ CheckChecklist(w) PROVE GatesInv(Q)'
  <3>1. PICK g \in Handler : g = handler[w]
    BY <2>0 DEF TypeOK
  <3>2. PICK h : h = [g EXCEPT !.step = "move"]
    OBVIOUS
  <3>3. /\ g.step \in {"prerequisites", "checklist"} /\ UNCHANGED <<needs, deleted, task>>
        /\ g.task \in Q => GateOpen(g, task, needs, deleted)
    BY <2>0, <2>9, <3>1 DEF CheckPrerequisites, CheckChecklist, Busy, At, graphVars
  <3>4. h.step = "move" /\ h.input = g.input /\ h.task = g.task
    BY <3>1, <3>2, <3>3 DEF Handler, Idle
  <3>5. CASE Become(w, Idle)
    BY <2>8, <3>5 DEF Finish
  <3>6. CASE Become(w, h) /\ g.step = "prerequisites" /\ Pending(g.task) = {}
    <4>1. g.task \in Q => GateOpen(h, task', needs', deleted')
      BY <3>3, <3>4, <3>6 DEF GateOpen, Pending
    <4> QED
      BY <2>1, <3>4, <3>6, <4>1
  <3>7. CASE Become(w, h) /\ g.step = "checklist" /\ task[g.task].checklist # "open"
    <4>1. g.task \in Q => GateOpen(h, task', needs', deleted')
      BY <3>3, <3>4, <3>7 DEF GateOpen
    <4> QED
      BY <2>1, <3>4, <3>7, <4>1
  <3> QED
    BY <2>9, <3>1, <3>2, <3>5, <3>6, <3>7 DEF CheckPrerequisites, CheckChecklist, At
<2>10. ASSUME NEW w \in Workers,
              SubmitWrite(w) \/ ReviewWrite(w) \/ Move(w) \/ Overwrite(w) \/ VerifyWrite(w) \/ ChecklistWrite(w) \/ Abort(w)
       PROVE  GatesInv(Q)'
  BY <2>8, <2>10 DEF SubmitWrite, ReviewWrite, Move, Overwrite, VerifyWrite, ChecklistWrite, Abort
<2>11. ASSUME UNCHANGED handler PROVE GatesInv(Q)'
  BY <1>s, <2>0, <2>d, <2>11, OutsideKeepsGates DEF GatesInv
<2>12. \/ UNCHANGED handler
       \/ \E w \in Workers : ReviewStep(w) \/ UpdateStep(w) \/ QaStep(w) \/ Abort(w)
  BY <2>0 DEF Next, Dependencies, createTask, createEngineeringTask, deleteTask
<2> QED
  BY <2>3, <2>4, <2>5, <2>6, <2>7, <2>9, <2>10, <2>11, <2>12 DEF ReviewStep, UpdateStep, QaStep, Requests
<1> QED
  BY <1>u, <1>g

(* A step that passes a gate.                                              *)
PassesGates(Q) ==
    \A t \in Q : Proposal(t) /\ task'[t].status # task[t].status =>
        /\ task'[t].status = "IN_PROGRESS" => \A d \in Tasks : <<t, d>> \in needs =>
              task[d].status = "DONE" \/ d \in deleted
        /\ task'[t].status = "IN_REVIEW" => task[t].checklist # "open"

LEMMA StepPassesGates ==
    ASSUME NEW Q \in SUBSET Tasks, GatesInv(Q), [Next]_vars PROVE PassesGates(Q)
<1>0. /\ TypeOK /\ \A w \in Workers : handler[w] \in Handler
      /\ \A w \in Workers : Busy(w) /\ handler[w].task \in Q =>
            GateOpen(handler[w], task, needs, deleted) /\ FreshCall(handler[w], task[handler[w].task])
  BY DEF GatesInv, GatesRest, SerialInv, SerialRest, ReviewInv, TypeOK, InFlight, Busy
<1>1. ASSUME \A t \in created : task'[t].status = task[t].status PROVE PassesGates(Q)
  BY <1>1 DEF PassesGates, Proposal
<1>2. ASSUME UNCHANGED task PROVE PassesGates(Q)
  BY <1>2 DEF PassesGates
<1>3. ASSUME NEW w \in Workers, SubmitWrite(w) \/ ReviewWrite(w) \/ VerifyWrite(w) \/ ChecklistWrite(w)
      PROVE  PassesGates(Q)
  <2>1. \A t \in Tasks : task'[t].status = task[t].status
    BY <1>0, <1>3 DEF SubmitWrite, ReviewWrite, VerifyWrite, ChecklistWrite, TypeOK, TaskRow
  <2> QED
    BY <2>1 DEF PassesGates
<1>4. ASSUME NEW w \in Workers, Move(w) PROVE PassesGates(Q)
  <2>1. PICK h \in Handler : h = handler[w] /\ h.step = "move" /\ (h.task \in Q => GateOpen(h, task, needs, deleted))
    BY <1>0, <1>4 DEF Move, At, Busy
  <2>2. h.task \in Tasks /\ h.input.status \in Status
    BY <2>1, HandlerShape DEF Update
  <2>3. CASE task' = [task EXCEPT ![h.task] = Moved(@, h)]
    <3>1. \A t \in Tasks \ {h.task} : task'[t] = task[t]
      BY <1>0, <2>3 DEF TypeOK
    <3>2. task'[h.task].status = h.input.status
      BY <1>0, <2>2, <2>3 DEF TypeOK, TaskRow, Moved
    <3> QED
      BY <2>1, <3>1, <3>2 DEF PassesGates, GateOpen
  <2> QED
    BY <1>2, <1>4, <2>1, <2>3 DEF Move
<1>5. ASSUME NEW w \in Workers, Overwrite(w) PROVE PassesGates(Q)
  <2>1. PICK h \in Handler : h = handler[w] /\ h.step = "overwrite"
    BY <1>0, <1>5 DEF Overwrite, At
  <2>2. h.task \in Tasks
    BY <2>1, HandlerShape
  <2>3. PICK row \in TaskRow : row = task[h.task]
    BY <1>0, <2>2 DEF TypeOK
  <2>4. h.task \in Q /\ row.reviewRequired => h.input.status \in {Keep, row.status}
    BY <1>0, <2>1, <2>3 DEF FreshCall, Busy, At
  <2>5. /\ task'[h.task].status = IF h.input.status = Keep THEN row.status ELSE h.input.status
        /\ \A t \in Tasks \ {h.task} : task'[t] = task[t]
    BY <1>0, <1>5, <2>1, <2>2, <2>3 DEF Overwrite, TypeOK, TaskRow
  <2> QED
    BY <2>3, <2>4, <2>5 DEF PassesGates, Proposal
<1>6. ASSUME NEW t \in Tasks, NEW status, NEW assignee, createTask(t, status, assignee) PROVE PassesGates(Q)
  BY <1>0, <1>1, <1>6 DEF createTask, Insert, TypeOK, GraphTypeOK
<1>7. ASSUME NEW t \in Tasks, NEW u, NEW assignee, NEW items, NEW D, createEngineeringTask(t, u, assignee, items, D)
      PROVE  PassesGates(Q)
  BY <1>0, <1>1, <1>7 DEF createEngineeringTask, Insert, TypeOK, GraphTypeOK
<1>8. \/ UNCHANGED task
      \/ \E w \in Workers : \/ SubmitWrite(w) \/ ReviewWrite(w) \/ VerifyWrite(w) \/ ChecklistWrite(w)
                            \/ Move(w) \/ Overwrite(w)
      \/ \E t \in Tasks, status \in PlainStatus, assignee \in User : createTask(t, status, assignee)
      \/ \E t \in Tasks, u, assignee \in Users, items \in {"none", "open"}, D \in SUBSET Tasks :
            createEngineeringTask(t, u, assignee, items, D)
  BY DEF Next, vars, ReviewStep, UpdateStep, QaStep, SubmitRead, ReviewRead, UpdateRead, CheckPrerequisites,
         CheckChecklist, VerifyRead, ChecklistRead, Abort, Dependencies, deleteTask
<1> QED
  BY <1>2, <1>3, <1>4, <1>5, <1>6, <1>7, <1>8

LEMMA GatesInit == ASSUME NEW Q \in SUBSET Tasks PROVE Init => GatesInv(Q)
BY SerialInit DEF Init, GatesInv, GatesRest, InFlight, At, Idle

(* Where no call is overtaken and what its gates saw is left alone: a      *)
(* proposal is taken up only when what it needs is done, and goes to       *)
(* review only with no open checklist item, although the gate is read in   *)
(* one step and the status written in another, and other calls work on     *)
(* other tasks, file and delete tasks and remove edges in between.         *)
THEOREM UntouchedGatesHold ==
    Spec /\ [][NotOvertaken(Tasks)]_vars /\ [][GatesUntouched(Tasks)]_vars => GatesHold
<1>1. Init => GatesInv(Tasks)
  BY GatesInit
<1>2. GatesInv(Tasks) /\ [Next]_vars /\ [NotOvertaken(Tasks)]_vars /\ [GatesUntouched(Tasks)]_vars => GatesInv(Tasks)'
  BY GatesStep
<1>3. GatesInv(Tasks) /\ [Next]_vars => PassesGates(Tasks)
  BY StepPassesGates
<1> QED
  BY <1>1, <1>2, <1>3, PTL DEF Spec, GatesHold, PassesGates

-----------------------------------------------------------------------------
(* -- One call at a time ------------------------------------------------- *)

(* A call on a task and one that adds an edge are not the same.            *)
CallInv == ReviewInv /\ \A w \in Workers : Busy(w) => adding[w] = NoEdge

(* What a step of a call on a task does to the rest.                       *)
LEMMA CallStep ==
    ASSUME ReviewInv, NEW w \in Workers, ReviewStep(w) \/ UpdateStep(w) \/ QaStep(w) \/ Abort(w)
    PROVE  /\ UNCHANGED graphVars
           /\ Free(w) \/ Busy(w)
           /\ \E h : Become(w, h)
           /\ UNCHANGED task \/ Finish(w)
<1>1. CASE ReviewStep(w)
  BY <1>1 DEF ReviewStep, SubmitRead, SubmitWrite, ReviewRead, ReviewWrite, Finish, Busy, At
<1>2. CASE UpdateStep(w)
  <2>1. \A h \in {"prerequisites", "checklist", "move", "overwrite"} : At(w, h) => Busy(w)
    BY DEF Busy, At
  <2> QED
    BY <1>2, <2>1 DEF UpdateStep, UpdateRead, CheckPrerequisites, CheckChecklist, Move, Overwrite, Finish
<1>3. CASE QaStep(w)
  BY <1>3 DEF QaStep, VerifyRead, VerifyWrite, ChecklistRead, ChecklistWrite, Finish, Busy, At
<1>4. CASE Abort(w)
  BY <1>4 DEF Abort, Finish, Busy
<1> QED
  BY <1>1, <1>2, <1>3, <1>4

(* A step that files a task, changes edges or deletes.                     *)
LEMMA OtherStep ==
    ASSUME ReviewInv, [Next]_vars, ~\E w \in Workers : ReviewStep(w) \/ UpdateStep(w) \/ QaStep(w) \/ Abort(w)
    PROVE  /\ UNCHANGED handler
           /\ \A t \in created : task'[t] = task[t]
           /\ \A e \in needs' : e \in needs \/ e[1] \notin created \/ \E w \in Workers : DependencyWrite(w)
           /\ \A w \in Workers : Busy(w) /\ adding[w] = NoEdge => adding'[w] = NoEdge
<1>0. created \subseteq Tasks /\ task \in [Tasks -> TaskRow]
  BY DEF ReviewInv, TypeOK, GraphTypeOK
<1>1. CASE Dependencies
  BY <1>1 DEF Dependencies, DependencyStep, DependencyRead, DependencyAbort, removeTaskDependency, Busy
<1>2. ASSUME NEW t \in Tasks, NEW status, NEW assignee, createTask(t, status, assignee)
      PROVE  /\ UNCHANGED <<handler, adding>>
             /\ \A d \in created : task'[d] = task[d]
             /\ \A e \in needs' : e \in needs \/ e[1] \notin created
  BY <1>0, <1>2 DEF createTask, Insert
<1>3. ASSUME NEW t \in Tasks, NEW u, NEW assignee, NEW items, NEW D, createEngineeringTask(t, u, assignee, items, D)
      PROVE  /\ UNCHANGED <<handler, adding>>
             /\ \A d \in created : task'[d] = task[d]
             /\ \A e \in needs' : e \in needs \/ e[1] \notin created
  BY <1>0, <1>3 DEF createEngineeringTask, Insert
<1>4. ASSUME NEW t \in Tasks, deleteTask(t) PROVE UNCHANGED <<handler, adding, task, needs>>
  BY <1>4 DEF deleteTask, SoftDelete
<1>5. CASE UNCHANGED vars
  BY <1>5 DEF vars, graphVars
<1> QED
  BY <1>1, <1>2, <1>3, <1>4, <1>5 DEF Next

LEMMA CallInvStep == CallInv /\ [Next]_vars => CallInv'
<1> SUFFICES ASSUME CallInv, [Next]_vars PROVE \A v \in Workers : Busy(v)' => adding'[v] = NoEdge
  BY ReviewStepInv DEF CallInv
<1>1. ASSUME NEW w \in Workers, ReviewStep(w) \/ UpdateStep(w) \/ QaStep(w) \/ Abort(w)
      PROVE  \A v \in Workers : Busy(v)' => adding'[v] = NoEdge
  <2>1. /\ UNCHANGED adding /\ adding[w] = NoEdge
        /\ \A v \in Workers \ {w} : handler'[v] = handler[v]
    BY <1>1, CallStep DEF CallInv, ReviewInv, TypeOK, graphVars, Free, Become
  <2> QED
    BY <2>1 DEF CallInv, Busy, At
<1>2. CASE ~\E w \in Workers : ReviewStep(w) \/ UpdateStep(w) \/ QaStep(w) \/ Abort(w)
  BY <1>2, OtherStep DEF CallInv, Busy, At
<1> QED
  BY <1>1, <1>2

LEMMA OneCallIsAlone ==
    ASSUME \A v, w \in Workers : v = w, NEW Q \in SUBSET Tasks, CallInv, [Next]_vars
    PROVE  NotOvertaken(Q) /\ GatesUntouched(Q)
<1>0. /\ handler \in [Workers -> Handler] /\ needs \subseteq created \X created
      /\ \A w \in Workers : Busy(w) => handler[w].task \in created
  BY DEF CallInv, ReviewInv, TypeOK, GraphTypeOK
<1>1. ASSUME NEW w \in Workers, ReviewStep(w) \/ UpdateStep(w) \/ QaStep(w) \/ Abort(w)
      PROVE  NotOvertaken(Q) /\ GatesUntouched(Q)
  <2>1. UNCHANGED needs
    BY <1>1, CallStep DEF CallInv, graphVars
  <2>2. CASE UNCHANGED task
    BY <2>1, <2>2 DEF NotOvertaken, Decided, GatesUntouched
  <2>3. CASE Finish(w)
    <3>1. \A v \in Workers : handler'[v].step = "idle"
      BY <1>0, <2>3 DEF Finish, Become, Idle
    <3> QED
      BY <3>1 DEF NotOvertaken, GatesUntouched, InFlight, At
  <2> QED
    BY <1>1, <2>2, <2>3, CallStep DEF CallInv
<1>2. ASSUME ~\E w \in Workers : ReviewStep(w) \/ UpdateStep(w) \/ QaStep(w) \/ Abort(w)
      PROVE  NotOvertaken(Q) /\ GatesUntouched(Q)
  <2>1. /\ UNCHANGED handler
        /\ \A t \in created : task'[t] = task[t]
        /\ \A e \in needs' : e \in needs \/ e[1] \notin created \/ \E w \in Workers : DependencyWrite(w)
    BY <1>2, OtherStep DEF CallInv
  <2>2. \A w \in Workers, t \in Q : InFlight(w, t) => t \in created /\ Busy(w) /\ ~DependencyWrite(w)
    BY <1>0 DEF InFlight, Busy, CallInv, DependencyWrite
  <2>3. NotOvertaken(Q)
    BY <2>1, <2>2 DEF NotOvertaken, Decided, InFlight, At
  <2>4. GatesUntouched(Q)
    <3> SUFFICES ASSUME NEW w \in Workers, NEW t \in Q, InFlight(w, t)
                 PROVE  /\ \A d \in Tasks : <<t, d>> \in needs' =>
                              <<t, d>> \in needs /\ task'[d].status = task[d].status
                        /\ task'[t].checklist = task[t].checklist
      BY DEF GatesUntouched
    <3>1. t \in created /\ \A v \in Workers : ~DependencyWrite(v)
      BY <2>2
    <3>2. ASSUME NEW d \in Tasks, <<t, d>> \in needs' PROVE <<t, d>> \in needs /\ d \in created
      BY <1>0, <2>1, <3>1, <3>2
    <3> QED
      BY <2>1, <3>1, <3>2
  <2> QED
    BY <2>3, <2>4
<1> QED
  BY <1>1, <1>2

(* A call at a time is never overtaken.                                    *)
LEMMA OneCallAtATime ==
    ASSUME \A v, w \in Workers : v = w
    PROVE  Spec => [][NotOvertaken(Tasks)]_vars /\ [][GatesUntouched(Tasks)]_vars
<1>1. Init => CallInv
  BY ReviewInit DEF Init, CallInv, Busy, At, Idle
<1>2. CallInv /\ [Next]_vars => [NotOvertaken(Tasks)]_vars /\ [GatesUntouched(Tasks)]_vars
  BY OneCallIsAlone
<1> QED
  BY <1>1, <1>2, CallInvStep, PTL DEF Spec

(* One call at a time: work is approved and completed work verified.       *)
THEOREM TasksSerial ==
    ASSUME \A v, w \in Workers : v = w
    PROVE  Spec => []ReviewRespected
<1> QED  BY OneCallAtATime, NotOvertakenReviews, PTL

(* One call at a time: no proposal passes a closed gate of updateTask.     *)
THEOREM GatesStayClosed ==
    ASSUME \A v, w \in Workers : v = w
    PROVE  Spec => GatesHold
<1> QED  BY OneCallAtATime, UntouchedGatesHold, PTL

-----------------------------------------------------------------------------
(* -- Pages -------------------------------------------------------------- *)

Working == {"IN_PROGRESS", "BLOCKED", "IN_REVIEW", "TESTING", "DONE"}

(* The statuses that a proposal can have after it had status s.            *)
After(s) == CASE s = "TODO" -> Working \cup {"TODO", "CANCELLED"}
              [] s \in Working -> Working \cup {"CANCELLED"}
              [] s = "CANCELLED" -> {"CANCELLED"}
              [] OTHER -> {}

(* The status s that a page has of proposal t is one that t had.           *)
WasSeen(s, t, rows, known) == t \in Proposals /\ t \in known /\ rows[t].status \in After(s)

ProposalRow(row) == row.reviewRequired /\ row.status \in Working \cup {"TODO", "CANCELLED"}

(* What the pages show and what the calls in flight are from.              *)
PagesInv ==
    /\ SerialInv(Proposals)
    /\ \A t \in Proposals : ProposalRow(task[t])
    /\ shown \in [Tabs -> [Proposals -> Status \cup {"none"}]]
    /\ \A tab \in Tabs, t \in Proposals : shown[tab][t] # "none" => WasSeen(shown[tab][t], t, task, created)
    /\ form \in [Tabs -> {NoForm} \cup [task : Tasks, status : Status]]
    /\ \A tab \in Tabs : form[tab] # NoForm => WasSeen(form[tab].status, form[tab].task, task, created)
    /\ caller \in [Workers -> [tab : Tabs \cup {NoTab}, isForm : BOOLEAN]]
    /\ \A w \in Workers : At(w, "idle") => caller[w] = NoCaller

LEMMA AfterMoves ==
    ASSUME NEW s, NEW c \in After(s), NEW d \in {c} \cup transitions[c], c \in Status
    PROVE  d \in After(s)
BY DEF After, Working, transitions, Status

(* A proposal moves along the table or keeps its status.                   *)
StatusFollows(t) ==
    /\ ProposalRow(task[t])'
    /\ t \in created => t \in created' /\ task'[t].status \in {task[t].status} \cup transitions[task[t].status]

LEMMA ProposalsFollow ==
    ASSUME SerialInv(Proposals), \A t \in Proposals : ProposalRow(task[t]), [Next]_vars
    PROVE  \A t \in Proposals : StatusFollows(t)
<1>0. /\ TypeOK /\ \A w \in Workers : handler[w] \in Handler
      /\ \A w \in Workers : Busy(w) /\ handler[w].task \in Proposals => FreshCall(handler[w], task[handler[w].task])
      /\ Proposals \subseteq Tasks /\ \A t \in Proposals : task[t] \in TaskRow
  BY TasksAssumption DEF SerialInv, SerialRest, ReviewInv, TypeOK, TasksAssumption, InFlight, Busy
<1>1. ASSUME created \subseteq created', \A t \in Proposals : task'[t].status = task[t].status /\ task'[t].reviewRequired = task[t].reviewRequired
      PROVE  \A t \in Proposals : StatusFollows(t)
  BY <1>1 DEF StatusFollows, ProposalRow
<1>2. ASSUME NEW w \in Workers, SubmitWrite(w) \/ ReviewWrite(w) \/ VerifyWrite(w) \/ ChecklistWrite(w)
      PROVE  \A t \in Proposals : StatusFollows(t)
  <2>1. UNCHANGED created
    BY <1>2 DEF SubmitWrite, ReviewWrite, VerifyWrite, ChecklistWrite, graphVars
  <2>2. \A t \in Tasks : task'[t].status = task[t].status /\ task'[t].reviewRequired = task[t].reviewRequired
    BY <1>0, <1>2 DEF SubmitWrite, ReviewWrite, VerifyWrite, ChecklistWrite, TypeOK, TaskRow
  <2> QED
    BY <1>0, <1>1, <2>1, <2>2
<1>3. ASSUME NEW w \in Workers, Move(w) PROVE \A t \in Proposals : StatusFollows(t)
  <2>1. PICK h \in Handler : h = handler[w] /\ h.step = "move"
    BY <1>0, <1>3 DEF Move, At
  <2>2. /\ h.task \in Tasks /\ h.input.status \in Status
        /\ h.task \in Proposals => h.input.status \in transitions[h.from]
    BY <1>0, <2>1, HandlerShape DEF Update, FreshCall, Busy, At
  <2>3. CASE task' = [task EXCEPT ![h.task] = Moved(@, h)] /\ task[h.task].status = h.from
    <3>1. \A t \in Tasks \ {h.task} : task'[t] = task[t]
      BY <1>0, <2>3 DEF TypeOK
    <3>2. task'[h.task].status = h.input.status /\ task'[h.task].reviewRequired = task[h.task].reviewRequired
      BY <1>0, <2>2, <2>3 DEF TypeOK, TaskRow, Moved
    <3>3. \A c \in Working \cup {"TODO", "CANCELLED"} : transitions[c] \subseteq Working \cup {"TODO", "CANCELLED"}
      BY DEF Working, transitions
    <3>4. UNCHANGED created
      BY <1>3 DEF Move, graphVars
    <3> QED
      BY <2>2, <2>3, <3>1, <3>2, <3>3, <3>4, <1>0 DEF StatusFollows, ProposalRow
  <2>4. CASE UNCHANGED task
    BY <1>1, <1>3, <2>4 DEF Move, graphVars
  <2> QED
    BY <1>3, <2>1, <2>3, <2>4 DEF Move
<1>4. ASSUME NEW w \in Workers, Overwrite(w) PROVE \A t \in Proposals : StatusFollows(t)
  <2>1. PICK h \in Handler : h = handler[w] /\ h.step = "overwrite"
    BY <1>0, <1>4 DEF Overwrite, At
  <2>2. h.task \in Tasks
    BY <2>1, HandlerShape
  <2>3. PICK row \in TaskRow : row = task[h.task]
    BY <1>0, <2>2 DEF TypeOK
  <2>4. h.task \in Proposals /\ row.reviewRequired => h.input.status \in {Keep, row.status}
    BY <1>0, <2>1, <2>3 DEF FreshCall, Busy, At
  <2>5. /\ task'[h.task].status = IF h.input.status = Keep THEN row.status ELSE h.input.status
        /\ task'[h.task].reviewRequired = row.reviewRequired
        /\ \A t \in Tasks \ {h.task} : task'[t] = task[t]
    BY <1>0, <1>4, <2>1, <2>2, <2>3 DEF Overwrite, TypeOK, TaskRow
  <2>6. h.task \in Proposals => row.reviewRequired
    BY <2>3 DEF ProposalRow
  <2>7. \A t \in Proposals : task'[t].status = task[t].status /\ task'[t].reviewRequired = task[t].reviewRequired
    BY <1>0, <2>3, <2>4, <2>5, <2>6
  <2> QED
    BY <1>1, <1>4, <2>7 DEF Overwrite, graphVars
<1>5. ASSUME NEW t \in Tasks, NEW status, NEW assignee, createTask(t, status, assignee)
      PROVE  \A p \in Proposals : StatusFollows(p)
  <2>1. \A p \in Proposals : task'[p] = task[p]
    BY <1>0, <1>5 DEF createTask, TypeOK
  <2>2. created \subseteq created'
    BY <1>5 DEF createTask, Insert
  <2> QED
    BY <1>1, <2>1, <2>2
<1>6. ASSUME NEW t \in Tasks, NEW u, NEW assignee, NEW items, NEW D, createEngineeringTask(t, u, assignee, items, D)
      PROVE  \A p \in Proposals : StatusFollows(p)
  <2>1. t \notin created /\ created' = created \cup {t} /\ t \in Proposals
    BY <1>6 DEF createEngineeringTask, Insert
  <2>2. PICK row : row = [NoTask EXCEPT !.status = "TODO", !.reporter = u, !.assignee = assignee, !.checklist = items]
    OBVIOUS
  <2>3. row.status = "TODO" /\ row.reviewRequired = TRUE
    BY <2>2 DEF NoTask
  <2>4. task'[t] = row /\ \A p \in Tasks \ {t} : task'[p] = task[p]
    BY <1>0, <1>6, <2>2 DEF createEngineeringTask, TypeOK
  <2> QED
    BY <1>0, <2>1, <2>3, <2>4 DEF StatusFollows, ProposalRow
<1>7. created \subseteq created'
  BY TaskStepIsGraphStep DEF GraphNext, DependencyStep, DependencyRead, DependencyWrite, DependencyAbort,
     removeTaskDependency, Insert, SoftDelete, graphVars
<1>8. \/ UNCHANGED task
      \/ \E w \in Workers : \/ SubmitWrite(w) \/ ReviewWrite(w) \/ VerifyWrite(w) \/ ChecklistWrite(w)
                            \/ Move(w) \/ Overwrite(w)
      \/ \E t \in Tasks, status \in PlainStatus, assignee \in User : createTask(t, status, assignee)
      \/ \E t \in Tasks, u, assignee \in Users, items \in {"none", "open"}, D \in SUBSET Tasks :
            createEngineeringTask(t, u, assignee, items, D)
  BY DEF Next, vars, ReviewStep, UpdateStep, QaStep, SubmitRead, ReviewRead, UpdateRead, CheckPrerequisites,
         CheckChecklist, VerifyRead, ChecklistRead, Abort, Dependencies, deleteTask
<1> QED
  BY <1>1, <1>2, <1>3, <1>4, <1>5, <1>6, <1>7, <1>8

(* A page only sends calls of Tasks.                                       *)
LEMMA SendIsRead ==
    ASSUME NEW w \in Workers, NEW u \in Users, NEW t \in Proposals, NEW status \in Status, Send(w, u, t, status)
    PROVE  /\ Next /\ At(w, "idle") /\ UNCHANGED <<created, task>>
           /\ \E input \in Requests(t) : input.status = status /\ UpdateRead(w, u, t, input)
<1>1. status # Keep
  BY DEF Status, Keep
<1>2. PICK input : input = [status |-> status, assignee |-> Keep]
  OBVIOUS
<1>3. UpdateRead(w, u, t, input)
  BY <1>1, <1>2 DEF Send
<1>4. input \in Requests(t) /\ input.status = status
  BY <1>1, <1>2 DEF Requests, Update
<1>5. t \in Tasks
  BY TasksAssumption DEF TasksAssumption
<1>6. Next
  BY <1>3, <1>4, <1>5 DEF Next, UpdateStep
<1>7. At(w, "idle") /\ UNCHANGED <<created, task>>
  BY <1>3 DEF UpdateRead, Free, graphVars
<1> QED
  BY <1>3, <1>4, <1>6, <1>7

(* A form is about a proposal.                                             *)
FormsInv ==
    /\ \A tab \in Tabs : form[tab] # NoForm => form[tab].task \in Proposals
    /\ form \in [Tabs -> {NoForm} \cup [task : Proposals, status : Status \cup {"none"}]]
    /\ shown \in [Tabs -> [Proposals -> Status \cup {"none"}]]
    /\ TypeOK

LEMMA ScreenStepIsTaskStep ==
    ASSUME \A tab \in Tabs : form[tab] # NoForm => form[tab].task \in Proposals, [ScreenNext]_screenVars
    PROVE  [Next]_vars
<1>1. ASSUME NEW tab \in Tabs, NEW w \in Workers, NEW u \in Users, NEW status \in Status,
             SaveForm(tab, w, u, status) \/ \E t \in Proposals : Choose(tab, w, u, t, status)
      PROVE  Next
  BY <1>1, SendIsRead DEF SaveForm, Choose
<1>2. ASSUME NEW w \in Workers, Answer(w) PROVE Next
  BY <1>2 DEF Answer, Next
<1>3. ASSUME Elsewhere PROVE Next
  <2>1. Proposals \subseteq Tasks /\ {} \in SUBSET Tasks
    BY TasksAssumption DEF TasksAssumption
  <2> QED
    BY <1>3, <2>1 DEF Elsewhere, Next
<1> QED
  BY <1>1, <1>2, <1>3 DEF ScreenNext, screenVars, Load, CloseForm, OpenForm

LEMMA FormsStep == FormsInv /\ [ScreenNext]_screenVars => FormsInv'
<1> SUFFICES ASSUME FormsInv, [ScreenNext]_screenVars PROVE FormsInv'
  OBVIOUS
<1>0. TypeOK /\ TypeOK'
  BY ScreenStepIsTaskStep, TypeStep DEF FormsInv
<1> DEFINE FormOK == /\ \A tab \in Tabs : form'[tab] # NoForm => form'[tab].task \in Proposals
                     /\ form' \in [Tabs -> {NoForm} \cup [task : Proposals, status : Status \cup {"none"}]]
           ShownOK == shown' \in [Tabs -> [Proposals -> Status \cup {"none"}]]
<1>1. UNCHANGED form => FormOK
  BY DEF FormsInv
<1>2. UNCHANGED shown => ShownOK
  BY DEF FormsInv
<1>3. ASSUME NEW tab, NEW f \in {NoForm} \cup [task : Proposals, status : Status \cup {"none"}],
             form' = [form EXCEPT ![tab] = f]
      PROVE  FormOK
  BY <1>3 DEF FormsInv
<1>4. ASSUME NEW tab \in Tabs, Load(tab) PROVE ShownOK /\ FormOK
  <2>1. PICK page : page = [t \in Proposals |-> IF Live(t) THEN task[t].status ELSE "none"]
    OBVIOUS
  <2>2. page \in [Proposals -> Status \cup {"none"}]
    BY <1>0, <2>1, RowShape, TasksAssumption DEF TypeOK, TasksAssumption
  <2>3. shown' = [shown EXCEPT ![tab] = page] /\ UNCHANGED form
    BY <1>4, <2>1 DEF Load
  <2> QED
    BY <1>1, <2>2, <2>3 DEF FormsInv
<1>5. ASSUME NEW tab \in Tabs, NEW t \in Proposals, OpenForm(tab, t) PROVE ShownOK /\ FormOK
  <2>1. PICK f : f = [task |-> t, status |-> shown[tab][t]]
    OBVIOUS
  <2>2. f \in [task : Proposals, status : Status \cup {"none"}]
    BY <2>1 DEF FormsInv
  <2> QED
    BY <1>2, <1>3, <1>5, <2>1, <2>2 DEF OpenForm
<1>6. ASSUME NEW tab \in Tabs, CloseForm(tab) PROVE ShownOK /\ FormOK
  BY <1>2, <1>3, <1>6 DEF CloseForm
<1>7. ASSUME NEW w \in Workers, Answer(w) PROVE ShownOK /\ FormOK
  BY <1>1, <1>2, <1>3, <1>7 DEF Answer
<1>8. ShownOK /\ FormOK
  BY <1>1, <1>2, <1>4, <1>5, <1>6, <1>7 DEF ScreenNext, SaveForm, Choose, Elsewhere, screenVars
<1> QED
  BY <1>0, <1>8 DEF FormsInv

(* The pages work on Tasks: all their steps are steps of Tasks.            *)
THEOREM ScreensImplementTasks == ScreenSpec => Spec
<1>1. ScreenInit => FormsInv
  BY InitType DEF ScreenInit, FormsInv
<1>2. FormsInv /\ [ScreenNext]_screenVars => [Next]_vars
  BY ScreenStepIsTaskStep DEF FormsInv
<1>3. ScreenInit => Init
  BY DEF ScreenInit
<1> QED
  BY <1>1, <1>2, <1>3, FormsStep, PTL DEF ScreenSpec, Spec

LEMMA SeenStays ==
    ASSUME \A t \in Proposals : ProposalRow(task[t]) /\ StatusFollows(t), NEW s, NEW t, WasSeen(s, t, task, created)
    PROVE  WasSeen(s, t, task', created')
<1>1. t \in Proposals /\ t \in created /\ task[t].status \in After(s) /\ task[t].status \in Status
  BY DEF WasSeen, ProposalRow, Working, Status
<1>2. t \in created' /\ task'[t].status \in {task[t].status} \cup transitions[task[t].status]
  BY <1>1 DEF StatusFollows
<1>3. task'[t].status \in After(s)
  BY <1>1, <1>2, AfterMoves
<1> QED
  BY <1>1, <1>2, <1>3 DEF WasSeen

LEMMA PagesStep ==
    ASSUME PagesInv, [ScreenNext]_screenVars, [NotOvertaken(Proposals)]_vars PROVE PagesInv'
<1>0. [Next]_vars
  BY ScreenStepIsTaskStep DEF PagesInv, WasSeen
<1>1. SerialInv(Proposals)' /\ \A t \in Proposals : ProposalRow(task[t]) /\ StatusFollows(t)
  BY <1>0, SerialStepInv, ProposalsFollow, TasksAssumption DEF PagesInv, TasksAssumption
<1>2. \A s, t : WasSeen(s, t, task, created) => WasSeen(s, t, task', created')
  BY <1>1, SeenStays
<1>3. /\ shown \in [Tabs -> [Proposals -> Status \cup {"none"}]]
      /\ \A tab \in Tabs, t \in Proposals : shown[tab][t] # "none" => WasSeen(shown[tab][t], t, task, created)
      /\ form \in [Tabs -> {NoForm} \cup [task : Tasks, status : Status]]
      /\ \A tab \in Tabs : form[tab] # NoForm => WasSeen(form[tab].status, form[tab].task, task, created)
      /\ \A w \in Workers : At(w, "idle") => caller[w] = NoCaller
      /\ caller \in [Workers -> [tab : Tabs \cup {NoTab}, isForm : BOOLEAN]]
      /\ handler \in [Workers -> Handler] /\ handler' \in [Workers -> Handler] /\ ReviewInv
  BY <1>1 DEF PagesInv, SerialInv, ReviewInv, TypeOK
<1> DEFINE ShownOK == /\ shown' \in [Tabs -> [Proposals -> Status \cup {"none"}]]
                      /\ \A tab \in Tabs, t \in Proposals :
                            shown'[tab][t] # "none" => WasSeen(shown'[tab][t], t, task', created')
           FormOK == /\ form' \in [Tabs -> {NoForm} \cup [task : Tasks, status : Status]]
                     /\ \A tab \in Tabs : form'[tab] # NoForm => WasSeen(form'[tab].status, form'[tab].task, task', created')
           CallerOK == /\ caller' \in [Workers -> [tab : Tabs \cup {NoTab}, isForm : BOOLEAN]]
                       /\ \A w \in Workers : handler'[w].step = "idle" => caller'[w] = NoCaller
<1>4. UNCHANGED shown => ShownOK
  BY <1>2, <1>3
<1>5. UNCHANGED form => FormOK
  BY <1>2, <1>3
<1>6. UNCHANGED <<caller, handler>> => CallerOK
  BY <1>3 DEF At
<1>7. ASSUME ShownOK, FormOK, CallerOK PROVE PagesInv'
  BY <1>1, <1>7 DEF PagesInv, StatusFollows, At
<1>8. ASSUME NEW tab \in Tabs, Load(tab) PROVE PagesInv'
  <2>1. PICK page : page = [t \in Proposals |-> IF Live(t) THEN task[t].status ELSE "none"]
    OBVIOUS
  <2>2. shown' = [shown EXCEPT ![tab] = page] /\ UNCHANGED <<vars, form, caller>>
    BY <1>8, <2>1 DEF Load
  <2>3. UNCHANGED <<task, created, handler>>
    BY <2>2 DEF vars, graphVars
  <2>4. \A t \in Proposals : page[t] \in Status \cup {"none"}
    BY <1>1, <2>1 DEF ProposalRow, Working, Status
  <2>5. \A t \in Proposals : page[t] # "none" => WasSeen(page[t], t, task', created')
    BY <1>1, <2>1, <2>3 DEF ProposalRow, WasSeen, After, Working, Live
  <2>6. page \in [Proposals -> Status \cup {"none"}]
    BY <2>1, <2>4
  <2>7. shown'[tab] = page /\ \A other \in Tabs \ {tab} : shown'[other] = shown[other]
    BY <1>3, <2>2
  <2>8. ShownOK
    BY <1>2, <1>3, <2>2, <2>5, <2>6, <2>7
  <2> QED
    BY <1>5, <1>6, <1>7, <2>2, <2>3, <2>8
<1>9. ASSUME NEW tab \in Tabs, CloseForm(tab) PROVE PagesInv'
  <2>1. form' = [form EXCEPT ![tab] = NoForm] /\ UNCHANGED <<vars, shown, caller>>
    BY <1>9 DEF CloseForm
  <2>2. FormOK
    BY <1>2, <1>3, <2>1
  <2> QED
    BY <1>4, <1>6, <1>7, <2>1, <2>2 DEF vars
<1>10. ASSUME NEW tab \in Tabs, NEW t \in Proposals, OpenForm(tab, t) PROVE PagesInv'
  <2>1. PICK f : f = [task |-> t, status |-> shown[tab][t]]
    OBVIOUS
  <2>2. f.task = t /\ f.status = shown[tab][t] /\ t \in Tasks /\ f.status \in Status
    BY <1>3, <1>10, <2>1, TasksAssumption DEF OpenForm, TasksAssumption
  <2>3. f \in [task : Tasks, status : Status]
    BY <2>1, <2>2
  <2>4. form' = [form EXCEPT ![tab] = f] /\ UNCHANGED <<vars, shown, caller>> /\ shown[tab][t] # "none"
    BY <1>10, <2>1 DEF OpenForm
  <2>5. WasSeen(f.status, f.task, task', created')
    BY <1>2, <1>3, <2>2, <2>4
  <2>6. form'[tab] = f /\ \A other \in Tabs \ {tab} : form'[other] = form[other]
    BY <1>3, <2>4
  <2>7. FormOK
    BY <1>2, <1>3, <2>3, <2>4, <2>5, <2>6
  <2> QED
    BY <1>4, <1>6, <1>7, <2>4, <2>7 DEF vars
<1>11. ASSUME NEW tab \in Tabs, NEW w \in Workers, NEW isForm \in BOOLEAN, NEW u \in Users, NEW t \in Proposals,
              NEW status \in Status, Send(w, u, t, status), Call(tab, w, isForm), UNCHANGED <<shown, form>>
       PROVE  PagesInv'
  <2>1. PICK h : Become(w, h) /\ h.step # "idle"
    <3>1. PICK input : UpdateRead(w, u, t, input)
      BY <1>11, SendIsRead
    <3>2. handler'[w].step # "idle" /\ handler' = [handler EXCEPT ![w] = handler'[w]]
      BY <1>3, <3>1 DEF UpdateRead, Become
    <3> QED
      BY <3>2 DEF Become
  <2>2. PICK c : c = From(tab, isForm)
    OBVIOUS
  <2>3. c \in [tab : Tabs \cup {NoTab}, isForm : BOOLEAN] /\ caller' = [caller EXCEPT ![w] = c]
    BY <1>11, <2>2 DEF Call, From
  <2>4. CallerOK
    BY <1>3, <2>1, <2>3 DEF Become, At
  <2> QED
    BY <1>4, <1>5, <1>7, <1>11, <2>4
<1>12. ASSUME NEW tab \in Tabs, NEW w \in Workers, NEW u \in Users, NEW status \in Status,
              SaveForm(tab, w, u, status) \/ \E t \in Proposals : Choose(tab, w, u, t, status)
       PROVE  PagesInv'
  <2>1. form[tab] # NoForm => form[tab].task \in Proposals
    BY <1>3 DEF WasSeen
  <2> QED
    BY <1>11, <1>12, <2>1 DEF SaveForm, Choose
<1>13. ASSUME NEW w \in Workers, Answer(w) PROVE PagesInv'
  <2>1. \A v \in Workers \ {w} : handler'[v] = handler[v]
    BY <1>3, <1>13, CallStep DEF Answer, Become
  <2>2. handler'[w].step = "idle" => handler'[w] = Idle
    BY <1>3 DEF Handler, Idle
  <2>3. PICK c : c = NoCaller
    OBVIOUS
  <2>4. c \in [tab : Tabs \cup {NoTab}, isForm : BOOLEAN]
    BY <2>3 DEF NoCaller, From
  <2>5. CallerOK
    BY <1>3, <1>13, <2>1, <2>2, <2>3, <2>4 DEF Answer, At
  <2>6. PICK f : f = NoForm
    OBVIOUS
  <2>7. UNCHANGED form \/ form' = [form EXCEPT ![caller[w].tab] = f]
    BY <1>13, <2>6 DEF Answer
  <2>8. FormOK
    BY <1>2, <1>3, <2>6, <2>7
  <2> QED
    BY <1>4, <1>7, <1>13, <2>5, <2>8 DEF Answer
<1>14. ASSUME Elsewhere PROVE PagesInv'
  <2>1. UNCHANGED <<shown, form, caller>>
    BY <1>14 DEF Elsewhere
  <2>2. CASE UNCHANGED handler
    BY <1>4, <1>5, <1>6, <1>7, <2>1, <2>2
  <2>3. ASSUME NEW w \in Workers, At(w, "idle"), ReviewStep(w) \/ UpdateStep(w) \/ QaStep(w) PROVE PagesInv'
    <3>0. \A v \in Workers \ {w} : handler'[v] = handler[v]
      BY <1>3, <2>3, CallStep DEF Become
    <3>1. CallerOK
      BY <1>3, <2>1, <2>3, <3>0 DEF At
    <3> QED
      BY <1>4, <1>5, <1>7, <2>1, <3>1
  <2> QED
    BY <1>14, <2>2, <2>3 DEF Elsewhere, createEngineeringTask, deleteTask
<1>15. CASE UNCHANGED screenVars
  BY <1>4, <1>5, <1>6, <1>7, <1>15 DEF screenVars, vars
<1> QED
  BY <1>8, <1>9, <1>10, <1>12, <1>13, <1>14, <1>15 DEF ScreenNext

(* A call for the status that the page shows is refused, moves nothing, or *)
(* moves the proposal along one of the steps listed.                       *)
LEMMA SlipsOnly ==
    ASSUME NEW s, NEW c, c \in After(s), s \in transitions[c], c \in Working \cup {"TODO", "CANCELLED"}
    PROVE  <<c, s>> \in Slips
BY DEF After, Working, transitions, Slips

LEMMA StepIsUntouched ==
    ASSUME PagesInv, [ScreenNext]_screenVars PROVE UntouchedStep
<1> SUFFICES ASSUME NEW w \in Workers, NEW h, h = handler'[w], At(w, "idle"),
                    h.step \in {"prerequisites", "checklist", "move"}, caller'[w] # NoCaller,
                    h.input.status = Seen(caller'[w].tab, h.task)
             PROVE  <<h.from, h.input.status>> \in Slips
  BY DEF UntouchedStep
<1>0. /\ caller[w] = NoCaller /\ handler \in [Workers -> Handler]
      /\ caller \in [Workers -> [tab : Tabs \cup {NoTab}, isForm : BOOLEAN]]
      /\ \A t \in Proposals : ProposalRow(task[t])
      /\ \A tab \in Tabs, t \in Proposals : shown[tab][t] # "none" => WasSeen(shown[tab][t], t, task, created)
      /\ \A tab \in Tabs : form[tab] # NoForm => WasSeen(form[tab].status, form[tab].task, task, created)
  BY DEF PagesInv, SerialInv, ReviewInv, TypeOK
<1>1. PICK tab \in Tabs, u \in Users, status \in Status :
         SaveForm(tab, w, u, status) \/ \E t \in Proposals : Choose(tab, w, u, t, status)
  <2>1. UNCHANGED caller => FALSE
    BY <1>0
  <2>2. ASSUME NEW v \in Workers, Answer(v) PROVE FALSE
    BY <1>0, <2>2 DEF Answer
  <2>3. ASSUME NEW v \in Workers \ {w}, NEW tab, NEW isForm, Call(tab, v, isForm) PROVE FALSE
    BY <1>0, <2>3 DEF Call
  <2> QED
    BY <2>1, <2>2, <2>3 DEF ScreenNext, SaveForm, Choose, Load, CloseForm, OpenForm, Elsewhere, screenVars
<1>2. PICK t \in Proposals : /\ Send(w, u, t, status) /\ caller'[w].tab = tab
                             /\ \/ form[tab] # NoForm /\ t = form[tab].task
                                \/ form[tab] = NoForm /\ shown[tab][t] # "none"
  <2>1. CASE SaveForm(tab, w, u, status)
    BY <1>0, <2>1 DEF SaveForm, WasSeen, Call, From
  <2>2. ASSUME NEW t \in Proposals, Choose(tab, w, u, t, status)
        PROVE  Send(w, u, t, status) /\ caller'[w].tab = tab /\ form[tab] = NoForm /\ shown[tab][t] # "none"
    BY <1>0, <2>2 DEF Choose, Call, From
  <2> QED
    BY <1>1, <2>1, <2>2
<1>3. PICK input : input.status = status /\ UpdateRead(w, u, t, input)
  BY <1>2, SendIsRead
<1>4. h.task = t /\ h.input = input /\ h.from = task[t].status /\ status \in transitions[task[t].status]
  <2>1. PICK m : m = [step |-> "move", task |-> t, input |-> input,
                      from |-> task[t].status, verified |-> task[t].qa # Nobody]
    OBVIOUS
  <2>2. h \in {m, [m EXCEPT !.step = "prerequisites"], [m EXCEPT !.step = "checklist"]} /\ Allowed(task[t], input)
    BY <1>0, <1>3, <2>1 DEF UpdateRead, Become
  <2> QED
    BY <1>3, <2>1, <2>2 DEF Allowed
<1>5. WasSeen(status, t, task, created)
  BY <1>0, <1>2, <1>3, <1>4 DEF Seen
<1> QED
  BY <1>0, <1>3, <1>4, <1>5, SlipsOnly DEF WasSeen, ProposalRow

(* Where no call is overtaken on its proposal: a form saved without a      *)
(* change to its status, or a card dropped where it was, never cancels a   *)
(* task, never starts one and never skips the approval, however old the    *)
(* page is and however many calls are in flight.                           *)
THEOREM UntouchedSavesAreHarmless == ScreenSpec /\ [][NotOvertaken(Proposals)]_vars => UntouchedSaves
<1>1. ScreenInit => PagesInv
  <2> SUFFICES ASSUME ScreenInit PROVE PagesInv
    OBVIOUS
  <2>1. SerialInv(Proposals)
    BY SerialInit, TasksAssumption DEF ScreenInit, TasksAssumption
  <2>2. \A t \in Proposals : ProposalRow(task[t])
    BY TasksAssumption DEF ScreenInit, Init, TasksAssumption, ProposalRow, NoTask
  <2>3. NoCaller \in [tab : Tabs \cup {NoTab}, isForm : BOOLEAN]
    BY DEF NoCaller, From
  <2> QED
    BY <2>1, <2>2, <2>3 DEF ScreenInit, PagesInv
<1>2. PagesInv /\ [ScreenNext]_screenVars /\ [NotOvertaken(Proposals)]_vars => PagesInv'
  BY PagesStep
<1>3. PagesInv /\ [ScreenNext]_screenVars => UntouchedStep
  BY StepIsUntouched
<1> QED
  BY <1>1, <1>2, <1>3, PTL DEF ScreenSpec, UntouchedSaves

(* One call at a time: the same.                                           *)
THEOREM StaleSavesAreHarmless ==
    ASSUME \A v, w \in Workers : v = w
    PROVE  ScreenSpec => UntouchedSaves
<1>1. [NotOvertaken(Tasks)]_vars => [NotOvertaken(Proposals)]_vars
  BY TasksAssumption DEF NotOvertaken, TasksAssumption
<1> QED
  BY <1>1, OneCallAtATime, ScreensImplementTasks, UntouchedSavesAreHarmless, PTL

-----------------------------------------------------------------------------
(* -- The next step of a proposal ---------------------------------------- *)

(* A proposal on record was written by an engineer of the project who may  *)
(* create and submit one.                                                  *)
AuthorInv == \A t \in Proposals : t \in created => task[t].reporter \in Engineers \cap Proposers

LEMMA AuthorStep ==
    ASSUME AuthorInv, ReviewInv, [Next]_vars
    PROVE  AuthorInv'
<1>0. /\ created \subseteq Tasks /\ task \in [Tasks -> TaskRow] /\ \A w \in Workers : handler[w] \in Handler
      /\ Proposals \subseteq Tasks
  BY TasksAssumption DEF ReviewInv, TypeOK, GraphTypeOK, TasksAssumption
<1>1. ASSUME \A t \in created : task'[t].reporter = task[t].reporter, created' = created PROVE AuthorInv'
  BY <1>1 DEF AuthorInv
<1>2. ASSUME NEW w \in Workers, SubmitWrite(w) \/ ReviewWrite(w) \/ VerifyWrite(w) \/ ChecklistWrite(w) PROVE AuthorInv'
  <2>1. \A t \in Tasks : task'[t].reporter = task[t].reporter
    BY <1>0, <1>2 DEF SubmitWrite, ReviewWrite, VerifyWrite, ChecklistWrite, TaskRow
  <2> QED
    BY <1>0, <1>1, <1>2, <2>1 DEF SubmitWrite, ReviewWrite, VerifyWrite, ChecklistWrite, graphVars
<1>3. ASSUME NEW w \in Workers, Move(w) \/ Overwrite(w) PROVE AuthorInv'
  <2>0. UNCHANGED task \/ \E t : \E row : task' = [task EXCEPT ![t] = row] /\ (t \in Tasks => row.reporter = task[t].reporter)
    <3>1. ASSUME NEW t, NEW h PROVE t \in Tasks => Moved(task[t], h).reporter = task[t].reporter
      BY <1>0 DEF Moved, TaskRow
    <3>2. ASSUME NEW t, NEW status, NEW assignee
          PROVE  t \in Tasks => [task[t] EXCEPT !.status = status, !.assignee = assignee].reporter = task[t].reporter
      BY <1>0 DEF TaskRow
    <3>3. CASE Move(w)
      BY <3>1, <3>3 DEF Move
    <3>4. CASE Overwrite(w)
      <4>1. PICK t, status, assignee : task' = [task EXCEPT ![t].status = status, ![t].assignee = assignee]
        BY <3>4 DEF Overwrite
      <4>2. PICK row : row = [task[t] EXCEPT !.status = status, !.assignee = assignee]
        OBVIOUS
      <4>3. t \in Tasks => task' = [task EXCEPT ![t] = row]
        BY <1>0, <4>1, <4>2
      <4>4. t \notin Tasks => task' = task
        BY <1>0, <4>1
      <4>5. t \in Tasks => row.reporter = task[t].reporter
        BY <3>2, <4>2
      <4> QED
        BY <4>3, <4>4, <4>5
    <3> QED
      BY <1>3, <3>3, <3>4
  <2>1. \A t \in Tasks : task'[t].reporter = task[t].reporter
    BY <1>0, <2>0
  <2> QED
    BY <1>0, <1>1, <1>3, <2>1 DEF Move, Overwrite, graphVars
<1>4. ASSUME NEW t \in Tasks, NEW status, NEW assignee, createTask(t, status, assignee) PROVE AuthorInv'
  <2>1. t \notin Proposals /\ created' = created \cup {t} /\ \A d \in Tasks \ {t} : task'[d] = task[d]
    BY <1>0, <1>4 DEF createTask, Insert
  <2> QED
    BY <1>0, <2>1 DEF AuthorInv
<1>5. ASSUME NEW t \in Tasks, NEW u \in Users, NEW assignee, NEW items, NEW D, createEngineeringTask(t, u, assignee, items, D)
      PROVE  AuthorInv'
  <2>1. PICK row : row = [NoTask EXCEPT !.status = "TODO", !.reporter = u, !.assignee = assignee, !.checklist = items]
    OBVIOUS
  <2>2. row.reporter = u
    BY <2>1 DEF NoTask
  <2>3. /\ created' = created \cup {t} /\ u \in Engineers \cap Proposers
        /\ task'[t] = row /\ \A d \in Tasks \ {t} : task'[d] = task[d]
    BY <1>0, <1>5, <2>1 DEF createEngineeringTask, Insert
  <2> QED
    BY <1>0, <2>2, <2>3 DEF AuthorInv
<1>6. ASSUME NEW w \in Workers, ReviewStep(w) \/ UpdateStep(w) \/ QaStep(w) \/ Abort(w) PROVE AuthorInv'
  <2>1. UNCHANGED created
    BY <1>6, CallStep DEF graphVars
  <2>2. UNCHANGED task => AuthorInv'
    BY <1>1, <2>1
  <2> QED
    BY <1>2, <1>3, <1>6, <2>2 DEF ReviewStep, UpdateStep, QaStep, SubmitRead, ReviewRead, UpdateRead, CheckPrerequisites,
       CheckChecklist, VerifyRead, ChecklistRead, Abort
<1>7. Dependencies \/ (\E t \in Tasks : deleteTask(t)) \/ UNCHANGED vars => UNCHANGED <<created, task>>
  BY DEF Dependencies, DependencyStep, DependencyRead, DependencyWrite, DependencyAbort,
         removeTaskDependency, deleteTask, SoftDelete, vars, graphVars
<1> QED
  BY <1>1, <1>4, <1>5, <1>6, <1>7 DEF Next

(* A manager with every permission who is not the assignee brings an       *)
(* approved proposal forward, if it is not at its end and does not wait.   *)
LEMMA ApprovedMovesOn ==
    ASSUME NEW t \in Proposals, Live(t), task[t].approval = "APPROVED", ~Waits(t),
           task[t] \in TaskRow, task[t].status \notin {"DONE", "CANCELLED"},
           NEW m \in Managers \cap Updaters \cap Proposers \cap Reviewers, m # task[t].assignee
    PROVE  \E command \in Offered(m, task[t]) \cap Ahead(task[t]) : Accepts(m, t, command)
<1> DEFINE row == task[t]
<1>0. /\ Visible(m, t) /\ row.checklist \in {"none", "open", "complete"} /\ row.status \in Status
      /\ transitions = [BACKLOG |-> {"TODO", "CANCELLED"}, TODO |-> {"IN_PROGRESS", "BLOCKED", "CANCELLED"},
            IN_PROGRESS |-> {"BLOCKED", "IN_REVIEW", "CANCELLED"}, BLOCKED |-> {"IN_PROGRESS", "CANCELLED"},
            IN_REVIEW |-> {"TESTING", "IN_PROGRESS"}, TESTING |-> {"DONE", "IN_PROGRESS"},
            DONE |-> {"IN_PROGRESS"}, CANCELLED |-> {}]
  BY DEF Visible, TaskRow, transitions
<1>1. ASSUME NEW s \in Status, <<row.status, s>> \in Forward, s \in transitions[row.status],
             s = "DONE" => row.qa # Nobody, GatesOpen(t, s)
      PROVE  s \in Offered(m, row) \cap Ahead(row) /\ Accepts(m, t, s)
  <2>1. s \in Offered(m, row) /\ s \in Ahead(row)
    BY <1>1 DEF Offered, OfferedOnBoard, Ahead
  <2>2. MayUpdate(m, row, [status |-> s, assignee |-> Keep])
    BY DEF MayUpdate
  <2>3. Allowed(row, [status |-> s, assignee |-> Keep])
    BY <1>1 DEF Allowed
  <2> QED
    BY <1>0, <1>1, <2>1, <2>2, <2>3 DEF Accepts
<1>2. CASE row.status = "BACKLOG"
  <2>1. "TODO" \in Status /\ <<row.status, "TODO">> \in Forward /\ "TODO" \in transitions[row.status]
    BY <1>0, <1>2 DEF Status, Forward
  <2>2. GatesOpen(t, "TODO")
    BY DEF GatesOpen
  <2> QED
    BY <1>1, <2>1, <2>2
<1>3. CASE row.status \in {"TODO", "BLOCKED"}
  <2>1. /\ "IN_PROGRESS" \in Status /\ <<row.status, "IN_PROGRESS">> \in Forward
        /\ "IN_PROGRESS" \in transitions[row.status]
    BY <1>0, <1>3 DEF Status, Forward
  <2>2. GatesOpen(t, "IN_PROGRESS")
    BY <1>3 DEF GatesOpen, Waits
  <2> QED
    BY <1>1, <2>1, <2>2
<1>4. CASE row.status = "IN_PROGRESS" /\ row.checklist # "open"
  <2>1. /\ "IN_REVIEW" \in Status /\ <<row.status, "IN_REVIEW">> \in Forward
        /\ "IN_REVIEW" \in transitions[row.status]
    BY <1>0, <1>4 DEF Status, Forward
  <2>2. GatesOpen(t, "IN_REVIEW")
    BY <1>4 DEF GatesOpen
  <2> QED
    BY <1>1, <2>1, <2>2
<1>5. CASE row.status = "IN_PROGRESS" /\ row.checklist = "open"
  <2>1. "completeItem" \in Offered(m, row) /\ "completeItem" \in Ahead(row)
    BY <1>5 DEF Offered, OfferedInDetail, Ahead
  <2>2. Accepts(m, t, "completeItem")
    BY <1>0, <1>5 DEF Accepts, Completable
  <2> QED
    BY <2>1, <2>2
<1>6. CASE row.status = "IN_REVIEW"
  <2>1. "TESTING" \in Status /\ <<row.status, "TESTING">> \in Forward /\ "TESTING" \in transitions[row.status]
    BY <1>0, <1>6 DEF Status, Forward
  <2>2. GatesOpen(t, "TESTING")
    BY DEF GatesOpen
  <2> QED
    BY <1>1, <2>1, <2>2
<1>7. CASE row.status = "TESTING" /\ row.qa = Nobody
  <2>1. "verifyQa" \in Offered(m, row) /\ "verifyQa" \in Ahead(row)
    BY <1>7 DEF Offered, OfferedInDetail, Ahead
  <2>2. Accepts(m, t, "verifyQa")
    BY <1>0, <1>7 DEF Accepts, Verifiable
  <2> QED
    BY <2>1, <2>2
<1>8. CASE row.status = "TESTING" /\ row.qa # Nobody
  <2>1. "DONE" \in Status /\ <<row.status, "DONE">> \in Forward /\ "DONE" \in transitions[row.status]
    BY <1>0, <1>8 DEF Status, Forward
  <2>2. GatesOpen(t, "DONE")
    BY DEF GatesOpen
  <2> QED
    BY <1>1, <1>8, <2>1, <2>2
<1> QED
  BY <1>0, <1>2, <1>3, <1>4, <1>5, <1>6, <1>7, <1>8 DEF Status

(* Every project has, for each account, a manager who is somebody else and *)
(* holds the three permissions of the pages.  Then in every reachable      *)
(* state, however many calls are in flight, a page offers somebody the     *)
(* next step of every proposal that does not wait for another task, and    *)
(* the service does not refuse it.                                         *)
THEOREM ProposalsGoOn ==
    ASSUME \A u \in User : \E m \in Managers \cap Updaters \cap Proposers \cap Reviewers : m # u
    PROVE  Spec => []ProposalsMoveOn
<1>1. Init => AuthorInv
  BY DEF Init, GraphInit, AuthorInv
<1>2. AuthorInv /\ ReviewInv /\ [Next]_vars => AuthorInv'
  BY AuthorStep
<1>3. AuthorInv /\ ReviewInv => ProposalsMoveOn
  <2> SUFFICES ASSUME AuthorInv, ReviewInv, NEW t \in Proposals, Live(t), ~Waits(t),
                      task[t].status \notin {"DONE", "CANCELLED"},
                      task[t].approval \notin {"REJECTED", "UNDER_REVIEW", "CHANGES_REQUESTED"}
               PROVE  \E u \in Users : \E command \in Offered(u, task[t]) \cap Ahead(task[t]) : Accepts(u, t, command)
    BY DEF ProposalsMoveOn
  <2>1. task[t] \in TaskRow
    BY TasksAssumption DEF ReviewInv, TypeOK, TasksAssumption
  <2>2. task[t].approval \in {"DRAFT", "SUBMITTED", "APPROVED"} /\ task[t].assignee \in User
    BY <2>1 DEF TaskRow, Approval
  <2>3. /\ task[t].reporter \in Engineers \cap Proposers /\ task[t].reporter \in User
        /\ Engineers \subseteq Members /\ Engineers \subseteq Users /\ Managers \subseteq Users
    BY TasksAssumption DEF AuthorInv, TasksAssumption, Live, User
  <2>4. CASE task[t].approval = "DRAFT"
    <3>1. Visible(task[t].reporter, t)
      BY <2>3 DEF Visible
    <3>2. Accepts(task[t].reporter, t, "submit")
      BY <2>3, <2>4, <3>1 DEF Accepts, Submittable
    <3>3. "submit" \in Offered(task[t].reporter, task[t]) /\ "submit" \in Ahead(task[t])
      BY <2>3, <2>4 DEF Offered, OfferedInWorkspace, Ahead
    <3> QED
      BY <2>3, <3>2, <3>3
  <2>5. CASE task[t].approval = "SUBMITTED"
    <3>1. PICK m \in Managers \cap Updaters \cap Proposers \cap Reviewers : m # task[t].reporter
      BY <2>3
    <3>2. Visible(m, t)
      BY DEF Visible
    <3>3. Accepts(m, t, "approve")
      BY <2>5, <3>1, <3>2 DEF Accepts, Reviewable
    <3>4. "approve" \in Offered(m, task[t]) /\ "approve" \in Ahead(task[t])
      BY <2>5 DEF Offered, OfferedInWorkspace, Ahead
    <3> QED
      BY <2>3, <3>3, <3>4
  <2>6. CASE task[t].approval = "APPROVED"
    <3>1. PICK m \in Managers \cap Updaters \cap Proposers \cap Reviewers : m # task[t].assignee
      BY <2>2
    <3>2. \E command \in Offered(m, task[t]) \cap Ahead(task[t]) : Accepts(m, t, command)
      BY <2>1, <2>6, <3>1, ApprovedMovesOn
    <3> QED
      BY <2>3, <3>2
  <2> QED
    BY <2>2, <2>4, <2>5, <2>6
<1> QED
  BY <1>1, <1>2, <1>3, ReviewInit, ReviewStepInv, PTL DEF Spec

=============================================================================
