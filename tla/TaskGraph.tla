------------------------------ MODULE TaskGraph ------------------------------
(***************************************************************************)
(* The tasks of one project and which tasks each needs done first          *)
(* (TaskDependency rows, backend/src/services/engineering.service.ts).     *)
(*                                                                         *)
(* addTaskDependency reads the edges, looks for a path back, and only then *)
(* writes the edge: adding[w] is the edge handler w has checked and not    *)
(* written yet.                                                            *)
(***************************************************************************)
EXTENDS FiniteSets

CONSTANTS Tasks, Workers, NoEdge

ASSUME NoEdgeAssumption == NoEdge \notin Tasks \X Tasks

VARIABLES
    created,   \* tasks that have a row
    deleted,   \* of these, the ones with deletedAt set
    needs,     \* dependency rows <<taskId, dependsOnId>>
    adding     \* [Workers -> edge checked by the call in flight, or NoEdge]

graphVars == <<created, deleted, needs, adding>>

(* Edges join tasks that have a row; only existing tasks are deleted.      *)
GraphTypeOK ==
    /\ created \subseteq Tasks
    /\ deleted \subseteq created
    /\ needs \subseteq created \X created
    /\ adding \in [Workers -> (created \X created) \cup {NoEdge}]

GraphInit ==
    /\ created = {}
    /\ deleted = {}
    /\ needs = {}
    /\ adding = [w \in Workers |-> NoEdge]

Live(t) == t \in created \ deleted

-----------------------------------------------------------------------------
(* createEngineeringTask and createTask insert the task with its edges.    *)
Insert(t, prerequisites) ==
    /\ t \notin created
    /\ \A d \in prerequisites : Live(d)
    /\ created' = created \cup {t}
    /\ needs' = needs \cup ({t} \X prerequisites)
    /\ UNCHANGED <<deleted, adding>>

SoftDelete(t) ==
    /\ Live(t)
    /\ deleted' = deleted \cup {t}
    /\ UNCHANGED <<created, needs, adding>>

(* b is reached from a along the edges when every set that holds a and all *)
(* prerequisites of its members holds b.                                   *)
Closed(S, edges) == \A e \in edges : e[1] \in S => e[2] \in S
Reaches(a, b, edges) == \A S \in SUBSET Tasks : a \in S /\ Closed(S, edges) => b \in S

(* Mutant: only an edge straight back is refused.                          *)
WouldCycle_DirectOnly(t, d) == <<d, t>> \in needs
WouldCycle(t, d) == Reaches(d, t, needs)

DependencyRead(w, t, d) ==
    /\ adding[w] = NoEdge
    /\ Live(t)
    /\ Live(d)
    /\ t # d
    /\ ~WouldCycle(t, d)
    /\ adding' = [adding EXCEPT ![w] = <<t, d>>]
    /\ UNCHANGED <<created, deleted, needs>>

DependencyWrite(w) ==
    /\ adding[w] # NoEdge
    /\ needs' = needs \cup {adding[w]}
    /\ adding' = [adding EXCEPT ![w] = NoEdge]
    /\ UNCHANGED <<created, deleted>>

(* The call throws, or the process dies, before the edge is written.       *)
DependencyAbort(w) ==
    /\ adding[w] # NoEdge
    /\ adding' = [adding EXCEPT ![w] = NoEdge]
    /\ UNCHANGED <<created, deleted, needs>>

(* The task was there when it was looked up; the rows go by their ids.     *)
removeTaskDependency(t, d) ==
    /\ t \in created
    /\ needs' = needs \ {<<t, d>>}
    /\ UNCHANGED <<created, deleted, adding>>

-----------------------------------------------------------------------------
DependencyStep ==
    \/ \E w \in Workers, t, d \in Tasks : DependencyRead(w, t, d)
    \/ \E w \in Workers : DependencyWrite(w) \/ DependencyAbort(w)
    \/ \E t, d \in Tasks : removeTaskDependency(t, d)

GraphNext ==
    \/ \E t \in Tasks, D \in SUBSET Tasks : Insert(t, D)
    \/ \E t \in Tasks : SoftDelete(t)
    \/ DependencyStep

GraphSpec == GraphInit /\ [][GraphNext]_graphVars

-----------------------------------------------------------------------------
(* Calls may overlap as long as no edge is added to a task on record while *)
(* another call has searched and not yet written.                          *)
EdgesAlone ==
    (\E e \in needs' \ needs : e[1] \in created) => \A w \in Workers : adding'[w] = NoEdge

-----------------------------------------------------------------------------
(* No task needs itself done first, however long the way round: otherwise  *)
(* none of the tasks on the cycle could ever be started.  Where edges are  *)
(* added alone this is the guarantee of addTaskDependency's search.        *)
Acyclic == \A e \in needs : ~Reaches(e[2], e[1], needs)

(* What the search must establish for the edge to be safe to write: at     *)
(* every moment up to the write, the edge in flight would close no cycle.  *)
CheckedEdgeSafe ==
    \A w \in Workers : adding[w] # NoEdge =>
        /\ adding[w][1] # adding[w][2]
        /\ ~Reaches(adding[w][2], adding[w][1], needs)
=============================================================================
