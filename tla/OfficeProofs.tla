----------------------------- MODULE OfficeProofs -----------------------------
(***************************************************************************)
(* What the offices of the back office keep for any number of users, rows  *)
(* and calls: the lead engineer of Membership, the date of completion of   *)
(* Milestones, the decisions of Workforce, the submissions of Careers, the *)
(* codes of Tickets, and the cached list and the covers of Content.        *)
(***************************************************************************)
EXTENDS Careers, Content, Membership, Milestones, Tickets, Workforce, FiniteSetTheorems, TLAPS

-----------------------------------------------------------------------------
(* -- Membership --------------------------------------------------------- *)

(* A choice that is not late has seen every lead that there is.            *)
ChoiceSeesLeads ==
    \A c \in Calls :
        call[c].step \in {"upsert", "update"} /\ call[c].role = "LEAD_ENGINEER" /\ ~call[c].late
            => Leads \subseteq call[c].leads

MembershipInv == MembershipTypeOK /\ ChoiceSeesLeads /\ OneLead

(* A transaction that makes nobody lead leaves no lead that was none.      *)
LEMMA RereadKeeps ==
    ASSUME NEW c \in Calls, NEW chooses \in BOOLEAN, MembershipTypeOK,
           members' \in [Users -> [state : {"absent", "active", "removed"}, role : Roles]],
           call' = Reread(c, chooses)
    PROVE  /\ call' \in [Calls -> CallState]
           /\ \A d \in Calls \ {c} :
                 /\ call'[d].step = call[d].step /\ call'[d].role = call[d].role
                 /\ call'[d].leads = call[d].leads \cap Leads'
                 /\ call'[d].late = (call[d].late \/ (chooses /\ call[d].role = "LEAD_ENGINEER"
                                                       /\ call[d].step \in {"upsert", "update"}))
           /\ call'[c] = Idle
<1> DEFINE seen(d) == {u \in call[d].leads : members'[u].state = "active" /\ members'[u].role = "LEAD_ENGINEER"}
           late(d) == call[d].late \/ (chooses /\ call[d].role = "LEAD_ENGINEER"
                                      /\ call[d].step \in {"upsert", "update"})
<1>1. call' = [d \in Calls |-> IF d = c THEN Idle ELSE [call[d] EXCEPT !.leads = seen(d), !.late = late(d)]]
  BY DEF Reread
<1>2. ASSUME NEW d \in Calls
      PROVE  /\ call[d] \in CallState
             /\ seen(d) = call[d].leads \cap Leads' /\ seen(d) \in SUBSET Users
             /\ late(d) \in BOOLEAN
  BY DEF MembershipTypeOK, CallState, Leads, Active
<1>3. Idle \in CallState
  BY ManagerAssumption DEF Idle, CallState, Roles
<1> HIDE DEF seen, late
<1>4. ASSUME NEW d \in Calls \ {c}
      PROVE  /\ call'[d] \in CallState
             /\ call'[d].step = call[d].step /\ call'[d].role = call[d].role
             /\ call'[d].leads = seen(d) /\ call'[d].late = late(d)
  <2>1. call'[d] = [call[d] EXCEPT !.leads = seen(d), !.late = late(d)]
    BY <1>1
  <2>2. call[d] \in CallState /\ seen(d) \in SUBSET Users /\ late(d) \in BOOLEAN
    BY <1>2
  <2>3. PICK s \in CallState, L \in SUBSET Users, b \in BOOLEAN :
            s = call[d] /\ L = seen(d) /\ b = late(d)
    BY <2>2
  <2>4. call'[d] = [s EXCEPT !.leads = L, !.late = b]
    BY <2>1, <2>3
  <2>5. /\ call'[d] \in CallState /\ call'[d].step = s.step /\ call'[d].role = s.role
        /\ call'[d].leads = L /\ call'[d].late = b
    BY <2>4 DEF CallState
  <2> QED BY <2>3, <2>5
<1>5. call'[c] = Idle
  BY <1>1
<1>6. call' \in [Calls -> CallState]
  BY <1>1, <1>3, <1>4
<1> QED BY <1>2, <1>4, <1>5, <1>6 DEF late

LEMMA MembershipInitially == MembershipInit => MembershipInv
<1> SUFFICES ASSUME MembershipInit PROVE MembershipInv
  OBVIOUS
<1>1. Idle \in CallState /\ Idle.step = "idle"
  BY ManagerAssumption DEF Idle, CallState, Roles
<1>2. MembershipTypeOK
  BY <1>1 DEF MembershipInit, MembershipTypeOK, Absent, Roles
<1>3. Leads = {}
  BY DEF MembershipInit, Leads, Active, Absent
<1>4. OneLead BY <1>3 DEF OneLead
<1>5. ChoiceSeesLeads BY <1>3 DEF ChoiceSeesLeads
<1> QED BY <1>2, <1>4, <1>5 DEF MembershipInv

LEMMA CommitKeeps ==
    ASSUME MembershipInv, NEW c \in Calls, Commit(c)
    PROVE  MembershipInv'
<1> DEFINE u == call[c].user
           chooses == call[c].role = "LEAD_ENGINEER"
<1>0. u \in Users /\ chooses \in BOOLEAN /\ call[c].role \in Roles /\ call[c].late \in BOOLEAN
  BY DEF MembershipInv, MembershipTypeOK, CallState
<1>1. members' \in [Users -> [state : {"absent", "active", "removed"}, role : Roles]]
  BY <1>0 DEF Commit, MembershipInv, MembershipTypeOK, Roles
<1>2. call' = Reread(c, chooses)
  BY DEF Commit
<1>3. /\ call' \in [Calls -> CallState]
      /\ \A d \in Calls \ {c} :
            /\ call'[d].step = call[d].step /\ call'[d].role = call[d].role
            /\ call'[d].leads = call[d].leads \cap Leads'
            /\ call'[d].late = (call[d].late \/ (chooses /\ call[d].role = "LEAD_ENGINEER"
                                                  /\ call[d].step \in {"upsert", "update"}))
      /\ call'[c] = Idle
  BY <1>0, <1>1, <1>2, RereadKeeps DEF MembershipInv
<1>4. doubtful' = (IF chooses THEN call[c].late ELSE doubtful)
  BY DEF Commit
<1>5. MembershipTypeOK'
  BY <1>0, <1>1, <1>3, <1>4 DEF MembershipTypeOK, MembershipInv
<1>6. \A v \in Users \ {u} : /\ v \in call[c].leads => v \notin Leads'
                             /\ v \in Leads' => v \in Leads
  BY <1>0 DEF Commit, MembershipInv, MembershipTypeOK, Leads, Active
<1>7. ~chooses => u \notin Leads'
  BY <1>0 DEF Commit, MembershipInv, MembershipTypeOK, Leads, Active
<1>8. Leads' \subseteq Users
  BY DEF Leads, Active
<1>9. CASE chooses
  <2>1. OneLead'
    <3>1. SUFFICES ASSUME ~call[c].late PROVE Leads' \subseteq {u}
      BY <1>4, <1>9 DEF OneLead
    <3>2. Leads \subseteq call[c].leads
      BY <3>1, <1>9 DEF MembershipInv, ChoiceSeesLeads, Commit
    <3> QED BY <3>2, <1>6, <1>8
  <2>2. ChoiceSeesLeads'
    <3> SUFFICES ASSUME NEW d \in Calls, call'[d].step \in {"upsert", "update"},
                        call'[d].role = "LEAD_ENGINEER", ~call'[d].late
                 PROVE  FALSE
      BY DEF ChoiceSeesLeads
    <3>1. d # c
      BY <1>3 DEF Idle
    <3> QED BY <3>1, <1>3, <1>9
  <2> QED BY <2>1, <2>2, <1>5 DEF MembershipInv
<1>10. CASE ~chooses
  <2>1. Leads' \subseteq Leads
    BY <1>6, <1>7, <1>8, <1>10
  <2>2. OneLead'
    BY <2>1, <1>4, <1>10 DEF OneLead, MembershipInv
  <2>3. ChoiceSeesLeads'
    <3> SUFFICES ASSUME NEW d \in Calls, call'[d].step \in {"upsert", "update"},
                        call'[d].role = "LEAD_ENGINEER", ~call'[d].late
                 PROVE  Leads' \subseteq call'[d].leads
      BY DEF ChoiceSeesLeads
    <3>1. d # c
      BY <1>3 DEF Idle
    <3>2. ~call[d].late /\ call[d].step = call'[d].step /\ call[d].role = call'[d].role
      BY <3>1, <1>3
    <3>3. Leads \subseteq call[d].leads
      BY <3>2 DEF MembershipInv, ChoiceSeesLeads
    <3> QED BY <3>1, <3>3, <2>1, <1>3
  <2> QED BY <2>2, <2>3, <1>5 DEF MembershipInv
<1> HIDE DEF u, chooses
<1> QED BY <1>9, <1>10

LEMMA RemoveKeeps ==
    ASSUME MembershipInv, NEW c \in Calls, Remove(c)
    PROVE  MembershipInv'
<1>1. members' \in [Users -> [state : {"absent", "active", "removed"}, role : Roles]]
  BY DEF Remove, MembershipInv, MembershipTypeOK
<1>2. /\ call' \in [Calls -> CallState]
      /\ \A d \in Calls \ {c} :
            /\ call'[d].step = call[d].step /\ call'[d].role = call[d].role
            /\ call'[d].leads = call[d].leads \cap Leads'
            /\ call'[d].late = call[d].late
      /\ call'[c] = Idle
  <2>1. call' = Reread(c, FALSE) /\ MembershipTypeOK
    BY DEF Remove, MembershipInv
  <2>2. \A d \in Calls : call[d].late \in BOOLEAN
    BY <2>1 DEF MembershipTypeOK, CallState
  <2>3. /\ call' \in [Calls -> CallState]
        /\ \A d \in Calls \ {c} :
              /\ call'[d].step = call[d].step /\ call'[d].role = call[d].role
              /\ call'[d].leads = call[d].leads \cap Leads'
              /\ call'[d].late = (call[d].late \/ (FALSE /\ call[d].role = "LEAD_ENGINEER"
                                                    /\ call[d].step \in {"upsert", "update"}))
        /\ call'[c] = Idle
    BY <1>1, <2>1, RereadKeeps
  <2> QED BY <2>2, <2>3
<1>3. Leads' \subseteq Leads
  BY DEF Remove, MembershipInv, MembershipTypeOK, Leads, Active
<1>4. doubtful' = doubtful
  BY DEF Remove
<1>5. MembershipTypeOK' BY <1>1, <1>2, <1>4 DEF MembershipTypeOK, MembershipInv
<1>6. OneLead' BY <1>3, <1>4 DEF OneLead, MembershipInv
<1>7. ChoiceSeesLeads' BY <1>2, <1>3 DEF ChoiceSeesLeads, Idle, MembershipInv
<1> QED BY <1>5, <1>6, <1>7 DEF MembershipInv

LEMMA CallsKeep ==
    ASSUME MembershipInv, NEW c \in Calls,
           addProjectMember(c) \/ updateProjectMember(c) \/ removeProjectMember(c) \/ CallAborts(c)
    PROVE  MembershipInv'
<1>1. UNCHANGED <<members, doubtful>>
  BY DEF addProjectMember, updateProjectMember, removeProjectMember, CallAborts
<1>2. \E state \in CallState :
        /\ call' = [call EXCEPT ![c] = state]
        /\ state.step \in {"upsert", "update"} => state.role # "LEAD_ENGINEER"
  <2> DEFINE good(state) == /\ state \in CallState
                            /\ state.step \in {"upsert", "update"} => state.role # "LEAD_ENGINEER"
             writing(u, role, write) ==
                 [step |-> IF role = "LEAD_ENGINEER" THEN "demote" ELSE write,
                  write |-> write, user |-> u, role |-> role, leads |-> {}, late |-> FALSE]
             removing_(u) == [Idle EXCEPT !.step = "remove", !.user = u]
  <2>1. good(Idle)
    BY ManagerAssumption DEF Idle, CallState, Roles
  <2>2. ASSUME NEW u \in Users, NEW role \in Roles, NEW write \in {"upsert", "update"}
        PROVE  good(writing(u, role, write))
    <3> DEFINE first == IF role = "LEAD_ENGINEER" THEN "demote" ELSE write
    <3>1. first \in {"demote", "upsert", "update"} /\ (first # "demote" => role # "LEAD_ENGINEER")
      OBVIOUS
    <3> HIDE DEF first
    <3>2. good([step |-> first, write |-> write, user |-> u, role |-> role, leads |-> {}, late |-> FALSE])
      BY <3>1 DEF CallState
    <3> QED BY <3>2 DEF first
  <2>3. \A u \in Users : good(removing_(u))
    BY ManagerAssumption DEF Idle, CallState, Roles
  <2>4. CASE addProjectMember(c)
    <3>1. PICK u \in Users, role \in Roles : call' = [call EXCEPT ![c] = writing(u, role, "upsert")]
      BY <2>4 DEF addProjectMember, Writing
    <3> QED BY <3>1, <2>2
  <2>5. CASE updateProjectMember(c)
    <3>1. PICK u \in Users, role \in Roles : call' = [call EXCEPT ![c] = writing(u, role, "update")]
      BY <2>5 DEF updateProjectMember, Writing, Active
    <3> QED BY <3>1, <2>2
  <2>6. CASE removeProjectMember(c)
    <3>1. PICK u \in Users : call' = [call EXCEPT ![c] = removing_(u)]
      BY <2>6 DEF removeProjectMember, Active
    <3> QED BY <3>1, <2>3
  <2>7. CASE CallAborts(c)
    BY <2>7, <2>1 DEF CallAborts
  <2> QED BY <2>4, <2>5, <2>6, <2>7
<1> PICK state \in CallState :
        /\ call' = [call EXCEPT ![c] = state]
        /\ state.step \in {"upsert", "update"} => state.role # "LEAD_ENGINEER"
  BY <1>2
<1>3. call \in [Calls -> CallState]
  BY DEF MembershipInv, MembershipTypeOK
<1>4. Leads' = Leads
  BY <1>1 DEF Leads, Active
<1>5. OneLead' BY <1>1, <1>4 DEF OneLead, MembershipInv
<1>6. ChoiceSeesLeads'
  <2> SUFFICES ASSUME NEW d \in Calls, call'[d].step \in {"upsert", "update"},
                      call'[d].role = "LEAD_ENGINEER", ~call'[d].late
               PROVE  Leads \subseteq call'[d].leads
    BY <1>4 DEF ChoiceSeesLeads
  <2>1. d # c /\ call'[d] = call[d]
    BY <1>3
  <2> QED BY <2>1 DEF MembershipInv, ChoiceSeesLeads
<1>7. MembershipTypeOK'
  <2>1. call' \in [Calls -> CallState]
    BY <1>3
  <2> QED BY <2>1, <1>1 DEF MembershipInv, MembershipTypeOK
<1> QED BY <1>5, <1>6, <1>7 DEF MembershipInv

LEMMA DemoteKeeps ==
    ASSUME MembershipInv, NEW c \in Calls, Demote(c)
    PROVE  MembershipInv'
<1>1. Leads' = Leads /\ UNCHANGED <<members, doubtful>>
  BY DEF Demote, Leads, Active
<1>2. Leads \in SUBSET Users /\ call \in [Calls -> CallState]
  BY DEF Leads, Active, MembershipInv, MembershipTypeOK
<1>3. MembershipTypeOK'
  <2>1. call' = [call EXCEPT ![c] = [call[c] EXCEPT !.step = call[c].write, !.leads = Leads]]
    BY <1>2 DEF Demote, Demoted
  <2>2. [call[c] EXCEPT !.step = call[c].write, !.leads = Leads] \in CallState
    BY <1>2 DEF CallState
  <2>3. call' \in [Calls -> CallState]
    BY <2>1, <2>2, <1>2
  <2> QED BY <1>1, <2>3 DEF MembershipInv, MembershipTypeOK
<1>4. OneLead' BY <1>1 DEF OneLead, MembershipInv
<1>5. ChoiceSeesLeads'
  BY <1>1, <1>2 DEF ChoiceSeesLeads, Demote, Demoted, MembershipInv, CallState
<1> QED BY <1>3, <1>4, <1>5 DEF MembershipInv

(* A project has at most one lead engineer, for any number of users and    *)
(* calls, unless the last choice overlapped another (addProjectMember,     *)
(* updateProjectMember).                                                   *)
THEOREM LeadIsOne == MembershipSpec => []OneLead
<1>1. MembershipInv /\ [MembershipNext]_membershipVars => MembershipInv'
  <2> SUFFICES ASSUME MembershipInv, [MembershipNext]_membershipVars PROVE MembershipInv'
    OBVIOUS
  <2>1. CASE UNCHANGED membershipVars
    BY <2>1 DEF membershipVars, MembershipInv, MembershipTypeOK, ChoiceSeesLeads, OneLead, Leads, Active
  <2>2. CASE MembershipNext
    BY <2>2, CommitKeeps, RemoveKeeps, CallsKeep, DemoteKeeps DEF MembershipNext
  <2> QED BY <2>1, <2>2
<1>2. MembershipInv => OneLead BY DEF MembershipInv
<1> QED BY MembershipInitially, <1>1, <1>2, PTL DEF MembershipSpec

-----------------------------------------------------------------------------
(* -- Milestones --------------------------------------------------------- *)

MilestonesInv == MilestonesTypeOK /\ CompletionTracked

(* The date of completion follows the status, for any number of milestones *)
(* and calls, except where an update was written over a completion it had  *)
(* not read (createMilestone, updateMilestone, deleteMilestone).           *)
THEOREM DateFollowsStatus == MilestonesSpec => []CompletionTracked
<1>0. AtRest \in DeskState
  BY MilestoneAssumption DEF AtRest, DeskState
<1>1. MilestonesInit => MilestonesInv
  <2> SUFFICES ASSUME MilestonesInit PROVE MilestonesInv
    OBVIOUS
  <2>1. MilestonesTypeOK
    BY <1>0 DEF MilestonesInit, MilestonesTypeOK, MilestoneRow, NoRow, Statuses
  <2>2. \A m \in Milestone : ~milestones[m].completedAt /\ ~Completed(m)
    BY DEF MilestonesInit, NoRow, Completed
  <2>3. \A m \in Milestone : milestones[m].completedAt \in BOOLEAN /\ Completed(m) \in BOOLEAN
    BY <2>1 DEF MilestonesTypeOK, MilestoneRow, Completed
  <2> QED BY <2>1, <2>2, <2>3 DEF MilestonesInv, CompletionTracked
<1>2. MilestonesInv /\ [MilestonesNext]_milestonesVars => MilestonesInv'
  <2> SUFFICES ASSUME MilestonesInv, [MilestonesNext]_milestonesVars PROVE MilestonesInv'
    OBVIOUS
  <2>0. /\ milestones \in [Milestone -> MilestoneRow] /\ desk \in [Desks -> DeskState]
        /\ mislaid \subseteq Milestone
    BY DEF MilestonesInv, MilestonesTypeOK
  <2>1. ASSUME UNCHANGED <<milestones, mislaid>>, desk' \in [Desks -> DeskState]
        PROVE  MilestonesInv'
    BY <2>1, <2>0 DEF MilestonesInv, MilestonesTypeOK, CompletionTracked, Completed
  <2>2. ASSUME NEW d \in Desks, Rests(d)
        PROVE  desk' \in [Desks -> DeskState]
    BY <2>2, <2>0, <1>0 DEF Rests
  <2>3. CASE createMilestone
    <3>1. PICK m \in Milestone, status \in Statuses :
             milestones' = [milestones EXCEPT ![m] = [is |-> "there", status |-> status,
                                                      completedAt |-> status = "COMPLETED"]]
      BY <2>3 DEF createMilestone
    <3>2. UNCHANGED <<desk, mislaid>>
      BY <2>3 DEF createMilestone
    <3> DEFINE row == [is |-> "there", status |-> status, completedAt |-> status = "COMPLETED"]
    <3>3. row \in MilestoneRow /\ row.completedAt = (row.status = "COMPLETED")
      BY DEF MilestoneRow
    <3> HIDE DEF row
    <3>4. milestones' = [milestones EXCEPT ![m] = row]
      BY <3>1 DEF row
    <3>5. MilestonesTypeOK'
      BY <2>0, <3>2, <3>3, <3>4 DEF MilestonesTypeOK
    <3>6. CompletionTracked'
      BY <2>0, <3>2, <3>3, <3>4 DEF CompletionTracked, Completed, MilestonesInv
    <3> QED BY <3>5, <3>6 DEF MilestonesInv
  <2>4. ASSUME NEW d \in Desks, NEW step \in {"write", "delete"}, DeskReads(d, step)
        PROVE  MilestonesInv'
    <3>1. PICK m \in Milestone : desk' = [desk EXCEPT ![d] = [step |-> step, row |-> m,
                                                              wasCompleted |-> Completed(m)]]
      BY <2>4 DEF DeskReads
    <3>2. [step |-> step, row |-> m, wasCompleted |-> Completed(m)] \in DeskState
      BY DEF DeskState, Completed
    <3>3. desk' \in [Desks -> DeskState]
      BY <3>1, <3>2, <2>0
    <3> QED BY <3>3, <2>1, <2>4 DEF DeskReads
  <2>5. ASSUME NEW d \in Desks, UpdateMilestone(d)
        PROVE  MilestonesInv'
    <3>0. desk' \in [Desks -> DeskState]
      BY <2>5, <2>2 DEF UpdateMilestone
    <3>1. CASE UNCHANGED <<milestones, mislaid>>
      BY <3>1, <3>0, <2>1
    <3>2. CASE ~UNCHANGED <<milestones, mislaid>>
      <4> DEFINE m == desk[d].row
                 was == desk[d].wasCompleted
                 old == milestones[m].completedAt
      <4>1. PICK status \in Statuses :
               /\ milestones' = [milestones EXCEPT ![m].status = status,
                                                   ![m].completedAt = Stamp(status, was, @)]
               /\ mislaid' = IF Completed(m) = was THEN mislaid ELSE mislaid \cup {m}
        BY <3>2, <2>5 DEF UpdateMilestone
      <4>2. m \in Milestone /\ was \in BOOLEAN /\ old \in BOOLEAN /\ Completed(m) \in BOOLEAN
        BY <2>0 DEF DeskState, MilestoneRow, Completed
      <4>3. Stamp(status, was, old) \in BOOLEAN
        BY <4>2 DEF Stamp
      <4>4. /\ m \notin mislaid => old = Completed(m)
            /\ m \notin mislaid' => Completed(m) = was /\ m \notin mislaid
        BY <4>1, <4>2 DEF MilestonesInv, CompletionTracked
      <4>5. m \notin mislaid' => Stamp(status, was, old) = (status = "COMPLETED")
        BY <4>2, <4>4 DEF Stamp
      <4> HIDE DEF m, was
      <4>6. milestones' = [milestones EXCEPT ![m] = [milestones[m] EXCEPT !.status = status,
                                                         !.completedAt = Stamp(status, was, old)]]
        BY <4>1, <4>2, <2>0 DEF MilestoneRow
      <4>7. [milestones[m] EXCEPT !.status = status, !.completedAt = Stamp(status, was, old)] \in MilestoneRow
        BY <4>2, <4>3, <2>0 DEF MilestoneRow
      <4>8. MilestonesTypeOK'
        BY <4>1, <4>2, <4>6, <4>7, <3>0, <2>0 DEF MilestonesTypeOK
      <4>9. milestones'[m].status = status /\ milestones'[m].completedAt = Stamp(status, was, old)
        BY <4>6, <4>2, <2>0 DEF MilestoneRow
      <4>10. \A n \in Milestone \ {m} : milestones'[n] = milestones[n] /\ (n \in mislaid => n \in mislaid')
        BY <4>6, <4>1, <2>0
      <4>11. CompletionTracked'
        BY <4>5, <4>9, <4>10 DEF CompletionTracked, Completed, MilestonesInv
      <4> QED BY <4>8, <4>11 DEF MilestonesInv
    <3> QED BY <3>1, <3>2
  <2>6. ASSUME NEW d \in Desks, DeleteMilestone(d)
        PROVE  MilestonesInv'
    <3> DEFINE m == desk[d].row
    <3>1. m \in Milestone /\ mislaid' = mislaid /\ desk' \in [Desks -> DeskState]
      BY <2>0, <2>2, <2>6 DEF DeleteMilestone, DeskState
    <3>2. milestones' = [milestones EXCEPT ![m] = [milestones[m] EXCEPT !.is = "deleted"]]
      BY <2>6 DEF DeleteMilestone
    <3> HIDE DEF m
    <3>3. /\ milestones' \in [Milestone -> MilestoneRow]
          /\ \A n \in Milestone : /\ milestones'[n].status = milestones[n].status
                                   /\ milestones'[n].completedAt = milestones[n].completedAt
      BY <3>1, <3>2, <2>0 DEF MilestoneRow
    <3>4. CompletionTracked'
      BY <3>1, <3>3 DEF CompletionTracked, Completed, MilestonesInv
    <3> QED BY <3>1, <3>3, <3>4, <2>0 DEF MilestonesInv, MilestonesTypeOK
  <2>7. ASSUME NEW d \in Desks, DeskAborts(d)
        PROVE  MilestonesInv'
    BY <2>7, <2>1, <2>2 DEF DeskAborts
  <2>8. CASE UNCHANGED milestonesVars
    BY <2>8, <2>1, <2>0 DEF milestonesVars
  <2> QED BY <2>3, <2>4, <2>5, <2>6, <2>7, <2>8 DEF MilestonesNext
<1>3. MilestonesInv => CompletionTracked BY DEF MilestonesInv
<1> QED BY <1>1, <1>2, <1>3, PTL DEF MilestonesSpec

-----------------------------------------------------------------------------
(* -- Workforce ---------------------------------------------------------- *)

(* What a call has seen of a row that it may write: nobody wrote it yet.   *)
WorkforceInv ==
    /\ WorkforceTypeOK
    /\ \A p \in People : leave[p].status \in {"none", "PENDING"} => leave[p].decisions = 0
    /\ \A c \in Clerks : clerk[c].seen = 0
    /\ DecidedOnce

(* A leave request is decided once and a day checked out of once, for any  *)
(* number of employees and calls, unless a call wrote over a write it had  *)
(* not read (updateLeaveRequest, checkOut).                                *)
THEOREM DecisionIsOne == WorkforceSpec => []DecidedOnce
<1>1. WorkforceInit => WorkforceInv
  <2> SUFFICES ASSUME WorkforceInit PROVE WorkforceInv
    OBVIOUS
  <2>1. ClerkIdle \in ClerkState /\ ClerkIdle.seen = 0
    BY PeopleAssumption DEF ClerkIdle, ClerkState, Marks
  <2>2. clerk \in [Clerks -> ClerkState] /\ \A c \in Clerks : clerk[c].seen = 0
    BY <2>1 DEF WorkforceInit
  <2>3. day \in [People -> [in : Marks, out : Marks]] /\ \A p \in People : day[p].out = 0
    BY DEF WorkforceInit, NoDay, Marks
  <2>4. /\ leave \in [People -> [status : {"none", "PENDING", "APPROVED", "REJECTED"}, decisions : Marks]]
        /\ \A p \in People : leave[p].decisions = 0
    BY DEF WorkforceInit, NoLeave, Marks
  <2>5. records \subseteq People /\ hasty \subseteq People \X {"checkOut", "decide"}
    BY DEF WorkforceInit
  <2> QED BY <2>2, <2>3, <2>4, <2>5 DEF WorkforceInv, WorkforceTypeOK, DecidedOnce
<1>2. WorkforceInv /\ [WorkforceNext]_workforceVars => WorkforceInv'
  <2> SUFFICES ASSUME WorkforceInv, [WorkforceNext]_workforceVars PROVE WorkforceInv'
    OBVIOUS
  <2> USE DEF WorkforceInv, WorkforceTypeOK, DecidedOnce, Marks
  <2>0. ClerkIdle \in ClerkState /\ ClerkIdle.seen = 0
    BY PeopleAssumption DEF ClerkIdle, ClerkState
  <2>8. ASSUME NEW c \in Clerks, Done(c)
        PROVE  clerk' \in [Clerks -> ClerkState] /\ \A b \in Clerks : clerk'[b].seen = 0
    BY <2>8, <2>0 DEF Done
  <2>1. ASSUME NEW c \in Clerks, FindUser(c) \/ FindAttendance(c) \/ FindLeave(c)
        PROVE  WorkforceInv'
    <3>1. PICK step \in {"hire", "checkIn", "checkOut", "request", "decide"}, p \in People : Finds(c, step, p, 0)
      BY <2>1 DEF FindUser, FindAttendance, FindLeave, MayCheckOut, Undecided
    <3>2. [step |-> step, who |-> p, seen |-> 0] \in ClerkState
      BY DEF ClerkState
    <3> QED BY <3>1, <3>2 DEF Finds
  <2>2. ASSUME NEW c \in Clerks, InsertEmployee(c) \/ ClerkAborts(c)
        PROVE  WorkforceInv'
    <3>1. records' \subseteq People /\ UNCHANGED <<day, leave, hasty>>
      BY <2>2 DEF InsertEmployee, ClerkAborts, ClerkState
    <3> QED BY <3>1, <2>2, <2>8 DEF InsertEmployee, ClerkAborts
  <2>3. ASSUME NEW c \in Clerks, CheckIn(c)
        PROVE  WorkforceInv'
    <3> DEFINE p == clerk[c].who
    <3>1. p \in People /\ UNCHANGED <<records, leave, hasty>>
      BY <2>3 DEF CheckIn, ClerkState
    <3>2. day' = [day EXCEPT ![p] = [day[p] EXCEPT !.in = 1]]
      BY <2>3 DEF CheckIn
    <3> HIDE DEF p
    <3>3. day' \in [People -> [in : Marks, out : Marks]] /\ \A q \in People : day'[q].out = day[q].out
      BY <3>1, <3>2
    <3> QED BY <3>1, <3>3, <2>3, <2>8 DEF CheckIn
  <2>4. ASSUME NEW c \in Clerks, CheckOut(c)
        PROVE  WorkforceInv'
    <3> DEFINE p == clerk[c].who
    <3>1. p \in People /\ day[p].out \in 0 .. 1 /\ UNCHANGED <<records, leave>>
      BY <2>4 DEF CheckOut, ClerkState
    <3>2. day' = [day EXCEPT ![p] = [day[p] EXCEPT !.out = day[p].out + 1]]
      BY <2>4 DEF CheckOut
    <3>3. /\ hasty \subseteq hasty' /\ hasty' \subseteq People \X {"checkOut", "decide"}
          /\ day[p].out # 0 => <<p, "checkOut">> \in hasty'
      BY <3>1, <2>4 DEF CheckOut, Over
    <3> HIDE DEF p
    <3>4. /\ day' \in [People -> [in : Marks, out : Marks]]
          /\ day'[p].out = day[p].out + 1
          /\ \A q \in People \ {p} : day'[q] = day[q]
      BY <3>1, <3>2
    <3>5. clerk' \in [Clerks -> ClerkState] /\ \A b \in Clerks : clerk'[b].seen = 0
      BY <2>4, <2>8 DEF CheckOut
    <3>6. WorkforceTypeOK'
      BY <3>1, <3>3, <3>4, <3>5
    <3>7. ASSUME NEW q \in People, day'[q].out > 1
          PROVE  <<q, "checkOut">> \in hasty'
      <4>1. CASE q = p
        <5>1. day[p].out + 1 > 1
          BY <3>4, <3>7, <4>1
        <5>2. day[p].out # 0
          BY <5>1
        <5> QED BY <5>2, <3>3, <4>1
      <4>2. CASE q # p
        <5>1. day[q].out > 1
          BY <3>4, <3>7, <4>2
        <5> QED BY <5>1, <3>3
      <4> QED BY <4>1, <4>2
    <3>8. \A q \in People : leave'[q].decisions > 1 => <<q, "decide">> \in hasty'
      BY <3>1, <3>3
    <3>9. \A q \in People : leave'[q].status \in {"none", "PENDING"} => leave'[q].decisions = 0
      BY <3>1
    <3> HIDE DEF WorkforceTypeOK
    <3> QED BY <3>5, <3>6, <3>7, <3>8, <3>9
  <2>5. ASSUME NEW c \in Clerks, RequestLeave(c)
        PROVE  WorkforceInv'
    <3>1. clerk[c].who \in People
      BY DEF ClerkState
    <3> QED BY <3>1, <2>5, <2>8 DEF RequestLeave
  <2>6. ASSUME NEW c \in Clerks, Decide(c)
        PROVE  WorkforceInv'
    <3> DEFINE p == clerk[c].who
    <3>1. p \in People /\ leave[p].decisions \in 0 .. 1 /\ UNCHANGED <<records, day>>
      BY <2>6 DEF Decide, ClerkState
    <3>2. PICK status \in {"APPROVED", "REJECTED"} :
             leave' = [leave EXCEPT ![p] = [status |-> status, decisions |-> leave[p].decisions + 1]]
      BY <2>6 DEF Decide
    <3>3. /\ hasty \subseteq hasty' /\ hasty' \subseteq People \X {"checkOut", "decide"}
          /\ leave[p].decisions # 0 => <<p, "decide">> \in hasty'
      BY <3>1, <2>6 DEF Decide, Over
    <3> HIDE DEF p
    <3> QED BY <3>1, <3>2, <3>3, <2>6, <2>8 DEF Decide
  <2>7. CASE UNCHANGED workforceVars
    BY <2>7 DEF workforceVars
  <2> QED BY <2>1, <2>2, <2>3, <2>4, <2>5, <2>6, <2>7 DEF WorkforceNext
<1>3. WorkforceInv => DecidedOnce BY DEF WorkforceInv
<1> QED BY <1>1, <1>2, <1>3, PTL DEF WorkforceSpec

-----------------------------------------------------------------------------
(* -- Careers ------------------------------------------------------------ *)

Used(s) == submissions[s].is # "unused"

CareersTypes ==
    /\ submissions \in [Submissions -> SubmissionRow]
    /\ answers \in [CacheKeys -> Submissions \cup {NoSubmission}]
    /\ request \in [Requests -> RequestState]

(* A deletion that has counted an opening's applications has seen none but *)
(* those that arrived since.                                               *)
DeletionCounted ==
    \A r \in Requests : \A s \in Submissions :
        /\ request[r].step = "delete"
        /\ submissions[s].is = "there" /\ submissions[s].target = request[r].target
        => s \in removing

(* A request past the look-up of its key is alone there with the key, and  *)
(* one that is yet to insert finds no submission of the key.               *)
AloneWithKey ==
    \A r \in Requests :
        request[r].step \in {"insert", "set"} /\ request[r].key \notin doubted =>
            /\ \A q \in Requests :
                  request[q].step \in {"insert", "set"} /\ request[q].key = request[r].key => q = r
            /\ request[r].step = "insert" =>
                  \A s \in Submissions : Used(s) => submissions[s].key # request[r].key

RowIsKnown == \A r \in Requests : request[r].step = "set" => request[r].row \in Submissions

(* A submission that Redis does not know of is one about to be stored. *)
UnknownIsInFlight ==
    \A s \in Submissions :
        Used(s) /\ submissions[s].key \notin doubted /\ answers[submissions[s].key] = NoSubmission =>
            \E r \in Requests : request[r].step = "set" /\ request[r].key = submissions[s].key

CareersInv ==
    /\ CareersTypes /\ DeletionCounted /\ AloneWithKey /\ RowIsKnown /\ UnknownIsInFlight
    /\ LostExplained /\ OncePerKey

(* A step of a request that stores nothing and passes no look-up.          *)
Quiet(r, x) ==
    /\ request' = [request EXCEPT ![r] = x] /\ x \in RequestState
    /\ x.step \notin {"insert", "set"} /\ request[r].step # "set"
    /\ x.step = "delete" => \A s \in Submissions : submissions[s].is = "there" => submissions[s].target # x.target
    /\ UNCHANGED <<submissions, answers, doubted, removing>>

LEMMA QuietKeeps ==
    ASSUME CareersInv, NEW r \in Requests, NEW x, Quiet(r, x)
    PROVE  CareersInv'
<1> USE DEF CareersInv, Quiet
<1>1. /\ CareersTypes'
      /\ request'[r] = x /\ \A q \in Requests \ {r} : request'[q] = request[q]
  BY DEF CareersTypes
<1>2. DeletionCounted'
  BY <1>1 DEF DeletionCounted
<1>3. AloneWithKey' /\ RowIsKnown'
  BY <1>1 DEF AloneWithKey, RowIsKnown, Used
<1>4. UnknownIsInFlight'
  BY <1>1 DEF UnknownIsInFlight, Used
<1> QED BY <1>1, <1>2, <1>3, <1>4 DEF LostExplained, OncePerKey

(* An application is lost with its opening only when it arrived after the  *)
(* deletion had counted them, and a key creates one submission unless      *)
(* Redis or a second request of the key interfered, for any number of      *)
(* openings, submissions, keys and requests (deleteOpening,                *)
(* applyToOpening, createInquiry).                                         *)
THEOREM SubmissionsAreKept == CareersSpec => []SubmissionsExplained
<1>0. IdleRequest \in RequestState /\ IdleRequest.step = "idle" /\ AnyKey \in CacheKeys
  <2>1. PICK k : k \in VisitKeys
    BY CareersAssumption DEF CareersAssumption
  <2>2. <<"application", k>> \in CacheKeys
    BY <2>1 DEF CacheKeys
  <2>3. AnyKey \in CacheKeys
    BY <2>2 DEF AnyKey
  <2> QED BY <2>3 DEF IdleRequest, RequestState, Targets
<1>1. CareersInit => CareersInv
  <2> SUFFICES ASSUME CareersInit PROVE CareersInv
    OBVIOUS
  <2>1. Free \in SubmissionRow /\ Free.is = "unused"
    BY <1>0 DEF Free, SubmissionRow, Targets
  <2>2. /\ CareersTypes
        /\ \A r \in Requests : request[r].step = "idle"
        /\ \A s \in Submissions : submissions[s].is = "unused"
    BY <1>0, <2>1 DEF CareersInit, CareersTypes
  <2> QED BY <2>2 DEF CareersInv, DeletionCounted, AloneWithKey, RowIsKnown, UnknownIsInFlight,
                      LostExplained, OncePerKey, Used
<1>2. CareersInv /\ [CareersNext]_careersVars => CareersInv'
  <2> SUFFICES ASSUME CareersInv, [CareersNext]_careersVars PROVE CareersInv'
    OBVIOUS
  <2>1. CareersTypes BY DEF CareersInv
  <2>2. ASSUME NEW r \in Requests, Apply(r)
        PROVE  CareersInv'
    <3>1. PICK o \in Openings, k \in CacheKeys :
            request' = [request EXCEPT ![r] = [IdleRequest EXCEPT !.step = "get", !.target = o, !.key = k]]
      BY <2>2 DEF Apply, CacheKeys
    <3> DEFINE x == [IdleRequest EXCEPT !.step = "get", !.target = o, !.key = k]
    <3>2. x \in RequestState /\ x.step = "get"
      BY <1>0 DEF RequestState, Targets
    <3>3. Quiet(r, x)
      BY <3>1, <3>2, <2>2 DEF Apply, IsAt, Quiet
    <3> QED BY <3>3, QuietKeeps
  <2>3. ASSUME NEW r \in Requests, Inquire(r)
        PROVE  CareersInv'
    <3>1. PICK k \in CacheKeys :
            request' = [request EXCEPT ![r] = [IdleRequest EXCEPT !.step = "get", !.key = k]]
      BY <2>3 DEF Inquire, CacheKeys
    <3> DEFINE x == [IdleRequest EXCEPT !.step = "get", !.key = k]
    <3>2. x \in RequestState /\ x.step = "get"
      BY <1>0 DEF RequestState, Targets
    <3>3. Quiet(r, x)
      BY <3>1, <3>2, <2>3 DEF Inquire, IsAt, Quiet
    <3> QED BY <3>3, QuietKeeps
  <2>4. ASSUME NEW r \in Requests, UpdateOpeningRead(r)
        PROVE  CareersInv'
    <3>1. PICK o \in Openings :
            request' = [request EXCEPT ![r] = [IdleRequest EXCEPT !.step = "write", !.target = o]]
      BY <2>4 DEF UpdateOpeningRead
    <3> DEFINE x == [IdleRequest EXCEPT !.step = "write", !.target = o]
    <3>2. x \in RequestState /\ x.step = "write"
      BY <1>0 DEF RequestState, Targets
    <3>3. Quiet(r, x)
      BY <3>1, <3>2, <2>4 DEF UpdateOpeningRead, IsAt, Quiet
    <3> QED BY <3>3, QuietKeeps
  <2>5. ASSUME NEW r \in Requests, DeleteOpeningRead(r)
        PROVE  CareersInv'
    <3>1. PICK o \in Openings :
            /\ request' = [request EXCEPT ![r] = [IdleRequest EXCEPT !.step = "delete", !.target = o]]
            /\ ApplicationsOf(o) = {}
      BY <2>5 DEF DeleteOpeningRead, Deletable
    <3> DEFINE x == [IdleRequest EXCEPT !.step = "delete", !.target = o]
    <3>2. x \in RequestState /\ x.step = "delete" /\ x.target = o
      BY <1>0 DEF RequestState, Targets
    <3>3. \A s \in Submissions : submissions[s].is = "there" => submissions[s].target # o
      BY <3>1 DEF ApplicationsOf
    <3>4. Quiet(r, x)
      BY <3>1, <3>2, <3>3, <2>5 DEF DeleteOpeningRead, IsAt, Quiet
    <3> QED BY <3>4, QuietKeeps
  <2>6. ASSUME NEW r \in Requests, UpdateOpeningWrite(r) \/ SubmitFails(r) \/ RequestAborts(r)
        PROVE  CareersInv'
    <3>1. Quiet(r, IdleRequest)
      BY <2>6, <1>0 DEF UpdateOpeningWrite, SubmitFails, RequestAborts, Ends, IsAt, Quiet
    <3> QED BY <3>1, QuietKeeps
  <2>7. ASSUME NEW r \in Requests, LookUp(r)
        PROVE  CareersInv'
    <3> DEFINE k == request[r].key
    <3>1. k \in CacheKeys /\ request[r].step = "get"
      BY <2>1, <2>7 DEF CareersTypes, RequestState, LookUp, IsAt
    <3>2. CASE Known(r) /\ Ends(r) /\ doubted' = doubted
      <4>1. Quiet(r, IdleRequest)
        BY <3>2, <1>0, <2>7 DEF LookUp, IsAt, Ends, Quiet
      <4> QED BY <4>1, QuietKeeps
    <3>3. CASE /\ Takes(r, "insert")
               /\ \/ ~Known(r) /\ doubted' = IF SameKeyInFlight(r) THEN doubted \cup {k} ELSE doubted
                  \/ doubted' = doubted \cup {k}
      <4>1. /\ request' = [request EXCEPT ![r] = [request[r] EXCEPT !.step = "insert"]]
            /\ UNCHANGED <<submissions, answers, removing>>
        BY <3>3, <2>7 DEF Takes, LookUp
      <4>2. /\ CareersTypes'
            /\ request'[r].step = "insert" /\ request'[r].key = k
            /\ request'[r].target = request[r].target /\ request'[r].row = request[r].row
            /\ \A q \in Requests \ {r} : request'[q] = request[q]
        BY <4>1, <2>1 DEF CareersTypes, RequestState
      <4>3. doubted \subseteq doubted' /\ doubted' \subseteq doubted \cup {k}
        BY <3>3
      <4>4. ASSUME k \notin doubted'
            PROVE  /\ answers[k] = NoSubmission
                   /\ \A q \in Requests : ~(request[q].step \in {"insert", "set"} /\ request[q].key = k)
        BY <4>4, <3>1, <3>3 DEF Known, SameKeyInFlight
      <4>5. DeletionCounted'
        BY <4>1, <4>2 DEF CareersInv, DeletionCounted
      <4>6. ASSUME NEW s \in Submissions, Used(s), k \notin doubted'
            PROVE  submissions[s].key # k
        BY <4>3, <4>4, <4>6 DEF CareersInv, UnknownIsInFlight
      <4>7. AloneWithKey'
        BY <4>1, <4>2, <4>3, <4>4, <4>6 DEF CareersInv, AloneWithKey, Used
      <4>8. RowIsKnown' /\ UnknownIsInFlight'
        BY <4>1, <4>2, <4>3, <3>1 DEF CareersInv, RowIsKnown, UnknownIsInFlight, Used
      <4> QED BY <4>1, <4>2, <4>3, <4>5, <4>7, <4>8 DEF CareersInv, LostExplained, OncePerKey
    <3> QED BY <3>2, <3>3, <2>7 DEF LookUp
  <2>8. ASSUME NEW r \in Requests, Submit(r)
        PROVE  CareersInv'
    <3> DEFINE k == request[r].key
    <3> DEFINE o == request[r].target
    <3>1. /\ k \in CacheKeys /\ o \in Targets /\ request[r].step = "insert"
          /\ UNCHANGED <<answers, doubted>>
      BY <2>1, <2>8 DEF CareersTypes, RequestState, Submit, IsAt
    <3>2. PICK n \in Submissions :
            /\ submissions[n].is = "unused"
            /\ submissions' = [submissions EXCEPT ![n] = [is |-> "there", target |-> o, key |-> k]]
            /\ request' = [request EXCEPT ![r].step = "set", ![r].row = n]
            /\ removing' = IF \E q \in Requests : IsAt(q, "delete") /\ request[q].target = o
                           THEN removing \cup {n} ELSE removing
      BY <2>8 DEF Submit
    <3> HIDE DEF k, o
    <3>3. /\ submissions' \in [Submissions -> SubmissionRow]
          /\ submissions'[n].is = "there" /\ submissions'[n].target = o /\ submissions'[n].key = k
          /\ \A s \in Submissions \ {n} : submissions'[s] = submissions[s]
      BY <3>1, <3>2, <2>1 DEF CareersTypes, SubmissionRow
    <3>4. /\ request' \in [Requests -> RequestState]
          /\ request'[r].step = "set" /\ request'[r].key = k /\ request'[r].row = n
          /\ \A q \in Requests \ {r} : request'[q] = request[q]
      BY <3>2, <2>1 DEF CareersTypes, RequestState, k
    <3>5. CareersTypes'
      BY <3>1, <3>3, <3>4, <2>1 DEF CareersTypes
    <3>6. DeletionCounted'
      <4> SUFFICES ASSUME NEW q \in Requests, NEW s \in Submissions, request'[q].step = "delete",
                          submissions'[s].is = "there", submissions'[s].target = request'[q].target
                   PROVE  s \in removing'
        BY DEF DeletionCounted
      <4>1. q # r /\ request[q] = request'[q]
        BY <3>4
      <4>2. CASE s = n
        BY <4>1, <4>2, <3>2, <3>3 DEF IsAt
      <4>3. CASE s # n
        BY <4>1, <4>3, <3>2, <3>3 DEF CareersInv, DeletionCounted
      <4> QED BY <4>2, <4>3
    <3>7. ASSUME k \notin doubted
          PROVE  /\ \A q \in Requests \ {r} : ~(request[q].step \in {"insert", "set"} /\ request[q].key = k)
                 /\ \A s \in Submissions : Used(s) => submissions[s].key # k
      BY <3>1, <3>7 DEF CareersInv, AloneWithKey, k
    <3>8. AloneWithKey'
      <4> SUFFICES ASSUME NEW q \in Requests, request'[q].step \in {"insert", "set"}, request'[q].key \notin doubted
                   PROVE  /\ \A p \in Requests :
                               request'[p].step \in {"insert", "set"} /\ request'[p].key = request'[q].key => p = q
                          /\ request'[q].step = "insert" =>
                                \A s \in Submissions : Used(s)' => submissions'[s].key # request'[q].key
        BY <3>1 DEF AloneWithKey
      <4>1. CASE q = r
        BY <4>1, <3>4, <3>7
      <4>2. CASE q # r
        <5>1. request[q] = request'[q] /\ request[q].key # k
          BY <4>2, <3>4, <3>7
        <5>2. \A p \in Requests :
                 request'[p].step \in {"insert", "set"} /\ request'[p].key = request'[q].key => p = q
          BY <5>1, <3>4 DEF CareersInv, AloneWithKey
        <5>3. ASSUME request'[q].step = "insert", NEW s \in Submissions, Used(s)'
              PROVE  submissions'[s].key # request'[q].key
          BY <5>1, <5>3, <3>3 DEF CareersInv, AloneWithKey, Used
        <5> QED BY <5>2, <5>3
      <4> QED BY <4>1, <4>2
    <3>9. RowIsKnown' /\ UnknownIsInFlight'
      BY <3>1, <3>3, <3>4 DEF CareersInv, RowIsKnown, UnknownIsInFlight, Used
    <3>10. LostExplained'
      BY <3>2, <3>3 DEF CareersInv, LostExplained
    <3>11. OncePerKey'
      BY <3>1, <3>3, <3>7 DEF CareersInv, OncePerKey, Used
    <3> QED BY <3>5, <3>6, <3>8, <3>9, <3>10, <3>11 DEF CareersInv
  <2>9. ASSUME NEW r \in Requests, Remember(r)
        PROVE  CareersInv'
    <3> DEFINE k == request[r].key
    <3>1. /\ k \in CacheKeys /\ request[r].step = "set" /\ request[r].row \in Submissions
          /\ UNCHANGED <<submissions, removing>>
      BY <2>1, <2>9 DEF CareersInv, RowIsKnown, CareersTypes, RequestState, Remember, IsAt
    <3>2. /\ request' \in [Requests -> RequestState]
          /\ request'[r].step = "idle"
          /\ \A q \in Requests \ {r} : request'[q] = request[q]
      BY <2>1, <2>9, <1>0 DEF CareersTypes, Remember, Ends
    <3>3. \/ answers' = [answers EXCEPT ![k] = request[r].row] /\ doubted' = doubted
          \/ doubted' = doubted \cup {k} /\ answers' = answers
      BY <2>9 DEF Remember
    <3> HIDE DEF k
    <3>4. /\ answers' \in [CacheKeys -> Submissions \cup {NoSubmission}]
          /\ doubted \subseteq doubted'
          /\ \A j \in CacheKeys \ {k} : answers'[j] = answers[j]
          /\ k \in doubted' \/ answers'[k] # NoSubmission
      BY <3>1, <3>3, <2>1, CareersAssumption DEF CareersTypes
    <3>5. CareersTypes'
      BY <3>1, <3>2, <3>4, <2>1 DEF CareersTypes
    <3>6. DeletionCounted'
      BY <3>1, <3>2 DEF CareersInv, DeletionCounted
    <3>7. AloneWithKey' /\ RowIsKnown'
      BY <3>1, <3>2, <3>4 DEF CareersInv, AloneWithKey, RowIsKnown, Used
    <3>8. UnknownIsInFlight'
      <4> SUFFICES ASSUME NEW s \in Submissions, Used(s), submissions[s].key \notin doubted',
                          answers'[submissions[s].key] = NoSubmission
                   PROVE  \E q \in Requests : request'[q].step = "set" /\ request'[q].key = submissions[s].key
        BY <3>1 DEF UnknownIsInFlight, Used
      <4>1. submissions[s].key \in CacheKeys \ {k} /\ submissions[s].key \notin doubted
        BY <3>4, <2>1 DEF CareersTypes, SubmissionRow
      <4>2. PICK q \in Requests : request[q].step = "set" /\ request[q].key = submissions[s].key
        BY <4>1, <3>4 DEF CareersInv, UnknownIsInFlight
      <4>3. q # r
        BY <4>1, <4>2 DEF k
      <4> QED BY <4>2, <4>3, <3>2
    <3> QED BY <3>1, <3>4, <3>5, <3>6, <3>7, <3>8 DEF CareersInv, LostExplained, OncePerKey
  <2>10. ASSUME NEW r \in Requests, DeleteOpeningWrite(r)
         PROVE  CareersInv'
    <3> DEFINE o == request[r].target
    <3>1. /\ request[r].step = "delete"
          /\ UNCHANGED <<answers, doubted, removing>>
          /\ submissions' = [s \in Submissions |-> IF s \in ApplicationsOf(o)
                                 THEN [submissions[s] EXCEPT !.is = "lost"] ELSE submissions[s]]
      BY <2>10 DEF DeleteOpeningWrite, IsAt
    <3>2. /\ request' \in [Requests -> RequestState]
          /\ request'[r].step = "idle"
          /\ \A q \in Requests \ {r} : request'[q] = request[q]
      BY <2>1, <2>10, <1>0 DEF CareersTypes, DeleteOpeningWrite, Ends
    <3>3. ASSUME NEW s \in Submissions
          PROVE  /\ submissions'[s] \in SubmissionRow
                 /\ submissions'[s].key = submissions[s].key
                 /\ submissions'[s].target = submissions[s].target
                 /\ submissions'[s].is = "unused" <=> submissions[s].is = "unused"
                 /\ submissions'[s].is = "there" => submissions[s].is = "there"
                 /\ submissions'[s].is = "lost" => submissions[s].is = "lost" \/ s \in ApplicationsOf(o)
      BY <3>1, <2>1 DEF CareersTypes, SubmissionRow, ApplicationsOf, Used
    <3>4. submissions' \in [Submissions -> SubmissionRow]
      <4>1. submissions' = [s \in Submissions |-> submissions'[s]]
        BY <3>1
      <4> HIDE DEF o
      <4> QED BY <4>1, <3>3
    <3>5. CareersTypes'
      BY <3>1, <3>2, <3>4, <2>1 DEF CareersTypes
    <3>6. \A s \in ApplicationsOf(o) : s \in removing
      BY <3>1 DEF CareersInv, DeletionCounted, ApplicationsOf
    <3> HIDE DEF o
    <3>7. DeletionCounted'
      BY <3>1, <3>2, <3>3 DEF CareersInv, DeletionCounted
    <3>8. AloneWithKey' /\ RowIsKnown'
      BY <3>1, <3>2, <3>3 DEF CareersInv, AloneWithKey, RowIsKnown, Used
    <3>9. UnknownIsInFlight'
      BY <3>1, <3>2, <3>3 DEF CareersInv, UnknownIsInFlight, Used
    <3>10. LostExplained'
      BY <3>1, <3>3, <3>6 DEF CareersInv, LostExplained
    <3>11. OncePerKey'
      BY <3>1, <3>3 DEF CareersInv, OncePerKey, Used
    <3> QED BY <3>5, <3>7, <3>8, <3>9, <3>10, <3>11 DEF CareersInv
  <2>11. CASE Forget
    <3>1. PICK k \in CacheKeys : /\ answers' = [answers EXCEPT ![k] = NoSubmission]
                            /\ doubted' = doubted \cup {k}
                            /\ UNCHANGED <<submissions, request, removing>>
      BY <2>11 DEF Forget
    <3>2. CareersTypes'
      BY <3>1, <2>1 DEF CareersTypes
    <3>3. DeletionCounted' /\ RowIsKnown' /\ LostExplained' /\ OncePerKey'
      BY <3>1 DEF CareersInv, DeletionCounted, RowIsKnown, LostExplained, OncePerKey
    <3>4. AloneWithKey'
      BY <3>1 DEF CareersInv, AloneWithKey, Used
    <3>5. UnknownIsInFlight'
      BY <3>1, <2>1 DEF CareersInv, UnknownIsInFlight, Used, CareersTypes, SubmissionRow
    <3> QED BY <3>2, <3>3, <3>4, <3>5 DEF CareersInv
  <2>12. CASE CreateOpening \/ UNCHANGED careersVars
    <3>1. UNCHANGED <<submissions, answers, request, doubted, removing>>
      BY <2>12 DEF CreateOpening, careersVars
    <3> QED BY <3>1 DEF CareersInv, CareersTypes, DeletionCounted, AloneWithKey, RowIsKnown,
                        UnknownIsInFlight, LostExplained, OncePerKey, Used
  <2> QED BY <2>2, <2>3, <2>4, <2>5, <2>6, <2>7, <2>8, <2>9, <2>10, <2>11, <2>12 DEF CareersNext
<1>3. CareersInv => SubmissionsExplained BY DEF CareersInv, SubmissionsExplained
<1> QED BY <1>1, <1>2, <1>3, PTL DEF CareersSpec

-----------------------------------------------------------------------------
(* -- Tickets ------------------------------------------------------------ *)

(* The codes in use are the first ones, and a call that nothing overlapped *)
(* has counted them all.                                                   *)
CodesAreFirst == \E m \in 0..MaxTickets : CodesTaken = 1..m

AgentKnows(x, taken) ==
    /\ x.step = "insert" => /\ x.code \in Codes /\ x.code <= Cardinality(taken) + 1
                            /\ ~x.late => x.code = Cardinality(taken) + 1
    /\ x.step \in {"write", "reply"} => x.code \in taken

TicketsInv ==
    /\ TicketsTypeOK /\ CodesAreFirst /\ CodesFree
    /\ \A a \in Agents : AgentKnows(agent[a], CodesTaken)

AgentStates == [step : {"idle", "insert", "write", "reply"}, code : 0 .. MaxTickets, late : BOOLEAN]

LEMMA CountsFromOne ==
    ASSUME NEW m \in Nat PROVE Cardinality(1..m) = m
<1>1. 1 \in Int /\ m \in Int
  OBVIOUS
<1>2. Cardinality(1..m) = IF 1 > m THEN 0 ELSE m - 1 + 1
  BY <1>1, FS_Interval
<1> QED
  BY <1>2

LEMMA FirstCodes ==
    ASSUME NEW m \in 0..MaxTickets, CodesTaken = 1..m
    PROVE  m \in Nat /\ Cardinality(CodesTaken) = m
<1>1. m \in Nat
  BY TicketsAssumption DEF TicketsAssumption
<1> QED
  BY <1>1, CountsFromOne

(* A step of one call that takes no code.                                  *)
LEMMA AgentKeeps ==
    ASSUME TicketsInv, NEW a \in Agents, NEW x \in AgentStates, agent' = [agent EXCEPT ![a] = x],
           AgentKnows(x, CodesTaken), tickets' \in [Codes -> States], CodesTaken' = CodesTaken,
           replies' \in [Codes -> 0..1], UNCHANGED collided
    PROVE  TicketsInv'
<1>1. agent' \in [Agents -> AgentStates] /\ agent'[a] = x /\ \A b \in Agents \ {a} : agent'[b] = agent[b]
  BY DEF TicketsInv, TicketsTypeOK, AgentStates
<1>2. TicketsTypeOK'
  BY <1>1 DEF TicketsInv, TicketsTypeOK, AgentStates
<1>3. CodesAreFirst' /\ CodesFree'
  BY DEF TicketsInv, CodesAreFirst, CodesFree
<1>4. \A b \in Agents : AgentKnows(agent'[b], CodesTaken)
  BY <1>1 DEF TicketsInv
<1> QED
  BY <1>2, <1>3, <1>4 DEF TicketsInv

LEMMA AgentRests ==
    ASSUME TicketsInv, NEW a \in Agents, agent' = [agent EXCEPT ![a] = AgentIdle],
           tickets' \in [Codes -> States], CodesTaken' = CodesTaken,
           replies' \in [Codes -> 0..1], UNCHANGED collided
    PROVE  TicketsInv'
<1>1. PICK x : x = AgentIdle
  OBVIOUS
<1>2. x \in AgentStates /\ x.step = "idle"
  BY <1>1, TicketsAssumption DEF AgentIdle, AgentStates, TicketsAssumption
<1>3. AgentKnows(x, CodesTaken) /\ agent' = [agent EXCEPT ![a] = x]
  BY <1>1, <1>2 DEF AgentKnows
<1> QED
  BY <1>2, <1>3, AgentKeeps

LEMMA CountKeeps ==
    ASSUME TicketsInv, NEW a \in Agents, CountTickets(a) PROVE TicketsInv'
<1>1. PICK m \in 0..MaxTickets : CodesTaken = 1..m
  BY DEF TicketsInv, CodesAreFirst
<1>2. m \in Nat /\ Cardinality(CodesTaken) = m /\ MaxTickets \in Nat
  BY <1>1, FirstCodes, TicketsAssumption DEF TicketsAssumption
<1>3. PICK n : n = m + 1
  OBVIOUS
<1>4. n = NextCode /\ n \in Codes /\ n \in 0..MaxTickets
  BY <1>2, <1>3 DEF CountTickets, NextCode, Codes
<1>5. PICK x : x = [step |-> "insert", code |-> n, late |-> FALSE]
  OBVIOUS
<1>6. x \in AgentStates /\ x.step = "insert" /\ x.code = n
  BY <1>4, <1>5 DEF AgentStates
<1>7. AgentKnows(x, CodesTaken)
  BY <1>2, <1>3, <1>4, <1>6 DEF AgentKnows
<1>8. agent' = [agent EXCEPT ![a] = x] /\ UNCHANGED <<tickets, replies, collided>>
  BY <1>4, <1>5 DEF CountTickets
<1>9. tickets' \in [Codes -> States] /\ CodesTaken' = CodesTaken /\ replies' \in [Codes -> 0..1]
  BY <1>8 DEF CodesTaken, TicketsInv, TicketsTypeOK
<1> QED
  BY <1>6, <1>7, <1>8, <1>9, AgentKeeps

(* The insert goes through: the code is the first that is free.            *)
LEMMA InsertedKeeps ==
    ASSUME TicketsInv, NEW a \in Agents, agent[a].step = "insert", agent[a].code \notin CodesTaken,
           tickets' = [tickets EXCEPT ![agent[a].code] = "OPEN"],
           agent' = [b \in Agents |-> IF b = a THEN AgentIdle
                                      ELSE [agent[b] EXCEPT !.late = @ \/ agent[b].step = "insert"]],
           UNCHANGED <<replies, collided>>
    PROVE  TicketsInv'
<1>1. PICK m \in 0..MaxTickets : CodesTaken = 1..m
  BY DEF TicketsInv, CodesAreFirst
<1>2. m \in Nat /\ Cardinality(CodesTaken) = m /\ MaxTickets \in Nat
  BY <1>1, FirstCodes, TicketsAssumption DEF TicketsAssumption
<1>3. PICK n \in Codes : n = agent[a].code /\ n = m + 1
  <2>1. agent[a].code \in Codes /\ agent[a].code <= m + 1 /\ agent[a].code \notin 1..m
    BY <1>1, <1>2 DEF TicketsInv, AgentKnows
  <2> QED
    BY <1>2, <2>1 DEF Codes
<1>4. tickets' \in [Codes -> States] /\ tickets'[n] = "OPEN" /\ \A k \in Codes \ {n} : tickets'[k] = tickets[k]
  BY <1>3 DEF TicketsInv, TicketsTypeOK, States
<1>5. CodesTaken' = CodesTaken \cup {n}
  BY <1>4 DEF CodesTaken
<1>6. PICK l : l = m + 1
  OBVIOUS
<1>7. l \in 0..MaxTickets /\ CodesTaken' = 1..l
  <2>1. l = n /\ n \in 1..MaxTickets
    BY <1>3, <1>6 DEF Codes
  <2>2. 1..l = (1..m) \cup {n}
    BY <1>2, <1>6, <2>1
  <2> QED
    BY <1>1, <1>5, <2>1, <2>2
<1>8. Cardinality(CodesTaken') = m + 1 /\ CodesTaken \subseteq CodesTaken'
  <2>1. l \in Nat
    BY <1>2, <1>6
  <2>2. Cardinality(1..l) = l
    BY <2>1, CountsFromOne
  <2> QED
    BY <1>5, <1>6, <1>7, <2>2
<1>9. ASSUME NEW b \in Agents
      PROVE  agent'[b] \in AgentStates /\ AgentKnows(agent'[b], CodesTaken')
  <2>1. CASE b = a
    <3>1. PICK x : x = AgentIdle
      OBVIOUS
    <3>2. agent'[b] = x
      BY <2>1, <3>1
    <3>3. x \in AgentStates /\ x.step = "idle"
      BY <1>2, <3>1 DEF AgentIdle, AgentStates
    <3>4. AgentKnows(x, CodesTaken')
      BY <3>3 DEF AgentKnows
    <3> QED
      BY <3>2, <3>3, <3>4
  <2>2. CASE b # a
    <3>1. PICK y \in AgentStates : y = agent[b] /\ AgentKnows(y, CodesTaken)
      BY DEF TicketsInv, TicketsTypeOK, AgentStates
    <3>2. PICK late \in BOOLEAN : late = (y.late \/ y.step = "insert")
      BY <3>1 DEF AgentStates
    <3>3. agent'[b] = [y EXCEPT !.late = late]
      BY <2>2, <3>1, <3>2
    <3>4. /\ agent'[b] \in AgentStates /\ agent'[b].step = y.step /\ agent'[b].code = y.code
          /\ agent'[b].late = late
      BY <3>1, <3>3 DEF AgentStates
    <3>5. y.step = "insert" => y.code \in Codes /\ y.code <= m + 1 /\ late
      BY <1>2, <3>1, <3>2 DEF AgentKnows
    <3>6. y.step = "insert" => y.code <= m + 1 + 1
      BY <1>2, <3>5 DEF Codes
    <3>7. y.step \in {"write", "reply"} => y.code \in CodesTaken'
      BY <1>8, <3>1 DEF AgentKnows
    <3> QED
      BY <1>8, <3>4, <3>5, <3>6, <3>7 DEF AgentKnows
  <2> QED
    BY <2>1, <2>2
<1>10. agent' \in [Agents -> AgentStates]
  <2>1. agent' = [b \in Agents |-> agent'[b]]
    OBVIOUS
  <2> QED
    BY <1>9, <2>1
<1>11. TicketsTypeOK'
  BY <1>4, <1>10 DEF TicketsInv, TicketsTypeOK, AgentStates
<1>12. CodesAreFirst' /\ CodesFree'
  BY <1>7 DEF TicketsInv, CodesAreFirst, CodesFree
<1> QED
  BY <1>9, <1>11, <1>12 DEF TicketsInv

LEMMA InsertTicketKeeps ==
    ASSUME TicketsInv, NEW a \in Agents, InsertTicket(a) PROVE TicketsInv'
<1>1. /\ agent[a].step = "insert" /\ UNCHANGED replies
      /\ agent[a].code \in Codes /\ (~agent[a].late => agent[a].code = Cardinality(CodesTaken) + 1)
  BY DEF InsertTicket, TicketsInv, AgentKnows
<1>2. agent[a].code # 0
  BY <1>1 DEF Codes
<1>3. CASE agent[a].code \in CodesTaken
  <2>1. PICK m \in 0..MaxTickets : CodesTaken = 1..m
    BY DEF TicketsInv, CodesAreFirst
  <2>2. m \in Nat /\ Cardinality(CodesTaken) = m
    BY <2>1, FirstCodes
  <2>3. agent[a].late
    BY <1>1, <1>3, <2>1, <2>2
  <2>4. collided' = (collided \/ ~agent[a].late) /\ agent' = [agent EXCEPT ![a] = AgentIdle] /\ UNCHANGED tickets
    BY <1>3 DEF InsertTicket
  <2>5. UNCHANGED collided
    <3>1. ~collided /\ collided \in BOOLEAN
      BY DEF TicketsInv, TicketsTypeOK, CodesFree
    <3> QED
      BY <2>3, <2>4, <3>1, Zenon
  <2>6. tickets' \in [Codes -> States] /\ CodesTaken' = CodesTaken /\ replies' \in [Codes -> 0..1]
    BY <1>1, <2>4 DEF CodesTaken, TicketsInv, TicketsTypeOK
  <2> QED
    BY <2>4, <2>5, <2>6, AgentRests
<1>4. CASE agent[a].code \notin CodesTaken
  <2>1. /\ tickets' = [tickets EXCEPT ![agent[a].code] = "OPEN"]
        /\ agent' = [b \in Agents |-> IF b = a THEN AgentIdle
                                      ELSE [agent[b] EXCEPT !.late = @ \/ agent[b].step = "insert"]]
        /\ UNCHANGED collided
    BY <1>2, <1>4 DEF InsertTicket
  <2> QED
    BY <1>1, <1>4, <2>1, InsertedKeeps
<1> QED
  BY <1>3, <1>4

LEMMA TicketCallsKeep ==
    ASSUME TicketsInv, NEW a \in Agents,
           FindTicket(a) \/ UpdateTicket(a) \/ CreateReply(a) \/ AgentAborts(a)
    PROVE  TicketsInv'
<1>1. /\ tickets \in [Codes -> States] /\ replies \in [Codes -> 0..1] /\ CodesTaken \subseteq Codes
      /\ AgentKnows(agent[a], CodesTaken)
  BY DEF TicketsInv, TicketsTypeOK, CodesTaken
<1>2. UNCHANGED tickets => CodesTaken' = CodesTaken
  BY DEF CodesTaken
<1>3. CASE FindTicket(a)
  <2>1. PICK n \in CodesTaken, step \in {"write", "reply"} :
           agent' = [agent EXCEPT ![a] = [step |-> step, code |-> n, late |-> FALSE]]
    BY <1>3 DEF FindTicket
  <2>2. PICK x : x = [step |-> step, code |-> n, late |-> FALSE]
    OBVIOUS
  <2>3. n \in 0..MaxTickets
    BY <1>1 DEF Codes
  <2>4. x \in AgentStates /\ x.step = step /\ x.code = n
    BY <2>2, <2>3 DEF AgentStates
  <2>5. AgentKnows(x, CodesTaken) /\ agent' = [agent EXCEPT ![a] = x]
    BY <2>1, <2>2, <2>4 DEF AgentKnows
  <2>6. UNCHANGED <<tickets, replies, collided>>
    BY <1>3 DEF FindTicket
  <2> QED
    BY <1>1, <1>2, <2>4, <2>5, <2>6, AgentKeeps
<1>4. CASE UpdateTicket(a)
  <2>1. PICK status \in {"OPEN", "CLOSED"} : tickets' = [tickets EXCEPT ![agent[a].code] = status]
    BY <1>4 DEF UpdateTicket
  <2>2. agent[a].code \in CodesTaken
    BY <1>1, <1>4 DEF UpdateTicket, AgentKnows
  <2>3. tickets' \in [Codes -> States] /\ CodesTaken' = CodesTaken
    BY <1>1, <2>1, <2>2 DEF CodesTaken, States
  <2> QED
    BY <1>1, <1>4, <2>3, AgentRests DEF UpdateTicket
<1>5. CASE CreateReply(a)
  <2>1. replies' = [replies EXCEPT ![agent[a].code] = 1] /\ UNCHANGED <<tickets, collided>>
        /\ agent' = [agent EXCEPT ![a] = AgentIdle]
    BY <1>5 DEF CreateReply
  <2>2. replies' \in [Codes -> 0..1]
    <3>1. 1 \in 0..1
      OBVIOUS
    <3>2. PICK V : V = 0..1
      OBVIOUS
    <3>3. 1 \in V /\ replies \in [Codes -> V]
      BY <1>1, <3>1, <3>2
    <3>4. [replies EXCEPT ![agent[a].code] = 1] \in [Codes -> V]
      BY <3>3
    <3> QED
      BY <2>1, <3>2, <3>4
  <2>3. tickets' \in [Codes -> States] /\ CodesTaken' = CodesTaken
    BY <1>1, <1>2, <2>1
  <2> QED
    BY <2>1, <2>2, <2>3, AgentRests
<1>6. CASE AgentAborts(a)
  BY <1>1, <1>2, <1>6, AgentRests DEF AgentAborts
<1> QED
  BY <1>3, <1>4, <1>5, <1>6

(* No client is turned away for the code of the ticket unless another      *)
(* ticket was created between the count and the insert: the codes in use   *)
(* are the first ones, however many calls overlap (createTicket).          *)
THEOREM CodesStayFree == TicketsSpec => []CodesFree
<1>1. TicketsInit => TicketsInv
  <2> SUFFICES ASSUME TicketsInit PROVE TicketsInv
    OBVIOUS
  <2>1. CodesTaken = {} /\ MaxTickets \in Nat
    BY TicketsAssumption DEF TicketsInit, CodesTaken, TicketsAssumption
  <2>2. CodesAreFirst
    <3>1. 1..0 = {} /\ 0 \in 0..MaxTickets
      BY <2>1
    <3> QED
      BY <2>1, <3>1 DEF CodesAreFirst
  <2>3. TicketsTypeOK
    <3>1. AgentIdle \in AgentStates
      BY <2>1 DEF AgentIdle, AgentStates
    <3>2. agent \in [Agents -> AgentStates]
      BY <3>1 DEF TicketsInit
    <3>3. tickets \in [Codes -> States]
      BY DEF TicketsInit, States
    <3>4. 0 \in 0..1
      OBVIOUS
    <3>5. replies \in [Codes -> 0..1] /\ collided \in BOOLEAN
      BY <3>4 DEF TicketsInit
    <3> QED
      BY <3>2, <3>3, <3>5 DEF TicketsTypeOK, AgentStates
  <2> QED
    BY <2>2, <2>3 DEF TicketsInit, TicketsInv, CodesFree, AgentKnows, AgentIdle
<1>2. TicketsInv /\ [TicketsNext]_ticketsVars => TicketsInv'
  <2>1. ASSUME TicketsInv, NEW a \in Agents,
               CountTickets(a) \/ InsertTicket(a) \/ FindTicket(a) \/ UpdateTicket(a) \/ CreateReply(a)
               \/ AgentAborts(a)
        PROVE  TicketsInv'
    BY <2>1, CountKeeps, InsertTicketKeeps, TicketCallsKeep
  <2>2. ASSUME TicketsInv, UNCHANGED ticketsVars PROVE TicketsInv'
    BY <2>2 DEF ticketsVars, TicketsInv, TicketsTypeOK, CodesAreFirst, CodesFree, CodesTaken
  <2> QED
    BY <2>1, <2>2 DEF TicketsNext
<1>3. TicketsInv => CodesFree
  BY DEF TicketsInv
<1> QED
  BY <1>1, <1>2, <1>3, PTL DEF TicketsSpec

-----------------------------------------------------------------------------
(* -- Content ------------------------------------------------------------ *)

(* The invariant says what a call may still rely on of what it read: a     *)
(* list a visitor has read is the public one unless a write came since; a  *)
(* cover about to be written has its asset, and an image about to be       *)
(* dropped has no post, unless the two overlapped.                         *)

ContentTypes ==
    /\ posts \in [Posts -> Row]
    /\ images \in [Images -> ImageState]
    /\ editor \in [Editors -> EditorState]
    /\ visitor \in [Visitors -> VisitorState]
    /\ list \in ListState
    /\ overlapped \subseteq Images

(* A visitor with rows read after the last write has the public ones.      *)
ReadIsPublic ==
    \A v \in Visitors : visitor[v].step = "set" => visitor[v].late = TRUE \/ visitor[v].items = Public

Covered(i) == images[i] \in {"stored", "row"} \/ i \in overlapped

AtSave(e) == editor[e].step \in {"write", "insert"}
AtDrop(e) == editor[e].step \in {"dropObject", "dropRow"}
AtUpload(e) == editor[e].step \in {"uploadRow", "uploadUndo"}

OverlapIsSeen ==
    \A d, e \in Editors : AtSave(d) /\ AtDrop(e) /\ editor[d].cover = editor[e].old /\ editor[e].old \in Images
                          => editor[e].old \in overlapped

SavedIsCovered == \A e \in Editors : AtSave(e) /\ editor[e].cover \in Images => Covered(editor[e].cover)

Dropped(i) == /\ i \in Images /\ images[i] \in {"stored", "row", "gone"}
              /\ StillUsed(i) => i \in overlapped

DroppedIsUnused ==
    \A e \in Editors : /\ AtDrop(e) => Dropped(editor[e].old)
                       /\ editor[e].step = "count" => editor[e].old \in Images

UploadIsAlone ==
    \A e \in Editors : AtUpload(e) =>
        /\ editor[e].old \in Images /\ images[editor[e].old] = "object"
        /\ \A d \in Editors : AtUpload(d) /\ editor[d].old = editor[e].old => d = e

RowIsCovered == \A p \in Posts : posts[p].is = "there" /\ posts[p].cover # NoCover => Covered(posts[p].cover)

(* A row about to be created has been given whole. *)
Whole(x) == x.publish \in BOOLEAN /\ x.cover \in Covers
Creates(x) == x.step = "insert" \/ (x.step = "resolve" /\ posts[x.post].is = "unused")

CreatedIsWhole == \A e \in Editors : Creates(editor[e]) => Whole(editor[e])

CoverInv ==
    OverlapIsSeen /\ SavedIsCovered /\ DroppedIsUnused /\ UploadIsAlone /\ RowIsCovered /\ CreatedIsWhole

ListInv == ReadIsPublic /\ StaleExplained

ContentInv == ContentTypes /\ CoverInv /\ ListInv

(* Only the editor moves, and it notes what overlaps. *)
LEMMA EditorMoves ==
    ASSUME ContentTypes, NEW e \in Editors, NEW x \in EditorState, Goes(e, x)
    PROVE  /\ editor' \in [Editors -> EditorState]
           /\ editor'[e] = x
           /\ \A f \in Editors \ {e} : editor'[f] = editor[f]
           /\ overlapped \subseteq overlapped' /\ overlapped' \subseteq Images
           /\ OverlapIsSeen'
<1>1. /\ editor' \in [Editors -> EditorState] /\ editor'[e] = x
      /\ \A f \in Editors \ {e} : editor'[f] = editor[f]
  BY DEF ContentTypes, Goes
<1>2. overlapped \subseteq overlapped' /\ overlapped' \subseteq Images
  BY DEF ContentTypes, Goes
<1>3. OverlapIsSeen'
  BY DEF Goes, OverlapIsSeen, AtSave, AtDrop, Saving, Releasing
<1> QED BY <1>1, <1>2, <1>3

(* A step of an editor that writes nothing, and what it may come to.       *)
Plain(e, x) ==
    /\ Goes(e, x) /\ x \in EditorState
    /\ UNCHANGED <<posts, images, visitor>>
    /\ \/ list' = list /\ editor[e].step # "invalidate"
       \/ list' \in ListState /\ (list'.held => list'.late)
    /\ x.step \in {"write", "insert"} /\ x.cover \in Images => Covered(x.cover)
    /\ x.step \in {"dropObject", "dropRow"} => Dropped(x.old)
    /\ x.step = "count" => x.old \in Images
    /\ Creates(x) => Whole(x)
    /\ x.step \in {"uploadRow", "uploadUndo"} => AtUpload(e) /\ x.old = editor[e].old

LEMMA PlainKeeps ==
    ASSUME ContentInv, NEW e \in Editors, NEW x, Plain(e, x)
    PROVE  ContentInv'
<1>1. x \in EditorState /\ UNCHANGED <<posts, images, visitor>> /\ list' \in ListState
  BY DEF Plain, ContentInv, ContentTypes
<1>2. /\ editor' \in [Editors -> EditorState]
      /\ editor'[e] = x
      /\ \A f \in Editors \ {e} : editor'[f] = editor[f]
      /\ overlapped \subseteq overlapped' /\ overlapped' \subseteq Images
      /\ OverlapIsSeen'
  BY <1>1, EditorMoves DEF Plain, ContentInv
<1>3. ContentTypes'
  BY <1>1, <1>2 DEF ContentInv, ContentTypes
<1>4. SavedIsCovered'
  BY <1>1, <1>2 DEF ContentInv, CoverInv, SavedIsCovered, Covered, AtSave, Plain
<1>5. DroppedIsUnused'
  BY <1>1, <1>2 DEF ContentInv, CoverInv, DroppedIsUnused, Dropped, StillUsed, AtDrop, Plain
<1>6. UploadIsAlone'
  BY <1>1, <1>2 DEF ContentInv, CoverInv, UploadIsAlone, AtUpload, Plain
<1>7. RowIsCovered'
  BY <1>1, <1>2 DEF ContentInv, CoverInv, RowIsCovered, Covered
<1>8. CreatedIsWhole'
  BY <1>1, <1>2 DEF ContentInv, CoverInv, CreatedIsWhole, Creates, Whole, Plain
<1>9. ListInv'
  <2>1. ReadIsPublic'
    BY <1>1 DEF ContentInv, ListInv, ReadIsPublic, Public
  <2>2. CASE list' = list /\ editor[e].step # "invalidate"
    <3>1. StaleExplained'
      BY <1>1, <1>2, <2>2 DEF ContentInv, ListInv, StaleExplained, Public, Doing
    <3> QED BY <2>1, <3>1 DEF ListInv
  <2>3. CASE list'.held => list'.late
    <3>1. StaleExplained'
      BY <2>3 DEF StaleExplained
    <3> QED BY <2>1, <3>1 DEF ListInv
  <2> QED BY <2>2, <2>3 DEF Plain
<1> QED BY <1>2, <1>3, <1>4, <1>5, <1>6, <1>7, <1>8, <1>9 DEF ContentInv, CoverInv

(* A step of an editor that changes a row, after which every visitor who   *)
(* has read the table is late and the list is about to be deleted.         *)
LEMMA RowWriteKeeps ==
    ASSUME ContentInv, NEW e \in Editors, NEW p \in Posts, NEW row \in Row,
           posts' = [posts EXCEPT ![p] = row],
           Goes(e, Step(e, "invalidate")), Overtakes, UNCHANGED <<images, list>>,
           row.is # "unused",
           row.is = "there" /\ row.cover # NoCover =>
               \/ posts[p].is = "there" /\ posts[p].cover = row.cover
               \/ AtSave(e) /\ editor[e].cover = row.cover
    PROVE  ContentInv'
<1>1. Step(e, "invalidate") \in EditorState /\ Step(e, "invalidate").step = "invalidate"
  BY DEF Step, ContentInv, ContentTypes, EditorState
<1>2. /\ editor' \in [Editors -> EditorState]
      /\ editor'[e].step = "invalidate"
      /\ \A f \in Editors \ {e} : editor'[f] = editor[f]
      /\ overlapped \subseteq overlapped' /\ overlapped' \subseteq Images
      /\ OverlapIsSeen'
  BY <1>1, EditorMoves DEF ContentInv
<1>3. /\ posts' \in [Posts -> Row]
      /\ posts'[p] = row
      /\ \A q \in Posts \ {p} : posts'[q] = posts[q]
  BY DEF ContentInv, ContentTypes
<1>4. /\ visitor' \in [Visitors -> VisitorState]
      /\ \A v \in Visitors : visitor'[v].step = "set" => visitor'[v].late = TRUE
  <2>1. visitor \in [Visitors -> VisitorState]
    BY DEF ContentInv, ContentTypes
  <2>2. ASSUME NEW v \in Visitors
        PROVE  /\ visitor'[v] \in VisitorState
               /\ visitor'[v].step = "set" => visitor'[v].late = TRUE
    <3>1. visitor'[v] = [visitor[v] EXCEPT !.late = visitor[v].late \/ visitor[v].step = "set"]
      BY DEF Overtakes
    <3>2. visitor[v] \in VisitorState BY <2>1
    <3>3. CASE visitor[v].step = "set"
      <4>1. visitor'[v] = [visitor[v] EXCEPT !.late = TRUE]
        BY <3>1, <3>3, Zenon
      <4> QED BY <4>1, <3>2 DEF VisitorState
    <3>4. CASE visitor[v].step # "set"
      <4>1. (visitor[v].late \/ visitor[v].step = "set") \in BOOLEAN
        BY Zenon
      <4>2. visitor'[v].step # "set"
        BY <3>1, <3>2, <3>4 DEF VisitorState
      <4> QED BY <3>1, <3>2, <4>1, <4>2 DEF VisitorState
    <3> QED BY <3>3, <3>4
  <2>3. visitor' = [v \in Visitors |-> visitor'[v]]
    BY DEF Overtakes
  <2> QED BY <2>2, <2>3
<1>5. ContentTypes'
  BY <1>2, <1>3, <1>4 DEF ContentInv, ContentTypes
<1>6. SavedIsCovered'
  BY <1>2 DEF ContentInv, CoverInv, SavedIsCovered, Covered, AtSave
<1>7. row.is = "there" /\ row.cover # NoCover => row.cover \in Images /\ Covered(row.cover)
  BY <1>3 DEF Row, Covers, ContentInv, CoverInv, SavedIsCovered, RowIsCovered, ContentTypes
<1>8. RowIsCovered'
  BY <1>2, <1>3, <1>7 DEF ContentInv, CoverInv, RowIsCovered, Covered
<1>9. DroppedIsUnused'
  <2>1. ASSUME NEW f \in Editors, AtDrop(f)'
        PROVE  Dropped(editor[f].old)'
    <3>1. f # e /\ editor'[f] = editor[f] /\ AtDrop(f)
      BY <2>1, <1>2 DEF AtDrop
    <3>2. Dropped(editor[f].old)
      BY <3>1 DEF ContentInv, CoverInv, DroppedIsUnused
    <3>3. ASSUME NEW q \in Posts, posts'[q].is = "there", posts'[q].cover = editor[f].old
          PROVE  editor[f].old \in overlapped'
      <4>1. editor[f].old # NoCover
        BY <3>2, ContentAssumption DEF Dropped
      <4>2. CASE posts[q].is = "there" /\ posts[q].cover = editor[f].old
        BY <4>2, <3>2, <1>2 DEF Dropped, StillUsed
      <4>3. CASE q = p /\ AtSave(e) /\ editor[e].cover = editor[f].old
        BY <4>3, <3>1, <3>2, <1>2 DEF ContentInv, CoverInv, OverlapIsSeen, Dropped
      <4> QED BY <4>1, <4>2, <4>3, <3>3, <1>3
    <3> QED BY <3>1, <3>2, <3>3 DEF Dropped, StillUsed
  <2>2. \A f \in Editors : editor'[f].step = "count" => editor'[f].old \in Images
    BY <1>2 DEF ContentInv, CoverInv, DroppedIsUnused
  <2> QED BY <2>1, <2>2 DEF DroppedIsUnused
<1>10. UploadIsAlone'
  BY <1>2 DEF ContentInv, CoverInv, UploadIsAlone, AtUpload
<1>11. CreatedIsWhole'
  <2> SUFFICES ASSUME NEW f \in Editors, Creates(editor[f])'
               PROVE  Whole(editor[f])'
    BY DEF CreatedIsWhole
  <2>1. f # e /\ editor'[f] = editor[f]
    BY <1>2 DEF Creates
  <2>2. Creates(editor[f])
    BY <2>1, <1>3 DEF Creates, ContentInv, ContentTypes, EditorState
  <2> QED BY <2>1, <2>2 DEF ContentInv, CoverInv, CreatedIsWhole, Whole
<1>12. ListInv'
  <2>1. ReadIsPublic' BY <1>4 DEF ReadIsPublic
  <2>2. StaleExplained' BY <1>2 DEF StaleExplained, Doing
  <2> QED BY <2>1, <2>2 DEF ListInv
<1> QED BY <1>2, <1>5, <1>6, <1>8, <1>9, <1>10, <1>11, <1>12 DEF ContentInv, CoverInv

(* A step of an editor on an image: an asset vanishes only by its release. *)
LEMMA ImageStepKeeps ==
    ASSUME ContentInv, NEW e \in Editors, NEW x \in EditorState, NEW i \in Images, NEW st \in ImageState,
           images' = [images EXCEPT ![i] = st],
           Goes(e, x), UNCHANGED <<posts, list, visitor>>, editor[e].step # "invalidate",
           x.step \in {"idle", "uploadRow", "dropRow"},
           images[i] \in {"stored", "row"} =>
               st \in {"stored", "row"} \/ (AtDrop(e) /\ editor[e].old = i),
           images[i] \in {"stored", "row", "gone"} => st \in {"stored", "row", "gone"},
           \A f \in Editors \ {e} : AtUpload(f) => editor[f].old # i,
           x.step = "uploadRow" => x.old = i /\ st = "object",
           x.step = "dropRow" => AtDrop(e) /\ x.old = i /\ editor[e].old = i
    PROVE  ContentInv'
<1>1. /\ editor' \in [Editors -> EditorState]
      /\ editor'[e] = x
      /\ \A f \in Editors \ {e} : editor'[f] = editor[f]
      /\ overlapped \subseteq overlapped' /\ overlapped' \subseteq Images
      /\ OverlapIsSeen'
  BY EditorMoves DEF ContentInv
<1>2. /\ images' \in [Images -> ImageState] /\ images'[i] = st
      /\ \A j \in Images \ {i} : images'[j] = images[j]
  BY DEF ContentInv, ContentTypes
<1>3. ContentTypes'
  BY <1>1, <1>2 DEF ContentInv, ContentTypes
<1>4. SavedIsCovered'
  <2> SUFFICES ASSUME NEW f \in Editors, AtSave(f)', editor'[f].cover \in Images
               PROVE  Covered(editor[f].cover)'
    BY DEF SavedIsCovered
  <2>1. f # e /\ editor'[f] = editor[f] /\ AtSave(f)
    BY <1>1 DEF AtSave
  <2>2. Covered(editor[f].cover)
    BY <2>1 DEF ContentInv, CoverInv, SavedIsCovered
  <2>3. CASE AtDrop(e) /\ editor[e].old = i /\ editor[f].cover = i
    BY <2>1, <2>3, <1>1 DEF ContentInv, CoverInv, OverlapIsSeen, Covered
  <2> QED BY <2>1, <2>2, <2>3, <1>1, <1>2 DEF Covered
<1>5. RowIsCovered'
  <2> SUFFICES ASSUME NEW p \in Posts, posts[p].is = "there", posts[p].cover # NoCover
               PROVE  Covered(posts[p].cover)'
    BY DEF RowIsCovered
  <2>1. Covered(posts[p].cover) /\ posts[p].cover \in Images
    BY DEF ContentInv, CoverInv, RowIsCovered, ContentTypes, Row, Covers
  <2>2. CASE AtDrop(e) /\ editor[e].old = i /\ posts[p].cover = i
    BY <2>2, <1>1 DEF ContentInv, CoverInv, DroppedIsUnused, Dropped, StillUsed, Covered
  <2> QED BY <2>1, <2>2, <1>1, <1>2 DEF Covered
<1>6. DroppedIsUnused'
  <2>1. ASSUME NEW f \in Editors, AtDrop(f)'
        PROVE  Dropped(editor[f].old)'
    <3>1. AtDrop(f) /\ editor'[f].old = editor[f].old
      BY <2>1, <1>1 DEF AtDrop
    <3> QED BY <3>1, <1>1, <1>2 DEF ContentInv, CoverInv, DroppedIsUnused, Dropped, StillUsed
  <2>2. \A f \in Editors : editor'[f].step = "count" => editor'[f].old \in Images
    BY <1>1 DEF ContentInv, CoverInv, DroppedIsUnused
  <2> QED BY <2>1, <2>2 DEF DroppedIsUnused
<1>7. UploadIsAlone'
  BY <1>1, <1>2 DEF ContentInv, CoverInv, UploadIsAlone, AtUpload
<1>8. CreatedIsWhole'
  BY <1>1 DEF ContentInv, CoverInv, CreatedIsWhole, Creates, Whole
<1>9. ListInv'
  BY <1>1 DEF ContentInv, ListInv, ReadIsPublic, StaleExplained, Public, Doing
<1> QED BY <1>1, <1>3, <1>4, <1>5, <1>6, <1>7, <1>8, <1>9 DEF ContentInv, CoverInv

(* A step that leaves rows, images and editors alone. *)
LEMMA CoverInvStays ==
    ASSUME CoverInv, UNCHANGED <<posts, images, editor, overlapped>>
    PROVE  CoverInv'
  BY DEF CoverInv, OverlapIsSeen, SavedIsCovered, DroppedIsUnused, UploadIsAlone, RowIsCovered, CreatedIsWhole,
         Creates, Whole, AtSave, AtDrop, AtUpload, Dropped, Covered, StillUsed

-----------------------------------------------------------------------------
(* The cached list is stale, and a cover cannot be read, only for the      *)
(* reasons the code leaves open, for any number of rows, images and calls  *)
(* (invalidateCache, listPublishedPosts, releaseArticleImageUrl).          *)
THEOREM ContentIsExplained == ContentSpec => []SiteExplained
<1>0. IdleEditor \in EditorState /\ IdleEditor.step = "idle" /\ IdleVisitor \in VisitorState
      /\ IdleVisitor.step = "idle"
  BY ContentAssumption DEF IdleEditor, EditorState, IdleVisitor, VisitorState, Covers, Lists
<1>1. ContentInit => ContentInv
  <2> SUFFICES ASSUME ContentInit PROVE ContentInv
    OBVIOUS
  <2>1. Unused \in Row /\ Unused.is = "unused"
    BY DEF Unused, Row, Covers
  <2>2. /\ posts \in [Posts -> Row] /\ \A p \in Posts : posts[p].is = "unused"
        /\ images \in [Images -> ImageState]
        /\ editor \in [Editors -> EditorState] /\ \A e \in Editors : editor[e].step = "idle"
        /\ visitor \in [Visitors -> VisitorState] /\ \A v \in Visitors : visitor[v].step = "idle"
        /\ overlapped \subseteq Images
    BY <1>0, <2>1 DEF ContentInit, ImageState
  <2>3. list \in ListState /\ ~list.held
    BY DEF ContentInit, NoList, ListState, Lists
  <2>4. ContentTypes
    BY <2>2, <2>3 DEF ContentTypes
  <2>5. CoverInv
    BY <2>2 DEF CoverInv, OverlapIsSeen, SavedIsCovered, DroppedIsUnused, UploadIsAlone, RowIsCovered,
                CreatedIsWhole, Creates, AtSave, AtDrop, AtUpload
  <2>6. ListInv
    BY <2>2, <2>3 DEF ListInv, ReadIsPublic, StaleExplained
  <2> QED BY <2>4, <2>5, <2>6 DEF ContentInv
<1>2. ContentInv /\ [ContentNext]_contentVars => ContentInv'
  <2> SUFFICES ASSUME ContentInv, [ContentNext]_contentVars PROVE ContentInv'
    OBVIOUS
  <2>1. ContentTypes BY DEF ContentInv
  <2>2. ASSUME NEW e \in Editors, CreateBegin(e)
        PROVE  ContentInv'
    <3>0. editor[e].step = "idle" /\ UNCHANGED <<posts, images, list, visitor>>
      BY <2>2 DEF CreateBegin, Doing
    <3>1. PICK p \in Posts, pub \in BOOLEAN, c \in Covers :
            Goes(e, [step |-> Resolved(e, c, NoCover, "insert"), post |-> p, publish |-> pub, cover |-> c,
                     old |-> NoCover, then |-> "idle"])
      BY <2>2 DEF CreateBegin
    <3> DEFINE x == [step |-> Resolved(e, c, NoCover, "insert"), post |-> p, publish |-> pub, cover |-> c,
                     old |-> NoCover, then |-> "idle"]
    <3>2. /\ x \in EditorState /\ x.step \in {"resolve", "insert"} /\ x.cover = c
          /\ c \in Images => x.step = "resolve"
          /\ Whole(x)
      BY ContentAssumption DEF EditorState, Covers, Resolved, Whole
    <3>3. Goes(e, x)
      BY <3>1
    <3> HIDE DEF x
    <3>4. Plain(e, x)
      BY <3>0, <3>2, <3>3 DEF Plain
    <3> QED BY <3>4, PlainKeeps
  <2>3. ASSUME NEW e \in Editors, UpdateRead(e)
        PROVE  ContentInv'
    <3>0. editor[e].step = "idle" /\ UNCHANGED <<posts, images, list, visitor>>
      BY <2>3 DEF UpdateRead, Doing
    <3>1. PICK p \in Posts, pub \in BOOLEAN \cup {Kept}, c \in Covers \cup {Kept} :
            /\ posts[p].is = "there"
            /\ Goes(e, [step |-> Resolved(e, c, posts[p].cover, "write"), post |-> p, publish |-> pub, cover |-> c,
                        old |-> posts[p].cover,
                        then |-> IF c \in {Kept, posts[p].cover} THEN "idle" ELSE "count"])
      BY <2>3 DEF UpdateRead
    <3> DEFINE x == [step |-> Resolved(e, c, posts[p].cover, "write"), post |-> p, publish |-> pub, cover |-> c,
                     old |-> posts[p].cover,
                     then |-> IF c \in {Kept, posts[p].cover} THEN "idle" ELSE "count"]
    <3>2. posts[p].cover \in Covers
      BY <2>1 DEF ContentTypes, Row
    <3>3. /\ x \in EditorState /\ x.step \in {"resolve", "write"} /\ x.cover = c
          /\ c \in Images /\ x.step = "write" => c = posts[p].cover
          /\ ~Creates(x)
      BY <3>1, <3>2 DEF EditorState, Resolved, Creates
    <3>4. Goes(e, x)
      BY <3>1
    <3> HIDE DEF x
    <3>5. c \in Images /\ x.step = "write" => Covered(c)
      BY <3>1, <3>3, ContentAssumption DEF ContentInv, CoverInv, RowIsCovered
    <3>6. Plain(e, x)
      BY <3>0, <3>3, <3>4, <3>5 DEF Plain
    <3> QED BY <3>6, PlainKeeps
  <2>4. ASSUME NEW e \in Editors, DeleteRead(e)
        PROVE  ContentInv'
    <3>0. editor[e].step = "idle" /\ UNCHANGED <<posts, images, list, visitor>>
      BY <2>4 DEF DeleteRead, Doing
    <3>1. PICK p \in Posts :
            Goes(e, [IdleEditor EXCEPT !.step = "delete", !.post = p, !.old = posts[p].cover, !.then = "count"])
      BY <2>4 DEF DeleteRead
    <3> DEFINE x == [IdleEditor EXCEPT !.step = "delete", !.post = p, !.old = posts[p].cover, !.then = "count"]
    <3>2. posts[p].cover \in Covers
      BY <2>1 DEF ContentTypes, Row
    <3>3. x \in EditorState /\ x.step = "delete" /\ ~Creates(x)
      BY <3>2, <1>0 DEF EditorState, Creates
    <3>4. Goes(e, x)
      BY <3>1
    <3> HIDE DEF x
    <3>5. Plain(e, x)
      BY <3>0, <3>3, <3>4 DEF Plain
    <3> QED BY <3>5, PlainKeeps
  <2>5. ASSUME NEW e \in Editors, Resolve(e)
        PROVE  ContentInv'
    <3>1. /\ editor[e].step = "resolve" /\ UNCHANGED <<posts, images, list, visitor>>
          /\ \/ Goes(e, IdleEditor)
             \/ /\ HasAsset(editor[e].cover)
                /\ \/ posts[editor[e].post].is = "unused" /\ Goes(e, Step(e, "insert"))
                   \/ Goes(e, Step(e, "write"))
      BY <2>5 DEF Resolve, Doing
    <3>2. CASE Goes(e, IdleEditor)
      BY <3>1, <3>2, <1>0, PlainKeeps DEF Plain, Creates
    <3>3. ASSUME NEW next \in {"insert", "write"}, HasAsset(editor[e].cover), Goes(e, Step(e, next)),
                 next = "insert" => posts[editor[e].post].is = "unused"
          PROVE  ContentInv'
      <4>1. /\ Step(e, next) \in EditorState /\ Step(e, next).step = next
            /\ Step(e, next).cover = editor[e].cover /\ Step(e, next).publish = editor[e].publish
        BY <2>1 DEF Step, ContentTypes, EditorState
      <4>3. Creates(Step(e, next)) => Whole(Step(e, next))
        BY <3>1, <3>3, <4>1 DEF Creates, Whole, ContentInv, CoverInv, CreatedIsWhole
      <4>2. Plain(e, Step(e, next))
        BY <3>1, <3>3, <4>1, <4>3 DEF Plain, HasAsset, Covered
      <4> QED BY <4>2, PlainKeeps
    <3> QED BY <3>1, <3>2, <3>3
  <2>6. ASSUME NEW e \in Editors, ReleaseCount(e)
        PROVE  ContentInv'
    <3>1. /\ editor[e].step = "count" /\ UNCHANGED <<posts, images, list, visitor>>
          /\ \/ Goes(e, IdleEditor)
             \/ /\ ~StillUsed(editor[e].old) /\ HasAsset(editor[e].old)
                /\ Goes(e, Step(e, "dropObject"))
      BY <2>6 DEF ReleaseCount, Doing
    <3>2. CASE Goes(e, IdleEditor)
      BY <3>1, <3>2, <1>0, PlainKeeps DEF Plain, Creates
    <3>3. CASE ~StillUsed(editor[e].old) /\ HasAsset(editor[e].old) /\ Goes(e, Step(e, "dropObject"))
      <4>1. /\ Step(e, "dropObject") \in EditorState /\ Step(e, "dropObject").step = "dropObject"
            /\ Step(e, "dropObject").old = editor[e].old
        BY <2>1 DEF Step, ContentTypes, EditorState
      <4>2. Dropped(editor[e].old)
        BY <3>1, <3>3 DEF Dropped, HasAsset, ContentInv, CoverInv, DroppedIsUnused
      <4>3. Plain(e, Step(e, "dropObject"))
        BY <3>1, <3>3, <4>1, <4>2 DEF Plain, Creates
      <4> QED BY <4>3, PlainKeeps
    <3> QED BY <3>1, <3>2, <3>3
  <2>7. ASSUME NEW e \in Editors, InsertPost(e)
        PROVE  ContentInv'
    <3> DEFINE p == editor[e].post
    <3> DEFINE row == [is |-> "there", published |-> editor[e].publish, cover |-> editor[e].cover]
    <3>1. /\ editor[e].step = "insert" /\ p \in Posts /\ posts' = [posts EXCEPT ![p] = row]
          /\ Goes(e, Step(e, "invalidate")) /\ Overtakes /\ UNCHANGED <<images, list>>
      BY <2>1, <2>7 DEF InsertPost, Doing, Written, ContentTypes, EditorState
    <3>2. row \in Row /\ row.cover = editor[e].cover /\ row.is = "there"
      BY <3>1 DEF ContentInv, CoverInv, CreatedIsWhole, Creates, Whole, Row
    <3> HIDE DEF p, row
    <3> QED BY <3>1, <3>2, RowWriteKeeps DEF AtSave
  <2>8. ASSUME NEW e \in Editors, Write(e)
        PROVE  ContentInv'
    <3> DEFINE p == editor[e].post
    <3> DEFINE row == [posts[p] EXCEPT !.published = Given(editor[e].publish, posts[p].published),
                                       !.cover = Given(editor[e].cover, posts[p].cover)]
    <3>1. editor[e].step = "write" /\ p \in Posts /\ UNCHANGED <<images, list>>
      BY <2>1, <2>8 DEF Write, Doing, ContentTypes, EditorState
    <3>2. CASE posts[p].is = "there"
      <4>1. /\ posts' = [posts EXCEPT ![p].published = Given(editor[e].publish, @),
                                      ![p].cover = Given(editor[e].cover, @)]
            /\ Goes(e, Step(e, "invalidate")) /\ Overtakes
        BY <3>2, <2>8 DEF Write, Written
      <4>2. posts[p] \in Row
        BY <3>1, <2>1 DEF ContentTypes
      <4>3. /\ row \in Row /\ row.is = "there"
            /\ row.cover = posts[p].cover \/ row.cover = editor[e].cover
        BY <4>2, <3>1, <3>2, <2>1 DEF ContentTypes, EditorState, Row, Given
      <4>4. posts' = [posts EXCEPT ![p] = row]
        BY <4>1, <4>2, <3>1, <2>1 DEF ContentTypes, Row
      <4> HIDE DEF p, row
      <4>5. row.is # "unused"
        BY <4>3
      <4>6. row.cover = posts[p].cover \/ (AtSave(e) /\ editor[e].cover = row.cover)
        BY <4>3, <3>1 DEF AtSave
      <4> QED BY <4>1, <4>3, <4>4, <4>5, <4>6, <3>1, <3>2, RowWriteKeeps
    <3>3. CASE posts[p].is # "there"
      <4>1. Goes(e, IdleEditor) /\ UNCHANGED <<posts, visitor>>
        BY <3>3, <2>8 DEF Write
      <4> QED BY <4>1, <3>1, <1>0, PlainKeeps DEF Plain, Creates
    <3> QED BY <3>2, <3>3
  <2>9. ASSUME NEW e \in Editors, Delete(e)
        PROVE  ContentInv'
    <3> DEFINE p == editor[e].post
    <3> DEFINE row == [Unused EXCEPT !.is = "gone"]
    <3>1. editor[e].step = "delete" /\ p \in Posts /\ UNCHANGED <<images, list>>
      BY <2>1, <2>9 DEF Delete, Doing, ContentTypes, EditorState
    <3>2. CASE posts[p].is = "there"
      <4>1. posts' = [posts EXCEPT ![p] = row] /\ Goes(e, Step(e, "invalidate")) /\ Overtakes
        BY <3>2, <2>9 DEF Delete, Written
      <4>2. row \in Row /\ row.is = "gone"
        BY DEF Unused, Row, Covers
      <4> HIDE DEF p, row
      <4> QED BY <4>1, <4>2, <3>1, RowWriteKeeps
    <3>3. CASE posts[p].is # "there"
      <4>1. Goes(e, IdleEditor) /\ UNCHANGED <<posts, visitor>>
        BY <3>3, <2>9 DEF Delete
      <4> QED BY <4>1, <3>1, <1>0, PlainKeeps DEF Plain, Creates
    <3> QED BY <3>2, <3>3
  <2>10. ASSUME NEW e \in Editors, UploadPut(e)
         PROVE  ContentInv'
    <3>1. PICK i \in Images :
            /\ images[i] = "unused" /\ images' = [images EXCEPT ![i] = "object"]
            /\ Goes(e, [IdleEditor EXCEPT !.step = "uploadRow", !.old = i])
      BY <2>10 DEF UploadPut
    <3> DEFINE x == [IdleEditor EXCEPT !.step = "uploadRow", !.old = i]
    <3>2. x \in EditorState /\ x.step = "uploadRow" /\ x.old = i /\ Goes(e, x)
      BY <1>0, <3>1 DEF EditorState, Covers
    <3>3. editor[e].step = "idle" /\ UNCHANGED <<posts, list, visitor>>
      BY <2>10 DEF UploadPut, Doing
    <3> HIDE DEF x
    <3>4. \A f \in Editors \ {e} : AtUpload(f) => editor[f].old # i
      BY <3>1 DEF ContentInv, CoverInv, UploadIsAlone
    <3>5. "object" \in ImageState
      BY DEF ImageState
    <3> QED BY <3>1, <3>2, <3>3, <3>4, <3>5, ImageStepKeeps
  <2>11. ASSUME NEW e \in Editors, UploadRow(e)
         PROVE  ContentInv'
    <3> DEFINE i == editor[e].old
    <3>1. /\ editor[e].step = "uploadRow" /\ UNCHANGED <<posts, list, visitor>>
          /\ \/ images' = [images EXCEPT ![i] = "stored"] /\ Goes(e, IdleEditor)
             \/ Goes(e, Step(e, "uploadUndo")) /\ UNCHANGED images
      BY <2>11 DEF UploadRow, Doing
    <3>2. /\ i \in Images /\ images[i] = "object"
          /\ \A f \in Editors \ {e} : AtUpload(f) => editor[f].old # i
      BY <3>1 DEF ContentInv, CoverInv, UploadIsAlone, AtUpload
    <3>3. CASE images' = [images EXCEPT ![i] = "stored"] /\ Goes(e, IdleEditor)
      <4>1. "stored" \in ImageState
        BY DEF ImageState
      <4> HIDE DEF i
      <4> QED BY <3>1, <3>2, <3>3, <4>1, <1>0, ImageStepKeeps
    <3>4. CASE Goes(e, Step(e, "uploadUndo")) /\ UNCHANGED images
      <4>1. /\ Step(e, "uploadUndo") \in EditorState /\ Step(e, "uploadUndo").step = "uploadUndo"
            /\ Step(e, "uploadUndo").old = editor[e].old
        BY <2>1 DEF Step, ContentTypes, EditorState
      <4>2. Plain(e, Step(e, "uploadUndo"))
        BY <3>1, <3>4, <4>1 DEF Plain, AtUpload, Creates
      <4> QED BY <4>2, PlainKeeps
    <3> QED BY <3>1, <3>3, <3>4
  <2>12. ASSUME NEW e \in Editors, UploadUndo(e)
         PROVE  ContentInv'
    <3> DEFINE i == editor[e].old
    <3>1. /\ editor[e].step = "uploadUndo" /\ UNCHANGED <<posts, list, visitor>> /\ Goes(e, IdleEditor)
          /\ images' = [images EXCEPT ![i] = "gone"] \/ UNCHANGED images
      BY <2>12 DEF UploadUndo, Doing
    <3>2. /\ i \in Images /\ images[i] = "object"
          /\ \A f \in Editors \ {e} : AtUpload(f) => editor[f].old # i
      BY <3>1 DEF ContentInv, CoverInv, UploadIsAlone, AtUpload
    <3>3. CASE images' = [images EXCEPT ![i] = "gone"]
      <4>1. "gone" \in ImageState
        BY DEF ImageState
      <4> HIDE DEF i
      <4> QED BY <3>1, <3>2, <3>3, <4>1, <1>0, ImageStepKeeps
    <3>4. CASE UNCHANGED images
      BY <3>1, <3>4, <1>0, PlainKeeps DEF Plain, Creates
    <3> QED BY <3>1, <3>3, <3>4
  <2>13. ASSUME NEW e \in Editors, DropObject(e)
         PROVE  ContentInv'
    <3> DEFINE i == editor[e].old
    <3> DEFINE st == IF images[i] = "stored" THEN "row" ELSE images[i]
    <3>1. editor[e].step = "dropObject" /\ UNCHANGED <<posts, list, visitor>> /\ Goes(e, Step(e, "dropRow"))
      BY <2>13 DEF DropObject, Doing
    <3>2. i \in Images /\ images[i] \in {"stored", "row", "gone"}
      BY <3>1 DEF ContentInv, CoverInv, DroppedIsUnused, Dropped, AtDrop
    <3>3. images' = [images EXCEPT ![i] = st]
      BY <2>13, <3>2, <2>1 DEF DropObject, ContentTypes
    <3>4. /\ st \in ImageState /\ st \in {"stored", "row", "gone"}
          /\ images[i] \in {"stored", "row"} => st = "row"
      BY <3>2 DEF ImageState
    <3>5. \A f \in Editors \ {e} : AtUpload(f) => editor[f].old # i
      BY <3>2 DEF ContentInv, CoverInv, UploadIsAlone
    <3>6. /\ Step(e, "dropRow") \in EditorState /\ Step(e, "dropRow").step = "dropRow"
          /\ Step(e, "dropRow").old = i
      BY <2>1 DEF Step, ContentTypes, EditorState
    <3>7. AtDrop(e) /\ editor[e].old = i /\ editor[e].step # "invalidate"
      BY <3>1 DEF AtDrop
    <3> HIDE DEF i, st
    <3> QED BY <3>1, <3>2, <3>3, <3>4, <3>5, <3>6, <3>7, ImageStepKeeps
  <2>14. ASSUME NEW e \in Editors, DropRow(e)
         PROVE  ContentInv'
    <3> DEFINE i == editor[e].old
    <3>1. /\ editor[e].step = "dropRow" /\ UNCHANGED <<posts, list, visitor>> /\ Goes(e, IdleEditor)
          /\ images' = [images EXCEPT ![i] = "gone"]
      BY <2>14 DEF DropRow, Doing
    <3>2. i \in Images /\ images[i] \in {"stored", "row", "gone"} /\ "gone" \in ImageState
      BY <3>1 DEF ContentInv, CoverInv, DroppedIsUnused, Dropped, AtDrop, ImageState
    <3>3. \A f \in Editors \ {e} : AtUpload(f) => editor[f].old # i
      BY <3>2 DEF ContentInv, CoverInv, UploadIsAlone
    <3>4. AtDrop(e) /\ editor[e].old = i
      BY <3>1 DEF AtDrop
    <3> HIDE DEF i
    <3> QED BY <3>1, <3>2, <3>3, <3>4, <1>0, ImageStepKeeps
  <2>15. ASSUME NEW e \in Editors, Invalidate(e)
         PROVE  ContentInv'
    <3>1. /\ editor[e].step = "invalidate" /\ UNCHANGED <<posts, images, visitor>>
          /\ Goes(e, Rest(e))
          /\ list' = NoList \/ list' = [list EXCEPT !.late = list.held]
      BY <2>15 DEF Invalidate, Doing
    <3>2. list \in ListState
      BY <2>1 DEF ContentTypes
    <3>3. list' \in ListState /\ (list'.held => list'.late)
      <4>1. CASE list' = NoList
        BY <4>1 DEF NoList, ListState, Lists
      <4>2. CASE list' = [list EXCEPT !.late = list.held]
        BY <4>2, <3>2 DEF ListState
      <4> QED BY <4>1, <4>2, <3>1
    <3>4. /\ Rest(e) \in EditorState
          /\ Rest(e).step \in {"idle", "count"}
          /\ Rest(e).step = "count" => Rest(e).old \in Images
      BY <2>1, <1>0 DEF Rest, Step, ContentTypes, EditorState, Covers
    <3>5. Plain(e, Rest(e))
      BY <3>1, <3>3, <3>4 DEF Plain, Creates
    <3> QED BY <3>5, PlainKeeps
  <2>16. ASSUME NEW e \in Editors, EditorAborts(e)
         PROVE  ContentInv'
    <3>1. /\ UNCHANGED <<posts, images, visitor>> /\ Goes(e, IdleEditor)
          /\ list' = [list EXCEPT !.late = list.late \/ (list.held /\ Doing(e, "invalidate"))]
      BY <2>16 DEF EditorAborts
    <3>2. list \in ListState
      BY <2>1 DEF ContentTypes
    <3>3. CASE editor[e].step = "invalidate" /\ list.held
      <4>1. list' = [list EXCEPT !.late = TRUE]
        BY <3>1, <3>3, Zenon DEF Doing
      <4>2. list' \in ListState /\ list'.late
        BY <4>1, <3>2 DEF ListState
      <4> QED BY <3>1, <4>2, <1>0, PlainKeeps DEF Plain, Creates
    <3>4. CASE ~(editor[e].step = "invalidate" /\ list.held)
      <4>1. list' = [list EXCEPT !.late = list.late]
        <5>1. list.late \in BOOLEAN
          BY <3>2 DEF ListState
        <5>2. (list.late \/ (list.held /\ Doing(e, "invalidate"))) = list.late
          BY <3>4, <5>1, Zenon DEF Doing
        <5> QED BY <3>1, <5>2
      <4>2. list' = list
        BY <4>1, <3>2 DEF ListState
      <4>3. list \in ListState /\ (editor[e].step # "invalidate" \/ ~list.held)
        BY <3>2, <3>4
      <4> QED BY <3>1, <4>2, <4>3, <1>0, PlainKeeps DEF Plain, Creates
    <3> QED BY <3>3, <3>4
  <2>17. ASSUME NEW v \in Visitors, ListMiss(v) \/ ListSelect(v) \/ ListSet(v)
         PROVE  ContentInv'
    <3>0. UNCHANGED <<posts, images, editor, overlapped>>
      BY <2>17 DEF ListMiss, ListSelect, ListSet
    <3>1. visitor \in [Visitors -> VisitorState] /\ list \in ListState
      BY <2>1 DEF ContentTypes
    <3>2. Public \in Lists
      BY <2>1 DEF Public, Lists, ContentTypes, Row
    <3>3. PICK w \in VisitorState :
            /\ visitor' = [visitor EXCEPT ![v] = w]
            /\ w.step = "set" => w.items = Public
      <4>1. CASE ListMiss(v)
        <5>1. [visitor[v] EXCEPT !.step = "select"] \in VisitorState
              /\ [visitor[v] EXCEPT !.step = "select"].step = "select"
          BY <3>1 DEF VisitorState
        <5> QED BY <4>1, <5>1 DEF ListMiss
      <4>2. CASE ListSelect(v)
        <5>1. [step |-> "set", items |-> Public, late |-> FALSE] \in VisitorState
          BY <3>2 DEF VisitorState
        <5> QED BY <4>2, <5>1 DEF ListSelect
      <4>3. CASE ListSet(v)
        BY <4>3, <1>0 DEF ListSet
      <4> QED BY <2>17, <4>1, <4>2, <4>3
    <3>4. visitor' \in [Visitors -> VisitorState] /\ ReadIsPublic'
      BY <3>0, <3>1, <3>3 DEF ContentInv, ListInv, ReadIsPublic, Public
    <3>5. list' \in ListState /\ StaleExplained'
      <4>1. CASE list' = list
        BY <4>1, <3>0, <3>1 DEF ContentInv, ListInv, StaleExplained, Public, Doing
      <4>2. CASE visitor[v].step = "set" /\ list' = Filled(visitor[v].items, visitor[v].late)
        <5>1. list' \in ListState
          BY <4>2, <3>1 DEF Filled, ListState, VisitorState
        <5>2. list'.late = visitor[v].late /\ list'.items = visitor[v].items
          BY <4>2 DEF Filled
        <5>3. visitor[v].late = TRUE \/ visitor[v].items = Public
          BY <4>2 DEF ContentInv, ListInv, ReadIsPublic
        <5> QED BY <5>1, <5>2, <5>3, <3>0 DEF StaleExplained, Public
      <4> QED BY <2>17, <4>1, <4>2 DEF ListMiss, ListSelect, ListSet
    <3>6. CoverInv'
      BY <3>0, CoverInvStays DEF ContentInv
    <3> QED BY <3>0, <3>4, <3>5, <3>6, <2>1 DEF ContentInv, ContentTypes, ListInv
  <2>18. CASE Expire
    <3>1. list' = NoList /\ UNCHANGED <<posts, images, editor, visitor, overlapped>>
      BY <2>18 DEF Expire
    <3>2. list' \in ListState /\ ~list'.held
      BY <3>1 DEF NoList, ListState, Lists
    <3>3. ContentTypes'
      BY <3>1, <3>2, <2>1 DEF ContentTypes
    <3>4. ListInv'
      BY <3>1, <3>2 DEF ContentInv, ListInv, ReadIsPublic, StaleExplained, Public
    <3> QED BY <3>1, <3>3, <3>4, CoverInvStays DEF ContentInv
  <2>19. CASE UNCHANGED contentVars
    <3>1. UNCHANGED <<posts, images, list, editor, visitor, overlapped>>
      BY <2>19 DEF contentVars
    <3>2. ListInv'
      BY <3>1 DEF ContentInv, ListInv, ReadIsPublic, StaleExplained, Public, Doing
    <3> QED BY <3>1, <3>2, <2>1, CoverInvStays DEF ContentInv, ContentTypes
  <2> QED BY <2>2, <2>3, <2>4, <2>5, <2>6, <2>7, <2>8, <2>9, <2>10, <2>11, <2>12, <2>13, <2>14, <2>15, <2>16,
             <2>17, <2>18, <2>19 DEF ContentNext, EditorStep, VisitorStep
<1>3. ContentInv => SiteExplained
  BY DEF ContentInv, ListInv, CoverInv, RowIsCovered, Covered, CoverExplained, SiteExplained
<1> QED BY <1>1, <1>2, <1>3, PTL DEF ContentSpec

=============================================================================
