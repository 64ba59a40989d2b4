----------------------------- MODULE Membership -----------------------------
(***************************************************************************)
(* The members of one project and their roles: adding (or re-adding),      *)
(* changing and removing a member, and choosing the lead engineer, whom    *)
(* the code makes the only one by demoting the others in the transaction   *)
(* that promotes.  The database runs at READ COMMITTED, so that demotion   *)
(* sees the leads committed when its statement starts: one action reads    *)
(* them, the next commits.  Responsibilities, audit rows and notifications *)
(* are left out.                                                           *)
(***************************************************************************)
CONSTANTS
    Users,      \* users that may be members
    Admin,      \* an administrator, who is not a member
    Manager,    \* the user named as manager in the project's row
    Calls       \* calls in flight at once

ASSUME ManagerAssumption == Manager \in Users

VARIABLES
    members,    \* the membership rows
    call,       \* where each call stands
    doubtful    \* history: the last lead was chosen over another choice

membershipVars == <<members, call, doubtful>>

-----------------------------------------------------------------------------
Roles == {"MANAGER", "LEAD_ENGINEER", "ENGINEER"}
Absent == [state |-> "absent", role |-> "ENGINEER"]
Idle == [step |-> "idle", write |-> "update", user |-> Manager, role |-> "ENGINEER", leads |-> {}, late |-> FALSE]

CallState == [step : {"idle", "demote", "upsert", "update", "remove"}, write : {"upsert", "update"},
              user : Users, role : Roles, leads : SUBSET Users, late : BOOLEAN]

MembershipTypeOK ==
    /\ members \in [Users -> [state : {"absent", "active", "removed"}, role : Roles]]
    /\ call \in [Calls -> CallState]
    /\ doubtful \in BOOLEAN

MembershipInit ==
    /\ members = [u \in Users |-> Absent]
    /\ call = [c \in Calls |-> Idle]
    /\ doubtful = FALSE

Active == {u \in Users : members[u].state = "active"}
Leads == {u \in Active : members[u].role = "LEAD_ENGINEER"}

(* access: an administrator, the project's manager or a managing member.   *)
Manages(a) == a = Admin \/ a = Manager \/ \E u \in Active : u = a /\ members[u].role = "MANAGER"

-----------------------------------------------------------------------------
(* The call after its checks: a lead is chosen by way of a demotion.       *)
Writing(c, u, role, write) ==
    call' = [call EXCEPT ![c] = [step |-> IF role = "LEAD_ENGINEER" THEN "demote" ELSE write,
                                 write |-> write, user |-> u, role |-> role, leads |-> {}, late |-> FALSE]]

addProjectMember(c) == \E a \in Users \cup {Admin}, u \in Users, role \in Roles :
    /\ call[c].step = "idle" /\ Manages(a)
    /\ Writing(c, u, role, "upsert")
    /\ UNCHANGED <<members, doubtful>>

updateProjectMember(c) == \E a \in Users \cup {Admin}, u \in Active, role \in Roles :
    /\ call[c].step = "idle" /\ Manages(a)
    /\ Writing(c, u, role, "update")
    /\ UNCHANGED <<members, doubtful>>

(* Mutant: a lead who is also the manager in the project's row is kept. *)
X_Demoted == Leads \ {Manager}

Demoted == Leads

Demote(c) ==
    /\ call[c].step = "demote"
    /\ call' = [call EXCEPT ![c].step = call[c].write, ![c].leads = Demoted]
    /\ UNCHANGED <<members, doubtful>>

(* The rows of the other transactions after a commit: a demotion that had  *)
(* to wait for the lock of a row looks at it again, and leaves it out when *)
(* it is no lead any more.  One that chooses too is late.                  *)
Reread(c, chooses) ==
    [d \in Calls |->
        IF d = c THEN Idle
        ELSE [call[d] EXCEPT !.leads = {u \in @ : members'[u].state = "active" /\ members'[u].role = "LEAD_ENGINEER"},
                             !.late = @ \/ (chooses /\ call[d].role = "LEAD_ENGINEER"
                                            /\ call[d].step \in {"upsert", "update"})]]

(* The commit of an upsert revives a removed row; an update of the role of *)
(* a row that has been removed since leaves it removed.                    *)
Commit(c) == LET u == call[c].user  chooses == call[c].role = "LEAD_ENGINEER" IN
    /\ call[c].step \in {"upsert", "update"}
    /\ members' = [v \in Users |->
          IF v = u THEN [state |-> IF call[c].step = "upsert" THEN "active" ELSE members[u].state,
                         role |-> call[c].role]
          ELSE IF v \in call[c].leads THEN [members[v] EXCEPT !.role = "ENGINEER"] ELSE members[v]]
    /\ doubtful' = IF chooses THEN call[c].late ELSE doubtful
    /\ call' = Reread(c, chooses)

removeProjectMember(c) == \E a \in Users \cup {Admin}, u \in Active :
    /\ call[c].step = "idle" /\ Manages(a)
    /\ members[u].role = "MANAGER" => a = Admin
    /\ call' = [call EXCEPT ![c] = [Idle EXCEPT !.step = "remove", !.user = u]]
    /\ UNCHANGED <<members, doubtful>>

Remove(c) ==
    /\ call[c].step = "remove"
    /\ members' = [members EXCEPT ![call[c].user].state = "removed"]
    /\ call' = Reread(c, FALSE)
    /\ UNCHANGED doubtful

(* A database call throws (the transaction rolls back), or the process ends. *)
CallAborts(c) ==
    /\ call[c].step # "idle"
    /\ call' = [call EXCEPT ![c] = Idle]
    /\ UNCHANGED <<members, doubtful>>

MembershipNext == \E c \in Calls :
    \/ addProjectMember(c) \/ updateProjectMember(c) \/ Demote(c) \/ Commit(c)
    \/ removeProjectMember(c) \/ Remove(c) \/ CallAborts(c)

MembershipSpec == MembershipInit /\ [][MembershipNext]_membershipVars

-----------------------------------------------------------------------------
(* A project has one lead engineer at most, unless the last lead was       *)
(* chosen in a transaction that overlapped another choice; the next choice *)
(* that overlaps none restores it (addProjectMember, updateProjectMember). *)
OneLead == \A u, v \in Leads : u = v \/ doubtful

=============================================================================
