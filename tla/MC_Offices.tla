------------------------------ MODULE MC_Offices ------------------------------
(***************************************************************************)
(* The components of the back office that share no rows with one another,  *)
(* checked in one run: an initial state chooses the office that works, so  *)
(* the state spaces of the eight modules add up instead of multiplying.      *)
(***************************************************************************)
EXTENDS Content, Careers, Membership, Milestones, Tickets, Workforce, Notifications, TaskGraph

VARIABLE office

noticeVars == <<vars, emitVars>>
allVars == <<office, contentVars, careersVars, membershipVars, milestonesVars, ticketsVars, workforceVars,
             noticeVars, graphVars>>

OfficesInit ==
    /\ office \in {"content", "careers", "membership", "milestones", "tickets", "workforce", "notices", "graph"}
    /\ ContentInit /\ CareersInit /\ MembershipInit /\ MilestonesInit /\ TicketsInit /\ WorkforceInit
    /\ NotificationsInit /\ GraphInit
    /\ office # "content" => images = [i \in Images |-> "unused"]      \* one start of each other office
    /\ office # "notices" => smtp = [p \in Processes |-> FALSE]

(* The offices that are not at work take no step. *)
ShutUnless(name, v) == IF office = name THEN TRUE ELSE UNCHANGED v

OfficesNext ==
    /\ UNCHANGED office
    /\ \/ office = "content" /\ ContentNext
       \/ office = "careers" /\ CareersNext
       \/ office = "membership" /\ MembershipNext
       \/ office = "milestones" /\ MilestonesNext
       \/ office = "tickets" /\ TicketsNext
       \/ office = "workforce" /\ WorkforceNext
       \/ office = "notices" /\ NotificationsNext
       \/ office = "graph" /\ GraphNext
    /\ ShutUnless("content", contentVars) /\ ShutUnless("careers", careersVars) /\ ShutUnless("membership", membershipVars)
    /\ ShutUnless("milestones", milestonesVars) /\ ShutUnless("tickets", ticketsVars) /\ ShutUnless("workforce", workforceVars)
    /\ ShutUnless("notices", noticeVars) /\ ShutUnless("graph", graphVars)

OfficesSpec == OfficesInit /\ [][OfficesNext]_allVars /\ ContentFairness
=============================================================================
