-------------------------------- MODULE Tickets --------------------------------
(***************************************************************************)
(* Support tickets.  The code of a ticket is one more than the number of   *)
(* tickets that the call has counted, and the insert fails on the unique   *)
(* code when another took it.  Status, priority and assignee are the last  *)
(* write; replies are appended to a ticket that exists.                    *)
(***************************************************************************)
EXTENDS Integers, FiniteSets

CONSTANTS
    Agents,     \* calls in flight at once
    MaxTickets  \* bound: tickets and replies

ASSUME TicketsAssumption == MaxTickets \in Nat

VARIABLES
    tickets,    \* ticket code -> its status
    replies,    \* ticket code -> number of replies
    agent,      \* where each call stands
    collided    \* history: an insert failed on its code with nothing overlapping it

ticketsVars == <<tickets, replies, agent, collided>>

-----------------------------------------------------------------------------
Codes == 1 .. MaxTickets
States == {"none", "OPEN", "CLOSED"}
CodesTaken == {n \in Codes : tickets[n] # "none"}
AgentIdle == [step |-> "idle", code |-> 0, late |-> FALSE]

TicketsTypeOK ==
    /\ tickets \in [Codes -> States]
    /\ replies \in [Codes -> 0 .. 1]
    /\ agent \in [Agents -> [step : {"idle", "insert", "write", "reply"}, code : 0 .. MaxTickets, late : BOOLEAN]]
    /\ collided \in BOOLEAN

TicketsInit ==
    /\ tickets = [n \in Codes |-> "none"]
    /\ replies = [n \in Codes |-> 0]
    /\ agent = [a \in Agents |-> AgentIdle]
    /\ collided = FALSE

(* Mutant: the code is the count itself. *)
X_NextCode == Cardinality(CodesTaken)

NextCode == Cardinality(CodesTaken) + 1

CountTickets(a) ==
    /\ agent[a].step = "idle" /\ NextCode <= MaxTickets
    /\ agent' = [agent EXCEPT ![a] = [step |-> "insert", code |-> NextCode, late |-> FALSE]]
    /\ UNCHANGED <<tickets, replies, collided>>

InsertTicket(a) == LET n == agent[a].code IN
    /\ agent[a].step = "insert"
    /\ IF n \in CodesTaken \cup {0}
       THEN /\ collided' = (collided \/ ~agent[a].late)
            /\ agent' = [agent EXCEPT ![a] = AgentIdle]
            /\ UNCHANGED tickets
       ELSE /\ tickets' = [tickets EXCEPT ![n] = "OPEN"]
            /\ agent' = [b \in Agents |-> IF b = a THEN AgentIdle
                                          ELSE [agent[b] EXCEPT !.late = @ \/ agent[b].step = "insert"]]
            /\ UNCHANGED collided
    /\ UNCHANGED replies

FindTicket(a) == \E n \in CodesTaken, step \in {"write", "reply"} :
    /\ agent[a].step = "idle"
    /\ agent' = [agent EXCEPT ![a] = [step |-> step, code |-> n, late |-> FALSE]]
    /\ UNCHANGED <<tickets, replies, collided>>

UpdateTicket(a) ==
    /\ agent[a].step = "write"
    /\ \E status \in {"OPEN", "CLOSED"} : tickets' = [tickets EXCEPT ![agent[a].code] = status]
    /\ agent' = [agent EXCEPT ![a] = AgentIdle]
    /\ UNCHANGED <<replies, collided>>

CreateReply(a) ==
    /\ agent[a].step = "reply" /\ replies[agent[a].code] = 0
    /\ replies' = [replies EXCEPT ![agent[a].code] = 1]
    /\ agent' = [agent EXCEPT ![a] = AgentIdle]
    /\ UNCHANGED <<tickets, collided>>

AgentAborts(a) ==
    /\ agent[a].step # "idle"
    /\ agent' = [agent EXCEPT ![a] = AgentIdle]
    /\ UNCHANGED <<tickets, replies, collided>>

TicketsNext == \E a \in Agents :
    CountTickets(a) \/ InsertTicket(a) \/ FindTicket(a) \/ UpdateTicket(a) \/ CreateReply(a) \/ AgentAborts(a)

TicketsSpec == TicketsInit /\ [][TicketsNext]_ticketsVars

-----------------------------------------------------------------------------
(* A client's ticket is refused for its code only when another ticket was  *)
(* created in between: the count never falls behind the codes in use       *)
(* (createTicket counts every row, the deleted ones too).                  *)
CodesFree == ~collided

=============================================================================
