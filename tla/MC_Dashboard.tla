------------------------------ MODULE MC_Dashboard ------------------------------
(* The session of a user and the two halves of the dashboard that work with   *)
(* it, checked in one run: an initial state chooses which of the three takes  *)
(* steps, so that their state spaces add up instead of multiplying.           *)
EXTENDS Sessions, ConsoleAccess, ConsoleCache, TLC

VARIABLE part

allVars == <<part, vars, accessVars, cacheVars>>

(* Every role alone, users of two roles, and a user who lost the last one.    *)
Given ==
  {{role} : role \in Role}
  \cup {{"MANAGER", "CLIENT"}, {"STAFF", "EDITOR"}, {"ENGINEER", "CLIENT"}, {}}

(* A part that is not chosen stays in one of its initial states.              *)
DashboardInit ==
  /\ part \in {"sessions", "access", "cache"}
  /\ Init /\ AccessInit /\ CacheInit
  /\ part # "access" => signedIn = [roles |-> {}, client |-> FALSE] /\ ~enrolled
  /\ part # "cache" => view.path = "/" /\ view.shown = authHooks.useCurrentUser

DashboardNext ==
  /\ UNCHANGED part
  /\ \/ part = "sessions" /\ Next /\ UNCHANGED <<accessVars, cacheVars>>
     \/ part = "access" /\ AccessNext /\ UNCHANGED <<vars, cacheVars>>
     \/ part = "cache" /\ CacheNext /\ UNCHANGED <<vars, accessVars>>

DashboardSpec == DashboardInit /\ [][DashboardNext]_allVars

Symmetry == Permutations(Handlers) \cup Permutations(Browsers)
=============================================================================
