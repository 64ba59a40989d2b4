----------------------------- MODULE ConsoleAccess -----------------------------
(* One browser of the dashboard and the API it talks to.  The API decides by  *)
(* the roles its database holds at each call; the browser decides what to     *)
(* show by the account it read up to five minutes ago, and on the first page*)
(* also by an overview it read then.                                          *)
EXTENDS ConsoleApp

CONSTANTS
  Holdings,      \* sets of roles an administrator gives out
  MaxSwitches    \* bound on changes of the roles, and of the user, together

ASSUME HoldingsAreRoles == Holdings \subseteq SUBSET Role

VARIABLES
  signedIn,    \* the user of the session, as the database has it
  me,         \* the user as the browser's cache has it
  enrolled,   \* whether the user has a second factor
  overview,   \* the user the cached overview was computed for, or {}
  address,       \* the page the browser shows
  refusal,    \* the last step's refusal: what was refused, and what explains it
  switches

accessVars == <<signedIn, me, enrolled, overview, address, refusal, switches>>

Users == [roles : Holdings, client : BOOLEAN]

NoRefusal == [what |-> "nothing", why |-> {}]

AccessInit ==
  /\ signedIn \in Users
  /\ me = signedIn
  /\ enrolled \in BOOLEAN
  /\ overview = {}
  /\ address = "/"
  /\ refusal = NoRefusal
  /\ switches = 0

(* The overview as the first page has it.                                     *)
Data ==
  IF overview = {} THEN Loading ELSE getDashboardOverview(CHOOSE user \in overview : TRUE)

(* ProtectedRoute: who must enrol sees the account page at every address.   *)
ProtectedRoute(to) ==
  IF isTwoFactorRequired(me.roles) /\ ~enrolled THEN "/profile" ELSE to

-----------------------------------------------------------------------------
(* What happens elsewhere *)

(* An administrator edits the user's roles.                                   *)
updateUser ==
  /\ switches < MaxSwitches
  /\ \E roles \in Holdings \ {signedIn.roles} : signedIn' = [signedIn EXCEPT !.roles = roles]
  /\ switches' = switches + 1
  /\ refusal' = NoRefusal
  /\ UNCHANGED <<me, enrolled, overview, address>>

(* Somebody else signs in in this tab: the account is set from the answer,  *)
(* and nothing else that was cached is dropped.                               *)
SignInAgain ==
  /\ switches < MaxSwitches
  /\ \E user \in Users \ {signedIn} : signedIn' = user /\ me' = user
  /\ enrolled' \in BOOLEAN
  /\ address' = "/"
  /\ switches' = switches + 1
  /\ refusal' = NoRefusal
  /\ UNCHANGED overview

-----------------------------------------------------------------------------
(* Reads *)

(* useCurrentUser, once five minutes have passed.                             *)
ReadAccount ==
  /\ me' = signedIn
  /\ address' = IF isTwoFactorRequired(signedIn.roles) /\ ~enrolled THEN "/profile" ELSE address
  /\ refusal' = NoRefusal
  /\ UNCHANGED <<signedIn, enrolled, overview, switches>>

ReadOverview ==
  /\ address = "/"
  /\ overview' = {signedIn}
  /\ refusal' = NoRefusal
  /\ UNCHANGED <<signedIn, me, enrolled, address, switches>>

(* Another range of dates has an entry of its own, and an unused entry is     *)
(* dropped.                                                                   *)
DropOverview ==
  /\ overview' = {}
  /\ refusal' = NoRefusal
  /\ UNCHANGED <<signedIn, me, enrolled, address, switches>>

(* An address typed, or the page loaded anew: nothing is cached.              *)
Load(to) ==
  /\ me' = signedIn
  /\ overview' = {}
  /\ address' = IF isTwoFactorRequired(signedIn.roles) /\ ~enrolled THEN "/profile" ELSE to
  /\ refusal' = NoRefusal
  /\ UNCHANGED <<signedIn, enrolled, switches>>

-----------------------------------------------------------------------------
(* What the user does *)

(* The links on the screen; the row of a list only where the list is shown.   *)
Links ==
  AppShell(me)
  \cup (IF RequirePermission(me, address) THEN linksIn(address) ELSE {})
  \cup (IF address = "/" THEN dashboardLinks(me, Data) ELSE {})

(* A link is refused when the page behind it says "Permission denied".        *)
Follow(to) ==
  /\ address' = ProtectedRoute(to)
  /\ refusal' =
       IF RequirePermission(me, address') THEN NoRefusal
       ELSE [what |-> to,
             why  |-> {w \in {"overviewOlder", "overviewLoading"} :
                         IF w = "overviewLoading" THEN address = "/" /\ overview = {}
                         ELSE address = "/" /\ overview \notin {{}, {me}}}]
  /\ UNCHANGED <<signedIn, me, enrolled, overview, switches>>

(* What the page shows and offers to the user the browser knows.              *)
Offered ==
  LET page == App[address].page  held == Held(me)
  IN  IF RequirePermission(me, address)
      THEN {thing \in page.shows \cup page.offers : thing.gate \subseteq held}
      ELSE {}

(* Calls that ask for a right which the page does not ask for before it       *)
(* offers them: to a task's assignee, to whoever files a bug.                 *)
Unasked ==
  {taskApi.addComment, taskApi.addChecklistItem, taskApi.setChecklistItem,
   taskApi.addProgress, taskApi.recordHours, taskApi.uploadAttachment,
   operationsApi.createBug, operationsApi.updateBug, operationsApi.updateMaintenance}

(* What every role with one of these rights has along with it.                *)
Along(rights) ==
  {p \in PERMISSIONS : \E right \in rights : \A role \in Role :
     right \in RightsOf[role] => p \in RightsOf[role]}

(* What a page shows or offers asks for rights that open its route, by        *)
(* themselves or by what the roles of the seed give along with them.          *)
PagesAskFirst ==
  \A path \in DOMAIN App : \A thing \in App[path].page.shows \cup App[path].page.offers :
    \/ thing.does.call \in Unasked
    \/ Admits(thing.does.call, Along(App[path].guard \cup thing.gate))

(* Every link leads to a page, the links of a list no further than the list   *)
(* itself, and the card of a module to a page that its readers may see.       *)
LinksLead ==
  /\ {"/", "/profile", "/notifications"} \cup WEBSITE_ITEMS \cup PORTAL_ITEMS
       \cup OPERATIONS_ITEMS \subseteq DOMAIN App
  /\ App["/"].guard = {} /\ App["/profile"].guard = {}
  /\ App["/notifications"].guard = {<<"notifications", "read">>}
  /\ \A path \in DOMAIN App : \A to \in linksIn(path) :
       to \in DOMAIN App /\ App[to].guard \subseteq App[path].guard
  /\ \A key \in MODULES :
       ModulePath(key) \in DOMAIN App /\ App[ModulePath(key)].guard = {<<ModuleArea(key), "read">>}

(* No role of the seed may create what it may not read.                       *)
CreatorsRead ==
  \A key \in MODULES : <<key, "create">> \in PERMISSIONS => <<key, "read">> \in Along({<<key, "create">>})

(* So the tables of pages, links, routes and roles are, as TLC evaluates them.*)
ASSUME TablesAgree == PagesAskFirst /\ LinksLead /\ CreatorsRead

(* A query runs, or a button is pressed: the API answers, or 403.             *)
Ask(thing) ==
  /\ refusal' =
       IF Admits(thing.does.call, Held(signedIn)) THEN NoRefusal
       ELSE [what |-> "call",
             why  |-> {w \in {"rightsLost", "notAskedFor"} :
                         IF w = "rightsLost" THEN Admits(thing.does.call, Held(me))
                         ELSE thing.does.call \in Unasked}]
  /\ UNCHANGED <<signedIn, me, enrolled, overview, address, switches>>

(* confirmTwoFactorSetup: its answer is the account.                        *)
Enrol ==
  /\ address = "/profile"
  /\ ~enrolled
  /\ enrolled' = TRUE
  /\ me' = signedIn
  /\ refusal' = NoRefusal
  /\ UNCHANGED <<signedIn, overview, address, switches>>

AccessNext ==
  \/ updateUser \/ SignInAgain \/ ReadAccount \/ ReadOverview \/ DropOverview \/ Enrol
  \/ \E to \in DOMAIN App : Load(to)
  \/ \E to \in Links : Follow(to)
  \/ \E thing \in Offered : Ask(thing)

AccessSpec == AccessInit /\ [][AccessNext]_accessVars

-----------------------------------------------------------------------------
(* Nobody is led to what they may not have.  Following a link the dashboard   *)
(* draws, or using what a page shows and offers, is refused only for a reason *)
(* known to the code: the user lost the right after the browser read the      *)
(* account; the overview was computed for other rights than the account's;  *)
(* the call is one of those the engineering pages offer without asking; or    *)
(* the link is drawn by a frame while the overview loads.                     *)
RefusalsExplained == refusal = NoRefusal \/ refusal.why # {}

=============================================================================
