------------------------------ MODULE ConsoleCache ------------------------------
(* One query of the dashboard in one tab: the cache entry it is shown from,   *)
(* the page that shows it, the commands that page sends, and the rows on the  *)
(* server.  Rows count the writes they took, and data is the count that was   *)
(* read: 0 for none.                                                          *)
EXTENDS ConsoleApp, ConsoleRows

CONSTANT MaxWrites    \* bound on the writes the rows take

ASSUME WritesAreBounded == MaxWrites \in Nat

VARIABLES
  view,       \* the page and the query: one of Views throughout
  written,    \* the rows, on the server
  entry,      \* the cache entry: its data, and whether the data counts as fresh
  fetch,      \* the request that will fill the entry
  onScreen,   \* whether the page is open
  command,    \* the command in flight
  promised,   \* the last write whose success the page reported
  excuse      \* why the entry may be behind what was promised

cacheVars == <<view, written, entry, fetch, onScreen, command, promised, excuse>>

-----------------------------------------------------------------------------
(* What there is to show *)

(* Every page is drawn inside a frame that shows the account.                 *)
Shown(path) == {thing.does : thing \in App[path].page.shows} \cup {authHooks.useCurrentUser}

Views == UNION {{[path |-> p, shown |-> q] : q \in Shown(p)} : p \in DOMAIN App}

(* Writes the page does not follow with a read: a document is saved in a new  *)
(* folder, tasks are proposed from a document beside the list of tasks, and   *)
(* an administrator edits the roles the own account stands on.                *)
Unrefreshed(done, query) ==
  \/ /\ done.call \in {documentationApi.create, documentationApi.update}
     /\ query.key = <<"documentation-folders">>
  \/ /\ done.call = documentationApi.proposeTasks
     /\ query.key = <<"engineering-tasks">>
  \/ /\ done.call \in {usersApi.update, rolesApi.setRolePermissions}
     /\ query.key = CURRENT_USER_KEY

(* What the commands of a page are to a query.                                *)
Effects(path, query) ==
  {[writes |-> done.call[1] # "GET" /\ RowsOf[done.call] \cap RowsOf[query.call] # {},
    tells  |-> \E told \in done.tells : Covers(told, query.key),
    sets   |-> query.key \in done.sets,
    known  |-> Unrefreshed(done, query)] : done \in {thing.does : thing \in App[path].page.offers}}

Effect == [v \in Views |-> Effects(v.path, v.shown)]

(* useCurrentUser is not asked again; every other query is, once.             *)
Retries(query) == IF query = authHooks.useCurrentUser THEN 0 ELSE 1

-----------------------------------------------------------------------------
(* Initial state *)

NotAsked      == [at |-> "idle", data |-> 0, tries |-> 0, overtaken |-> FALSE]
NoCommand == [at |-> "none", data |-> 0, effects |-> {}]

CacheInit ==
  /\ view \in Views
  /\ written = 1
  /\ entry = [data |-> 0, fresh |-> FALSE]
  /\ fetch = NotAsked
  /\ onScreen = FALSE
  /\ command = NoCommand
  /\ promised = 0
  /\ excuse = "none"

-----------------------------------------------------------------------------
(* The page and the entry *)

Asked == [NotAsked EXCEPT !.at = "asked"]

InFlight == fetch.at # "idle"

(* An entry without fresh data is read; a request under way is joined.        *)
ShowPage ==
  /\ ~onScreen
  /\ onScreen' = TRUE
  /\ fetch' = IF ~InFlight /\ ~(entry.data > 0 /\ entry.fresh) THEN Asked ELSE fetch
  /\ UNCHANGED <<view, written, entry, command, promised, excuse>>

(* A request under way goes on.                                               *)
HidePage ==
  /\ onScreen
  /\ onScreen' = FALSE
  /\ UNCHANGED <<view, written, entry, fetch, command, promised, excuse>>

(* staleTime has passed.                                                      *)
GrowStale ==
  /\ entry.fresh
  /\ entry' = [entry EXCEPT !.fresh = FALSE]
  /\ UNCHANGED <<view, written, fetch, onScreen, command, promised, excuse>>

(* The network is back: what is on the screen and stale is read again.        *)
Reconnect ==
  /\ onScreen /\ ~entry.fresh /\ ~InFlight
  /\ fetch' = Asked
  /\ UNCHANGED <<view, written, entry, onScreen, command, promised, excuse>>

(* An entry no page shows is dropped after a while.                           *)
Collect ==
  /\ ~onScreen /\ ~InFlight /\ entry.data > 0
  /\ entry' = [data |-> 0, fresh |-> FALSE]
  /\ UNCHANGED <<view, written, fetch, onScreen, command, promised, excuse>>

-----------------------------------------------------------------------------
(* A request of the entry *)

Read ==
  /\ fetch.at = "asked"
  /\ fetch' = [fetch EXCEPT !.at = "read", !.data = written]
  /\ UNCHANGED <<view, written, entry, onScreen, command, promised, excuse>>

Arrive ==
  /\ fetch.at = "read"
  /\ entry' = [data |-> fetch.data, fresh |-> TRUE]
  /\ fetch' = NotAsked
  /\ excuse' = IF fetch.data >= promised THEN "none"
               ELSE IF fetch.overtaken THEN "overtaken" ELSE excuse
  /\ UNCHANGED <<view, written, onScreen, command, promised>>

(* Asked once more while a page waits for it.                                 *)
Fail ==
  /\ InFlight
  /\ IF onScreen /\ fetch.tries < Retries(view.shown)
     THEN fetch' = [fetch EXCEPT !.at = "asked", !.data = 0, !.tries = fetch.tries + 1]
          /\ UNCHANGED excuse
     ELSE fetch' = NotAsked /\ excuse' = "failed"
  /\ UNCHANGED <<view, written, entry, onScreen, command, promised>>

-----------------------------------------------------------------------------
(* Commands *)

Write == written < MaxWrites /\ written' = written + 1

Send ==
  /\ onScreen
  /\ command = NoCommand
  /\ \E effect \in Effect[view] : command' = [at |-> "sent", data |-> 0, effects |-> {effect}]
  /\ UNCHANGED <<view, written, entry, fetch, onScreen, promised, excuse>>

Perform ==
  /\ command.at = "sent"
  /\ \A effect \in command.effects : IF effect.writes THEN Write ELSE UNCHANGED written
  /\ command' = [command EXCEPT !.at = "done", !.data = written']
  /\ UNCHANGED <<view, entry, fetch, onScreen, promised, excuse>>

(* invalidateQueries: the entry is out of date, and read again if a page      *)
(* shows it.  A request under way is dropped for the new one only when the    *)
(* entry has data; otherwise it is left to finish, and counts as fresh then.  *)
invalidate ==
  /\ entry' = [entry EXCEPT !.fresh = FALSE]
  /\ fetch' = IF onScreen /\ (~InFlight \/ entry.data > 0) THEN Asked
              ELSE [fetch EXCEPT !.overtaken = InFlight]

(* setQueryData: the answer is the data; a request under way is not stopped.  *)
setQueryData ==
  /\ entry' = [data |-> command.data, fresh |-> TRUE]
  /\ fetch' = [fetch EXCEPT !.overtaken = InFlight]

(* onSuccess, on the page or after it was left.                               *)
Succeed ==
  /\ command.at = "done"
  /\ \E effect \in command.effects :
       /\ IF effect.sets THEN setQueryData
          ELSE IF effect.tells THEN invalidate
          ELSE UNCHANGED <<entry, fetch>>
       /\ promised' = IF effect.writes /\ ~effect.known THEN command.data ELSE promised
  /\ command' = NoCommand
  /\ UNCHANGED <<view, written, onScreen, excuse>>

(* The call was refused, or its answer was lost: the page reports an error.   *)
NotSucceed ==
  /\ command # NoCommand
  /\ command' = NoCommand
  /\ UNCHANGED <<view, written, entry, fetch, onScreen, promised, excuse>>

(* Another page, another tab, another user.                                   *)
WriteElsewhere ==
  /\ Write
  /\ UNCHANGED <<view, entry, fetch, onScreen, command, promised, excuse>>

CacheNext ==
  \/ ShowPage \/ HidePage \/ GrowStale \/ Reconnect \/ Collect
  \/ Read \/ Arrive \/ Fail
  \/ Send \/ Perform \/ Succeed \/ NotSucceed \/ WriteElsewhere

CacheSpec == CacheInit /\ [][CacheNext]_cacheVars

-----------------------------------------------------------------------------
(* A page shows what it said was saved.  Once a command was reported to have  *)
(* succeeded and nothing is being read, every list on the page that rests on  *)
(* rows the command wrote shows them at least as written, unless a read       *)
(* failed, or the command overtook a request that was still filling the       *)
(* entry.  The writes of Unrefreshed are not promised.                        *)
ReadsOwnWrites == onScreen /\ ~InFlight /\ entry.data < promised => excuse # "none"

=============================================================================
