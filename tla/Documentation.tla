--------------------------- MODULE Documentation ----------------------------
(***************************************************************************)
(* A document of a project: its edits, its review, its versions and the    *)
(* tasks proposed from it                                                  *)
(* (backend/src/services/project-documentation.service.ts).                *)
(*                                                                         *)
(* A caller opens the document and later sends back the version that was   *)
(* open (expectedVersion).  The call reads the row, checks, and writes in  *)
(* a transaction: a compare-and-set on the version and a row of history.   *)
(* Proposing tasks reads the document, then in a transaction the titles    *)
(* that the tasks linked to it have by now, and creates the others; the    *)
(* transaction isolates nothing from another one, so its read and its      *)
(* commit are two steps.  A task can be renamed, unlinked and deleted.     *)
(*                                                                         *)
(* A content is the set of its lines that make a task title, and a task is *)
(* one of those that were proposed: other tasks linked by hand are left    *)
(* out, as one that was unlinked and renamed comes to the same; categories,*)
(* owners, files, folders and comments are left out, which no rule reads.  *)
(* Drafts, reviews and approvals are made by members who may make them.    *)
(***************************************************************************)
EXTENDS Naturals, Sequences

CONSTANTS
    Lines,         \* lines of text, and titles of tasks
    TaskIds,       \* tasks that can be created
    Handlers,      \* callers, one call of each in flight
    MaxVersion     \* bound: versions

ASSUME DocumentationAssumption == MaxVersion \in Nat \ {0}

VARIABLES
    doc,           \* the row
    versions,      \* DocumentationVersion, in order
    task,          \* [TaskIds -> the proposed task, or NoTask]
    handler,       \* [Handlers -> what the caller has open, or the call in flight]
    doubled        \* history: titles proposed by calls that overlapped, or given to the document
                   \* by hand, by a rename of a linked task or a link of a task

vars == <<doc, versions, task, handler, doubled>>

Status == {"DRAFT", "IN_REVIEW", "APPROVED", "ARCHIVED"}
Content == SUBSET Lines \ {{}}
Doc == [status : Status, content : Content, version : 1..MaxVersion, deleted : BOOLEAN]
NoDoc == [status |-> "NONE"]
(* based: the version its author had open (history)                        *)
Version == [status : Status, content : Content, based : 0..MaxVersion]
(* line: the line that the task was proposed from (history)                *)
Task == [line : Lines, title : Lines, live : BOOLEAN, linked : BOOLEAN]
NoTask == [live |-> FALSE]
Idle == [step |-> "idle"]
Call ==
    [step : {"open"}, seen : 1..MaxVersion]
    \cup [step : {"update", "status"}, seen : 1..MaxVersion, old : Status, to : Status, content : Content]
    \cup [step : {"delete"}]
    \cup [step : {"find", "insert"}, lines : SUBSET Lines, fresh : BOOLEAN]

(* Every variable has its type.                                            *)
TypeOK ==
    /\ doc \in Doc \cup {NoDoc}
    /\ versions \in Seq(Version)
    /\ task \in [TaskIds -> Task \cup {NoTask}]
    /\ handler \in [Handlers -> Call \cup {Idle}]
    /\ doubled \subseteq Lines

Init ==
    /\ doc = NoDoc
    /\ versions = <<>>
    /\ task = [t \in TaskIds |-> NoTask]
    /\ handler = [w \in Handlers |-> Idle]
    /\ doubled = {}

-----------------------------------------------------------------------------
Exists == doc # NoDoc /\ ~doc.deleted                    \* getExisting
At(w, step) == handler[w].step = step
Finish(w) == handler' = [handler EXCEPT ![w] = Idle]

createProjectDocumentation(c) ==
    /\ doc = NoDoc
    /\ doc' = [status |-> "DRAFT", content |-> c, version |-> 1, deleted |-> FALSE]
    /\ versions' = <<[status |-> "DRAFT", content |-> c, based |-> 0]>>
    /\ UNCHANGED <<task, handler, doubled>>

Open(w) ==
    /\ At(w, "idle") /\ Exists
    /\ handler' = [handler EXCEPT ![w] = [step |-> "open", seen |-> doc.version]]
    /\ UNCHANGED <<doc, versions, task, doubled>>

(* updateProjectDocumentation: an approved document becomes a draft again  *)
UpdateRead(w, c) ==
    /\ At(w, "open") /\ Exists
    /\ doc.status # "ARCHIVED"
    /\ handler' = [handler EXCEPT ![w] =
          [step |-> "update", seen |-> @.seen, old |-> doc.status, content |-> c,
           to |-> IF doc.status = "APPROVED" THEN "DRAFT" ELSE doc.status]]
    /\ UNCHANGED <<doc, versions, task, doubled>>

(* changeProjectDocumentationStatus                                        *)
allowed ==
    {<<"DRAFT", "IN_REVIEW">>, <<"IN_REVIEW", "DRAFT">>, <<"IN_REVIEW", "APPROVED">>,
     <<"APPROVED", "ARCHIVED">>}

StatusRead(w, to) ==
    /\ At(w, "open") /\ Exists
    /\ <<doc.status, to>> \in allowed
    /\ handler' = [handler EXCEPT ![w] =
          [step |-> "status", seen |-> @.seen, old |-> doc.status, content |-> doc.content, to |-> to]]
    /\ UNCHANGED <<doc, versions, task, doubled>>

(* Mutant: the version the caller had open is not compared.                *)
X_Current(h) == Exists /\ (h.step = "status" => doc.status = h.old)
(* Mutant: neither is compared when the status changes.                    *)
X_CurrentUpdate(h) == Exists /\ (h.step = "update" => doc.version = h.seen)
(* The compare-and-set of the two                                          *)
Current(h) == Exists /\ doc.version = h.seen /\ (h.step = "status" => doc.status = h.old)

(* A change of the status leaves the content of the row as it is.          *)
Written(h) ==
    [status |-> h.to, content |-> IF h.step = "update" THEN h.content ELSE doc.content,
     based |-> h.seen]

Write(w) ==
    /\ handler[w].step \in {"update", "status"}
    /\ LET h == handler[w]
       IN \/ /\ Current(h) /\ doc.version < MaxVersion
             /\ doc' = [doc EXCEPT !.status = h.to, !.version = @ + 1,
                                   !.content = IF h.step = "update" THEN h.content ELSE @]
             /\ versions' = Append(versions, Written(h))
          \/ ~Current(h) /\ UNCHANGED <<doc, versions>>   \* "Document changed; reload before ..."
    /\ Finish(w)
    /\ UNCHANGED <<task, doubled>>

(* deleteProjectDocumentation                                              *)
DeleteRead(w) ==
    /\ At(w, "idle") /\ Exists
    /\ handler' = [handler EXCEPT ![w] = [step |-> "delete"]]
    /\ UNCHANGED <<doc, versions, task, doubled>>

DeleteWrite(w) ==
    /\ At(w, "delete")
    /\ doc' = [doc EXCEPT !.deleted = TRUE]
    /\ Finish(w)
    /\ UNCHANGED <<versions, task, doubled>>

-----------------------------------------------------------------------------
Tasks == {t \in TaskIds : task[t] # NoTask}
Proposed == {task[t].title : t \in {t \in Tasks : task[t].live /\ task[t].linked}}

Proposable == Exists /\ doc.status = "APPROVED"

(* proposeTasksFromDocumentation                                           *)
ProposeRead(w) ==
    /\ At(w, "idle") /\ Proposable
    /\ handler' = [handler EXCEPT ![w] = [step |-> "find", lines |-> doc.content, fresh |-> TRUE]]
    /\ UNCHANGED <<doc, versions, task, doubled>>

(* Mutant: the tasks proposed before are not looked at.                    *)
X_ToPropose(lines) == lines
ToPropose(lines) == lines \ Proposed

ProposeFind(w) ==
    /\ At(w, "find")
    /\ handler' = [handler EXCEPT ![w].step = "insert", ![w].lines = ToPropose(@)]
    /\ UNCHANGED <<doc, versions, task, doubled>>

(* The tasks, one of each line, appear when the transaction commits.       *)
ProposeInsert(w) ==
    /\ At(w, "insert")
    /\ LET h == handler[w]
       IN /\ \E ts \in SUBSET (TaskIds \ Tasks) : \E f \in [ts -> h.lines] :
                /\ \A l \in h.lines : \E t \in ts : f[t] = l
                /\ \A t, u \in ts : f[t] = f[u] => t = u
                /\ task' = [t \in TaskIds |->
                      IF t \in ts THEN [line |-> f[t], title |-> f[t], live |-> TRUE, linked |-> TRUE]
                      ELSE task[t]]
          /\ doubled' = IF h.fresh THEN doubled ELSE doubled \cup h.lines
          /\ handler' = [v \in Handlers |->
                IF v = w THEN Idle
                ELSE IF At(v, "insert") THEN [handler[v] EXCEPT !.fresh = FALSE] ELSE handler[v]]
    /\ UNCHANGED <<doc, versions>>

(* updateTask with a title, deleteTask, and changeDocumentationLink        *)
RenameTask(t, title) ==
    /\ t \in Tasks /\ task[t].live
    /\ task[t].title # title
    /\ task' = [task EXCEPT ![t].title = title]
    /\ doubled' = IF task[t].linked THEN doubled \cup {title} ELSE doubled
    /\ UNCHANGED <<doc, versions, handler>>

DeleteTask(t) ==
    /\ t \in Tasks /\ task[t].live
    /\ task' = [task EXCEPT ![t].live = FALSE]
    /\ UNCHANGED <<doc, versions, handler, doubled>>

changeDocumentationLink(t, add) ==
    /\ Exists
    /\ t \in Tasks /\ task[t].live
    /\ task' = [task EXCEPT ![t].linked = add]
    /\ doubled' = IF add /\ ~task[t].linked THEN doubled \cup {task[t].title} ELSE doubled
    /\ UNCHANGED <<doc, versions, handler>>

(* A call fails, its process dies, or the caller leaves the page.          *)
Abort(w) ==
    /\ handler[w] # Idle
    /\ Finish(w)
    /\ UNCHANGED <<doc, versions, task, doubled>>

Proceed(w) ==
    \/ Open(w)
    \/ \E c \in Content : UpdateRead(w, c)
    \/ \E to \in Status : StatusRead(w, to)
    \/ Write(w)
    \/ DeleteRead(w) \/ DeleteWrite(w)
    \/ ProposeRead(w) \/ ProposeFind(w) \/ ProposeInsert(w)
    \/ Abort(w)

Next ==
    \/ \E c \in Content : createProjectDocumentation(c)
    \/ \E w \in Handlers : Proceed(w)
    \/ \E t \in TaskIds, title \in Lines : RenameTask(t, title)
    \/ \E t \in TaskIds : DeleteTask(t) \/ \E add \in BOOLEAN : changeDocumentationLink(t, add)

Spec == Init /\ [][Next]_vars

-----------------------------------------------------------------------------
(* The history is the document's: version n of it is row n, the last is    *)
(* what the row says, every version was made by somebody who had the one   *)
(* before it open, and only the moves of the table and an edit's return to *)
(* draft lead from one to the next, whatever calls overlap                 *)
(* (updateProjectDocumentation, changeProjectDocumentationStatus).         *)
Follows(v, u) ==
    \/ <<v.status, u.status>> \in allowed /\ u.content = v.content
    \/ v.status # "ARCHIVED" /\ u.status = IF v.status = "APPROVED" THEN "DRAFT" ELSE v.status

HistoryTrue ==
    doc # NoDoc =>
        /\ Len(versions) = doc.version
        /\ versions[doc.version].status = doc.status
        /\ versions[doc.version].content = doc.content
        /\ \A n \in 2..doc.version :
              versions[n].based = n - 1 /\ Follows(versions[n - 1], versions[n])

(* What is approved is what was in review, and what its approver had open. *)
ApprovedAsReviewed ==
    \A n \in DOMAIN versions : versions[n].status = "APPROVED" =>
        /\ n > 1
        /\ versions[n - 1].status = "IN_REVIEW"
        /\ versions[n - 1].content = versions[n].content
        /\ versions[n].based = n - 1

(* Tasks are proposed from what was approved, and no title is twice on the *)
(* tasks of the document, unless two calls that proposed it overlapped or  *)
(* somebody gave it by hand to a task, by a new title or a new link        *)
(* (proposeTasksFromDocumentation reads the titles before it creates).  So *)
(* a line is proposed again only where a task of it was renamed, unlinked  *)
(* or deleted, or calls overlapped.                                        *)
ProposalsExplained ==
    /\ \A t \in Tasks : \E n \in DOMAIN versions :
          versions[n].status = "APPROVED" /\ task[t].line \in versions[n].content
    /\ \A t, u \in Tasks :
          t # u /\ task[t].title = task[u].title /\ task[t].linked /\ task[u].linked
                /\ task[t].live /\ task[u].live => task[t].title \in doubled
=============================================================================
