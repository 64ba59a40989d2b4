------------------------------- MODULE Careers -------------------------------
(***************************************************************************)
(* Job openings and what visitors send: applications to an opening and     *)
(* inquiries of the contact form.  Both are created once per               *)
(* Idempotency-Key, whose answer is kept in Redis on a best-effort basis,  *)
(* and an opening that has applications is not deleted, because the        *)
(* deletion would cascade to them.                                         *)
(*                                                                         *)
(* One action is one awaited call.  An inquiry is a submission to          *)
(* NoOpening: createInquiry and applyToOpening share their steps after the *)
(* opening has been found.  The list of openings and its cache are those   *)
(* of Content.                                                             *)
(***************************************************************************)
CONSTANTS
    Openings,       \* identifiers of openings
    Submissions,    \* identifiers of applications and inquiries
    VisitKeys,      \* idempotency keys of visitors
    Requests,       \* requests in flight at once
    NoOpening,      \* the target of an inquiry
    NoSubmission    \* a key Redis knows nothing of

ASSUME CareersAssumption ==
    VisitKeys # {} /\ NoOpening \notin Openings /\ NoSubmission \notin Submissions

VARIABLES
    openings,       \* "unused", "draft", "published" or "gone"
    submissions,    \* the rows, and what became of them
    answers,        \* Redis: the submission a key was answered with
    request,        \* where each request stands
    doubted,        \* history: keys whose answer may not be known to a later request
    removing        \* history: submissions that reached an opening under deletion

careersVars == <<openings, submissions, answers, request, doubted, removing>>

-----------------------------------------------------------------------------
Targets == Openings \cup {NoOpening}

(* The keys of Redis: the same header names one answer to an application, at  *)
(* whatever opening, and another one to an inquiry.                           *)
CacheKeys == {"application", "inquiry"} \X VisitKeys
AnyKey == CHOOSE k \in CacheKeys : TRUE

Free == [is |-> "unused", target |-> NoOpening, key |-> AnyKey]
IdleRequest == [step |-> "idle", target |-> NoOpening, key |-> AnyKey, row |-> NoSubmission]

SubmissionRow == [is : {"unused", "there", "lost"}, target : Targets, key : CacheKeys]
RequestState == [step : {"idle", "get", "insert", "set", "delete", "write"}, target : Targets,
                 key : CacheKeys, row : Submissions \cup {NoSubmission}]

CareersTypeOK ==
    /\ openings \in [Openings -> {"unused", "draft", "published", "gone"}]
    /\ submissions \in [Submissions -> SubmissionRow]
    /\ answers \in [CacheKeys -> Submissions \cup {NoSubmission}]
    /\ request \in [Requests -> RequestState]
    /\ doubted \subseteq CacheKeys
    /\ removing \subseteq Submissions

CareersInit ==
    /\ openings = [o \in Openings |-> "unused"]
    /\ submissions = [s \in Submissions |-> Free]
    /\ answers = [k \in CacheKeys |-> NoSubmission]
    /\ request = [r \in Requests |-> IdleRequest]
    /\ doubted = {}
    /\ removing = {}

-----------------------------------------------------------------------------
Existing == {o \in Openings : openings[o] \in {"draft", "published"}}
IsAt(r, step) == request[r].step = step
Takes(r, step) == request' = [request EXCEPT ![r].step = step]
Ends(r) == request' = [request EXCEPT ![r] = IdleRequest]

(* Applications of an opening, as its deletion counts them. *)
ApplicationsOf(o) == {s \in Submissions : submissions[s].is = "there" /\ submissions[s].target = o}

(* Another request is between the look-up of the same key and its answer.  *)
SameKeyInFlight(r) ==
    \E q \in Requests \ {r} : request[q].step \in {"insert", "set"} /\ request[q].key = request[r].key

(* -- applyToOpening, createInquiry -------------------------------------- *)
Apply(r) == \E o \in Openings, k \in VisitKeys :
    /\ IsAt(r, "idle") /\ openings[o] = "published"
    /\ request' = [request EXCEPT ![r] = [IdleRequest EXCEPT !.step = "get", !.target = o, !.key = <<"application", k>>]]
    /\ UNCHANGED <<openings, submissions, answers, doubted, removing>>

Inquire(r) == \E k \in VisitKeys :
    /\ IsAt(r, "idle")
    /\ request' = [request EXCEPT ![r] = [IdleRequest EXCEPT !.step = "get", !.key = <<"inquiry", k>>]]
    /\ UNCHANGED <<openings, submissions, answers, doubted, removing>>

(* The key has been answered: the answer is returned. *)
Known(r) == answers[request[r].key] # NoSubmission

LookUp(r) == LET k == request[r].key IN
    /\ IsAt(r, "get")
    /\ \/ /\ IF Known(r) THEN Ends(r) ELSE Takes(r, "insert")
          /\ doubted' = IF ~Known(r) /\ SameKeyInFlight(r) THEN doubted \cup {k} ELSE doubted
       \/ Takes(r, "insert") /\ doubted' = doubted \cup {k}      \* Redis refuses
    /\ UNCHANGED <<openings, submissions, answers, removing>>

(* The row refers to its opening: the insert fails when that is gone. *)
Submit(r) == LET o == request[r].target IN
    /\ IsAt(r, "insert")
    /\ o \in Existing \cup {NoOpening}
    /\ \E s \in Submissions :
          /\ submissions[s].is = "unused"
          /\ submissions' = [submissions EXCEPT ![s] = [is |-> "there", target |-> o, key |-> request[r].key]]
          /\ request' = [request EXCEPT ![r].step = "set", ![r].row = s]
          /\ removing' = IF \E q \in Requests : IsAt(q, "delete") /\ request[q].target = o
                         THEN removing \cup {s} ELSE removing
    /\ UNCHANGED <<openings, answers, doubted>>

SubmitFails(r) ==
    /\ IsAt(r, "insert")
    /\ Ends(r)
    /\ UNCHANGED <<openings, submissions, answers, doubted, removing>>

Remember(r) == LET k == request[r].key IN
    /\ IsAt(r, "set")
    /\ \/ answers' = [answers EXCEPT ![k] = request[r].row] /\ UNCHANGED doubted
       \/ doubted' = doubted \cup {k} /\ UNCHANGED answers       \* Redis refuses, or the process ends
    /\ Ends(r)
    /\ UNCHANGED <<openings, submissions, removing>>

(* A key is forgotten a day after its answer. *)
Forget == \E k \in CacheKeys :
    /\ answers[k] # NoSubmission
    /\ answers' = [answers EXCEPT ![k] = NoSubmission]
    /\ doubted' = doubted \cup {k}
    /\ UNCHANGED <<openings, submissions, request, removing>>

(* -- createOpening, updateOpening, deleteOpening ------------------------- *)
CreateOpening == \E o \in Openings, state \in {"draft", "published"} :
    /\ openings[o] = "unused"
    /\ openings' = [openings EXCEPT ![o] = state]
    /\ UNCHANGED <<submissions, answers, request, doubted, removing>>

UpdateOpeningRead(r) == \E o \in Openings :
    /\ IsAt(r, "idle") /\ o \in Existing
    /\ request' = [request EXCEPT ![r] = [IdleRequest EXCEPT !.step = "write", !.target = o]]
    /\ UNCHANGED <<openings, submissions, answers, doubted, removing>>

UpdateOpeningWrite(r) == LET o == request[r].target IN
    /\ IsAt(r, "write")
    /\ IF o \in Existing THEN \E state \in {"draft", "published"} : openings' = [openings EXCEPT ![o] = state]
                    ELSE UNCHANGED openings
    /\ Ends(r)
    /\ UNCHANGED <<submissions, answers, doubted, removing>>

(* Mutant: the applications are not counted. *)
X_Deletable(o) == o \in Existing

Deletable(o) == o \in Existing /\ ApplicationsOf(o) = {}

DeleteOpeningRead(r) == \E o \in Openings :
    /\ IsAt(r, "idle") /\ Deletable(o)
    /\ request' = [request EXCEPT ![r] = [IdleRequest EXCEPT !.step = "delete", !.target = o]]
    /\ UNCHANGED <<openings, submissions, answers, doubted, removing>>

(* The deletion cascades to the applications there are by then. *)
DeleteOpeningWrite(r) == LET o == request[r].target IN
    /\ IsAt(r, "delete")
    /\ openings' = [openings EXCEPT ![o] = "gone"]
    /\ submissions' = [s \in Submissions |-> IF s \in ApplicationsOf(o)
                                             THEN [submissions[s] EXCEPT !.is = "lost"] ELSE submissions[s]]
    /\ Ends(r)
    /\ UNCHANGED <<answers, doubted, removing>>

(* A call of the database throws, or the process ends. *)
RequestAborts(r) ==
    /\ request[r].step \in {"get", "delete", "write"}
    /\ Ends(r)
    /\ UNCHANGED <<openings, submissions, answers, doubted, removing>>

CareersNext ==
    \/ \E r \in Requests :
          \/ Apply(r) \/ Inquire(r) \/ LookUp(r) \/ Submit(r) \/ SubmitFails(r) \/ Remember(r)
          \/ UpdateOpeningRead(r) \/ UpdateOpeningWrite(r) \/ DeleteOpeningRead(r) \/ DeleteOpeningWrite(r)
          \/ RequestAborts(r)
    \/ Forget \/ CreateOpening

CareersSpec == CareersInit /\ [][CareersNext]_careersVars

-----------------------------------------------------------------------------
(* An application is lost with its opening only when it arrived after the  *)
(* deletion had counted the applications: "An opening with applications is *)
(* never hard-deleted" up to that race (deleteOpening, applyToOpening).    *)
LostExplained == \A s \in Submissions : submissions[s].is = "lost" => s \in removing

(* A key creates one submission, unless Redis refused or forgot the key or *)
(* two requests with it overlapped (applyToOpening and createInquiry look  *)
(* the key up and store it around the insert).                             *)
OncePerKey ==
    \A s, t \in Submissions :
        /\ s # t /\ submissions[s].key = submissions[t].key
        /\ submissions[s].is # "unused" /\ submissions[t].is # "unused"
        => submissions[s].key \in doubted

(* No submission is lost, and none is made twice, but for these races      *)
(* (applyToOpening, createInquiry, deleteOpening).                         *)
SubmissionsExplained == LostExplained /\ OncePerKey
=============================================================================
