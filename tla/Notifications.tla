--------------------------- MODULE Notifications ----------------------------
(***************************************************************************)
(* emitNotification (notification-delivery.service.ts) on top of the       *)
(* e-mail queue.  A business event is identified by its dedupe key; the    *)
(* callers emit it again on a webhook redelivery or at the next SLA scan.  *)
(***************************************************************************)
EXTENDS EmailQueue

CONSTANT Emitters   \* concurrent callers of emitNotification

VARIABLES
    pref,       \* the recipient's preference for the event type
    emitter,    \* [Emitters -> the preference a caller has read, or Quiet]
    notices,    \* [Keys -> number of notification rows]
    inApp       \* keys with a delivery row inapp:<key>

emitVars == <<pref, emitter, notices, inApp>>

Preference == [inApp : BOOLEAN, email : BOOLEAN]
Quiet == [step |-> "quiet"]

NotificationsTypeOK ==
    /\ TypeOK
    /\ pref \in Preference
    /\ emitter \in [Emitters ->
            {Quiet} \cup [step : {"write"}, key : Keys, inApp : BOOLEAN, email : BOOLEAN]]
    /\ notices \in [Keys -> Nat]
    /\ inApp \subseteq Keys

NotificationsInit ==
    /\ Init
    /\ pref = [inApp |-> TRUE, email |-> TRUE]     \* no preference row
    /\ emitter = [e \in Emitters |-> Quiet]
    /\ notices = [k \in Keys |-> 0]
    /\ inApp = {}

-----------------------------------------------------------------------------
(* The recipient and the preference are read first.                        *)
EmitRead(e, k) ==
    /\ emitter[e] = Quiet
    /\ active
    /\ pref.inApp \/ pref.email
    /\ emitter' = [emitter EXCEPT ![e] =
          [step |-> "write", key |-> k, inApp |-> pref.inApp, email |-> pref.email]]
    /\ UNCHANGED <<vars, pref, notices, inApp>>

(* Mutants: each channel's row is deduplicated, the other's is not.        *)
Taken_EmailOnly(call) == call.email /\ email[call.key].status # "ABSENT"

Taken(call) ==
    \/ call.inApp /\ call.key \in inApp
    \/ call.email /\ email[call.key].status # "ABSENT"

(* One transaction; a taken dedupe key rolls all of it back.               *)
EmitWrite(e) ==
    LET call == emitter[e] IN
    /\ call.step = "write"
    /\ emitter' = [emitter EXCEPT ![e] = Quiet]
    /\ \/ /\ Taken(call)
          /\ UNCHANGED <<vars, notices, inApp>>
       \/ /\ ~Taken(call)
          /\ notices' = [notices EXCEPT ![call.key] = @ + 1]
          /\ inApp' = IF call.inApp THEN inApp \cup {call.key} ELSE inApp
          /\ IF call.email THEN Enqueue(call.key) ELSE UNCHANGED vars
    /\ UNCHANGED pref

setNotificationPreference ==
    /\ pref' \in Preference
    /\ UNCHANGED <<vars, emitter, notices, inApp>>

NotificationsNext ==
    \/ \E e \in Emitters : EmitWrite(e) \/ \E k \in Keys : EmitRead(e, k)
    \/ setNotificationPreference
    \/ QueueNext /\ UNCHANGED emitVars

NotificationsSpec == NotificationsInit /\ [][NotificationsNext]_<<vars, emitVars>>

-----------------------------------------------------------------------------
(* A notification row has a delivery of its own, on either channel: the    *)
(* rows of a rolled back emit leave nothing behind.                        *)
NoticeHasDelivery ==
    \A k \in Keys :
        notices[k] <= Cardinality({k} \cap inApp)
                      + IF email[k].status = "ABSENT" THEN 0 ELSE 1
=============================================================================
