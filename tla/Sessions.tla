------------------------------ MODULE Sessions ------------------------------
(***************************************************************************)
(* The sessions and the second factor of one user                          *)
(* (backend/src/services/auth.service.ts, user.service.ts and the cookies  *)
(* of the dashboard, frontend/src/lib/apiClient.ts).                       *)
(*                                                                         *)
(* A session is a chain of refresh tokens, each replaced by the next when  *)
(* it is used; presenting one that is revoked revokes all tokens of the    *)
(* user.  The tabs of a browser share one cookie jar.  A call reads, may   *)
(* read more, and writes; the answer of a call that issued a token or ends *)
(* a session reaches the jar later, in any order, or is lost.              *)
(*                                                                         *)
(* Passwords and codes are right (a wrong one changes nothing), an access  *)
(* cookie is there as long as the refresh cookie is, a token that expired  *)
(* is refused and changes nothing, and one backup code stands for the      *)
(* eight of a batch.                                                       *)
(*                                                                         *)
(* ended, late, born, fresh, overlapped, disturbed, broken, confirmed and  *)
(* opened are history: they say how a token ended, which calls overlapped, *)
(* and which secret and code the user has.                                 *)
(***************************************************************************)
EXTENDS Naturals, Sequences, FiniteSets

CONSTANTS
    Browsers,      \* cookie jars
    Elsewhere,     \* where an administrator, or the link of a reset mail, calls from
    Handlers,      \* calls that may be in flight at once
    MaxCalls       \* bound: calls that are made

ASSUME SessionsAssumption == MaxCalls \in Nat /\ Elsewhere \notin Browsers

VARIABLES
    account,       \* "active", "inactive", "deleted"
    token,         \* the refresh tokens in the order of creation
    jar,           \* [Browsers -> the token of the refresh cookie, or 0]
    challenge,     \* browsers that hold a challenge for the second factor
    factor,        \* twoFactorEnabled, twoFactorSecret, the backup code
    reset,         \* the password reset token: "none", "sent", "used"
    handler,       \* [Handlers -> the call in flight, or Idle]
    calls,         \* calls made so far
    epoch,         \* history: how often all sessions were ended
    overlapped,    \* history: tokens replaced by a call that held them stale
    disturbed,     \* history: browsers whose calls overlapped or lost an answer
    broken         \* history: what broke off, or overlapped, between two writes

session == <<token, epoch, overlapped>>
vars == <<account, session, jar, challenge, factor, reset, handler, calls, disturbed, broken>>

-----------------------------------------------------------------------------
Tokens == DOMAIN token
Endings == {"no", "rotated", "logout", "reset", "deactivated", "reuse"}
Token == [ended : Endings, parent : 0..MaxCalls, born : 0..MaxCalls, late : BOOLEAN]
Factor == [enabled : BOOLEAN, secret : 0..MaxCalls, code : {"none", "unused", "used"},
           batch : 0..MaxCalls, confirmed : 0..MaxCalls, opened : 0..MaxCalls]
Idle == [step |-> "idle"]
CodeStep == {"findCode", "useCode"}
Step == {"reuse", "loadUser", "rotate", "logout", "issue", "answer", "reset",
         "enrol", "confirm", "codes", "disable", "deactivate", "revokeAll", "delete"} \cup CodeStep

(* token is what the call holds of the token it was sent, or answers with  *)
(* (or the secret it read, or the batch of the backup code it found); next *)
(* is what follows a backup code.                                          *)
Call == [step : Step, browser : Browsers \cup {Elsewhere}, token : 0..MaxCalls, next : Step,
         base : 0..MaxCalls, fresh : BOOLEAN]

(* Every variable has its type.                                            *)
TypeOK ==
    /\ account \in {"active", "inactive", "deleted"}
    /\ token \in Seq(Token)
    /\ jar \in [Browsers -> 0..Len(token)]
    /\ challenge \subseteq Browsers
    /\ factor \in Factor
    /\ reset \in {"none", "sent", "used"}
    /\ handler \in [Handlers -> Call \cup {Idle}]
    /\ calls \in 0..MaxCalls
    /\ epoch \in 0..MaxCalls
    /\ overlapped \subseteq Tokens
    /\ disturbed \subseteq Browsers
    /\ broken \subseteq {"factor", "revokeAll"}

(* A user who has not signed in yet.                                       *)
Init ==
    /\ account = "active"
    /\ token = <<>>
    /\ jar = [b \in Browsers |-> 0]
    /\ challenge = {}
    /\ factor = [enabled |-> FALSE, secret |-> 0, code |-> "none", batch |-> 0,
                 confirmed |-> 0, opened |-> 0]
    /\ reset = "none"
    /\ handler = [w \in Handlers |-> Idle]
    /\ calls = 0 /\ epoch = 0
    /\ overlapped = {} /\ disturbed = {} /\ broken = {}

-----------------------------------------------------------------------------
Live(t) == token[t].ended = "no"
At(w, step) == handler[w].step = step
SessionStep == {"reuse", "loadUser", "rotate", "logout", "issue", "answer"}
FactorStep == {"enrol", "confirm", "codes", "disable"} \cup CodeStep

Begin(w, b, step, t, next) ==
    /\ At(w, "idle") /\ calls < MaxCalls
    /\ calls' = calls + 1
    /\ handler' = [handler EXCEPT ![w] =
          [step |-> step, browser |-> b, token |-> t, next |-> next, base |-> epoch, fresh |-> TRUE]]

(* Begin a call about the browser's own session.                           *)
BeginSession(w, b, step, t, next) ==
    /\ Begin(w, b, step, t, next)
    /\ disturbed' =
          IF \E v \in Handlers : handler[v] # Idle /\ handler[v].browser = b
                                   /\ handler[v].step \in SessionStep
          THEN disturbed \cup {b} ELSE disturbed

Continue(w, step) == handler' = [handler EXCEPT ![w].step = step]
Finish(w) == handler' = [handler EXCEPT ![w] = Idle]

(* Who holds token t (or the second factor) holds it stale from now on;    *)
(* the writer goes on with h.                                              *)
StaleToken(w, ts, h) ==
    handler' = [v \in Handlers |->
        IF v = w THEN h
        ELSE IF handler[v] # Idle /\ handler[v].step \in {"loadUser", "rotate"} /\ handler[v].token \in ts
        THEN [handler[v] EXCEPT !.fresh = FALSE] ELSE handler[v]]
StaleFactor(w, h) ==
    handler' = [v \in Handlers |->
        IF v = w THEN h
        ELSE IF handler[v].step \in FactorStep THEN [handler[v] EXCEPT !.fresh = FALSE] ELSE handler[v]]

EndAll(why) ==
    /\ token' = [t \in Tokens |-> IF Live(t) THEN [token[t] EXCEPT !.ended = why] ELSE token[t]]
    /\ epoch' = epoch + 1
    /\ UNCHANGED overlapped

(* A new token in the place of p, or of none.                              *)
Issued(h, p) ==
    [ended |-> "no", parent |-> p,
     born |-> IF p = 0 THEN h.base ELSE token[p].born,
     late |-> h.base # epoch \/ (p # 0 /\ token[p].late)]

Answering(h, t) == [h EXCEPT !.step = "answer", !.token = t]

-----------------------------------------------------------------------------
(* refreshSession, sent with the cookie of the moment                      *)
RefreshRead(w, b) ==
    /\ jar[b] # 0
    /\ BeginSession(w, b, IF Live(jar[b]) THEN "loadUser" ELSE "reuse", jar[b], "answer")
    /\ UNCHANGED <<account, session, jar, challenge, factor, reset, broken>>

Reuse(w) ==
    /\ At(w, "reuse")
    /\ EndAll("reuse")
    /\ StaleToken(w, Tokens, Idle)
    /\ UNCHANGED <<account, jar, challenge, factor, reset, calls, disturbed, broken>>

LoadUser(w) ==
    /\ At(w, "loadUser")
    /\ IF account = "active" THEN Continue(w, "rotate") ELSE Finish(w)
    /\ UNCHANGED <<account, session, jar, challenge, factor, reset, calls, disturbed, broken>>

(* Mutant: the token that was used stays live.                             *)
X_Rotate(w) ==
    /\ At(w, "rotate")
    /\ token' = Append(token, Issued(handler[w], handler[w].token))
    /\ StaleToken(w, {handler[w].token}, Answering(handler[w], Len(token) + 1))
    /\ UNCHANGED <<account, epoch, overlapped, jar, challenge, factor, reset, calls, disturbed, broken>>

(* One transaction; the old token is updated whatever became of it.        *)
Rotate(w) ==
    /\ At(w, "rotate")
    /\ LET h == handler[w]
           t == h.token
       IN /\ token' = Append([token EXCEPT ![t].ended = IF Live(t) THEN "rotated" ELSE @],
                             Issued(h, t))
          /\ overlapped' = IF h.fresh THEN overlapped ELSE overlapped \cup {t}
          /\ StaleToken(w, {t}, Answering(h, Len(token) + 1))
    /\ UNCHANGED <<account, epoch, jar, challenge, factor, reset, calls, disturbed, broken>>

(* Mutant: isActive is not part of the query.                              *)
X_LoginRead(w, b) ==
    /\ ~factor.enabled
    /\ BeginSession(w, b, "issue", 0, "answer")
    /\ UNCHANGED <<account, session, jar, challenge, factor, reset, broken>>

(* login: a session at once, or a challenge                                *)
LoginRead(w, b) ==
    /\ account = "active"
    /\ ~factor.enabled
    /\ BeginSession(w, b, "issue", 0, "answer")
    /\ UNCHANGED <<account, session, jar, challenge, factor, reset, broken>>

LoginChallenge(b) ==
    /\ account = "active"
    /\ factor.enabled
    /\ challenge' = challenge \cup {b}
    /\ UNCHANGED <<account, session, jar, factor, reset, handler, calls, disturbed, broken>>

(* verifyTwoFactorLogin with a code of the app, or with a backup code      *)
VerifyRead(w, b, by) ==
    /\ b \in challenge
    /\ account = "active"
    /\ factor.enabled /\ factor.secret # 0
    /\ BeginSession(w, b, IF by = "app" THEN "issue" ELSE "findCode", 0, "issue")
    /\ UNCHANGED <<account, session, jar, challenge, factor, reset, broken>>

(* issueSession                                                            *)
Issue(w) ==
    /\ At(w, "issue")
    /\ token' = Append(token, Issued(handler[w], 0))
    /\ handler' = [handler EXCEPT ![w] = Answering(@, Len(token) + 1)]
    /\ UNCHANGED <<account, epoch, overlapped, jar, challenge, factor, reset, calls, disturbed, broken>>

(* logout, with the cookie of the moment it was sent                       *)
LogoutRead(w, b) ==
    /\ jar[b] # 0
    /\ BeginSession(w, b, "logout", jar[b], "answer")
    /\ UNCHANGED <<account, session, jar, challenge, factor, reset, broken>>


Logout(w) ==
    /\ At(w, "logout")
    /\ LET t == handler[w].token
       IN /\ token' = IF Live(t) THEN [token EXCEPT ![t].ended = "logout"] ELSE token
          /\ StaleToken(w, {t}, Answering(handler[w], 0))
    /\ UNCHANGED <<account, epoch, overlapped, jar, challenge, factor, reset, calls, disturbed, broken>>

(* setAuthCookies, clearAuthCookies: the answer arrives, or does not.      *)
Answer(w) ==
    /\ At(w, "answer")
    /\ jar' = [jar EXCEPT ![handler[w].browser] = handler[w].token]
    /\ challenge' = challenge \ {handler[w].browser}
    /\ Finish(w)
    /\ UNCHANGED <<account, session, factor, reset, calls, disturbed, broken>>

-----------------------------------------------------------------------------
(* requestPasswordReset, resetPassword                                     *)
requestPasswordReset ==
    /\ account = "active"
    /\ reset = "none"
    /\ reset' = "sent"
    /\ UNCHANGED <<account, session, jar, challenge, factor, handler, calls, disturbed, broken>>

ResetRead(w) ==
    /\ reset = "sent"
    /\ Begin(w, Elsewhere, "reset", 0, "answer")
    /\ UNCHANGED <<account, session, jar, challenge, factor, reset, disturbed, broken>>

ResetWrite(w) ==
    /\ At(w, "reset")
    /\ reset' = "used"
    /\ EndAll("reset")
    /\ StaleToken(w, Tokens, Idle)
    /\ UNCHANGED <<account, jar, challenge, factor, calls, disturbed, broken>>

(* updateUser with isActive: two writes when it is turned off              *)
UserRead(w, step) ==
    /\ account # "deleted"
    /\ Begin(w, Elsewhere, step, 0, "answer")
    /\ UNCHANGED <<account, session, jar, challenge, factor, reset, disturbed, broken>>

Deactivate(w) ==
    /\ At(w, "deactivate")
    /\ account' = IF account = "deleted" THEN account ELSE "inactive"
    /\ Continue(w, "revokeAll")
    /\ UNCHANGED <<session, jar, challenge, factor, reset, calls, disturbed, broken>>

RevokeAll(w) ==
    /\ At(w, "revokeAll")
    /\ EndAll("deactivated")
    /\ StaleToken(w, Tokens, Idle)
    /\ UNCHANGED <<account, jar, challenge, factor, reset, calls, disturbed, broken>>

Reactivate ==
    /\ account = "inactive"
    /\ account' = "active"
    /\ UNCHANGED <<session, jar, challenge, factor, reset, handler, calls, disturbed, broken>>

(* deactivateUser: one transaction                                         *)
Delete(w) ==
    /\ At(w, "delete")
    /\ account' = "deleted"
    /\ EndAll("deactivated")
    /\ StaleToken(w, Tokens, Idle)
    /\ UNCHANGED <<jar, challenge, factor, reset, calls, disturbed, broken>>

-----------------------------------------------------------------------------
(* The calls about the second factor come from a signed-in browser.        *)
SignedIn(b) == jar[b] # 0 /\ account = "active"

BeginFactor(w, b, step, secret, next) ==
    /\ SignedIn(b)
    /\ Begin(w, b, step, secret, next)
    /\ UNCHANGED <<account, session, jar, challenge, factor, reset, disturbed, broken>>

LandFactor(w, new, h) ==
    /\ factor' = new
    /\ StaleFactor(w, h)
    /\ broken' = IF handler[w].fresh THEN broken ELSE broken \cup {"factor"}
    /\ UNCHANGED <<account, session, jar, challenge, reset, calls, disturbed>>

(* startTwoFactorEnrolment                                                 *)
EnrolRead(w, b) == ~factor.enabled /\ BeginFactor(w, b, "enrol", 0, "answer")
EnrolWrite(w) ==
    /\ At(w, "enrol")
    /\ factor.secret < MaxCalls
    /\ LandFactor(w, [factor EXCEPT !.secret = @ + 1, !.enabled = FALSE], Idle)

(* confirmTwoFactorEnrolment with a code for the secret that was read      *)
ConfirmRead(w, b) ==
    /\ ~factor.enabled /\ factor.secret # 0
    /\ BeginFactor(w, b, "confirm", factor.secret, "codes")
ConfirmWrite(w) ==
    /\ At(w, "confirm")
    /\ LandFactor(w, [factor EXCEPT !.enabled = TRUE, !.confirmed = handler[w].token],
                  [handler[w] EXCEPT !.step = "codes"])

IssueCodes(w) ==
    /\ At(w, "codes")
    /\ LandFactor(w, [factor EXCEPT !.code = "unused", !.batch = @ + 1, !.opened = 0], Idle)

(* disableTwoFactor and regenerateBackupCodes, by app or by backup code    *)
ManageRead(w, b, by, step) ==
    /\ factor.enabled /\ factor.secret # 0
    /\ BeginFactor(w, b, IF by = "app" THEN step ELSE "findCode", 0, step)
Disable(w) ==
    /\ At(w, "disable")
    /\ LandFactor(w, [factor EXCEPT !.enabled = FALSE, !.secret = 0, !.code = "none", !.opened = 0],
                  Idle)

(* Mutant: codes that were used are found too.                             *)
X_FindCode(w) ==
    /\ At(w, "findCode")
    /\ IF factor.code # "none"
       THEN handler' = [handler EXCEPT ![w].step = "useCode", ![w].token = factor.batch]
       ELSE Finish(w)
    /\ UNCHANGED <<account, session, jar, challenge, factor, reset, calls, disturbed, broken>>

(* consumeBackupCode                                                       *)
FindCode(w) ==
    /\ At(w, "findCode")
    /\ IF factor.code = "unused"
       THEN handler' = [handler EXCEPT ![w].step = "useCode", ![w].token = factor.batch]
       ELSE Finish(w)
    /\ UNCHANGED <<account, session, jar, challenge, factor, reset, calls, disturbed, broken>>

UseCode(w) ==
    /\ At(w, "useCode")
    /\ factor.code # "none" /\ factor.batch = handler[w].token   \* else the row is gone: Abort
    /\ LandFactor(w, [factor EXCEPT !.code = "used", !.opened = @ + 1],
                  [handler[w] EXCEPT !.step = handler[w].next])

-----------------------------------------------------------------------------
(* A call fails between two awaits, its process dies, or its answer is     *)
(* lost.                                                                   *)
Abort(w) ==
    /\ handler[w] # Idle
    /\ Finish(w)
    /\ disturbed' = IF At(w, "answer") THEN disturbed \cup {handler[w].browser} ELSE disturbed
    /\ broken' = broken \cup (IF At(w, "codes") THEN {"factor"}
                             ELSE IF At(w, "revokeAll") THEN {"revokeAll"} ELSE {})
    /\ UNCHANGED <<account, session, jar, challenge, factor, reset, calls>>

CallFrom(w, b) ==
    \/ RefreshRead(w, b) \/ LoginRead(w, b) \/ LogoutRead(w, b)
    \/ \E by \in {"app", "backup"} :
          VerifyRead(w, b, by) \/ ManageRead(w, b, by, "disable") \/ ManageRead(w, b, by, "codes")
    \/ EnrolRead(w, b) \/ ConfirmRead(w, b)

Proceed(w) ==
    \/ Reuse(w) \/ LoadUser(w) \/ Rotate(w) \/ Logout(w) \/ Issue(w) \/ Answer(w)
    \/ ResetRead(w) \/ UserRead(w, "deactivate") \/ UserRead(w, "delete")
    \/ ResetWrite(w) \/ Deactivate(w) \/ RevokeAll(w) \/ Delete(w)
    \/ EnrolWrite(w) \/ ConfirmWrite(w) \/ IssueCodes(w) \/ Disable(w)
    \/ FindCode(w) \/ UseCode(w) \/ Abort(w)

Next ==
    \/ \E w \in Handlers : Proceed(w) \/ \E b \in Browsers : CallFrom(w, b)
    \/ \E b \in Browsers : LoginChallenge(b)
    \/ requestPasswordReset \/ Reactivate

Spec == Init /\ [][Next]_vars

-----------------------------------------------------------------------------
(* A session is one chain: a token has at most one successor, and has one  *)
(* only when it ended by being replaced, not by a logout or by a reset,    *)
(* unless the refresh held it stale (refreshSession's transaction updates  *)
(* by hash).                                                               *)
Successors(t) == {s \in Tokens : token[s].parent = t}
SuccessorsExplained ==
    \A t \in Tokens \ overlapped :
        /\ Cardinality(Successors(t)) <= 1
        /\ Successors(t) # {} <=> token[t].ended = "rotated"

(* A user is signed out for a reason: as long as no answer is lost and no  *)
(* two calls of one browser overlap, and without reset or deactivation,    *)
(* every cookie at rest is of a live session (refreshSession takes a token *)
(* that is revoked for stolen and ends all sessions).                      *)
SignedOutExplained ==
    \/ disturbed # {}
    \/ \E t \in Tokens : token[t].ended \in {"reset", "deactivated"}
    \/ \A b \in Browsers :
          \/ jar[b] = 0 \/ Live(jar[b])
          \/ \E w \in Handlers : handler[w] # Idle /\ handler[w].browser = b

(* How sessions go on and end is explained: one chain each, and no sign-out *)
(* without a cause (refreshSession, logout).                               *)
SessionsExplained == SuccessorsExplained /\ SignedOutExplained

(* Ending all sessions ends them: a live token belongs to a session that   *)
(* was begun since, and a user who is not active has none, except for what *)
(* a call issued that was in flight at that moment, and its successors     *)
(* (resetPassword, updateUser, deactivateUser against issueSession and     *)
(* refreshSession).                                                        *)
RevokeAllHolds ==
    \A t \in Tokens : Live(t) /\ ~token[t].late =>
        /\ token[t].born = epoch
        /\ account # "active" =>
              "revokeAll" \in broken \/ \E w \in Handlers : At(w, "revokeAll")

(* A second factor that is on is the one the user confirmed, comes with    *)
(* backup codes, and a code opens once; one that is off has no codes left, *)
(* unless calls about it overlapped or broke off before the codes.         *)
SecondFactorExplained ==
    \/ "factor" \in broken
    \/ /\ factor.opened <= 1
       /\ IF factor.enabled
          THEN /\ factor.secret = factor.confirmed
               /\ factor.code # "none" \/ \E w \in Handlers : At(w, "codes")
          ELSE factor.code = "none"
=============================================================================
