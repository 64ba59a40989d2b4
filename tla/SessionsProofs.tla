--------------------------- MODULE SessionsProofs ---------------------------
(***************************************************************************)
(* Proofs about Sessions for every set of browsers and of calls in flight, *)
(* and for sessions of any length.                                         *)
(*                                                                         *)
(* Three arguments over the same types (Types): what a call that may still *)
(* issue a token knows about the last time all sessions were ended         *)
(* (RevokeOK); what a call about the second factor knows while nobody      *)
(* wrote the factor since it read it (FactorOK); and who holds which       *)
(* token (SessionOK): a token on its way to a browser is held by nobody    *)
(* else, so that nobody can end it before it arrives.                      *)
(*                                                                         *)
(* Two parts follow on what a signed-in tab shows: which promises of a     *)
(* page the query cache keeps (ConsoleCache), and what the user is led to  *)
(* by links and buttons and is then refused (ConsoleAccess).               *)
(***************************************************************************)
EXTENDS Sessions, ConsoleAccess, ConsoleCache, SequenceTheorems, FiniteSetTheorems, TLAPS

Tok == [ended : Endings, parent : Nat, born : Nat, late : BOOLEAN]
Fac == [enabled : BOOLEAN, secret : Nat, code : {"none", "unused", "used"},
        batch : Nat, confirmed : Nat, opened : Nat]
Calls == [step : Step, browser : Browsers \cup {Elsewhere}, token : Nat, next : Step,
          base : Nat, fresh : BOOLEAN]

Shape(h) ==
    /\ h.step \in {"reuse", "loadUser", "rotate", "logout"} => h.token \in Tokens
    /\ h.step = "answer" => h.token \in {0} \cup Tokens
    /\ h.step \in SessionStep \cup FactorStep => h.browser \in Browsers
    /\ h.step \in CodeStep => h.next \in {"issue", "disable", "codes"}
    /\ h.step # "idle" => h.base <= epoch

(* The types of the variables, without the bound on the number of calls,   *)
(* and the shape of a call at each of its steps.                           *)
Types ==
    /\ account \in {"active", "inactive", "deleted"}
    /\ token \in Seq(Tok)
    /\ jar \in [Browsers -> {0} \cup Tokens]
    /\ factor \in Fac
    /\ epoch \in Nat
    /\ handler \in [Handlers -> Calls \cup {Idle}]
    /\ \A w \in Handlers : Shape(handler[w])
    /\ \A t \in Tokens : token[t].parent < t

-----------------------------------------------------------------------------
Excused == "revokeAll" \in broken \/ \E w \in Handlers : At(w, "revokeAll")
Issuing(h) == h.step \in {"rotate", "issue"} \/ (h.step \in CodeStep /\ h.next = "issue")

(* A call that began since all sessions were ended for the last time.      *)
RevokeKnows(h) ==
    h.step # "idle" /\ h.base = epoch =>
        /\ Issuing(h) => account = "active" \/ Excused
        /\ h.step \in {"loadUser", "rotate"} /\ ~token[h.token].late => token[h.token].born = epoch

RevokeOK == RevokeAllHolds /\ \A w \in Handlers : RevokeKnows(handler[w])

(* What a call knows of a second factor that nobody wrote since it read.   *)
FactorKnows(h) ==
    h.step # "idle" /\ h.fresh =>
        /\ h.step \in {"enrol", "confirm"} => ~factor.enabled
        /\ h.step = "confirm" => factor.secret = h.token
        /\ h.step \in {"findCode", "useCode", "codes", "disable"} => factor.enabled
        /\ h.step = "useCode" => factor.code = "unused"

FactorOK ==
    \/ "factor" \in broken
    \/ /\ SecondFactorExplained
       /\ factor.code = "unused" => factor.opened = 0
       /\ \A w \in Handlers : FactorKnows(handler[w])

-----------------------------------------------------------------------------
(* One chain: a token that was replaced has its one successor.             *)
ChainOK ==
    \A t \in Tokens \ overlapped :
        /\ token[t].ended = "rotated" => \E s \in Tokens : Successors(t) = {s}
        /\ token[t].ended # "rotated" => Successors(t) = {}

(* A call that is fresh refreshes a live token.                            *)
FreshOK ==
    \A w \in Handlers :
        handler[w].step \in {"loadUser", "rotate"} /\ handler[w].fresh => Live(handler[w].token)

Holding == {"reuse", "loadUser", "rotate", "logout", "answer"}

(* Who holds which token.                                                  *)
HoldsOK ==
    /\ \A b, c \in Browsers : jar[b] # 0 /\ jar[b] = jar[c] => b = c
    /\ \A b \in Browsers, w \in Handlers :
          jar[b] # 0 /\ handler[w].step \in Holding /\ handler[w].token = jar[b] =>
              handler[w].browser = b /\ handler[w].step # "answer"
    /\ \A v, w \in Handlers :
          /\ v # w
          /\ handler[v].step \in Holding /\ handler[w].step = "answer" /\ handler[w].token # 0
          => handler[v].token # handler[w].token

Undisturbed ==
    disturbed = {} /\ \A t \in Tokens : token[t].ended \notin {"reset", "deactivated"}

(* As long as nothing was disturbed.                                       *)
CookiesOK ==
    Undisturbed =>
        /\ \A b \in Browsers :
              \/ jar[b] = 0 \/ Live(jar[b])
              \/ \E w \in Handlers : At(w, "answer") /\ handler[w].browser = b
        /\ \A w \in Handlers :
              /\ ~At(w, "reuse")
              /\ At(w, "answer") /\ handler[w].token # 0 => Live(handler[w].token)

SessionOK == ChainOK /\ FreshOK /\ HoldsOK /\ CookiesOK

IInv == Types /\ RevokeOK /\ FactorOK /\ SessionOK

-----------------------------------------------------------------------------
(* The list of tokens.                                                     *)
LEMMA TokensAre ==
    ASSUME token \in Seq(Tok)
    PROVE  /\ Tokens = 1..Len(token) /\ Len(token) \in Nat
           /\ \A t \in Tokens : t \in Nat \ {0} /\ token[t] \in Tok
           /\ 0 \notin Tokens
<1>1. Tokens = 1..Len(token) /\ Len(token) \in Nat /\ token \in [1..Len(token) -> Tok]
  BY LenProperties DEF Tokens
<1> QED
  BY <1>1

LEMMA EndAllTokens ==
    ASSUME token \in Seq(Tok), NEW why \in Endings, EndAll(why)
    PROVE  /\ token' \in Seq(Tok) /\ Tokens' = Tokens
           /\ \A t \in Tokens : token'[t] = IF Live(t) THEN [token[t] EXCEPT !.ended = why] ELSE token[t]
<1>1. Tokens = 1..Len(token) /\ Len(token) \in Nat /\ \A t \in Tokens : token[t] \in Tok
  BY TokensAre
<1>2. token' = [t \in 1..Len(token) |-> IF Live(t) THEN [token[t] EXCEPT !.ended = why] ELSE token[t]]
  BY <1>1 DEF EndAll
<1>3. token' \in [1..Len(token) -> Tok]
  BY <1>1, <1>2 DEF Tok
<1>4. token' \in Seq(Tok)
  BY <1>1, <1>3, SeqDef
<1> QED
  BY <1>1, <1>2, <1>4 DEF Tokens

LEMMA NewToken ==
    ASSUME token \in Seq(Tok), NEW row \in Tok, token' = Append(token, row)
    PROVE  /\ token' \in Seq(Tok) /\ Tokens' = Tokens \cup {Len(token) + 1}
           /\ Len(token) + 1 \notin Tokens
           /\ token'[Len(token) + 1] = row
           /\ \A t \in Tokens : token'[t] = token[t] /\ t < Len(token) + 1
<1>1. Tokens = 1..Len(token) /\ Len(token) \in Nat
  BY TokensAre
<1>2. token' \in Seq(Tok) /\ Len(token') = Len(token) + 1 /\ token'[Len(token) + 1] = row
      /\ \A t \in 1..Len(token) : token'[t] = token[t]
  BY AppendProperties
<1>3. Tokens' = 1..(Len(token) + 1)
  BY <1>2, LenProperties DEF Tokens
<1> QED
  BY <1>1, <1>2, <1>3

LEMMA SetToken ==
    ASSUME token \in Seq(Tok), NEW t \in Tokens, NEW why \in Endings
    PROVE  LET seq == [token EXCEPT ![t].ended = why] IN
           /\ seq \in Seq(Tok) /\ DOMAIN seq = Tokens /\ Len(seq) = Len(token)
           /\ seq[t] = [token[t] EXCEPT !.ended = why]
           /\ \A s \in Tokens \ {t} : seq[s] = token[s]
<1> DEFINE row == [token[t] EXCEPT !.ended = why]
           seq == [token EXCEPT ![t] = row]
<1>1. Tokens = 1..Len(token) /\ token[t] \in Tok
  BY TokensAre
<1>2. row \in Tok
  BY <1>1 DEF Tok
<1>3. seq \in Seq(Tok) /\ Len(seq) = Len(token)
      /\ \A j \in 1..Len(token) : seq[j] = IF j = t THEN row ELSE token[j]
  BY <1>1, <1>2, ExceptSeq
<1>4. [token EXCEPT ![t].ended = why] = seq
  BY <1>1
<1> HIDE DEF row
<1>5. DOMAIN seq = Tokens
  BY DEF Tokens
<1> HIDE DEF seq
<1>6. seq[t] = row /\ \A s \in Tokens \ {t} : seq[s] = token[s]
  BY <1>1, <1>3
<1> QED
  BY <1>3, <1>4, <1>5, <1>6 DEF row

-----------------------------------------------------------------------------
(* The calls in flight, before and after a step of one of them.            *)
SameCall(g, h) ==
    /\ g.step = h.step
    /\ h.step # "idle" =>
          /\ g.browser = h.browser /\ g.token = h.token /\ g.next = h.next /\ g.base = h.base
          /\ g.fresh => h.fresh

Turns(w, h) ==
    /\ handler' \in [Handlers -> Calls \cup {Idle}]
    /\ handler'[w] = h
    /\ \A v \in Handlers \ {w} : SameCall(handler'[v], handler[v])

LEMMA CallShape ==
    ASSUME NEW h \in Calls \cup {Idle}
    PROVE  /\ h.step = "idle" <=> h = Idle
           /\ h # Idle => /\ h \in Calls
                          /\ [h EXCEPT !.fresh = FALSE] \in Calls
                          /\ SameCall([h EXCEPT !.fresh = FALSE], h)
                          /\ ~[h EXCEPT !.fresh = FALSE].fresh
           /\ SameCall(h, h)
<1>1. h \in Calls => h.step # "idle"
  BY DEF Calls, Step, CodeStep
<1>2. SameCall(h, h)
  BY DEF SameCall
<1>3. ASSUME h \in Calls
      PROVE  LET g == [h EXCEPT !.fresh = FALSE] IN
             g \in Calls /\ SameCall(g, h) /\ ~g.fresh
  <2> DEFINE g == [h EXCEPT !.fresh = FALSE]
  <2>1. /\ g.step = h.step /\ g.browser = h.browser /\ g.token = h.token /\ g.next = h.next
        /\ g.base = h.base /\ g.fresh = FALSE /\ g \in Calls
    BY <1>3 DEF Calls
  <2> HIDE DEF g
  <2>2. SameCall(g, h) /\ ~g.fresh
    BY <2>1 DEF SameCall
  <2> QED
    BY <2>1, <2>2 DEF g
<1>4. h.step = "idle" <=> h = Idle
  BY <1>1 DEF Idle
<1>5. h # Idle => h \in Calls
  OBVIOUS
<1> QED
  BY <1>2, <1>3, <1>4, <1>5

LEMMA TurnsExcept ==
    ASSUME handler \in [Handlers -> Calls \cup {Idle}], NEW w \in Handlers,
           NEW h \in Calls \cup {Idle}, handler' = [handler EXCEPT ![w] = h]
    PROVE  Turns(w, h) /\ \A v \in Handlers \ {w} : handler'[v] = handler[v]
  BY CallShape DEF Turns

LEMMA TurnsToken ==
    ASSUME handler \in [Handlers -> Calls \cup {Idle}], NEW w \in Handlers,
           NEW h \in Calls \cup {Idle}, NEW ts, StaleToken(w, ts, h)
    PROVE  /\ Turns(w, h)
           /\ \A v \in Handlers \ {w} :
                 handler'[v].step \in {"loadUser", "rotate"} /\ handler'[v].fresh => handler[v].token \notin ts
<1>1. ASSUME NEW v \in Handlers \ {w}
      PROVE  /\ handler'[v] \in Calls \cup {Idle}
             /\ SameCall(handler'[v], handler[v])
             /\ handler'[v].step \in {"loadUser", "rotate"} /\ handler'[v].fresh => handler[v].token \notin ts
  <2>1. handler[v] \in Calls \cup {Idle}
    OBVIOUS
  <2>2. CASE handler[v] # Idle /\ handler[v].step \in {"loadUser", "rotate"} /\ handler[v].token \in ts
    <3>1. handler'[v] = [handler[v] EXCEPT !.fresh = FALSE]
      BY <2>2 DEF StaleToken
    <3> QED
      BY <2>1, <2>2, <3>1, CallShape
  <2>3. CASE ~(handler[v] # Idle /\ handler[v].step \in {"loadUser", "rotate"} /\ handler[v].token \in ts)
    <3>1. handler'[v] = handler[v]
      BY <2>3 DEF StaleToken
    <3> QED
      BY <2>1, <2>3, <3>1, CallShape
  <2> QED
    BY <2>2, <2>3
<1>2. handler'[w] = h /\ handler' = [v \in Handlers |-> handler'[v]]
  BY DEF StaleToken
<1> QED
  BY <1>1, <1>2 DEF Turns

LEMMA TurnsFactor ==
    ASSUME handler \in [Handlers -> Calls \cup {Idle}], NEW w \in Handlers,
           NEW h \in Calls \cup {Idle}, StaleFactor(w, h)
    PROVE  /\ Turns(w, h)
           /\ \A v \in Handlers \ {w} : handler'[v].step \in FactorStep => ~handler'[v].fresh
           /\ \A v \in Handlers \ {w} : handler'[v].step \notin FactorStep => handler'[v] = handler[v]
<1>1. ASSUME NEW v \in Handlers \ {w}
      PROVE  /\ handler'[v] \in Calls \cup {Idle}
             /\ SameCall(handler'[v], handler[v])
             /\ handler'[v].step \in FactorStep => ~handler'[v].fresh
             /\ handler'[v].step \notin FactorStep => handler'[v] = handler[v]
  <2>1. handler[v] \in Calls \cup {Idle} /\ Idle.step \notin FactorStep
    BY DEF Idle, FactorStep, CodeStep
  <2>2. CASE handler[v].step \in FactorStep
    <3>1. handler'[v] = [handler[v] EXCEPT !.fresh = FALSE]
      BY <2>2 DEF StaleFactor
    <3> QED
      BY <2>1, <2>2, <3>1, CallShape DEF SameCall
  <2>3. CASE handler[v].step \notin FactorStep
    <3>1. handler'[v] = handler[v]
      BY <2>3 DEF StaleFactor
    <3> QED
      BY <2>1, <2>3, <3>1, CallShape
  <2> QED
    BY <2>2, <2>3
<1>2. handler'[w] = h /\ handler' = [v \in Handlers |-> handler'[v]]
  BY DEF StaleFactor
<1> QED
  BY <1>1, <1>2 DEF Turns

-----------------------------------------------------------------------------
(* What a step keeps, for each part of the invariant.                      *)
LEMMA TypesTurn ==
    ASSUME Types, NEW w \in Handlers, NEW h \in Calls \cup {Idle}, Turns(w, h), Shape(h)',
           account' \in {"active", "inactive", "deleted"},
           token' \in Seq(Tok), Tokens \subseteq Tokens', \A t \in Tokens' : token'[t].parent < t,
           jar' \in [Browsers -> {0} \cup Tokens'], factor' \in Fac,
           epoch' \in Nat, epoch <= epoch'
    PROVE  Types'
<1>1. ASSUME NEW v \in Handlers PROVE Shape(handler[v])'
  <2>1. CASE v = w
    BY <2>1 DEF Turns
  <2>2. CASE v # w
    <3>1. Shape(handler[v]) /\ SameCall(handler'[v], handler[v]) /\ handler[v] \in Calls \cup {Idle}
      BY <2>2 DEF Types, Turns
    <3>2. handler[v].step # "idle" => handler[v].base \in Nat
      BY <3>1, CallShape DEF Calls
    <3>3. {"reuse", "loadUser", "rotate", "logout", "answer"} \cup SessionStep \cup FactorStep \cup CodeStep
             \subseteq Step \ {"idle"}
      BY DEF SessionStep, FactorStep, CodeStep, Step
    <3> QED
      BY <3>1, <3>2, <3>3 DEF SameCall, Shape, Types
  <2> QED
    BY <2>1, <2>2
<1> QED
  BY <1>1 DEF Types, Turns

LEMMA RevokeKept ==
    ASSUME Types, RevokeOK, NEW w \in Handlers, NEW h \in Calls \cup {Idle}, Turns(w, h),
           RevokeKnows(h),
           token' = token, epoch' = epoch, broken \subseteq broken',
           account' \in {account, "active"} \/ h.step = "revokeAll",
           handler[w].step = "revokeAll" => "revokeAll" \in broken'
    PROVE  RevokeOK'
<1>1. (Excused => Excused') /\ (h.step = "revokeAll" => Excused')
  BY DEF Excused, At, Turns, SameCall
<1>2. RevokeAllHolds'
  BY <1>1 DEF RevokeOK, RevokeAllHolds, Excused, Live, Tokens
<1>3. ASSUME NEW v \in Handlers PROVE RevokeKnows(handler[v])'
  <2>1. CASE v = w
    BY <1>1, <2>1 DEF Turns, RevokeKnows, Issuing
  <2>2. CASE v # w
    BY <1>1, <2>2 DEF Turns, SameCall, RevokeOK, RevokeKnows, Issuing, CodeStep
  <2> QED
    BY <2>1, <2>2
<1> QED
  BY <1>2, <1>3 DEF RevokeOK

(* After all sessions were ended, no token is live and no call is recent.  *)
LEMMA RevokeEnds ==
    ASSUME Types, NEW w \in Handlers, Turns(w, Idle), NEW why \in Endings \ {"no"}, EndAll(why)
    PROVE  RevokeOK'
<1>1. \A t \in Tokens' : ~Live(t)'
  <2>1. /\ Tokens' = Tokens
        /\ \A t \in Tokens : token'[t] = IF Live(t) THEN [token[t] EXCEPT !.ended = why] ELSE token[t]
        /\ \A t \in Tokens : token[t] \in Tok
    BY EndAllTokens, TokensAre DEF Types
  <2> QED
    BY <2>1 DEF Live, Tok
<1>2. RevokeAllHolds'
  BY <1>1 DEF RevokeAllHolds
<1>3. ASSUME NEW v \in Handlers PROVE handler'[v].step # "idle" => handler'[v].base # epoch'
  <2>1. CASE v = w
    BY <2>1 DEF Turns, Idle
  <2>2. CASE v # w
    <3>1. Shape(handler[v]) /\ SameCall(handler'[v], handler[v]) /\ handler[v] \in Calls \cup {Idle}
      BY <2>2 DEF Types, Turns
    <3>2. handler[v].step # "idle" => handler[v].base \in Nat
      BY <3>1, CallShape DEF Calls
    <3> QED
      BY <3>1, <3>2 DEF SameCall, Shape, EndAll, Types
  <2> QED
    BY <2>1, <2>2
<1> QED
  BY <1>2, <1>3 DEF RevokeOK, RevokeKnows

(* A token is issued, replaced or ended.                                   *)
LEMMA RevokeTokens ==
    ASSUME Types, RevokeOK, NEW w \in Handlers, NEW h \in Calls \cup {Idle}, Turns(w, h),
           h.step \in {"idle", "answer"}, handler[w].step # "revokeAll",
           epoch' = epoch, account' = account, broken' = broken,
           Tokens \subseteq Tokens',
           \A t \in Tokens :
              /\ token'[t].late = token[t].late /\ token'[t].born = token[t].born
              /\ Live(t)' => Live(t),
           \A t \in Tokens' \ Tokens : ~token'[t].late =>
              token'[t].born = epoch /\ (account = "active" \/ Excused)
    PROVE  RevokeOK'
<1>1. Excused => Excused'
  BY DEF Excused, At, Turns, SameCall
<1>2. RevokeAllHolds'
  <2> SUFFICES ASSUME NEW t \in Tokens', Live(t)', ~token'[t].late
               PROVE  /\ token'[t].born = epoch
                      /\ account # "active" => Excused
    BY <1>1 DEF RevokeAllHolds, Excused
  <2>1. CASE t \in Tokens
    BY <2>1 DEF RevokeOK, RevokeAllHolds, Excused
  <2>2. CASE t \notin Tokens
    BY <2>2
  <2> QED
    BY <2>1, <2>2
<1>3. ASSUME NEW v \in Handlers PROVE RevokeKnows(handler[v])'
  <2>1. CASE v = w
    BY <2>1 DEF Turns, RevokeKnows, Issuing, CodeStep
  <2>2. CASE v # w
    <3>1. RevokeKnows(handler[v]) /\ SameCall(handler'[v], handler[v]) /\ Shape(handler[v])
      BY <2>2 DEF RevokeOK, Turns, Types
    <3>2. handler[v].step \in {"loadUser", "rotate"} => handler[v].token \in Tokens
      BY <3>1 DEF Shape
    <3> QED
      BY <1>1, <3>1, <3>2 DEF SameCall, RevokeKnows, Issuing, CodeStep
  <2> QED
    BY <2>1, <2>2
<1> QED
  BY <1>2, <1>3 DEF RevokeOK

-----------------------------------------------------------------------------
LEMMA FactorKept ==
    ASSUME Types, FactorOK, NEW w \in Handlers, NEW h \in Calls \cup {Idle}, Turns(w, h),
           factor' = factor, broken \subseteq broken',
           "factor" \notin broken => FactorKnows(h),
           handler[w].step = "codes" => "factor" \in broken'
    PROVE  FactorOK'
<1> SUFFICES ASSUME "factor" \notin broken' PROVE FactorOK'
  BY DEF FactorOK
<1>1. SecondFactorExplained'
  BY DEF FactorOK, SecondFactorExplained, At, Turns, SameCall
<1>2. ASSUME NEW v \in Handlers PROVE FactorKnows(handler[v])'
  <2>1. CASE v = w
    BY <2>1 DEF Turns, FactorKnows
  <2>2. CASE v # w
    BY <2>2 DEF Turns, SameCall, FactorOK, FactorKnows
  <2> QED
    BY <2>1, <2>2
<1> QED
  BY <1>1, <1>2 DEF FactorOK

(* The write of a call that still knows the factor it read.                *)
LEMMA FactorLands ==
    ASSUME Types, FactorOK, NEW w \in Handlers, NEW h \in Calls \cup {Idle}, NEW new,
           LandFactor(w, new, h),
           "factor" \notin broken /\ handler[w].fresh =>
              /\ new.opened <= 1
              /\ IF new.enabled THEN new.secret = new.confirmed /\ (new.code # "none" \/ h.step = "codes")
                 ELSE new.code = "none"
              /\ new.code = "unused" => new.opened = 0
              /\ h.step \in {"enrol", "confirm", "findCode", "useCode"} => FALSE
              /\ h.step \in {"codes", "disable"} => new.enabled
    PROVE  FactorOK'
<1> SUFFICES ASSUME "factor" \notin broken' PROVE FactorOK'
  BY DEF FactorOK
<1>1. /\ "factor" \notin broken /\ handler[w].fresh /\ factor' = new /\ StaleFactor(w, h)
  BY DEF LandFactor
<1>2. /\ handler'[w] = h
      /\ \A v \in Handlers \ {w} : handler'[v].step \in FactorStep => ~handler'[v].fresh
  BY <1>1, TurnsFactor DEF Types, Turns
<1>3. SecondFactorExplained'
  BY <1>1, <1>2 DEF SecondFactorExplained, At
<1>4. ASSUME NEW v \in Handlers PROVE FactorKnows(handler[v])'
  BY <1>1, <1>2 DEF FactorKnows, FactorStep, CodeStep
<1> QED
  BY <1>1, <1>3, <1>4 DEF FactorOK

-----------------------------------------------------------------------------
LEMMA ChainKept ==
    ASSUME ChainOK, token' = token, overlapped' = overlapped PROVE ChainOK'
  BY DEF ChainOK, Successors, Tokens

LEMMA FreshKept ==
    ASSUME Types, FreshOK, NEW w \in Handlers, NEW h \in Calls \cup {Idle}, Turns(w, h),
           h.step \in {"loadUser", "rotate"} /\ h.fresh => Live(h.token), token' = token
    PROVE  FreshOK'
<1> SUFFICES ASSUME NEW v \in Handlers, handler'[v].step \in {"loadUser", "rotate"}, handler'[v].fresh
             PROVE  Live(handler[v].token)'
  BY DEF FreshOK
<1>1. CASE v = w
  BY <1>1 DEF Turns, Live
<1>2. CASE v # w
  BY <1>2 DEF Turns, SameCall, FreshOK, Live
<1> QED
  BY <1>1, <1>2

(* A call that turns to h: who holds what, when the jars are the same.     *)
LEMMA HoldsKept ==
    ASSUME Types, HoldsOK, NEW w \in Handlers, NEW h \in Calls \cup {Idle}, Turns(w, h),
           jar' = jar,
           \/ h.step \notin Holding
           \/ h.step = "answer" /\ h.token \notin Tokens
           \/ h.step # "answer" /\ h.browser \in Browsers /\ h.token = jar[h.browser]
           \/ h.step # "answer" /\ handler[w].step \in Holding \ {"answer"}
                 /\ h.token = handler[w].token /\ h.browser = handler[w].browser
    PROVE  HoldsOK'
<1>1. \A b \in Browsers : jar[b] # 0 => jar[b] \in Tokens
  BY DEF Types
<1>2. \A v \in Handlers : handler[v].step \in Holding => handler[v].token \in {0} \cup Tokens
  BY DEF Types, Shape, Holding
<1>3. ASSUME NEW v \in Handlers \ {w}
      PROVE  /\ handler'[v].step = handler[v].step
             /\ handler'[v].step \in Holding =>
                   handler'[v].token = handler[v].token /\ handler'[v].browser = handler[v].browser
  BY <1>3 DEF Turns, SameCall, Holding
<1>4. handler'[w] = h
  BY DEF Turns
<1>5. ASSUME NEW b \in Browsers, NEW v \in Handlers,
             jar[b] # 0, handler'[v].step \in Holding, handler'[v].token = jar[b]
      PROVE  handler'[v].browser = b /\ handler'[v].step # "answer"
  <2>1. CASE v = w
    BY <2>1, <1>1, <1>4, <1>5 DEF HoldsOK
  <2>2. CASE v # w
    BY <2>2, <1>3, <1>5 DEF HoldsOK
  <2> QED
    BY <2>1, <2>2
<1>6. ASSUME NEW u \in Handlers, NEW v \in Handlers, u # v,
             handler'[u].step \in Holding, handler'[v].step = "answer", handler'[v].token # 0
      PROVE  handler'[u].token # handler'[v].token
  <2>1. CASE u # w /\ v # w
    BY <2>1, <1>3, <1>6 DEF HoldsOK, Holding
  <2>2. CASE u = w
    <3>1. handler[v].step = "answer" /\ handler'[v].token = handler[v].token /\ v # w
      BY <2>2, <1>3, <1>6 DEF Holding
    <3> QED
      BY <2>2, <3>1, <1>1, <1>2, <1>4, <1>6 DEF HoldsOK, Holding
  <2>3. CASE v = w
    <3>1. handler[u].step \in Holding /\ handler'[u].token = handler[u].token
      BY <2>3, <1>3, <1>6
    <3> QED
      BY <2>3, <3>1, <1>2, <1>4, <1>6 DEF Holding
  <2> QED
    BY <2>1, <2>2, <2>3
<1> QED
  BY <1>5, <1>6 DEF HoldsOK

(* A step that leaves tokens and jars alone and does not end an answer.    *)
LEMMA CookiesKept ==
    ASSUME Types, CookiesOK, NEW w \in Handlers, NEW h \in Calls \cup {Idle}, Turns(w, h),
           token' = token, jar' = jar, disturbed \subseteq disturbed',
           h.step # "answer",
           Undisturbed' => h.step # "reuse" /\ handler[w].step # "answer"
    PROVE  CookiesOK'
<1> SUFFICES ASSUME Undisturbed'
             PROVE  (/\ \A b \in Browsers :
                           \/ jar[b] = 0 \/ Live(jar[b])
                           \/ \E v \in Handlers : At(v, "answer") /\ handler[v].browser = b
                     /\ \A v \in Handlers :
                           /\ ~At(v, "reuse")
                           /\ At(v, "answer") /\ handler[v].token # 0 => Live(handler[v].token))'
  BY DEF CookiesOK
<1>1. Undisturbed /\ disturbed' = {}
  BY DEF Undisturbed, Tokens
<1>2. ASSUME NEW v \in Handlers \ {w}
      PROVE  /\ handler'[v].step = handler[v].step
             /\ handler[v].step = "answer" =>
                   handler'[v].token = handler[v].token /\ handler'[v].browser = handler[v].browser
  BY <1>2 DEF Turns, SameCall
<1>3. handler'[w] = h /\ handler[w].step # "answer" /\ h.step # "reuse"
  BY <1>1 DEF Turns
<1>4. ASSUME NEW b \in Browsers
      PROVE  (jar[b] = 0 \/ Live(jar[b]) \/ \E v \in Handlers : At(v, "answer") /\ handler[v].browser = b)'
  BY <1>1, <1>2, <1>3 DEF CookiesOK, At, Live
<1>5. ASSUME NEW v \in Handlers
      PROVE  (~At(v, "reuse") /\ (At(v, "answer") /\ handler[v].token # 0 => Live(handler[v].token)))'
  BY <1>1, <1>2, <1>3 DEF CookiesOK, At, Live
<1> QED
  BY <1>4, <1>5

-----------------------------------------------------------------------------
(* A call goes on and writes nothing.                                      *)
LEMMA CallKept ==
    ASSUME IInv, NEW w \in Handlers, NEW h \in Calls \cup {Idle}, Turns(w, h), Shape(h),
           UNCHANGED <<session, jar, factor>>, account' \in {"active", "inactive", "deleted"},
           account' \in {account, "active"} \/ h.step = "revokeAll",
           broken \subseteq broken', disturbed \subseteq disturbed',
           RevokeKnows(h), handler[w].step = "revokeAll" => "revokeAll" \in broken',
           "factor" \notin broken => FactorKnows(h), handler[w].step = "codes" => "factor" \in broken',
           h.step \in {"loadUser", "rotate"} /\ h.fresh => Live(h.token),
           \/ h.step \notin Holding
           \/ h.step # "answer" /\ h.browser \in Browsers /\ h.token = jar[h.browser]
           \/ h.step # "answer" /\ handler[w].step \in Holding \ {"answer"}
                 /\ h.token = handler[w].token /\ h.browser = handler[w].browser,
           h.step # "answer",
           Undisturbed' => h.step # "reuse" /\ handler[w].step # "answer"
    PROVE  IInv'
<1> USE DEF session
<1>1. Types'
  <2>1. Shape(h)'
    BY DEF Shape, Tokens
  <2> QED
    BY <2>1, TypesTurn DEF IInv, Types, Tokens
<1>2. RevokeOK'
  BY RevokeKept DEF IInv
<1>3. FactorOK'
  BY FactorKept DEF IInv
<1>4. ChainOK' /\ FreshOK'
  BY ChainKept, FreshKept DEF IInv, SessionOK
<1>5. HoldsOK'
  BY HoldsKept DEF IInv, SessionOK
<1>6. CookiesOK'
  BY CookiesKept DEF IInv, SessionOK
<1> QED
  BY <1>1, <1>2, <1>3, <1>4, <1>5, <1>6 DEF IInv, SessionOK

(* A call about the second factor writes it.                               *)
LEMMA Lands ==
    ASSUME IInv, NEW w \in Handlers, NEW h \in Calls \cup {Idle}, NEW new \in Fac,
           LandFactor(w, new, h), Shape(h), RevokeKnows(h),
           h.step \notin Holding, handler[w].step \in FactorStep,
           "factor" \notin broken /\ handler[w].fresh =>
              /\ new.opened <= 1
              /\ IF new.enabled THEN new.secret = new.confirmed /\ (new.code # "none" \/ h.step = "codes")
                 ELSE new.code = "none"
              /\ new.code = "unused" => new.opened = 0
              /\ h.step \in {"enrol", "confirm", "findCode", "useCode"} => FALSE
              /\ h.step \in {"codes", "disable"} => new.enabled
    PROVE  IInv'
<1> USE DEF session
<1>1. Turns(w, h)
  BY TurnsFactor DEF LandFactor, IInv, Types
<1>2. /\ UNCHANGED <<account, session, jar, disturbed>> /\ factor' = new /\ broken \subseteq broken'
      /\ handler[w].step \notin {"revokeAll", "answer"} /\ h.step \notin {"answer", "reuse", "loadUser", "rotate"}
  BY DEF LandFactor, FactorStep, CodeStep, Holding
<1>3. Types'
  <2>1. Shape(h)'
    BY <1>2 DEF Shape, Tokens
  <2> QED
    BY <1>1, <1>2, <2>1, TypesTurn DEF IInv, Types, Tokens
<1>4. RevokeOK'
  BY <1>1, <1>2, RevokeKept DEF IInv
<1>5. FactorOK'
  BY FactorLands DEF IInv
<1>6. ChainOK' /\ FreshOK'
  BY <1>1, <1>2, ChainKept, FreshKept DEF IInv, SessionOK
<1>7. HoldsOK'
  BY <1>1, <1>2, HoldsKept DEF IInv, SessionOK
<1>8. CookiesOK'
  BY <1>1, <1>2, CookiesKept DEF IInv, SessionOK
<1> QED
  BY <1>3, <1>4, <1>5, <1>6, <1>7, <1>8 DEF IInv, SessionOK

(* A call begins.                                                          *)
LEMMA Begins ==
    ASSUME IInv, NEW w \in Handlers, NEW b \in Browsers \cup {Elsewhere}, NEW step \in Step,
           NEW t \in Nat, NEW next \in Step, Begin(w, b, step, t, next),
           UNCHANGED <<account, session, jar, factor, broken>>, disturbed \subseteq disturbed',
           step \in SessionStep \cup FactorStep => b \in Browsers,
           step \in Holding => step # "answer" /\ t = jar[b] /\ t # 0,
           step \notin {"rotate", "useCode", "revokeAll"},
           step \in CodeStep => next \in {"issue", "disable", "codes"},
           step = "issue" \/ (step \in CodeStep /\ next = "issue") => account = "active",
           step \in {"enrol", "confirm"} => ~factor.enabled,
           step = "confirm" => factor.secret = t,
           step \in {"findCode", "codes", "disable"} => factor.enabled,
           step = "loadUser" => Live(t),
           Undisturbed' => step # "reuse"
    PROVE  IInv'
<1> DEFINE new == [step |-> step, browser |-> b, token |-> t, next |-> next, base |-> epoch, fresh |-> TRUE]
<1>1. PICK h : h = new
  OBVIOUS
<1>2. /\ h.step = step /\ h.browser = b /\ h.token = t /\ h.next = next /\ h.base = epoch /\ h.fresh
      /\ h \in Calls
  BY <1>1 DEF Calls, IInv, Types
<1>3. handler' = [handler EXCEPT ![w] = h] /\ handler[w].step = "idle"
  BY <1>1 DEF Begin, At
<1> HIDE DEF new
<1>4. Turns(w, h)
  BY <1>2, <1>3, TurnsExcept DEF IInv, Types
<1>5. b \in Browsers => jar[b] \in {0} \cup Tokens
  BY DEF IInv, Types
<1>6. Shape(h)
  BY <1>2, <1>5 DEF Shape, Holding, SessionStep, IInv, Types
<1>7. RevokeKnows(h)
  <2>1. step = "loadUser" /\ ~token[t].late => token[t].born = epoch
    BY <1>5 DEF IInv, RevokeOK, RevokeAllHolds, Holding, SessionStep
  <2>2. Issuing(h) => account = "active"
    BY <1>2 DEF Issuing
  <2> QED
    BY <1>2, <2>1, <2>2 DEF RevokeKnows
<1>8. FactorKnows(h)
  BY <1>2 DEF FactorKnows
<1>9. step \in Holding => b \in Browsers
  BY DEF Holding, SessionStep
<1>10. /\ h.step # "answer" /\ handler[w].step \notin {"revokeAll", "codes", "answer"}
       /\ h.step \notin Holding \/ (h.browser \in Browsers /\ h.token = jar[h.browser])
       /\ h.step \in {"loadUser", "rotate"} /\ h.fresh => Live(h.token)
       /\ Undisturbed' => h.step # "reuse"
  BY <1>2, <1>3, <1>9 DEF Holding
<1>11. h \in Calls \cup {Idle} /\ account' \in {"active", "inactive", "deleted"} /\ broken \subseteq broken'
  BY <1>2 DEF IInv, Types
<1> QED
  BY <1>4, <1>6, <1>7, <1>8, <1>10, <1>11, CallKept

-----------------------------------------------------------------------------
(* The calls that begin.                                                   *)
LEMMA SteppingIn ==
    /\ {"reuse", "loadUser", "logout", "issue", "reset", "enrol", "confirm", "codes", "disable",
        "deactivate", "delete", "findCode", "answer"} \subseteq Step
    /\ "answer" \in Holding
  BY DEF Step, CodeStep, Holding

(* A cookie that is dead while nothing was disturbed waits for an answer.  *)
LEMMA RefreshReadKeeps ==
    ASSUME IInv, NEW w \in Handlers, NEW b \in Browsers, RefreshRead(w, b) PROVE IInv'
<1> DEFINE step == IF Live(jar[b]) THEN "loadUser" ELSE "reuse"
<1>1. /\ Begin(w, b, step, jar[b], "answer") /\ jar[b] # 0 /\ jar[b] \in Nat /\ jar[b] \in Tokens
      /\ UNCHANGED <<account, session, jar, factor, broken>> /\ disturbed \subseteq disturbed'
  BY TokensAre DEF RefreshRead, BeginSession, IInv, Types
<1>2. Undisturbed' => step # "reuse"
  <2> SUFFICES ASSUME Undisturbed', ~Live(jar[b]) PROVE FALSE
    OBVIOUS
  <2>1. disturbed' = {} /\ Undisturbed
    BY <1>1 DEF Undisturbed, session, Tokens
  <2> QED
    <3>1. PICK v \in Handlers : handler[v].step = "answer" /\ handler[v].browser = b
      BY <1>1, <2>1 DEF IInv, SessionOK, CookiesOK, At
    <3>2. handler[v] # Idle /\ handler[v].step \in SessionStep
      BY <3>1 DEF Idle, SessionStep
    <3>3. disturbed' = disturbed \cup {b}
      BY <3>1, <3>2 DEF RefreshRead, BeginSession
    <3> QED
      BY <2>1, <3>3
<1>3. step \in {"loadUser", "reuse"} /\ step \in Step /\ "answer" \in Step /\ (step = "loadUser" => Live(jar[b]))
  BY SteppingIn
<1> HIDE DEF step
<1>4. step \notin CodeStep /\ step \notin {"rotate", "codes", "useCode", "revokeAll", "answer", "issue"}
  BY <1>3 DEF CodeStep
<1> QED
  BY <1>1, <1>2, <1>3, <1>4, Begins

LEMMA LoginReadKeeps ==
    ASSUME IInv, NEW w \in Handlers, NEW b \in Browsers, LoginRead(w, b) PROVE IInv'
<1>1. /\ Begin(w, b, "issue", 0, "answer") /\ account = "active"
      /\ UNCHANGED <<account, session, jar, factor, broken>> /\ disturbed \subseteq disturbed'
  BY DEF LoginRead, BeginSession
<1> QED
  BY <1>1, Begins, SteppingIn DEF Holding, CodeStep, FactorStep, SessionStep

LEMMA LogoutReadKeeps ==
    ASSUME IInv, NEW w \in Handlers, NEW b \in Browsers, LogoutRead(w, b) PROVE IInv'
<1>1. /\ Begin(w, b, "logout", jar[b], "answer") /\ jar[b] # 0 /\ jar[b] \in Nat
      /\ UNCHANGED <<account, session, jar, factor, broken>> /\ disturbed \subseteq disturbed'
  BY TokensAre DEF LogoutRead, BeginSession, IInv, Types
<1> QED
  BY <1>1, Begins, SteppingIn DEF CodeStep, FactorStep

LEMMA VerifyReadKeeps ==
    ASSUME IInv, NEW w \in Handlers, NEW b \in Browsers, NEW by, VerifyRead(w, b, by) PROVE IInv'
<1> DEFINE step == IF by = "app" THEN "issue" ELSE "findCode"
<1>1. /\ Begin(w, b, step, 0, "issue") /\ account = "active" /\ factor.enabled
      /\ UNCHANGED <<account, session, jar, factor, broken>> /\ disturbed \subseteq disturbed'
  BY DEF VerifyRead, BeginSession
<1>2. step \in {"issue", "findCode"} /\ step \in Step /\ "issue" \in Step
  BY SteppingIn
<1> HIDE DEF step
<1>3. step \notin Holding
  BY <1>2 DEF Holding
<1> QED
  BY <1>1, <1>2, <1>3, Begins

LEMMA BeginFactorKeeps ==
    ASSUME IInv, NEW w \in Handlers, NEW b \in Browsers, NEW t \in Nat,
           NEW step \in {"findCode", "disable", "codes", "enrol", "confirm"},
           NEW next \in {"disable", "codes", "answer"},
           BeginFactor(w, b, step, t, next),
           step \in {"enrol", "confirm"} => ~factor.enabled,
           step = "confirm" => factor.secret = t,
           step \in {"findCode", "codes", "disable"} => factor.enabled,
           step = "findCode" => next # "answer"
    PROVE  IInv'
<1>1. /\ Begin(w, b, step, t, next) /\ account = "active"
      /\ UNCHANGED <<account, session, jar, factor, broken>> /\ disturbed \subseteq disturbed'
  BY DEF BeginFactor, SignedIn
<1>2. step \in Step /\ next \in Step /\ step \notin Holding /\ step \notin {"rotate", "useCode", "revokeAll"}
  BY SteppingIn DEF Holding
<1>3. step \in CodeStep => next \in {"issue", "disable", "codes"} /\ next # "issue"
  BY DEF CodeStep
<1> QED
  BY <1>1, <1>2, <1>3, Begins

LEMMA EnrolReadKeeps ==
    ASSUME IInv, NEW w \in Handlers, NEW b \in Browsers, EnrolRead(w, b) PROVE IInv'
  BY BeginFactorKeeps DEF EnrolRead

LEMMA ConfirmReadKeeps ==
    ASSUME IInv, NEW w \in Handlers, NEW b \in Browsers, ConfirmRead(w, b) PROVE IInv'
<1>1. factor.secret \in Nat
  BY DEF IInv, Types, Fac
<1>2. PICK t \in Nat : t = factor.secret
  BY <1>1
<1>3. BeginFactor(w, b, "confirm", t, "codes") /\ ~factor.enabled
  BY <1>2 DEF ConfirmRead
<1> QED
  BY <1>2, <1>3, BeginFactorKeeps

LEMMA ManageReadKeeps ==
    ASSUME IInv, NEW w \in Handlers, NEW b \in Browsers, NEW by, NEW step \in {"disable", "codes"},
           ManageRead(w, b, by, step)
    PROVE  IInv'
<1>1. PICK s \in {"findCode", "disable", "codes"} : BeginFactor(w, b, s, 0, step) /\ factor.enabled
  BY DEF ManageRead
<1> QED
  BY <1>1, BeginFactorKeeps

LEMMA ElsewhereKeeps ==
    ASSUME IInv, NEW w \in Handlers, NEW step \in {"reset", "deactivate", "delete"},
           Begin(w, Elsewhere, step, 0, "answer"),
           UNCHANGED <<account, session, jar, factor, broken, disturbed>>
    PROVE  IInv'
<1>1. step \in Step /\ "answer" \in Step /\ step \notin Holding \cup SessionStep \cup FactorStep \cup CodeStep
  BY SteppingIn DEF Holding, SessionStep, FactorStep, CodeStep
<1> QED
  BY <1>1, Begins

-----------------------------------------------------------------------------
(* The calls that go on without a write to tokens or factor.               *)
LEMMA StepOf ==
    ASSUME IInv, NEW w \in Handlers, NEW step, At(w, step), step # "idle"
    PROVE  /\ handler[w] \in Calls /\ handler[w].step = step /\ Shape(handler[w])
           /\ RevokeKnows(handler[w])
           /\ "factor" \notin broken => FactorKnows(handler[w])
           /\ step \in SessionStep \cup FactorStep => handler[w].browser \in Browsers
  BY DEF IInv, Types, At, Idle, RevokeOK, FactorOK, Shape

LEMMA IdleCall ==
    /\ Idle \in Calls \cup {Idle} /\ Idle.step = "idle" /\ Shape(Idle) /\ RevokeKnows(Idle) /\ FactorKnows(Idle)
    /\ Idle.step \notin Holding
  BY DEF Idle, Shape, RevokeKnows, FactorKnows, SessionStep, FactorStep, CodeStep, Holding

LEMMA FinishKeeps ==
    ASSUME IInv, NEW w \in Handlers, Finish(w), UNCHANGED <<account, session, jar, factor>>,
           broken \subseteq broken', disturbed \subseteq disturbed',
           handler[w].step = "revokeAll" => "revokeAll" \in broken',
           handler[w].step = "codes" => "factor" \in broken',
           Undisturbed' => handler[w].step # "answer"
    PROVE  IInv'
<1>1. Turns(w, Idle)
  BY TurnsExcept DEF Finish, IInv, Types
<1>2. account' \in {"active", "inactive", "deleted"}
  BY DEF IInv, Types
<1> QED
  BY <1>1, <1>2, IdleCall, CallKept

LEMMA LoadUserKeeps ==
    ASSUME IInv, NEW w \in Handlers, LoadUser(w) PROVE IInv'
<1>1. CASE account = "active"
  <2>1. PICK h : h = [handler[w] EXCEPT !.step = "rotate"]
    OBVIOUS
  <2>2. handler[w] \in Calls /\ handler[w].step = "loadUser" /\ Shape(handler[w]) /\ RevokeKnows(handler[w])
        /\ handler[w].browser \in Browsers
    BY StepOf DEF LoadUser, At, SessionStep
  <2>3. /\ h.step = "rotate" /\ h.token = handler[w].token /\ h.browser = handler[w].browser
        /\ h.base = handler[w].base /\ h.fresh = handler[w].fresh /\ h \in Calls
    BY <2>1, <2>2 DEF Calls, Step
  <2>4. Turns(w, h)
    <3>1. handler' = [handler EXCEPT ![w] = h]
      BY <1>1, <2>1 DEF LoadUser, Continue
    <3> QED
      BY <2>3, <3>1, TurnsExcept DEF IInv, Types
  <2>5. Shape(h) /\ RevokeKnows(h) /\ FactorKnows(h)
    BY <1>1, <2>2, <2>3 DEF Shape, RevokeKnows, Issuing, FactorKnows, SessionStep, FactorStep, CodeStep
  <2>6. /\ h.step # "answer" /\ h.step # "reuse" /\ handler[w].step \in Holding \ {"answer"}
        /\ h.step \in {"loadUser", "rotate"} /\ h.fresh => Live(h.token)
    BY <2>2, <2>3 DEF Holding, IInv, SessionOK, FreshOK
  <2>7. UNCHANGED <<session, jar, factor, account, broken, disturbed>>
        /\ handler[w].step \notin {"revokeAll", "codes", "answer"}
        /\ account' \in {"active", "inactive", "deleted"}
    BY <2>2 DEF LoadUser, IInv, Types
  <2> QED
    BY <2>3, <2>4, <2>5, <2>6, <2>7, CallKept
<1>2. CASE account # "active"
  BY <1>2, FinishKeeps DEF LoadUser, At
<1> QED
  BY <1>1, <1>2

LEMMA DeactivateKeeps ==
    ASSUME IInv, NEW w \in Handlers, Deactivate(w) PROVE IInv'
<1>1. PICK h : h = [handler[w] EXCEPT !.step = "revokeAll"]
  OBVIOUS
<1>2. handler[w] \in Calls /\ handler[w].step = "deactivate" /\ Shape(handler[w])
  BY StepOf DEF Deactivate, At
<1>3. h.step = "revokeAll" /\ h.base = handler[w].base /\ h \in Calls
  BY <1>1, <1>2 DEF Calls, Step
<1>4. Turns(w, h)
  <2>1. handler' = [handler EXCEPT ![w] = h]
    BY <1>1 DEF Deactivate, Continue
  <2> QED
    BY <1>3, <2>1, TurnsExcept DEF IInv, Types
<1>5. Shape(h) /\ RevokeKnows(h) /\ FactorKnows(h) /\ h.step \notin Holding /\ h.step # "answer"
  BY <1>2, <1>3 DEF Shape, RevokeKnows, Issuing, FactorKnows, Holding, SessionStep, FactorStep, CodeStep
<1>6. /\ UNCHANGED <<session, jar, factor, broken, disturbed>>
      /\ account' \in {"active", "inactive", "deleted"}
      /\ handler[w].step \notin {"revokeAll", "codes", "answer"}
  BY <1>2 DEF Deactivate, IInv, Types
<1> QED
  BY <1>3, <1>4, <1>5, <1>6, CallKept

LEMMA FindCodeKeeps ==
    ASSUME IInv, NEW w \in Handlers, FindCode(w) PROVE IInv'
<1>1. CASE factor.code = "unused"
  <2>1. PICK h : h = [handler[w] EXCEPT !.step = "useCode", !.token = factor.batch]
    OBVIOUS
  <2>2. /\ handler[w] \in Calls /\ handler[w].step = "findCode" /\ Shape(handler[w]) /\ RevokeKnows(handler[w])
        /\ "factor" \notin broken => FactorKnows(handler[w])
    BY StepOf DEF FindCode, At
  <2>3. /\ h.step = "useCode" /\ h.browser = handler[w].browser /\ h.next = handler[w].next
        /\ h.base = handler[w].base /\ h.fresh = handler[w].fresh /\ h \in Calls
    BY <2>1, <2>2 DEF Calls, Step, CodeStep, IInv, Types, Fac
  <2>4. Turns(w, h)
    <3>1. handler' = [handler EXCEPT ![w] = h]
      BY <1>1, <2>1 DEF FindCode
    <3> QED
      BY <2>3, <3>1, TurnsExcept DEF IInv, Types
  <2>5. Shape(h) /\ RevokeKnows(h) /\ h.step \notin Holding /\ h.step # "answer"
    BY <1>1, <2>2, <2>3 DEF Shape, RevokeKnows, Issuing, Holding, SessionStep, FactorStep, CodeStep
  <2>6. "factor" \notin broken => FactorKnows(h)
    BY <1>1, <2>2, <2>3 DEF FactorKnows
  <2>7. UNCHANGED <<session, jar, factor, account, broken, disturbed>>
        /\ handler[w].step \notin {"revokeAll", "codes", "answer"}
        /\ account' \in {"active", "inactive", "deleted"}
    BY <2>2 DEF FindCode, IInv, Types
  <2> QED
    BY <2>3, <2>4, <2>5, <2>6, <2>7, CallKept
<1>2. CASE factor.code # "unused"
  BY <1>2, FinishKeeps DEF FindCode, At
<1> QED
  BY <1>1, <1>2

LEMMA AbortKeeps ==
    ASSUME IInv, NEW w \in Handlers, Abort(w) PROVE IInv'
<1>1. Finish(w) /\ UNCHANGED <<account, session, jar, factor>>
      /\ broken \subseteq broken' /\ disturbed \subseteq disturbed'
  BY DEF Abort
<1>2. (handler[w].step = "codes" => "factor" \in broken')
      /\ (handler[w].step = "revokeAll" => "revokeAll" \in broken')
  BY DEF Abort, At
<1>3. Undisturbed' => handler[w].step # "answer"
  BY DEF Abort, At, Undisturbed
<1> QED
  BY <1>1, <1>2, <1>3, FinishKeeps

-----------------------------------------------------------------------------
(* The calls that write the second factor.                                 *)
LEMMA EnrolWriteKeeps ==
    ASSUME IInv, NEW w \in Handlers, EnrolWrite(w) PROVE IInv'
<1>1. PICK new : new = [factor EXCEPT !.secret = @ + 1, !.enabled = FALSE]
  OBVIOUS
<1>2. factor \in Fac
  BY DEF IInv, Types
<1>3. new \in Fac /\ ~new.enabled /\ new.code = factor.code /\ new.opened = factor.opened
  <2>1. factor.secret + 1 \in Nat
    BY <1>2 DEF Fac
  <2>2. PICK n \in Nat : n = factor.secret + 1
    BY <2>1
  <2>3. new = [factor EXCEPT !.secret = n, !.enabled = FALSE]
    BY <1>1, <1>2, <2>2 DEF Fac
  <2> QED
    BY <1>2, <2>3 DEF Fac
<1>4. LandFactor(w, new, Idle)
  BY <1>1 DEF EnrolWrite
<1>5. "factor" \notin broken /\ handler[w].fresh => ~factor.enabled
  BY StepOf DEF FactorKnows, EnrolWrite, At
<1>6. "factor" \notin broken => factor.opened <= 1 /\ (~factor.enabled => factor.code = "none")
  BY DEF IInv, FactorOK, SecondFactorExplained
<1>7. handler[w].step \in FactorStep
  BY DEF EnrolWrite, At, FactorStep
<1> QED
  BY <1>3, <1>4, <1>5, <1>6, <1>7, IdleCall, Lands

LEMMA ConfirmWriteKeeps ==
    ASSUME IInv, NEW w \in Handlers, ConfirmWrite(w) PROVE IInv'
<1>1. PICK new : new = [factor EXCEPT !.enabled = TRUE, !.confirmed = handler[w].token]
  OBVIOUS
<1>2. PICK h : h = [handler[w] EXCEPT !.step = "codes"]
  OBVIOUS
<1>3. /\ handler[w] \in Calls /\ handler[w].step = "confirm" /\ Shape(handler[w]) /\ RevokeKnows(handler[w])
      /\ handler[w].browser \in Browsers
      /\ "factor" \notin broken => FactorKnows(handler[w])
  BY StepOf DEF ConfirmWrite, At, FactorStep
<1>4. /\ h.step = "codes" /\ h.browser = handler[w].browser /\ h.base = handler[w].base /\ h \in Calls
  BY <1>2, <1>3 DEF Calls, Step
<1>5. factor \in Fac
  BY DEF IInv, Types
<1>6. /\ new.enabled /\ new.code = factor.code /\ new.opened = factor.opened
      /\ new.secret = factor.secret /\ new.confirmed = handler[w].token /\ new \in Fac
  BY <1>1, <1>3, <1>5 DEF Fac, Calls
<1>7. LandFactor(w, new, h)
  BY <1>1, <1>2 DEF ConfirmWrite
<1>8. "factor" \notin broken /\ handler[w].fresh => factor.secret = handler[w].token
  BY <1>3 DEF FactorKnows
<1>9. "factor" \notin broken => factor.opened <= 1 /\ (factor.code = "unused" => factor.opened = 0)
  BY DEF IInv, FactorOK, SecondFactorExplained
<1>10. Shape(h) /\ RevokeKnows(h) /\ h.step \notin Holding /\ handler[w].step \in FactorStep
  BY <1>3, <1>4 DEF Shape, RevokeKnows, Issuing, Holding, SessionStep, FactorStep, CodeStep
<1> QED
  BY <1>4, <1>6, <1>7, <1>8, <1>9, <1>10, Lands

LEMMA IssueCodesKeeps ==
    ASSUME IInv, NEW w \in Handlers, IssueCodes(w) PROVE IInv'
<1>1. PICK new : new = [factor EXCEPT !.code = "unused", !.batch = @ + 1, !.opened = 0]
  OBVIOUS
<1>2. factor \in Fac
  BY DEF IInv, Types
<1>3. /\ new \in Fac /\ new.enabled = factor.enabled /\ new.code = "unused" /\ new.opened = 0
      /\ new.secret = factor.secret /\ new.confirmed = factor.confirmed
  <2>1. factor.batch + 1 \in Nat
    BY <1>2 DEF Fac
  <2>2. PICK n \in Nat : n = factor.batch + 1
    BY <2>1
  <2>3. new = [factor EXCEPT !.code = "unused", !.batch = n, !.opened = 0]
    BY <1>1, <1>2, <2>2 DEF Fac
  <2> QED
    BY <1>2, <2>3 DEF Fac
<1>4. LandFactor(w, new, Idle)
  BY <1>1 DEF IssueCodes
<1>5. "factor" \notin broken /\ handler[w].fresh => factor.enabled
  BY StepOf DEF FactorKnows, IssueCodes, At
<1>6. "factor" \notin broken => (factor.enabled => factor.secret = factor.confirmed)
  BY DEF IInv, FactorOK, SecondFactorExplained
<1>7. handler[w].step \in FactorStep
  BY DEF IssueCodes, At, FactorStep
<1> QED
  BY <1>3, <1>4, <1>5, <1>6, <1>7, IdleCall, Lands

LEMMA DisableKeeps ==
    ASSUME IInv, NEW w \in Handlers, Disable(w) PROVE IInv'
<1>1. PICK new : new = [factor EXCEPT !.enabled = FALSE, !.secret = 0, !.code = "none", !.opened = 0]
  OBVIOUS
<1>2. factor \in Fac
  BY DEF IInv, Types
<1>3. new \in Fac /\ ~new.enabled /\ new.code = "none" /\ new.opened = 0
  BY <1>1, <1>2 DEF Fac
<1>4. LandFactor(w, new, Idle)
  BY <1>1 DEF Disable
<1>5. handler[w].step \in FactorStep
  BY DEF Disable, At, FactorStep
<1> QED
  BY <1>3, <1>4, <1>5, IdleCall, Lands

LEMMA UseCodeKeeps ==
    ASSUME IInv, NEW w \in Handlers, UseCode(w) PROVE IInv'
<1>1. PICK new : new = [factor EXCEPT !.code = "used", !.opened = @ + 1]
  OBVIOUS
<1>2. PICK h : h = [handler[w] EXCEPT !.step = handler[w].next]
  OBVIOUS
<1>3. /\ handler[w] \in Calls /\ handler[w].step = "useCode" /\ Shape(handler[w]) /\ RevokeKnows(handler[w])
      /\ handler[w].browser \in Browsers
      /\ "factor" \notin broken => FactorKnows(handler[w])
  BY StepOf DEF UseCode, At, FactorStep, CodeStep
<1>4. handler[w].next \in {"issue", "disable", "codes"}
  BY <1>3 DEF Shape, CodeStep
<1>5. /\ h.step = handler[w].next /\ h.browser = handler[w].browser /\ h.base = handler[w].base /\ h \in Calls
  BY <1>2, <1>3 DEF Calls, Step
<1>6. factor \in Fac
  BY DEF IInv, Types
<1>7. /\ new.enabled = factor.enabled /\ new.code = "used" /\ new.opened = factor.opened + 1
      /\ new.secret = factor.secret /\ new.confirmed = factor.confirmed /\ new \in Fac
  <2>1. factor.opened + 1 \in Nat
    BY <1>6 DEF Fac
  <2>2. PICK n \in Nat : n = factor.opened + 1
    BY <2>1
  <2>3. new = [factor EXCEPT !.code = "used", !.opened = n]
    BY <1>1, <1>6, <2>2 DEF Fac
  <2> QED
    BY <1>6, <2>2, <2>3 DEF Fac
<1>8. LandFactor(w, new, h)
  BY <1>1, <1>2 DEF UseCode
<1>9. "factor" \notin broken /\ handler[w].fresh => factor.enabled /\ factor.code = "unused"
  BY <1>3 DEF FactorKnows
<1>10. "factor" \notin broken => /\ factor.code = "unused" => factor.opened = 0
                                 /\ factor.enabled => factor.secret = factor.confirmed
  BY DEF IInv, FactorOK, SecondFactorExplained
<1>11. Shape(h) /\ RevokeKnows(h) /\ h.step \notin Holding /\ handler[w].step \in FactorStep
  BY <1>3, <1>4, <1>5 DEF Shape, RevokeKnows, Issuing, Holding, SessionStep, FactorStep, CodeStep
<1> QED
  BY <1>4, <1>5, <1>7, <1>8, <1>9, <1>10, <1>11, Lands

-----------------------------------------------------------------------------
(* All sessions are ended: by a call that found a dead token, which does   *)
(* not happen while nothing was disturbed, or for a reason that explains   *)
(* every dead cookie; or there was no live token, and nothing changes.     *)
LEMMA EndAllKeeps ==
    ASSUME IInv, NEW w \in Handlers, NEW why \in {"reset", "deactivated", "reuse"}, EndAll(why),
           StaleToken(w, Tokens, Idle), UNCHANGED <<jar, factor, broken, disturbed>>,
           account' \in {"active", "inactive", "deleted"},
           handler[w].step \notin {"codes", "answer"},
           why = "reuse" => handler[w].step = "reuse"
    PROVE  IInv'
<1>1. /\ Turns(w, Idle)
      /\ \A v \in Handlers \ {w} :
            handler'[v].step \in {"loadUser", "rotate"} /\ handler'[v].fresh => handler[v].token \notin Tokens
  BY IdleCall, TurnsToken DEF IInv, Types
<1>2. why \in Endings \ {"no"} /\ why # "rotated" /\ why # "no"
  BY DEF Endings
<1>3. /\ token' \in Seq(Tok) /\ Tokens' = Tokens
      /\ \A t \in Tokens : token'[t] = IF Live(t) THEN [token[t] EXCEPT !.ended = why] ELSE token[t]
      /\ \A t \in Tokens : token[t] \in Tok
  BY <1>2, EndAllTokens, TokensAre DEF IInv, Types
<1>4. \A t \in Tokens : /\ token'[t].parent = token[t].parent
                        /\ token'[t].ended = IF Live(t) THEN why ELSE token[t].ended
  BY <1>3 DEF Tok
<1>5. Types'
  <2>1. Shape(Idle)'
    BY DEF Idle, Shape, SessionStep, FactorStep, CodeStep
  <2>2. epoch' \in Nat /\ epoch <= epoch' /\ \A t \in Tokens' : token'[t].parent < t
    BY <1>3, <1>4 DEF EndAll, IInv, Types
  <2>3. jar' \in [Browsers -> {0} \cup Tokens'] /\ factor' \in Fac
    BY <1>3 DEF IInv, Types
  <2> QED
    BY <1>1, <1>3, <2>1, <2>2, <2>3, IdleCall, TypesTurn DEF IInv
<1>6. RevokeOK'
  BY <1>1, <1>2, RevokeEnds DEF IInv
<1>7. FactorOK'
  BY <1>1, IdleCall, FactorKept DEF IInv
<1>8. ChainOK'
  <2>1. \A t \in Tokens : Successors(t)' = Successors(t) /\ (token'[t].ended = "rotated" <=> token[t].ended = "rotated")
    BY <1>2, <1>3, <1>4 DEF Successors, Live
  <2>2. overlapped' = overlapped
    BY DEF EndAll
  <2> QED
    BY <1>3, <2>1, <2>2 DEF ChainOK, IInv, SessionOK
<1>9. FreshOK'
  <2> SUFFICES ASSUME NEW v \in Handlers, handler'[v].step \in {"loadUser", "rotate"}, handler'[v].fresh
               PROVE  FALSE
    BY DEF FreshOK
  <2>1. v # w
    BY <1>1 DEF Turns, Idle
  <2>2. Shape(handler[v]) /\ handler[v].step = handler'[v].step
    BY <1>1, <2>1 DEF Turns, SameCall, IInv, Types
  <2> QED
    BY <1>1, <2>1, <2>2 DEF Shape
<1>10. HoldsOK'
  BY <1>1, IdleCall, HoldsKept DEF IInv, SessionOK
<1>11. CookiesOK'
  <2> SUFFICES ASSUME Undisturbed' PROVE CookiesOK'
    BY DEF CookiesOK
  <2>1. Undisturbed
    BY <1>3, <1>4 DEF Undisturbed, Live
  <2>2. why # "reuse"
    BY <2>1 DEF IInv, SessionOK, CookiesOK, At
  <2>3. \A t \in Tokens : ~Live(t)
    BY <1>3, <1>4, <2>2 DEF Undisturbed
  <2>4. token' = token
    <3>1. token \in [1..Len(token) -> Tok] /\ Tokens = 1..Len(token)
      BY TokensAre, LenProperties DEF IInv, Types
    <3>2. token' = [t \in 1..Len(token) |-> token[t]]
      BY <2>3, <3>1 DEF EndAll
    <3> QED
      BY <3>1, <3>2
  <2>5. Idle.step # "answer" /\ Idle.step # "reuse"
    BY DEF Idle
  <2> QED
    BY <1>1, <2>4, <2>5, IdleCall, CookiesKept DEF IInv, SessionOK
<1> QED
  BY <1>5, <1>6, <1>7, <1>8, <1>9, <1>10, <1>11 DEF IInv, SessionOK

(* A call ends a token of its own, or none, and answers with a new one, or *)
(* with none.                                                              *)
LEMMA AnswersKept ==
    ASSUME IInv, NEW w \in Handlers, NEW h \in Calls, Turns(w, h),
           h.step = "answer", h.browser = handler[w].browser,
           handler[w].step \in {"rotate", "logout", "issue"},
           NEW t \in {0} \cup Tokens,
           t # 0 => handler[w].step \in Holding /\ handler[w].token = t,
           Tokens \subseteq Tokens', \A s \in Tokens \ {t} : token'[s] = token[s],
           t # 0 /\ ~Live(t) => token'[t].ended = token[t].ended,
           h.token \in {0} \cup (Tokens' \ Tokens), h.token # 0 => token'[h.token].ended = "no",
           \A v \in Handlers \ {w} :
              handler'[v].step \in {"loadUser", "rotate"} /\ handler'[v].fresh => handler[v].token # t,
           jar' = jar, disturbed' = disturbed
    PROVE  FreshOK' /\ HoldsOK' /\ CookiesOK'
<1>1. /\ handler'[w] = h
      /\ \A v \in Handlers \ {w} :
            /\ handler'[v].step = handler[v].step
            /\ handler[v].step # "idle" =>
                  handler'[v].token = handler[v].token /\ handler'[v].browser = handler[v].browser
            /\ handler[v].step # "idle" /\ handler'[v].fresh => handler[v].fresh
  BY DEF Turns, SameCall
<1>2. 0 \notin Tokens
  BY TokensAre DEF IInv, Types
<1>3. FreshOK'
  <2> SUFFICES ASSUME NEW v \in Handlers, handler'[v].step \in {"loadUser", "rotate"}, handler'[v].fresh
               PROVE  token'[handler'[v].token].ended = "no"
    BY DEF FreshOK, Live
  <2>1. v # w
    BY <1>1
  <2>2. Shape(handler[v]) /\ handler[v].token \in Tokens /\ handler[v].token # t /\ Live(handler[v].token)
    BY <1>1, <2>1 DEF Shape, IInv, Types, SessionOK, FreshOK
  <2> QED
    BY <1>1, <2>1, <2>2 DEF Live
<1>4. HoldsOK'
  <2>1. h \in Calls \cup {Idle} /\ h.token \notin Tokens
    BY <1>2
  <2> QED
    BY <2>1, HoldsKept DEF IInv, SessionOK
<1>5. CookiesOK'
  <2> SUFFICES ASSUME Undisturbed'
               PROVE  (/\ \A b \in Browsers :
                             \/ jar[b] = 0 \/ Live(jar[b])
                             \/ \E v \in Handlers : At(v, "answer") /\ handler[v].browser = b
                       /\ \A v \in Handlers :
                             /\ ~At(v, "reuse")
                             /\ At(v, "answer") /\ handler[v].token # 0 => Live(handler[v].token))'
    BY DEF CookiesOK
  <2>1. Undisturbed
    BY <1>2 DEF Undisturbed, Live
  <2>2. ASSUME NEW b \in Browsers
        PROVE  \/ jar[b] = 0 \/ token'[jar[b]].ended = "no"
               \/ \E v \in Handlers : handler'[v].step = "answer" /\ handler'[v].browser = b
    <3>1. CASE jar[b] # 0 /\ jar[b] = t
      BY <1>1, <3>1 DEF IInv, SessionOK, HoldsOK
    <3>2. CASE jar[b] # 0 /\ jar[b] # t
      <4>1. jar[b] \in Tokens
        BY <3>2 DEF IInv, Types
      <4>2. CASE Live(jar[b])
        BY <3>2, <4>1, <4>2 DEF Live
      <4>3. CASE ~Live(jar[b])
        <5>1. PICK v \in Handlers : handler[v].step = "answer" /\ handler[v].browser = b
          BY <2>1, <3>2, <4>3 DEF IInv, SessionOK, CookiesOK, At
        <5> QED
          BY <1>1, <5>1
      <4> QED
        BY <4>2, <4>3
    <3> QED
      BY <3>1, <3>2
  <2>3. ASSUME NEW v \in Handlers
        PROVE  /\ handler'[v].step # "reuse"
               /\ handler'[v].step = "answer" /\ handler'[v].token # 0 => token'[handler'[v].token].ended = "no"
    <3>1. CASE v = w
      BY <1>1, <3>1
    <3>2. CASE v # w
      <4>1. handler[v].step # "reuse"
        BY <2>1 DEF IInv, SessionOK, CookiesOK, At
      <4>2. ASSUME handler[v].step = "answer", handler[v].token # 0
            PROVE  handler[v].token \in Tokens /\ handler[v].token # t /\ token[handler[v].token].ended = "no"
        BY <2>1, <3>2, <4>2 DEF IInv, Types, Shape, SessionOK, HoldsOK, CookiesOK, At, Live
      <4> QED
        BY <1>1, <3>2, <4>1, <4>2
    <3> QED
      BY <3>1, <3>2
  <2> QED
    BY <2>2, <2>3 DEF At, Live
<1> QED
  BY <1>3, <1>4, <1>5

LEMMA AnsweringCall ==
    ASSUME NEW h \in Calls, NEW t \in Nat
    PROVE  LET g == Answering(h, t) IN
           /\ g \in Calls /\ g.step = "answer" /\ g.token = t /\ g.browser = h.browser /\ g.base = h.base
           /\ RevokeKnows(g) /\ FactorKnows(g)
<1> DEFINE g == Answering(h, t)
<1>1. g \in Calls /\ g.step = "answer" /\ g.token = t /\ g.browser = h.browser /\ g.base = h.base
  BY DEF Answering, Calls, Step
<1> HIDE DEF g
<1>2. RevokeKnows(g) /\ FactorKnows(g)
  BY <1>1 DEF RevokeKnows, FactorKnows, Issuing, CodeStep
<1> QED
  BY <1>1, <1>2 DEF g

(* A call issues a token in the place of p, or of none, and ends p, or     *)
(* another token of its own.                                               *)
LEMMA TokenStepKept ==
    ASSUME IInv, NEW w \in Handlers, handler[w].step \in {"rotate", "logout", "issue"},
           NEW n \in Nat, Turns(w, Answering(handler[w], n)),
           n \in {0} \cup Tokens',
           UNCHANGED <<account, epoch, jar, factor, broken, disturbed>>,
           token' \in Seq(Tok), Tokens \subseteq Tokens', \A t \in Tokens' : token'[t].parent < t,
           \A t \in Tokens :
              /\ token'[t].late = token[t].late /\ token'[t].born = token[t].born
              /\ Live(t)' => Live(t),
           \A t \in Tokens' \ Tokens : ~token'[t].late =>
              token'[t].born = epoch /\ (account = "active" \/ Excused),
           ChainOK', FreshOK', HoldsOK', CookiesOK'
    PROVE  IInv'
<1>1. PICK h : h = Answering(handler[w], n)
  OBVIOUS
<1>2. handler[w] \in Calls /\ Shape(handler[w]) /\ handler[w].browser \in Browsers
  BY DEF IInv, Types, Idle, Shape, SessionStep
<1>3. h \in Calls /\ h.step = "answer" /\ h.token = n /\ h.browser = handler[w].browser
      /\ h.base = handler[w].base /\ FactorKnows(h)
  BY <1>1, <1>2, AnsweringCall
<1>4. Turns(w, h)
  BY <1>1
<1>5. Shape(h)'
  BY <1>2, <1>3 DEF Shape, SessionStep, FactorStep, CodeStep
<1>6. Types'
  <2>1. jar' \in [Browsers -> {0} \cup Tokens']
    BY DEF IInv, Types
  <2>2. account' \in {"active", "inactive", "deleted"} /\ factor' \in Fac /\ epoch' \in Nat /\ epoch <= epoch'
    BY DEF IInv, Types
  <2> QED
    BY <1>3, <1>4, <1>5, <2>1, <2>2, TypesTurn DEF IInv
<1>7. RevokeOK'
  BY <1>3, <1>4, RevokeTokens DEF IInv
<1>8. FactorOK'
  BY <1>3, <1>4, FactorKept DEF IInv
<1> QED
  BY <1>6, <1>7, <1>8 DEF IInv, SessionOK

LEMMA TypesTokens ==
    Types => \A s \in Tokens : s \in Nat \ {0} /\ token[s] \in Tok
  BY TokensAre DEF Types

(* A new token of p is the one successor of p.                             *)
LEMMA ChainGrows ==
    ASSUME Types, Types', ChainOK, NEW n, Tokens' = Tokens \cup {n}, n \notin Tokens,
           NEW p \in {0} \cup Tokens, overlapped \subseteq overlapped',
           \A t \in Tokens : token'[t].parent = token[t].parent,
           \A t \in Tokens \ {p} : token'[t].ended = token[t].ended,
           token'[n].ended = "no", token'[n].parent = p, \A t \in Tokens' : t <= n,
           p # 0 /\ p \notin overlapped' => Live(p) /\ token'[p].ended = "rotated"
    PROVE  ChainOK'
<1>1. \A t \in Tokens : Successors(t)' = IF t = p THEN Successors(t) \cup {n} ELSE Successors(t)
  BY DEF Successors
<1>2. Successors(n)' = {}
  <2>1. \A s \in Tokens' : s \in Nat /\ token'[s].parent \in Nat /\ token'[s].parent < s
    <3>1. (\A s \in Tokens : s \in Nat \ {0} /\ token[s] \in Tok)'
      <4>1. Types'
        OBVIOUS
      <4> QED
        BY <4>1, TypesTokens, PTL
    <3> QED
      BY <3>1 DEF Types, Tok
  <2> QED
    BY <2>1 DEF Successors
<1>3. 0 \notin Tokens
  BY TokensAre DEF Types
<1> SUFFICES ASSUME NEW t \in Tokens' \ overlapped'
             PROVE  /\ token'[t].ended = "rotated" => \E s \in Tokens' : Successors(t)' = {s}
                    /\ token'[t].ended # "rotated" => Successors(t)' = {}
  BY DEF ChainOK
<1>4. CASE t = n
  BY <1>2, <1>4
<1>5. CASE t = p /\ p # 0
  <2>1. Successors(t) = {}
    BY <1>5 DEF ChainOK, Live
  <2>2. Successors(t)' = {n} /\ n \in Tokens' /\ token'[t].ended = "rotated"
    BY <1>1, <1>5, <2>1
  <2> QED
    BY <2>2
<1>6. CASE t # n /\ t # p
  <2>1. t \in Tokens \ overlapped /\ Successors(t)' = Successors(t) /\ token'[t].ended = token[t].ended
    BY <1>1, <1>6
  <2> QED
    BY <2>1 DEF ChainOK
<1> QED
  BY <1>3, <1>4, <1>5, <1>6

LEMMA IssueKeeps ==
    ASSUME IInv, NEW w \in Handlers, Issue(w) PROVE IInv'
<1> DEFINE n == Len(token) + 1
<1>1. /\ handler[w] \in Calls /\ handler[w].step = "issue" /\ Shape(handler[w]) /\ RevokeKnows(handler[w])
  BY StepOf DEF Issue, At
<1>2. PICK row : row = Issued(handler[w], 0)
  OBVIOUS
<1>3. /\ row.ended = "no" /\ row.parent = 0 /\ row.born = handler[w].base
      /\ row.late = (handler[w].base # epoch) /\ row \in Tok
  BY <1>1, <1>2 DEF Issued, Tok, Endings, Calls
<1>4. token \in Seq(Tok) /\ token' = Append(token, row) /\ handler' = [handler EXCEPT ![w] = Answering(@, n)]
      /\ UNCHANGED <<account, epoch, overlapped, jar, factor, broken, disturbed>>
  BY <1>2 DEF Issue, IInv, Types
<1>5. /\ token' \in Seq(Tok) /\ Tokens' = Tokens \cup {n} /\ n \notin Tokens /\ token'[n] = row
      /\ \A t \in Tokens : token'[t] = token[t] /\ t < n
  BY <1>3, <1>4, NewToken
<1>6. n \in Nat /\ 0 \notin Tokens /\ 0 < n
  BY <1>4, TokensAre
<1> HIDE DEF n
<1>7. PICK h : h = Answering(handler[w], n)
  OBVIOUS
<1>8. h \in Calls /\ h.step = "answer" /\ h.token = n /\ h.browser = handler[w].browser
      /\ h.base = handler[w].base
  BY <1>1, <1>6, <1>7, AnsweringCall
<1>9. Turns(w, h) /\ \A v \in Handlers \ {w} : handler'[v] = handler[v]
  <2>1. handler' = [handler EXCEPT ![w] = h]
    BY <1>4, <1>7
  <2> QED
    BY <1>8, <2>1, TurnsExcept DEF IInv, Types
<1>10. \A t \in Tokens' : token'[t].parent < t
  BY <1>3, <1>5, <1>6 DEF IInv, Types
<1>11. ChainOK'
  <2>1. \A t \in Tokens' : t <= n
    BY <1>5, <1>6, TypesTokens DEF IInv
  <2>2. Types'
    <3>1. Shape(h)'
      BY <1>1, <1>4, <1>5, <1>8 DEF Shape, SessionStep, FactorStep, CodeStep
    <3>2. jar' \in [Browsers -> {0} \cup Tokens'] /\ factor' \in Fac
      BY <1>4, <1>5 DEF IInv, Types
    <3>3. account' \in {"active", "inactive", "deleted"} /\ epoch' \in Nat /\ epoch <= epoch'
      BY <1>4 DEF IInv, Types
    <3> QED
      BY <1>5, <1>8, <1>9, <1>10, <3>1, <3>2, <3>3, TypesTurn DEF IInv
  <2>3. Types /\ ChainOK
    BY DEF IInv, SessionOK
  <2>4. /\ \A t \in Tokens : token'[t].parent = token[t].parent
        /\ \A t \in Tokens \ {0} : token'[t].ended = token[t].ended
        /\ token'[n].ended = "no" /\ token'[n].parent = 0 /\ overlapped \subseteq overlapped'
    BY <1>3, <1>4, <1>5
  <2> QED
    BY <1>5, <2>1, <2>2, <2>3, <2>4, ChainGrows
<1>12. \A v \in Handlers \ {w} :
          handler'[v].step \in {"loadUser", "rotate"} /\ handler'[v].fresh => handler[v].token # 0
  BY <1>6, <1>9 DEF IInv, Types, Shape
<1>13. FreshOK' /\ HoldsOK' /\ CookiesOK'
  <2>1. PICK t \in {0} \cup Tokens : t = 0
    OBVIOUS
  <2>2. /\ \A s \in Tokens \ {t} : token'[s] = token[s]
        /\ h.token \in Tokens' \ Tokens /\ token'[h.token].ended = "no"
        /\ Tokens \subseteq Tokens'
    BY <1>3, <1>5, <1>8
  <2>3. handler[w].step \in {"rotate", "logout", "issue"} /\ jar' = jar /\ disturbed' = disturbed
    BY <1>1, <1>4
  <2> QED
    BY <1>8, <1>9, <1>12, <2>1, <2>2, <2>3, AnswersKept
<1>14. \A t \in Tokens' \ Tokens : ~token'[t].late =>
          token'[t].born = epoch /\ (account = "active" \/ Excused)
  BY <1>1, <1>3, <1>5 DEF RevokeKnows, Issuing
<1>15. \A t \in Tokens : /\ token'[t].late = token[t].late /\ token'[t].born = token[t].born
                         /\ Live(t)' => Live(t)
  BY <1>5 DEF Live
<1>16. Turns(w, Answering(handler[w], n)) /\ handler[w].step \in {"rotate", "logout", "issue"}
  BY <1>1, <1>7, <1>9
<1> QED
  BY <1>4, <1>5, <1>6, <1>10, <1>11, <1>13, <1>14, <1>15, <1>16, TokenStepKept

LEMMA LogoutKeeps ==
    ASSUME IInv, NEW w \in Handlers, Logout(w) PROVE IInv'
<1>1. /\ handler[w] \in Calls /\ handler[w].step = "logout" /\ Shape(handler[w])
  BY StepOf DEF Logout, At
<1>2. PICK t \in Tokens : t = handler[w].token
  BY <1>1 DEF Shape
<1>3. /\ token \in Seq(Tok) /\ \A s \in Tokens : s \in Nat /\ s # 0 /\ token[s] \in Tok
      /\ UNCHANGED <<account, epoch, overlapped, jar, factor, broken, disturbed>>
      /\ StaleToken(w, {t}, Answering(handler[w], 0))
      /\ token' = IF Live(t) THEN [token EXCEPT ![t].ended = "logout"] ELSE token
  BY <1>2, TypesTokens DEF Logout, IInv, Types
<1>4. /\ token' \in Seq(Tok) /\ Tokens' = Tokens
      /\ \A s \in Tokens \ {t} : token'[s] = token[s]
      /\ token'[t] = IF Live(t) THEN [token[t] EXCEPT !.ended = "logout"] ELSE token[t]
  <2>1. CASE Live(t)
    <3>1. "logout" \in Endings
      BY DEF Endings
    <3> QED
      BY <1>3, <2>1, <3>1, SetToken DEF Tokens
  <2>2. CASE ~Live(t)
    BY <1>3, <2>2 DEF Tokens
  <2> QED
    BY <2>1, <2>2
<1>5. /\ token'[t].parent = token[t].parent /\ token'[t].late = token[t].late /\ token'[t].born = token[t].born
      /\ token'[t].ended = IF Live(t) THEN "logout" ELSE token[t].ended
  BY <1>3, <1>4 DEF Tok
<1>6. PICK h : h = Answering(handler[w], 0)
  OBVIOUS
<1>7. h \in Calls /\ h.step = "answer" /\ h.token = 0 /\ h.browser = handler[w].browser
  BY <1>1, <1>6, AnsweringCall
<1>8. /\ Turns(w, h)
      /\ \A v \in Handlers \ {w} :
            handler'[v].step \in {"loadUser", "rotate"} /\ handler'[v].fresh => handler[v].token \notin {t}
  <2>1. StaleToken(w, {t}, h)
    BY <1>3, <1>6
  <2> QED
    BY <1>7, <2>1, TurnsToken DEF IInv, Types
<1>9. ChainOK'
  <2>1. \A s \in Tokens : /\ Successors(s)' = Successors(s)
                          /\ token'[s].ended = "rotated" <=> token[s].ended = "rotated"
    BY <1>4, <1>5 DEF Successors, Live
  <2> QED
    BY <1>3, <1>4, <2>1 DEF ChainOK, IInv, SessionOK
<1>10. FreshOK' /\ HoldsOK' /\ CookiesOK'
  <2>1. handler[w].step \in Holding
    BY <1>1 DEF Holding
  <2>2. ~Live(t) => token'[t].ended = token[t].ended
    BY <1>5
  <2> QED
    BY <1>1, <1>2, <1>3, <1>4, <1>7, <1>8, <2>1, <2>2, AnswersKept
<1>11. \A s \in Tokens : /\ token'[s].late = token[s].late /\ token'[s].born = token[s].born
                         /\ Live(s)' => Live(s)
  BY <1>4, <1>5 DEF Live
<1>12. \A s \in Tokens' : token'[s].parent < s
  BY <1>4, <1>5 DEF IInv, Types
<1>13. Turns(w, Answering(handler[w], 0)) /\ handler[w].step \in {"rotate", "logout", "issue"}
  BY <1>1, <1>6, <1>8
<1> QED
  BY <1>3, <1>4, <1>9, <1>10, <1>11, <1>12, <1>13, TokenStepKept

LEMMA AnswerKeeps ==
    ASSUME IInv, NEW w \in Handlers, Answer(w) PROVE IInv'
<1>1. /\ handler[w] \in Calls /\ handler[w].step = "answer" /\ Shape(handler[w])
      /\ handler[w].browser \in Browsers
  BY StepOf DEF Answer, At, SessionStep
<1>2. PICK b \in Browsers : b = handler[w].browser
  BY <1>1
<1>3. PICK x \in {0} \cup Tokens : x = handler[w].token
  BY <1>1 DEF Shape
<1>4. /\ UNCHANGED <<account, token, epoch, overlapped, factor, broken, disturbed>>
      /\ jar' = [jar EXCEPT ![b] = x] /\ handler' = [handler EXCEPT ![w] = Idle]
  BY <1>2, <1>3 DEF Answer, Finish, session
<1>5. Turns(w, Idle) /\ \A v \in Handlers \ {w} : handler'[v] = handler[v]
  BY <1>4, TurnsExcept DEF IInv, Types
<1>6. jar \in [Browsers -> {0} \cup Tokens] /\ Tokens' = Tokens
  BY <1>4 DEF IInv, Types, Tokens
<1>7. jar'[b] = x /\ \A c \in Browsers \ {b} : jar'[c] = jar[c]
  BY <1>4, <1>6
<1>8. handler'[w].step = "idle"
  BY <1>5 DEF Turns, Idle
<1>9. Types'
  <2>1. Shape(Idle)'
    BY DEF Idle, Shape, SessionStep, FactorStep, CodeStep
  <2>2. jar' \in [Browsers -> {0} \cup Tokens'] /\ epoch' \in Nat /\ epoch <= epoch' /\ factor' \in Fac
        /\ account' \in {"active", "inactive", "deleted"} /\ token' \in Seq(Tok)
        /\ \A t \in Tokens' : token'[t].parent < t
    BY <1>4, <1>6 DEF IInv, Types
  <2> QED
    BY <1>5, <1>6, <2>1, <2>2, IdleCall, TypesTurn DEF IInv
<1>10. RevokeOK' /\ FactorOK'
  BY <1>1, <1>4, <1>5, IdleCall, RevokeKept, FactorKept DEF IInv
<1>11. ChainOK' /\ FreshOK'
  BY <1>4, <1>5, <1>8, IdleCall, ChainKept, FreshKept DEF IInv, SessionOK, Idle
<1>12. HoldsOK /\ CookiesOK
  BY DEF IInv, SessionOK
<1>13. "answer" \in Holding /\ "idle" \notin Holding
  BY DEF Holding
<1>14. HoldsOK'
  <2>1. ASSUME NEW c \in Browsers, NEW d \in Browsers, jar'[c] # 0, jar'[c] = jar'[d] PROVE c = d
    BY <1>1, <1>2, <1>3, <1>7, <1>12, <1>13, <2>1 DEF HoldsOK
  <2>2. ASSUME NEW c \in Browsers, NEW v \in Handlers,
               jar'[c] # 0, handler'[v].step \in Holding, handler'[v].token = jar'[c]
        PROVE  handler'[v].browser = c /\ handler'[v].step # "answer"
    <3>1. v # w /\ handler'[v] = handler[v]
      BY <1>5, <1>8, <1>13, <2>2
    <3>2. CASE c = b
      BY <1>1, <1>3, <1>7, <1>12, <2>2, <3>1, <3>2 DEF HoldsOK
    <3>3. CASE c # b
      BY <1>7, <1>12, <2>2, <3>1, <3>3 DEF HoldsOK
    <3> QED
      BY <3>2, <3>3
  <2>3. ASSUME NEW u \in Handlers, NEW v \in Handlers, u # v,
               handler'[u].step \in Holding, handler'[v].step = "answer", handler'[v].token # 0
        PROVE  handler'[u].token # handler'[v].token
    <3>1. u # w /\ v # w
      BY <1>8, <1>13, <2>3
    <3> QED
      BY <1>5, <1>12, <2>3, <3>1 DEF HoldsOK
  <2> QED
    BY <2>1, <2>2, <2>3 DEF HoldsOK
<1>15. CookiesOK'
  <2> SUFFICES ASSUME Undisturbed'
               PROVE  (/\ \A c \in Browsers :
                             \/ jar[c] = 0 \/ Live(jar[c])
                             \/ \E v \in Handlers : At(v, "answer") /\ handler[v].browser = c
                       /\ \A v \in Handlers :
                             /\ ~At(v, "reuse")
                             /\ At(v, "answer") /\ handler[v].token # 0 => Live(handler[v].token))'
    BY DEF CookiesOK
  <2>1. Undisturbed
    BY <1>4 DEF Undisturbed, Tokens
  <2>2. ASSUME NEW c \in Browsers
        PROVE  \/ jar'[c] = 0 \/ token[jar'[c]].ended = "no"
               \/ \E v \in Handlers : handler'[v].step = "answer" /\ handler'[v].browser = c
    <3>1. CASE c = b
      BY <1>1, <1>3, <1>7, <1>12, <2>1, <3>1 DEF CookiesOK, At, Live
    <3>2. CASE c # b
      <4>1. \/ jar[c] = 0 \/ token[jar[c]].ended = "no"
            \/ \E v \in Handlers : handler[v].step = "answer" /\ handler[v].browser = c
        BY <1>12, <2>1 DEF CookiesOK, At, Live
      <4> QED
        BY <1>2, <1>5, <1>7, <3>2, <4>1
    <3> QED
      BY <3>1, <3>2
  <2>3. ASSUME NEW v \in Handlers
        PROVE  /\ handler'[v].step # "reuse"
               /\ handler'[v].step = "answer" /\ handler'[v].token # 0 => token[handler'[v].token].ended = "no"
    <3>1. CASE v = w
      BY <1>8, <3>1
    <3>2. CASE v # w
      BY <1>5, <1>12, <2>1, <3>2 DEF CookiesOK, At, Live
    <3> QED
      BY <3>1, <3>2
  <2> QED
    BY <1>4, <2>2, <2>3 DEF At, Live
<1> QED
  BY <1>9, <1>10, <1>11, <1>14, <1>15 DEF IInv, SessionOK

LEMMA RotateKeeps ==
    ASSUME IInv, NEW w \in Handlers, Rotate(w) PROVE IInv'
<1> DEFINE n == Len(token) + 1
<1>1. /\ handler[w] \in Calls /\ handler[w].step = "rotate" /\ Shape(handler[w]) /\ RevokeKnows(handler[w])
  BY StepOf DEF Rotate, At
<1>2. PICK t \in Tokens : t = handler[w].token
  BY <1>1 DEF Shape
<1>3. PICK row : row = Issued(handler[w], t)
  OBVIOUS
<1>4. PICK why : why = IF Live(t) THEN "rotated" ELSE token[t].ended
  OBVIOUS
<1>5. PICK mid : mid = [token EXCEPT ![t].ended = why]
  OBVIOUS
<1>6. /\ token' = Append(mid, row)
      /\ StaleToken(w, {t}, Answering(handler[w], n))
      /\ overlapped' = (IF handler[w].fresh THEN overlapped ELSE overlapped \cup {t})
      /\ UNCHANGED <<account, epoch, jar, factor, broken, disturbed>>
  BY <1>2, <1>3, <1>4, <1>5 DEF Rotate
<1>7. /\ token \in Seq(Tok) /\ token[t] \in Tok /\ Tokens = 1..Len(token) /\ 0 \notin Tokens /\ t \in Nat /\ t # 0
  BY TokensAre DEF IInv, Types
<1>8. why \in Endings
  BY <1>4, <1>7 DEF Tok, Endings
<1>9. /\ mid \in Seq(Tok) /\ DOMAIN mid = Tokens /\ Len(mid) = Len(token)
      /\ mid[t] = [token[t] EXCEPT !.ended = why]
      /\ \A s \in Tokens \ {t} : mid[s] = token[s]
  BY <1>5, <1>7, <1>8, SetToken
<1>10. /\ row.ended = "no" /\ row.parent = t /\ row.born = token[t].born
       /\ row.late = (handler[w].base # epoch \/ token[t].late) /\ row \in Tok
  BY <1>3, <1>7 DEF Issued, Tok, Endings
<1>11. /\ token' \in Seq(Tok) /\ Tokens' = Tokens \cup {n} /\ n \notin Tokens /\ token'[n] = row
       /\ \A s \in Tokens : token'[s] = mid[s] /\ s < n
  <2>1. Len(mid) \in Nat /\ mid \in [1..Len(mid) -> Tok]
    BY <1>9, LenProperties
  <2>2. /\ token' \in Seq(Tok) /\ Len(token') = Len(mid) + 1 /\ token'[Len(mid) + 1] = row
        /\ \A s \in 1..Len(mid) : token'[s] = mid[s]
    BY <1>6, <1>9, <1>10, AppendProperties
  <2>3. Tokens' = 1..(Len(token) + 1)
    BY <1>9, <2>2, LenProperties DEF Tokens
  <2> QED
    BY <1>7, <1>9, <2>1, <2>2, <2>3
<1>12. n \in Nat /\ 0 < n
  BY <1>7, <1>11
<1> HIDE DEF n
<1>13. /\ token'[t].parent = token[t].parent /\ token'[t].late = token[t].late /\ token'[t].born = token[t].born
       /\ token'[t].ended = why
       /\ \A s \in Tokens \ {t} : token'[s] = token[s]
  BY <1>7, <1>9, <1>11 DEF Tok
<1>14. PICK h : h = Answering(handler[w], n)
  OBVIOUS
<1>15. h \in Calls /\ h.step = "answer" /\ h.token = n /\ h.browser = handler[w].browser
       /\ h.base = handler[w].base
  BY <1>1, <1>12, <1>14, AnsweringCall
<1>16. /\ Turns(w, h)
       /\ \A v \in Handlers \ {w} :
             handler'[v].step \in {"loadUser", "rotate"} /\ handler'[v].fresh => handler[v].token \notin {t}
  <2>1. StaleToken(w, {t}, h)
    BY <1>6, <1>14
  <2> QED
    BY <1>15, <2>1, TurnsToken DEF IInv, Types
<1>17. \A s \in Tokens' : token'[s].parent < s
  BY <1>10, <1>11, <1>12, <1>13 DEF IInv, Types
<1>18. ChainOK'
  <2>1. \A s \in Tokens' : s <= n
    BY <1>11, <1>12, TypesTokens DEF IInv
  <2>2. Types'
    <3>1. Shape(h)'
      BY <1>1, <1>6, <1>11, <1>15 DEF Shape, SessionStep, FactorStep, CodeStep
    <3>2. jar' \in [Browsers -> {0} \cup Tokens'] /\ factor' \in Fac
      BY <1>6, <1>11 DEF IInv, Types
    <3>3. account' \in {"active", "inactive", "deleted"} /\ epoch' \in Nat /\ epoch <= epoch'
      BY <1>6 DEF IInv, Types
    <3> QED
      BY <1>11, <1>15, <1>16, <1>17, <3>1, <3>2, <3>3, TypesTurn DEF IInv
  <2>3. Types /\ ChainOK
    BY DEF IInv, SessionOK
  <2>4. /\ \A s \in Tokens : token'[s].parent = token[s].parent
        /\ \A s \in Tokens \ {t} : token'[s].ended = token[s].ended
        /\ token'[n].ended = "no" /\ token'[n].parent = t /\ overlapped \subseteq overlapped'
    BY <1>6, <1>10, <1>11, <1>13
  <2>5. t \notin overlapped' => Live(t) /\ token'[t].ended = "rotated"
    BY <1>1, <1>2, <1>4, <1>6, <1>13 DEF IInv, SessionOK, FreshOK
  <2> QED
    BY <1>11, <2>1, <2>2, <2>3, <2>4, <2>5, ChainGrows
<1>19. FreshOK' /\ HoldsOK' /\ CookiesOK'
  <2>1. handler[w].step \in Holding /\ handler[w].step \in {"rotate", "logout", "issue"}
    BY <1>1 DEF Holding
  <2>2. ~Live(t) => token'[t].ended = token[t].ended
    BY <1>4, <1>13
  <2>3. h.token \in Tokens' \ Tokens /\ token'[h.token].ended = "no" /\ Tokens \subseteq Tokens'
    BY <1>10, <1>11, <1>15
  <2>4. \A v \in Handlers \ {w} :
           handler'[v].step \in {"loadUser", "rotate"} /\ handler'[v].fresh => handler[v].token # t
    BY <1>16
  <2>5. t \in {0} \cup Tokens /\ h.token \in {0} \cup (Tokens' \ Tokens) /\ handler[w].token = t
        /\ \A s \in Tokens \ {t} : token'[s] = token[s]
    BY <1>2, <1>13, <2>3
  <2>6. Turns(w, h) /\ jar' = jar /\ disturbed' = disturbed
    BY <1>6, <1>16
  <2> QED
    BY <1>15, <2>1, <2>2, <2>3, <2>4, <2>5, <2>6, AnswersKept
<1>20. \A s \in Tokens : /\ token'[s].late = token[s].late /\ token'[s].born = token[s].born
                         /\ Live(s)' => Live(s)
  BY <1>4, <1>13 DEF Live
<1>21. \A s \in Tokens' \ Tokens : ~token'[s].late =>
          token'[s].born = epoch /\ (account = "active" \/ Excused)
  BY <1>1, <1>2, <1>10, <1>11 DEF RevokeKnows, Issuing
<1>22. Turns(w, Answering(handler[w], n)) /\ handler[w].step \in {"rotate", "logout", "issue"}
  BY <1>1, <1>14, <1>16
<1> QED
  BY <1>6, <1>11, <1>12, <1>17, <1>18, <1>19, <1>20, <1>21, <1>22, TokenStepKept

-----------------------------------------------------------------------------
(* The steps of no call in flight.                                         *)
LEMMA OtherSteps ==
    ASSUME IInv, UNCHANGED <<session, jar, factor, handler, disturbed, broken>>,
           account' \in {account, "active"}
    PROVE  IInv'
<1> USE DEF session
<1>1. Types'
  <2>1. \A w \in Handlers : Shape(handler[w])'
    BY DEF IInv, Types, Shape, Tokens
  <2> QED
    BY <2>1 DEF IInv, Types, Tokens
<1>2. RevokeOK'
  <2>1. Excused' <=> Excused
    BY DEF Excused, At
  <2>2. RevokeAllHolds'
    BY <2>1 DEF IInv, RevokeOK, RevokeAllHolds, Excused, Live, Tokens
  <2>3. \A w \in Handlers : RevokeKnows(handler[w])'
    BY <2>1 DEF IInv, RevokeOK, RevokeKnows, Issuing
  <2> QED
    BY <2>2, <2>3 DEF RevokeOK
<1>3. FactorOK'
  BY DEF IInv, FactorOK, SecondFactorExplained, FactorKnows, At
<1>4. ChainOK' /\ FreshOK' /\ HoldsOK'
  BY DEF IInv, SessionOK, ChainOK, Successors, Tokens, FreshOK, Live, HoldsOK
<1>5. CookiesOK'
  BY DEF IInv, SessionOK, CookiesOK, Undisturbed, Tokens, Live, At
<1> QED
  BY <1>1, <1>2, <1>3, <1>4, <1>5 DEF IInv, SessionOK

LEMMA IInvInit == Init => IInv
<1> SUFFICES ASSUME Init PROVE IInv
  OBVIOUS
<1> USE DEF Init
<1>1. token \in Seq(Tok) /\ Tokens = {}
  BY EmptySeq DEF Tokens
<1>2. \A w \in Handlers : handler[w] = Idle
  OBVIOUS
<1>3. Types
  <2>1. factor \in Fac
    BY DEF Fac
  <2> QED
    BY <1>1, <1>2, <2>1, IdleCall DEF Types
<1>4. RevokeOK
  BY <1>1, <1>2, IdleCall DEF RevokeOK, RevokeAllHolds
<1>5. FactorOK
  BY <1>2, IdleCall DEF FactorOK, SecondFactorExplained
<1>6. SessionOK
  BY <1>1, <1>2 DEF SessionOK, ChainOK, FreshOK, HoldsOK, CookiesOK, Holding, At, Idle
<1> QED
  BY <1>3, <1>4, <1>5, <1>6 DEF IInv

LEMMA ProceedKeeps ==
    ASSUME IInv, NEW w \in Handlers, Proceed(w) PROVE IInv'
<1>1. CASE Reuse(w)
  <2>1. account' \in {"active", "inactive", "deleted"}
    BY <1>1 DEF Reuse, IInv, Types
  <2> QED
    BY <1>1, <2>1, EndAllKeeps DEF Reuse, At
<1>2. CASE ResetWrite(w)
  <2>1. account' \in {"active", "inactive", "deleted"}
    BY <1>2 DEF ResetWrite, IInv, Types
  <2> QED
    BY <1>2, <2>1, EndAllKeeps DEF ResetWrite, At
<1>3. CASE RevokeAll(w)
  <2>1. account' \in {"active", "inactive", "deleted"}
    BY <1>3 DEF RevokeAll, IInv, Types
  <2> QED
    BY <1>3, <2>1, EndAllKeeps DEF RevokeAll, At
<1>4. CASE Delete(w)
  BY <1>4, EndAllKeeps DEF Delete, At
<1>5. CASE LoadUser(w) \/ Rotate(w) \/ Logout(w) \/ Issue(w) \/ Answer(w)
  BY <1>5, LoadUserKeeps, RotateKeeps, LogoutKeeps, IssueKeeps, AnswerKeeps
<1>6. CASE ResetRead(w) \/ UserRead(w, "deactivate") \/ UserRead(w, "delete")
  BY <1>6, ElsewhereKeeps DEF ResetRead, UserRead
<1>7. CASE Deactivate(w) \/ FindCode(w) \/ Abort(w)
  BY <1>7, DeactivateKeeps, FindCodeKeeps, AbortKeeps
<1>8. CASE EnrolWrite(w) \/ ConfirmWrite(w) \/ IssueCodes(w) \/ Disable(w) \/ UseCode(w)
  BY <1>8, EnrolWriteKeeps, ConfirmWriteKeeps, IssueCodesKeeps, DisableKeeps, UseCodeKeeps
<1> QED
  BY <1>1, <1>2, <1>3, <1>4, <1>5, <1>6, <1>7, <1>8 DEF Proceed

LEMMA CallFromKeeps ==
    ASSUME IInv, NEW w \in Handlers, NEW b \in Browsers, CallFrom(w, b) PROVE IInv'
  BY RefreshReadKeeps, LoginReadKeeps, LogoutReadKeeps, VerifyReadKeeps, ManageReadKeeps,
     EnrolReadKeeps, ConfirmReadKeeps DEF CallFrom

(* The inductive invariant of the sessions and of the second factor.       *)
THEOREM SessionsInvariance == Spec => []IInv
<1>1. IInv /\ [Next]_vars => IInv'
  <2> SUFFICES ASSUME IInv, [Next]_vars PROVE IInv'
    OBVIOUS
  <2>1. ASSUME NEW w \in Handlers, Proceed(w) PROVE IInv'
    BY <2>1, ProceedKeeps
  <2>2. ASSUME NEW w \in Handlers, NEW b \in Browsers, CallFrom(w, b) PROVE IInv'
    BY <2>2, CallFromKeeps
  <2>3. ASSUME NEW b \in Browsers, LoginChallenge(b) PROVE IInv'
    BY <2>3, OtherSteps DEF LoginChallenge
  <2>4. CASE requestPasswordReset \/ Reactivate
    BY <2>4, OtherSteps DEF requestPasswordReset, Reactivate
  <2>5. CASE UNCHANGED vars
    BY <2>5, OtherSteps DEF vars
  <2> QED
    BY <2>1, <2>2, <2>3, <2>4, <2>5 DEF Next
<1> QED
  BY <1>1, IInvInit, PTL DEF Spec

-----------------------------------------------------------------------------
(* RevokeAllHolds is part of the inductive invariant: after resetPassword, *)
(* updateUser or deactivateUser only what a call in flight issued lives.   *)
THEOREM SessionsEndTogether == Spec => []RevokeAllHolds
<1>1. IInv => RevokeAllHolds
  BY DEF IInv, RevokeOK
<1> QED
  BY <1>1, SessionsInvariance, PTL

(* SecondFactorExplained: enrolment, confirmation, backup codes and        *)
(* disabling agree, unless their calls overlapped or broke off.            *)
THEOREM SecondFactorAgrees == Spec => []SecondFactorExplained
<1>1. IInv => SecondFactorExplained
  BY DEF IInv, FactorOK, SecondFactorExplained
<1> QED
  BY <1>1, SessionsInvariance, PTL

(* SessionsExplained: a session is one chain of tokens (ChainOK), and a    *)
(* cookie that is dead without a cause waits for an answer (CookiesOK).    *)
THEOREM SignOutsHaveACause == Spec => []SessionsExplained
<1>1. IInv => SuccessorsExplained
  <2> SUFFICES ASSUME IInv, NEW t \in Tokens \ overlapped
               PROVE  /\ Cardinality(Successors(t)) <= 1
                      /\ Successors(t) # {} <=> token[t].ended = "rotated"
    BY DEF SuccessorsExplained
  <2>1. CASE token[t].ended = "rotated"
    <3>1. PICK s : Successors(t) = {s}
      BY <2>1 DEF IInv, SessionOK, ChainOK
    <3> QED
      BY <2>1, <3>1, FS_Singleton
  <2>2. CASE token[t].ended # "rotated"
    <3>1. Successors(t) = {}
      BY <2>2 DEF IInv, SessionOK, ChainOK
    <3> QED
      BY <2>2, <3>1, FS_EmptySet
  <2> QED
    BY <2>1, <2>2
<1>2. IInv => SignedOutExplained
  <2> SUFFICES ASSUME IInv, Undisturbed, NEW b \in Browsers
               PROVE  \/ jar[b] = 0 \/ Live(jar[b])
                      \/ \E w \in Handlers : handler[w] # Idle /\ handler[w].browser = b
    BY DEF SignedOutExplained, Undisturbed
  <2> QED
    BY DEF IInv, SessionOK, CookiesOK, At, Idle
<1>3. IInv => SessionsExplained
  BY <1>1, <1>2 DEF SessionsExplained
<1> QED
  BY <1>3, SessionsInvariance, PTL

-----------------------------------------------------------------------------
(***************************************************************************)
(* The query cache of the dashboard, for any number of writes.             *)
(***************************************************************************)

(* Every command of the page that writes the rows of the query, and is not *)
(* one of Unrefreshed, names the query's key or sets its entry.            *)
TellsWrites == \A effect \in Effect[view] :
                 effect.writes /\ ~effect.known => effect.tells \/ effect.sets

CacheTypes ==
    /\ view \in Views
    /\ written \in Nat
    /\ entry \in [data : Nat, fresh : BOOLEAN]
    /\ fetch \in [at : {"idle", "asked", "read"}, data : Nat, tries : Nat, overtaken : BOOLEAN]
    /\ onScreen \in BOOLEAN
    /\ command \in {NoCommand}
         \cup [at : {"sent", "done"}, data : Nat, effects : {{effect} : effect \in Effect[view]}]
    /\ promised \in Nat
    /\ excuse \in {"none", "failed", "overtaken"}

(* Nothing shows a write that was not made, and what the page is about to  *)
(* report is younger than what it reported before.                         *)
NumbersInOrder ==
    /\ promised <= written
    /\ command.at = "done" => promised <= command.data /\ command.data <= written

(* An answer on its way that no write overtook is as young as the promise. *)
AnswerIsYoung ==
    fetch.at = "read" /\ ~fetch.overtaken => promised <= fetch.data

(* An entry behind the promise, for no known reason, is being read, or it  *)
(* is out of date and no page shows it.                                    *)
BehindIsKnown ==
    entry.data < promised /\ excuse = "none" /\ ~InFlight => ~entry.fresh /\ ~onScreen

CacheInv == CacheTypes /\ (TellsWrites => NumbersInOrder /\ AnswerIsYoung /\ BehindIsKnown)

(* The steps keep the types: what is read, written and answered are counts.*)
LEMMA CacheTypesHold ==
    ASSUME CacheTypes, [CacheNext]_cacheVars
    PROVE  CacheTypes'
<1> USE DEF CacheTypes, InFlight, NotAsked, Asked, NoCommand
<1>1. CASE UNCHANGED cacheVars BY <1>1 DEF cacheVars
<1>2. CASE ShowPage BY <1>2 DEF ShowPage
<1>3. CASE HidePage BY <1>3 DEF HidePage
<1>4. CASE GrowStale BY <1>4 DEF GrowStale
<1>5. CASE Reconnect BY <1>5 DEF Reconnect
<1>6. CASE Collect BY <1>6 DEF Collect
<1>7. CASE Read BY <1>7 DEF Read
<1>8. CASE Arrive BY <1>8 DEF Arrive
<1>9. CASE Fail
  <2>1. CASE fetch' = [fetch EXCEPT !.at = "asked", !.data = 0, !.tries = fetch.tries + 1]
             /\ UNCHANGED excuse
    <3>1. /\ fetch' = [at |-> "asked", data |-> 0, tries |-> fetch.tries + 1,
                       overtaken |-> fetch.overtaken]
          /\ excuse' = excuse
      BY <2>1
    <3>2. fetch.tries + 1 \in Nat /\ fetch.overtaken \in BOOLEAN OBVIOUS
    <3> QED BY <1>9, <3>1, <3>2 DEF Fail
  <2>2. CASE fetch' = NotAsked /\ excuse' = "failed"
    BY <1>9, <2>2 DEF Fail
  <2> QED BY <1>9, <2>1, <2>2 DEF Fail
<1>10. CASE Send
  <2>1. PICK effect \in Effect[view] :
          command' = [at |-> "sent", data |-> 0, effects |-> {effect}]
    BY <1>10 DEF Send
  <2> QED BY <1>10, <2>1 DEF Send
<1>11. CASE Perform
  <2>1. PICK effect \in Effect[view] : command.effects = {effect}
    BY <1>11 DEF Perform
  <2>2. IF effect.writes THEN Write ELSE UNCHANGED written
    BY <1>11, <2>1 DEF Perform
  <2>3. written' \in Nat BY <2>2 DEF Write
  <2>4. command' = [at |-> "done", data |-> written', effects |-> {effect}]
    BY <1>11, <2>1 DEF Perform
  <2> QED BY <1>11, <2>3, <2>4 DEF Perform
<1>12. CASE Succeed
  <2>1. PICK effect \in Effect[view] : command.effects = {effect}
    BY <1>12 DEF Succeed
  <2>2. command.data \in Nat /\ command' = NoCommand
    BY <1>12 DEF Succeed
  <2>3. promised' \in Nat BY <1>12, <2>1, <2>2 DEF Succeed
  <2>4. entry' \in [data : Nat, fresh : BOOLEAN]
        /\ fetch' \in [at : {"idle", "asked", "read"}, data : Nat, tries : Nat,
                      overtaken : BOOLEAN]
    <3>1. CASE setQueryData BY <2>2, <3>1 DEF setQueryData
    <3>2. CASE invalidate BY <3>2 DEF invalidate
    <3>3. CASE UNCHANGED <<entry, fetch>> BY <3>3
    <3> QED BY <1>12, <2>1, <3>1, <3>2, <3>3 DEF Succeed
  <2> QED BY <1>12, <2>2, <2>3, <2>4 DEF Succeed
<1>13. CASE NotSucceed BY <1>13 DEF NotSucceed
<1>14. CASE WriteElsewhere BY <1>14 DEF WriteElsewhere, Write
<1> QED BY <1>1, <1>2, <1>3, <1>4, <1>5, <1>6, <1>7, <1>8, <1>9, <1>10, <1>11,
           <1>12, <1>13, <1>14 DEF CacheNext

(* What a step of the promise rests on: writes only add, and a command     *)
(* reports the writes there were when it was performed.                    *)
LEMMA NumbersStayInOrder ==
    ASSUME CacheTypes, NumbersInOrder, [CacheNext]_cacheVars
    PROVE  NumbersInOrder'
<1> USE DEF CacheTypes, NumbersInOrder, NoCommand
<1>1. CASE UNCHANGED cacheVars BY <1>1 DEF cacheVars
<1>2. CASE ShowPage \/ HidePage \/ GrowStale \/ Reconnect \/ Collect \/ Read \/ Arrive \/ Fail
  BY <1>2 DEF ShowPage, HidePage, GrowStale, Reconnect, Collect, Read, Arrive, Fail
<1>3. CASE Send BY <1>3 DEF Send
<1>4. CASE Perform
  <2>1. PICK effect \in Effect[view] : command.effects = {effect}
    BY <1>4 DEF Perform
  <2>2. written' \in Nat /\ written <= written'
    BY <1>4, <2>1 DEF Perform, Write
  <2> QED BY <1>4, <2>2 DEF Perform
<1>5. CASE Succeed BY <1>5 DEF Succeed
<1>6. CASE NotSucceed BY <1>6 DEF NotSucceed
<1>7. CASE WriteElsewhere BY <1>7 DEF WriteElsewhere, Write
<1> QED BY <1>1, <1>2, <1>3, <1>4, <1>5, <1>6, <1>7 DEF CacheNext

(* A command that raises the promise either restarts the read, or marks it *)
(* overtaken, or sets the entry; and the entry is read again, if shown.    *)
LEMMA PromiseIsKept ==
    ASSUME CacheTypes, TellsWrites, NumbersInOrder, AnswerIsYoung, BehindIsKnown,
           [CacheNext]_cacheVars
    PROVE  AnswerIsYoung' /\ BehindIsKnown'
<1> USE DEF CacheTypes, NumbersInOrder, AnswerIsYoung, BehindIsKnown, InFlight, NotAsked,
            Asked, NoCommand
<1>1. CASE UNCHANGED cacheVars BY <1>1 DEF cacheVars
<1>2. CASE ShowPage BY <1>2 DEF ShowPage
<1>3. CASE HidePage BY <1>3 DEF HidePage
<1>4. CASE GrowStale BY <1>4 DEF GrowStale
<1>5. CASE Reconnect BY <1>5 DEF Reconnect
<1>6. CASE Collect BY <1>6 DEF Collect
<1>7. CASE Read BY <1>7 DEF Read
<1>8. CASE Arrive BY <1>8 DEF Arrive
<1>9. CASE Fail
  <2>1. CASE fetch' = [fetch EXCEPT !.at = "asked", !.data = 0, !.tries = fetch.tries + 1]
             /\ UNCHANGED excuse
    BY <1>9, <2>1 DEF Fail
  <2>2. CASE fetch' = NotAsked /\ excuse' = "failed"
    BY <1>9, <2>2 DEF Fail
  <2> QED BY <1>9, <2>1, <2>2 DEF Fail
<1>10. CASE Send BY <1>10 DEF Send
<1>11. CASE Perform BY <1>11 DEF Perform
<1>12. CASE Succeed
  <2>1. PICK effect \in Effect[view] : command.effects = {effect}
    BY <1>12 DEF Succeed
  <2>2. /\ promised' = IF effect.writes /\ ~effect.known THEN command.data ELSE promised
        /\ IF effect.sets THEN setQueryData
           ELSE IF effect.tells THEN invalidate ELSE UNCHANGED <<entry, fetch>>
        /\ onScreen' = onScreen /\ excuse' = excuse
    BY <1>12, <2>1 DEF Succeed
  <2>3. promised <= command.data /\ command.data \in Nat
    BY <1>12 DEF Succeed
  <2>4. CASE effect.sets
    <3>1. entry' = [data |-> command.data, fresh |-> TRUE]
          /\ fetch' = [fetch EXCEPT !.overtaken = InFlight]
      BY <2>2, <2>4 DEF setQueryData
    <3>2. promised' <= command.data BY <2>2, <2>3
    <3>3. entry'.data = command.data BY <3>1
    <3>4. BehindIsKnown' BY <3>2, <3>3, <2>3, <2>2
    <3>5. AnswerIsYoung' BY <3>1
    <3> QED BY <3>4, <3>5
  <2>5. CASE ~effect.sets /\ effect.tells BY <2>2, <2>3, <2>5 DEF invalidate
  <2>6. CASE ~effect.sets /\ ~effect.tells
    <3>1. promised' = promised BY <2>2, <2>6 DEF TellsWrites
    <3> QED BY <2>2, <2>6, <3>1
  <2> QED BY <2>4, <2>5, <2>6
<1>13. CASE NotSucceed BY <1>13 DEF NotSucceed
<1>14. CASE WriteElsewhere BY <1>14 DEF WriteElsewhere
<1> QED BY <1>1, <1>2, <1>3, <1>4, <1>5, <1>6, <1>7, <1>8, <1>9, <1>10, <1>11,
           <1>12, <1>13, <1>14 DEF CacheNext

(* The page and the query stay the same, and so do its commands.           *)
LEMMA CommandsStay == ASSUME [CacheNext]_cacheVars PROVE TellsWrites' => TellsWrites
<1>1. view' = view
  BY DEF CacheNext, cacheVars, ShowPage, HidePage, GrowStale, Reconnect, Collect, Read,
         Arrive, Fail, Send, Perform, Succeed, NotSucceed, WriteElsewhere
<1> QED BY <1>1 DEF TellsWrites

(* CacheInv is an invariant of the cache, whatever the pages are.          *)
THEOREM CacheInvariance == CacheSpec => []CacheInv
<1>1. CacheInit => CacheInv
  <2> SUFFICES ASSUME CacheInit PROVE CacheInv
    OBVIOUS
  <2>1. CacheTypes BY DEF CacheInit, CacheTypes, NotAsked, NoCommand
  <2>2. NumbersInOrder BY DEF CacheInit, NumbersInOrder, NoCommand
  <2>3. AnswerIsYoung BY DEF CacheInit, AnswerIsYoung, NotAsked
  <2>4. BehindIsKnown BY DEF CacheInit, BehindIsKnown
  <2> QED BY <2>1, <2>2, <2>3, <2>4 DEF CacheInv
<1>2. CacheInv /\ [CacheNext]_cacheVars => CacheInv'
  BY CacheTypesHold, NumbersStayInOrder, PromiseIsKept, CommandsStay DEF CacheInv
<1> QED BY <1>1, <1>2, PTL DEF CacheSpec

(* A page shows what it said was saved, for any number of writes and       *)
(* whatever the tables of pages and hooks contain: a query each of whose   *)
(* writers on the page names its key is shown at least as it was promised, *)
(* once nothing is being read, or a read failed or was overtaken.  That    *)
(* the pages of the dashboard are such (every view has TellsWrites) is     *)
(* what the run Dashboard shows of their tables: it begins in every view.  *)
THEOREM PagesReadTheirWrites == CacheSpec => [](TellsWrites => ReadsOwnWrites)
<1>1. CacheInv => (TellsWrites => ReadsOwnWrites)
  BY DEF CacheInv, BehindIsKnown, ReadsOwnWrites
<1> QED BY <1>1, CacheInvariance, PTL

-----------------------------------------------------------------------------
(***************************************************************************)
(* What the dashboard offers and what the API refuses (ConsoleAccess).     *)
(* The tables of pages, routes and roles enter by TablesAgree only.        *)
(***************************************************************************)
AccessTypes ==
    /\ signedIn \in Users /\ me \in Users
    /\ address \in DOMAIN App

AccessInv == AccessTypes /\ RefusalsExplained

(* The right that opens a module is the one its page asks for.             *)
LEMMA ReadersMayEnter ==
    ASSUME NEW user, NEW key \in MODULES, Reads(user, ModuleArea(key))
    PROVE  ModulePath(key) \in DOMAIN App /\ RequirePermission(user, ModulePath(key))
<1>1. /\ ModulePath(key) \in DOMAIN App
      /\ App[ModulePath(key)].guard = {<<ModuleArea(key), "read">>}
  BY TablesAgree DEF LinksLead
<1>2. <<ModuleArea(key), "read">> \in Held(user)
  BY DEF Reads, hasPermission
<1> QED
  BY <1>1, <1>2 DEF RequirePermission

(* What the seed gives along with rights that are held is held.            *)
LEMMA AlongIsHeld ==
    ASSUME NEW user \in Users, NEW rights, rights \subseteq Held(user)
    PROVE  Along(rights) \subseteq Held(user)
<1> SUFFICES ASSUME NEW p \in Along(rights) PROVE p \in Held(user)
  OBVIOUS
<1>1. PICK right \in rights : \A role \in Role : right \in RightsOf[role] => p \in RightsOf[role]
  BY DEF Along
<1>2. PICK role \in user.roles : right \in RightsOf[role]
  BY <1>1 DEF Held
<1>3. role \in Role
  BY HoldingsAreRoles DEF Users
<1> QED
  BY <1>1, <1>2, <1>3 DEF Held

(* Whoever is offered a quick action may see the page it leads to.         *)
LEMMA CreatorsMayEnter ==
    ASSUME NEW user \in Users,
           NEW key \in {"projects", "tasks", "clients", "invoices", "employees",
                        "documents", "tickets"},
           hasPermission(user, <<key, "create">>)
    PROVE  key \in MODULES /\ Reads(user, ModuleArea(key))
<1>1. key \in MODULES /\ ModuleArea(key) = key
  BY DEF MODULES, ModuleArea, PortalModules
<1>3. {<<key, "create">>} \subseteq Held(user)
  BY DEF hasPermission
<1>4. <<key, "read">> \in Along({<<key, "create">>})
  BY <1>1, TablesAgree DEF CreatorsRead, PERMISSIONS
<1> QED
  BY <1>1, <1>3, <1>4, AlongIsHeld DEF Reads, hasPermission

(* The frame of a page links only to what the account may see.             *)
LEMMA FrameLinks ==
    ASSUME NEW user, NEW to \in AppShell(user)
    PROVE  to \in DOMAIN App /\ RequirePermission(user, to)
<1>1. CASE to \in {"/", "/profile"}
  BY <1>1, TablesAgree DEF LinksLead, RequirePermission
<1>2. CASE to = "/notifications" /\ Reads(user, "notifications")
  BY <1>2, TablesAgree DEF LinksLead, RequirePermission, Reads, hasPermission
<1>3. CASE to \in visibleNavGroups(user)
  <2>1. to \in WEBSITE_ITEMS \cup OPERATIONS_ITEMS \cup PORTAL_ITEMS /\ RequirePermission(user, to)
    BY <1>3 DEF visibleNavGroups, permitted
  <2> QED
    BY <2>1, TablesAgree DEF LinksLead
<1> QED
  BY <1>1, <1>2, <1>3 DEF AppShell

(* Whatever the overview, the first page links to pages.                   *)
LEMMA OverviewNamesModules ==
    ASSUME NEW user
    PROVE  LET data == getDashboardOverview(user)
           IN  /\ data # Loading
               /\ \A key \in data.kpis : key \in MODULES /\ Reads(user, ModuleArea(key))
               /\ \A to \in data.upcoming : \E key \in MODULES :
                    to = ModulePath(key) /\ Reads(user, ModuleArea(key))
<1> DEFINE data == getDashboardOverview(user)
<1> SUFFICES /\ data # Loading
             /\ \A key \in data.kpis : key \in MODULES /\ Reads(user, ModuleArea(key))
             /\ \A to \in data.upcoming : \E key \in MODULES :
                  to = ModulePath(key) /\ Reads(user, ModuleArea(key))
  OBVIOUS
<1>1. \A keys : \A key \in readable(user, keys) : key \in keys /\ Reads(user, ModuleArea(key))
  BY DEF readable
<1>2. /\ {"projects", "tasks", "leads", "clients", "tickets", "invoices"} \subseteq MODULES
      /\ {"projects", "milestones", "tasks", "leave"} \subseteq MODULES
      /\ PortalModules \cup {"tickets", "invoices", "documents"} \subseteq MODULES
  BY DEF MODULES, PortalModules
<1>3. \A portal \in BOOLEAN : \A to \in listUpcoming(user, portal) : \E key \in MODULES :
         to = ModulePath(key) /\ Reads(user, ModuleArea(key))
  BY <1>1, <1>2 DEF listUpcoming
<1>4. data = getPortalOverview(user) \/ data = getInternalOverview(user)
  BY DEF getDashboardOverview
<1>5. CASE data = getPortalOverview(user)
  <2>1. data.surface = "portal"
    BY <1>5 DEF getPortalOverview
  <2>2. \A key \in data.kpis : key \in MODULES /\ Reads(user, ModuleArea(key))
    BY <1>1, <1>2, <1>5 DEF getPortalOverview
  <2>3. data.upcoming = {path \in listUpcoming(user, TRUE) : user.client}
    BY <1>5 DEF getPortalOverview
  <2> HIDE DEF data
  <2>4. data # Loading
    BY <2>1 DEF Loading
  <2> QED
    BY <1>3, <2>2, <2>3, <2>4
<1>6. CASE data = getInternalOverview(user)
  <2>1. data.surface = "internal" /\ data.upcoming = listUpcoming(user, FALSE)
    BY <1>6 DEF getInternalOverview
  <2>2. \A key \in data.kpis : key \in MODULES /\ Reads(user, ModuleArea(key))
    BY <1>1, <1>2, <1>6 DEF getInternalOverview
  <2> HIDE DEF data
  <2>3. data # Loading
    BY <2>1 DEF Loading
  <2> QED
    BY <1>3, <2>1, <2>2, <2>3
<1> QED
  BY <1>4, <1>5, <1>6

(* A card of a module, by the account; whatever the overview.              *)
LEMMA CardLinks ==
    ASSUME NEW user, NEW data, NEW to \in moduleCards(user, data)
    PROVE  to \in DOMAIN App /\ RequirePermission(user, to)
<1>1. PICK key \in MODULES : to = ModulePath(key) /\ Reads(user, ModuleArea(key))
  BY DEF moduleCards, readable
<1> QED
  BY <1>1, ReadersMayEnter

LEMMA QuickLinks ==
    ASSUME NEW user \in Users, NEW to \in quickActions(user)
    PROVE  to \in DOMAIN App /\ RequirePermission(user, to)
<1>1. PICK key \in {"projects", "tasks", "clients", "invoices", "employees", "documents",
                    "tickets"} :
         to = ModulePath(key) /\ hasPermission(user, <<key, "create">>)
  BY DEF quickActions
<1> QED
  BY <1>1, CreatorsMayEnter, ReadersMayEnter

(* A link drawn from an overview is one its own user may follow.           *)
LEMMA OverviewLinks ==
    ASSUME NEW user,
           NEW to \in {ModulePath(key) : key \in getDashboardOverview(user).kpis}
                        \cup ViewAll(getDashboardOverview(user))
                        \cup getDashboardOverview(user).upcoming
    PROVE  to \in DOMAIN App /\ RequirePermission(user, to)
<1> DEFINE data == getDashboardOverview(user)
<1>1. /\ data # Loading
      /\ \A key \in data.kpis : key \in MODULES /\ Reads(user, ModuleArea(key))
      /\ \A link \in data.upcoming : \E key \in MODULES :
            link = ModulePath(key) /\ Reads(user, ModuleArea(key))
  BY OverviewNamesModules
<1> HIDE DEF data
<1>2. \A link \in ViewAll(data) : \E key \in data.kpis : link = ModulePath(key)
  BY <1>1 DEF ViewAll
<1>3. PICK key \in MODULES : to = ModulePath(key) /\ Reads(user, ModuleArea(key))
  BY <1>1, <1>2 DEF data
<1> QED
  BY <1>3, ReadersMayEnter

(* The links of the first page lead to pages; and where the overview is    *)
(* that of the account, to pages the account may see.                      *)
LEMMA FirstPageLinks ==
    ASSUME me \in Users, NEW to \in dashboardLinks(me, Data)
    PROVE  /\ to \in DOMAIN App
           /\ overview = {me} => RequirePermission(me, to)
<1>1. CASE to \in moduleCards(me, Data) \cup quickActions(me)
  BY <1>1, CardLinks, QuickLinks
<1>2. CASE overview = {} /\ to \notin moduleCards(me, Data) \cup quickActions(me)
  <2>1. Data = Loading /\ Loading.kpis = {} /\ Loading.upcoming = {}
    BY <1>2 DEF Data, Loading
  <2>2. to \in {"/projects", "/tasks"}
    BY <1>2, <2>1 DEF dashboardLinks, ViewAll
  <2>3. to \in OPERATIONS_ITEMS
    BY <2>2 DEF OPERATIONS_ITEMS
  <2>4. me \notin overview
    BY <1>2
  <2> QED
    BY <2>3, <2>4, TablesAgree DEF LinksLead
<1>3. CASE overview # {} /\ to \notin moduleCards(me, Data) \cup quickActions(me)
  <2> DEFINE user == CHOOSE u \in overview : TRUE
  <2>1. Data = getDashboardOverview(user)
    BY <1>3 DEF Data
  <2>2. to \in DOMAIN App /\ RequirePermission(user, to)
    BY <1>3, <2>1, OverviewLinks DEF dashboardLinks
  <2>3. overview = {me} => user = me
    OBVIOUS
  <2> QED
    BY <2>2, <2>3
<1> QED
  BY <1>1, <1>2, <1>3

(* A link of the screen is refused only on the first page, for what the    *)
(* overview is.                                                            *)
LEMMA FollowExplained ==
    ASSUME AccessTypes, NEW to \in Links, Follow(to)
    PROVE  AccessInv'
<1>1. UNCHANGED <<signedIn, me>> /\ address' = ProtectedRoute(to)
  BY DEF Follow
<1>2. me \in Users
  BY DEF AccessTypes
<1>3. CASE address' = "/profile"
  <2>1. address' \in DOMAIN App /\ RequirePermission(me, address')
    BY <1>3, TablesAgree DEF LinksLead, RequirePermission
  <2>2. refusal' = NoRefusal
    BY <2>1 DEF Follow
  <2> QED
    BY <1>1, <2>1, <2>2 DEF AccessInv, AccessTypes, RefusalsExplained
<1>4. CASE address' = to
  <2>1. CASE to \in AppShell(me)
    <3>1. to \in DOMAIN App /\ RequirePermission(me, to)
      BY <2>1, FrameLinks
    <3>2. refusal' = NoRefusal
      BY <1>4, <3>1 DEF Follow
    <3> QED
      BY <1>1, <1>4, <3>1, <3>2 DEF AccessInv, AccessTypes, RefusalsExplained
  <2>2. CASE RequirePermission(me, address) /\ to \in linksIn(address)
    <3>1. to \in DOMAIN App /\ App[to].guard \subseteq App[address].guard
      BY <2>2, TablesAgree DEF LinksLead, AccessTypes
    <3>2. RequirePermission(me, to)
      BY <2>2, <3>1 DEF RequirePermission
    <3>3. refusal' = NoRefusal
      BY <1>4, <3>2 DEF Follow
    <3> QED
      BY <1>1, <1>4, <3>1, <3>3 DEF AccessInv, AccessTypes, RefusalsExplained
  <2>3. CASE address = "/" /\ to \in dashboardLinks(me, Data)
    <3>1. to \in DOMAIN App /\ (overview = {me} => RequirePermission(me, to))
      BY <1>2, <2>3, FirstPageLinks
    <3> DEFINE why == {w \in {"overviewOlder", "overviewLoading"} :
                         IF w = "overviewLoading" THEN address = "/" /\ overview = {}
                         ELSE address = "/" /\ overview \notin {{}, {me}}}
    <3>2. refusal' = IF RequirePermission(me, to) THEN NoRefusal ELSE [what |-> to, why |-> why]
      BY <1>4 DEF Follow
    <3>3. ~RequirePermission(me, to) => why # {}
      <4> SUFFICES ASSUME ~RequirePermission(me, to) PROVE why # {}
        OBVIOUS
      <4>1. overview = {} \/ overview \notin {{}, {me}}
        BY <3>1
      <4>2. "overviewLoading" \in why \/ "overviewOlder" \in why
        BY <2>3, <4>1
      <4> QED
        BY <4>2
    <3> HIDE DEF why
    <3>4. RefusalsExplained'
      BY <3>2, <3>3 DEF RefusalsExplained
    <3> QED
      BY <1>1, <1>4, <3>1, <3>4 DEF AccessInv, AccessTypes
  <2> QED
    BY <2>1, <2>2, <2>3 DEF Links
<1> QED
  BY <1>1, <1>3, <1>4 DEF ProtectedRoute

(* What the page offers the account may do, if the API still thinks so.    *)
LEMMA AskExplained ==
    ASSUME AccessTypes, NEW thing \in Offered, Ask(thing)
    PROVE  AccessInv'
<1> DEFINE call == thing.does.call
           why == {w \in {"rightsLost", "notAskedFor"} :
                     IF w = "rightsLost" THEN Admits(call, Held(me)) ELSE call \in Unasked}
<1>1. /\ App[address].guard \cup thing.gate \subseteq Held(me)
      /\ thing \in App[address].page.shows \cup App[address].page.offers
  BY DEF Offered, RequirePermission
<1>2. call \in Unasked \/ Admits(call, Along(App[address].guard \cup thing.gate))
  BY <1>1, TablesAgree DEF PagesAskFirst, AccessTypes
<1>3. call \in Unasked \/ Admits(call, Held(me))
  <2>1. Along(App[address].guard \cup thing.gate) \subseteq Held(me)
    BY <1>1, AlongIsHeld DEF AccessTypes
  <2> QED
    BY <1>2, <2>1 DEF Admits, authorize
<1>4. why # {}
  <2>1. "rightsLost" \in why \/ "notAskedFor" \in why
    BY <1>3
  <2> QED
    BY <2>1
<1>5. refusal' = NoRefusal \/ refusal' = [what |-> "call", why |-> why]
  BY DEF Ask
<1> HIDE DEF why
<1>6. RefusalsExplained'
  BY <1>4, <1>5 DEF RefusalsExplained
<1> QED
  BY <1>6 DEF AccessInv, AccessTypes, Ask

(* AccessInv is an invariant of the dashboard, whichever sets of roles are *)
(* given out and however often they change.                                *)
THEOREM AccessInvariance == AccessSpec => []AccessInv
<1>1. AccessInit => AccessInv
  BY TablesAgree DEF LinksLead, AccessInit, AccessInv, AccessTypes, RefusalsExplained
<1>2. AccessInv /\ [AccessNext]_accessVars => AccessInv'
  <2> SUFFICES ASSUME AccessInv, [AccessNext]_accessVars PROVE AccessInv'
    OBVIOUS
  <2> USE DEF AccessInv, AccessTypes
  <2>1. CASE UNCHANGED accessVars
    BY <2>1 DEF accessVars, RefusalsExplained
  <2>2. CASE updateUser
    <3>1. signedIn' \in Users
      BY <2>2 DEF updateUser, Users
    <3> QED
      BY <2>2, <3>1 DEF updateUser, RefusalsExplained
  <2>3. CASE SignInAgain
    BY <2>3, TablesAgree DEF SignInAgain, RefusalsExplained, LinksLead
  <2>4. CASE ReadAccount
    BY <2>4, TablesAgree DEF ReadAccount, RefusalsExplained, LinksLead
  <2>5. CASE ReadOverview
    BY <2>5 DEF ReadOverview, RefusalsExplained
  <2>6. CASE DropOverview
    BY <2>6 DEF DropOverview, RefusalsExplained
  <2>7. CASE Enrol
    BY <2>7 DEF Enrol, RefusalsExplained
  <2>8. ASSUME NEW to \in DOMAIN App, Load(to) PROVE AccessInv'
    BY <2>8, TablesAgree DEF Load, RefusalsExplained, LinksLead
  <2>9. ASSUME NEW to \in Links, Follow(to) PROVE AccessInv'
    BY <2>9, FollowExplained
  <2>10. ASSUME NEW thing \in Offered, Ask(thing) PROVE AccessInv'
    BY <2>10, AskExplained
  <2> QED
    BY <2>1, <2>2, <2>3, <2>4, <2>5, <2>6, <2>7, <2>8, <2>9, <2>10 DEF AccessNext
<1> QED
  BY <1>1, <1>2, PTL DEF AccessSpec

(* Nobody is led to what they may not have: a link the dashboard draws or  *)
(* a thing it offers is refused only because the user lost the right since *)
(* the account was read, because the overview is missing or somebody       *)
(* else's, or because the call is one the engineering pages do not ask     *)
(* for; for every set of roles an administrator may give a user.           *)
THEOREM RefusalsAreExplained == AccessSpec => []RefusalsExplained
BY AccessInvariance, PTL DEF AccessInv

=============================================================================
