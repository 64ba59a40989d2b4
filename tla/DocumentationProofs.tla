------------------------ MODULE DocumentationProofs ------------------------
(***************************************************************************)
(* Proofs about a project document for any number of callers, versions,    *)
(* lines and tasks.                                                        *)
(*                                                                         *)
(* The history is true because a call that still has the newest version    *)
(* open also knows the newest state (CallTrue): only a write changes the   *)
(* state, and it makes a version.  Proposals are unique because what a     *)
(* call has found missing is missing still, unless another call has        *)
(* proposed since or a title was given by hand (InsertTrue).               *)
(***************************************************************************)
EXTENDS Documentation, SequenceTheorems, TLAPS

(* Somebody approved these lines.                                          *)
Approved(lines, vs) ==
    \E n \in DOMAIN vs : vs[n].status = "APPROVED" /\ lines \subseteq vs[n].content

After(status) == IF status = "APPROVED" THEN "DRAFT" ELSE status

(* What call h knows of row d and its versions vs.                         *)
CallTrue(h, d, vs) ==
    /\ h.step \in {"open", "update", "status", "delete"} => d # NoDoc
    /\ h.step = "update" /\ h.seen = d.version => d.status # "ARCHIVED" /\ h.to = After(d.status)
    /\ h.step \in {"open", "update"} => h.seen <= d.version
    /\ h.step = "status" => <<h.old, h.to>> \in allowed
    /\ h.step \in {"find", "insert"} => Approved(h.lines, vs)

InsertTrue(h, proposed, dbl) == h.step = "insert" /\ h.fresh => h.lines \cap proposed \subseteq dbl

CallsTrue ==
    \A w \in Handlers :
        CallTrue(handler[w], doc, versions) /\ InsertTrue(handler[w], Proposed, doubled)

FirstIsDraft == versions # <<>> => versions[1].status = "DRAFT"

IInv ==
    /\ TypeOK
    /\ doc = NoDoc => versions = <<>>
    /\ HistoryTrue /\ FirstIsDraft
    /\ CallsTrue
    /\ ProposalsExplained

-----------------------------------------------------------------------------
LEMMA NoDocIsNone == ASSUME NEW d \in Doc PROVE d # NoDoc
<1>1. d.status \in Status /\ NoDoc.status = "NONE"
  BY DEF Doc, NoDoc
<1>2. d.status # NoDoc.status
  BY <1>1 DEF Status
<1> QED
  BY <1>2

LEMMA NoTaskIsNone == ASSUME NEW x \in Task PROVE x # NoTask
<1>1. DOMAIN x = {"line", "title", "live", "linked"} /\ DOMAIN NoTask = {"live"}
  BY DEF Task, NoTask
<1>2. "line" \in DOMAIN x /\ "line" \notin DOMAIN NoTask
  BY <1>1
<1> QED
  BY <1>2

(* Calls by their step.                                                    *)
LEMMA CallShape ==
    ASSUME NEW h \in Call \cup {Idle}
    PROVE  /\ h.step = "open" => h \in [step : {"open"}, seen : 1..MaxVersion]
           /\ h.step \in {"update", "status"} =>
                 h \in [step : {"update", "status"}, seen : 1..MaxVersion, old : Status, to : Status,
                        content : Content]
           /\ h.step \in {"find", "insert"} =>
                 h \in [step : {"find", "insert"}, lines : SUBSET Lines, fresh : BOOLEAN]
           /\ h.step \in {"idle", "open", "update", "status", "delete", "find", "insert"}
           /\ h = Idle <=> h.step = "idle"
  BY DEF Call, Idle

(* Only the call of w moves.                                               *)
Calls(w, h) ==
    /\ handler' = [handler EXCEPT ![w] = h]
    /\ h \in Call \cup {Idle}

LEMMA CallIs ==
    ASSUME TypeOK, NEW w \in Handlers, NEW h, Calls(w, h)
    PROVE  /\ handler'[w] = h /\ \A v \in Handlers \ {w} : handler'[v] = handler[v]
           /\ handler' \in [Handlers -> Call \cup {Idle}]
  BY DEF TypeOK, Calls

(* A step of a call that only reads.                                       *)
LEMMA ReadKeeps ==
    ASSUME IInv, NEW w \in Handlers, NEW h, Calls(w, h),
           CallTrue(h, doc, versions), InsertTrue(h, Proposed, doubled),
           UNCHANGED <<doc, versions, task, doubled>>
    PROVE  IInv'
<1>1. handler'[w] = h /\ (\A v \in Handlers \ {w} : handler'[v] = handler[v])
      /\ handler' \in [Handlers -> Call \cup {Idle}]
  BY CallIs DEF IInv
<1>2. TypeOK'
  BY <1>1 DEF IInv, TypeOK
<1>3. Proposed' = Proposed /\ Tasks' = Tasks
  BY DEF Proposed, Tasks
<1>4. CallsTrue'
  BY <1>1, <1>3 DEF IInv, CallsTrue
<1>5. HistoryTrue' /\ FirstIsDraft' /\ (doc' = NoDoc => versions' = <<>>)
  BY DEF IInv, HistoryTrue, FirstIsDraft
<1>6. ProposalsExplained'
  BY <1>3 DEF IInv, ProposalsExplained
<1> QED
  BY <1>2, <1>4, <1>5, <1>6 DEF IInv

LEMMA IdleKeeps ==
    ASSUME IInv, NEW w \in Handlers, Finish(w), UNCHANGED <<doc, versions, task, doubled>>
    PROVE  IInv'
<1>1. PICK h : h = Idle
  OBVIOUS
<1>2. Calls(w, h) /\ h.step = "idle"
  BY <1>1 DEF Calls, Finish, Idle
<1>3. CallTrue(h, doc, versions) /\ InsertTrue(h, Proposed, doubled)
  BY <1>2 DEF CallTrue, InsertTrue
<1> QED
  BY <1>2, <1>3, ReadKeeps

(* The row as it is, for a call that reads it.                             *)
LEMMA RowShape ==
    ASSUME IInv, Exists
    PROVE  /\ doc \in Doc /\ doc # NoDoc
           /\ doc.status \in Status /\ doc.content \in Content /\ doc.version \in 1..MaxVersion
           /\ doc.version \in DOMAIN versions
           /\ versions[doc.version].status = doc.status /\ versions[doc.version].content = doc.content
<1>1. doc \in Doc /\ doc # NoDoc /\ Len(versions) = doc.version
      /\ versions[doc.version].status = doc.status /\ versions[doc.version].content = doc.content
  BY DEF IInv, TypeOK, Exists, HistoryTrue
<1>2. doc.status \in Status /\ doc.content \in Content /\ doc.version \in 1..MaxVersion
  BY <1>1 DEF Doc
<1>3. DOMAIN versions = 1..Len(versions)
  BY LenProperties DEF IInv, TypeOK
<1> QED
  BY <1>1, <1>2, <1>3

LEMMA OpenKeeps ==
    ASSUME IInv, NEW w \in Handlers, Open(w) PROVE IInv'
<1>1. PICK h : h = [step |-> "open", seen |-> doc.version]
  OBVIOUS
<1>2. doc # NoDoc /\ doc.version \in 1..MaxVersion
  BY RowShape DEF Open
<1>3. h.step = "open" /\ h.seen = doc.version /\ h \in Call
  BY <1>1, <1>2 DEF Call
<1>4. Calls(w, h) /\ UNCHANGED <<doc, versions, task, doubled>>
  BY <1>1, <1>3 DEF Open, Calls
<1>5. CallTrue(h, doc, versions) /\ InsertTrue(h, Proposed, doubled)
  BY <1>2, <1>3 DEF CallTrue, InsertTrue
<1> QED
  BY <1>4, <1>5, ReadKeeps

LEMMA UpdateReadKeeps ==
    ASSUME IInv, NEW w \in Handlers, NEW c \in Content, UpdateRead(w, c) PROVE IInv'
<1>1. PICK h : h = [step |-> "update", seen |-> handler[w].seen, old |-> doc.status, content |-> c,
                    to |-> IF doc.status = "APPROVED" THEN "DRAFT" ELSE doc.status]
  OBVIOUS
<1>2. doc # NoDoc /\ doc.status \in Status /\ doc.status # "ARCHIVED" /\ handler[w].step = "open"
  BY RowShape DEF UpdateRead, At
<1>3. handler[w].seen \in 1..MaxVersion /\ handler[w].seen <= doc.version
  <2>1. handler[w] \in Call \cup {Idle} /\ CallTrue(handler[w], doc, versions)
    BY DEF IInv, TypeOK, CallsTrue
  <2>2. handler[w] \in [step : {"open"}, seen : 1..MaxVersion]
    BY <1>2, <2>1, CallShape
  <2> QED
    BY <1>2, <2>1, <2>2 DEF CallTrue
<1>4. /\ h.step = "update" /\ h.seen = handler[w].seen /\ h.to = After(doc.status)
      /\ h.old = doc.status /\ h.content = c
  BY <1>1 DEF After
<1>5. h \in Call
  BY <1>1, <1>2, <1>3 DEF Call, Status
<1>6. Calls(w, h) /\ UNCHANGED <<doc, versions, task, doubled>>
  BY <1>1, <1>5 DEF UpdateRead, Calls
<1>7. CallTrue(h, doc, versions) /\ InsertTrue(h, Proposed, doubled)
  BY <1>2, <1>3, <1>4 DEF CallTrue, InsertTrue
<1> QED
  BY <1>6, <1>7, ReadKeeps

LEMMA StatusReadKeeps ==
    ASSUME IInv, NEW w \in Handlers, NEW to \in Status, StatusRead(w, to) PROVE IInv'
<1>1. PICK h : h = [step |-> "status", seen |-> handler[w].seen, old |-> doc.status,
                    content |-> doc.content, to |-> to]
  OBVIOUS
<1>2. /\ doc # NoDoc /\ doc.status \in Status /\ doc.content \in Content
      /\ <<doc.status, to>> \in allowed /\ handler[w].step = "open"
  BY RowShape DEF StatusRead, At
<1>3. handler[w].seen \in 1..MaxVersion
  <2>1. handler[w] \in Call \cup {Idle}
    BY DEF IInv, TypeOK
  <2> QED
    BY <1>2, <2>1, CallShape
<1>4. h.step = "status" /\ h.old = doc.status /\ h.to = to /\ h \in Call
  BY <1>1, <1>2, <1>3 DEF Call
<1>5. Calls(w, h) /\ UNCHANGED <<doc, versions, task, doubled>>
  BY <1>1, <1>4 DEF StatusRead, Calls
<1>6. CallTrue(h, doc, versions) /\ InsertTrue(h, Proposed, doubled)
  BY <1>2, <1>4 DEF CallTrue, InsertTrue
<1> QED
  BY <1>5, <1>6, ReadKeeps

LEMMA DeleteReadKeeps ==
    ASSUME IInv, NEW w \in Handlers, DeleteRead(w) PROVE IInv'
<1>1. PICK h : h = [step |-> "delete"]
  OBVIOUS
<1>2. h.step = "delete" /\ h \in Call /\ doc # NoDoc
  BY <1>1 DEF Call, DeleteRead, Exists
<1>3. Calls(w, h) /\ UNCHANGED <<doc, versions, task, doubled>>
  BY <1>1, <1>2 DEF DeleteRead, Calls
<1>4. CallTrue(h, doc, versions) /\ InsertTrue(h, Proposed, doubled)
  BY <1>2 DEF CallTrue, InsertTrue
<1> QED
  BY <1>3, <1>4, ReadKeeps

LEMMA ProposeReadKeeps ==
    ASSUME IInv, NEW w \in Handlers, ProposeRead(w) PROVE IInv'
<1>1. PICK h : h = [step |-> "find", lines |-> doc.content, fresh |-> TRUE]
  OBVIOUS
<1>2. /\ doc.status = "APPROVED" /\ doc.content \in Content /\ doc.version \in DOMAIN versions
      /\ versions[doc.version].status = doc.status /\ versions[doc.version].content = doc.content
  BY RowShape DEF ProposeRead, Proposable
<1>3. h.step = "find" /\ h.lines = doc.content /\ h \in Call
  BY <1>1, <1>2 DEF Call, Content
<1>4. Calls(w, h) /\ UNCHANGED <<doc, versions, task, doubled>>
  BY <1>1, <1>3 DEF ProposeRead, Calls
<1>5. CallTrue(h, doc, versions) /\ InsertTrue(h, Proposed, doubled)
  BY <1>2, <1>3 DEF CallTrue, InsertTrue, Approved
<1> QED
  BY <1>4, <1>5, ReadKeeps

LEMMA ProposeFindKeeps ==
    ASSUME IInv, NEW w \in Handlers, ProposeFind(w) PROVE IInv'
<1>1. /\ handler[w] \in Call \cup {Idle} /\ handler[w].step = "find"
      /\ CallTrue(handler[w], doc, versions)
  BY DEF IInv, TypeOK, CallsTrue, ProposeFind, At
<1>2. handler[w] \in [step : {"find", "insert"}, lines : SUBSET Lines, fresh : BOOLEAN]
  BY <1>1, CallShape
<1>3. PICK lines : lines = ToPropose(handler[w].lines)
  OBVIOUS
<1>4. PICK h : h = [handler[w] EXCEPT !.step = "insert", !.lines = lines]
  OBVIOUS
<1>5. lines \subseteq handler[w].lines /\ lines \cap Proposed = {}
  BY <1>3 DEF ToPropose
<1>6. h.step = "insert" /\ h.lines = lines /\ h \in Call
  BY <1>2, <1>4, <1>5 DEF Call
<1>7. Calls(w, h) /\ UNCHANGED <<doc, versions, task, doubled>>
  <2>1. handler' = [handler EXCEPT ![w] = h]
    BY <1>3, <1>4 DEF ProposeFind
  <2> QED
    BY <1>6, <2>1 DEF ProposeFind, Calls
<1>8. CallTrue(h, doc, versions) /\ InsertTrue(h, Proposed, doubled)
  BY <1>1, <1>5, <1>6 DEF CallTrue, InsertTrue, Approved
<1> QED
  BY <1>7, <1>8, ReadKeeps

-----------------------------------------------------------------------------
LEMMA AppendKeeps ==
    ASSUME NEW vs \in Seq(Version), NEW v \in Version
    PROVE  /\ Append(vs, v) \in Seq(Version) /\ Len(Append(vs, v)) = Len(vs) + 1
           /\ Append(vs, v)[Len(vs) + 1] = v /\ Append(vs, v) # <<>>
           /\ \A n \in 1..Len(vs) : Append(vs, v)[n] = vs[n]
           /\ DOMAIN Append(vs, v) = 1..(Len(vs) + 1) /\ DOMAIN vs = 1..Len(vs) /\ Len(vs) \in Nat
<1>1. /\ Append(vs, v) \in Seq(Version) /\ Len(Append(vs, v)) = Len(vs) + 1
      /\ Append(vs, v)[Len(vs) + 1] = v /\ \A n \in 1..Len(vs) : Append(vs, v)[n] = vs[n]
  BY AppendProperties
<1>2. DOMAIN Append(vs, v) = 1..(Len(vs) + 1) /\ DOMAIN vs = 1..Len(vs) /\ Len(vs) \in Nat
  BY <1>1, LenProperties
<1>3. Append(vs, v) # <<>>
  BY <1>1, <1>2, EmptySeq
<1> QED
  BY <1>1, <1>2, <1>3

(* A version more: the calls in flight are behind it.                      *)
LEMMA CallBehind ==
    ASSUME NEW h \in Call \cup {Idle}, NEW d \in Doc, NEW e \in Doc, NEW vs \in Seq(Version), NEW v \in Version,
           CallTrue(h, d, vs), e.version = d.version + 1
    PROVE  CallTrue(h, e, Append(vs, v))
<1>1. d.version \in Nat /\ e # NoDoc
  BY NoDocIsNone, DocumentationAssumption DEF Doc, DocumentationAssumption
<1>2. h.step \in {"open", "update"} => h.seen \in Nat
  BY CallShape, DocumentationAssumption DEF DocumentationAssumption
<1>3. ~(h.step = "update" /\ h.seen = e.version)
  BY <1>1, <1>2 DEF CallTrue
<1>4. h.step \in {"open", "update"} => h.seen <= e.version
  BY <1>1, <1>2 DEF CallTrue
<1>5. h.step \in {"find", "insert"} => Approved(h.lines, Append(vs, v))
  <2>1. \A n \in DOMAIN vs : n \in DOMAIN Append(vs, v) /\ Append(vs, v)[n] = vs[n]
    BY AppendKeeps
  <2> QED
    BY <2>1 DEF CallTrue, Approved
<1> QED
  BY <1>1, <1>3, <1>4, <1>5 DEF CallTrue

(* The write of an edit or of a move that still finds what it read.        *)
LEMMA WrittenKeeps ==
    ASSUME IInv, NEW w \in Handlers, handler[w].step \in {"update", "status"},
           Current(handler[w]), doc.version < MaxVersion,
           NEW e, e = [doc EXCEPT !.status = handler[w].to, !.version = doc.version + 1,
                                  !.content = IF handler[w].step = "update" THEN handler[w].content
                                              ELSE doc.content],
           doc' = e, versions' = Append(versions, Written(handler[w])), Finish(w),
           UNCHANGED <<task, doubled>>
    PROVE  IInv'
<1>1. PICK h : h = handler[w]
  OBVIOUS
<1>2. /\ h \in [step : {"update", "status"}, seen : 1..MaxVersion, old : Status, to : Status,
                content : Content]
      /\ CallTrue(h, doc, versions) /\ h \in Call \cup {Idle}
  <2>1. h \in Call \cup {Idle} /\ CallTrue(h, doc, versions) /\ h.step \in {"update", "status"}
    BY <1>1 DEF IInv, TypeOK, CallsTrue
  <2> QED
    BY <2>1, CallShape
<1>3. /\ doc \in Doc /\ doc # NoDoc /\ doc.version \in 1..MaxVersion /\ MaxVersion \in Nat
      /\ doc.status \in Status /\ doc.content \in Content /\ versions \in Seq(Version)
      /\ Len(versions) = doc.version /\ versions[doc.version].status = doc.status
      /\ versions[doc.version].content = doc.content
      /\ \A n \in 2..doc.version : versions[n].based = n - 1 /\ Follows(versions[n - 1], versions[n])
  <2>1. Exists
    BY DEF Current
  <2> QED
    BY <2>1, RowShape, DocumentationAssumption DEF IInv, TypeOK, HistoryTrue, DocumentationAssumption
<1>4. PICK n \in Nat : n = doc.version
  BY <1>3
<1>5. PICK c : c = IF h.step = "update" THEN h.content ELSE doc.content
  OBVIOUS
<1>6. /\ e.status = h.to /\ e.version = n + 1 /\ e.content = c /\ e \in Doc
  <2>1. PICK m : m = n + 1
    OBVIOUS
  <2>2. m \in 1..MaxVersion /\ c \in Content
    BY <1>2, <1>3, <1>4, <1>5, <2>1
  <2>3. e = [doc EXCEPT !.status = h.to, !.version = m, !.content = c]
    BY <1>1, <1>4, <1>5, <2>1
  <2> QED
    BY <1>2, <1>3, <2>1, <2>2, <2>3 DEF Doc
<1>7. PICK v : v = [status |-> h.to, content |-> c, based |-> h.seen]
  OBVIOUS
<1>8. /\ v \in Version /\ v.status = h.to /\ v.content = c /\ v.based = n
      /\ versions' = Append(versions, v)
  <2>1. h.seen = n /\ h.seen \in 0..MaxVersion /\ c \in Content
    BY <1>1, <1>2, <1>3, <1>4, <1>5 DEF Current
  <2>2. Written(h) = v
    BY <1>5, <1>7 DEF Written
  <2> QED
    BY <1>1, <1>2, <1>7, <2>1, <2>2 DEF Version
<1>9. /\ versions' \in Seq(Version) /\ Len(versions') = n + 1 /\ versions'[n + 1] = v /\ versions' # <<>>
      /\ \A m \in 1..n : versions'[m] = versions[m]
      /\ DOMAIN versions = 1..n /\ DOMAIN versions' = 1..(n + 1)
  BY <1>3, <1>4, <1>8, AppendKeeps
<1>10. handler' \in [Handlers -> Call \cup {Idle}] /\ handler'[w] = Idle
       /\ \A u \in Handlers \ {w} : handler'[u] = handler[u]
  BY DEF IInv, TypeOK, Finish
<1>11. TypeOK'
  BY <1>6, <1>9, <1>10 DEF IInv, TypeOK
<1>12. Follows(versions[n], v)
  <2>1. CASE h.step = "update"
    <3>1. doc.status # "ARCHIVED" /\ h.to = After(doc.status)
      BY <1>1, <1>2, <2>1 DEF CallTrue, Current
    <3> QED
      BY <1>3, <1>4, <1>8, <3>1 DEF Follows, After
  <2>2. CASE h.step # "update"
    <3>1. h.step = "status" /\ h.old = doc.status /\ <<h.old, h.to>> \in allowed /\ c = doc.content
      BY <1>1, <1>2, <1>5, <2>2 DEF CallTrue, Current
    <3> QED
      BY <1>3, <1>4, <1>8, <3>1 DEF Follows
  <2> QED
    BY <2>1, <2>2
<1>13. HistoryTrue'
  <2>1. ASSUME NEW m \in 2..(n + 1)
        PROVE  versions'[m].based = m - 1 /\ Follows(versions'[m - 1], versions'[m])
    <3>1. CASE m = n + 1
      <4>1. m - 1 = n /\ n \in 1..n
        BY <1>3, <1>4, <3>1
      <4> QED
        BY <1>8, <1>9, <1>12, <3>1, <4>1
    <3>2. CASE m # n + 1
      <4>1. m \in 2..n /\ m \in 1..n /\ m - 1 \in 1..n
        BY <2>1, <3>2
      <4> QED
        BY <1>3, <1>4, <1>9, <4>1
    <3> QED
      BY <3>1, <3>2
  <2>2. Len(versions') = doc'.version /\ versions'[doc'.version].status = doc'.status
        /\ versions'[doc'.version].content = doc'.content
    BY <1>6, <1>8, <1>9
  <2>3. doc'.version = n + 1
    BY <1>6
  <2> QED
    BY <2>1, <2>2, <2>3 DEF HistoryTrue
<1>14. FirstIsDraft'
  <2>1. versions # <<>> /\ 1 \in 1..n
    BY <1>3, <1>4, EmptySeq
  <2> QED
    BY <1>9, <2>1 DEF IInv, FirstIsDraft
<1>15. doc' # NoDoc
  BY <1>6, NoDocIsNone
<1>16. Tasks' = Tasks /\ Proposed' = Proposed
  BY DEF Tasks, Proposed
<1>17. CallsTrue'
  <2> SUFFICES ASSUME NEW u \in Handlers
               PROVE  CallTrue(handler'[u], doc', versions') /\ InsertTrue(handler'[u], Proposed', doubled')
    BY DEF CallsTrue
  <2>1. CASE u = w
    BY <1>10, <2>1 DEF CallTrue, InsertTrue, Idle
  <2>2. CASE u # w
    <3>1. handler[u] \in Call \cup {Idle} /\ CallTrue(handler[u], doc, versions)
          /\ InsertTrue(handler[u], Proposed, doubled)
      BY DEF IInv, TypeOK, CallsTrue
    <3>2. CallTrue(handler[u], e, Append(versions, v))
      BY <1>3, <1>4, <1>6, <1>8, <3>1, CallBehind
    <3> QED
      BY <1>8, <1>10, <1>16, <2>2, <3>1, <3>2
  <2> QED
    BY <2>1, <2>2
<1>18. ProposalsExplained'
  <2>1. \A t \in Tasks : \E m \in DOMAIN versions' :
           versions'[m].status = "APPROVED" /\ task[t].line \in versions'[m].content
    <3> SUFFICES ASSUME NEW t \in Tasks
                 PROVE  \E m \in DOMAIN versions' :
                           versions'[m].status = "APPROVED" /\ task[t].line \in versions'[m].content
      OBVIOUS
    <3>1. PICK m \in DOMAIN versions : versions[m].status = "APPROVED" /\ task[t].line \in versions[m].content
      BY DEF IInv, ProposalsExplained
    <3>2. m \in 1..n /\ m \in 1..(n + 1)
      BY <1>9, <3>1
    <3> QED
      BY <1>9, <3>1, <3>2
  <2> QED
    BY <1>16, <2>1 DEF IInv, ProposalsExplained
<1> QED
  BY <1>11, <1>13, <1>14, <1>15, <1>17, <1>18 DEF IInv

LEMMA WriteKeeps ==
    ASSUME IInv, NEW w \in Handlers, Write(w) PROVE IInv'
<1>1. Finish(w) /\ UNCHANGED <<task, doubled>> /\ handler[w].step \in {"update", "status"}
  BY DEF Write
<1>2. CASE UNCHANGED <<doc, versions>>
  BY <1>1, <1>2, IdleKeeps
<1>3. CASE ~UNCHANGED <<doc, versions>>
  <2>1. PICK e : e = [doc EXCEPT !.status = handler[w].to, !.version = doc.version + 1,
                                 !.content = IF handler[w].step = "update" THEN handler[w].content
                                             ELSE doc.content]
    OBVIOUS
  <2>2. /\ Current(handler[w]) /\ doc.version < MaxVersion /\ doc' = e
        /\ versions' = Append(versions, Written(handler[w]))
    BY <1>3, <2>1 DEF Write
  <2> QED
    BY <1>1, <2>1, <2>2, WrittenKeeps
<1> QED
  BY <1>2, <1>3

LEMMA DeleteWriteKeeps ==
    ASSUME IInv, NEW w \in Handlers, DeleteWrite(w) PROVE IInv'
<1>1. /\ handler[w].step = "delete" /\ Finish(w) /\ UNCHANGED <<versions, task, doubled>>
      /\ doc' = [doc EXCEPT !.deleted = TRUE]
  BY DEF DeleteWrite, At
<1>2. doc # NoDoc /\ doc \in Doc
  BY <1>1 DEF IInv, TypeOK, CallsTrue, CallTrue
<1>3. PICK e : e = doc'
  OBVIOUS
<1>4. e \in Doc /\ e.status = doc.status /\ e.content = doc.content /\ e.version = doc.version /\ e # NoDoc
  <2>1. e = [doc EXCEPT !.deleted = TRUE]
    BY <1>1, <1>3
  <2>2. e \in Doc /\ e.status = doc.status /\ e.content = doc.content /\ e.version = doc.version
    BY <1>2, <2>1 DEF Doc
  <2> QED
    BY <2>2, NoDocIsNone
<1>5. handler' \in [Handlers -> Call \cup {Idle}] /\ handler'[w] = Idle
      /\ \A u \in Handlers \ {w} : handler'[u] = handler[u]
  BY <1>1 DEF IInv, TypeOK, Finish
<1>6. TypeOK'
  BY <1>1, <1>3, <1>4, <1>5 DEF IInv, TypeOK
<1>7. Tasks' = Tasks /\ Proposed' = Proposed
  BY <1>1 DEF Tasks, Proposed
<1>8. CallsTrue'
  <2> SUFFICES ASSUME NEW u \in Handlers
               PROVE  CallTrue(handler'[u], e, versions) /\ InsertTrue(handler'[u], Proposed, doubled)
    BY <1>1, <1>3, <1>7 DEF CallsTrue
  <2>1. CASE u = w
    BY <1>5, <2>1 DEF CallTrue, InsertTrue, Idle
  <2>2. CASE u # w
    BY <1>4, <1>5, <2>2 DEF IInv, CallsTrue, CallTrue
  <2> QED
    BY <2>1, <2>2
<1>9. HistoryTrue'
  BY <1>1, <1>2, <1>3, <1>4 DEF IInv, HistoryTrue
<1>10. FirstIsDraft' /\ ProposalsExplained'
  BY <1>1, <1>7 DEF IInv, FirstIsDraft, ProposalsExplained
<1> QED
  BY <1>3, <1>4, <1>6, <1>8, <1>9, <1>10 DEF IInv

-----------------------------------------------------------------------------
(* The tasks.                                                              *)
LEMMA InsertKeeps ==
    ASSUME IInv, NEW w \in Handlers, ProposeInsert(w) PROVE IInv'
<1>1. PICK h : h = handler[w]
  OBVIOUS
<1>2. /\ h.step = "insert" /\ h \in [step : {"find", "insert"}, lines : SUBSET Lines, fresh : BOOLEAN]
      /\ Approved(h.lines, versions) /\ InsertTrue(h, Proposed, doubled)
  <2>1. h \in Call \cup {Idle} /\ h.step = "insert" /\ CallTrue(h, doc, versions)
        /\ InsertTrue(h, Proposed, doubled)
    BY <1>1 DEF IInv, TypeOK, CallsTrue, ProposeInsert, At
  <2>2. h \in [step : {"find", "insert"}, lines : SUBSET Lines, fresh : BOOLEAN]
    BY <2>1, CallShape
  <2> QED
    BY <2>1, <2>2 DEF CallTrue
<1>3. PICK ts \in SUBSET (TaskIds \ Tasks) : \E f \in [ts -> handler[w].lines] :
         /\ \A l \in handler[w].lines : \E t \in ts : f[t] = l
         /\ \A t, u \in ts : f[t] = f[u] => t = u
         /\ task' = [t \in TaskIds |->
               IF t \in ts THEN [line |-> f[t], title |-> f[t], live |-> TRUE, linked |-> TRUE] ELSE task[t]]
  BY Zenon DEF ProposeInsert
<1>4. PICK f \in [ts -> h.lines] :
         /\ \A t, u \in ts : f[t] = f[u] => t = u
         /\ task' = [t \in TaskIds |->
               IF t \in ts THEN [line |-> f[t], title |-> f[t], live |-> TRUE, linked |-> TRUE] ELSE task[t]]
  BY <1>1, <1>3
<1>5. /\ doubled' = (IF h.fresh THEN doubled ELSE doubled \cup h.lines)
      /\ UNCHANGED <<doc, versions>>
      /\ handler' = [v \in Handlers |->
            IF v = w THEN Idle
            ELSE IF At(v, "insert") THEN [handler[v] EXCEPT !.fresh = FALSE] ELSE handler[v]]
  BY <1>1 DEF ProposeInsert
<1>6. \A t \in ts : /\ task'[t] \in Task /\ task'[t].line = f[t] /\ task'[t].title = f[t] /\ f[t] \in h.lines
  BY <1>2, <1>4 DEF Task
<1>7. \A t \in TaskIds \ ts : task'[t] = task[t]
  BY <1>4
<1>8. Tasks' = Tasks \cup ts
  <2>1. \A t \in ts : task'[t] # NoTask
    BY <1>6, NoTaskIsNone
  <2> QED
    BY <1>4, <1>7, <2>1 DEF Tasks
<1>9. task' \in [TaskIds -> Task \cup {NoTask}]
  <2>1. \A t \in TaskIds : task'[t] \in Task \cup {NoTask}
    BY <1>6, <1>7 DEF IInv, TypeOK
  <2> QED
    BY <1>4, <2>1
<1>10. ASSUME NEW v \in Handlers
      PROVE  /\ handler'[v] \in Call \cup {Idle}
             /\ CallTrue(handler'[v], doc, versions)
             /\ ~(handler'[v].step = "insert" /\ handler'[v].fresh)
  <2>1. handler[v] \in Call \cup {Idle} /\ CallTrue(handler[v], doc, versions)
    BY DEF IInv, TypeOK, CallsTrue
  <2>2. CASE v = w
    BY <1>5, <2>2 DEF Idle, CallTrue
  <2>3. CASE v # w /\ ~At(v, "insert")
    BY <1>5, <2>1, <2>3 DEF At
  <2>4. CASE v # w /\ At(v, "insert")
    <3>1. PICK g : g = handler[v]
      OBVIOUS
    <3>2. PICK y : y = [g EXCEPT !.fresh = FALSE]
      OBVIOUS
    <3>3. handler'[v] = y
      BY <1>5, <2>4, <3>1, <3>2
    <3>4. g.step = "insert" /\ g \in [step : {"find", "insert"}, lines : SUBSET Lines, fresh : BOOLEAN]
      BY <2>1, <2>4, <3>1, CallShape DEF At
    <3>5. y \in Call /\ y.step = "insert" /\ y.lines = g.lines /\ y.fresh = FALSE
      BY <3>2, <3>4 DEF Call
    <3> QED
      BY <2>1, <3>1, <3>3, <3>4, <3>5 DEF CallTrue
  <2> QED
    BY <2>2, <2>3, <2>4
<1>11. doubled \subseteq doubled' /\ doubled' \subseteq Lines
  BY <1>2, <1>5 DEF IInv, TypeOK
<1>12. TypeOK'
  <2>1. handler' \in [Handlers -> Call \cup {Idle}]
    BY <1>5, <1>10
  <2> QED
    BY <1>5, <1>9, <1>11, <2>1 DEF IInv, TypeOK
<1>13. CallsTrue'
  BY <1>5, <1>10 DEF CallsTrue, InsertTrue
<1>14. HistoryTrue' /\ FirstIsDraft' /\ (doc' = NoDoc => versions' = <<>>)
  BY <1>5 DEF IInv, HistoryTrue, FirstIsDraft
<1>15. \A t \in Tasks' : \E n \in DOMAIN versions :
          versions[n].status = "APPROVED" /\ task'[t].line \in versions[n].content
  <2> SUFFICES ASSUME NEW t \in Tasks'
               PROVE  \E n \in DOMAIN versions :
                         versions[n].status = "APPROVED" /\ task'[t].line \in versions[n].content
    OBVIOUS
  <2>1. CASE t \in ts
    BY <1>2, <1>6, <2>1 DEF Approved
  <2>2. CASE t \notin ts
    BY <1>7, <1>8, <2>2 DEF IInv, ProposalsExplained, Tasks
  <2> QED
    BY <2>1, <2>2
<1>16. ASSUME NEW t \in ts, NEW u \in TaskIds \ ts, u \in Tasks, f[t] = task[u].title,
              task[u].linked, task[u].live
       PROVE  f[t] \in doubled'
  <2>1. f[t] \in h.lines /\ f[t] \in Proposed
    BY <1>6, <1>16 DEF Proposed
  <2>2. CASE h.fresh
    BY <1>2, <1>11, <2>1, <2>2 DEF InsertTrue
  <2>3. CASE ~h.fresh
    BY <1>5, <2>1, <2>3
  <2> QED
    BY <2>2, <2>3
<1>17. \A t, u \in Tasks' :
          t # u /\ task'[t].title = task'[u].title /\ task'[t].linked /\ task'[u].linked
                /\ task'[t].live /\ task'[u].live => task'[t].title \in doubled'
  <2> SUFFICES ASSUME NEW t \in Tasks', NEW u \in Tasks', t # u, task'[t].title = task'[u].title,
                      task'[t].linked, task'[u].linked, task'[t].live, task'[u].live
               PROVE  task'[t].title \in doubled'
    OBVIOUS
  <2>0. t \in TaskIds /\ u \in TaskIds
    BY DEF Tasks
  <2>1. CASE t \in ts /\ u \in ts
    BY <1>4, <1>6, <2>1
  <2>2. CASE t \in ts /\ u \notin ts
    BY <1>6, <1>7, <1>8, <1>16, <2>0, <2>2
  <2>3. CASE t \notin ts /\ u \in ts
    BY <1>6, <1>7, <1>8, <1>16, <2>0, <2>3
  <2>4. CASE t \notin ts /\ u \notin ts
    BY <1>7, <1>8, <1>11, <2>0, <2>4 DEF IInv, ProposalsExplained
  <2> QED
    BY <2>1, <2>2, <2>3, <2>4
<1>18. ProposalsExplained'
  BY <1>5, <1>15, <1>17 DEF ProposalsExplained
<1> QED
  BY <1>12, <1>13, <1>14, <1>18 DEF IInv

(* A task stays a task of its line; with a new title, or again, it counts  *)
(* only where that is noted.                                               *)
LEMMA TaskKeeps ==
    ASSUME IInv, NEW t \in Tasks, NEW x \in Task, task' = [task EXCEPT ![t] = x],
           x.line = task[t].line, doubled \subseteq doubled', doubled' \subseteq Lines,
           x.live /\ x.linked => (task[t].live /\ task[t].linked /\ x.title = task[t].title) \/ x.title \in doubled',
           UNCHANGED <<doc, versions, handler>>
    PROVE  IInv'
<1>1. t \in TaskIds /\ task'[t] = x /\ (\A u \in TaskIds \ {t} : task'[u] = task[u])
      /\ task' \in [TaskIds -> Task \cup {NoTask}]
  BY DEF IInv, TypeOK, Tasks
<1>2. Tasks' = Tasks
  <2>1. x # NoTask
    BY NoTaskIsNone
  <2> QED
    BY <1>1, <2>1 DEF Tasks
<1>3. Proposed' \subseteq Proposed \cup doubled'
  BY <1>1, <1>2 DEF Proposed, Tasks
<1>4. TypeOK'
  BY <1>1 DEF IInv, TypeOK
<1>5. CallsTrue'
  <2> SUFFICES ASSUME NEW w \in Handlers
               PROVE  CallTrue(handler[w], doc, versions) /\ InsertTrue(handler[w], Proposed', doubled')
    BY DEF CallsTrue
  <2>1. CallTrue(handler[w], doc, versions) /\ InsertTrue(handler[w], Proposed, doubled)
    BY DEF IInv, CallsTrue
  <2> QED
    BY <1>3, <2>1 DEF InsertTrue
<1>6. HistoryTrue' /\ FirstIsDraft' /\ (doc' = NoDoc => versions' = <<>>)
  BY DEF IInv, HistoryTrue, FirstIsDraft
<1>7. \A u \in Tasks : task'[u].line = task[u].line
  BY <1>1 DEF Tasks
<1>8. \A u \in Tasks : task'[u].live /\ task'[u].linked =>
         (task[u].live /\ task[u].linked /\ task'[u].title = task[u].title) \/ task'[u].title \in doubled'
  BY <1>1 DEF Tasks
<1>9. ProposalsExplained'
  BY <1>2, <1>7, <1>8 DEF IInv, ProposalsExplained
<1> QED
  BY <1>4, <1>5, <1>6, <1>9 DEF IInv

LEMMA TaskShape ==
    ASSUME TypeOK, NEW t \in TaskIds, t \in Tasks
    PROVE  task[t] \in Task
  BY DEF TypeOK, Tasks

LEMMA DeleteTaskKeeps ==
    ASSUME IInv, NEW t \in TaskIds, DeleteTask(t) PROVE IInv'
<1>1. t \in Tasks /\ task[t] \in Task
  BY TaskShape DEF IInv, DeleteTask
<1>2. PICK x : x = [task[t] EXCEPT !.live = FALSE]
  OBVIOUS
<1>3. x \in Task /\ x.line = task[t].line /\ x.live = FALSE
  BY <1>1, <1>2 DEF Task
<1>4. task' = [task EXCEPT ![t] = x] /\ doubled' = doubled /\ doubled' \subseteq Lines
      /\ UNCHANGED <<doc, versions, handler>>
  BY <1>2 DEF DeleteTask, IInv, TypeOK
<1> QED
  BY <1>1, <1>3, <1>4, TaskKeeps

LEMMA RenameTaskKeeps ==
    ASSUME IInv, NEW t \in TaskIds, NEW title \in Lines, RenameTask(t, title) PROVE IInv'
<1>1. t \in Tasks /\ task[t] \in Task
  BY TaskShape DEF IInv, RenameTask
<1>2. PICK x : x = [task[t] EXCEPT !.title = title]
  OBVIOUS
<1>3. x \in Task /\ x.line = task[t].line /\ x.title = title /\ x.linked = task[t].linked
  BY <1>1, <1>2 DEF Task
<1>4. /\ task' = [task EXCEPT ![t] = x] /\ UNCHANGED <<doc, versions, handler>>
      /\ doubled' = IF x.linked THEN doubled \cup {title} ELSE doubled
  BY <1>2, <1>3 DEF RenameTask
<1>5. /\ doubled \subseteq doubled' /\ doubled' \subseteq Lines
      /\ x.live /\ x.linked => x.title \in doubled'
  BY <1>3, <1>4 DEF IInv, TypeOK
<1> QED
  BY <1>1, <1>3, <1>4, <1>5, TaskKeeps

LEMMA LinkKeeps ==
    ASSUME IInv, NEW t \in TaskIds, NEW add \in BOOLEAN, changeDocumentationLink(t, add) PROVE IInv'
<1>1. t \in Tasks /\ task[t] \in Task
  BY TaskShape DEF IInv, changeDocumentationLink
<1>2. PICK x : x = [task[t] EXCEPT !.linked = add]
  OBVIOUS
<1>3. x \in Task /\ x.line = task[t].line /\ x.title = task[t].title /\ x.live = task[t].live /\ x.linked = add
      /\ x.title \in Lines
  BY <1>1, <1>2 DEF Task
<1>4. /\ task' = [task EXCEPT ![t] = x] /\ UNCHANGED <<doc, versions, handler>>
      /\ doubled' = IF add /\ ~task[t].linked THEN doubled \cup {x.title} ELSE doubled
  BY <1>2, <1>3 DEF changeDocumentationLink
<1>5. /\ doubled \subseteq doubled' /\ doubled' \subseteq Lines
      /\ x.live /\ x.linked => (task[t].live /\ task[t].linked /\ x.title = task[t].title) \/ x.title \in doubled'
  BY <1>3, <1>4 DEF IInv, TypeOK
<1> QED
  BY <1>1, <1>3, <1>4, <1>5, TaskKeeps

LEMMA CreateKeeps ==
    ASSUME IInv, NEW c \in Content, createProjectDocumentation(c) PROVE IInv'
<1>1. PICK d : d = [status |-> "DRAFT", content |-> c, version |-> 1, deleted |-> FALSE]
  OBVIOUS
<1>2. d \in Doc /\ d.status = "DRAFT" /\ d.content = c /\ d.version = 1 /\ d # NoDoc
  <2>1. d \in Doc /\ d.status = "DRAFT" /\ d.content = c /\ d.version = 1
    BY <1>1, DocumentationAssumption DEF Doc, Status, DocumentationAssumption
  <2> QED
    BY <2>1, NoDocIsNone
<1>3. PICK v : v = [status |-> "DRAFT", content |-> c, based |-> 0]
  OBVIOUS
<1>4. v \in Version /\ v.status = "DRAFT" /\ v.content = c
  BY <1>3, DocumentationAssumption DEF Version, Status, DocumentationAssumption
<1>5. doc = NoDoc /\ doc' = d /\ versions' = <<v>> /\ UNCHANGED <<task, handler, doubled>>
  BY <1>1, <1>3 DEF createProjectDocumentation
<1>6. versions' \in Seq(Version) /\ Len(versions') = 1 /\ versions'[1] = v
  BY <1>4, <1>5
<1>7. TypeOK'
  BY <1>2, <1>5, <1>6 DEF IInv, TypeOK
<1>8. DOMAIN versions = {}
  BY <1>5, EmptySeq DEF IInv
<1>9. Tasks' = Tasks /\ Proposed' = Proposed /\ Tasks = {}
  BY <1>5, <1>8 DEF Tasks, Proposed, IInv, ProposalsExplained
<1>10. CallsTrue'
  <2> SUFFICES ASSUME NEW w \in Handlers
               PROVE  CallTrue(handler[w], d, versions') /\ InsertTrue(handler[w], Proposed, doubled)
    BY <1>5, <1>9 DEF CallsTrue
  <2>1. CallTrue(handler[w], doc, versions) /\ InsertTrue(handler[w], Proposed, doubled)
    BY DEF IInv, CallsTrue
  <2>2. handler[w].step \notin {"open", "update", "status", "delete", "find", "insert"}
    BY <1>5, <1>8, <2>1 DEF CallTrue, Approved
  <2> QED
    BY <2>1, <2>2 DEF CallTrue
<1>11. HistoryTrue'
  BY <1>2, <1>4, <1>5, <1>6 DEF HistoryTrue
<1>12. FirstIsDraft' /\ doc' # NoDoc
  BY <1>2, <1>4, <1>5, <1>6 DEF FirstIsDraft
<1>13. ProposalsExplained'
  BY <1>9 DEF ProposalsExplained
<1> QED
  BY <1>7, <1>10, <1>11, <1>12, <1>13 DEF IInv

-----------------------------------------------------------------------------
(* The invariant of a document holds whatever edits, reviews, deletions    *)
(* and proposals overlap (project-documentation.service.ts).               *)
THEOREM DocumentationInvariance == Spec => []IInv
<1>1. Init => IInv
  <2> SUFFICES ASSUME Init PROVE IInv
    OBVIOUS
  <2>1. TypeOK
    BY EmptySeq DEF Init, TypeOK
  <2>2. CallsTrue
    BY DEF Init, Idle, CallsTrue, CallTrue, InsertTrue
  <2>3. Tasks = {}
    BY DEF Init, Tasks
  <2>4. HistoryTrue /\ FirstIsDraft /\ versions = <<>>
    BY DEF Init, HistoryTrue, FirstIsDraft
  <2>5. ProposalsExplained
    BY <2>3 DEF ProposalsExplained
  <2> QED
    BY <2>1, <2>2, <2>4, <2>5 DEF IInv
<1>2. IInv /\ [Next]_vars => IInv'
  <2> SUFFICES ASSUME IInv, [Next]_vars PROVE IInv'
    OBVIOUS
  <2>1. ASSUME NEW c \in Content, createProjectDocumentation(c) PROVE IInv'
    BY <2>1, CreateKeeps
  <2>2. ASSUME NEW w \in Handlers, Proceed(w) PROVE IInv'
    <3>1. ASSUME NEW c \in Content, UpdateRead(w, c) PROVE IInv'
      BY <3>1, UpdateReadKeeps
    <3>2. ASSUME NEW to \in Status, StatusRead(w, to) PROVE IInv'
      BY <3>2, StatusReadKeeps
    <3>3. CASE Abort(w)
      BY <3>3, IdleKeeps DEF Abort
    <3> QED
      BY <2>2, <3>1, <3>2, <3>3, OpenKeeps, WriteKeeps, DeleteReadKeeps, DeleteWriteKeeps,
         ProposeReadKeeps, ProposeFindKeeps, InsertKeeps DEF Proceed
  <2>3. ASSUME NEW t \in TaskIds, DeleteTask(t) PROVE IInv'
    BY <2>3, DeleteTaskKeeps
  <2>4. ASSUME NEW t \in TaskIds, NEW add \in BOOLEAN, changeDocumentationLink(t, add) PROVE IInv'
    BY <2>4, LinkKeeps
  <2>5. ASSUME NEW t \in TaskIds, NEW title \in Lines, RenameTask(t, title) PROVE IInv'
    BY <2>5, RenameTaskKeeps
  <2>6. CASE UNCHANGED vars
    <3>1. Tasks' = Tasks /\ Proposed' = Proposed
      BY <2>6 DEF vars, Tasks, Proposed
    <3>2. TypeOK' /\ HistoryTrue' /\ FirstIsDraft' /\ (doc' = NoDoc => versions' = <<>>)
      BY <2>6 DEF vars, IInv, TypeOK, HistoryTrue, FirstIsDraft
    <3>3. CallsTrue' /\ ProposalsExplained'
      BY <2>6, <3>1 DEF vars, IInv, CallsTrue, ProposalsExplained
    <3> QED
      BY <3>2, <3>3 DEF IInv
  <2> QED
    BY <2>1, <2>2, <2>3, <2>4, <2>5, <2>6 DEF Next
<1> QED
  BY <1>1, <1>2, PTL DEF Spec

(* Every variable has its type.                                            *)
THEOREM DocumentationTypeCorrect == Spec => []TypeOK
<1>1. IInv => TypeOK
  BY DEF IInv
<1> QED
  BY <1>1, DocumentationInvariance, PTL

(* Version n is row n, the last is the row, each was made by somebody who  *)
(* had the one before it open, and leads from it by a move of the table or *)
(* by an edit: no overlapping save is lost or slips in unseen              *)
(* (updateProjectDocumentation, changeProjectDocumentationStatus).         *)
THEOREM HistoryIsTrue == Spec => []HistoryTrue
<1>1. IInv => HistoryTrue
  BY DEF IInv
<1> QED
  BY <1>1, DocumentationInvariance, PTL

(* What is approved is what was in review, unchanged, and what its         *)
(* approver had open (changeProjectDocumentationStatus).                   *)
THEOREM ApprovalsWereReviewed == Spec => []ApprovedAsReviewed
<1>1. IInv => ApprovedAsReviewed
  <2> SUFFICES ASSUME IInv, NEW n \in DOMAIN versions, versions[n].status = "APPROVED"
               PROVE  /\ n > 1
                      /\ versions[n - 1].status = "IN_REVIEW"
                      /\ versions[n - 1].content = versions[n].content
                      /\ versions[n].based = n - 1
    BY DEF ApprovedAsReviewed
  <2>1. DOMAIN versions = 1..Len(versions) /\ Len(versions) \in Nat /\ versions # <<>>
    BY LenProperties, EmptySeq DEF IInv, TypeOK
  <2>2. doc # NoDoc /\ Len(versions) = doc.version /\ versions[1].status = "DRAFT"
    BY <2>1 DEF IInv, HistoryTrue, FirstIsDraft
  <2>3. n \in 2..doc.version
    BY <2>1, <2>2
  <2>4. versions[n].based = n - 1 /\ Follows(versions[n - 1], versions[n])
    BY <2>2, <2>3 DEF IInv, HistoryTrue
  <2>5. versions[n - 1].status = "IN_REVIEW" /\ versions[n - 1].content = versions[n].content
    BY <2>4 DEF Follows, allowed
  <2> QED
    BY <2>3, <2>4, <2>5
<1> QED
  BY <1>1, DocumentationInvariance, PTL

(* Tasks are proposed from approved lines, and no title is twice on the    *)
(* linked tasks, unless calls that proposed it overlapped or it was given  *)
(* by hand, by a rename or a link (proposeTasksFromDocumentation).         *)
THEOREM ProposalsAreExplained == Spec => []ProposalsExplained
<1>1. IInv => ProposalsExplained
  BY DEF IInv
<1> QED
  BY <1>1, DocumentationInvariance, PTL
=============================================================================
