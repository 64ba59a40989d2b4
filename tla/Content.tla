------------------------------- MODULE Content -------------------------------
(***************************************************************************)
(* The public content of the website: rows that editors create, publish,   *)
(* change and delete (posts, portfolio items, services, team members,      *)
(* FAQs, testimonials, job openings), the list of the published ones that  *)
(* visitors read through a Redis cache, and the cover images of posts,     *)
(* which live in an object store and are dropped with their last post.     *)
(*                                                                         *)
(* The seven services share one cache discipline: read the cache, else     *)
(* read the table and fill the cache for five minutes; delete the cached   *)
(* list after each write.  Redis calls are best effort.  One action is one *)
(* awaited call; posts are the service with everything, so the actions are *)
(* theirs.  What a visitor sees of a row is abstracted to whether it is    *)
(* published and to its cover; the unique slug shows only as an aborted    *)
(* call.                                                                   *)
(***************************************************************************)
EXTENDS Integers

CONSTANTS
    Posts,      \* identifiers of rows
    Images,     \* identifiers of uploaded cover images
    Editors,    \* calls of staff that can be in flight at once
    Visitors,   \* calls of visitors that can be in flight at once
    NoCover,    \* a row without a cover
    Kept,       \* a field the request leaves out
    MaxEdits    \* bound: calls of staff

ASSUME ContentAssumption ==
    /\ Posts # {} /\ MaxEdits \in Nat
    /\ NoCover \notin Images /\ Kept \notin Images \cup {NoCover} \cup BOOLEAN

VARIABLES
    posts,      \* the rows
    images,     \* what is left of an image: its object, its asset row
    list,       \* the cached list of published rows
    editor,     \* where each call of staff stands
    visitor,    \* where each call of a visitor stands
    edits,      \* how many calls of staff have begun
    overlapped  \* history: images of which a save and a release overlapped

contentVars == <<posts, images, list, editor, visitor, edits, overlapped>>

-----------------------------------------------------------------------------
Covers == Images \cup {NoCover}
Row == [is : {"unused", "there", "gone"}, published : BOOLEAN, cover : Covers]
Unused == [is |-> "unused", published |-> FALSE, cover |-> NoCover]

(* What a visitor is to see: the published rows and their covers. *)
Public == {<<p, posts[p].cover>> : p \in {q \in Posts : posts[q].is = "there" /\ posts[q].published}}

NoList == [held |-> FALSE, expires |-> FALSE, items |-> {}, late |-> FALSE]
(* Mutant: the list is cached without a time to live. *)
X_Forever(items, late) == [held |-> TRUE, expires |-> FALSE, items |-> items, late |-> late]

Filled(items, late) == [held |-> TRUE, expires |-> TRUE, items |-> items, late |-> late]

IdleEditor == [step |-> "idle", post |-> CHOOSE p \in Posts : TRUE, publish |-> Kept,
               cover |-> Kept, old |-> NoCover, then |-> "idle"]
IdleVisitor == [step |-> "idle", items |-> {}, late |-> FALSE]

ImageState == {"unused", "object", "stored", "row", "gone"}
EditorState == [step : {"idle", "uploadRow", "uploadUndo", "resolve", "write", "insert", "delete",
                        "invalidate", "count", "dropObject", "dropRow"},
                post : Posts, publish : BOOLEAN \cup {Kept}, cover : Covers \cup {Kept},
                old : Covers, then : {"idle", "count"}]
Lists == SUBSET (Posts \X Covers)
ListState == [held : BOOLEAN, expires : BOOLEAN, items : Lists, late : BOOLEAN]
VisitorState == [step : {"idle", "select", "set"}, items : Lists, late : BOOLEAN]

ContentTypeOK ==
    /\ posts \in [Posts -> Row]
    /\ images \in [Images -> ImageState]
    /\ editor \in [Editors -> EditorState]
    /\ visitor \in [Visitors -> VisitorState]
    /\ list \in ListState
    /\ edits \in 0 .. MaxEdits
    /\ overlapped \subseteq Images

ContentInit ==
    /\ posts = [p \in Posts |-> Unused]
    /\ images \in [Images -> {"unused", "stored"}]     \* some are in the store already
    /\ list = NoList
    /\ editor = [e \in Editors |-> IdleEditor]
    /\ visitor = [v \in Visitors |-> IdleVisitor]
    /\ edits = 0
    /\ overlapped = {}

-----------------------------------------------------------------------------
(* An asset row is all that a cover is checked against. *)
HasAsset(i) == images[i] \in {"stored", "row"}

(* A save of image i is under way from its check to its write; a release   *)
(* of it from the count of its posts to the deletion of its asset row.     *)
Saving(i, ed) == \E e \in Editors : ed[e].step \in {"write", "insert"} /\ ed[e].cover = i
Releasing(i, ed) == \E e \in Editors : ed[e].step \in {"dropObject", "dropRow"} /\ ed[e].old = i

Goes(e, state) ==
    /\ editor' = [editor EXCEPT ![e] = state]
    /\ overlapped' = overlapped \cup {i \in Images : Saving(i, editor') /\ Releasing(i, editor')}

Doing(e, step) == editor[e].step = step
Step(e, step) == [editor[e] EXCEPT !.step = step]

(* A write commits: visitors who have already read the table are late. *)
Overtakes == visitor' = [v \in Visitors |-> [visitor[v] EXCEPT !.late = @ \/ visitor[v].step = "set"]]

(* -- uploadArticleImage ------------------------------------------------- *)
UploadPut(e) == \E i \in Images :
    /\ Doing(e, "idle") /\ edits < MaxEdits /\ images[i] = "unused"
    /\ images' = [images EXCEPT ![i] = "object"]
    /\ Goes(e, [IdleEditor EXCEPT !.step = "uploadRow", !.old = i])
    /\ edits' = edits + 1
    /\ UNCHANGED <<posts, list, visitor>>

UploadRow(e) ==
    /\ Doing(e, "uploadRow")
    /\ \/ images' = [images EXCEPT ![editor[e].old] = "stored"] /\ Goes(e, IdleEditor)
       \/ Goes(e, Step(e, "uploadUndo")) /\ UNCHANGED images
    /\ UNCHANGED <<posts, list, visitor, edits>>

UploadUndo(e) ==
    /\ Doing(e, "uploadUndo")
    /\ \/ images' = [images EXCEPT ![editor[e].old] = "gone"]
       \/ UNCHANGED images
    /\ Goes(e, IdleEditor)
    /\ UNCHANGED <<posts, list, visitor, edits>>

(* -- createPost, updatePost, deletePost --------------------------------- *)
(* The cover of a request: left out, cleared, the row's own, or an image.  *)
Resolved(e, cover, old, step) ==
    IF cover \in Images /\ cover # old THEN "resolve" ELSE step

CreateBegin(e) == \E p \in Posts, pub \in BOOLEAN, c \in Covers :
    /\ Doing(e, "idle") /\ edits < MaxEdits /\ posts[p].is = "unused"
    /\ \A f \in Editors : Doing(f, "idle") \/ editor[f].post # p \/ ~(editor[f].step \in {"resolve", "insert"})
    /\ Goes(e, [step |-> Resolved(e, c, NoCover, "insert"), post |-> p, publish |-> pub, cover |-> c,
                old |-> NoCover, then |-> "idle"])
    /\ edits' = edits + 1
    /\ UNCHANGED <<posts, images, list, visitor>>

UpdateRead(e) == \E p \in Posts, pub \in BOOLEAN \cup {Kept}, c \in Covers \cup {Kept} :
    /\ Doing(e, "idle") /\ edits < MaxEdits /\ posts[p].is = "there"
    /\ Goes(e, [step |-> Resolved(e, c, posts[p].cover, "write"), post |-> p, publish |-> pub, cover |-> c,
                old |-> posts[p].cover, then |-> IF c \in {Kept, posts[p].cover} THEN "idle" ELSE "count"])
    /\ edits' = edits + 1
    /\ UNCHANGED <<posts, images, list, visitor>>

DeleteRead(e) == \E p \in Posts :
    /\ Doing(e, "idle") /\ edits < MaxEdits /\ posts[p].is = "there"
    /\ Goes(e, [IdleEditor EXCEPT !.step = "delete", !.post = p, !.old = posts[p].cover, !.then = "count"])
    /\ edits' = edits + 1
    /\ UNCHANGED <<posts, images, list, visitor>>

(* resolveArticleCover: only the asset row is looked up. *)
Resolve(e) ==
    /\ Doing(e, "resolve")
    /\ Goes(e, IF ~HasAsset(editor[e].cover) THEN IdleEditor
               ELSE Step(e, IF posts[editor[e].post].is = "unused" THEN "insert" ELSE "write"))
    /\ UNCHANGED <<posts, images, list, visitor, edits>>

(* A call that took a cover away then releases the image. *)
Rest(e) == IF editor[e].then = "count" /\ editor[e].old # NoCover THEN Step(e, "count") ELSE IdleEditor


(* After its write a call deletes the cached list. *)
Written(e) == Step(e, "invalidate")

Given(value, old) == IF value = Kept THEN old ELSE value

InsertPost(e) ==
    /\ Doing(e, "insert")
    /\ posts' = [posts EXCEPT ![editor[e].post] =
                    [is |-> "there", published |-> editor[e].publish, cover |-> editor[e].cover]]
    /\ Goes(e, Written(e)) /\ Overtakes
    /\ UNCHANGED <<images, list, edits>>

Write(e) == LET p == editor[e].post IN
    /\ Doing(e, "write")
    /\ IF posts[p].is = "there"
       THEN /\ posts' = [posts EXCEPT ![p].published = Given(editor[e].publish, @),
                                      ![p].cover = Given(editor[e].cover, @)]
            /\ Goes(e, Written(e)) /\ Overtakes
       ELSE Goes(e, IdleEditor) /\ UNCHANGED <<posts, visitor>>
    /\ UNCHANGED <<images, list, edits>>

Delete(e) == LET p == editor[e].post IN
    /\ Doing(e, "delete")
    /\ IF posts[p].is = "there"
       THEN posts' = [posts EXCEPT ![p] = [Unused EXCEPT !.is = "gone"]] /\ Goes(e, Written(e)) /\ Overtakes
       ELSE Goes(e, IdleEditor) /\ UNCHANGED <<posts, visitor>>
    /\ UNCHANGED <<images, list, edits>>

(* invalidateCache: when Redis refuses, the list lives on until it expires. *)
Invalidate(e) ==
    /\ Doing(e, "invalidate")
    /\ \/ list' = NoList
       \/ list' = [list EXCEPT !.late = list.held]
    /\ Goes(e, Rest(e))
    /\ UNCHANGED <<posts, images, visitor, edits>>

(* -- releaseArticleImageUrl --------------------------------------------- *)
(* Mutant: the count sees the row that was just changed only. *)
X_StillUsed(i) == FALSE

StillUsed(i) == \E p \in Posts : posts[p].is = "there" /\ posts[p].cover = i

ReleaseCount(e) ==
    /\ Doing(e, "count")
    /\ Goes(e, IF StillUsed(editor[e].old) \/ ~HasAsset(editor[e].old) THEN IdleEditor
               ELSE Step(e, "dropObject"))
    /\ UNCHANGED <<posts, images, list, visitor, edits>>

DropObject(e) == LET i == editor[e].old IN
    /\ Doing(e, "dropObject")
    /\ images' = [images EXCEPT ![i] = IF @ = "stored" THEN "row" ELSE @]
    /\ Goes(e, Step(e, "dropRow"))
    /\ UNCHANGED <<posts, list, visitor, edits>>

DropRow(e) == LET i == editor[e].old IN
    /\ Doing(e, "dropRow")
    /\ images' = [images EXCEPT ![i] = "gone"]
    /\ Goes(e, IdleEditor)
    /\ UNCHANGED <<posts, list, visitor, edits>>

(* A call of the database or of the store throws, or the process ends.  A  *)
(* write whose list was not deleted leaves the cached list behind.         *)
EditorAborts(e) ==
    /\ ~Doing(e, "idle")
    /\ Goes(e, IdleEditor)
    /\ list' = [list EXCEPT !.late = @ \/ (list.held /\ Doing(e, "invalidate"))]
    /\ UNCHANGED <<posts, images, visitor, edits>>

-----------------------------------------------------------------------------
(* -- listPublishedPosts ------------------------------------------------- *)
(* A hit changes nothing; a miss, or a refusal of Redis, reads the table. *)
ListMiss(v) ==
    /\ visitor[v].step = "idle"
    /\ visitor' = [visitor EXCEPT ![v].step = "select"]
    /\ UNCHANGED <<posts, images, list, editor, edits, overlapped>>

ListSelect(v) ==
    /\ visitor[v].step = "select"
    /\ visitor' = [visitor EXCEPT ![v] = [step |-> "set", items |-> Public, late |-> FALSE]]
    /\ UNCHANGED <<posts, images, list, editor, edits, overlapped>>

ListSet(v) ==
    /\ visitor[v].step = "set"
    /\ \/ list' = Filled(visitor[v].items, visitor[v].late)
       \/ UNCHANGED list
    /\ visitor' = [visitor EXCEPT ![v] = IdleVisitor]
    /\ UNCHANGED <<posts, images, editor, edits, overlapped>>

(* Redis drops the list after its time to live. *)
Expire ==
    /\ list.held /\ list.expires
    /\ list' = NoList
    /\ UNCHANGED <<posts, images, editor, visitor, edits, overlapped>>

EditorStep(e) ==
    \/ UploadRow(e) \/ UploadUndo(e) \/ Resolve(e) \/ InsertPost(e) \/ Write(e) \/ Delete(e)
    \/ Invalidate(e) \/ ReleaseCount(e) \/ DropObject(e) \/ DropRow(e)

VisitorStep(v) == ListSelect(v) \/ ListSet(v)

ContentNext ==
    \/ \E e \in Editors : \/ UploadPut(e) \/ CreateBegin(e) \/ UpdateRead(e) \/ DeleteRead(e)
                          \/ EditorStep(e) \/ EditorAborts(e)
    \/ \E v \in Visitors : ListMiss(v) \/ VisitorStep(v)
    \/ Expire

(* A call that has begun goes on (the event loop resumes every settled     *)
(* promise), and Redis honours the time to live of a key.                  *)
ContentFairness ==
    /\ \A e \in Editors : WF_contentVars(EditorStep(e))
    /\ \A v \in Visitors : WF_contentVars(VisitorStep(v))
    /\ WF_contentVars(Expire)

ContentSpec == ContentInit /\ [][ContentNext]_contentVars /\ ContentFairness

-----------------------------------------------------------------------------
(* The cached list shows what is published, except while a writer has not  *)
(* deleted it yet, when Redis or the process failed that deletion, or when *)
(* it was filled by a visitor who had read the table before the write (the *)
(* fill of listPublishedPosts against invalidateCache of a write).         *)
StaleExplained ==
    list.held => \/ list.items = Public
                 \/ list.late
                 \/ \E e \in Editors : Doing(e, "invalidate")

(* Whatever raced or failed, once staff stop editing the cached list shows *)
(* what is published for good: "TTL will expire stale entries anyway".     *)
ListCatchesUp == <>[](list.held => list.items = Public)

(* The cover of a row can be read, unless a save and a release of the same *)
(* image overlapped, or a release deleted the object and then failed to    *)
(* delete the asset row against which covers are checked.                  *)
CoverExplained ==
    \A p \in Posts : LET i == posts[p].cover IN
        posts[p].is = "there" /\ i # NoCover =>
            images[i] \in {"stored", "row"} \/ i \in overlapped

(* What visitors get differs from the rows only for these reasons          *)
(* (post.service.ts, articleImage.service.ts).                             *)
SiteExplained == StaleExplained /\ CoverExplained
=============================================================================
