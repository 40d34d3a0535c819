--------------------------- MODULE BlobStoreProofs ---------------------------
(***************************************************************************)
(* What TLAPS proves of BlobStore for any accounts, uploads, files, sizes, *)
(* limits and failures, and any set of prompt uploads.                     *)
(***************************************************************************)
EXTENDS BlobStore, FiniteSetTheorems, TLAPS

-----------------------------------------------------------------------------
(* Types.                                                                  *)

\* What an upload goes on to is an upload.
LEMMA ThenType ==
    ASSUME NEW u \in Upload,
           NEW pc \in {"chunk", "object", "row", "post", "abandon", "done"}
    PROVE  Then(u, pc) \in Upload
  BY DEF Then, Upload

\* So is an upload with a field or two of it set.
LEMMA WithType ==
    ASSUME NEW u \in Upload, NEW n \in Nat, NEW S \in SUBSET Ref
    PROVE  /\ [u EXCEPT !.idx = n] \in Upload
           /\ [u EXCEPT !.left = TRUE] \in Upload
           /\ [u EXCEPT !.pc = "batch", !.now = n] \in Upload
           /\ [u EXCEPT !.pc = "evict", !.victims = S] \in Upload
           /\ [u EXCEPT !.pc = "bump", !.found = S] \in Upload
           /\ [u EXCEPT !.pc = "answer", !.found = {}] \in Upload
           /\ [u EXCEPT !.victims = {}, !.found = {}] \in Upload
  <1>1. [u EXCEPT !.idx = n] \in Upload  BY DEF Upload
  <1>2. [u EXCEPT !.left = TRUE] \in Upload  BY DEF Upload
  <1>3. [u EXCEPT !.pc = "batch", !.now = n] \in Upload  BY DEF Upload
  <1>4. [u EXCEPT !.pc = "evict", !.victims = S] \in Upload  BY DEF Upload
  <1>5. [u EXCEPT !.pc = "bump", !.found = S] \in Upload  BY DEF Upload
  <1>6. [u EXCEPT !.pc = "answer", !.found = {}] \in Upload  BY DEF Upload
  <1>7. [u EXCEPT !.victims = {}, !.found = {}] \in Upload  BY DEF Upload
  <1> QED  BY <1>1, <1>2, <1>3, <1>4, <1>5, <1>6, <1>7

\* What the steps that set fields of an upload set.
LEMMA BeginSets ==
    ASSUME NEW b \in Blobs, Begin(b)
    PROVE  \E f \in Files, n \in 1..MaxChunks :
              up' = [up EXCEPT ![b] = [up[b] EXCEPT !.pc = "room", !.file = f, !.chunks = n]]
  <1>1. PICK f \in Files, n \in 1..MaxChunks :
            up' = [up EXCEPT ![b].pc = "room", ![b].file = f, ![b].chunks = n]
    BY DEF Begin
  <1>2. up' = [up EXCEPT ![b] = [up[b] EXCEPT !.pc = "room", !.file = f, !.chunks = n]]
    BY <1>1
  <1> QED  BY <1>2

LEMMA OnwardType == ASSUME NEW u \in Upload PROVE Onward(u) \in Upload
  <1>1. u.idx + 1 \in Nat  BY DEF Upload
  <1>2. NextChunk(u) = [u EXCEPT !.idx = u.idx + 1]  BY DEF NextChunk
  <1>3. NextChunk(u) \in Upload  BY <1>1, <1>2, WithType
  <1> QED  BY <1>3, ThenType DEF Onward

\* And the uploads with one of them another.
LEMMA UpType ==
    ASSUME up \in [Blobs -> Upload], NEW b \in Blobs, NEW u \in Upload
    PROVE  [up EXCEPT ![b] = u] \in [Blobs -> Upload]
  OBVIOUS

\* A clip as read.
LEMMA RefType ==
    ASSUME TypeOK, NEW c \in DOMAIN clips
    PROVE  RefOf(c) \in Ref
  BY DEF TypeOK, RefOf, Ref, Clip

LEMMA TypeInit == Init => TypeOK
  <1> SUFFICES ASSUME Init PROVE TypeOK  OBVIOUS
  <1>1. blobs \in [DOMAIN blobs -> Blob] /\ DOMAIN blobs = {}  BY DEF Init
  <1>2. clips \in [DOMAIN clips -> Clip] /\ DOMAIN clips = {}  BY DEF Init
  <1>3. (CHOOSE f \in Files : TRUE) \in Files  BY FilesAssumption
  <1>4. up \in [Blobs -> Upload]
    BY <1>3, ChunksAssumption DEF Init, Upload
  <1> QED  BY <1>1, <1>2, <1>4, LimitsAssumption DEF Init, TypeOK

LEMMA TypeStep == TypeOK /\ [Next]_vars => TypeOK'
  <1> SUFFICES ASSUME TypeOK, [Next]_vars PROVE TypeOK'  OBVIOUS
  <1>0. up \in [Blobs -> Upload] /\ \A b \in Blobs : up[b] \in Upload  BY DEF TypeOK
  <1> USE DEF TypeOK
  <1>1. ASSUME NEW b \in Blobs, Begin(b) PROVE TypeOK'
    <2>1. PICK f \in Files, n \in 1..MaxChunks :
              up' = [up EXCEPT ![b] = [up[b] EXCEPT !.pc = "room", !.file = f, !.chunks = n]]
      BY <1>1, BeginSets
    <2>2. [up[b] EXCEPT !.pc = "room", !.file = f, !.chunks = n] \in Upload
      BY <1>0 DEF Upload
    <2>3. up' \in [Blobs -> Upload]  BY <1>0, <2>1, <2>2, UpType
    <2> QED  BY <1>1, <2>3 DEF Begin, table, budget
  <1>2. ASSUME NEW b \in Blobs, Reserve(b) PROVE TypeOK'
    <2>1. [chunks |-> up[b].chunks, attached |-> FALSE] \in Blob  BY DEF Upload, Blob
    <2> QED  BY <1>2, <2>1, ThenType DEF Reserve, Goes, budget
  <1>3. ASSUME NEW b \in Blobs, ReadVictims(b) PROVE TypeOK'
    <2>1. {RefOf(c) : c \in Oldest(Evictable(Owner[b]))} \subseteq Ref
      BY RefType DEF Oldest, Evictable, Ours
    <2>2. up' = [up EXCEPT ![b] =
                    [up[b] EXCEPT !.pc = "evict",
                                  !.victims = {RefOf(c) : c \in Oldest(Evictable(Owner[b]))}]]
      BY <1>3 DEF ReadVictims
    <2>3. up' \in [Blobs -> Upload]  BY <1>0, <2>1, <2>2, WithType, UpType
    <2> QED  BY <1>3, <2>3 DEF ReadVictims, table, budget
  <1>4. ASSUME NEW b \in Blobs, Evict(b) PROVE TypeOK'
    <2>1. Deleting(b, {v.blob : v \in up[b].victims}) \in Drop
      BY DEF Deleting, Drop, Upload, Ref
    <2>2. up' \in [Blobs -> Upload]  BY <1>4 DEF Evict, Upload
    <2> QED  BY <1>4, <2>1, <2>2 DEF Evict, Without, budget
  <1>5. ASSUME NEW b \in Blobs, NoRoom(b) PROVE TypeOK'
    BY <1>5, ThenType DEF NoRoom, Goes, table, budget
  <1>6. ASSUME NEW b \in Blobs, CheckChunk(b) PROVE TypeOK'
    <2>1. mine' \in [Accounts -> Nat] /\ spent' \in Nat
      BY <1>6, OwnerAssumption DEF CheckChunk, Spend
    <2> QED  BY <1>6, <2>1, ThenType DEF CheckChunk, Goes, table
  <1>7. ASSUME NEW b \in Blobs, RefuseChunk(b) PROVE TypeOK'
    BY <1>7, ThenType DEF RefuseChunk, Goes, table, budget
  <1>8. ASSUME NEW b \in Blobs, PutObject(b) PROVE TypeOK'
    <2>1. <<b, up[b].idx>> \in Blobs \X Nat  BY DEF Upload
    <2> QED  BY <1>8, <2>1, ThenType DEF PutObject, Goes, table, budget
  <1>9. ASSUME NEW b \in Blobs, PutRow(b) PROVE TypeOK'
    <2>1. up[b].idx \in Nat  BY DEF Upload
    <2>2. PICK u \in Upload : up' = [up EXCEPT ![b] = u]
      BY <1>0, <1>9, OnwardType, ThenType DEF PutRow, Goes
    <2>5. up' \in [Blobs -> Upload]  BY <1>0, <2>2, UpType
    <2>4. rows' \subseteq (DOMAIN blobs') \X Nat  BY <1>9, <2>1 DEF PutRow
    <2> QED  BY <1>9, <2>4, <2>5 DEF PutRow, budget
  <1>10. ASSUME NEW b \in Blobs, ReadBlob(b) PROVE TypeOK'
    <2>1. up' = [up EXCEPT ![b] = [up[b] EXCEPT !.pc = "batch", !.now = clock + 1]]
      BY <1>10 DEF ReadBlob
    <2>3. clock + 1 \in Nat  OBVIOUS
    <2>4. [up[b] EXCEPT !.pc = "batch", !.now = clock + 1] \in Upload
      BY <1>0, <2>3, WithType
    <2>2. up' \in [Blobs -> Upload]  BY <1>0, <2>1, <2>4, UpType
    <2> QED  BY <1>10, <2>2 DEF ReadBlob, table, budget
  <1>11. ASSUME NEW b \in Blobs, RefusePost(b) PROVE TypeOK'
    BY <1>11, ThenType DEF RefusePost, Goes, table, budget
  <1>12. ASSUME NEW b \in Blobs, Attach(b) PROVE blobs' \in [DOMAIN blobs' -> Blob] /\ DOMAIN blobs' = DOMAIN blobs
    BY <1>12 DEF Attach, Blob
  <1>13. ASSUME NEW b \in Blobs, InsertClip(b) PROVE TypeOK'
    <2>1. [owner |-> Owner[b], file |-> up[b].file, blob |-> b,
           pinned |-> FALSE, created |-> up[b].now] \in Clip
      BY OwnerAssumption DEF Clip, Upload
    <2>2. clips' \in [DOMAIN clips' -> Clip] /\ DOMAIN clips' \subseteq Blobs
      BY <1>13, <2>1 DEF InsertClip
    <2> QED  BY <1>12, <1>13, <2>2, ThenType DEF InsertClip, Goes, budget
  <1>14. ASSUME NEW b \in Blobs, FindOnTop(b) PROVE TypeOK'
    <2>1. \A c \in DOMAIN clips : Deleting(b, {Surplus(b, c)}) \in Drop
      BY DEF Deleting, Surplus, Drop
    <2>2. up' \in [Blobs -> Upload]  BY <1>14 DEF FindOnTop, Upload
    <2> QED  BY <1>14, <2>1, <2>2 DEF FindOnTop, Stored, table, budget
  <1>15. ASSUME NEW b \in Blobs, FindBelow(b) PROVE TypeOK'
    <2>1. PICK c \in DOMAIN clips : up' = [up EXCEPT ![b] = [up[b] EXCEPT !.pc = "bump", !.found = {RefOf(c)}]]
      BY <1>15 DEF FindBelow, Stored
    <2>2. up' \in [Blobs -> Upload]  BY <1>0, <2>1, RefType, WithType, UpType
    <2> QED  BY <1>15, <2>2 DEF FindBelow, table, budget
  <1>16. ASSUME NEW b \in Blobs, Bump(b) PROVE TypeOK'
    <2>1. PICK r \in up[b].found :
              /\ clips' = [c \in DOMAIN clips |->
                             IF c = r.id THEN [clips[c] EXCEPT !.blob = b, !.created = up[b].now]
                             ELSE clips[c]]
              /\ drops' = drops \cup {Deleting(b, {r.blob})}
      BY <1>16 DEF Bump
    <2>2. r.blob \in Blobs /\ up[b].now \in Nat  BY <1>0 DEF Upload, Ref
    <2>6. Deleting(b, {r.blob}) \in Drop  BY <2>2 DEF Deleting, Drop
    <2>3. drops' \subseteq Drop  BY <2>1, <2>6
    <2>4. clips' \in [DOMAIN clips' -> Clip] /\ DOMAIN clips' \subseteq Blobs
      BY <2>1, <2>2 DEF Clip
    <2>7. up' = [up EXCEPT ![b] = [up[b] EXCEPT !.pc = "answer", !.found = {}]]
      BY <1>16 DEF Bump
    <2>5. up' \in [Blobs -> Upload]  BY <1>0, <2>7, WithType, UpType
    <2> QED  BY <1>12, <1>16, <2>3, <2>4, <2>5 DEF Bump, budget
  <1>17. ASSUME NEW b \in Blobs, Answer(b) PROVE TypeOK'
    BY <1>17, ThenType DEF Answer, Goes, table, budget
  <1>18. ASSUME NEW b \in Blobs, Abandon(b) PROVE TypeOK'
    <2>1. Deleting(b, {b}) \in Drop  BY DEF Deleting, Drop
    <2> QED  BY <1>18, <2>1, ThenType DEF Abandon, Goes, table, budget
  <1>19. ASSUME NEW b \in Blobs, Vanish(b) PROVE TypeOK'
    BY <1>19 DEF Vanish, table, budget, Upload
  <1>20. ASSUME NEW b \in Blobs, GiveUp(b) PROVE TypeOK'
    <2>1. Deleting(Handler, {b}) \in Drop  BY DEF Deleting, Drop
    <2>3. up' = [up EXCEPT ![b] = [up[b] EXCEPT !.left = TRUE]]  BY <1>20 DEF GiveUp
    <2>2. up' \in [Blobs -> Upload]  BY <1>0, <2>3, WithType, UpType
    <2> QED  BY <1>20, <2>1, <2>2 DEF GiveUp, table, budget
  <1>21. ASSUME NEW b \in Blobs, RequestFails(b) PROVE TypeOK'
    <2>1. [up[b] EXCEPT !.victims = {}, !.found = {}] \in Upload  BY <1>0, WithType
    <2>2. up' \in [Blobs -> Upload]  BY <1>0, <1>21, <2>1, ThenType, UpType DEF RequestFails
    <2> QED  BY <1>21, <2>2, LimitsAssumption DEF RequestFails, table, budget
  <1>22. ASSUME NEW c \in Blobs, DeleteClip(c) PROVE TypeOK'
    <2>1. Deleting(Handler, {clips[c].blob}) \in Drop
      BY <1>22 DEF DeleteClip, Deleting, Drop, Clip
    <2> QED  BY <1>22, <2>1 DEF DeleteClip, Without, budget
  <1>23. ASSUME NEW c \in Blobs, NEW pin \in BOOLEAN, SetPinned(c, pin) PROVE TypeOK'
    BY <1>23 DEF SetPinned, Clip, budget
  <1>24. ASSUME NEW due, NEW old, Purge(due, old) PROVE TypeOK'
    <2>1. Deleting(Cron, {clips[c].blob : c \in due} \cup old) \in Drop
      BY <1>24 DEF Purge, Old, Deleting, Drop, Clip
    <2> QED  BY <1>24, <2>1 DEF Purge, Without, budget
  <1>25. ASSUME NEW d \in drops, DropStep(d) PROVE TypeOK'
    <2>1. [d EXCEPT !.stage = "rows"] \in Drop  BY DEF Drop
    <2>2. rows' \subseteq (DOMAIN blobs') \X Nat
      BY <1>25 DEF DropStep, ObjectsFirst
    <2> QED  BY <1>25, <2>1, <2>2 DEF DropStep, ObjectsFirst, budget
  <1>26. ASSUME NEW d \in drops, DropFails(d) PROVE TypeOK'
    <2>1. up' \in [Blobs -> Upload]  BY <1>26, ThenType DEF DropFails
    <2> QED  BY <1>26, <2>1, LimitsAssumption DEF DropFails, table, budget
  <1>27. CASE UNCHANGED vars
    BY <1>27 DEF vars, table, budget
  <1> QED
    BY <1>1, <1>2, <1>3, <1>4, <1>5, <1>6, <1>7, <1>8, <1>9, <1>10, <1>11, <1>13,
       <1>14, <1>15, <1>16, <1>17, <1>18, <1>19, <1>20, <1>21, <1>22, <1>23,
       <1>24, <1>25, <1>26, <1>27
    DEF Next, UploadStep, Sweep, Expire

\* Every variable holds what the code keeps there.
THEOREM TypeCorrect == Spec => []TypeOK
  BY TypeInit, TypeStep, PTL DEF Spec
-----------------------------------------------------------------------------
(* The inductive invariant.  Before WholeClips can be kept, it must be     *)
(* known that a blob some clip names, and one some handler has read or is  *)
(* deleting, is past uploading: no chunk comes and no clip adopts it.      *)

Early == {"none", "room", "evict"}
Sending == {"chunk", "object", "row"}
Uploading == {"chunk", "object", "row", "post", "batch", "bump"}
Over == {"answer", "abandon", "done"}

\* The clips an upload's handler has read and goes on to write by id.
RefsOf(u) == up[u].victims \cup up[u].found

\* The size reserved is the size sent, and what is sent is within it.
ChunksAgree ==
    \A b \in Blobs :
        /\ b \in DOMAIN blobs => up[b].pc \notin Early /\ blobs[b].chunks = up[b].chunks
        /\ up[b].pc \in Early => up[b].idx = 0
        /\ up[b].pc \in Sending => up[b].idx < up[b].chunks

\* A clip is of its uploader's account, and no two name one blob.
NamedOnce ==
    /\ \A c \in DOMAIN clips : /\ clips[c].owner = Owner[c]
                               /\ up[c].pc \in Over
                               /\ up[clips[c].blob].pc \in Over
    /\ \A c, e \in DOMAIN clips : clips[c].blob = clips[e].blob => c = e

\* A clip as read may be gone or name another blob by now, but no other clip
\* has come to name the blob it had.
RefsKnow ==
    \A u \in Blobs : \A r \in RefsOf(u) :
        /\ up[r.blob].pc \in Over
        /\ Owner[r.id] = Owner[u]
        /\ \A c \in DOMAIN clips : clips[c].blob = r.blob => c = r.id

\* What is being deleted of prompt uploads is no clip's, and its rows go only
\* when its objects have gone.
DropsKnow ==
    \A d \in drops : \A b \in d.blobs \cap Prompt :
        /\ up[b].pc \in Over
        /\ \A c \in DOMAIN clips : clips[c].blob # b
        /\ d.stage = "rows" => \A k \in objects : k[1] # b

\* How far a prompt upload's rows and objects have got.
Progress ==
    \A b \in Prompt :
        /\ up[b].pc \in Uploading => Unadopted(b)
        /\ up[b].pc \notin Over => \A r \in rows : r[1] = b => r \in objects
        /\ up[b].pc = "row" => <<b, up[b].idx>> \in objects
        /\ up[b].pc \in {"batch", "bump"} => Keys(b) \subseteq rows
        /\ b \in DOMAIN blobs => \A k \in objects : k[1] = b => k \in Keys(b)

IInv == /\ TypeOK /\ ChunksAgree /\ NamedOnce /\ RefsKnow /\ DropsKnow /\ Progress
        /\ WholeClips /\ ObjectsHaveRows

-----------------------------------------------------------------------------
(* What a step does to an upload, and which steps touch each table.        *)

Flow(x) ==
    /\ up[x].pc \in Over => up'[x].pc \in Over
    /\ up[x].pc # "none" => up'[x].chunks = up[x].chunks
    /\ up'[x].pc \in Early => up[x].pc \in Early /\ up'[x].idx = up[x].idx
    /\ up'[x].pc \in Uploading => up[x].pc \in Uploading \/ Reserve(x)
    /\ up'[x].pc \in Sending =>
          \/ (up[x].pc \in Sending \/ Reserve(x)) /\ up'[x].idx = up[x].idx
          \/ /\ PutRow(x)
             /\ up'[x].idx = up[x].idx + 1 /\ up'[x].idx # up[x].chunks
    /\ up'[x].pc = "row" => (up[x].pc = "row" \/ PutObject(x)) /\ up'[x].idx = up[x].idx
    /\ up'[x].pc = "object" => up[x].pc = "object" \/ CheckChunk(x)
    /\ up'[x].pc \in {"batch", "bump"} => up[x].pc \in {"batch", "bump"} \/ ReadBlob(x)
    /\ RefsOf(x)' \subseteq RefsOf(x) \/ ReadVictims(x) \/ FindBelow(x)

LEMMA SameFlows == ASSUME NEW x, up'[x] = up[x] PROVE Flow(x)
  BY DEF Flow, RefsOf, Over, Early, Uploading, Sending

\* An upload sent on by Then keeps everything but its pc.
LEMMA ThenKeeps ==
    ASSUME NEW u \in Upload, NEW pc
    PROVE  /\ Then(u, pc).pc \in {pc, "done"}
           /\ Then(u, pc).chunks = u.chunks /\ Then(u, pc).idx = u.idx
           /\ Then(u, pc).victims = u.victims /\ Then(u, pc).found = u.found
  BY DEF Then, Upload

LEMMA GoesKeeps ==
    ASSUME up \in [Blobs -> Upload], NEW b \in Blobs, NEW pc, Goes(b, pc)
    PROVE  /\ up'[b].pc \in {pc, "done"}
           /\ up'[b].chunks = up[b].chunks /\ up'[b].idx = up[b].idx
           /\ RefsOf(b)' = RefsOf(b)
           /\ \A x \in Blobs \ {b} : up'[x] = up[x]
  <1>1. up'[b] = Then(up[b], pc)  BY DEF Goes
  <1>2. up[b] \in Upload  OBVIOUS
  <1>3. \A x \in Blobs \ {b} : up'[x] = up[x]  BY DEF Goes
  <1> QED  BY <1>1, <1>2, <1>3, ThenKeeps DEF RefsOf

\* A step that sends an upload on.
LEMMA GoesFlows ==
    ASSUME up \in [Blobs -> Upload], NEW b \in Blobs, NEW pc, Goes(b, pc),
           up[b].pc \notin Over \/ pc \in Over,
           pc \in Uploading =>
               \/ pc = "chunk" /\ Reserve(b)
               \/ /\ up[b].pc \in Sending /\ pc \in Sending
                  /\ pc = "row" => PutObject(b)
                  /\ pc = "object" => CheckChunk(b),
           pc \notin Early
    PROVE  \A x \in Blobs : Flow(x)
  <1>1. Flow(b)
    BY GoesKeeps DEF Flow, Over, Early, Uploading, Sending
  <1>2. \A x \in Blobs \ {b} : Flow(x)  BY GoesKeeps, SameFlows
  <1> QED  BY <1>1, <1>2

\* Every step lets every upload flow.
LEMMA FlowStep == ASSUME TypeOK, [Next]_vars PROVE \A x \in Blobs : Flow(x)
  <1>0. up \in [Blobs -> Upload] /\ \A b \in Blobs : up[b] \in Upload  BY DEF TypeOK
  <1> DEFINE Flows == \A x \in Blobs : Flow(x)
  <1>1. ASSUME NEW b \in Blobs, Begin(b) PROVE Flows
    <2>1. up'[b].pc = "room" /\ up'[b].idx = up[b].idx /\ RefsOf(b)' = RefsOf(b)
          /\ up[b].pc = "none" /\ \A x \in Blobs \ {b} : up'[x] = up[x]
      <3>1. PICK f \in Files, n \in 1..MaxChunks :
                up' = [up EXCEPT ![b] = [up[b] EXCEPT !.pc = "room", !.file = f, !.chunks = n]]
        BY <1>1, BeginSets
      <3>2. up'[b] = [up[b] EXCEPT !.pc = "room", !.file = f, !.chunks = n]
            /\ up[b].pc = "none" /\ \A x \in Blobs \ {b} : up'[x] = up[x]
        BY <1>0, <1>1, <3>1 DEF Begin
      <3>3. up[b] \in Upload  BY <1>0
      <3> QED  BY <3>2, <3>3 DEF Upload, RefsOf
    <2>2. Flow(b)  BY <2>1 DEF Flow, Over, Early, Uploading, Sending
    <2> QED  BY <2>1, <2>2, SameFlows
  <1>2. ASSUME NEW b \in Blobs, Reserve(b) PROVE Flows
    BY <1>0, <1>2, GoesFlows DEF Reserve, Trying, Over, Early, Sending
  <1>3. ASSUME NEW b \in Blobs, ReadVictims(b) PROVE Flows
    <2>1. up'[b].pc = "evict" /\ up'[b].idx = up[b].idx /\ up'[b].chunks = up[b].chunks
          /\ up[b].pc = "room" /\ \A x \in Blobs \ {b} : up'[x] = up[x]
      BY <1>0, <1>3 DEF ReadVictims, Trying, Upload
    <2>2. Flow(b)  BY <1>3, <2>1 DEF Flow, Over, Early, Uploading, Sending
    <2> QED  BY <2>1, <2>2, SameFlows
  <1>4. ASSUME NEW b \in Blobs, Evict(b) PROVE Flows
    <2>1. up'[b].pc = "room" /\ up'[b].idx = up[b].idx /\ up'[b].chunks = up[b].chunks
          /\ RefsOf(b)' \subseteq RefsOf(b)
          /\ up[b].pc = "evict" /\ \A x \in Blobs \ {b} : up'[x] = up[x]
      <3>1. up'[b] = [up[b] EXCEPT !.pc = "room", !.victims = {}, !.tries = up[b].tries + 1]
            /\ up[b].pc = "evict" /\ \A x \in Blobs \ {b} : up'[x] = up[x]
        BY <1>0, <1>4 DEF Evict
      <3>2. up[b] \in Upload  BY <1>0
      <3> QED  BY <3>1, <3>2 DEF Upload, RefsOf
    <2>2. Flow(b)  BY <2>1 DEF Flow, Over, Early, Uploading, Sending
    <2> QED  BY <2>1, <2>2, SameFlows
  <1>5. ASSUME NEW b \in Blobs, NoRoom(b) PROVE Flows
    BY <1>0, <1>5, GoesFlows DEF NoRoom, Over, Uploading, Early
  <1>6. ASSUME NEW b \in Blobs, CheckChunk(b) PROVE Flows
    BY <1>0, <1>6, GoesFlows DEF CheckChunk, Over, Sending, Early
  <1>7. ASSUME NEW b \in Blobs, RefuseChunk(b) PROVE Flows
    BY <1>0, <1>7, GoesFlows DEF RefuseChunk, Over, Uploading, Early
  <1>8. ASSUME NEW b \in Blobs, PutObject(b) PROVE Flows
    BY <1>0, <1>8, GoesFlows DEF PutObject, Over, Sending, Early
  <1>9. ASSUME NEW b \in Blobs, PutRow(b) PROVE Flows
    <2>1. CASE b \in DOMAIN blobs
      <3>1. up' = [up EXCEPT ![b] = Onward(up[b])] /\ up[b].pc = "row"
        BY <1>9, <2>1 DEF PutRow
      <3>2. NextChunk(up[b]).idx = up[b].idx + 1 /\ NextChunk(up[b]).chunks = up[b].chunks
            /\ NextChunk(up[b]).victims = up[b].victims /\ NextChunk(up[b]).found = up[b].found
        BY <1>0 DEF NextChunk, Upload
      <3>3. up[b].idx + 1 \in Nat  BY <1>0 DEF Upload
      <3>4. NextChunk(up[b]) \in Upload  BY <1>0, <3>3, WithType DEF NextChunk
      <3>5. up'[b].pc \in {"chunk", "post", "done"}
            /\ (up'[b].pc = "chunk" => up[b].idx + 1 # up[b].chunks)
            /\ up'[b].chunks = up[b].chunks /\ up'[b].idx = up[b].idx + 1
            /\ up'[b].victims = up[b].victims /\ up'[b].found = up[b].found
        BY <1>0, <3>1, <3>2, <3>4, ThenKeeps DEF Onward
      <3>6. Flow(b)
        BY <1>9, <3>1, <3>5 DEF Flow, Over, Early, Uploading, Sending, RefsOf
      <3>7. \A x \in Blobs \ {b} : up'[x] = up[x]  BY <1>0, <3>1
      <3> QED  BY <3>6, <3>7, SameFlows
    <2>2. CASE b \notin DOMAIN blobs
      BY <1>0, <1>9, <2>2, GoesFlows DEF PutRow, Over, Uploading, Early
    <2> QED  BY <2>1, <2>2
  <1>10. ASSUME NEW b \in Blobs, ReadBlob(b) PROVE Flows
    <2>1. up'[b].pc = "batch" /\ up'[b].idx = up[b].idx /\ up'[b].chunks = up[b].chunks
          /\ RefsOf(b)' = RefsOf(b)
          /\ up[b].pc = "post" /\ \A x \in Blobs \ {b} : up'[x] = up[x]
      BY <1>0, <1>10 DEF ReadBlob, Upload, RefsOf
    <2>2. Flow(b)  BY <1>10, <2>1 DEF Flow, Over, Early, Uploading, Sending
    <2> QED  BY <2>1, <2>2, SameFlows
  <1>11. ASSUME NEW b \in Blobs, RefusePost(b) PROVE Flows
    BY <1>0, <1>11, GoesFlows DEF RefusePost, Over, Uploading, Early
  <1>12. ASSUME NEW b \in Blobs, InsertClip(b) PROVE Flows
    BY <1>0, <1>12, GoesFlows DEF InsertClip, Over, Uploading, Early
  <1>13. ASSUME NEW b \in Blobs, FindOnTop(b) PROVE Flows
    <2>1. up'[b].pc = "answer" /\ up'[b].idx = up[b].idx /\ up'[b].chunks = up[b].chunks
          /\ RefsOf(b)' = RefsOf(b) /\ \A x \in Blobs \ {b} : up'[x] = up[x]
      BY <1>0, <1>13 DEF FindOnTop, Upload, RefsOf
    <2>2. Flow(b)  BY <2>1 DEF Flow, Over, Early, Uploading, Sending
    <2> QED  BY <2>1, <2>2, SameFlows
  <1>14. ASSUME NEW b \in Blobs, FindBelow(b) PROVE Flows
    <2>1. up'[b].pc = "bump" /\ up'[b].idx = up[b].idx /\ up'[b].chunks = up[b].chunks
          /\ up[b].pc = "batch" /\ \A x \in Blobs \ {b} : up'[x] = up[x]
      BY <1>0, <1>14 DEF FindBelow, Upload
    <2>2. Flow(b)  BY <1>14, <2>1 DEF Flow, Over, Early, Uploading, Sending
    <2> QED  BY <2>1, <2>2, SameFlows
  <1>15. ASSUME NEW b \in Blobs, Bump(b) PROVE Flows
    <2>1. up'[b].pc = "answer" /\ up'[b].idx = up[b].idx /\ up'[b].chunks = up[b].chunks
          /\ RefsOf(b)' \subseteq RefsOf(b) /\ \A x \in Blobs \ {b} : up'[x] = up[x]
      <3>1. up'[b] = [up[b] EXCEPT !.pc = "answer", !.found = {}]
            /\ \A x \in Blobs \ {b} : up'[x] = up[x]
        BY <1>0, <1>15 DEF Bump
      <3>2. up[b] \in Upload  BY <1>0
      <3> QED  BY <3>1, <3>2 DEF Upload, RefsOf
    <2>2. Flow(b)  BY <2>1 DEF Flow, Over, Early, Uploading, Sending
    <2> QED  BY <2>1, <2>2, SameFlows
  <1>16. ASSUME NEW b \in Blobs, Answer(b) PROVE Flows
    BY <1>0, <1>16, GoesFlows DEF Answer, Over, Uploading, Early
  <1>17. ASSUME NEW b \in Blobs, Abandon(b) PROVE Flows
    BY <1>0, <1>17, GoesFlows DEF Abandon, Over, Uploading, Early
  <1>18. ASSUME NEW b \in Blobs, Vanish(b) PROVE Flows
    <2>1. up'[b].pc = "done" /\ up'[b].idx = up[b].idx /\ up'[b].chunks = up[b].chunks
          /\ RefsOf(b)' = RefsOf(b) /\ \A x \in Blobs \ {b} : up'[x] = up[x]
      BY <1>0, <1>18 DEF Vanish, Upload, RefsOf
    <2>2. Flow(b)  BY <2>1 DEF Flow, Over, Early, Uploading, Sending
    <2> QED  BY <2>1, <2>2, SameFlows
  <1>19. ASSUME NEW b \in Blobs, GiveUp(b) PROVE Flows
    <2>1. up'[b].pc = up[b].pc /\ up'[b].idx = up[b].idx /\ up'[b].chunks = up[b].chunks
          /\ RefsOf(b)' = RefsOf(b) /\ \A x \in Blobs \ {b} : up'[x] = up[x]
      BY <1>0, <1>19 DEF GiveUp, Upload, RefsOf
    <2>2. Flow(b)  BY <2>1 DEF Flow, Over, Early, Uploading, Sending
    <2> QED  BY <2>1, <2>2, SameFlows
  <1>20. ASSUME NEW b \in Blobs, RequestFails(b) PROVE Flows
    <2> DEFINE u == [up[b] EXCEPT !.victims = {}, !.found = {}]
    <2>1. u \in Upload /\ u.idx = up[b].idx /\ u.chunks = up[b].chunks
          /\ u.victims = {} /\ u.found = {}
      BY <1>0 DEF Upload
    <2>2. PICK pc \in {"done", "abandon"} : up' = [up EXCEPT ![b] = Then(u, pc)]
      BY <1>20 DEF RequestFails
    <2> HIDE DEF u
    <2>3. up'[b] = Then(u, pc) /\ \A x \in Blobs \ {b} : up'[x] = up[x]  BY <1>0, <2>2
    <2>4. Flow(b)
      BY <2>1, <2>2, <2>3, ThenKeeps DEF Flow, Over, Early, Uploading, Sending, RefsOf
    <2> QED  BY <2>3, <2>4, SameFlows
  <1>21. ASSUME NEW d \in drops, DropFails(d) PROVE Flows
    <2> SUFFICES ASSUME NEW x \in Blobs PROVE Flow(x)  OBVIOUS
    <2>1. up'[x] \in {up[x], Then(up[x], "done"), Then(up[x], "abandon")}
          /\ (up'[x] = up[x] \/ up'[x].pc \in Over)
      BY <1>0, <1>21, ThenKeeps DEF DropFails, Over
    <2>2. up'[x].idx = up[x].idx /\ up'[x].chunks = up[x].chunks /\ RefsOf(x)' = RefsOf(x)
      BY <1>0, <2>1, ThenKeeps DEF RefsOf
    <2>3. CASE up'[x].pc \in Over
      BY <2>2, <2>3 DEF Flow, Over, Early, Uploading, Sending
    <2> QED  BY <2>1, <2>3, SameFlows
  <1>22. CASE up' = up
    BY <1>22, SameFlows
  <1> QED
    BY <1>1, <1>2, <1>3, <1>4, <1>5, <1>6, <1>7, <1>8, <1>9, <1>10, <1>11, <1>12,
       <1>13, <1>14, <1>15, <1>16, <1>17, <1>18, <1>19, <1>20, <1>21, <1>22
    DEF Next, UploadStep, Sweep, Expire, DeleteClip, SetPinned, Purge, DropStep, vars

LEMMA ClipsChange ==
    ASSUME [Next]_vars
    PROVE  \/ clips' = clips
           \/ \E b \in Blobs : Evict(b) \/ InsertClip(b) \/ Bump(b) \/ DeleteClip(b)
           \/ \E b \in Blobs, pin \in BOOLEAN : SetPinned(b, pin)
           \/ \E due \in SUBSET DOMAIN clips, old \in SUBSET Blobs : Purge(due, old)
  BY DEF Next, UploadStep, Sweep, Expire, vars, table, Begin, Reserve, ReadVictims, NoRoom,
         CheckChunk, RefuseChunk, PutObject, PutRow, ReadBlob, RefusePost, FindOnTop,
         FindBelow, Answer, Abandon, Vanish, GiveUp, RequestFails, DropStep, DropFails

LEMMA BlobsChange ==
    ASSUME [Next]_vars
    PROVE  \/ blobs' = blobs
           \/ \E b \in Blobs : Reserve(b) \/ InsertClip(b) \/ Bump(b)
           \/ \E d \in drops : DropStep(d)
  BY DEF Next, UploadStep, Sweep, Expire, vars, table, Begin, ReadVictims, Evict, NoRoom,
         CheckChunk, RefuseChunk, PutObject, PutRow, ReadBlob, RefusePost, FindOnTop,
         FindBelow, Answer, Abandon, Vanish, GiveUp, RequestFails, DropFails, DeleteClip,
         SetPinned, Purge

LEMMA RowsChange ==
    ASSUME [Next]_vars
    PROVE  \/ rows' = rows
           \/ \E b \in Blobs : PutRow(b)
           \/ \E d \in drops : DropStep(d)
  BY DEF Next, UploadStep, Sweep, Expire, vars, table, Begin, Reserve, ReadVictims, Evict,
         NoRoom, CheckChunk, RefuseChunk, PutObject, ReadBlob, RefusePost, InsertClip,
         FindOnTop, FindBelow, Bump, Answer, Abandon, Vanish, GiveUp, RequestFails,
         DropFails, DeleteClip, SetPinned, Purge

LEMMA ObjectsChange ==
    ASSUME [Next]_vars
    PROVE  \/ objects' = objects
           \/ \E b \in Blobs : PutObject(b)
           \/ \E d \in drops : DropStep(d)
  BY DEF Next, UploadStep, Sweep, Expire, vars, table, Begin, Reserve, ReadVictims, Evict,
         NoRoom, CheckChunk, RefuseChunk, PutRow, ReadBlob, RefusePost, InsertClip,
         FindOnTop, FindBelow, Bump, Answer, Abandon, Vanish, GiveUp, RequestFails,
         DropFails, DeleteClip, SetPinned, Purge

LEMMA DropsChange ==
    ASSUME [Next]_vars
    PROVE  \/ drops' \subseteq drops
           \/ \E b \in Blobs : \/ Evict(b) \/ FindOnTop(b) \/ Bump(b) \/ Abandon(b)
                               \/ GiveUp(b) \/ DeleteClip(b)
           \/ \E due \in SUBSET DOMAIN clips, old \in SUBSET Blobs : Purge(due, old)
           \/ \E d \in drops : DropStep(d)
  BY DEF Next, UploadStep, Sweep, Expire, vars, table, Begin, Reserve, ReadVictims, NoRoom,
         CheckChunk, RefuseChunk, PutObject, PutRow, ReadBlob, RefusePost, InsertClip,
         FindBelow, Answer, Vanish, RequestFails, DropFails, SetPinned

\* What becomes of a blob's row.
BlobFlow(x) ==
    /\ x \in DOMAIN blobs' =>
          \/ /\ x \in DOMAIN blobs
             /\ blobs'[x].chunks = blobs[x].chunks
             /\ blobs[x].attached => blobs'[x].attached
             /\ blobs'[x].attached => blobs[x].attached \/ InsertClip(x) \/ Bump(x)
          \/ Reserve(x) /\ blobs'[x] = [chunks |-> up[x].chunks, attached |-> FALSE]
    /\ x \in DOMAIN blobs /\ x \notin DOMAIN blobs' =>
          \E d \in drops : x \in d.blobs /\ d.stage = "rows" /\ DropStep(d)

LEMMA BlobsFlow == ASSUME TypeOK, [Next]_vars PROVE \A x \in Blobs : BlobFlow(x)
  <1> SUFFICES ASSUME NEW x \in Blobs PROVE BlobFlow(x)  OBVIOUS
  <1>1. CASE blobs' = blobs  BY <1>1 DEF BlobFlow
  <1>2. ASSUME NEW b \in Blobs, Reserve(b) PROVE BlobFlow(x)
    BY <1>2 DEF Reserve, BlobFlow
  <1>3. ASSUME NEW b \in Blobs, InsertClip(b) \/ Bump(b) PROVE BlobFlow(x)
    <2>1. Attach(b)  BY <1>3 DEF InsertClip, Bump
    <2>2. DOMAIN blobs' = DOMAIN blobs
          /\ (x \in DOMAIN blobs => blobs'[x] = [blobs[x] EXCEPT !.attached = @ \/ x = b])
      BY <2>1 DEF Attach
    <2>3. x \in DOMAIN blobs => blobs[x] \in Blob  BY DEF TypeOK
    <2>4. x \in DOMAIN blobs => /\ blobs'[x].chunks = blobs[x].chunks
                                /\ blobs'[x].attached = (blobs[x].attached \/ x = b)
      BY <2>2, <2>3 DEF Blob
    <2> QED  BY <1>3, <2>2, <2>4 DEF BlobFlow
  <1>4. ASSUME NEW d \in drops, DropStep(d) PROVE BlobFlow(x)
    <2>1. d.stage \in {"objects", "rows"}  BY DEF TypeOK, Drop
    <2> QED  BY <1>4, <2>1 DEF DropStep, ObjectsFirst, BlobFlow
  <1> QED  BY <1>1, <1>2, <1>3, <1>4, BlobsChange

\* What becomes of the chunks' rows and objects.
RowsFlowed ==
    /\ \A r \in rows' : r \in rows \/ \E b \in Blobs : PutRow(b) /\ r = <<b, up[b].idx>>
    /\ \A r \in rows \ rows' : \E d \in drops : r[1] \in d.blobs

LEMMA RowsFlow == ASSUME TypeOK, [Next]_vars PROVE RowsFlowed
  <1>1. CASE rows' = rows  BY <1>1 DEF RowsFlowed
  <1>2. ASSUME NEW b \in Blobs, PutRow(b) PROVE RowsFlowed
    BY <1>2 DEF PutRow, RowsFlowed
  <1>3. ASSUME NEW d \in drops, DropStep(d) PROVE RowsFlowed
    BY <1>3 DEF DropStep, ObjectsFirst, RowsFlowed
  <1> QED  BY <1>1, <1>2, <1>3, RowsChange

ObjectsFlowed ==
    /\ \A k \in objects' :
          k \in objects \/ \E b \in Blobs : PutObject(b) /\ k = <<b, up[b].idx>>
    /\ \A k \in objects \ objects' : \E d \in drops : k[1] \in d.blobs

LEMMA ObjectsFlow == ASSUME TypeOK, [Next]_vars PROVE ObjectsFlowed
  <1>1. CASE objects' = objects  BY <1>1 DEF ObjectsFlowed
  <1>2. ASSUME NEW b \in Blobs, PutObject(b) PROVE ObjectsFlowed
    BY <1>2 DEF PutObject, ObjectsFlowed
  <1>3. ASSUME NEW d \in drops, DropStep(d) PROVE ObjectsFlowed
    <2>1. \A b \in d.blobs : \A k \in Keys(b) : k[1] \in d.blobs  BY DEF Keys
    <2> QED  BY <1>3, <2>1 DEF DropStep, ObjectsFirst, ObjectsFlowed
  <1> QED  BY <1>1, <1>2, <1>3, ObjectsChange

\* What becomes of the clips: at most one comes to name another blob, that of
\* an upload which has just ended.
KeptClip(c) ==
    c \in DOMAIN clips /\ clips'[c].owner = clips[c].owner /\ clips'[c].blob = clips[c].blob

Named(b, n) ==
    /\ InsertClip(b) \/ Bump(b)
    /\ up[b].pc \in {"batch", "bump"}
    /\ up'[b].pc \in Over
    /\ \A c \in DOMAIN clips' :
          \/ c # n /\ KeptClip(c)
          \/ /\ c = n
             /\ clips'[n].blob = b
             /\ \/ n = b /\ clips'[n].owner = Owner[b]
                \/ n \in DOMAIN clips /\ clips'[n].owner = clips[n].owner

ClipsFlowed ==
    \/ \A c \in DOMAIN clips' : KeptClip(c)
    \/ \E b, n \in Blobs : Named(b, n)

LEMMA InsertNames ==
    ASSUME TypeOK, NEW b \in Blobs, InsertClip(b)
    PROVE  Named(b, b)
  <1>1. up'[b].pc \in Over  BY GoesKeeps DEF TypeOK, InsertClip, Over
  <1>2. \A c \in DOMAIN clips' : \/ c # b /\ KeptClip(c)
                                 \/ c = b /\ clips'[b].blob = b /\ clips'[b].owner = Owner[b]
    BY DEF InsertClip, KeptClip
  <1> QED  BY <1>1, <1>2 DEF Named, InsertClip

LEMMA BumpNames ==
    ASSUME TypeOK, NEW b \in Blobs, Bump(b)
    PROVE  \E r \in up[b].found :
              /\ Named(b, r.id)
              /\ drops' = drops \cup {Deleting(b, {r.blob})}
  <1>1. PICK r \in up[b].found :
            /\ clips' = [c \in DOMAIN clips |->
                           IF c = r.id THEN [clips[c] EXCEPT !.blob = b, !.created = up[b].now]
                           ELSE clips[c]]
            /\ drops' = drops \cup {Deleting(b, {r.blob})}
    BY DEF Bump
  <1>2. up'[b].pc \in Over  BY DEF TypeOK, Upload, Bump, Over
  <1>3. \A c \in DOMAIN clips : clips[c] \in Clip  BY DEF TypeOK
  <1>4. \A c \in DOMAIN clips' :
            \/ c # r.id /\ KeptClip(c)
            \/ /\ c = r.id /\ clips'[c].blob = b
               /\ c \in DOMAIN clips /\ clips'[c].owner = clips[c].owner
    BY <1>1, <1>3 DEF KeptClip, Clip
  <1>5. Named(b, r.id)  BY <1>2, <1>4 DEF Named, Bump
  <1> QED  BY <1>1, <1>5

LEMMA RefsType ==
    ASSUME TypeOK, NEW u \in Blobs, NEW r \in RefsOf(u)
    PROVE  r \in Ref /\ r.id \in Blobs /\ r.blob \in Blobs
  BY DEF TypeOK, Upload, RefsOf, Ref

LEMMA ClipsFlow == ASSUME TypeOK, [Next]_vars PROVE ClipsFlowed
  <1>1. CASE clips' = clips  BY <1>1 DEF ClipsFlowed, KeptClip
  <1>2. ASSUME NEW S, clips' = Without(S) PROVE ClipsFlowed
    BY <1>2 DEF Without, ClipsFlowed, KeptClip
  <1>3. ASSUME NEW b \in Blobs, InsertClip(b) PROVE ClipsFlowed
    BY <1>3, InsertNames DEF ClipsFlowed
  <1>4. ASSUME NEW b \in Blobs, Bump(b) PROVE ClipsFlowed
    BY <1>4, BumpNames, RefsType DEF ClipsFlowed, RefsOf
  <1>5. ASSUME NEW b \in Blobs, NEW pin \in BOOLEAN, SetPinned(b, pin) PROVE ClipsFlowed
    <2>1. \A c \in DOMAIN clips : clips[c] \in Clip  BY DEF TypeOK
    <2>2. \A c \in DOMAIN clips' : KeptClip(c)
      BY <1>5, <2>1 DEF SetPinned, KeptClip, Clip
    <2> QED  BY <2>2 DEF ClipsFlowed
  <1> QED
    BY <1>1, <1>2, <1>3, <1>4, <1>5, ClipsChange DEF Evict, DeleteClip, Purge

-----------------------------------------------------------------------------
(* The invariant is kept, part by part.                                    *)

LEMMA ChunksKept == ASSUME IInv, [Next]_vars PROVE ChunksAgree'
  <1>1. TypeOK /\ ChunksAgree  BY DEF IInv
  <1>2. \A x \in Blobs : Flow(x) /\ BlobFlow(x)  BY <1>1, FlowStep, BlobsFlow
  <1>3. \A b \in Blobs : up[b].chunks \in Nat \ {0} /\ up[b].idx \in Nat
    BY <1>1 DEF TypeOK, Upload
  <1> SUFFICES ASSUME NEW b \in Blobs
               PROVE /\ b \in DOMAIN blobs' => up'[b].pc \notin Early
                                               /\ blobs'[b].chunks = up'[b].chunks
                     /\ up'[b].pc \in Early => up'[b].idx = 0
                     /\ up'[b].pc \in Sending => up'[b].idx < up'[b].chunks
    BY DEF ChunksAgree
  <1>4. ASSUME Reserve(b) PROVE up[b].pc = "room" /\ up'[b].pc \notin Early
    BY <1>1, <1>4, GoesKeeps DEF Reserve, Trying, TypeOK, Early
  <1>5. b \in DOMAIN blobs' => up'[b].pc \notin Early /\ blobs'[b].chunks = up'[b].chunks
    <2>1. CASE Reserve(b) /\ blobs'[b] = [chunks |-> up[b].chunks, attached |-> FALSE]
      BY <1>2, <1>4, <2>1 DEF Flow
    <2>2. CASE b \in DOMAIN blobs /\ blobs'[b].chunks = blobs[b].chunks
      BY <1>1, <1>2, <2>2 DEF Flow, ChunksAgree, Early
    <2> QED  BY <1>2, <2>1, <2>2 DEF BlobFlow
  <1>6. up'[b].pc \in Early => up'[b].idx = 0
    BY <1>1, <1>2 DEF ChunksAgree, Flow
  <1>7. ASSUME up'[b].pc \in Sending PROVE up'[b].idx < up'[b].chunks
    <2>1. CASE up[b].pc \in Sending /\ up'[b].idx = up[b].idx
      BY <1>1, <1>2, <2>1 DEF ChunksAgree, Flow, Sending
    <2>2. CASE Reserve(b) /\ up'[b].idx = up[b].idx
      BY <1>1, <1>2, <1>3, <1>4, <2>2 DEF ChunksAgree, Flow, Early
    <2>3. CASE PutRow(b) /\ up'[b].idx = up[b].idx + 1 /\ up'[b].idx # up[b].chunks
      <3>1. up[b].pc = "row"  BY <2>3 DEF PutRow
      <3>2. up[b].idx < up[b].chunks  BY <1>1, <3>1 DEF ChunksAgree, Sending
      <3>3. up'[b].chunks = up[b].chunks  BY <1>2, <3>1 DEF Flow
      <3> QED  BY <1>3, <2>3, <3>2, <3>3
    <2> QED  BY <1>2, <1>7, <2>1, <2>2, <2>3 DEF Flow
  <1> QED  BY <1>5, <1>6, <1>7

LEMMA NamedKept == ASSUME IInv, [Next]_vars PROVE NamedOnce'
  <1>1. TypeOK /\ NamedOnce  BY DEF IInv
  <1>2. \A x \in Blobs : up[x].pc \in Over => up'[x].pc \in Over
    BY <1>1, FlowStep DEF Flow
  <1>3. \A c \in DOMAIN clips : c \in Blobs /\ clips[c].blob \in Blobs
    BY <1>1 DEF TypeOK, Clip
  <1>4. CASE \A c \in DOMAIN clips' : KeptClip(c)
    BY <1>1, <1>2, <1>3, <1>4 DEF KeptClip, NamedOnce
  <1>5. ASSUME NEW b \in Blobs, NEW n \in Blobs, Named(b, n) PROVE NamedOnce'
    <2>1. up[b].pc \notin Over /\ up'[b].pc \in Over  BY <1>5 DEF Named, Over
    <2>2. \A c \in DOMAIN clips : clips[c].blob # b  BY <1>1, <2>1 DEF NamedOnce
    <2>3. \A c \in DOMAIN clips' : \/ c # n /\ KeptClip(c)
                                   \/ c = n /\ clips'[n].blob = b
      BY <1>5 DEF Named
    <2>4. n \in DOMAIN clips' => clips'[n].owner = Owner[n] /\ up'[n].pc \in Over
      BY <1>1, <1>2, <1>5, <2>1 DEF Named, NamedOnce, KeptClip
    <2>5. \A c \in DOMAIN clips' : /\ clips'[c].owner = Owner[c]
                                   /\ up'[c].pc \in Over
                                   /\ up'[clips'[c].blob].pc \in Over
      BY <1>1, <1>2, <1>3, <2>1, <2>3, <2>4 DEF NamedOnce, KeptClip
    <2>6. \A c, e \in DOMAIN clips' : clips'[c].blob = clips'[e].blob => c = e
      BY <1>1, <2>2, <2>3 DEF NamedOnce, KeptClip
    <2> QED  BY <2>5, <2>6 DEF NamedOnce
  <1> QED  BY <1>1, <1>4, <1>5, ClipsFlow DEF ClipsFlowed

\* A clip as read is one no other clip shares its blob with.
LEMMA RefOfKnows ==
    ASSUME TypeOK, NamedOnce, NEW e \in DOMAIN clips
    PROVE  /\ RefOf(e).blob \in Blobs
           /\ up[RefOf(e).blob].pc \in Over
           /\ Owner[RefOf(e).id] = clips[e].owner
           /\ \A c \in DOMAIN clips : clips[c].blob = RefOf(e).blob => c = RefOf(e).id
  BY DEF TypeOK, NamedOnce, RefOf, Clip

LEMMA RefsKept == ASSUME IInv, [Next]_vars PROVE RefsKnow'
  <1>1. TypeOK /\ NamedOnce /\ RefsKnow  BY DEF IInv
  <1>2. \A x \in Blobs : Flow(x)  BY <1>1, FlowStep
  <1> SUFFICES ASSUME NEW u \in Blobs, NEW r \in RefsOf(u)'
               PROVE /\ up'[r.blob].pc \in Over
                     /\ Owner[r.id] = Owner[u]
                     /\ \A c \in DOMAIN clips' : clips'[c].blob = r.blob => c = r.id
    BY DEF RefsKnow
  <1>3. /\ r.blob \in Blobs /\ up[r.blob].pc \in Over
        /\ Owner[r.id] = Owner[u]
        /\ \A c \in DOMAIN clips : clips[c].blob = r.blob => c = r.id
    <2>1. CASE r \in RefsOf(u)  BY <1>1, <2>1, RefsType DEF RefsKnow
    <2>2. CASE ReadVictims(u) /\ r \notin RefsOf(u)
      <3>1. up'[u] = [up[u] EXCEPT !.pc = "evict",
                          !.victims = {RefOf(c) : c \in Oldest(Evictable(Owner[u]))}]
        BY <1>1, <2>2 DEF ReadVictims, TypeOK
      <3>2. up[u] \in Upload  BY <1>1 DEF TypeOK
      <3>3. r \in {RefOf(c) : c \in Oldest(Evictable(Owner[u]))}
        BY <2>2, <3>1, <3>2 DEF RefsOf, Upload
      <3>4. PICK e \in DOMAIN clips : r = RefOf(e) /\ clips[e].owner = Owner[u]
        BY <3>3 DEF Oldest, Evictable, Ours
      <3> QED  BY <1>1, <3>4, RefOfKnows
    <2>3. CASE FindBelow(u) /\ r \notin RefsOf(u)
      <3>1. PICK e \in Stored(Owner[u], up[u].file) :
                up' = [up EXCEPT ![u] = [up[u] EXCEPT !.pc = "bump", !.found = {RefOf(e)}]]
        BY <2>3 DEF FindBelow
      <3>2. up'[u] = [up[u] EXCEPT !.pc = "bump", !.found = {RefOf(e)}] /\ up[u] \in Upload
        BY <1>1, <3>1 DEF TypeOK
      <3>3. r = RefOf(e)  BY <2>3, <3>2 DEF RefsOf, Upload
      <3>4. e \in DOMAIN clips /\ clips[e].owner = Owner[u]  BY DEF Stored
      <3> QED  BY <1>1, <3>3, <3>4, RefOfKnows
    <2> QED  BY <1>2, <2>1, <2>2, <2>3 DEF Flow
  <1>4. up'[r.blob].pc \in Over  BY <1>2, <1>3 DEF Flow
  <1>5. \A c \in DOMAIN clips' : clips'[c].blob = r.blob => c = r.id
    <2>1. CASE \A c \in DOMAIN clips' : KeptClip(c)  BY <1>3, <2>1 DEF KeptClip
    <2>2. ASSUME NEW b \in Blobs, NEW n \in Blobs, Named(b, n)
          PROVE \A c \in DOMAIN clips' : clips'[c].blob = r.blob => c = r.id
      <3>1. r.blob # b  BY <1>3, <2>2 DEF Named, Over
      <3> QED  BY <1>3, <2>2, <3>1 DEF Named, KeptClip
    <2> QED  BY <1>1, <2>1, <2>2, ClipsFlow DEF ClipsFlowed
  <1> QED  BY <1>3, <1>4, <1>5

\* What is being deleted of a prompt upload is never one still under way, so
\* its rows and objects stay.
LEMMA Undropped ==
    ASSUME DropsKnow, NEW b \in Prompt, up[b].pc \notin Over, NEW d \in drops
    PROVE  b \notin d.blobs
  BY DEF DropsKnow

LEMMA UnadoptedKept ==
    ASSUME IInv, [Next]_vars, NEW b \in Prompt, up'[b].pc \in Uploading
    PROVE  Unadopted(b)'
  <1>1. TypeOK /\ ChunksAgree /\ DropsKnow /\ Progress /\ b \in Blobs
    BY PromptAssumption DEF IInv
  <1>2. Flow(b) /\ BlobFlow(b)  BY <1>1, FlowStep, BlobsFlow
  <1>3. ~InsertClip(b) /\ ~Bump(b)
    <2>1. ASSUME InsertClip(b) PROVE up'[b].pc \in Over
      BY <1>1, <2>1, InsertNames DEF Named
    <2>2. ASSUME Bump(b) PROVE up'[b].pc \in Over
      BY <1>1, <2>2, BumpNames DEF Named
    <2> QED  BY <2>1, <2>2 DEF Over, Uploading
  <1>4. CASE Reserve(b)
    BY <1>4 DEF Reserve, Unadopted
  <1>5. CASE up[b].pc \in Uploading
    <2>1. Unadopted(b) /\ up[b].pc \notin Over
      BY <1>1, <1>5 DEF Progress, Uploading, Over
    <2>2. b \in DOMAIN blobs'
      BY <1>1, <1>2, <2>1, Undropped DEF BlobFlow, Unadopted
    <2>3. ~Reserve(b)
      BY <1>5 DEF Reserve, Trying, Uploading
    <2> QED  BY <1>2, <1>3, <2>1, <2>2, <2>3 DEF BlobFlow, Unadopted
  <1> QED  BY <1>2, <1>4, <1>5 DEF Flow

LEMMA ProgressKept == ASSUME IInv, [Next]_vars PROVE Progress'
  <1>1. /\ TypeOK /\ ChunksAgree /\ DropsKnow /\ Progress /\ ObjectsHaveRows
        /\ RowsFlowed /\ ObjectsFlowed
    BY RowsFlow, ObjectsFlow DEF IInv
  <1> SUFFICES ASSUME NEW b \in Prompt
               PROVE /\ up'[b].pc \in Uploading => Unadopted(b)'
                     /\ up'[b].pc \notin Over => \A r \in rows' : r[1] = b => r \in objects'
                     /\ up'[b].pc = "row" => <<b, up'[b].idx>> \in objects'
                     /\ up'[b].pc \in {"batch", "bump"} => Keys(b)' \subseteq rows'
                     /\ b \in DOMAIN blobs' => \A k \in objects' : k[1] = b => k \in Keys(b)'
    BY DEF Progress
  <1>2. b \in Blobs /\ Flow(b) /\ BlobFlow(b)
    BY <1>1, PromptAssumption, FlowStep, BlobsFlow
  <1>3. up'[b].pc \in Uploading => Unadopted(b)'
    BY UnadoptedKept
  <1>4. ASSUME up[b].pc \notin Over
        PROVE /\ \A r \in rows : r[1] = b => r \in rows'
              /\ \A k \in objects : k[1] = b => k \in objects'
    BY <1>1, <1>4, Undropped DEF RowsFlowed, ObjectsFlowed
  <1>5. ASSUME up'[b].pc \notin Over, NEW r \in rows', r[1] = b PROVE r \in objects'
    <2>1. up[b].pc \notin Over  BY <1>2, <1>5 DEF Flow
    <2>2. CASE r \in rows
      BY <1>1, <1>4, <1>5, <2>1, <2>2 DEF Progress
    <2>3. ASSUME NEW x \in Blobs, PutRow(x), r = <<x, up[x].idx>> PROVE r \in objects'
      <3>1. x = b /\ up[b].pc = "row"  BY <1>5, <2>3 DEF PutRow
      <3>2. r \in objects  BY <1>1, <2>3, <3>1 DEF Progress
      <3> QED  BY <1>4, <1>5, <2>1, <3>2
    <2> QED  BY <1>1, <2>2, <2>3 DEF RowsFlowed
  <1>6. ASSUME up'[b].pc = "row" PROVE <<b, up'[b].idx>> \in objects'
    <2>1. CASE PutObject(b)
      BY <1>2, <1>6, <2>1 DEF PutObject, Flow
    <2>2. CASE up[b].pc = "row" /\ up'[b].idx = up[b].idx
      BY <1>1, <1>4, <2>2 DEF Progress, Over
    <2> QED  BY <1>2, <1>6, <2>1, <2>2 DEF Flow
  <1>7. ASSUME up'[b].pc \in {"batch", "bump"} PROVE Keys(b)' \subseteq rows'
    <2>1. up[b].pc \in {"batch", "bump"} \/ ReadBlob(b)  BY <1>2, <1>7 DEF Flow
    <2>2. Keys(b) \subseteq rows /\ up[b].pc \in {"post", "batch", "bump"}
      BY <1>1, <2>1 DEF Progress, ReadBlob, Complete
    <2>3. b \in DOMAIN blobs'  BY <1>3, <1>7 DEF Uploading, Unadopted
    <2>4. ~Reserve(b)  BY <2>2 DEF Reserve, Trying
    <2>5. Keys(b)' = Keys(b)  BY <1>2, <2>3, <2>4 DEF BlobFlow, Keys
    <2>6. \A k \in Keys(b) : k[1] = b  BY DEF Keys
    <2> QED  BY <1>4, <2>2, <2>5, <2>6 DEF Over
  <1>8. ASSUME b \in DOMAIN blobs', NEW k \in objects', k[1] = b PROVE k \in Keys(b)'
    <2>1. CASE Reserve(b)
      <3>1. up[b].pc = "room"  BY <2>1 DEF Reserve, Trying
      <3>2. b \notin DOMAIN blobs  BY <1>1, <1>2, <3>1 DEF ChunksAgree, Early
      <3>3. k \notin objects  BY <1>1, <1>8, <3>2 DEF ObjectsHaveRows
      <3>4. objects' = objects  BY <2>1 DEF Reserve
      <3> QED  BY <1>8, <3>3, <3>4
    <2>2. CASE b \in DOMAIN blobs /\ blobs'[b].chunks = blobs[b].chunks
      <3>1. Keys(b)' = Keys(b)  BY <2>2 DEF Keys
      <3>2. CASE k \in objects  BY <1>1, <1>8, <2>2, <3>1, <3>2 DEF Progress
      <3>3. ASSUME NEW x \in Blobs, PutObject(x), k = <<x, up[x].idx>> PROVE k \in Keys(b)
        <4>1. x = b /\ up[b].pc = "object"  BY <1>8, <3>3 DEF PutObject
        <4>2. up[b].idx < blobs[b].chunks  BY <1>1, <1>2, <2>2, <4>1 DEF ChunksAgree, Sending
        <4>3. up[b].idx \in Nat /\ blobs[b].chunks \in Nat
          BY <1>1, <1>2, <2>2 DEF TypeOK, Upload, Blob
        <4>4. up[b].idx \in 0..(blobs[b].chunks - 1)  BY <4>2, <4>3
        <4> QED  BY <3>3, <4>1, <4>4 DEF Keys
      <3> QED  BY <1>1, <3>1, <3>2, <3>3 DEF ObjectsFlowed
    <2> QED  BY <1>2, <1>8, <2>1, <2>2 DEF BlobFlow
  <1> QED  BY <1>3, <1>5, <1>6, <1>7, <1>8

\* A clip that names a prompt upload's blob has it, so what the sweep or its
\* client finds unadopted is no clip's.
LEMMA UnadoptedUnnamed ==
    ASSUME WholeClips, NEW b \in Prompt, ~Attached(b), NEW c \in DOMAIN clips
    PROVE  clips[c].blob # b
  BY DEF WholeClips, Whole

LEMMA WholeKept == ASSUME IInv, [Next]_vars PROVE WholeClips'
  <1>1. /\ TypeOK /\ ChunksAgree /\ NamedOnce /\ DropsKnow /\ Progress /\ WholeClips
        /\ RowsFlowed /\ ObjectsFlowed /\ ClipsFlowed
    BY RowsFlow, ObjectsFlow, ClipsFlow DEF IInv
  <1>0. TypeOK'  BY <1>1, TypeStep
  <1> SUFFICES ASSUME NEW c \in Blobs, NEW b \in Prompt,
                      c \in DOMAIN clips', b = clips'[c].blob
               PROVE Attached(b)' /\ Keys(b)' \subseteq rows' \cap objects'
    BY <1>0 DEF WholeClips, Whole, TypeOK
  <1>2. b \in Blobs /\ BlobFlow(b)  BY <1>1, PromptAssumption, BlobsFlow
  <1>3. ASSUME b \in DOMAIN blobs, Keys(b) \subseteq rows \cap objects, ~Reserve(b),
               \A d \in drops : b \notin d.blobs
        PROVE /\ b \in DOMAIN blobs' /\ Keys(b)' \subseteq rows' \cap objects'
              /\ blobs[b].attached => blobs'[b].attached
    <2>1. b \in DOMAIN blobs' /\ blobs'[b].chunks = blobs[b].chunks
          /\ (blobs[b].attached => blobs'[b].attached)
      BY <1>2, <1>3 DEF BlobFlow
    <2>2. Keys(b)' = Keys(b)  BY <2>1 DEF Keys
    <2>3. \A k \in Keys(b) : k[1] = b  BY DEF Keys
    <2>4. Keys(b) \subseteq rows' \cap objects'
      BY <1>1, <1>3, <2>3 DEF RowsFlowed, ObjectsFlowed
    <2> QED  BY <2>1, <2>2, <2>4
  <1>4. CASE KeptClip(c)
    <2>1. c \in DOMAIN clips /\ clips[c].blob = b  BY <1>4 DEF KeptClip
    <2>2. Attached(b) /\ Keys(b) \subseteq rows \cap objects
      BY <1>1, <2>1 DEF WholeClips, Whole
    <2>3. \A d \in drops : b \notin d.blobs  BY <1>1, <2>1 DEF DropsKnow
    <2>4. ~Reserve(b)
      BY <1>1, <1>2, <2>2 DEF Reserve, Trying, ChunksAgree, Attached, Early
    <2> QED  BY <1>3, <2>2, <2>3, <2>4 DEF Attached
  <1>5. ASSUME NEW x \in Blobs, NEW n \in Blobs, Named(x, n), c = n, b = x
        PROVE Attached(b)' /\ Keys(b)' \subseteq rows' \cap objects'
    <2>1. up[b].pc \in {"batch", "bump"} /\ (InsertClip(b) \/ Bump(b))
      BY <1>5 DEF Named
    <2>2. Unadopted(b) /\ Keys(b) \subseteq rows
      BY <1>1, <2>1 DEF Progress, Uploading
    <2>3. \A k \in Keys(b) : k[1] = b  BY DEF Keys
    <2>4. Keys(b) \subseteq rows \cap objects
      BY <1>1, <2>1, <2>2, <2>3 DEF Progress, Over
    <2>5. \A d \in drops : b \notin d.blobs  BY <1>1, <2>1, Undropped DEF Over
    <2>6. ~Reserve(b)  BY <2>1 DEF Reserve, Trying
    <2>7. b \in DOMAIN blobs' /\ Keys(b)' \subseteq rows' \cap objects'
      BY <1>3, <2>2, <2>4, <2>5, <2>6 DEF Unadopted
    <2>8. Attach(b)  BY <2>1 DEF InsertClip, Bump
    <2>9. blobs'[b].attached
      BY <1>1, <2>2, <2>8 DEF Attach, Unadopted, TypeOK, Blob
    <2> QED  BY <2>7, <2>9 DEF Attached
  <1> QED  BY <1>1, <1>4, <1>5 DEF ClipsFlowed, Named

LEMMA ObjectsKept == ASSUME IInv, [Next]_vars PROVE ObjectsHaveRows'
  <1>1. /\ TypeOK /\ DropsKnow /\ Progress /\ ObjectsHaveRows /\ ObjectsFlowed
    BY ObjectsFlow DEF IInv
  <1> SUFFICES ASSUME NEW k \in objects', k[1] \in Prompt PROVE k[1] \in DOMAIN blobs'
    BY DEF ObjectsHaveRows
  <1>2. k[1] \in Blobs /\ BlobFlow(k[1])  BY <1>1, PromptAssumption, BlobsFlow
  <1>3. CASE k \in objects
    <2>1. k[1] \in DOMAIN blobs  BY <1>1, <1>3 DEF ObjectsHaveRows
    <2>2. \A d \in drops : k[1] \in d.blobs => d.stage # "rows"
      BY <1>1, <1>3 DEF DropsKnow
    <2> QED  BY <1>2, <2>1, <2>2 DEF BlobFlow
  <1>4. ASSUME NEW x \in Blobs, PutObject(x), k = <<x, up[x].idx>>
        PROVE k[1] \in DOMAIN blobs'
    <2>1. k[1] = x /\ up[x].pc = "object" /\ blobs' = blobs
      BY <1>4 DEF PutObject, table
    <2>2. Unadopted(x)  BY <1>1, <2>1 DEF Progress, Uploading
    <2> QED  BY <2>1, <2>2 DEF Unadopted
  <1> QED  BY <1>1, <1>3, <1>4 DEF ObjectsFlowed

\* A deletion ordered now of blobs that are no clip's any more.
LEMMA DropsGrow ==
    ASSUME IInv, [Next]_vars, NEW by, NEW S,
           drops' \subseteq drops \cup {Deleting(by, S)},
           \A b \in S \cap Prompt : up'[b].pc \in Over
                                    /\ \A c \in DOMAIN clips' : clips'[c].blob # b
    PROVE  DropsKnow'
  <1>1. TypeOK /\ NamedOnce /\ DropsKnow /\ ClipsFlowed /\ ObjectsFlowed
    BY ClipsFlow, ObjectsFlow DEF IInv
  <1>2. \A x \in Blobs : up[x].pc \in Over => up'[x].pc \in Over
    BY <1>1, FlowStep DEF Flow
  <1> SUFFICES ASSUME NEW d \in drops', NEW b \in d.blobs \cap Prompt
               PROVE /\ up'[b].pc \in Over
                     /\ \A c \in DOMAIN clips' : clips'[c].blob # b
                     /\ d.stage = "rows" => \A k \in objects' : k[1] # b
    BY DEF DropsKnow
  <1>3. CASE d = Deleting(by, S)  BY <1>3 DEF Deleting
  <1>4. CASE d \in drops
    <2>1. /\ up[b].pc \in Over
          /\ \A c \in DOMAIN clips : clips[c].blob # b
          /\ d.stage = "rows" => \A k \in objects : k[1] # b
      BY <1>1, <1>4 DEF DropsKnow
    <2>2. up'[b].pc \in Over  BY <1>2, <2>1, PromptAssumption
    <2>3. \A c \in DOMAIN clips' : clips'[c].blob # b
      BY <1>1, <2>1 DEF ClipsFlowed, KeptClip, Named, Over
    <2>4. \A k \in objects' : k \in objects \/ k[1] # b
      BY <1>1, <2>1 DEF ObjectsFlowed, PutObject, Over
    <2> QED  BY <2>1, <2>2, <2>3, <2>4
  <1> QED  BY <1>3, <1>4

LEMMA DropsKept == ASSUME IInv, [Next]_vars PROVE DropsKnow'
  <1>1. /\ TypeOK /\ ChunksAgree /\ NamedOnce /\ RefsKnow /\ DropsKnow /\ Progress
        /\ WholeClips /\ ObjectsHaveRows
    BY DEF IInv
  <1>2. \A x \in Blobs : Flow(x)  BY <1>1, FlowStep
  <1>3. \A c \in DOMAIN clips : c \in Blobs /\ clips[c].blob \in Blobs
    BY <1>1 DEF TypeOK, Clip
  <1>4. ASSUME drops' \subseteq drops PROVE DropsKnow'
    <2>1. drops' \subseteq drops \cup {Deleting(Cron, {})}  BY <1>4
    <2> QED  BY <2>1, DropsGrow
  <1>5. ASSUME NEW b \in Blobs, Evict(b) PROVE DropsKnow'
    <2> DEFINE S == {v.blob : v \in up[b].victims}
    <2>1. drops' = drops \cup {Deleting(b, S)}  BY <1>5 DEF Evict
    <2>2. ASSUME NEW x \in S \cap Prompt
          PROVE up'[x].pc \in Over /\ \A c \in DOMAIN clips' : clips'[c].blob # x
      <3>1. PICK v \in up[b].victims : x = v.blob  OBVIOUS
      <3>2. /\ up[x].pc \in Over /\ Owner[v.id] = Owner[b]
            /\ \A c \in DOMAIN clips : clips[c].blob = x => c = v.id
        BY <1>1, <3>1 DEF RefsKnow, RefsOf
      <3>3. up'[x].pc \in Over  BY <1>2, <3>2, PromptAssumption DEF Flow
      <3>4. v.id \in DOMAIN clips => v.id \in Ours(Owner[b])
        BY <1>1, <3>2 DEF NamedOnce, Ours
      <3>5. v.id \notin DOMAIN clips'  BY <1>5, <3>1, <3>4 DEF Evict, Without
      <3>6. \A c \in DOMAIN clips' : c \in DOMAIN clips /\ clips'[c] = clips[c]
        BY <1>5 DEF Evict, Without
      <3> QED  BY <3>2, <3>3, <3>5, <3>6
    <2> HIDE DEF S
    <2> QED  BY <2>1, <2>2, DropsGrow
  <1>6. ASSUME NEW b \in Blobs, FindOnTop(b) PROVE DropsKnow'
    <2>1. up[b].pc \notin Over /\ drops' = drops \cup {Deleting(b, {b})} /\ clips' = clips
      BY <1>6 DEF FindOnTop, Over, Surplus, table
    <2>2. up'[b].pc \in Over  BY <1>1, <1>6 DEF FindOnTop, TypeOK, Upload, Over
    <2>3. \A c \in DOMAIN clips' : clips'[c].blob # b  BY <1>1, <2>1 DEF NamedOnce
    <2> QED  BY <2>1, <2>2, <2>3, DropsGrow
  <1>7. ASSUME NEW b \in Blobs, Bump(b) PROVE DropsKnow'
    <2>1. PICK r \in up[b].found : Named(b, r.id) /\ drops' = drops \cup {Deleting(b, {r.blob})}
      BY <1>1, <1>7, BumpNames
    <2>2. /\ r.blob \in Blobs /\ up[r.blob].pc \in Over
          /\ \A c \in DOMAIN clips : clips[c].blob = r.blob => c = r.id
      BY <1>1, RefsType DEF RefsKnow, RefsOf
    <2>3. up'[r.blob].pc \in Over  BY <1>2, <2>2 DEF Flow
    <2>4. r.blob # b  BY <2>1, <2>2 DEF Named, Over
    <2>5. \A c \in DOMAIN clips' : clips'[c].blob # r.blob
      BY <2>1, <2>2, <2>4 DEF Named, KeptClip
    <2> QED  BY <2>1, <2>3, <2>5, DropsGrow
  <1>8. ASSUME NEW b \in Blobs, Abandon(b) PROVE DropsKnow'
    <2>1. up'[b].pc \in Over /\ clips' = clips
      BY <1>1, <1>8, GoesKeeps DEF Abandon, TypeOK, Over, table
    <2>2. CASE ~Unadopted(b)  BY <1>4, <1>8, <2>2 DEF Abandon
    <2>3. CASE Unadopted(b)
      <3>1. drops' = drops \cup {Deleting(b, {b})}  BY <1>8, <2>3 DEF Abandon
      <3>2. ~Attached(b)  BY <2>3 DEF Unadopted, Attached
      <3>3. b \in Prompt => \A c \in DOMAIN clips' : clips'[c].blob # b
        BY <1>1, <2>1, <3>2, UnadoptedUnnamed
      <3> QED  BY <2>1, <3>1, <3>3, DropsGrow
    <2> QED  BY <2>2, <2>3
  <1>9. ASSUME NEW b \in Blobs, GiveUp(b) PROVE DropsKnow'
    <2>1. b \notin Prompt /\ drops' \subseteq drops \cup {Deleting(Handler, {b})}
      BY <1>9 DEF GiveUp
    <2> QED  BY <2>1, DropsGrow
  <1>10. ASSUME NEW e \in Blobs, DeleteClip(e) PROVE DropsKnow'
    <2>1. /\ e \in DOMAIN clips /\ clips' = Without({e})
          /\ drops' = drops \cup {Deleting(Handler, {clips[e].blob})}
      BY <1>10 DEF DeleteClip
    <2>2. up'[clips[e].blob].pc \in Over  BY <1>1, <1>2, <1>3, <2>1 DEF NamedOnce, Flow
    <2>3. \A c \in DOMAIN clips' : clips'[c].blob # clips[e].blob
      BY <1>1, <2>1 DEF NamedOnce, Without
    <2>4. PICK x : x = clips[e].blob  OBVIOUS
    <2>5. drops' \subseteq drops \cup {Deleting(Handler, {x})}  BY <2>1, <2>4
    <2>6. \A b \in {x} \cap Prompt : /\ up'[b].pc \in Over
                                     /\ \A c \in DOMAIN clips' : clips'[c].blob # b
      BY <2>2, <2>3, <2>4
    <2> QED  BY <2>5, <2>6, DropsGrow
  <1>11. ASSUME NEW due \in SUBSET DOMAIN clips, NEW old \in SUBSET Blobs, Purge(due, old)
         PROVE DropsKnow'
    <2> DEFINE S == {clips[c].blob : c \in due} \cup old
    <2>1. drops' = drops \cup {Deleting(Cron, S)} /\ clips' = Without(due) /\ old \subseteq Old
      BY <1>11 DEF Purge
    <2>2. ASSUME NEW x \in S \cap Prompt
          PROVE up'[x].pc \in Over /\ \A c \in DOMAIN clips' : clips'[c].blob # x
      <3>1. CASE x \in old
        <4>1. up[x].pc \in Over /\ ~Attached(x)
          BY <2>1, <3>1 DEF Old, Over, Attached
        <4>2. \A c \in DOMAIN clips : clips[c].blob # x  BY <1>1, <4>1, UnadoptedUnnamed
        <4> QED  BY <1>2, <2>1, <4>1, <4>2, PromptAssumption DEF Without, Flow
      <3>2. ASSUME NEW e \in due, x = clips[e].blob
            PROVE up'[x].pc \in Over /\ \A c \in DOMAIN clips' : clips'[c].blob # x
        <4>1. up'[x].pc \in Over  BY <1>1, <1>2, <1>3, <3>2 DEF NamedOnce, Flow
        <4>2. \A c \in DOMAIN clips' : clips'[c].blob # x
          BY <1>1, <2>1, <3>2 DEF NamedOnce, Without
        <4> QED  BY <4>1, <4>2
      <3> QED  BY <3>1, <3>2
    <2> HIDE DEF S
    <2> QED  BY <2>1, <2>2, DropsGrow
  <1>12. ASSUME NEW e \in drops, DropStep(e) PROVE DropsKnow'
    <2>1. clips' = clips /\ up' = up /\ objects' \subseteq objects
      BY <1>12 DEF DropStep, ObjectsFirst
    <2>2. CASE e.stage = "rows"
      BY <1>4, <1>12, <2>2 DEF DropStep, ObjectsFirst
    <2>3. CASE e.stage = "objects"
      <3>1. /\ objects' = objects \ UNION {Keys(b) : b \in e.blobs \cap DOMAIN blobs}
            /\ drops' = (drops \ {e}) \cup {[e EXCEPT !.stage = "rows"]}
        BY <1>12, <2>3 DEF DropStep, ObjectsFirst
      <3>2. ASSUME NEW b \in e.blobs \cap Prompt, NEW k \in objects' PROVE k[1] # b
        <4>1. CASE b \in DOMAIN blobs
          <5>1. k \notin Keys(b)  BY <3>1, <3>2, <4>1
          <5> QED  BY <1>1, <2>1, <4>1, <5>1, <3>2 DEF Progress
        <4>2. CASE b \notin DOMAIN blobs
          BY <1>1, <2>1, <3>2, <4>2 DEF ObjectsHaveRows
        <4> QED  BY <4>1, <4>2
      <3>3. [e EXCEPT !.stage = "rows"].blobs = e.blobs  BY <1>1 DEF TypeOK, Drop
      <3>4. \A d \in drops' : d \in drops \/ d = [e EXCEPT !.stage = "rows"]  BY <3>1
      <3> SUFFICES ASSUME NEW d \in drops', NEW b \in d.blobs \cap Prompt
                   PROVE /\ up'[b].pc \in Over
                         /\ \A c \in DOMAIN clips' : clips'[c].blob # b
                         /\ d.stage = "rows" => \A k \in objects' : k[1] # b
        BY DEF DropsKnow
      <3>5. CASE d \in drops  BY <1>1, <2>1, <3>5 DEF DropsKnow
      <3>6. CASE d = [e EXCEPT !.stage = "rows"]
        <4>1. b \in e.blobs  BY <3>3, <3>6
        <4> QED  BY <1>1, <2>1, <3>2, <4>1 DEF DropsKnow
      <3> QED  BY <3>4, <3>5, <3>6
    <2> QED  BY <1>1, <2>2, <2>3 DEF TypeOK, Drop
  <1> QED
    BY <1>4, <1>5, <1>6, <1>7, <1>8, <1>9, <1>10, <1>11, <1>12, DropsChange

LEMMA IInvInit == Init => IInv
  <1> SUFFICES ASSUME Init PROVE IInv  OBVIOUS
  <1>1. TypeOK  BY TypeInit
  <1>2. DOMAIN blobs = {} /\ DOMAIN clips = {} /\ rows = {} /\ objects = {} /\ drops = {}
    BY DEF Init
  <1>3. \A b \in Blobs : /\ up[b].pc = "none" /\ up[b].idx = 0
                         /\ up[b].victims = {} /\ up[b].found = {}
    BY DEF Init
  <1>4. ChunksAgree  BY <1>2, <1>3 DEF ChunksAgree, Sending
  <1>5. RefsKnow  BY <1>3 DEF RefsKnow, RefsOf
  <1>6. Progress  BY <1>2, <1>3, PromptAssumption DEF Progress, Uploading
  <1> QED
    BY <1>1, <1>2, <1>4, <1>5, <1>6
    DEF IInv, NamedOnce, DropsKnow, WholeClips, ObjectsHaveRows

LEMMA IInvStep == IInv /\ [Next]_vars => IInv'
  <1> SUFFICES ASSUME IInv, [Next]_vars PROVE IInv'  OBVIOUS
  <1>1. TypeOK'  BY TypeStep DEF IInv
  <1> QED
    BY <1>1, ChunksKept, NamedKept, RefsKept, DropsKept, ProgressKept, WholeKept, ObjectsKept
    DEF IInv

\* The invariant holds of every behaviour, fair or not.
THEOREM Inductive == Spec => []IInv
  BY IInvInit, IInvStep, PTL DEF Spec

\* A clip in history has all its bytes if the upload they came with was
\* prompt, for any accounts, uploads, sizes and failures (clips.ts adopts a
\* blob in the batch that writes the clip and deletes only what a row left).
THEOREM WholeClipsCorrect == Spec => []WholeClips
  <1>1. IInv => WholeClips  BY DEF IInv
  <1> QED  BY <1>1, Inductive, PTL

\* No object of a prompt upload outlives its row, wherever deletions fail
\* (r2.ts:113-116, objects first).
THEOREM ObjectsHaveRowsCorrect == Spec => []ObjectsHaveRows
  <1>1. IInv => ObjectsHaveRows  BY DEF IInv
  <1> QED  BY <1>1, Inductive, PTL

\* No two clips share a blob, so deleting one never takes another's bytes
\* (clips.ts moves a row to the blob its own upload made).
THEOREM NamedOnceCorrect == Spec => []NamedOnce
  <1>1. IInv => NamedOnce  BY DEF IInv
  <1> QED  BY <1>1, Inductive, PTL

-----------------------------------------------------------------------------
(* Room and budgets.  Sums are cardinalities of the chunks, objects and    *)
(* operations they count; that these are finite is part of the invariant,  *)
(* for neither uploads nor accounts need be finitely many.                 *)

RoomInv ==
    /\ TypeOK
    /\ IsFiniteSet(Chunks(DOMAIN blobs))
    /\ IsFiniteSet(objects)
    /\ IsFiniteSet(Writing)
    /\ IsFiniteSet(Charged)
    /\ RoomHolds

\* A blob of n chunks has n keys.
LEMMA KeysCounted ==
    ASSUME NEW b, NEW n \in Nat
    PROVE  LET K == {<<b, i>> : i \in 0..(n - 1)}
           IN  IsFiniteSet(K) /\ Cardinality(K) = n
  <1> DEFINE K == {<<b, i>> : i \in 0..(n - 1)}
             f == [i \in 0..(n - 1) |-> <<b, i>>]
  <1>1. IsFiniteSet(0..(n - 1)) /\ Cardinality(0..(n - 1)) = n  BY FS_Interval
  <1>2. f \in Bijection(0..(n - 1), K)
    BY DEF Bijection, Injection, IsInjective, Surjection
  <1>3. ExistsBijection(0..(n - 1), K)  BY <1>2 DEF ExistsBijection
  <1> QED  BY <1>1, <1>3, FS_Bijection

\* What has no more than two finite sets have together.
LEMMA AtMostBoth ==
    ASSUME NEW S, NEW N, NEW T, IsFiniteSet(S), IsFiniteSet(N), T \subseteq S \cup N
    PROVE  IsFiniteSet(T) /\ Cardinality(T) <= Cardinality(S) + Cardinality(N)
  <1>1. /\ IsFiniteSet(S \cup N)
        /\ Cardinality(S \cup N) = Cardinality(S) + Cardinality(N) - Cardinality(S \cap N)
    BY FS_Union
  <1>2. IsFiniteSet(T) /\ Cardinality(T) <= Cardinality(S \cup N)  BY <1>1, FS_Subset
  <1>3. IsFiniteSet(S \cap N)  BY FS_Intersection
  <1>4. /\ Cardinality(S) \in Nat /\ Cardinality(N) \in Nat /\ Cardinality(T) \in Nat
        /\ Cardinality(S \cap N) \in Nat /\ Cardinality(S \cup N) \in Nat
    BY <1>1, <1>2, <1>3, FS_CardinalityType
  <1> QED  BY <1>1, <1>2, <1>4

LEMMA AtMost ==
    ASSUME NEW S, NEW T, IsFiniteSet(S), T \subseteq S, NEW n \in Nat, Cardinality(S) <= n
    PROVE  IsFiniteSet(T) /\ Cardinality(T) <= n
  <1>1. IsFiniteSet(T) /\ Cardinality(T) <= Cardinality(S)  BY FS_Subset
  <1> QED  BY <1>1, FS_CardinalityType

\* Only a reservation adds chunks, as many as fit; whatever else a step does to
\* the table, it keeps the sizes of the blobs it leaves.
LEMMA RoomKept ==
    ASSUME RoomInv, [Next]_vars
    PROVE  /\ IsFiniteSet(Chunks(DOMAIN blobs))'
           /\ Held(DOMAIN blobs)' <= Ceiling
           /\ \A a \in Accounts : Held(Of(a))' <= Quota
  <1>0. Ceiling \in Nat /\ Quota \in Nat  BY LimitsAssumption
  <1>1. TypeOK /\ DOMAIN blobs \subseteq Blobs /\ DOMAIN blobs' \subseteq Blobs
    BY TypeStep DEF RoomInv, TypeOK
  <1>2. /\ IsFiniteSet(Chunks(DOMAIN blobs)) /\ Cardinality(Chunks(DOMAIN blobs)) <= Ceiling
        /\ \A a \in Accounts : Cardinality(Chunks(Of(a))) <= Quota
    BY DEF RoomInv, RoomHolds, Held
  <1>3. \A a \in Accounts : IsFiniteSet(Chunks(Of(a)))
    <2> SUFFICES ASSUME NEW a \in Accounts PROVE IsFiniteSet(Chunks(Of(a)))  OBVIOUS
    <2>1. Chunks(Of(a)) \subseteq Chunks(DOMAIN blobs)  BY DEF Chunks, Of
    <2> QED  BY <1>2, <2>1, FS_Subset
  <1>4. ASSUME NEW b \in Blobs, Reserve(b)
        PROVE /\ IsFiniteSet(Chunks(DOMAIN blobs))'
              /\ Held(DOMAIN blobs)' <= Ceiling
              /\ \A a \in Accounts : Held(Of(a))' <= Quota
    <2> DEFINE N == {<<b, i>> : i \in 0..(up[b].chunks - 1)}
    <2>1. up[b].chunks \in Nat  BY <1>1 DEF TypeOK, Upload
    <2>2. IsFiniteSet(N) /\ Cardinality(N) = up[b].chunks  BY <2>1, KeysCounted
    <2>3. /\ DOMAIN blobs' = DOMAIN blobs \cup {b}
          /\ blobs'[b].chunks = up[b].chunks
          /\ \A x \in DOMAIN blobs \ {b} : blobs'[x] = blobs[x]
      BY <1>4 DEF Reserve
    <2>4. /\ Cardinality(Chunks(DOMAIN blobs)) + up[b].chunks <= Ceiling
          /\ Cardinality(Chunks(Of(Owner[b]))) + up[b].chunks <= Quota
      BY <1>4 DEF Reserve, Fits, Held
    <2>5. /\ Keys(b)' = N
          /\ \A x \in DOMAIN blobs \ {b} : Keys(x)' = Keys(x)
      BY <2>3 DEF Keys
    <2>6. Chunks(DOMAIN blobs)' \subseteq Chunks(DOMAIN blobs) \cup N
      BY <2>3, <2>5 DEF Chunks
    <2>7. IsFiniteSet(Chunks(DOMAIN blobs)') /\ Cardinality(Chunks(DOMAIN blobs)') <= Ceiling
      <3>1. /\ IsFiniteSet(Chunks(DOMAIN blobs)')
            /\ Cardinality(Chunks(DOMAIN blobs)') <= Cardinality(Chunks(DOMAIN blobs)) + Cardinality(N)
        BY <1>2, <2>2, <2>6, AtMostBoth
      <3>2. Cardinality(Chunks(DOMAIN blobs)') \in Nat /\ Cardinality(Chunks(DOMAIN blobs)) \in Nat
        BY <1>2, <3>1, FS_CardinalityType
      <3> QED  BY <1>0, <2>1, <2>2, <2>4, <3>1, <3>2
    <2>8. ASSUME NEW a \in Accounts PROVE Cardinality(Chunks(Of(a))') <= Quota
      <3>1. Of(a)' = IF a = Owner[b] THEN Of(a) \cup {b} ELSE Of(a) \ {b}
        BY <2>3 DEF Of
      <3>2. CASE a = Owner[b]
        <4>1. Chunks(Of(a))' \subseteq Chunks(Of(a)) \cup N
          BY <2>5, <3>1, <3>2 DEF Chunks, Of
        <4>2. /\ IsFiniteSet(Chunks(Of(a))')
              /\ Cardinality(Chunks(Of(a))') <= Cardinality(Chunks(Of(a))) + Cardinality(N)
          BY <1>3, <2>2, <4>1, AtMostBoth
        <4>3. Cardinality(Chunks(Of(a))') \in Nat /\ Cardinality(Chunks(Of(a))) \in Nat
          BY <1>3, <4>2, FS_CardinalityType
        <4> QED  BY <1>0, <2>1, <2>2, <2>4, <3>2, <4>2, <4>3
      <3>3. CASE a # Owner[b]
        <4>1. Chunks(Of(a))' \subseteq Chunks(Of(a))  BY <2>5, <3>1, <3>3 DEF Chunks, Of
        <4> QED  BY <1>0, <1>2, <1>3, <4>1, AtMost
      <3> QED  BY <3>2, <3>3
    <2> QED  BY <2>7, <2>8 DEF Held
  <1>5. CASE \A b \in Blobs : ~Reserve(b)
    <2>1. \A x \in DOMAIN blobs' : x \in DOMAIN blobs /\ blobs'[x].chunks = blobs[x].chunks
      BY <1>1, <1>5, BlobsFlow DEF BlobFlow
    <2>2. \A x \in DOMAIN blobs' : Keys(x)' = Keys(x)  BY <2>1 DEF Keys
    <2>3. Chunks(DOMAIN blobs)' \subseteq Chunks(DOMAIN blobs)  BY <2>1, <2>2 DEF Chunks
    <2>4. \A a \in Accounts : Chunks(Of(a))' \subseteq Chunks(Of(a))
      BY <2>1, <2>2 DEF Chunks, Of
    <2>5. IsFiniteSet(Chunks(DOMAIN blobs)') /\ Cardinality(Chunks(DOMAIN blobs)') <= Ceiling
      BY <1>0, <1>2, <2>3, AtMost
    <2>6. ASSUME NEW a \in Accounts PROVE Cardinality(Chunks(Of(a))') <= Quota
      BY <1>0, <1>2, <1>3, <2>4, AtMost
    <2> QED  BY <2>5, <2>6 DEF Held
  <1> QED  BY <1>4, <1>5

\* Operations are counted in one place, before the object is written.
LEMMA BudgetChange ==
    ASSUME [Next]_vars, \A b \in Blobs : ~CheckChunk(b)
    PROVE  spent' = spent /\ mine' = mine
  <1>1. ASSUME NEW b \in Blobs, UploadStep(b) PROVE spent' = spent /\ mine' = mine
    BY <1>1 DEF UploadStep, budget, Reserve, ReadVictims, Evict, NoRoom, RefuseChunk,
                PutObject, PutRow, ReadBlob, RefusePost, InsertClip, FindOnTop, FindBelow,
                Bump, Answer, Abandon
  <1>2. ASSUME NEW b \in Blobs,
               Begin(b) \/ Vanish(b) \/ GiveUp(b) \/ RequestFails(b) \/ Sweep(b)
               \/ DeleteClip(b) \/ SetPinned(b, TRUE) \/ SetPinned(b, FALSE)
        PROVE spent' = spent /\ mine' = mine
    BY <1>2 DEF budget, Begin, Vanish, GiveUp, RequestFails, Sweep, Purge, DeleteClip, SetPinned
  <1>3. CASE Expire \/ \E d \in drops : DropStep(d) \/ DropFails(d)
    BY <1>3 DEF budget, Expire, Purge, DropStep, DropFails
  <1>4. CASE UNCHANGED vars  BY <1>4 DEF vars
  <1> QED  BY <1>1, <1>2, <1>3, <1>4 DEF Next

LEMMA WritesKept ==
    ASSUME RoomInv, [Next]_vars
    PROVE  /\ IsFiniteSet(objects') /\ IsFiniteSet(Writing') /\ IsFiniteSet(Charged')
           /\ Cardinality(objects') + Cardinality(Writing') <= spent'
           /\ spent' <= PutBudget
           /\ \A a \in Accounts : mine'[a] <= PutLimit
           /\ spent' = Cardinality(Charged')
  <1>0. PutBudget \in Nat /\ PutLimit \in Nat  BY LimitsAssumption
  <1>1. /\ TypeOK /\ up \in [Blobs -> Upload] /\ spent \in Nat /\ mine \in [Accounts -> Nat]
        /\ IsFiniteSet(objects) /\ IsFiniteSet(Writing) /\ IsFiniteSet(Charged)
        /\ Cardinality(objects) + Cardinality(Writing) <= spent
        /\ spent <= PutBudget
        /\ \A a \in Accounts : mine[a] <= PutLimit
        /\ spent = Cardinality(Charged)
    BY DEF RoomInv, RoomHolds, TypeOK
  <1>2. Cardinality(objects) \in Nat /\ Cardinality(Writing) \in Nat
    BY <1>1, FS_CardinalityType
  <1>3. \A x \in Blobs : up'[x].pc = "object" => up[x].pc = "object" \/ CheckChunk(x)
    BY <1>1, FlowStep DEF Flow
  <1>4. spent' = spent /\ mine' = mine => Charged' = Charged  BY DEF Charged
  <1>5. ASSUME NEW b \in Blobs, CheckChunk(b)
        PROVE /\ IsFiniteSet(objects') /\ IsFiniteSet(Writing') /\ IsFiniteSet(Charged')
              /\ Cardinality(objects') + Cardinality(Writing') <= spent'
              /\ spent' <= PutBudget
              /\ \A a \in Accounts : mine'[a] <= PutLimit
              /\ spent' = Cardinality(Charged')
    <2> DEFINE o == Owner[b]
    <2>1. /\ objects' = objects /\ spent' = spent + 1 /\ spent < PutBudget
          /\ o \in Accounts /\ mine[o] < PutLimit /\ mine' = [mine EXCEPT ![o] = @ + 1]
          /\ Goes(b, "object")
      BY <1>5, OwnerAssumption DEF CheckChunk, Spend, Affords
    <2>2. \A x \in Blobs \ {b} : up'[x] = up[x]  BY <1>1, <2>1, GoesKeeps
    <2>3. Writing' \subseteq Writing \cup {b}  BY <2>2 DEF Writing
    <2>4. IsFiniteSet({b}) /\ Cardinality({b}) = 1  BY FS_Singleton
    <2>5. IsFiniteSet(Writing') /\ Cardinality(Writing') <= Cardinality(Writing) + 1
      BY <1>1, <2>3, <2>4, AtMostBoth
    <2>6. Cardinality(Writing') \in Nat  BY <2>5, FS_CardinalityType
    <2>7. Charged' = Charged \cup {<<o, mine[o] + 1>>}
      <3>1. mine'[o] = mine[o] + 1 /\ \A a \in Accounts \ {o} : mine'[a] = mine[a]
        BY <1>1, <2>1
      <3>2. 1..(mine[o] + 1) = (1..mine[o]) \cup {mine[o] + 1}  BY <1>1, <2>1
      <3> QED  BY <2>1, <3>1, <3>2 DEF Charged
    <2>8. <<o, mine[o] + 1>> \notin Charged  BY <1>1, <2>1 DEF Charged
    <2>9. IsFiniteSet(Charged') /\ Cardinality(Charged') = Cardinality(Charged) + 1
      BY <1>1, <2>7, <2>8, FS_AddElement
    <2>10. \A a \in Accounts : mine'[a] <= PutLimit  BY <1>0, <1>1, <2>1
    <2> QED  BY <1>0, <1>1, <1>2, <2>1, <2>5, <2>6, <2>9, <2>10
  <1>6. ASSUME NEW b \in Blobs, PutObject(b)
        PROVE /\ IsFiniteSet(objects') /\ IsFiniteSet(Writing') /\ spent' = spent /\ mine' = mine
              /\ Cardinality(objects') + Cardinality(Writing') <= spent
    <2> DEFINE k == <<b, up[b].idx>>
    <2>1. objects' = objects \cup {k} /\ up[b].pc = "object" /\ Goes(b, "row")
          /\ spent' = spent /\ mine' = mine
      BY <1>6 DEF PutObject, budget
    <2>2. up'[b].pc # "object" /\ \A x \in Blobs \ {b} : up'[x] = up[x]
      BY <1>1, <2>1, GoesKeeps
    <2>3. Writing' \subseteq Writing \ {b} /\ b \in Writing  BY <2>1, <2>2 DEF Writing
    <2>4. IsFiniteSet(Writing \ {b}) /\ Cardinality(Writing \ {b}) = Cardinality(Writing) - 1
      BY <1>1, <2>3, FS_RemoveElement
    <2>5. IsFiniteSet(Writing') /\ Cardinality(Writing') <= Cardinality(Writing \ {b})
      BY <2>3, <2>4, FS_Subset
    <2>6. IsFiniteSet(objects') /\ Cardinality(objects') <= Cardinality(objects) + 1
      <3>1. IsFiniteSet({k}) /\ Cardinality({k}) = 1  BY FS_Singleton
      <3> HIDE DEF k
      <3> QED  BY <1>1, <2>1, <3>1, AtMostBoth
    <2>7. Cardinality(Writing') \in Nat /\ Cardinality(objects') \in Nat
      BY <2>5, <2>6, FS_CardinalityType
    <2> QED  BY <1>1, <1>2, <2>1, <2>4, <2>5, <2>6, <2>7
  <1>7. ASSUME \A b \in Blobs : ~CheckChunk(b) /\ ~PutObject(b)
        PROVE /\ IsFiniteSet(objects') /\ IsFiniteSet(Writing') /\ spent' = spent /\ mine' = mine
              /\ Cardinality(objects') + Cardinality(Writing') <= spent
    <2>1. Writing' \subseteq Writing  BY <1>3, <1>7 DEF Writing
    <2>2. objects' \subseteq objects  BY <1>1, <1>7, ObjectsFlow DEF ObjectsFlowed
    <2>3. IsFiniteSet(Writing') /\ Cardinality(Writing') <= Cardinality(Writing)
      BY <1>1, <2>1, FS_Subset
    <2>4. IsFiniteSet(objects') /\ Cardinality(objects') <= Cardinality(objects)
      BY <1>1, <2>2, FS_Subset
    <2>5. Cardinality(Writing') \in Nat /\ Cardinality(objects') \in Nat
      BY <2>3, <2>4, FS_CardinalityType
    <2> QED  BY <1>1, <1>2, <1>7, <2>3, <2>4, <2>5, BudgetChange
  <1> QED  BY <1>1, <1>4, <1>5, <1>6, <1>7

LEMMA RoomInit == Init => RoomInv
  <1> SUFFICES ASSUME Init PROVE RoomInv  OBVIOUS
  <1>1. TypeOK  BY TypeInit
  <1>2. /\ DOMAIN blobs = {} /\ objects = {} /\ spent = 0 /\ mine = [a \in Accounts |-> 0]
        /\ \A b \in Blobs : up[b].pc = "none"
    BY DEF Init
  <1>3. Chunks(DOMAIN blobs) = {} /\ \A a \in Accounts : Chunks(Of(a)) = {}
    BY <1>2 DEF Chunks, Of
  <1>4. Writing = {}  BY <1>2 DEF Writing
  <1>5. Charged = {}
    <2>1. 1..0 = {}  OBVIOUS
    <2> QED  BY <1>2, <2>1 DEF Charged
  <1>6. IsFiniteSet({}) /\ Cardinality({}) = 0  BY FS_EmptySet
  <1>7. RoomHolds
    <2>1. Held(DOMAIN blobs) = 0 /\ \A a \in Accounts : Held(Of(a)) = 0
      BY <1>3, <1>6 DEF Held
    <2>2. Cardinality(objects) = 0 /\ Cardinality(Writing) = 0 /\ Cardinality(Charged) = 0
      BY <1>2, <1>4, <1>5, <1>6
    <2> QED  BY <1>2, <2>1, <2>2, LimitsAssumption DEF RoomHolds
  <1> QED  BY <1>1, <1>2, <1>3, <1>4, <1>5, <1>6, <1>7 DEF RoomInv

LEMMA RoomStep == RoomInv /\ [Next]_vars => RoomInv'
  <1> SUFFICES ASSUME RoomInv, [Next]_vars PROVE RoomInv'  OBVIOUS
  <1>1. TypeOK'  BY TypeStep DEF RoomInv
  <1> QED  BY <1>1, RoomKept, WritesKept DEF RoomInv, RoomHolds

\* Neither the worker's ceiling and budget nor a plan's quota and limit is ever
\* overshot, and no object is in the bucket that was not counted, for any
\* number of accounts and uploads at once (r2.ts:43-48, 149-156: what was read
\* and what is written are one conditional statement).
THEOREM RoomHoldsCorrect == Spec => []RoomHolds
  <1>1. RoomInv => RoomHolds  BY DEF RoomInv
  <1> QED  BY <1>1, RoomInit, RoomStep, PTL DEF Spec
=============================================================================
