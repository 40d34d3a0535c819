------------------------------ MODULE BlobStore ------------------------------
(***************************************************************************)
(* The bytes of image and file clips: rows of the database, objects of the *)
(* R2 bucket, and the clips that adopt them.                               *)
(*                                                                         *)
(* packages/client/src/files.ts reserves a blob, puts its chunks one       *)
(* request each, and posts the clip that adopts it.  Every statement the   *)
(* worker makes on the way (routes/blobs.ts, routes/clips.ts, r2.ts,       *)
(* purge.ts) is a step of its own here: a row and its objects never change *)
(* in one transaction, and another upload, a delete, an eviction or the    *)
(* cron may come in between any two of them.                               *)
(*                                                                         *)
(* An upload is named by the id of the blob it makes, and the clip it may  *)
(* insert likewise: each upload posts once.  Sizes are counted in chunks.  *)
(***************************************************************************)
EXTENDS Naturals, FiniteSets
CONSTANTS
    Accounts,
    Files,        \* what may be uploaded: contents, told apart by dedupe tag
    Blobs,        \* ids newId("blob") may draw; bounds the uploads ever begun
    Owner,        \* the account each upload is of
    MaxChunks,    \* bound: the chunks an upload may have (MAX_CHUNKS)
    Handler,      \* who deletes blobs when no upload does: a handler...
    Cron,         \* ...or the hourly cron
    Ceiling,      \* R2_STORAGE_BUDGET_BYTES
    Quota,        \* the plan's storageBytes
    PutBudget,    \* R2_CLASS_A_BUDGET, for the month
    PutLimit,     \* the plan's classA, for the month
    MaxTries,     \* reservations tried before giving up (20)
    MaxVictims,   \* files evicted at a time (10)
    Prompt,       \* uploads that end within the hour the sweep allows them, and
                  \* whose client gives up on no request the worker is serving
    MaxFailures   \* bound: deletions that fail half-way

ASSUME FilesAssumption == Files # {}
ASSUME OwnerAssumption == Owner \in [Blobs -> Accounts]
ASSUME ChunksAssumption == MaxChunks \in Nat \ {0}
ASSUME DeletersAssumption == Handler \notin Blobs /\ Cron \notin Blobs /\ Cron # Handler
ASSUME LimitsAssumption ==
    /\ Ceiling \in Nat /\ Quota \in Nat /\ PutBudget \in Nat /\ PutLimit \in Nat
    /\ MaxTries \in Nat /\ MaxVictims \in Nat \ {0} /\ MaxFailures \in Nat
ASSUME PromptAssumption == Prompt \subseteq Blobs

VARIABLES
    blobs,      \* the blobs table: id |-> its chunks, and has a clip adopted it
    rows,       \* blob_chunks
    objects,    \* the bucket
    clips,      \* image and file clips: id |-> the row's columns used here
    clock,      \* Date.now(), counting the posts that read it
    spent,      \* r2_usage.class_a
    mine,       \* account_usage.class_a
    up,         \* upload |-> how far its client and the worker have got
    drops,      \* calls of deleteBlobs under way
    failures

vars == <<blobs, rows, objects, clips, clock, spent, mine, up, drops, failures>>
table == <<blobs, rows, clips>>
budget == <<spent, mine>>

-----------------------------------------------------------------------------
Clip == [owner : Accounts, file : Files, blob : Blobs, pinned : BOOLEAN, created : Nat]
Blob == [chunks : 1..MaxChunks, attached : BOOLEAN]     \* attached_at IS NOT NULL
Ref == [id : Blobs, blob : Blobs]           \* a clip as some handler read it
Drop == [by : Blobs \cup {Handler, Cron}, blobs : SUBSET Blobs, stage : {"objects", "rows"}]
Upload == [pc : {"none", "room", "evict", "chunk", "object", "row", "post", "batch",
                 "bump", "answer", "abandon", "done"},
           file : Files, chunks : 1..MaxChunks, idx : Nat, tries : Nat, victims : SUBSET Ref,
           now : Nat, found : SUBSET Ref, left : BOOLEAN]

Of(a) == {b \in DOMAIN blobs : Owner[b] = a}
Keys(b) == {<<b, i>> : i \in 0..(blobs[b].chunks - 1)}    \* chunkKey
Chunks(S) == UNION {Keys(b) : b \in S}
Held(S) == Cardinality(Chunks(S))      \* SUM(size): every key is of one chunk
Attached(b) == b \in DOMAIN blobs /\ blobs[b].attached
Unadopted(b) == b \in DOMAIN blobs /\ ~blobs[b].attached
Stored(a, f) == {c \in DOMAIN clips : clips[c].owner = a /\ clips[c].file = f}
Ours(a) == {c \in DOMAIN clips : clips[c].owner = a}
Without(S) == [c \in DOMAIN clips \ S |-> clips[c]]
RefOf(c) == [id |-> c, blob |-> clips[c].blob]

\* The client is gone: nothing follows the request the worker was serving.
Then(u, next) == [u EXCEPT !.pc = IF u.left THEN "done" ELSE next]
Goes(b, next) == up' = [up EXCEPT ![b] = Then(@, next)]

Dropping(b) == \E d \in drops : d.by = b

\* deleteBlobs(ids), awaited by the upload `by` if there is one.
Deleting(by, S) == [by |-> by, blobs |-> S, stage |-> "objects"]

-----------------------------------------------------------------------------
(* Reserving: POST /api/blobs.                                             *)

Begin(b) ==
    /\ up[b].pc = "none"
    /\ \E f \in Files, n \in 1..MaxChunks :
          up' = [up EXCEPT ![b].pc = "room", ![b].file = f, ![b].chunks = n]
    /\ UNCHANGED <<table, objects, clock, budget, drops, failures>>

\* What if only adopted blobs were counted?
FitsBesideAdopted(b) ==
    LET all == {x \in DOMAIN blobs : Attached(x)}
    IN /\ Held(all) + up[b].chunks <= Ceiling
       /\ Held(all \cap Of(Owner[b])) + up[b].chunks <= Quota

\* The INSERT's WHERE clause: under the ceiling and under the quota at once.
Fits(b) ==
    /\ Held(DOMAIN blobs) + up[b].chunks <= Ceiling
    /\ Held(Of(Owner[b])) + up[b].chunks <= Quota

Trying(b) == up[b].pc = "room" /\ ~Dropping(b)

Reserve(b) ==
    /\ Trying(b)
    /\ up[b].tries < MaxTries
    /\ Fits(b)
    /\ blobs' = [x \in DOMAIN blobs \cup {b} |->
                    IF x = b THEN [chunks |-> up[b].chunks, attached |-> FALSE] ELSE blobs[x]]
    /\ Goes(b, "chunk")
    /\ UNCHANGED <<rows, objects, clips, clock, budget, drops, failures>>

\* The uploader's unpinned files, the oldest of them.
Evictable(a) == {c \in Ours(a) : ~clips[c].pinned}
Oldest(S) == {c \in S : Cardinality({x \in S : clips[x].created < clips[c].created}) < MaxVictims}
TooBig(b) == up[b].chunks > Ceiling \/ up[b].chunks > Quota

\* No room: the files to evict are read...
ReadVictims(b) ==
    /\ Trying(b)
    /\ ~TooBig(b)
    /\ up[b].tries < MaxTries
    /\ ~Fits(b)
    /\ Evictable(Owner[b]) # {}
    /\ up' = [up EXCEPT ![b].pc = "evict",
                        ![b].victims = {RefOf(c) : c \in Oldest(Evictable(Owner[b]))}]
    /\ UNCHANGED <<table, objects, clock, budget, drops, failures>>

\* ...and deleted by id, whatever has become of them; then their blobs.
Evict(b) ==
    /\ up[b].pc = "evict"
    /\ clips' = Without({v.id : v \in up[b].victims} \cap Ours(Owner[b]))
    /\ drops' = drops \cup {Deleting(b, {v.blob : v \in up[b].victims})}
    /\ up' = [up EXCEPT ![b].pc = "room", ![b].victims = {}, ![b].tries = @ + 1]
    /\ UNCHANGED <<blobs, rows, objects, clock, budget, failures>>

\* What if it tried for ever?
NoRoomEver(b) ==
    /\ Trying(b)
    /\ TooBig(b) \/ (~Fits(b) /\ Evictable(Owner[b]) = {})
    /\ Goes(b, "done")
    /\ UNCHANGED <<table, objects, clock, budget, drops, failures>>

\* Refused: the client never had a blob, and there is none to delete.
NoRoom(b) ==
    /\ Trying(b)
    /\ \/ TooBig(b)
       \/ up[b].tries = MaxTries
       \/ ~Fits(b) /\ Evictable(Owner[b]) = {}
    /\ Goes(b, "done")
    /\ UNCHANGED <<table, objects, clock, budget, drops, failures>>

-----------------------------------------------------------------------------
(* Uploading: PUT /api/blobs/:id/:idx.                                     *)

\* The conditional UPDATE checks both budgets at once.
Affords(a) == spent < PutBudget /\ mine[a] < PutLimit

\* One batch: both counts move, or neither does and the answer is no.
Spend(a) ==
    /\ Affords(a)
    /\ spent' = spent + 1
    /\ mine' = [mine EXCEPT ![a] = @ + 1]

\* The handler finds the blob free and pays for the operation...
CheckChunk(b) ==
    /\ up[b].pc = "chunk"
    /\ Unadopted(b)
    /\ Spend(Owner[b])
    /\ Goes(b, "object")
    /\ UNCHANGED <<table, objects, clock, drops, failures>>

RefuseChunk(b) ==
    /\ up[b].pc = "chunk"
    /\ b \notin DOMAIN blobs \/ ~Affords(Owner[b])
    /\ Goes(b, "abandon")
    /\ UNCHANGED <<table, objects, clock, budget, drops, failures>>

\* ...makes it...
PutObject(b) ==
    /\ up[b].pc = "object"
    /\ objects' = objects \cup {<<b, up[b].idx>>}
    /\ Goes(b, "row")
    /\ UNCHANGED <<table, clock, budget, drops, failures>>

NextChunk(u) == [u EXCEPT !.idx = @ + 1]
Onward(u) == Then(NextChunk(u), IF u.idx + 1 = u.chunks THEN "post" ELSE "chunk")

\* ...and records the chunk.  A chunk of a blob that is gone violates the
\* foreign key: the statement fails, and the request with it.
PutRow(b) ==
    /\ up[b].pc = "row"
    /\ IF b \in DOMAIN blobs
       THEN /\ rows' = rows \cup {<<b, up[b].idx>>}
            /\ up' = [up EXCEPT ![b] = Onward(@)]
       ELSE Goes(b, "abandon") /\ UNCHANGED rows
    /\ UNCHANGED <<blobs, objects, clips, clock, budget, drops, failures>>

-----------------------------------------------------------------------------
(* Adopting: POST /api/clips with a blobId.                                *)

Complete(b) == Unadopted(b) /\ Keys(b) \subseteq rows

ReadBlob(b) ==
    /\ up[b].pc = "post"
    /\ Complete(b)
    /\ clock' = clock + 1
    /\ up' = [up EXCEPT ![b].pc = "batch", ![b].now = clock + 1]
    /\ UNCHANGED <<table, objects, budget, drops, failures>>

\* The blob is not there to adopt, or the batch found the vault re-keyed.
RefusePost(b) ==
    /\ \/ up[b].pc = "post" /\ ~Complete(b)
       \/ up[b].pc = "batch"
    /\ Goes(b, "abandon")
    /\ UNCHANGED <<table, objects, clock, budget, drops, failures>>

\* UPDATE blobs SET attached_at: of a blob that is gone, nothing.
Attach(b) == blobs' = [x \in DOMAIN blobs |-> [blobs[x] EXCEPT !.attached = @ \/ x = b]]

\* One batch inserts the clip and attaches the blob.
InsertClip(b) ==
    /\ up[b].pc = "batch"
    /\ Stored(Owner[b], up[b].file) = {}
    /\ clips' = [c \in DOMAIN clips \cup {b} |->
                    IF c = b THEN [owner |-> Owner[b], file |-> up[b].file, blob |-> b,
                                   pinned |-> FALSE, created |-> up[b].now]
                    ELSE clips[c]]
    /\ Attach(b)
    /\ Goes(b, "done")
    /\ UNCHANGED <<rows, objects, clock, budget, drops, failures>>

\* What if the stored copy were taken for the surplus one?
SurplusStored(b, c) == clips[c].blob
Surplus(b, c) == b

\* The file is stored, on top: the copy just uploaded is surplus.
FindOnTop(b) ==
    /\ up[b].pc = "batch"
    /\ \E c \in Stored(Owner[b], up[b].file) :
          /\ \A x \in Ours(Owner[b]) : clips[x].created <= clips[c].created
          /\ drops' = drops \cup {Deleting(b, {Surplus(b, c)})}
    /\ up' = [up EXCEPT ![b].pc = "answer"]
    /\ UNCHANGED <<table, objects, clock, budget, failures>>

\* It is stored and something is above it (a text clip may always be): the
\* handler goes on with the row as it read it.
FindBelow(b) ==
    /\ up[b].pc = "batch"
    /\ \E c \in Stored(Owner[b], up[b].file) :
          up' = [up EXCEPT ![b].pc = "bump", ![b].found = {RefOf(c)}]
    /\ UNCHANGED <<table, objects, clock, budget, drops, failures>>

\* One batch moves the row to the new blob, by id, and attaches that; then the
\* blob the row had when it was read is deleted.
Bump(b) ==
    /\ up[b].pc = "bump"
    /\ \E r \in up[b].found :
          /\ clips' = [c \in DOMAIN clips |->
                          IF c = r.id THEN [clips[c] EXCEPT !.blob = b, !.created = up[b].now]
                          ELSE clips[c]]
          /\ drops' = drops \cup {Deleting(b, {r.blob})}
    /\ Attach(b)
    /\ up' = [up EXCEPT ![b].pc = "answer", ![b].found = {}]
    /\ UNCHANGED <<rows, objects, clock, budget, failures>>

Answer(b) ==
    /\ up[b].pc = "answer"
    /\ ~Dropping(b)
    /\ Goes(b, "done")
    /\ UNCHANGED <<table, objects, clock, budget, drops, failures>>

-----------------------------------------------------------------------------
(* Giving up: uploadFile's catch, and DELETE /api/blobs/:id.               *)

Abandon(b) ==
    /\ up[b].pc = "abandon"
    /\ drops' = IF Unadopted(b) THEN drops \cup {Deleting(b, {b})} ELSE drops
    /\ Goes(b, "done")
    /\ UNCHANGED <<table, objects, clock, budget, failures>>

\* The client stops or loses the network between two requests: the deletion
\* it owes is best effort.
Vanish(b) ==
    /\ up[b].pc \in {"chunk", "post", "abandon"}
    /\ up' = [up EXCEPT ![b].pc = "done"]
    /\ UNCHANGED <<table, objects, clock, budget, drops, failures>>

\* A request fails at the client while the worker goes on serving it, and the
\* client's deletion arrives beside it.
GiveUp(b) ==
    /\ b \notin Prompt
    /\ up[b].pc \in {"object", "row", "batch", "bump"}
    /\ ~up[b].left
    /\ up' = [up EXCEPT ![b].left = TRUE]
    /\ drops' = IF Unadopted(b) THEN drops \cup {Deleting(Handler, {b})} ELSE drops
    /\ UNCHANGED <<table, objects, clock, budget, failures>>

-----------------------------------------------------------------------------
(* Deleting.                                                               *)

DeleteClip(c) ==
    /\ c \in DOMAIN clips
    /\ clips' = Without({c})
    /\ drops' = drops \cup {Deleting(Handler, {clips[c].blob})}
    /\ UNCHANGED <<blobs, rows, objects, clock, budget, up, failures>>

SetPinned(c, pin) ==
    /\ c \in DOMAIN clips
    /\ clips[c].pinned # pin
    /\ clips' = [clips EXCEPT ![c].pinned = pin]
    /\ UNCHANGED <<blobs, rows, objects, clock, budget, up, drops, failures>>

\* What if the sweep found blobs by their chunks?
OldWithChunks ==
    {b \in DOMAIN blobs : /\ ~blobs[b].attached /\ (b \in Prompt => up[b].pc = "done")
                          /\ \E r \in rows : r[1] = b}

\* Blobs no clip has adopted that may be an hour old.
Old == {b \in DOMAIN blobs : ~blobs[b].attached /\ (b \in Prompt => up[b].pc = "done")}

\* The cron: clips that are due, their blobs, and old blobs nothing adopted.
\* An hour on, the last call has ended.
Purge(due, old) ==
    /\ ~Dropping(Cron)
    /\ due \subseteq {c \in DOMAIN clips : ~clips[c].pinned}
    /\ old \subseteq Old
    /\ clips' = Without(due)
    /\ drops' = drops \cup {Deleting(Cron, {clips[c].blob : c \in due} \cup old)}
    /\ UNCHANGED <<blobs, rows, objects, clock, budget, up, failures>>

Sweep(b) == \E due \in SUBSET DOMAIN clips, old \in SUBSET Blobs : b \in old /\ Purge(due, old)
Expire == \E due \in SUBSET DOMAIN clips \ {{}} : Purge(due, {})

\* What if the rows went first?
RowsFirst(d) ==
    IF d.stage = "objects"
    THEN /\ blobs' = [b \in DOMAIN blobs \ d.blobs |-> blobs[b]]
         /\ rows' = {r \in rows : r[1] \notin d.blobs}
         /\ drops' = (drops \ {d}) \cup {[d EXCEPT !.stage = "rows"]}
         /\ UNCHANGED objects
    ELSE /\ objects' = objects \ {k \in objects : k[1] \in d.blobs}
         /\ drops' = drops \ {d}
         /\ UNCHANGED <<blobs, rows>>

\* deleteBlobs: the objects of the rows it finds, then the rows, whose chunks
\* go with them (ON DELETE CASCADE).
ObjectsFirst(d) ==
    IF d.stage = "objects"
    THEN /\ objects' = objects \ UNION {Keys(b) : b \in d.blobs \cap DOMAIN blobs}
         /\ drops' = (drops \ {d}) \cup {[d EXCEPT !.stage = "rows"]}
         /\ UNCHANGED <<blobs, rows>>
    ELSE /\ blobs' = [b \in DOMAIN blobs \ d.blobs |-> blobs[b]]
         /\ rows' = {r \in rows : r[1] \notin d.blobs}
         /\ drops' = drops \ {d}
         /\ UNCHANGED objects

DropStep(d) ==
    /\ ObjectsFirst(d)
    /\ UNCHANGED <<clips, clock, budget, up, failures>>

DropOf(b, stage) == \E d \in drops : b \in d.blobs /\ d.stage = stage /\ DropStep(d)

\* R2 or the database fails: the handler ends there.  A reservation is
\* refused; a post that fails is an upload that fails, which its client deletes.
DropFails(d) ==
    /\ failures < MaxFailures
    /\ failures' = failures + 1
    /\ drops' = drops \ {d}
    /\ up' = [b \in Blobs |->
                 IF d.by # b THEN up[b]
                 ELSE CASE up[b].pc = "room" -> Then(up[b], "done")
                        [] up[b].pc = "answer" -> Then(up[b], "abandon")
                        [] OTHER -> up[b]]
    /\ UNCHANGED <<table, objects, clock, budget>>

\* R2 or the database fails at any other statement: nothing of it is done.
RequestFails(b) ==
    /\ failures < MaxFailures
    /\ failures' = failures + 1
    /\ up[b].pc \in {"evict", "object", "row", "bump"}
    /\ up' = [up EXCEPT ![b] = Then([@ EXCEPT !.victims = {}, !.found = {}],
                                    IF @.pc = "evict" THEN "done" ELSE "abandon")]
    /\ UNCHANGED <<table, objects, clock, budget, drops>>

-----------------------------------------------------------------------------
Init ==
    /\ blobs = [b \in {} |-> FALSE]
    /\ rows = {}
    /\ objects = {}
    /\ clips = [c \in {} |-> {}]
    /\ clock = 0
    /\ spent = 0
    /\ mine = [a \in Accounts |-> 0]
    /\ up = [b \in Blobs |->
                [pc |-> "none", file |-> CHOOSE f \in Files : TRUE, chunks |-> 1, idx |-> 0,
                 tries |-> 0, victims |-> {}, now |-> 0, found |-> {}, left |-> FALSE]]
    /\ drops = {}
    /\ failures = 0

\* What an upload that has begun goes on to.
UploadStep(b) ==
    \/ Reserve(b) \/ ReadVictims(b) \/ Evict(b) \/ NoRoom(b)
    \/ CheckChunk(b) \/ RefuseChunk(b) \/ PutObject(b) \/ PutRow(b)
    \/ ReadBlob(b) \/ RefusePost(b) \/ InsertClip(b)
    \/ FindOnTop(b) \/ FindBelow(b) \/ Bump(b) \/ Answer(b) \/ Abandon(b)

Next ==
    \/ \E b \in Blobs : Begin(b) \/ UploadStep(b) \/ Vanish(b) \/ GiveUp(b)
                         \/ RequestFails(b) \/ Sweep(b)
    \/ \E c \in Blobs : DeleteClip(c) \/ SetPinned(c, TRUE) \/ SetPinned(c, FALSE)
    \/ Expire
    \/ \E d \in drops : DropStep(d) \/ DropFails(d)

Spec == Init /\ [][Next]_vars

\* Requests are answered, deletions under way run on, and the hourly cron
\* comes back to what it finds old.
FairSpec ==
    /\ Spec
    /\ \A b \in Blobs :
          /\ WF_vars(UploadStep(b))
          /\ WF_vars(Sweep(b))
          /\ \A stage \in {"objects", "rows"} : WF_vars(DropOf(b, stage))

-----------------------------------------------------------------------------
(* Properties.                                                             *)

\* Every variable holds what the code keeps there.
TypeOK ==
    /\ blobs \in [DOMAIN blobs -> Blob] /\ DOMAIN blobs \subseteq Blobs
    /\ rows \subseteq (DOMAIN blobs) \X Nat
    /\ objects \subseteq Blobs \X Nat
    /\ clips \in [DOMAIN clips -> Clip] /\ DOMAIN clips \subseteq Blobs
    /\ clock \in Nat
    /\ spent \in Nat /\ mine \in [Accounts -> Nat]
    /\ up \in [Blobs -> Upload]
    /\ drops \subseteq Drop
    /\ failures \in 0..MaxFailures

\* All the bytes of a clip: the blob it names is there, adopted, with every
\* chunk in the table and in the bucket.
Whole(c) ==
    /\ Attached(clips[c].blob)
    /\ Keys(clips[c].blob) \subseteq rows \cap objects

\* A clip in history has all its bytes if the upload they came with was
\* prompt, whatever other uploads, bumps, evictions and sweeps have deleted
\* meanwhile (clips.ts adopts a blob in the batch that writes the clip, and
\* deletes only blobs the row has left).
WholeClips == \A c \in DOMAIN clips : clips[c].blob \in Prompt => Whole(c)

\* No object a prompt upload wrote is left with nothing pointing at it, though
\* deletions fail half-way (r2.ts:113-116).
ObjectsHaveRows == \A k \in objects : k[1] \in Prompt => k[1] \in DOMAIN blobs

\* Uploads that have paid for an object and not made it yet; the operations
\* charged to the accounts, each account's numbered: the sum of account_usage.
Writing == {b \in Blobs : up[b].pc = "object"}
Charged == UNION {{a} \X (1..mine[a]) : a \in Accounts}

\* Uploads reserving and writing at once never overshoot the worker's ceiling
\* or budget of writes, nor an account its plan's quota and budget, though
\* evictions, deletions and failures free room and not the writes (r2.ts:43-48,
\* 149-156); and no write reaches the bucket uncounted.
RoomHolds ==
    /\ Held(DOMAIN blobs) <= Ceiling
    /\ \A a \in Accounts : Held(Of(a)) <= Quota
    /\ Cardinality(objects) + Cardinality(Writing) <= spent
    /\ spent <= PutBudget
    /\ \A a \in Accounts : mine[a] <= PutLimit
    /\ spent = Cardinality(Charged)

\* An upload that began ends: adopted, surplus, refused or given up.
UploadsEnd == \A b \in Blobs : up[b].pc # "none" ~> up[b].pc = "done"

\* What an upload leaves behind unadopted is swept in the end, though
\* deletions fail on the way (0008_blobs.sql: the cron deletes it).
OrphansSwept ==
    \A b \in Blobs : (Unadopted(b) /\ up[b].pc = "done") ~> b \notin DOMAIN blobs

\* Stated where a bump deletes the blob it replaces (clips.ts:314-315, "the
\* row moves to the new blob and the old one goes"): an adopted blob is some
\* clip's, or its deletion is under way.
AdoptedBlobsAreClips ==
    \A b \in DOMAIN blobs :
        Attached(b) => \/ \E c \in DOMAIN clips : clips[c].blob = b
                    \/ \E d \in drops : b \in d.blobs

\* Stated where a client may give a blob up (blobs.ts:154, "abandon an upload
\* no clip has adopted"): what is deleted there is never a clip's.
EveryClipWhole == \A c \in DOMAIN clips : Whole(c)
==============================================================================
