------------------------------ MODULE ClipStore ------------------------------
(***************************************************************************)
(* One account's clipboard history as the worker stores it, and the        *)
(* clients' re-encryption of it after a re-key.                            *)
(*                                                                         *)
(* apps/worker/src/routes/clips.ts writes a copy in two transactions when  *)
(* the content is already stored: a batch that reads the row, and a later  *)
(* batch that moves it to the top.  Everything else of the account may     *)
(* happen in between: another device's copy, a pin, a delete, the expiry   *)
(* cron, a re-key, and re-encryption's own read and write.  The clips here *)
(* are text clips (blob_id NULL); images and files are the business of the *)
(* blob module.                                                            *)
(*                                                                         *)
(* A vault key is named by its epoch.  A dedupe tag (an HMAC) is the text  *)
(* and the key it was made with, an envelope (AES-GCM under the key, with  *)
(* an authenticated header) is the text, the key and the device its header *)
(* names: two tags are equal, and an envelope opens, exactly when these    *)
(* agree.                                                                  *)
(***************************************************************************)
EXTENDS Naturals, FiniteSets
CONSTANTS
    Devices,    \* enrolled devices, each holding a ring of vault keys
    Copiers,    \* those somebody copies on (a bound: any device may be one)
    Rekeyers,   \* those somebody re-keys from (a bound likewise)
    Texts,      \* plaintexts somebody may copy
    ClipIds,    \* the ids newId("clip") may draw; bounds the rows ever inserted
    NoCursor,   \* `before` of a first page, nextCursor of a last one
    MaxPins,    \* the plan's max_pins
    PageSize,   \* MAX_REENCRYPT_BATCH: rows per page of re-encryption
    MaxEpoch,   \* bound: re-keys of the account
    MaxClock    \* bound: readings of the worker's clock

ASSUME ClipIdsAssumption == ClipIds \subseteq Nat /\ IsFiniteSet(ClipIds)
ASSUME RolesAssumption == Copiers \subseteq Devices /\ Rekeyers \subseteq Devices
ASSUME PinsAssumption == MaxPins \in Nat
ASSUME PageAssumption == PageSize \in Nat \ {0}
ASSUME BoundsAssumption == MaxEpoch \in Nat /\ MaxClock \in Nat
ASSUME NoCursorAssumption == NoCursor \notin Nat \X Nat

VARIABLES
    epoch,      \* users.key_epoch
    clips,      \* the clips table: id |-> row
    used,       \* ids some row has had
    clock,      \* Date.now() where the worker runs
    ring,       \* device |-> its VaultRing (client/ring.ts)
    posts,      \* POST /api/clips requests whose first batch has not run
    bumps,      \* those that found the text stored below the top
    refused,    \* copies answered 409 stale_epoch, still on the clipboard
    walk        \* device |-> its re-encryption of history (reencryptHistory)

vars == <<epoch, clips, used, clock, ring, posts, bumps, refused, walk>>

-----------------------------------------------------------------------------
(* Data.                                                                   *)

Epochs == 0..MaxEpoch
Tag == [text : Texts, key : Epochs]
Envelope == [text : Texts, key : Epochs, device : Devices]
Row == [hash : Tag, envelope : Envelope, keyEpoch : Epochs, device : Devices,
        pinned : BOOLEAN, expires : BOOLEAN, created : 0..MaxClock]
    \* expires: expires_at IS NOT NULL.  When that moment comes is up to
    \* Purge, which may find any expiring row due.

Post == [device : Devices, text : Texts, key : Epochs, now : 0..MaxClock]
Bump == [post : Post, id : ClipIds, pinned : BOOLEAN, expires : BOOLEAN]
Refused == [device : Devices, text : Texts]

Cursor == ((0..MaxClock) \X ClipIds) \cup {NoCursor}
Item == [id : ClipIds, from : Epochs, envelope : Envelope, hash : Tag]
Walk == [pc : {"idle", "list", "send", "write"}, target : Epochs,
         before : Cursor, next : Cursor, items : SUBSET Item,
         server : Epochs, moved : BOOLEAN]

\* A VaultRing: the keys held, by epoch, and the one to write under.
Ring == [current : Epochs, keys : SUBSET Epochs]

\* What if withKey went on writing under the key it had?
WithKeyBehind(r, e) == [r EXCEPT !.keys = @ \cup {e}]

WithKey(r, e) == [current |-> IF e > r.current THEN e ELSE r.current,
                  keys |-> r.keys \cup {e}]

\* What a device that holds the key a row names checks before it shows it:
\* the envelope and the dedupe tag are under that key and of one text, and
\* the header names the row's device.
Readable(row) ==
    /\ row.envelope.key = row.keyEpoch
    /\ row.envelope.device = row.device
    /\ row.hash = [text |-> row.envelope.text, key |-> row.keyEpoch]

Opens(d, i) == clips[i].keyEpoch \in ring[d].keys /\ Readable(clips[i])

RowsHolding(tag) == {i \in DOMAIN clips : clips[i].hash = tag}
Newest(S) == {i \in S : \A j \in S : clips[j].created <= clips[i].created}
Pinned == {i \in DOMAIN clips : clips[i].pinned}

\* DELETE FROM clips WHERE id IN S.
Without(S) == [i \in DOMAIN clips \ S |-> clips[i]]

-----------------------------------------------------------------------------
(* Copying: POST /api/clips.                                               *)

InFlight(d) ==
    \/ \E p \in posts : p.device = d
    \/ \E b \in bumps : b.post.device = d

Seal(d, t) == [device |-> d, text |-> t, key |-> ring[d].current, now |-> clock]

\* The agent's poll or the composer seals what was copied under the newest
\* key it holds, and the request reaches the worker, which reads its clock.
\* A text refused earlier and no longer on the clipboard is forgotten.  Nobody
\* copies what is not stored once the ids have run out (a bound).
Copy(d, t) ==
    /\ d \in Copiers
    /\ ~InFlight(d)
    /\ used # ClipIds \/ \E i \in DOMAIN clips : clips[i].hash.text = t
    /\ posts' = posts \cup {Seal(d, t)}
    /\ refused' = {r \in refused : r.device # d}
    /\ UNCHANGED <<epoch, clips, used, clock, ring, bumps, walk>>

\* The copy refused as stale is still on the clipboard: the next poll pushes
\* it again, under whatever key the ring has come to.
Retry(d) ==
    \E r \in refused :
        /\ r.device = d
        /\ ~InFlight(d)
        /\ refused' = refused \ {r}
        /\ posts' = posts \cup {Seal(d, r.text)}
        /\ UNCHANGED <<epoch, clips, used, clock, ring, bumps, walk>>

\* The batch found the account at another epoch: nothing is written.
RefuseStale(d) ==
    \E p \in posts :
        /\ p.device = d
        /\ p.key # epoch
        /\ posts' = posts \ {p}
        /\ refused' = refused \cup {[device |-> d, text |-> p.text]}
        /\ UNCHANGED <<epoch, clips, used, clock, ring, bumps, walk>>

TagOf(p) == [text |-> p.text, key |-> p.key]
EnvelopeOf(p) == [text |-> p.text, key |-> p.key, device |-> p.device]

\* The row a copy becomes: unpinned, and dying with the plan's retention.
Fresh(p) ==
    [hash |-> TagOf(p), envelope |-> EnvelopeOf(p), keyEpoch |-> p.key,
     device |-> p.device, pinned |-> FALSE, expires |-> TRUE, created |-> p.now]

\* What if the INSERT did not ask whether the text is there?
MayInsertAgain(p) == p.key = epoch

\* The INSERT's WHERE clause, evaluated with the batch's reads.
MayInsert(p) == p.key = epoch /\ RowsHolding(TagOf(p)) = {}

InsertClip(d) ==
    \E p \in posts : \E i \in ClipIds \ used :
        /\ p.device = d
        /\ MayInsert(p)
        /\ clips' = [j \in DOMAIN clips \cup {i} |->
                        IF j = i THEN Fresh(p) ELSE clips[j]]
        /\ used' = used \cup {i}
        /\ posts' = posts \ {p}
        /\ UNCHANGED <<epoch, clock, ring, bumps, refused, walk>>

\* The text is stored.  Both reads are LIMIT 1 by created_at: rows sharing a
\* millisecond leave the choice open.  On top already, nothing is written;
\* otherwise the handler goes on with the row as the batch read it.
FindStored(d) ==
    \E p \in posts :
        /\ p.device = d
        /\ p.key = epoch
        /\ \E i \in Newest(RowsHolding(TagOf(p))) : \E top \in Newest(DOMAIN clips) :
              bumps' = IF i = top
                       THEN bumps
                       ELSE bumps \cup {[post |-> p, id |-> i,
                                         pinned |-> clips[i].pinned,
                                         expires |-> clips[i].expires]}
        /\ posts' = posts \ {p}
        /\ UNCHANGED <<epoch, clips, used, clock, ring, refused, walk>>

\* What if the row kept the device it was first copied on?
MovedOnItsDevice(row, b) ==
    [row EXCEPT !.created = b.post.now,
                !.expires = IF b.pinned THEN b.expires ELSE TRUE,
                !.envelope = EnvelopeOf(b.post)]

Moved(row, b) ==
    [row EXCEPT !.created = b.post.now,
                !.device = b.post.device,
                !.expires = IF b.pinned THEN b.expires ELSE TRUE,
                !.envelope = EnvelopeOf(b.post)]

\* What if the bump put the row back (INSERT OR REPLACE)?
MoveOrRestore(d) ==
    \E b \in bumps :
        /\ b.post.device = d
        /\ bumps' = bumps \ {b}
        /\ clips' = [i \in DOMAIN clips \cup {b.id} |->
                        IF i = b.id THEN Fresh(b.post) ELSE clips[i]]
        /\ UNCHANGED <<epoch, used, clock, ring, posts, refused, walk>>

\* The second batch moves the row to the top, by id alone.  Its expiry comes
\* from the row as it was read.  A row deleted meanwhile is not there to move.
MoveToTop(d) ==
    \E b \in bumps :
        /\ b.post.device = d
        /\ bumps' = bumps \ {b}
        /\ clips' = IF b.id \in DOMAIN clips
                    THEN [clips EXCEPT ![b.id] = Moved(@, b)]
                    ELSE clips
        /\ UNCHANGED <<epoch, used, clock, ring, posts, refused, walk>>

ServePost(d) == RefuseStale(d) \/ InsertClip(d) \/ FindStored(d) \/ MoveToTop(d)

-----------------------------------------------------------------------------
(* Deleting, pinning, expiring.                                            *)

DeleteClip(i) ==
    /\ i \in DOMAIN clips
    /\ clips' = Without({i})
    /\ UNCHANGED <<epoch, used, clock, ring, posts, bumps, refused, walk>>

\* The plan's cap, counted in the statement that pins.
MayPin(i) == clips[i].pinned \/ Cardinality(Pinned) < MaxPins

PinClip(i) ==
    /\ i \in DOMAIN clips
    /\ MayPin(i)
    /\ clips' = [clips EXCEPT ![i].pinned = TRUE, ![i].expires = FALSE]
    /\ UNCHANGED <<epoch, used, clock, ring, posts, bumps, refused, walk>>

UnpinClip(i) ==
    /\ i \in DOMAIN clips
    /\ clips' = [clips EXCEPT ![i].pinned = FALSE, ![i].expires = TRUE]
    /\ UNCHANGED <<epoch, used, clock, ring, posts, bumps, refused, walk>>

\* The expiry cron deletes, in one statement, the unpinned rows now due.
PurgeExpired ==
    \E due \in SUBSET {i \in DOMAIN clips : ~clips[i].pinned /\ clips[i].expires} :
        /\ due # {}
        /\ clips' = Without(due)
        /\ UNCHANGED <<epoch, used, clock, ring, posts, bumps, refused, walk>>

-----------------------------------------------------------------------------
(* Re-keying and re-encrypting history: client/rekey.ts.                   *)

IdleWalk == [pc |-> "idle", target |-> 0, before |-> NoCursor, next |-> NoCursor,
             items |-> {}, server |-> 0, moved |-> FALSE]
FirstPage(e) == [IdleWalk EXCEPT !.pc = "list", !.target = e]

\* A device picks up its sealed copy of the current key.
Refresh(d) ==
    /\ epoch \notin ring[d].keys
    /\ ring' = [ring EXCEPT ![d] = WithKey(@, epoch)]
    /\ UNCHANGED <<epoch, clips, used, clock, posts, bumps, refused, walk>>

\* rekeyVault: refused unless the device's newest key is the account's; the
\* switch is one guarded batch, and re-encryption follows at once.
Rotate(d) ==
    /\ d \in Rekeyers
    /\ epoch < MaxEpoch
    /\ ring[d].current = epoch
    /\ walk[d].pc = "idle"
    /\ epoch' = epoch + 1
    /\ ring' = [ring EXCEPT ![d] = WithKey(@, epoch + 1)]
    /\ walk' = [walk EXCEPT ![d] = FirstPage(epoch + 1)]
    /\ UNCHANGED <<clips, used, clock, posts, bumps, refused>>

\* `clipsync rekey --finish`: freshRing, then the same walk.
Finish(d) ==
    /\ d \in Rekeyers
    /\ walk[d].pc = "idle"
    /\ ring' = [ring EXCEPT ![d] = WithKey(@, epoch)]
    /\ walk' = [walk EXCEPT ![d] = FirstPage(epoch)]
    /\ UNCHANGED <<epoch, clips, used, clock, posts, bumps, refused>>

Key(i) == <<clips[i].created, i>>
Older(k, c) == c = NoCursor \/ k[1] < c[1] \/ (k[1] = c[1] /\ k[2] < c[2])

\* GET /api/clips?epochBelow=target&before=cursor, newest first.
Behind(w) == {i \in DOMAIN clips : clips[i].keyEpoch < w.target /\ Older(Key(i), w.before)}
PageOf(S) == {i \in S : Cardinality({j \in S : Older(Key(i), Key(j))}) < PageSize}

\* nextCursor: the last row of a page that leaves rows behind it.
NextCursors(S) ==
    IF PageOf(S) = S THEN {NoCursor}
    ELSE {Key(i) : i \in {j \in PageOf(S) :
                             \A k \in PageOf(S) : k = j \/ Older(Key(j), Key(k))}}

\* What if the dedupe tag were left as it was?
ResealKeepingTag(i, target) ==
    [id |-> i, from |-> clips[i].keyEpoch,
     envelope |-> [text |-> clips[i].envelope.text, key |-> target,
                   device |-> clips[i].device],
     hash |-> clips[i].hash]

\* Sealed under the walk's own newest key, keeping the row's device.
Reseal(i, target) ==
    [id |-> i, from |-> clips[i].keyEpoch,
     envelope |-> [text |-> clips[i].envelope.text, key |-> target,
                   device |-> clips[i].device],
     hash |-> [text |-> clips[i].envelope.text, key |-> target]]

\* What if what moved were counted over all passes?
NextPageOfAllPasses(w) ==
    IF w.next # NoCursor
    THEN [w EXCEPT !.pc = "list", !.before = w.next, !.next = NoCursor, !.items = {}]
    ELSE IF w.moved THEN [FirstPage(w.target) EXCEPT !.moved = TRUE] ELSE IdleWalk

\* After a page: the next one, a new pass if this one moved anything, or done.
NextPage(w) ==
    IF w.next # NoCursor
    THEN [w EXCEPT !.pc = "list", !.before = w.next, !.next = NoCursor, !.items = {}]
    ELSE IF w.moved THEN FirstPage(w.target) ELSE IdleWalk

\* A page is read and every row this device can open is sealed again.  A page
\* with nothing to send goes straight on.
ListPage(d) ==
    /\ walk[d].pc = "list"
    /\ LET w == walk[d]
           opened == {i \in PageOf(Behind(w)) : Opens(d, i)}
           Read(next) == [w EXCEPT !.pc = "send", !.next = next,
                                   !.items = {Reseal(i, w.target) : i \in opened}]
       IN \E next \in NextCursors(Behind(w)) :
             walk' = [walk EXCEPT ![d] = IF opened = {} THEN NextPage(Read(next))
                                         ELSE Read(next)]
    /\ UNCHANGED <<epoch, clips, used, clock, ring, posts, bumps, refused>>

\* POST /api/clips/reencrypt reads the account's epoch...
ReadEpoch(d) ==
    /\ walk[d].pc = "send"
    /\ walk' = [walk EXCEPT ![d].pc = "write", ![d].server = epoch]
    /\ UNCHANGED <<epoch, clips, used, clock, ring, posts, bumps, refused>>

\* ...and stamps with it every row still as the request names it.
Lands(item, e) ==
    /\ item.id \in DOMAIN clips
    /\ clips[item.id].keyEpoch = item.from
    /\ clips[item.id].keyEpoch < e
    /\ clips[item.id].device = item.envelope.device
    /\ epoch = e

Stamped(row, item, e) ==
    [row EXCEPT !.envelope = item.envelope, !.hash = item.hash, !.keyEpoch = e]

WriteItems(d) ==
    /\ walk[d].pc = "write"
    /\ LET w == walk[d]
           landing == {item \in w.items : Lands(item, w.server)}
           Sent(i) == CHOOSE item \in landing : item.id = i
       IN /\ clips' = [i \in DOMAIN clips |->
                          IF \E item \in landing : item.id = i
                          THEN Stamped(clips[i], Sent(i), w.server)
                          ELSE clips[i]]
          /\ walk' = [walk EXCEPT ![d] =
                         NextPage([w EXCEPT !.moved = @ \/ landing # {}])]
    /\ UNCHANGED <<epoch, used, clock, ring, posts, bumps, refused>>

WalkStep(d) == ListPage(d) \/ ReadEpoch(d) \/ WriteItems(d)

-----------------------------------------------------------------------------
Tick ==
    /\ clock < MaxClock
    /\ clock' = clock + 1
    /\ UNCHANGED <<epoch, clips, used, ring, posts, bumps, refused, walk>>

Init ==
    /\ epoch = 0
    /\ clips = [i \in {} |-> {}]
    /\ used = {}
    /\ clock = 0
    /\ ring = [d \in Devices |-> [current |-> 0, keys |-> {0}]]
    /\ posts = {}
    /\ bumps = {}
    /\ refused = {}
    /\ walk = [d \in Devices |-> IdleWalk]

Next ==
    \/ \E d \in Devices :
          \/ \E t \in Texts : Copy(d, t)
          \/ Retry(d)
          \/ ServePost(d)
          \/ Refresh(d)
          \/ Rotate(d)
          \/ Finish(d)
          \/ WalkStep(d)
    \/ \E i \in ClipIds : DeleteClip(i) \/ PinClip(i) \/ UnpinClip(i)
    \/ PurgeExpired
    \/ Tick

Spec == Init /\ [][Next]_vars

\* The worker answers what it was sent, the agent polls and picks up new
\* keys, and a re-encryption that has begun runs on.  Nothing makes anyone
\* copy, pin, delete, re-key or purge.
FairSpec ==
    /\ Spec
    /\ \A d \in Devices : /\ WF_vars(ServePost(d))
                          /\ WF_vars(Retry(d))
                          /\ WF_vars(Refresh(d))
                          /\ WF_vars(WalkStep(d))

-----------------------------------------------------------------------------
(* Properties.                                                             *)

\* Every variable holds what the code keeps there.
TypeOK ==
    /\ epoch \in Epochs
    /\ clips \in [DOMAIN clips -> Row]
    /\ DOMAIN clips \subseteq used
    /\ used \subseteq ClipIds
    /\ clock \in 0..MaxClock
    /\ ring \in [Devices -> Ring]
    /\ posts \subseteq Post
    /\ bumps \subseteq Bump
    /\ refused \subseteq Refused
    /\ walk \in [Devices -> Walk]

\* A row its readers must reject is the work of one of two orders of steps,
\* and no other spoils a row: a bump whose row has been re-encrypted since its
\* first batch read it (clips.ts:316, by id alone), and a page of
\* re-encryption that a second re-key has overtaken before its request read
\* the account's epoch (clips.ts:447).  Everything else, a bump that falls
\* between a page and its write included, leaves a readable row readable, and
\* no row appears that is not.
BumpOvertaken(i) ==
    \E b \in bumps \ bumps' : b.id = i /\ b.post.key < clips[i].keyEpoch
PageOvertaken(i) ==
    \E d \in Devices :
        /\ walk[d].pc = "write" /\ walk'[d] # walk[d]
        /\ \E item \in walk[d].items : item.id = i /\ item.envelope.key < walk[d].server
OnlyOvertakenWritesSpoil ==
    [][\A i \in DOMAIN clips' :
          \/ Readable(clips'[i])
          \/ i \in DOMAIN clips /\ ~Readable(clips[i])
          \/ BumpOvertaken(i)
          \/ PageOvertaken(i)]_vars

\* No row is ahead of what it claims: the envelope's key is no newer than the
\* tag's, the tag's than the row's key_epoch, and that than the account's.
KeysNeverRunAhead ==
    \A i \in DOMAIN clips :
        /\ clips[i].envelope.key <= clips[i].hash.key
        /\ clips[i].hash.key <= clips[i].keyEpoch
        /\ clips[i].keyEpoch <= epoch

Copies(t) == {i \in DOMAIN clips : clips[i].hash.text = t}

\* Copying a text again adds no second row under the same key, so a text is
\* stored at most once per vault key the account has had, however many
\* devices copy it at once and however far re-encryption has got.
OneRowPerKey == \A t \in Texts : Cardinality(Copies(t)) <= epoch + 1

\* The plan's pin cap holds whoever pins, whatever is bumped meanwhile.
PinCap == Cardinality(Pinned) <= MaxPins

\* A deleted or expired clip never comes back under its id: not by a bump
\* that had read the row, not by a re-encryption that had listed it.
DeletedStaysDeleted ==
    [][\A i \in used \ DOMAIN clips : i \notin DOMAIN clips']_vars

\* A row that appears holds its envelope and its tag under the key the
\* account is on at that moment, whenever the copy was sealed.
NewRowsUnderCurrentKey ==
    [][\A i \in DOMAIN clips' \ DOMAIN clips :
          /\ clips'[i].keyEpoch = epoch
          /\ clips'[i].envelope.key = epoch
          /\ clips'[i].hash.key = epoch]_vars

\* A copy a device sends settles: it is stored or found stored, though every
\* re-key meanwhile may send the device back for a newer key.  (Or the ids,
\* which the model bounds, have run out.)
Unsettled(d) == InFlight(d) \/ \E r \in refused : r.device = d
CopiesSettle ==
    \A d \in Devices : Unsettled(d) ~> (~Unsettled(d) \/ used = ClipIds)

\* Re-encryption ends, though each pass that moves a clip asks for another.
WalksEnd == \A d \in Devices : walk[d].pc # "idle" ~> walk[d].pc = "idle"

\* The history the rows make up, read with their keys.  Copying, deleting and
\* expiring do to it what they promise; a re-key hides its entries from the
\* copies to come, re-encryption brings them back, and nothing else touches it.
Contents == [i \in DOMAIN clips |-> clips[i].hash.text]
Gone == used \ DOMAIN clips
Recognised == {i \in DOMAIN clips : clips[i].hash.key = epoch}
Account == INSTANCE History WITH entries <- Contents, gone <- Gone, known <- Recognised
ImplementsHistory == Account!Spec

\* Stated by reencrypt's comment (clips.ts:415-417): each write is conditional
\* on the account still being at the epoch the request targets.  A row
\* re-encrypted to an epoch would then always be sealed under its key.
ReencryptedUnderItsEpoch ==
    [][\A i \in DOMAIN clips \cap DOMAIN clips' :
          clips'[i].keyEpoch # clips[i].keyEpoch
              => clips'[i].envelope.key = clips'[i].keyEpoch]_vars

\* Stated of a clip's keyEpoch (packages/protocol/src/index.ts:118): "Which
\* vault key encrypted this clip".  A bump stores the envelope it sealed
\* before a re-key in a row re-encryption has moved past it.
KeyEpochNamesKey == \A i \in DOMAIN clips : clips[i].envelope.key = clips[i].keyEpoch

\* Stated by the purge (purge.ts:48-51): unpinned clips die on schedule, so
\* every unpinned row has a time to die at.
UnpinnedExpire == \A i \in DOMAIN clips : ~clips[i].pinned => clips[i].expires
==============================================================================
