------------------------------- MODULE Agent -------------------------------
(***************************************************************************)
(* The agent of one device: it polls the local clipboard and sends what is *)
(* new, and writes to it what other devices copy, without sending that     *)
(* back (apps/agent/src/daemon.ts).                                        *)
(*                                                                         *)
(* Each `await` of the daemon is a step: between two of them the user may  *)
(* copy, events arrive and other handlers run.  A poll, a push and a key   *)
(* refresh are one at a time; events are each handled at once (`void       *)
(* this.apply`).  A tag is a dedupe hash, keyed by the epoch, or a digest  *)
(* of an image or of files.                                                *)
(*                                                                         *)
(* The guards of the daemon are not enough for every order of these steps. *)
(* `slipped` records that one that defeats them has been met, so that a    *)
(* property can say what holds until then:                                 *)
(*   - a push failed, after something else had been applied or sent;       *)
(*   - two events were written at once;                                    *)
(*   - an event was applied while the digest of a read was taken, of files *)
(*     read as text as of any other: it is not asked again whether it was  *)
(*     overtaken;                                                          *)
(*   - an event was applied, or the clipboard read, while the guard was    *)
(*     primed anew for a new key, or an event was hashed under the old key *)
(*     and applied under the new;                                          *)
(*   - a write failed, the guard set.                                      *)
(* `swallowed`: what the user had copied was taken for handled.            *)
(***************************************************************************)
EXTENDS Naturals, FiniteSets
CONSTANTS
    Texts, Images, Files,   \* what may be copied
    Back,            \* image |-> what the clipboard hands back once it is written
    FilesOfferText,  \* whether copied files read as text, too
    Handlers,        \* bound: events handled at once
    ImagePollEvery,  \* IMAGE_POLL_EVERY
    Found,           \* what the clipboard may hold at the start
    Copied,          \* what the user copies
    Received,        \* what other devices copy
    MaxCopies, MaxReceived,   \* bounds: how often
    MaxEpoch,        \* bound: re-keys
    MaxFails,        \* bound: what fails
    Watches,         \* whether the clipboard announces its changes
    NoContent

Contents == Texts \cup Images \cup Files

ASSUME ContentAssumption ==
    /\ NoContent \notin Contents
    /\ Texts \cap Images = {} /\ Texts \cap Files = {} /\ Images \cap Files = {}
    /\ Back \in [Images -> Images]
    /\ FilesOfferText \in BOOLEAN /\ Watches \in BOOLEAN
ASSUME AgentBounds ==
    /\ IsFiniteSet(Handlers)
    /\ ImagePollEvery \in Nat \ {0} /\ MaxEpoch \in Nat \ {0} /\ MaxFails \in Nat
    /\ Found \subseteq Texts \cup {NoContent}
    /\ Copied \subseteq Contents /\ Received \subseteq Contents
    /\ MaxCopies \in Nat /\ MaxReceived \in Nat

VARIABLES
    \* the machine
    clipboard,    \* what it holds, and whether the user copied it
    copied,       \* how often the user has copied
    unsent,       \* the user's copy has not been dealt with (history)
    \* the server
    epoch,        \* the vault's key epoch
    newest,       \* the newest clip in history
    remote,       \* how often another device has
    fails,        \* how much has failed
    \* the daemon
    lastHandled, candidate, receivedTag,   \* tags
    writing, recheck, quiet, watching,
    imageTick,
    poll,         \* the poll, and the push it ends in
    handler,      \* the events being handled
    keys,         \* keys.current
    refreshing,   \* the key refresh
    online, connectedBefore, stopped,
    slipped, swallowed   \* orders met that the guards do not cover (history)

machine == <<clipboard, copied, unsent>>
vault == <<epoch, newest, remote>>
guards == <<lastHandled, candidate, receivedTag>>
watch == <<quiet, watching>>
socket == <<online, connectedBefore, stopped>>
slips == <<slipped, swallowed>>
agentVars == <<machine, vault, fails, guards, watch, socket, writing, recheck, imageTick,
          poll, handler, keys, refreshing, slips>>

Epochs == 1..MaxEpoch
Tags == (Contents \cup {NoContent}) \X (0..MaxEpoch)
NoTag == <<NoContent, 0>>
DigestTag(c) == <<c, 0>>
TextTag(c, e) == <<c, e>>      \* dedupeHash
IsDigest(tag) == tag[1] # NoContent /\ tag[2] = 0
ReadsAsText(c) == c \in Texts \/ (c \in Files /\ FilesOfferText)

Clip == [c : Contents \cup {NoContent}, e : Epochs,
         mine : BOOLEAN,       \* this device's
         newer : BOOLEAN]      \* created after localChangedAt
Poll == [pc : {"idle", "read", "hash", "files", "found", "files tag", "look", "check",
               "digest", "sent", "await key"},
         after : BOOLEAN,      \* afterChange
         stale : BOOLEAN,      \* `applied` has moved since it began
         c : Contents \cup {NoContent}, own : BOOLEAN,   \* what it read
         tag : Tags, e : Epochs]     \* its tag; the epoch it is sealed under
Handler == [pc : {"idle", "list", "open", "await key", "hash", "fetch", "write", "back"},
            c : Contents \cup {NoContent}, e : Epochs, tag : Tags]
Refresh == [pc : {"idle", "fetch", "read", "prime"}, c : Contents \cup {NoContent},
            was : Tags]

Quiet == [pc |-> "idle", after |-> FALSE, stale |-> FALSE, c |-> NoContent, own |-> FALSE,
          tag |-> NoTag, e |-> 1]
Free == [pc |-> "idle", c |-> NoContent, e |-> 1, tag |-> NoTag]
NoRefresh == [pc |-> "idle", c |-> NoContent, was |-> NoTag]

-----------------------------------------------------------------------------
(* The clipboard, and the rest of the world.                               *)

\* A change event, where there are any: the clipboard is read once it is quiet.
Announces == quiet' = (quiet \/ watching)

\* The user copies something; the event may be missed.
UserCopies ==
    /\ copied < MaxCopies
    /\ copied' = copied + 1
    /\ \E c \in Copied :
         /\ clipboard' = [c |-> c, own |-> TRUE]
         /\ unsent' = IF c = clipboard.c THEN unsent
                      ELSE lastHandled \notin {TextTag(c, keys), DigestTag(c)}
    /\ \/ Announces /\ UNCHANGED fails
       \/ fails < MaxFails /\ fails' = fails + 1 /\ UNCHANGED quiet
    /\ UNCHANGED <<vault, guards, watching, socket, writing, recheck, imageTick,
                   poll, handler, keys, refreshing, slips>>

\* Another device copies something: an event, to a device that is online.
RemoteCopies ==
    /\ remote < MaxReceived
    /\ remote' = remote + 1
    /\ \E c \in Received :
       /\ newest' = [c |-> c, e |-> epoch, mine |-> FALSE, newer |-> TRUE]
       /\ IF online
          THEN \E h \in Handlers :
                 /\ handler[h] = Free
                 /\ handler' = [handler EXCEPT ![h] = [Free EXCEPT !.pc = "open", !.c = c, !.e = epoch]]
          ELSE UNCHANGED handler
    /\ UNCHANGED <<machine, epoch, fails, guards, watch, socket, writing, recheck, imageTick,
                   poll, keys, refreshing, slips>>

SlipsIf(order) == slipped' = (slipped \/ order) /\ UNCHANGED swallowed

Asks == refreshing' = IF refreshing.pc = "idle" THEN [refreshing EXCEPT !.pc = "fetch"] ELSE refreshing

\* The vault is re-keyed; vault.rotated reaches a device that is online.
Rotates ==
    /\ epoch < MaxEpoch
    /\ epoch' = epoch + 1
    /\ IF online THEN Asks ELSE UNCHANGED refreshing
    /\ UNCHANGED <<machine, newest, remote, fails, guards, watch, socket, writing, recheck,
                   imageTick, poll, handler, keys, slips>>

-----------------------------------------------------------------------------
(* Reading the clipboard.                                                  *)

Starts(after) == poll' = [Quiet EXCEPT !.pc = "read", !.after = after]
Busy == poll.pc # "idle" \/ writing

\* The timer.
Tick ==
    /\ ~stopped /\ ~Busy
    /\ Starts(FALSE)
    /\ UNCHANGED <<machine, vault, fails, guards, watch, socket, writing, recheck, imageTick,
                   handler, keys, refreshing, slips>>

\* The clipboard has been quiet for a moment since it changed.
QuietEnds ==
    /\ quiet /\ ~stopped
    /\ quiet' = FALSE
    /\ IF Busy THEN recheck' = TRUE /\ UNCHANGED poll ELSE Starts(TRUE) /\ UNCHANGED recheck
    /\ UNCHANGED <<machine, vault, fails, guards, watching, socket, writing,
                   imageTick, handler, keys, refreshing, slips>>

\* readAgainIfAsked.
ReadsAgain ==
    /\ recheck /\ ~Busy
    /\ recheck' = FALSE
    /\ IF stopped THEN UNCHANGED poll ELSE Starts(TRUE)
    /\ UNCHANGED <<machine, vault, fails, guards, watch, socket, writing, imageTick, handler,
                   keys, refreshing, slips>>

\* The watcher dies, or is given up: the clipboard changed and no event said so.
WatchEnds ==
    /\ watching /\ fails < MaxFails
    /\ watching' = FALSE /\ fails' = fails + 1
    /\ UNCHANGED <<machine, vault, guards, quiet, socket, writing, recheck,
                   imageTick, poll, handler, keys, refreshing, slips>>

Settling == candidate # NoTag /\ IsDigest(candidate)

\* poll: text is hashed, anything else is looked at every third time (pollBinary).
\* While the guard is primed, the hash is of the new key and the guard of the old.
Read ==
    /\ poll.pc = "read"
    /\ IF ReadsAsText(clipboard.c)
       THEN /\ poll' = [poll EXCEPT !.pc = "hash", !.c = clipboard.c, !.own = clipboard.own,
                                    !.tag = TextTag(clipboard.c, keys)]
            /\ UNCHANGED imageTick
       ELSE /\ imageTick' = IF poll.after THEN imageTick ELSE (imageTick + 1) % ImagePollEvery
            /\ poll' = IF ~poll.after /\ imageTick' # 0 /\ ~Settling
                       THEN Quiet ELSE [poll EXCEPT !.pc = "look"]
    /\ SlipsIf(refreshing.pc \in {"read", "prime"})
    /\ UNCHANGED <<machine, vault, fails, guards, watch, socket, writing, recheck, handler,
                   keys, refreshing>>

\* settled: twice in a row, or once after an event.  What is new is newer than
\* what came before it (localChangedAt).
Settled(tag) == tag # lastHandled /\ (poll.after \/ tag = candidate)
Settles(tag) ==
    /\ candidate' = IF tag = lastHandled \/ poll.after \/ tag = candidate THEN NoTag ELSE tag
    /\ newest' = [newest EXCEPT !.newer = @ /\ (tag = lastHandled \/ (~poll.after /\ tag = candidate))]

\* What if a read that was overtaken were not dropped?
Overlooked == FALSE
Overtaken == poll.stale

\* The hash of a text is there.
Hashed ==
    /\ poll.pc = "hash"
    /\ IF Overtaken
       THEN poll' = Quiet /\ UNCHANGED <<candidate, newest>>
       ELSE /\ Settles(poll.tag)
            /\ poll' = IF Settled(poll.tag) THEN [poll EXCEPT !.pc = "files"] ELSE Quiet
    /\ UNCHANGED <<machine, epoch, remote, fails, lastHandled, receivedTag, watch, socket,
                   writing, recheck, imageTick, handler, keys, refreshing, slips>>

\* What is sent is claimed before it is sent.
Claims(tag) ==
    /\ lastHandled' = tag
    /\ poll' = [poll EXCEPT !.pc = "sent", !.tag = tag, !.e = keys]

\* A copy of the file that was received needs no sending.
Recognises == unsent' = (unsent /\ ~(clipboard.c = poll.c /\ receivedTag = DigestTag(poll.c)))

\* The text may stand for files, or if it is one address for an image: what is
\* there by now is read, and goes by the tag of the text.
ReadsBeside ==
    /\ poll.pc = "files"
    /\ \/ /\ clipboard.c \in Files \/ (clipboard.c \in Images /\ poll.c \in Texts)
          /\ poll' = [poll EXCEPT !.pc = "found", !.c = clipboard.c, !.own = clipboard.own]
       \/ /\ clipboard.c \notin Files
          /\ poll' = [poll EXCEPT !.pc = "found"]
    /\ UNCHANGED <<machine, vault, fails, guards, watch, socket, writing, recheck, imageTick,
                   handler, keys, refreshing, slips>>

\* Files are told from the ones received last by their digest, if any were.
TextRead ==
    /\ poll.pc = "found"
    /\ IF Overtaken THEN poll' = Quiet /\ UNCHANGED lastHandled
       ELSE IF poll.c \in Files /\ receivedTag # NoTag
       THEN poll' = [poll EXCEPT !.pc = "files tag"] /\ UNCHANGED lastHandled
       ELSE Claims(poll.tag)
    /\ UNCHANGED <<machine, vault, fails, candidate, receivedTag, watch, socket, writing, recheck,
                   imageTick, handler, keys, refreshing, slips>>

\* The digest is there.  It is not asked again whether the read was overtaken.
FilesTagged ==
    /\ poll.pc = "files tag"
    /\ IF receivedTag = DigestTag(poll.c)
       THEN poll' = Quiet /\ lastHandled' = poll.tag
       ELSE Claims(poll.tag)
    /\ SlipsIf(poll.stale)
    /\ Recognises
    /\ UNCHANGED <<clipboard, copied, vault, fails, candidate, receivedTag, watch, socket, writing, recheck,
                   imageTick, handler, keys, refreshing>>

\* Files or an image are read; it may be gone.
Look ==
    /\ poll.pc = "look"
    /\ IF clipboard.c = NoContent \/ ReadsAsText(clipboard.c)
       THEN /\ poll' = Quiet
            /\ candidate' = IF Settling THEN NoTag ELSE candidate
       ELSE /\ poll' = [poll EXCEPT !.pc = "check", !.c = clipboard.c, !.own = clipboard.own,
                                    !.tag = DigestTag(clipboard.c)]
            /\ UNCHANGED candidate
    /\ UNCHANGED <<machine, vault, fails, lastHandled, receivedTag, watch, socket, writing,
                   recheck, imageTick, handler, keys, refreshing, slips>>

Checks ==
    /\ poll.pc = "check"
    /\ poll' = IF Overtaken THEN Quiet ELSE [poll EXCEPT !.pc = "digest"]
    /\ UNCHANGED <<machine, vault, fails, guards, watch, socket, writing, recheck, imageTick,
                   handler, keys, refreshing, slips>>

\* The digest is there.  It is not asked again whether the read was overtaken.
Digested ==
    /\ poll.pc = "digest"
    /\ IF poll.c \in Files /\ poll.tag = receivedTag
       THEN lastHandled' = poll.tag /\ poll' = Quiet /\ UNCHANGED <<candidate, newest>>
       ELSE /\ Settles(poll.tag)
            /\ IF Settled(poll.tag) THEN Claims(poll.tag) ELSE poll' = Quiet /\ UNCHANGED lastHandled
    /\ SlipsIf(poll.stale)
    /\ Recognises
    /\ UNCHANGED <<clipboard, copied, epoch, remote, fails, receivedTag, watch, socket, writing,
                   recheck, imageTick, handler, keys, refreshing>>

-----------------------------------------------------------------------------
(* Sending.                                                                *)

\* What was read is dealt with, if it is what the user last copied.
DealtWith(c) == unsent' = (unsent /\ clipboard.c # c)
\* The guard loses what has been put in it since the poll began.
Overwrites(tag) == SlipsIf(poll.stale \/ lastHandled # tag)

\* POST /api/clips, or an upload: the server takes it, under the current key.
Accepted ==
    /\ poll.pc = "sent" /\ poll.e = epoch
    /\ newest' = [c |-> poll.c, e |-> epoch, mine |-> TRUE, newer |-> TRUE]
    /\ DealtWith(poll.c)
    /\ poll' = Quiet
    /\ UNCHANGED <<clipboard, copied, epoch, remote, fails, guards, watch, socket, writing,
                   recheck, imageTick, handler, keys, refreshing, slips>>

\* 409: the key is old.  The poll waits for the new one.
Stale ==
    /\ poll.pc = "sent" /\ poll.e # epoch
    /\ lastHandled' = NoTag /\ Overwrites(poll.tag)
    /\ Asks
    /\ poll' = [poll EXCEPT !.pc = "await key"]
    /\ UNCHANGED <<machine, vault, fails, candidate, receivedTag, watch, socket, writing, recheck,
                   imageTick, handler, keys>>

KeyAwaited ==
    /\ poll.pc = "await key" /\ refreshing.pc = "idle"
    /\ poll' = Quiet
    /\ UNCHANGED <<machine, vault, fails, guards, watch, socket, writing, recheck, imageTick,
                   handler, keys, refreshing, slips>>

\* What if what could not be sent were not sent again?
GivesUp(tag) == tag
SendsAgain(tag) == NoTag

\* It fails: the next poll sends it again.
SendFails ==
    /\ poll.pc = "sent" /\ fails < MaxFails
    /\ fails' = fails + 1
    /\ lastHandled' = SendsAgain(poll.tag) /\ Overwrites(poll.tag)
    /\ poll' = Quiet
    /\ UNCHANGED <<machine, vault, candidate, receivedTag, watch, socket, writing, recheck,
                   imageTick, handler, keys, refreshing>>

\* It is refused for good: too large, over the budget, or this release too old.
SendRefused ==
    /\ poll.pc = "sent" /\ fails < MaxFails
    /\ fails' = fails + 1
    /\ lastHandled' = poll.tag /\ Overwrites(poll.tag)
    /\ DealtWith(poll.c)
    /\ poll' = Quiet
    /\ UNCHANGED <<clipboard, copied, vault, candidate, receivedTag, watch, socket, writing,
                   recheck, imageTick, handler, keys, refreshing>>

-----------------------------------------------------------------------------
(* Applying what other devices copy.                                       *)

Goes(h, pc) == handler' = [handler EXCEPT ![h].pc = pc]
Ends(h) == handler' = [handler EXCEPT ![h] = Free]

\* catchUp: the newest clip, if it is no older than ten minutes.
Lists(h) ==
    /\ handler[h].pc = "list"
    /\ \E old \in BOOLEAN :
       IF old \/ newest.c = NoContent \/ newest.mine \/ ~newest.newer
            \/ (newest.c \in Texts /\ newest.e = keys /\ TextTag(newest.c, keys) = lastHandled)
       THEN Ends(h)
       ELSE handler' = [handler EXCEPT ![h] = [Free EXCEPT !.pc = "open", !.c = newest.c, !.e = newest.e]]
    /\ UNCHANGED <<machine, vault, fails, guards, watch, socket, writing, recheck, imageTick,
                   poll, keys, refreshing, slips>>

\* openFresh: a clip of a key this device does not have waits for it, once.
Opens(h) ==
    LET w == handler[h] IN
    /\ \/ w.pc = "open"
       \/ w.pc = "await key" /\ refreshing.pc = "idle"
    /\ IF w.e > keys
       THEN IF w.pc = "open" THEN Goes(h, "await key") /\ Asks ELSE Ends(h) /\ UNCHANGED refreshing
       ELSE /\ UNCHANGED refreshing
            /\ IF w.c \in Texts
               THEN handler' = [handler EXCEPT ![h].pc = "hash", ![h].tag = TextTag(w.c, keys)]
               ELSE IF w.c \in Images /\ DigestTag(w.c) = lastHandled
               THEN Ends(h)
               ELSE handler' = [handler EXCEPT ![h].pc = "fetch", ![h].tag = DigestTag(w.c)]
    /\ UNCHANGED <<machine, vault, fails, guards, watch, socket, writing, recheck, imageTick,
                   poll, keys, slips>>

\* The guards are set before the write: a poll under way has been overtaken, and
\* what was settling is about to be overwritten.  (What if only the guard were?)
OvertakesNone == UNCHANGED poll
Overtakes == poll' = IF poll.pc = "idle" THEN poll ELSE [poll EXCEPT !.stale = TRUE]

Guards(h) ==
    LET w == handler[h] IN
    /\ w.pc \in {"hash", "fetch"}
    /\ lastHandled' = w.tag
    /\ receivedTag' = IF w.c \in Files THEN w.tag ELSE receivedTag
    /\ candidate' = NoTag
    /\ Overtakes
    /\ writing' = TRUE
    /\ Goes(h, "write")
    /\ SlipsIf(\/ writing \/ refreshing.pc \in {"read", "prime"}
               \/ w.c \in Texts /\ w.tag[2] # keys)
    /\ UNCHANGED <<machine, vault, fails, watch, socket, recheck, imageTick, keys, refreshing>>

Writes(h) ==
    LET w == handler[h] IN
    /\ w.pc = "write"
    /\ clipboard' = [c |-> IF w.c \in Images THEN Back[w.c] ELSE w.c, own |-> FALSE]
    /\ unsent' = FALSE
    /\ Announces
    /\ IF w.c \in Images THEN Goes(h, "back") /\ UNCHANGED writing
       ELSE Ends(h) /\ writing' = FALSE
    /\ UNCHANGED <<copied, vault, fails, guards, watching, socket, recheck, imageTick,
                   poll, keys, refreshing, slips>>

\* An image is read back, as the clipboard has it.
ReadsBack(h) ==
    /\ handler[h].pc = "back"
    /\ lastHandled' = IF clipboard.c \in Images THEN DigestTag(clipboard.c) ELSE lastHandled
    /\ swallowed' = (swallowed \/ (clipboard.c \in Images /\ clipboard.own))
    /\ UNCHANGED slipped
    /\ writing' = FALSE
    /\ Ends(h)
    /\ UNCHANGED <<machine, vault, fails, candidate, receivedTag, watch, socket, recheck,
                   imageTick, poll, keys, refreshing>>

Unlocks(w) == writing /\ w.pc \notin {"write", "back"}

\* A clip cannot be read, is too old, or cannot be fetched or written.
ApplyFails(h) ==
    LET w == handler[h] IN
    /\ w.pc # "idle" /\ fails < MaxFails
    /\ fails' = fails + 1
    /\ writing' = Unlocks(w)
    /\ SlipsIf(w.pc \in {"write", "back"})
    /\ Ends(h)
    /\ UNCHANGED <<machine, vault, guards, watch, socket, recheck, imageTick, poll, keys,
                   refreshing>>

-----------------------------------------------------------------------------
(* A new key.                                                              *)

\* refresh: the key is there; every hash taken so far is of another.
Refreshed ==
    /\ refreshing.pc = "fetch"
    /\ IF epoch = keys
       THEN refreshing' = NoRefresh /\ UNCHANGED <<keys, candidate, poll>>
       ELSE /\ keys' = epoch
            /\ Overtakes
            /\ candidate' = NoTag
            /\ refreshing' = IF lastHandled # NoTag /\ ~IsDigest(lastHandled)
                             THEN [refreshing EXCEPT !.pc = "read"] ELSE NoRefresh
    /\ UNCHANGED <<machine, vault, fails, lastHandled, receivedTag, watch, socket, writing,
                   recheck, imageTick, handler, slips>>

\* The guard is primed with what the clipboard holds.  What the user has just
\* copied is taken for handled.
PrimeReads ==
    /\ refreshing.pc = "read"
    /\ refreshing' = [pc |-> "prime", was |-> lastHandled,
                      c |-> IF ReadsAsText(clipboard.c) THEN clipboard.c ELSE NoContent]
    /\ swallowed' = (swallowed \/ (ReadsAsText(clipboard.c) /\ unsent))
    /\ slipped' = (slipped \/ writing)
    /\ UNCHANGED <<machine, vault, fails, guards, watch, socket, writing, recheck, imageTick,
                   poll, handler, keys>>

Primes ==
    /\ refreshing.pc = "prime"
    /\ lastHandled' = IF refreshing.c = NoContent THEN NoTag ELSE TextTag(refreshing.c, keys)
    /\ SlipsIf(lastHandled # refreshing.was)
    /\ refreshing' = NoRefresh
    /\ UNCHANGED <<machine, vault, fails, candidate, receivedTag, watch, socket, writing, recheck,
                   imageTick, poll, handler, keys>>

RefreshFails ==
    /\ refreshing.pc = "fetch" /\ fails < MaxFails
    /\ fails' = fails + 1
    /\ refreshing' = NoRefresh
    /\ UNCHANGED <<machine, vault, guards, watch, socket, writing, recheck, imageTick, poll,
                   handler, keys, slips>>

-----------------------------------------------------------------------------
(* The socket, and the end.                                                *)

Disconnects ==
    /\ online /\ fails < MaxFails
    /\ online' = FALSE /\ fails' = fails + 1
    /\ UNCHANGED <<machine, vault, guards, watch, connectedBefore, stopped, writing, recheck,
                   imageTick, poll, handler, keys, refreshing, slips>>

\* `ready`: a reconnect catches up.
GoesOnline ==
    /\ ~online /\ ~stopped
    /\ online' = TRUE /\ connectedBefore' = TRUE
    /\ IF connectedBefore
       THEN \E h \in Handlers : handler[h] = Free /\ Goes(h, "list")
       ELSE UNCHANGED handler
    /\ UNCHANGED <<machine, vault, fails, guards, watch, stopped, writing, recheck, imageTick,
                   poll, keys, refreshing, slips>>

\* Revoked, stranded by a re-key, or told to: what is under way goes on.
Stops ==
    /\ ~stopped /\ fails < MaxFails
    /\ fails' = fails + 1
    /\ stopped' = TRUE /\ online' = FALSE /\ watching' = FALSE /\ quiet' = FALSE
    /\ UNCHANGED <<machine, vault, guards, connectedBefore, writing, recheck,
                   imageTick, poll, handler, keys, refreshing, slips>>

-----------------------------------------------------------------------------
\* start has primed the guard with what the clipboard holds, if anything.
AgentInit ==
    /\ \E c \in Found :
         /\ clipboard = [c |-> c, own |-> TRUE]
         /\ lastHandled = IF c = NoContent THEN NoTag ELSE TextTag(c, 1)
    /\ copied = 0 /\ unsent = FALSE
    /\ epoch = 1 /\ keys = 1 /\ remote = 0 /\ fails = 0
    /\ newest = [c |-> NoContent, e |-> 1, mine |-> FALSE, newer |-> FALSE]
    /\ candidate = NoTag /\ receivedTag = NoTag
    /\ watching = Watches /\ quiet = Watches
    /\ writing = FALSE /\ recheck = FALSE /\ imageTick = 0
    /\ poll = Quiet /\ refreshing = NoRefresh
    /\ handler = [h \in Handlers |-> Free]
    /\ online = FALSE /\ connectedBefore = FALSE /\ stopped = FALSE
    /\ slipped = FALSE /\ swallowed = FALSE

PollStep ==
    \/ Read \/ Hashed \/ ReadsBeside \/ TextRead \/ FilesTagged
    \/ Look \/ Checks \/ Digested
    \/ Accepted \/ Stale \/ KeyAwaited
HandlerStep(h) == Lists(h) \/ Opens(h) \/ Guards(h) \/ Writes(h) \/ ReadsBack(h)
KeyStep == Refreshed \/ PrimeReads \/ Primes

AgentNext ==
    \/ UserCopies \/ RemoteCopies \/ Rotates
    \/ Tick \/ QuietEnds \/ ReadsAgain \/ WatchEnds
    \/ PollStep \/ SendFails \/ SendRefused
    \/ \E h \in Handlers : HandlerStep(h) \/ ApplyFails(h)
    \/ KeyStep \/ RefreshFails
    \/ Disconnects \/ GoesOnline \/ Stops

\* The timer goes off, and what is awaited comes.
AgentFairness ==
    /\ WF_agentVars(Tick) /\ WF_agentVars(QuietEnds) /\ WF_agentVars(ReadsAgain)
    /\ WF_agentVars(PollStep) /\ WF_agentVars(KeyStep) /\ WF_agentVars(GoesOnline)
    /\ \A h \in Handlers : WF_agentVars(HandlerStep(h))

AgentSpec == AgentInit /\ [][AgentNext]_agentVars
AgentFairSpec == AgentSpec /\ AgentFairness

-----------------------------------------------------------------------------
\* Every variable has its type; what is sent was read; and polls are locked out
\* only while something is being written.
AgentTypeOK ==
    /\ clipboard \in [c : Contents \cup {NoContent}, own : BOOLEAN]
    /\ copied \in 0..MaxCopies /\ remote \in 0..MaxReceived
    /\ epoch \in Epochs /\ keys \in Epochs /\ keys <= epoch
    /\ newest \in Clip /\ fails \in 0..MaxFails
    /\ {lastHandled, candidate, receivedTag} \subseteq Tags
    /\ {unsent, writing, recheck, quiet, watching, online, connectedBefore, stopped,
      slipped, swallowed}
          \subseteq BOOLEAN
    /\ imageTick \in 0..(ImagePollEvery - 1)
    /\ poll \in Poll /\ handler \in [Handlers -> Handler] /\ refreshing \in Refresh
    /\ poll.pc = "sent" => poll.c # NoContent
    /\ writing => \E h \in Handlers : handler[h].pc \in {"write", "back"}

\* Nothing another device copied is sent as this device's ("the next poll
\* recognises it and stays quiet"), until an order of steps is met that the
\* guards do not cover.
NoEcho == poll.pc = "sent" /\ ~slipped => poll.own

\* What the header promises: it is never sent.
StaysQuiet == poll.pc = "sent" => poll.own

\* What is sent is what the clipboard holds or the user has replaced: never what
\* a clip applied since the read has overwritten, or is about to.
SendsWhatIsThere ==
    [][poll.pc # "sent" /\ poll'.pc = "sent" /\ ~slipped'
       => ~writing /\ (clipboard.own \/ clipboard.c = poll'.c)]_agentVars

\* What the user copies is sent, or overwritten, though sending may fail and
\* change events may be missed; unless the guard took it for handled.
CopiesAreSent == unsent ~> ~unsent \/ stopped \/ slipped \/ swallowed
=============================================================================
