------------------------------- MODULE Browser -------------------------------
(***************************************************************************)
(* One browser of the web app: its tabs, and what they share               *)
(* (apps/web/src/session.ts, App.tsx, screens.tsx, JoinScreen.tsx,         *)
(* Settings.tsx, ShareScreen.tsx, shares.ts, clipboard.ts, public/sw.js).  *)
(*                                                                         *)
(* The credentials and the keypairs are the browser's, the vault keys are  *)
(* a tab's, or the browser's if the device opted in.  What the system's    *)
(* share sheet hands over is kept by the service worker, and sent by a     *)
(* tab once it holds the keys: read from a cache, opened with the          *)
(* passphrase, or fetched sealed to the browser after a re-key.            *)
(*                                                                         *)
(* The key of epoch e is e, so a key is right when it is filed under       *)
(* itself.  One account; a file is one request (BlobStore has its chunks); *)
(* an enrolment's key is of the epoch it names (VaultKeys has the invite   *)
(* whose is not).  A request is lost, with or without its effect; or it is *)
(* refused, for as long as it may be: by the browser (a file over the      *)
(* limit), or by the account (a plan without files, no room for one, the   *)
(* month's uploads spent).  Left out: shares that are never kept (the text *)
(* in an address, one the worker could not store).                         *)
(***************************************************************************)
EXTENDS Naturals, FiniteSets, FiniteSetsExt
CONSTANTS
    Tabs,
    Shares,
    Refusable,   \* the parts of shares that may be refused, each time they are sent
    MaxEpoch,    \* bound: re-keys
    MaxDevices,  \* bound: enrolments known at once
    MaxActs,     \* bound: what the user does of himself
    MaxFails     \* bound: requests lost, passphrases mistyped

ASSUME TabsAssumption ==
    IsFiniteSet(Tabs) /\ IsFiniteSet(Shares) /\ Refusable \subseteq Shares \X {"text", "file"}
ASSUME BoundAssumption ==
    MaxEpoch \in Nat /\ MaxDevices \in Nat \ {0} /\ MaxActs \in Nat /\ MaxFails \in Nat

Epochs == 0..MaxEpoch
Devices == 1..MaxDevices
Nobody == 0
NoShare == "none"
Parts == {"text", "file"}
Empty == << >>
Rings == UNION {[S -> Epochs] : S \in SUBSET Epochs}
\* A tab refreshes its keys for the history it shows and for a share it sends.
First == CHOOSE t \in Tabs : TRUE
Threads == Tabs \X {"app", "share"}
NoKey == <<0, "none">>
Keypairs == Threads \cup {NoKey}

VARIABLES
    \* the server
    epoch,    \* the account's key epoch
    devices,  \* the browser's enrolments
    stored,   \* the parts the account has
    \* the browser
    creds,    \* the device in localStorage
    local,    \* the ring in localStorage
    idb,      \* device |-> its keypair in IndexedDB
    kept,     \* share |-> what became of it
    \* the tabs
    tab,
    sync,     \* thread |-> its syncRing
    opening,  \* tab |-> its unlockWithPassphrase
    acts, fails

server == <<epoch, devices, stored>>
browser == <<creds, local, idb, kept>>
calls == <<sync, opening>>
counts == <<acts, fails>>
vars == <<server, browser, tab, calls, counts>>

Device == [status : {"on", "off"}, at : Epochs, pub : Keypairs, sealed : Keypairs]
Row == [share : Shares, part : Parts, epoch : Epochs, key : Epochs]
Tab ==
    [view : {"closed", "app", "share"}, share : Shares \cup {NoShare},
     dev : Devices \cup {Nobody}, ring : Rings, session : Rings,
     stranded : BOOLEAN, leaving : BOOLEAN, sweeps : SUBSET Shares,
     phase : {"none", "loading", "locked", "opening", "sending", "fetching",
              "saved", "missing", "error"},
     using : Rings, left : SUBSET Parts, again : BOOLEAN]
Sync ==
    [pc : {"idle", "get", "put", "register", "fetch", "cache"},
     dev : Devices \cup {Nobody}, held : Rings, key : Keypairs, got : Epochs]
Opening ==
    [pc : {"idle", "ask", "derive"}, for : {"none", "app", "share", "pair"},
     dev : Devices \cup {Nobody}, epoch : Epochs, key : Epochs]

Idle == [pc |-> "idle", dev |-> Nobody, held |-> Empty, key |-> NoKey, got |-> 0]
Shut == [pc |-> "idle", for |-> "none", dev |-> Nobody, epoch |-> 0, key |-> 0]
Closed ==
    [view |-> "closed", share |-> NoShare, dev |-> Nobody, ring |-> Empty, session |-> Empty,
     stranded |-> FALSE, leaving |-> FALSE, sweeps |-> {}, phase |-> "none",
     using |-> Empty, left |-> {}, again |-> FALSE]

\* The ring of one key.
OnlyKey(e) == [x \in {e} |-> e]

\* A browser that has just signed in, in one tab.
Init ==
    /\ epoch = 0 /\ stored = {}
    /\ devices = [d \in Devices |-> [status |-> IF d = 1 THEN "on" ELSE "off", at |-> 0,
                                     pub |-> NoKey, sealed |-> NoKey]]
    /\ creds = 1 /\ local = Empty /\ idb = [d \in Devices |-> NoKey]
    /\ kept = [s \in Shares |-> "never"]
    /\ tab = [t \in Tabs |-> IF t # First THEN Closed ELSE
                  [Closed EXCEPT !.view = "app", !.dev = 1, !.ring = OnlyKey(0), !.session = OnlyKey(0)]]
    /\ sync = [th \in Threads |-> Idle] /\ opening = [t \in Tabs |-> Shut]
    /\ acts = 0 /\ fails = 0

Acts == acts < MaxActs /\ acts' = acts + 1 /\ UNCHANGED fails
Fails == fails < MaxFails /\ fails' = fails + 1 /\ UNCHANGED acts
\* A number nothing here refers to any more stands for the next enrolment.
Unused ==
    {d \in Devices :
       /\ creds # d
       /\ \A t \in Tabs : tab[t].dev # d /\ opening[t].dev # d
       /\ \A th \in Threads : sync[th].dev # d}

-----------------------------------------------------------------------------
(* The ring, and where it is cached.                                       *)

Current(r) == Max(DOMAIN r)
WithKey(r, e, k) == [x \in DOMAIN r \cup {e} |-> IF x = e THEN k ELSE r[x]]

\* cachedRing: the tab's own comes first.
Cached(t) == IF tab[t].session # Empty THEN tab[t].session ELSE local
Persisted == local # Empty

\* cacheRing: it forgets this tab's ring and the browser's, never another
\* tab's; forgetVaultKey is the empty ring.  x is what else becomes of the tab.
Cache(t, x, r, persist) ==
    /\ local' = (IF persist THEN r ELSE Empty)
    /\ tab' = [tab EXCEPT ![t] = [x EXCEPT !.session = IF persist THEN Empty ELSE r]]

-----------------------------------------------------------------------------
(* A page, and the share it was opened with.                               *)

\* ShareScreen's save: every part, from the first, under the ring.
Saves(x, r, again) ==
    [x EXCEPT !.phase = "sending", !.using = r, !.left = Parts, !.again = again]
Begins(t, x) == IF Cached(t) # Empty THEN Saves(x, Cached(t), FALSE) ELSE [x EXCEPT !.phase = "locked"]

\* A page loads: the React state begins anew, from what is cached.
Loaded(t, view, s) ==
    [Closed EXCEPT
       !.view = view, !.share = s, !.dev = creds, !.session = tab[t].session,
       !.ring = IF creds # Nobody THEN Cached(t) ELSE Empty,
       !.sweeps = {x \in Shares : kept[x] = "old"},
       !.phase = IF view = "share" /\ creds # Nobody THEN "loading" ELSE "none"]
Stops(t) ==
    /\ sync' = [th \in Threads |-> IF th[1] = t THEN Idle ELSE sync[th]]
    /\ opening' = [opening EXCEPT ![t] = Shut]

\* The share sheet: kept by the service worker, then a tab is sent to it.
Share(t, s) ==
    /\ tab[t].view = "closed" /\ kept[s] = "never"
    /\ kept' = [kept EXCEPT ![s] = "kept"]
    /\ tab' = [tab EXCEPT ![t] = Loaded(t, "share", s)]
    /\ UNCHANGED <<server, creds, local, idb, calls, counts>>

OpenApp(t) ==
    /\ Acts /\ tab[t].view = "closed"
    /\ tab' = [tab EXCEPT ![t] = Loaded(t, "app", NoShare)]
    /\ UNCHANGED <<server, browser, calls>>

\* A reload, which keeps the tab's session storage.
Again(t) ==
    /\ tab[t].view # "closed"
    /\ tab' = [tab EXCEPT ![t] = Loaded(t, @.view, @.share)]
    /\ Stops(t)
    /\ UNCHANGED <<server, browser>>
Reload(t) == Acts /\ Again(t)
\* The user's way out of an error, when trying again is not; and of a page
\* that asks to enrol what another tab has enrolled.
ReloadStuck(t) ==
    /\ tab[t].phase = "error" \/ (tab[t].view = "share" /\ tab[t].dev = Nobody /\ creds # Nobody)
    /\ Again(t) /\ UNCHANGED counts

Close(t) ==
    /\ Acts /\ tab[t].view # "closed"
    /\ tab' = [tab EXCEPT ![t] = Closed] /\ Stops(t)
    /\ UNCHANGED <<server, browser>>

\* A day passes for a share; a page that loads after that drops it, in its
\* own time.
Age(s) ==
    /\ kept[s] = "kept" /\ kept' = [kept EXCEPT ![s] = "old"]
    /\ UNCHANGED <<server, creds, local, idb, tab, calls, counts>>
Sweep(t) ==
    /\ tab[t].sweeps # {} /\ tab' = [tab EXCEPT ![t].sweeps = {}]
    /\ kept' = [s \in Shares |-> IF s \in tab[t].sweeps THEN "gone" ELSE kept[s]]
    /\ UNCHANGED <<server, creds, local, idb, calls, counts>>

\* What if a share were taken out when it is read?
LoadTaking(t) ==
    /\ tab[t].phase = "loading"
    /\ tab' = [tab EXCEPT ![t] =
                 IF kept[tab[t].share] = "gone" THEN [@ EXCEPT !.phase = "missing"] ELSE Begins(t, @)]
    /\ kept' = [kept EXCEPT ![tab[t].share] = "gone"]
    /\ UNCHANGED <<server, creds, local, idb, calls, counts>>

Load(t) ==
    /\ tab[t].phase = "loading"
    /\ tab' = [tab EXCEPT ![t] =
                 IF kept[tab[t].share] = "gone" THEN [@ EXCEPT !.phase = "missing"] ELSE Begins(t, @)]
    /\ UNCHANGED <<server, browser, calls, counts>>

Sending(t) == tab[t].phase = "sending" /\ tab[t].left # {}
\* The text first, then each file.
Part(t) == IF "text" \in tab[t].left THEN "text" ELSE "file"
On(d) == devices[d].status = "on"
Takes(t) == On(tab[t].dev) /\ Current(tab[t].using) = epoch
Stores(t) ==
    stored' = stored \cup {[share |-> tab[t].share, part |-> Part(t), epoch |-> epoch,
                            key |-> tab[t].using[epoch]]}

SendPart(t) ==
    /\ Sending(t) /\ Takes(t) /\ Stores(t)
    /\ tab' = [tab EXCEPT ![t].left = @ \ {Part(t)}]
    /\ UNCHANGED <<epoch, devices, browser, calls, counts>>

Starts(th, d, r) == sync' = [sync EXCEPT ![th] = [Idle EXCEPT !.pc = "get", !.dev = d, !.held = r]]

\* Written under an older key than the account's: the newer is fetched, once.
SendStale(t) ==
    /\ Sending(t) /\ On(tab[t].dev) /\ Current(tab[t].using) # epoch
    /\ IF tab[t].again
       THEN tab' = [tab EXCEPT ![t].phase = "error"] /\ UNCHANGED sync
       ELSE tab' = [tab EXCEPT ![t].phase = "fetching"] /\ Starts(<<t, "share">>, tab[t].dev, tab[t].using)
    /\ UNCHANGED <<server, browser, opening, counts>>

\* The device was revoked; or a request or its answer is lost.
SendFails(t) ==
    /\ Sending(t) /\ tab' = [tab EXCEPT ![t].phase = "error"]
    /\ \/ ~On(tab[t].dev) /\ UNCHANGED <<stored, counts>>
       \/ Fails /\ UNCHANGED stored
       \/ Fails /\ Takes(t) /\ Stores(t)
    /\ UNCHANGED <<epoch, devices, browser, calls>>

\* A part is over a limit, not of the plan, or over its budget: nothing is
\* stored, and trying again sends every part again.
SendRefused(t) ==
    /\ Sending(t) /\ <<tab[t].share, Part(t)>> \in Refusable
    /\ tab' = [tab EXCEPT ![t].phase = "error"]
    /\ UNCHANGED <<server, browser, calls, counts>>

\* All sent: the kept copy is deleted (best effort).
Saved(t) ==
    /\ tab[t].phase = "sending" /\ tab[t].left = {}
    /\ tab' = [tab EXCEPT ![t].phase = "saved"]
    /\ \/ kept' = [kept EXCEPT ![tab[t].share] = "gone"] /\ UNCHANGED counts
       \/ Fails /\ UNCHANGED kept
    /\ UNCHANGED <<server, creds, local, idb, calls>>

TryAgain(t) ==
    /\ tab[t].phase = "error" /\ tab' = [tab EXCEPT ![t] = Begins(t, @)]
    /\ UNCHANGED <<server, browser, calls, counts>>

\* Open ClipSync: the share stays kept, until a day has passed.
Leaves(t) == tab' = [tab EXCEPT ![t] = [@ EXCEPT !.view = "app", !.share = NoShare, !.phase = "none",
                                                 !.using = Empty, !.left = {}, !.again = FALSE]]
Done(t) ==
    /\ tab[t].phase \in {"saved", "missing", "error"} /\ Leaves(t)
    /\ UNCHANGED <<server, browser, calls, counts>>
Discard(t) ==
    /\ tab[t].phase \in {"locked", "error"} /\ Leaves(t)
    /\ kept' = [kept EXCEPT ![tab[t].share] = "gone"]
    /\ UNCHANGED <<server, creds, local, idb, calls, counts>>

-----------------------------------------------------------------------------
(* Enrolling, unlocking, and forgetting.                                   *)

Enrols(d) ==
    /\ devices' = [devices EXCEPT ![d] = [status |-> "on", at |-> epoch, pub |-> NoKey, sealed |-> NoKey]]
    /\ idb' = [idb EXCEPT ![d] = NoKey]
\* setCreds after an enrolment: a ring the tab already shows stays.
Enrolled(t, d, r) ==
    [tab[t] EXCEPT !.dev = d, !.ring = IF @ = Empty THEN r ELSE @,
                   !.phase = IF tab[t].view = "share" THEN "loading" ELSE @]
NewDevice == CHOOSE d \in Unused : \A x \in Unused : d <= x

\* EnrolScreen.  A page that still shows it when another tab has enrolled
\* enrols once more.
EnrolHere(t) ==
    /\ tab[t].view # "closed" /\ tab[t].dev = Nobody /\ opening[t].pc = "idle"
    /\ IF creds = Nobody THEN UNCHANGED counts ELSE Acts
    /\ Unused # {}

\* keep: what an enrolment returned, the key this device's only one.
Keeps(t, d) ==
    /\ creds' = d
    /\ Cache(t, Enrolled(t, d, OnlyKey(epoch)), OnlyKey(epoch), Persisted)
    /\ UNCHANGED <<epoch, stored, kept, calls>>
SignIn(t) == EnrolHere(t) /\ Enrols(NewDevice) /\ Keeps(t, NewDevice)

\* With the recovery key, every other device signed out.
RecoverAlone(t) ==
    /\ EnrolHere(t) /\ Keeps(t, NewDevice)
    /\ idb' = [idb EXCEPT ![NewDevice] = NoKey]
    /\ devices' = [d \in Devices |->
                     [status |-> IF d = NewDevice THEN "on" ELSE "off",
                      at |-> IF d = NewDevice THEN epoch ELSE devices[d].at,
                      pub |-> NoKey, sealed |-> NoKey]]

\* A scanned invite, on a page of its own: it outranks what the page was,
\* and enrols a browser that was enrolled already once more.
Join(t, persist) ==
    /\ Acts /\ tab[t].view = "app" /\ Unused # {}
    /\ LET d == NewDevice  r == OnlyKey(epoch)  x == Loaded(t, "app", NoShare) IN
       /\ Enrols(d) /\ creds' = d
       /\ Cache(t, [x EXCEPT !.dev = d, !.ring = IF @ = Empty THEN r ELSE @], r, persist)
    /\ Stops(t)
    /\ UNCHANGED <<epoch, stored, kept>>

\* A pairing code: the device is enrolled first, its keys opened after.
Pair(t) ==
    /\ EnrolHere(t) /\ Enrols(NewDevice)
    /\ opening' = [opening EXCEPT ![t] = [Shut EXCEPT !.pc = "ask", !.for = "pair", !.dev = NewDevice]]
    /\ UNCHANGED <<epoch, stored, creds, local, kept, tab, sync>>

Unlock(t) ==
    /\ tab[t].view = "app" /\ tab[t].dev # Nobody /\ opening[t].pc = "idle"
    /\ tab[t].ring = Empty \/ tab[t].stranded
    /\ opening' = [opening EXCEPT ![t] = [Shut EXCEPT !.pc = "ask", !.for = "app", !.dev = tab[t].dev]]
    /\ UNCHANGED <<server, browser, tab, sync, counts>>
UnlockShare(t) ==
    /\ tab[t].phase = "locked"
    /\ tab' = [tab EXCEPT ![t].phase = "opening"]
    /\ opening' = [opening EXCEPT ![t] = [Shut EXCEPT !.pc = "ask", !.for = "share", !.dev = tab[t].dev]]
    /\ UNCHANGED <<server, browser, sync, counts>>

\* The wrapped key is asked for, with its epoch.  Unanswered, the one from
\* enrolment is opened instead, and filed under epoch 0.
Unanswered(t) == [opening[t] EXCEPT !.pc = "derive", !.epoch = 0, !.key = devices[opening[t].dev].at]

\* What if the key from enrolment were trusted when there is one?
AnsweredByEnrolment(t) == Unanswered(t)

Answered(t) == [opening[t] EXCEPT !.pc = "derive", !.epoch = epoch, !.key = epoch]
Ask(t) ==
    /\ opening[t].pc = "ask" /\ On(opening[t].dev)
    /\ opening' = [opening EXCEPT ![t] = Answered(t)]
    /\ UNCHANGED <<server, browser, tab, sync, counts>>
AskFails(t) ==
    /\ opening[t].pc = "ask" /\ IF On(opening[t].dev) THEN Fails ELSE UNCHANGED counts
    /\ opening' = [opening EXCEPT ![t] = Unanswered(t)]
    /\ UNCHANGED <<server, browser, tab, sync>>

\* What if the epoch were asked for once the key is opened?
JoinedAtEpochNow(t) == WithKey(Cached(t), epoch, opening[t].key)

\* Opened, it joins the keys cached here.
Joined(t) == WithKey(Cached(t), opening[t].epoch, opening[t].key)

\* A share keeps the browser open from then on; pairing saves the credentials
\* last.
Opened(t) ==
    /\ opening[t].pc = "derive" /\ opening' = [opening EXCEPT ![t] = Shut]
    /\ LET o == opening[t]  r == Joined(t) IN
       \/ /\ o.for = "app" /\ Cache(t, [tab[t] EXCEPT !.ring = r, !.stranded = FALSE], r, Persisted)
          /\ UNCHANGED creds
       \/ /\ o.for = "share" /\ Cache(t, Saves(tab[t], r, FALSE), r, TRUE)
          /\ UNCHANGED creds
       \/ /\ o.for = "pair" /\ Cache(t, Enrolled(t, o.dev, r), r, Persisted)
          /\ creds' = o.dev
    /\ UNCHANGED <<server, idb, kept, sync, counts>>

\* A wrong passphrase opens nothing; a device that paired is revoked again.
Mistyped(t) ==
    /\ Fails /\ opening[t].pc = "derive" /\ opening' = [opening EXCEPT ![t] = Shut]
    /\ tab' = [tab EXCEPT ![t].phase = IF opening[t].for = "share" THEN "error" ELSE @]
    /\ IF opening[t].for = "pair"
       THEN devices' = [devices EXCEPT ![opening[t].dev].status = "off"]
       ELSE UNCHANGED devices
    /\ UNCHANGED <<epoch, stored, browser, sync>>

Lock(t) ==
    /\ Acts /\ tab[t].view = "app" /\ tab[t].dev # Nobody /\ tab[t].ring # Empty
    /\ Cache(t, [tab[t] EXCEPT !.ring = Empty], Empty, FALSE)
    /\ UNCHANGED <<server, creds, idb, kept, calls>>

\* Stay open after the tab closes, or no longer.
KeepUnlocked(t, persist) ==
    /\ Acts /\ tab[t].view = "app" /\ tab[t].dev # Nobody /\ tab[t].ring # Empty
    /\ Cache(t, tab[t], tab[t].ring, persist)
    /\ UNCHANGED <<server, creds, idb, kept, calls>>

\* A re-key from the settings, whose page holds the account's key: sealed to
\* the devices that registered, and cached here at once.
Seals == [d \in Devices |-> [devices[d] EXCEPT !.sealed = IF On(d) THEN devices[d].pub ELSE NoKey]]
RekeyHere(t) ==
    /\ Acts /\ tab[t].view = "app" /\ tab[t].dev # Nobody /\ On(tab[t].dev)
    /\ tab[t].ring # Empty /\ Current(tab[t].ring) = epoch /\ tab[t].ring[epoch] = epoch
    /\ epoch < MaxEpoch /\ epoch' = epoch + 1 /\ devices' = Seals
    /\ LET r == WithKey(tab[t].ring, epoch', epoch') IN Cache(t, [tab[t] EXCEPT !.ring = r], r, Persisted)
    /\ UNCHANGED <<stored, creds, idb, kept, calls>>

\* Signing out, and unpairing from the unlock screen: the device revokes
\* itself if it can; whatever came of that, the session is cleared.
SignOut(t) ==
    /\ Acts /\ tab[t].view = "app" /\ tab[t].dev # Nobody
    /\ tab' = [tab EXCEPT ![t].leaving = TRUE]
    /\ devices' \in {devices, [devices EXCEPT ![tab[t].dev] =
                                 [@ EXCEPT !.status = "off", !.pub = NoKey, !.sealed = NoKey]]}
    /\ UNCHANGED <<epoch, stored, browser, calls>>
ClearSession(t) ==
    /\ tab[t].leaving
    /\ creds' = Nobody
    /\ idb' = IF creds = Nobody THEN idb ELSE [idb EXCEPT ![creds] = NoKey]
    /\ Cache(t, [tab[t] EXCEPT !.leaving = FALSE, !.dev = Nobody, !.ring = Empty], Empty, FALSE)
    /\ UNCHANGED <<server, kept, calls, counts>>

-----------------------------------------------------------------------------
(* syncRing: the device's keypair is registered, then a re-key picked up.  *)

\* refreshRing, on an unlock, a vault.rotated event and a stale write: one at
\* a time in a tab.
RefreshRing(t) ==
    /\ Acts /\ sync[<<t, "app">>].pc = "idle"
    /\ tab[t].view # "closed" /\ tab[t].dev # Nobody /\ tab[t].ring # Empty
    /\ Starts(<<t, "app">>, tab[t].dev, tab[t].ring)
    /\ UNCHANGED <<server, browser, tab, opening>>

\* deviceKeypair: one transaction looks, another puts what was made.
GetKeypair(th) ==
    /\ sync[th].pc = "get"
    /\ LET k == idb[sync[th].dev] IN
       sync' = [sync EXCEPT ![th].pc = IF k = NoKey THEN "put" ELSE "register", ![th].key = k]
    /\ UNCHANGED <<server, browser, tab, opening, counts>>
PutKeypair(th) ==
    /\ sync[th].pc = "put"
    /\ idb' = [idb EXCEPT ![sync[th].dev] = th]
    /\ sync' = [sync EXCEPT ![th].pc = "register", ![th].key = th]
    /\ UNCHANGED <<server, creds, local, kept, tab, opening, counts>>

Register(th) ==
    /\ sync[th].pc = "register" /\ On(sync[th].dev)
    /\ devices' = [devices EXCEPT ![sync[th].dev].pub = sync[th].key]
    /\ sync' = [sync EXCEPT ![th].pc = "fetch"]
    /\ UNCHANGED <<epoch, stored, browser, tab, opening, counts>>

\* What a thread ends in when it has no newer ring: what it held, or no copy
\* it can open, or a request that failed.
Ends(th, x) == sync' = [sync EXCEPT ![th] = Idle] /\ tab' = [tab EXCEPT ![th[1]] = x]
NothingNewer(th, x) ==
    IF th[2] = "app" THEN x ELSE Saves(x, sync[th].held, TRUE)
LeftOut(th, x) ==
    IF th[2] = "app" THEN [x EXCEPT !.stranded = TRUE] ELSE [x EXCEPT !.phase = "locked"]

CanOpen(th) == sync[th].key # NoKey /\ devices[sync[th].dev].sealed = sync[th].key
FetchSealed(th) ==
    /\ sync[th].pc = "fetch" /\ On(sync[th].dev)
    /\ IF epoch \in DOMAIN sync[th].held
       THEN Ends(th, NothingNewer(th, tab[th[1]]))
       ELSE IF ~CanOpen(th)
            THEN Ends(th, LeftOut(th, tab[th[1]]))
            ELSE sync' = [sync EXCEPT ![th].pc = "cache", ![th].got = epoch] /\ UNCHANGED tab
    /\ UNCHANGED <<server, browser, opening, counts>>

CacheNewer(th) ==
    /\ sync[th].pc = "cache" /\ sync' = [sync EXCEPT ![th] = Idle]
    /\ LET t == th[1]  r == WithKey(sync[th].held, sync[th].got, sync[th].got) IN
       Cache(t, IF th[2] = "app" THEN [tab[t] EXCEPT !.ring = r] ELSE Saves(tab[t], r, TRUE), r, Persisted)
    /\ UNCHANGED <<server, creds, idb, kept, opening, counts>>

\* IndexedDB refuses: no keypair, and so no copy.
NoIndexedDB(th) ==
    /\ Fails /\ sync[th].pc \in {"get", "put"}
    /\ sync' = [sync EXCEPT ![th].pc = "fetch", ![th].key = NoKey]
    /\ UNCHANGED <<server, browser, tab, opening>>
SyncFails(th) ==
    /\ sync[th].pc \in {"register", "fetch"} /\ IF On(sync[th].dev) THEN Fails ELSE UNCHANGED counts
    /\ Ends(th, IF th[2] = "app" THEN tab[th[1]] ELSE [tab[th[1]] EXCEPT !.phase = "error"])
    /\ UNCHANGED <<server, browser, opening>>

-----------------------------------------------------------------------------
(* The account's other devices.                                            *)

Rekey ==
    /\ epoch < MaxEpoch /\ epoch' = epoch + 1
    /\ devices' = Seals
    /\ UNCHANGED <<stored, browser, tab, calls, counts>>

\* Re-encryption moves what it can open; a part sent twice becomes one.
Reencrypt(r) ==
    /\ r.epoch < epoch /\ r.key = r.epoch
    /\ stored' = (stored \ {r}) \cup {[r EXCEPT !.epoch = epoch, !.key = epoch]}
    /\ UNCHANGED <<epoch, devices, browser, tab, calls, counts>>

Next ==
    \/ \E t \in Tabs :
         \/ \E s \in Shares : Share(t, s)
         \/ OpenApp(t) \/ Reload(t) \/ ReloadStuck(t) \/ Close(t) \/ Sweep(t)
         \/ Load(t) \/ SendPart(t) \/ SendStale(t) \/ SendFails(t) \/ SendRefused(t)
         \/ Saved(t) \/ TryAgain(t) \/ Done(t) \/ Discard(t)
         \/ SignIn(t) \/ RecoverAlone(t) \/ Pair(t) \/ Unlock(t) \/ UnlockShare(t)
         \/ Ask(t) \/ AskFails(t) \/ Opened(t) \/ Mistyped(t)
         \/ Lock(t) \/ RekeyHere(t) \/ SignOut(t) \/ ClearSession(t) \/ RefreshRing(t)
         \/ \E persist \in BOOLEAN : Join(t, persist) \/ KeepUnlocked(t, persist)
    \/ \E th \in Threads :
         \/ GetKeypair(th) \/ PutKeypair(th) \/ Register(th) \/ FetchSealed(th)
         \/ CacheNewer(th) \/ NoIndexedDB(th) \/ SyncFails(th)
    \/ \E s \in Shares : Age(s)
    \/ \E r \in stored : Reencrypt(r)
    \/ Rekey

\* Requests are answered or fail, and what follows is done.  The user of a
\* share screen answers it: enrols, gives the passphrase, tries again, and
\* loads the page anew when that will not do.
Fairness ==
    /\ \A t \in Tabs :
         /\ WF_vars(Load(t)) /\ WF_vars(SendPart(t)) /\ WF_vars(SendStale(t))
         /\ WF_vars(SendFails(t)) /\ WF_vars(Saved(t)) /\ WF_vars(ClearSession(t))
         /\ WF_vars(Ask(t)) /\ WF_vars(AskFails(t)) /\ WF_vars(Opened(t))
         /\ WF_vars(UnlockShare(t)) /\ WF_vars(TryAgain(t)) /\ SF_vars(ReloadStuck(t))
         /\ WF_vars(tab[t].view = "share" /\ SignIn(t))
    /\ \A th \in Threads :
         /\ WF_vars(GetKeypair(th)) /\ WF_vars(PutKeypair(th)) /\ WF_vars(Register(th))
         /\ WF_vars(FetchSealed(th)) /\ WF_vars(CacheNewer(th)) /\ WF_vars(SyncFails(th))

Spec == Init /\ [][Next]_vars /\ Fairness

-----------------------------------------------------------------------------
(* Properties.                                                             *)

TypeOK ==
    /\ epoch \in Epochs /\ devices \in [Devices -> Device] /\ stored \subseteq Row
    /\ creds \in Devices \cup {Nobody} /\ local \in Rings /\ idb \in [Devices -> Keypairs]
    /\ kept \in [Shares -> {"never", "kept", "old", "gone"}]
    /\ \A t \in Tabs :
         /\ DOMAIN tab[t] = DOMAIN Closed
         /\ tab[t].view \in {"closed", "app", "share"} /\ tab[t].share \in Shares \cup {NoShare}
         /\ tab[t].ring \in Rings /\ tab[t].session \in Rings /\ tab[t].using \in Rings

\* Whatever the tabs do to each other's caches, and whether or not the server
\* answered when the passphrase was given, what this browser stores in the
\* account is under the key of the epoch it is stored under: every device
\* can open it (ShareScreen's save, unlockWithPassphrase, syncRing).
SentOpens == \A r \in stored : r.key = r.epoch

Arrived(s) == \A p \in Parts : \E r \in stored : r.share = s /\ r.part = p
Shows(t, s) == tab[t].view = "share" /\ tab[t].share = s

\* A share the service worker kept stays kept until all of it is in the
\* account, unless the user discards it or a day has passed: no reload, error,
\* lock, sign-out or other tab loses it (shares.ts, "so plaintext sits on the
\* phone only until it is sent").
Discards(s) ==
    \E t \in Tabs : Shows(t, s) /\ tab[t].phase \in {"locked", "error"} /\ tab'[t].view = "app"
SharesKept ==
    [][\A s \in Shares :
         kept[s] = "kept" /\ kept'[s] = "gone" => Arrived(s) \/ Discards(s)]_vars

\* A share on the screen reaches the account, if its user keeps answering the
\* screen, or goes as SharesKept says; re-keys, locks, lost requests, lost
\* keypairs and sign-outs meanwhile do not stop it.  What does is a device that
\* was revoked and not cleared, and a part that is refused each time it is sent
\* again.
Refuses(s) == \E t \in Tabs : tab[t].share = s /\ SendRefused(t)
Arrives(s) ==
    (\E t \in Tabs : Shows(t, s)) ~>
        \/ Arrived(s)
        \/ kept[s] = "gone"
        \/ ~\E t \in Tabs : Shows(t, s)
        \/ creds # Nobody /\ ~On(creds)
SharesArrive == \A s \in Shares : Arrives(s) \/ []<><<Refuses(s)>>_vars
=============================================================================
