------------------------------ MODULE VaultKeys ------------------------------
(***************************************************************************)
(* The vault key of one account: who can open it, and how its devices come *)
(* to hold the key of the current epoch.                                   *)
(*                                                                         *)
(* The worker keeps the key wrapped under the passphrase, a hash of a      *)
(* proof of that passphrase, copies of the key sealed to each device's     *)
(* public key, and one sealed to the recovery key.  Everything is computed *)
(* by a client from what it read in earlier requests: a passphrase change, *)
(* a re-key, a reset or a recovery is a read, some work, and a conditional *)
(* write (apps/worker/src/routes/vault.ts, recovery.ts, account.ts,        *)
(* packages/client/src/vault.ts, rekey.ts, recovery.ts).                   *)
(*                                                                         *)
(* A key is a number: 0 is the key of an account older than wrapping (the  *)
(* PBKDF2 output of its passphrase), the others are drawn in order.  A     *)
(* wrapped key opens with the passphrase it was wrapped under and a sealed *)
(* copy with the keypair it was sealed to; a keypair is the number of the  *)
(* one its owner has had.  The person at a client types the passphrase     *)
(* that opens what the client has read: any other fails there and nothing  *)
(* is sent.                                                                *)
(***************************************************************************)
EXTENDS Naturals
CONSTANTS
    Devices,          \* rows of `devices`: an id is enrolled once
    Enrolled,         \* those enrolled at the start
    Registered,       \* of these, those whose public key the worker has
    Passes,           \* passphrases
    Does,             \* device |-> what somebody does from it (a bound)
    NoKey, NoCopy, NoPass, NoWrap, NoRecovery,  \* NULL of each column
    LostRacesCollide, \* see RotationLost
    OffersStayCurrent,\* see Accept
    MaxEpoch, MaxKeys, MaxPairs, MaxRecoveries, MaxTasks  \* bounds

Epochs == 0..MaxEpoch
Keys == 0..MaxKeys
Pairs == 1..MaxPairs            \* keypairs of a device, in order; 0: none
Recoveries == 1..MaxRecoveries  \* recovery keys of the account; 0: none

ASSUME EnrolledAssumption == Registered \subseteq Enrolled /\ Enrolled \subseteq Devices
ASSUME DoesAssumption == DOMAIN Does = Devices
ASSUME BoundsAssumption ==
    /\ MaxEpoch \in Nat /\ MaxKeys \in Nat
    /\ MaxPairs \in Nat \ {0} /\ MaxRecoveries \in Nat /\ MaxTasks \in Nat
ASSUME ChoiceAssumption == LostRacesCollide \in BOOLEAN /\ OffersStayCurrent \in BOOLEAN

Wrap == [pass : Passes, key : Keys]
Copy == [pair : Pairs, key : Keys]
Recovery == [pub : Recoveries, to : Recoveries, key : Keys, epoch : Epochs]
ASSUME NullAssumption ==
    /\ NoKey \notin Keys /\ NoCopy \notin Copy /\ NoPass \notin Passes
    /\ NoWrap \notin Wrap /\ NoRecovery \notin Recovery

VARIABLES
    epoch,      \* users.key_epoch
    wrapped,    \* users.wrapped_vault_key
    auth,       \* users.auth_hash, as the passphrase it proves
    recovery,   \* users.recovery_*
    sealed,     \* sealed_vault_keys: device |-> epoch |-> copy
    status,     \* devices: not yet enrolled, active, or revoked
    pub,        \* devices.public_key
    pair,       \* the keypair the device itself has (0 in CLIPSYNC_PASSPHRASE mode)
    ring,       \* device |-> epoch |-> the key it holds for it
    task,       \* device |-> what its client is doing
    offers,     \* keys sealed into invites and link approvals not yet claimed
    minted,     \* vault keys drawn so far
    made,       \* recovery keys made so far
    begun,      \* client operations begun so far (a bound)
    past        \* every key the account has had (history of `wrapped`)

server == <<epoch, wrapped, auth, recovery, sealed, past>>
clients == <<status, pub, pair, ring, offers>>
counts == <<minted, made, begun>>
vars == <<server, clients, task, counts>>

\* A client's work under way: where it is and what it has read.
Task == [pc : {"idle", "put", "reread", "claim unlock", "claim change", "change",
               "claim rekey", "devices", "recovery", "check", "rotate", "reset",
               "set up", "recover", "revoke", "enrol"},
         pass : Passes \cup {NoPass},   \* the passphrase typed
         next : Passes \cup {NoPass},   \* the new one
         key : Keys,                    \* the key to wrap or seal
         epoch : Epochs,                \* the epoch read with it
         seals : [Devices -> {0} \cup Pairs],   \* whom a re-key seals to
         rec : {0} \cup Recoveries,     \* the recovery key read
         asks : BOOLEAN]                \* the worker found a recovery key

Idle == [pc |-> "idle", pass |-> NoPass, next |-> NoPass, key |-> 0, epoch |-> 0,
         seals |-> [c \in Devices |-> 0], rec |-> 0, asks |-> FALSE]

-----------------------------------------------------------------------------
(* Rings and tasks.                                                        *)

Empty == [e \in Epochs |-> NoKey]
Holds(d, e) == ring[d][e] # NoKey
HasRing(d) == \E e \in Epochs : Holds(d, e)

\* A VaultRing's `current`.
IsCurrent(d, e) == Holds(d, e) /\ \A f \in Epochs : Holds(d, f) => f <= e

Learn(d, e, k) == ring' = [ring EXCEPT ![d][e] = k]

Free(d, what) == task[d].pc = "idle" /\ what \in Does[d]
Begins(d, what, t) ==
    /\ Free(d, what) /\ begun < MaxTasks
    /\ begun' = begun + 1
    /\ task' = [task EXCEPT ![d] = t]
Goes(d, pc) == task' = [task EXCEPT ![d].pc = pc]
Ends(d) == task' = [task EXCEPT ![d] = Idle]

\* A client may stop, lose its connection or be refused by requireDevice
\* anywhere; a request that has passed it is served all the same.
GiveUp(d) ==
    /\ "quit" \in Does[d] /\ task[d].pc # "idle"
    /\ Ends(d)
    /\ UNCHANGED <<server, clients, counts>>

-----------------------------------------------------------------------------
(* Unlocking with the passphrase, and the first wrapped key.               *)

\* Sign-in, pairing, the web unlock screen, a CLIPSYNC_PASSPHRASE device: the
\* wrapped key and its epoch are read together and unwrapped.
Unlock(d) ==
    /\ status[d] # "revoked" /\ wrapped # NoWrap
    /\ status' = [status EXCEPT ![d] = "active"]
    /\ Learn(d, epoch, wrapped.key)
    /\ Begins(d, "unlock", [Idle EXCEPT !.pc = "claim unlock", !.pass = wrapped.pass])
    /\ UNCHANGED <<server, pub, pair, offers, minted, made>>

\* The account has no wrapped key yet: a new one gets a key drawn at random,
\* one older than wrapping keeps the key its clips are under.
FirstUnlock(d, p, isNew) ==
    /\ status[d] = "active" /\ wrapped = NoWrap
    /\ isNew => minted < MaxKeys
    /\ minted' = IF isNew THEN minted + 1 ELSE minted
    /\ Begins(d, "unlock", [Idle EXCEPT !.pc = "put", !.pass = p, !.epoch = epoch,
                               !.key = IF isNew THEN minted + 1 ELSE 0])
    /\ UNCHANGED <<server, clients, made>>

\* PUT /api/vault/key, first write: only where no key is.  It sends no proof,
\* so it is refused (403) once there is one, and the client reads again.
PutFirst(d) ==
    LET t == task[d] IN
    /\ t.pc = "put"
    /\ IF wrapped = NoWrap
       THEN /\ wrapped' = [pass |-> t.pass, key |-> t.key]
            /\ auth' = t.pass
            /\ past' = past \cup {t.key}
            /\ Learn(d, t.epoch, t.key)
            /\ Ends(d)
       ELSE /\ Goes(d, "reread")
            /\ UNCHANGED <<wrapped, auth, past, ring>>
    /\ UNCHANGED <<epoch, recovery, sealed, status, pub, pair, offers, counts>>

\* The key there now, if the passphrase opens it; the epoch its caller notes
\* is the one read first.
Reread(d) ==
    LET t == task[d] IN
    /\ t.pc = "reread" /\ status[d] = "active"
    /\ IF wrapped.pass = t.pass
       THEN Learn(d, t.epoch, wrapped.key) /\ Goes(d, "claim unlock")
       ELSE Ends(d) /\ UNCHANGED ring
    /\ UNCHANGED <<server, status, pub, pair, offers, counts>>

\* What if a later claim replaced the proof?
ClaimAlways(p) == IF wrapped # NoWrap THEN p ELSE auth

\* POST /api/vault/auth: trust on first use.
Claimed(p) == IF auth = NoPass /\ wrapped # NoWrap THEN p ELSE auth

\* registerProof.  A conflict stops a passphrase change; a re-key leaves it to
\* the rotation to be refused.
Claim(d) ==
    LET t == task[d] IN
    /\ t.pc \in {"claim unlock", "claim change", "claim rekey"}
    /\ status[d] = "active"
    /\ auth' = Claimed(t.pass)
    /\ \/ t.pc = "claim unlock" /\ Ends(d)
       \/ t.pc = "claim change" /\ auth' = t.pass /\ Goes(d, "change")
       \/ t.pc = "claim change" /\ auth' # t.pass /\ Ends(d)
       \/ t.pc = "claim rekey" /\ Goes(d, "devices")
    /\ UNCHANGED <<epoch, wrapped, recovery, sealed, past, clients, counts>>

-----------------------------------------------------------------------------
(* Changing the passphrase, and resetting it as the operator.              *)

\* changePassphrase reads the wrapped key and unwraps it.
StartChange(d, q) ==
    /\ status[d] = "active" /\ wrapped # NoWrap
    /\ Begins(d, "change", [Idle EXCEPT !.pc = "claim change", !.pass = wrapped.pass, !.next = q,
                               !.key = wrapped.key, !.epoch = epoch])
    /\ UNCHANGED <<server, clients, minted, made>>

\* What if the epoch were not compared, as before keyEpoch was sent?
ProvesOnly(t) == auth = t.pass

\* The condition of PUT /api/vault/key on a later write.
Proves(t) == auth = t.pass /\ epoch = t.epoch

Rewrap(t) ==
    /\ wrapped' = [pass |-> t.next, key |-> t.key]
    /\ auth' = t.next

Change(d) ==
    LET t == task[d] IN
    /\ t.pc = "change"
    /\ \/ Proves(t) /\ Rewrap(t)
       \/ ~Proves(t) /\ UNCHANGED <<wrapped, auth>>
    /\ Ends(d)
    /\ UNCHANGED <<epoch, recovery, sealed, past, clients, counts>>

\* resetPassphraseAsAdmin wraps the key this device holds, once it has seen
\* that its ring is at the worker's epoch.
StartReset(d, q) ==
    /\ status[d] = "active" /\ IsCurrent(d, epoch)
    /\ Begins(d, "reset", [Idle EXCEPT !.pc = "reset", !.next = q,
                               !.key = ring[d][epoch], !.epoch = epoch])
    /\ UNCHANGED <<server, clients, minted, made>>

\* POST /api/account/passphrase-reset, with the admin secret.
Reset(d) ==
    LET t == task[d] IN
    /\ t.pc = "reset"
    /\ \/ epoch = t.epoch /\ Rewrap(t)
       \/ epoch # t.epoch /\ UNCHANGED <<wrapped, auth>>
    /\ Ends(d)
    /\ UNCHANGED <<epoch, recovery, sealed, past, clients, counts>>

-----------------------------------------------------------------------------
(* Re-keying: rekeyVault, and POST /api/vault/rotate.                      *)

\* The ring is at the worker's epoch and the passphrase opens its key.
StartRekey(d) ==
    /\ status[d] = "active" /\ wrapped # NoWrap
    /\ IsCurrent(d, epoch) /\ wrapped.key = ring[d][epoch]
    /\ epoch < MaxEpoch /\ minted < MaxKeys
    /\ Begins(d, "rekey", [Idle EXCEPT !.pc = "claim rekey", !.pass = wrapped.pass, !.epoch = epoch])
    /\ UNCHANGED <<server, clients, minted, made>>

\* GET /api/devices, and a fresh key sealed to each that has a public key.
ReadDevices(d) ==
    /\ task[d].pc = "devices" /\ status[d] = "active" /\ minted < MaxKeys
    /\ minted' = minted + 1
    /\ task' = [task EXCEPT ![d].pc = "recovery", ![d].key = minted + 1,
                  ![d].seals = [c \in Devices |-> IF status[c] = "active" THEN pub[c] ELSE 0]]
    /\ UNCHANGED <<server, clients, made, begun>>

PublicKey == IF recovery = NoRecovery THEN 0 ELSE recovery.pub

\* recoveryPublicKey.
ReadRecovery(d) ==
    /\ task[d].pc = "recovery" /\ status[d] = "active"
    /\ task' = [task EXCEPT ![d].pc = "check", ![d].rec = PublicKey]
    /\ UNCHANGED <<server, clients, counts>>

\* Nobody revoked meanwhile; not all there is to check.
SealsToEnrolled(t) == \A c \in Devices : t.seals[c] # 0 => status[c] = "active"

\* Every device sealed to is enrolled, and the recovery key is not left out.
Complete(t) == SealsToEnrolled(t) /\ (recovery # NoRecovery => t.rec # 0)

\* The worker's own read.
CheckRotation(d) ==
    LET t == task[d] IN
    /\ t.pc = "check" /\ status[d] = "active"
    /\ \/ /\ Complete(t)
          /\ task' = [task EXCEPT ![d].pc = "rotate", ![d].asks = (recovery # NoRecovery)]
       \/ /\ ~Complete(t)
          /\ Ends(d)
    /\ UNCHANGED <<server, clients, counts>>

To(t) == t.epoch + 1

\* What if the retired copies were deleted up to the new epoch?
SealingThenDeleting(t) ==
    [c \in Devices |-> [e \in Epochs |-> IF e <= To(t) THEN NoCopy ELSE sealed[c][e]]]

\* The INSERTs of a rotation, and the DELETE of copies of retired epochs.
Sealing(t) ==
    [c \in Devices |-> [e \in Epochs |->
        IF e < To(t) THEN NoCopy
        ELSE IF e = To(t) /\ t.seals[c] # 0 THEN [pair |-> t.seals[c], key |-> t.key]
        ELSE sealed[c][e]]]

SealingRecovery(t) ==
    IF t.asks /\ recovery # NoRecovery
    THEN [recovery EXCEPT !.to = t.rec, !.key = t.key, !.epoch = To(t)]
    ELSE recovery

\* An INSERT meets the primary key (device_id, epoch): the batch rolls back.
Collides(t) == \E c \in Devices : t.seals[c] # 0 /\ sealed[c][To(t)] # NoCopy

\* The batch wins: everything is written, and the client stores the new ring
\* unless the answer is lost.
RotationLands(d) ==
    LET t == task[d] IN
    /\ t.pc = "rotate" /\ Proves(t) /\ ~Collides(t)
    /\ epoch' = To(t)
    /\ wrapped' = [pass |-> t.pass, key |-> t.key]
    /\ past' = past \cup {t.key}
    /\ sealed' = Sealing(t)
    /\ recovery' = SealingRecovery(t)
    /\ Learn(d, To(t), t.key) \/ UNCHANGED ring
    /\ Ends(d)
    /\ UNCHANGED <<auth, status, pub, pair, offers, counts>>

\* The batch's UPDATE finds another epoch or another proof, or its INSERTs
\* collide.  The other statements are guarded on the epoch being the new one,
\* and it is when another re-key has brought it there: only a collision then
\* keeps them from writing.  LostRacesCollide assumes one, that is that some
\* device stays enrolled and registered while two re-keys race.
RotationLost(d) ==
    LET t == task[d]
        blind == epoch = To(t) /\ ~Collides(t) IN
    /\ t.pc = "rotate" /\ (~Proves(t) \/ Collides(t))
    /\ LostRacesCollide => ~blind
    /\ sealed' = IF blind THEN Sealing(t) ELSE sealed
    /\ recovery' = IF blind THEN SealingRecovery(t) ELSE recovery
    /\ Ends(d)
    /\ UNCHANGED <<epoch, wrapped, auth, past, clients, counts>>

\* The ring has no key for the worker's epoch.
HasMissed(d) == HasRing(d) /\ ~Holds(d, epoch)

\* refreshVaultRing, on vault.rotated, on a 409 and at every start: the copy
\* of the current epoch, if it is sealed to the keypair this device has.
Refresh(d) ==
    /\ status[d] = "active" /\ HasMissed(d)
    /\ sealed[d][epoch] # NoCopy
    /\ sealed[d][epoch].pair = pair[d]
    /\ Learn(d, epoch, sealed[d][epoch].key)
    /\ UNCHANGED <<server, status, pub, pair, offers, task, counts>>

-----------------------------------------------------------------------------
(* The recovery key.                                                       *)

\* setUpRecovery: the passphrase opens the key this device holds.
StartSetUp(d) ==
    /\ status[d] = "active" /\ wrapped # NoWrap
    /\ \E e \in Epochs : IsCurrent(d, e) /\ ring[d][e] = wrapped.key
    /\ made < MaxRecoveries
    /\ made' = made + 1
    /\ Begins(d, "set up", [Idle EXCEPT !.pc = "set up", !.pass = wrapped.pass, !.key = wrapped.key,
                               !.epoch = epoch, !.rec = made + 1])
    /\ UNCHANGED <<server, clients, minted>>

\* PUT /api/account/recovery.
SetUp(d) ==
    LET t == task[d] IN
    /\ t.pc = "set up"
    /\ recovery' = IF Proves(t)
                   THEN [pub |-> t.rec, to |-> t.rec, key |-> t.key, epoch |-> t.epoch]
                   ELSE recovery
    /\ Ends(d)
    /\ UNCHANGED <<epoch, wrapped, auth, sealed, past, clients, counts>>

\* DELETE /api/account/recovery, with the passphrase of the stored proof.
RemoveRecovery(d) ==
    /\ Free(d, "set up") /\ status[d] = "active"
    /\ recovery # NoRecovery /\ auth # NoPass
    /\ recovery' = NoRecovery
    /\ UNCHANGED <<epoch, wrapped, auth, sealed, past, clients, task, counts>>

\* POST /api/recovery/open, from a device to be enrolled: the owner has the
\* recovery key, which opens a seal made to its own public key.
OpenRecovery(d, q) ==
    /\ status[d] = "out"
    /\ recovery # NoRecovery
    /\ recovery.epoch = epoch /\ recovery.to = recovery.pub
    /\ Begins(d, "recover", [Idle EXCEPT !.pc = "recover", !.next = q, !.key = recovery.key,
                               !.epoch = epoch, !.rec = recovery.pub])
    /\ UNCHANGED <<server, clients, minted, made>>

\* What if the epoch were not compared?
RecoversByProof(t) == PublicKey = t.rec

\* The proof is the recovery key's, and nothing has re-keyed meanwhile.
Recovers(t) == PublicKey = t.rec /\ epoch = t.epoch

\* The conditional UPDATE of POST /api/recovery/reset.
Recover(d) ==
    LET t == task[d] IN
    /\ t.pc = "recover"
    /\ \/ /\ Recovers(t) /\ Rewrap(t)
          /\ Goes(d, "revoke") \/ Goes(d, "enrol")
       \/ ~Recovers(t) /\ UNCHANGED <<wrapped, auth>> /\ Ends(d)
    /\ UNCHANGED <<epoch, recovery, sealed, past, clients, counts>>

\* revokeOtherDevices, one batch.
RevokeOthers(d) ==
    /\ task[d].pc = "revoke"
    /\ status' = [c \in Devices |-> IF status[c] = "active" THEN "revoked" ELSE status[c]]
    /\ sealed' = [c \in Devices |-> [e \in Epochs |-> NoCopy]]
    /\ Goes(d, "enrol")
    /\ UNCHANGED <<epoch, wrapped, auth, recovery, past, pub, pair, ring, offers, counts>>

\* createDevice, and the client's config; a plan that is full is a GiveUp.
EnrolRecovered(d) ==
    /\ task[d].pc = "enrol"
    /\ status' = [status EXCEPT ![d] = "active"]
    /\ Learn(d, task[d].epoch, task[d].key)
    /\ Ends(d)
    /\ UNCHANGED <<server, pub, pair, offers, counts>>

-----------------------------------------------------------------------------
(* Devices: joining by a key handed over, device keys, revocation.         *)

\* createInvite or approveLink seals the current key of this device's ring.
Offer(d) ==
    /\ Free(d, "offer") /\ status[d] = "active"
    /\ \E e \in Epochs : IsCurrent(d, e) /\ offers' = offers \cup {ring[d][e]}
    /\ UNCHANGED <<server, status, pub, pair, ring, task, counts>>

\* The claim of an invite or a link: the credentials carry the epoch the
\* account is at now, and the new device's ring notes the key handed over as
\* the key of that epoch.  OffersStayCurrent assumes that nobody has re-keyed
\* since the key was sealed.
Accept(d, k) ==
    /\ Free(d, "join") /\ status[d] = "out" /\ k \in offers
    /\ OffersStayCurrent => k = wrapped.key
    /\ offers' = offers \ {k}
    /\ status' = [status EXCEPT ![d] = "active"]
    /\ Learn(d, epoch, k)
    /\ UNCHANGED <<server, pub, pair, task, counts>>

\* ensureDeviceKey: a keypair made on first use, and PUT /api/devices/me/key.
Register(d) ==
    /\ Free(d, "register") /\ status[d] = "active" /\ HasRing(d)
    /\ pair' = [pair EXCEPT ![d] = IF @ = 0 THEN 1 ELSE @]
    /\ pub' = [pub EXCEPT ![d] = pair'[d]]
    /\ pub' # pub
    /\ UNCHANGED <<server, status, ring, offers, task, counts>>

\* A browser loses its IndexedDB, or a config is rewritten: another keypair
\* will be made and registered.
LoseKeypair(d) ==
    /\ Free(d, "lose") /\ pair[d] \in 1..(MaxPairs - 1)
    /\ pair' = [pair EXCEPT ![d] = @ + 1]
    /\ UNCHANGED <<server, status, pub, ring, offers, task, counts>>

\* DELETE /api/devices/:id from another device, and /api/devices/me.
Revoke(d) ==
    /\ "leave" \in Does[d] /\ status[d] = "active"
    /\ status' = [status EXCEPT ![d] = "revoked"]
    /\ sealed' = [sealed EXCEPT ![d] = [e \in Epochs |-> NoCopy]]
    /\ UNCHANGED <<epoch, wrapped, auth, recovery, past, pub, pair, ring, offers, task, counts>>

-----------------------------------------------------------------------------
(* An account with a key, with or without a proof registered; or one that  *)
(* has yet to be unlocked for the first time.                              *)

Init ==
    /\ epoch = 0 /\ recovery = NoRecovery /\ minted = 0 /\ made = 0 /\ begun = 0 /\ offers = {}
    /\ sealed = [c \in Devices |-> [e \in Epochs |-> NoCopy]]
    /\ task = [c \in Devices |-> Idle]
    /\ status = [c \in Devices |-> IF c \in Enrolled THEN "active" ELSE "out"]
    /\ \/ /\ \E p \in Passes : /\ wrapped = [pass |-> p, key |-> 0]
                               /\ auth \in {p, NoPass}
          /\ past = {0}
          /\ ring = [c \in Devices |-> IF c \in Enrolled THEN [Empty EXCEPT ![0] = 0] ELSE Empty]
          /\ pair = [c \in Devices |-> IF c \in Registered THEN 1 ELSE 0]
       \/ /\ wrapped = NoWrap /\ auth = NoPass /\ past = {}
          /\ ring = [c \in Devices |-> Empty]
          /\ pair = [c \in Devices |-> 0]
    /\ pub = pair

RekeyStep(d) ==
    \/ ReadDevices(d) \/ ReadRecovery(d) \/ CheckRotation(d)
    \/ RotationLands(d) \/ RotationLost(d)

Step(d) ==
    \/ GiveUp(d) \/ Unlock(d) \/ PutFirst(d) \/ Reread(d) \/ Claim(d)
    \/ \E p \in Passes, isNew \in BOOLEAN : FirstUnlock(d, p, isNew)
    \/ \E q \in Passes : StartChange(d, q) \/ StartReset(d, q) \/ OpenRecovery(d, q)
    \/ Change(d) \/ Reset(d) \/ StartRekey(d) \/ RekeyStep(d) \/ Refresh(d)
    \/ StartSetUp(d) \/ SetUp(d) \/ RemoveRecovery(d)
    \/ Recover(d) \/ RevokeOthers(d) \/ EnrolRecovered(d)
    \/ Offer(d) \/ \E k \in Keys : Accept(d, k)
    \/ Register(d) \/ LoseKeypair(d) \/ Revoke(d)

Next == \E d \in Devices : Step(d)

Spec == Init /\ [][Next]_vars /\ \A d \in Devices : WF_vars(Refresh(d))

-----------------------------------------------------------------------------
(* Properties.                                                             *)

\* The columns, and what clients have read, are of their types: in
\* particular a row names only epochs, keypairs and recovery keys that are.
TypeOK ==
    /\ epoch \in Epochs
    /\ wrapped \in Wrap \cup {NoWrap}
    /\ auth \in Passes \cup {NoPass}
    /\ recovery \in Recovery \cup {NoRecovery}
    /\ sealed \in [Devices -> [Epochs -> Copy \cup {NoCopy}]]
    /\ status \in [Devices -> {"out", "active", "revoked"}]
    /\ pub \in [Devices -> {0} \cup Pairs]
    /\ pair \in [Devices -> {0} \cup Pairs]
    /\ ring \in [Devices -> [Epochs -> Keys \cup {NoKey}]]
    /\ task \in [Devices -> Task]
    /\ offers \subseteq Keys
    /\ minted \in Keys
    /\ made \in {0} \cup Recoveries
    /\ begun \in 0..MaxTasks
    /\ past \subseteq Keys

\* A device's key for the account's epoch is the one the passphrase opens:
\* what it copies, the others can read.
RingsAgree ==
    \A d \in Devices : wrapped # NoWrap /\ Holds(d, epoch) => ring[d][epoch] = wrapped.key

\* A sealed copy of the account's epoch is the key the passphrase opens.
CopiesAgree ==
    \A d \in Devices : sealed[d][epoch] # NoCopy =>
        wrapped # NoWrap /\ sealed[d][epoch].key = wrapped.key

\* The recovery key, where /open hands out its seal, has the key the
\* passphrase opens: a recovery cannot lock the account to another.
RecoveryAgrees ==
    recovery # NoRecovery /\ recovery.epoch = epoch =>
        wrapped # NoWrap /\ recovery.key = wrapped.key

\* However changes, re-keys, resets and recoveries interleave, everything
\* made for the account's epoch is for one and the same key.
KeysAgree == RingsAgree /\ CopiesAgree /\ RecoveryAgrees

\* The passphrase whose proof is registered is the one the wrapped key opens
\* with: who may replace the key can open it, and the other way round.
ProofOpensVault == auth # NoPass => wrapped # NoWrap /\ wrapped.pass = auth

\* The keys d holds, whatever epochs it has noted them under.
HeldBy(d) == {ring[d][e] : e \in Epochs} \ {NoKey}

V == INSTANCE Vault WITH
    NoVault <- NoWrap,
    vault <- wrapped,
    held <- [d \in Devices |-> HeldBy(d)],
    shut <- {d \in Devices : status[d] = "revoked"}

\* The account's rows and its devices' rings are a vault: Vault.tla.
ImplementsVault == V!Spec

Reachable(d) == status[d] = "active" /\ pub[d] # 0 /\ pub[d] = pair[d] /\ HasRing(d)

\* A device that stays enrolled, its keypair registered, comes to hold the key
\* of every re-key: nobody who should go on reading is left behind.
RekeysReach ==
    \A d \in Devices : [](Reachable(d)) => []<>(Holds(d, epoch))

\* A re-key that lost the race, or whose proof is no longer the account's,
\* "writes nothing at all" (routes/vault.ts).
LostRaceWritesNothing ==
    [][\A d \in Devices :
        task[d].pc = "rotate" /\ task'[d].pc = "idle" /\ epoch' = epoch
            => UNCHANGED <<wrapped, auth, sealed, recovery>>]_vars

=============================================================================
