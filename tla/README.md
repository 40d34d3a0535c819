# ClipSync in TLA+

ClipSync is an end-to-end encrypted clipboard: devices of an account seal what
is copied under a *vault key* only they hold, a worker (Cloudflare, or a
self-hosted stand-in) stores the sealed clips and fans events out, and the
account is *re-keyed* when a device is shut out.  This directory holds TLA+
modules translated from that code, TLC configurations that check them on small
instances, and proofs TLAPS checks for every instance.

Run things from this directory: `tlc -config ClipStore.cfg MCClipStore`,
`tlapm ClipStoreProofs.tla`.

## 1. Inventory

Paths are relative to `src/`.  "State" is what outlives a call.

| Component | State | Operations | Hard because |
|---|---|---|---|
| Clip history API, `apps/worker/src/routes/clips.ts` | `clips` rows | POST (insert / find / bump), list, re-encrypt, delete, pin, unpin | a copy of known content is *two* transactions, and re-encryption reads and writes in different requests |
| Expiry cron, `apps/worker/src/purge.ts` | reads all tables | expire clips, sweep orphan blobs, link requests, invites | reads first, deletes later, concurrently with every handler |
| Blob storage, `apps/worker/src/r2.ts`, `routes/blobs.ts`; `packages/client/src/files.ts` | `blobs`, `blob_chunks`, R2 objects, `r2_ops` counters | reserve, upload chunk, adopt by a clip, read, delete, sweep, evict, spend | rows and objects are not one transaction; shared ceiling and budget |
| Vault keys API, `routes/vault.ts` | `users` (wrapped key, proof hash, epoch), `device_keys` | read, rotate, replace the wrapped key, claim the auth proof | a rotation is computed by a client from what it read before |
| Client re-keying, `packages/client/src/rekey.ts`, `ring.ts` | a *ring* of keys per device | refresh, rekey, re-encrypt history | other devices go on writing under the old key; several passes |
| Client vault, `packages/client/src/vault.ts`, `recovery.ts` | - | unlock, change passphrase, reset, recover | key, wrapped key and proof must stay matched |
| Enrolment, `routes/devices.ts`, `link.ts`, `invites.ts`, `auth.ts`; `client/src/link.ts`, `invite.ts` | `devices`, pair codes, link requests, invites | pair, request, approve, claim, revoke | one-use codes raced; expiry between approval and claim; device limit |
| Authentication, `apps/worker/src/auth.ts` | token hashes | resolve a token, refuse a revoked device | the check precedes the work |
| Sync room, `apps/worker/src/sync-room.ts`, `routes/sync.ts` | tickets, sockets, presence | connect, fan out, disconnect | an upgrade racing a revocation; lost events |
| Self-hosted rooms, `apps/server/src/rooms.ts` | parked upgrades, sockets | park, accept, fan out | the same, in two steps |
| Self-hosted stand-ins, `apps/server/src/d1.ts`, `bucket.ts`, `limiter.ts`, ... | SQLite, files | batch, get, put | `batch` is one SQLite transaction |
| Agent daemon, `apps/agent/src/daemon.ts`, `receive.ts` | `lastHandled`, `writing`, ring, retry clock | poll, push, apply, catch up, reconnect | must not echo what it applied, must not miss a copy |
| Agent configuration, `apps/agent/src/config.ts` | the configuration file: device, ring, keypair | load, save, refresh | every process reads it once and saves the whole of its copy |
| Agent CLI, `apps/agent/src/cli.ts`, `prompt.ts` | - | enrol, keys, rekey, receive, logout, delete, install, uninstall, update | runs beside the service, over the same file and the same binary |
| Service and updates, `apps/agent/src/service.ts`, `update.ts` | unit, exit reason, executable | install, restart, stop for good; download, check, replace | killed anywhere; two processes, one `.new` |
| Agent platform code, `clipboard.ts`, `x11.ts` | OS state | | drivers of platform tools |
| Accounts, `routes/account.ts`, `signup.ts`, `recovery.ts`, `mail.ts` | `users`, one-time codes, lockouts | sign up, sign in, e-mail, delete, recover | codes raced; counters read before written |
| History view, `packages/react/src/useClips.ts`, `useSync.ts`, `apps/web/src/History.tsx` | list on screen, a delete that can be undone | load page, apply event, delete, undo, pin | decryption finishes out of order; a page shows over events |
| Web app, `apps/web/src/session.ts`, `App.tsx`, `screens.tsx`, `ShareScreen.tsx`, `shares.ts`, `public/sw.js`, ... | local and session storage, IndexedDB, kept shares | unlock, lock, enrol, sign out, refresh the ring, send a share | several tabs share some of it, and none of it is locked |
| Desktop shell, `apps/desktop` | a tray panel's device | | a window around the above |
| Cryptography, `packages/crypto/src` | - | seal, open, tag | abstracted: see section 3 |

**How they interact.**  Clients call the worker over HTTP; the worker's state is
the SQL database (each statement, and each `batch`, is one transaction) and the
R2 bucket (no transactions).  After a write the worker publishes an event to
the account's sync room, which sends it to connected devices; events may be
lost, so the daemon also catches up from history.  The cron shares the database
with the handlers and takes no lock.  Keys never reach the worker: it stores
epochs, tags and envelopes, and tells clients when their epoch is stale (409).

**What makes each correct.** *History*: a text is stored once per key; what is
deleted stays deleted; unpinned clips die and pins stay under the plan's cap; a
stored envelope can be opened by whoever holds the key its row names (but for
two orders of steps, section 14).  *Blobs*: storage stays under the ceiling, a
clip has its bytes, nothing unreferenced is kept for ever, no operation is made
that was not paid for.  *Vault keys*: the passphrase whose proof is stored opens
the wrapped key of the current epoch, and every active device can get that key.
*Enrolment*: one code makes at most one device, plan limits hold.  *Accounts*:
an address is one account's and its reader's, no code or passphrase is guessed
past its bound.  *Sync room*: a revoked device receives nothing (section 14 has
an exception), and who is shown as connected is.  *Agent*: no echo, no lost
copy.  *Machine*: a mistyped passphrase leaves no device behind, the service
runs as the device the file names, and stops for good only with cause.
*Updates*: what is in place runs.  *History view*: what is undone stays, what is
deleted goes, and looking again shows the server's list.  *Web app*: what is
stored opens everywhere, and what was shared is not lost before it is sent.

The hazards behind these, at the line where each bites, are in
`PROJECT.json`, "hazards".

## 2. Modules

Each keeps its parameters as CONSTANTS with named assumptions, one action per
handler, statement or client step, and no RECURSIVE operator.

| # | Module | Code | Composes with |
|---|---|---|---|
| 1 | `ClipStore`, abstract `History`, `ClipStoreProofs` | text clips, pins, expiry, re-keying, re-encryption | implements `History` |
| 2 | `BlobStore`, `BlobStoreProofs` | image and file clips, storage, budgets | - |
| 3 | `VaultKeys`, abstract `Vault`, `VaultKeysProofs` | rotate, PUT key, claim of the auth proof, admin reset, recovery key, sealed device keys | implements `Vault`; its epoch is ClipStore's |
| 4 | `Enrol`, abstract `Membership`, `EnrolProofs` | pairing codes, invites, links, the plan's device limit, revocation, deletion of the account, the cron's expiry of requests | implements `Membership`; the devices of VaultKeys |
| 5 | `Account`, `AccountProofs` | sign-up, sign-in, bootstrap, one-time codes, lockouts, the address, deletion | - |
| 6 | `Sync`, `SyncProofs` | tickets, sockets, fan-out, presence, revocation; the self-hosted park and accept; useSync | the events of ClipStore |
| 7 | `Agent` (proofs in `SyncProofs`) | the daemon's poll, push, apply, catch-up, re-keying and reconnection | a client of ClipStore and Sync |
| 8 | `Machine`, `MachineProofs` | the agent's configuration file, its service, and the commands typed beside it | Agent is what runs there; devices of Enrol, keys of VaultKeys |
| 9 | `Update` (proofs in `MachineProofs`) | the executable: self-update, `clipsync update`, `clipsync install` | the service of Machine |
| 10 | `HistoryView` (proofs in `BrowserProofs`) | useClips, the web workspace, the tray panel | a client of ClipStore and Sync |
| 11 | `Browser`, `BrowserProofs` | the web app's session over several tabs, and its share screen | a client of Enrol and VaultKeys |

`MC<module>` and `<module>.cfg` are the instance TLC checks of each; the other
configurations are in section 14.

*Still worth doing*: ClipStore and BlobStore as one module, for image clips under
a re-key.

## 3. ClipStore: history of text clips

| Model | Code |
|---|---|
| `epoch` | `users.key_epoch` |
| `clips`, `used` | rows of `clips`; ids ever drawn |
| `clock` | `Date.now()` of the worker, read once per POST |
| `ring` | each device's `VaultRing` (`client/ring.ts`) |
| `posts`, `bumps` | POSTs before their first, and between their first and second, transaction |
| `refused` | copies answered 409, still on the clipboard |
| `walk` | `reencryptHistory` of each device: page cursor, items sealed, did this pass move any |
| `Copy`, `Retry` | `daemon.ts` push and the poll after a 409 |
| `RefuseStale`, `InsertClip`, `FindStored` | outcomes of the first batch of POST /api/clips |
| `MoveToTop` | its second batch |
| `DeleteClip`, `PinClip`, `UnpinClip`, `PurgeExpired` | the other handlers, and the cron |
| `Refresh`, `Rotate`, `Finish` | `refreshVaultRing`, `rekeyVault`, `clipsync rekey --finish` |
| `ListPage`, `ReadEpoch`, `WriteItems` | GET ?epochBelow, and the two transactions of POST /reencrypt |

*Abstractions.*  A vault key is its epoch.  A dedupe tag (HMAC) is the text and
the key it was made with; an envelope (AES-GCM) is its text, its key and the
device in its authenticated header; tags are equal and envelopes open exactly
when these agree.  Envelopes of the first format (no header) are left out.  The
clock may stand still between two posts, so rows may share a `created_at`, and
then a `LIMIT 1` by it may return either: the choice is open.  An expiry is
"some time" or "never"; the cron may find any row of the first kind due.  The
command line and the daemon of a device share one ring (they share its file).

*History* says what the rows promise when read with their keys: entries are
added, removed and never come back, a re-key makes entries unrecognisable and
re-encryption makes them recognisable again.  The mapping is `entries` <- the
rows' texts, `gone` <- ids used and no longer stored, `known` <- rows whose tag
is under the account's key.  A bump maps to a stutter: that is the point.

## 4. BlobStore: bytes of images and files

| Model | Code |
|---|---|
| `blobs`, `rows` | `blobs`, `blob_chunks` |
| `objects` | the R2 bucket |
| `clips` | clips with a `blob_id` |
| `spent`, `mine` | `r2_usage`, `account_usage`: class A operations of the month |
| `up` | each upload: where `uploadFile` and the handler serving it are, and what that handler has read |
| `drops` | calls of `deleteBlobs` under way: objects first, then rows |
| `Begin`, `Reserve`, `ReadVictims`, `Evict`, `NoRoom` | POST /api/blobs and `reserveBlob` |
| `CheckChunk`, `RefuseChunk`, `PutObject`, `PutRow` | PUT /api/blobs/:id/:idx, at its awaits |
| `ReadBlob`, `RefusePost`, `InsertClip`, `FindOnTop`, `FindBelow`, `Bump`, `Answer` | POST /api/clips with a `blobId` |
| `Abandon`, `GiveUp`, `Vanish` | the client's `catch`, and a client that goes away |
| `DeleteClip`, `SetPinned`, `Purge` | other handlers, and the cron |
| `DropStep`, `DropFails`, `RequestFails` | `deleteBlobs`, and a failure of it or of another statement |

*Abstractions.*  An upload is named by the id its blob gets, and the clip it
may insert likewise.  Sizes are counted in chunks; a file is its dedupe tag.
`ownBlob`, the size check and the payment of a chunk PUT are one step
(`CheckChunk`): the payment is the only one of them that changes state, and the
blob read before it is looked at no more.  The row read of `deleteBlobs` and its
R2 deletes are one step.  A text clip may always be above a file clip, so a
copy of a stored file may always take the bump.  The epoch check of the batch
is a refusal that may always happen (`RefusePost`).  The turn of the month and
the class B count of downloads are left out.

*Prompt* uploads are those that end within the hour the sweep leaves them, and
whose client never gives up on a request the worker is still serving.  The code
relies on both (`purge.ts`, `files.ts`) and enforces neither, so which uploads
are prompt is a constant: the properties speak of prompt uploads beside others
which are not.  What happens to the others is in section 14.

## 5. VaultKeys: the key of the vault and who comes to hold it

| Model | Code |
|---|---|
| `epoch`, `wrapped`, `auth`, `recovery` | `users.key_epoch`, `wrapped_vault_key`, `auth_hash`, `recovery_*` |
| `sealed`, `status`, `pub` | `sealed_vault_keys`; `devices` not yet enrolled, active, revoked; `devices.public_key` |
| `ring`, `pair` | a device's `VaultRing` and keypair (agent config, browser storage) |
| `task` | what a device's client has read, and the request it makes next |
| `offers` | keys sealed into invites and link approvals not yet claimed |
| `past` | the keys the account has had (a history variable) |
| `Unlock`, `FirstUnlock`, `PutFirst`, `Reread`, `Claim` | `unlockVault` and `registerProof`; first write of PUT /api/vault/key, POST /api/vault/auth |
| `StartChange`, `Claim`, `Change` | `changePassphrase`; later writes of PUT /api/vault/key |
| `StartReset`, `Reset` | `resetPassphraseAsAdmin`; POST /api/account/passphrase-reset |
| `StartRekey`, `Claim`, `ReadDevices`, `ReadRecovery`, `CheckRotation`, `RotationLands`, `RotationLost` | `rekeyVault`; POST /api/vault/rotate: its read and checks, then its batch |
| `Refresh` | `refreshVaultRing`, GET /api/vault/sealed |
| `StartSetUp`, `SetUp`, `RemoveRecovery` | `setUpRecovery`; PUT and DELETE /api/account/recovery |
| `OpenRecovery`, `Recover`, `RevokeOthers`, `EnrolRecovered` | `recoverAccount`; POST /api/recovery/open and /reset at its awaits |
| `Offer`, `Accept` | `createInvite`, `approveLink`; the claim of either |
| `Register`, `LoseKeypair`, `Revoke`, `GiveUp` | `ensureDeviceKey`; a keypair made anew; DELETE /api/devices; a client that stops |

*Abstractions.*  Keys, keypairs and recovery keys are numbers in the order they
are made; a proof is the passphrase it proves.  The person at a client types the
passphrase that opens what the client has read, since any other fails there and
nothing is sent.  How an enrolment is authorised (codes, invites, approvals) is
left to Enrol: here a device that is `out` joins by a key handed over, by the
passphrase or by the recovery key.  A read of the server by `refreshVaultRing`
and the store of what it read are one step: what it stores is named by the
epoch it came with.

*Vault* says what all this promises: one key, one passphrase; changing the
passphrase leaves the key, a re-key leaves the passphrase and draws a key nobody
holds; devices come to hold keys the vault has or has had, and those shut out
learn nothing more.  The mapping is `vault` <- `wrapped`, `held` <- what the
rings hold, whatever epoch they note it under, `shut` <- the revoked devices.

*Two assumptions on the environment* are constants, because the code relies on
them and does not enforce them.  `LostRacesCollide`: a rotation that loses to
another to the same epoch inserts a copy for some device the winner sealed to
as well, so that the primary key rolls it back.  It is so when a device stays
enrolled and registered while the two race; `VaultKeysLost.cfg` has what happens
otherwise.  `OffersStayCurrent`: nobody re-keys between the making of an invite
(or the approval of a link) and its claim; `VaultKeysOffered.cfg` has what
happens if somebody does.
`TypeOK` and `ProofOpensVault` are proved without either.

## 6. Enrol: how a device joins and leaves

| Model | Code |
|---|---|
| `alive`, `owner`, `revoked` | rows of `users`; `devices.user_id`, `revoked_at` |
| `token` | where the only copy of a device's token is |
| `offer`, `by`, `link`, `parked`, `expired` | `pair_codes`, `invites`, `link_requests` and their `expires_at` |
| `work` | requests being handled, at their statements |
| `joiner` | the client that made a link request |
| `AskOffer`, `Mint`; `AskRedeem`, `Redeem`, `ReadAccount`, `Enrol` | POST of a code or invite; its claim: spend the row, read the account, `createDevice` |
| `AskLink`, `Count`, `InsertLink`; `AskApprove`, `Approve`, `Enrol`, `Park`; `AskCollect`, `Collect`, `Whose`, `Reply` | POST /link/request; /approve; /claim |
| `JoinerExpires` | `awaitApproval` when its time is up |
| `AskRevoke`, `Revoke`, `DeleteAccount` | DELETE /devices/:id and /me; `deleteAccount` |
| `DropsStale`, `Purge`, `Expire` | `expireLinkRequests` (each request's own, and the cron's); the cron; time |
| `Fail` | a statement that fails, or an answer that is lost |

*Abstractions.*  A secret is held by whoever was shown it; ids and hashes are
fresh.  Time is the set of grants past their `expires_at`.  `grew` remembers
which devices a grant enrolled, so that `Membership`, the abstract
specification, can say that a grant admits one device at most, into an account
with room for it, and who leaves does not come back.

*What is excused.*  The cron may drop an expired request between the statements
of its approval: the token is then `dropped`, and the code has no remedy
(`EnrolPurged.cfg` has the trace).  `Accounted` says of every other token that
its joiner has it, can get it, or lost it with a request that failed, and of a
dropped one that the request which enrolled its device had expired.

## 7. Account: sign-up, sign-in, the address, deletion

| Model | Code |
|---|---|
| `row`, `admin`, `email`, `auth`, `failed`, `window` | columns of `users` |
| `code` | `email_codes`, `deletion_codes`, `email_changes`, one table by key |
| `invite` | `signup_invites` |
| `inbox` | what has been mailed to a person |
| `work` | requests being handled, at their statements |
| `AskCode`, `Store`, `Mail` | POST /api/signup/email, and its like for deletion and the address |
| `Signup`, `SignupInvited`, `Taken`, `Guess`, `Judge`, `ClaimInvite`, `Insert`, `Spend`, `Device`, `SetUp` | POST /api/signup, `signUp` |
| `Signin`, `ReadUser`, `CountFailure`, `ResetFailures` | POST /api/signin |
| `Bootstrap`, `FindAdmin`, `MakeAdmin` | POST /bootstrap (`auth.ts`) |
| `ChangeEmail`, `Proof`, `FreeForAccount`, `SetEmail`; `Delete`, `Erase` | PUT /api/account/email; DELETE /api/account |
| `NewPassphrase` | a change, or the operator's reset, of VaultKeys |

A person is the mailbox they read: what is mailed to an address its reader
knows, and nobody else; a guessed code or passphrase is wrong.  `judged`
counts, for each code, the guesses ever compared with it.  What deletion leaves
in R2 is not here: objects are BlobStore's.

## 8. Sync: the room

A connection is followed from both ends.  `server` is how far the worker has
got with it (ticket asked, issued, claimed, checked, parked, joined, closing),
`client` what the browser's socket is, `wire` what is on its way; either end
may be gone before the other knows.

| Model | Code |
|---|---|
| `Connect`, `Issue`, `Denied`, `Dial` | `useSync` connect; POST /api/sync/ticket |
| `Claim`, `Check`, `Join` | GET /ws: the ticket spent, the device looked up, the room's `fetch` |
| `Park`, `ParkExpires`, `Accept` | the self-hosted room, which holds the upgrade until the handshake |
| `Opened`, `Deliver`, `Heard` | the browser's `onopen`, `onmessage` |
| `Broadcast`, `Leave`, `Closed`, `Forgotten` | fan-out; `webSocketClose`, `webSocketError` |
| `Drop`, `Restart`, `Unmount` | a connection that is lost, a server that restarts, a page that closes |
| `Revoke`, `Cut` | DELETE /api/devices/:id: the row, then the sockets |

`WillShow` says what a page shows once it has read what is on its way: of each
device, what was said of it last, if anything was.  That it is what the page's
handler (`Heard`) makes of the messages one by one is a matter of two lemmas in
`SyncProofs`, one for a message more at each end of the wire.

*An upgrade that is late.*  `late` remembers the connections that had passed their
check when `Cut` closed the sockets of their device: nothing looks at them again,
and one that then enters the room stays there.  `RevokedIsCutOff` is of all the
others; `SyncLate.cfg` has what it leaves out.

## 9. Agent: the clipboard loop

Each `await` of `daemon.ts` is a step.  A poll goes through `Tick`, `Read`,
`Settles`, `Look`, `Checks` and the digests to `Claims`, `Accepted` or `Stale`;
an event, in one of `Handlers`, through `Lists`, `Opens`, `Guards`, `Writes`
and `ReadsBack`; a key refresh through `Refreshed`, `PrimeReads` and `Primes`.
What reads as text is looked at again for the files or the image it may stand
for (`ReadsBeside`, `TextRead`), and files are told from those received by their
digest (`FilesTagged`), after which it is not asked again whether the read was
overtaken.  Beside them the user copies, other devices do, change events come or stop,
requests fail, the socket drops and reconnects.  `Agent` is of one device; the
server is a newest clip and an epoch.

The guards of the daemon do not cover every order of these steps.  Which those
are, the header of the module lists; `slipped` records that one has been met,
`swallowed` that a copy of the user's was taken for handled, and `NoEcho`,
`SendsWhatIsThere` and `CopiesAreSent` say what holds until then.  The list
was found by checking without it, and each item of it has a trace.

`AgentInit`, `AgentNext`, `AgentSpec` and the like have their names because the
proofs extend `Agent` together with `Sync`, the other end of its socket.

## 10. Machine: one configuration file, a service and commands

The agent and the commands are processes that share nothing but the file.  Each
reads the whole of it once, works on its copy and saves the whole copy.

| Model | Code |
|---|---|
| `file`, `tray` | `config.json`; `tray.json`, the device of the tray panel |
| `service` | not installed, waiting, up, or stopped for good over one of three reasons (exit 78) |
| `proc` | where a process is, its copy of the file, its device and keypair |
| `AgentStarts`, `AgentDies`, `Ends` | the service manager; `exitForGood` |
| `Enrols`, `SignsIn`, `WrongPassphrase`, `Keeps`, `Restarts` | `cmdPair`, `cmdLink`, `cmdLogin`, `cmdSignin`; `undoEnrolment`; `enrol`; `restartServiceIfInstalled` |
| `MakeKey`, `Register`, `RegisterFails` | `ensureDeviceKey` |
| `Asks`, `UpToDate`, `Refresh`, `NoneSealed`, `Stranded`, `Save` | `refreshRing` |
| `Rekeys`, `SaveRekeyed` | `cmdRekey` |
| `LogsOut`, `LogsOutTray`, `Clears`, `Deletes` | `cmdLogout`, `cmdDeleteAccount` |
| `Installs`, `Uninstalls` | `cmdInstall`, `cmdUninstall` |
| `Interrupt` | Control-C, before what was begun is saved |

*What is excused.*  A file may name another device, or none, by the time a process
saves its copy; `over` remembers the devices the file named when it was replaced,
and `left` those that were interrupted, or whose revocation did not get through.
`NoPhantom` says that there are no others, and that `left` takes a failure:
what it promises is that an enrolment that fails (`undoEnrolment`) leaves no
device.  It does not promise that typing `clipsync link` twice leaves none: the
first device stays on the account's list.  A request to register a keypair may
be lost, at every start.  The agent then works with none (`Unregistered`), and
`KeypairsAgree` and `StopsForReason` excuse that, and nothing else;
`MachineUnregistered.cfg` has what comes of it.

*Assumptions.*  One terminal, for `KeypairsAgree` and `StopsForReason`: with two, a
command that read the file before an enrolment in the other made its keypair
makes and saves another.  `NoPhantom` is proved for any number.  An enrolment
that has saved its credentials is not interrupted before it is done.  A save is
one step: the code writes the whole file at once, and reads it once.

## 11. Update: the executable

The service looks for a newer release, downloads it, writes it to `.new`, runs
it and renames it into place; `clipsync update` does the same, and `clipsync
install` copies its own executable there.  `place` and `fresh` are the two
files, `Partial` a file half written, `NoFile` none.  A process may be killed
between any two system calls that a reader could tell apart (`Dies`), also
between Windows' two renames, which leaves nothing in place until somebody
installs or updates once more; a
download may fail (`DownloadFails`), a release may not run here (`WontRun`); on
Windows (`windows`, chosen once) a replacement is two renames (`MovesAside`,
`MovesIn`).  The service watches its file (`Watches`) and hands over to what it
finds there (`Hands`, `Exits`); the manager starts it again (`Starts`).

*Assumption.*  `Alone`: two processes are not between writing `.new` and renaming
it at the same time.  Nothing in the code sees to it; it is a guard of the
actions, and section 14 says what it leaves out.

## 12. HistoryView: what a screen shows

| Model | Code |
|---|---|
| `rows`, `epoch` | the server's clips, each a time, a pin, a key epoch |
| `link`, `wire` | the socket, and events on their way in any order of decoding |
| `list`, `cursor`, `loads`, `decoding` | `useClips`: clips, cursor, requests under way, events being decrypted |
| `Load`, `Loaded`, `LoadMore`, `Look`, `Connect` | `load`, on mounting, by the user, on a look at the tab, when the socket is back |
| `Deliver`, `Decoded` | `applyEvent` |
| `Refreshed` | `refreshRing` after `vault.rotated`, then the list decoded again |
| `Remove`, `UndoTimeout`, `Undo`, `Commits`, `Leave` | `History.tsx`: a delete, its six seconds, its undo, its being sent |
| `TogglePin`, `Serve`, `NotFound`, `RequestFails` | the optimistic changes and their answers |
| `Create`, `Bump`, `Pin`, `Delete`, `Rotate`, `Reencrypt` | other devices |

A first page and the pins that come with it are two requests at once in the
code; here they are read at one instant.

`Current` says that the screen shows every pin and the newest page, each clip as
it is stored.  `LooksConverge` assumes that the user goes on looking at the tab
(that is what the code refetches on); nothing else brings back an event that
was lost or shown over by an older page.

## 13. Browser: a session over several tabs, and a share

The credentials and keypairs are the browser's, the vault keys a tab's
(`sessionStorage`) or, if the device opted in, the browser's (`localStorage`).
What the share sheet hands over is kept by the service worker in IndexedDB
until a tab has sent it.

| Model | Code |
|---|---|
| `creds`, `local`, `idb` | localStorage's credentials and ring; the keypair store |
| `kept` | the pending shares |
| `tab` | each tab: what it shows, its React state, its sessionStorage |
| `sync` | each `syncRing` under way, at its awaits: one of the app, one of the share screen |
| `opening` | each `unlockWithPassphrase` under way: the wrapped key asked for, then derived |
| `Share`, `Load`, `SendPart`, `SendStale`, `SendFails`, `SendRefused`, `Saved`, `TryAgain`, `Done`, `Discard`, `Sweep` | `sw.js`, `ShareScreen`, `shares.ts` |
| `SignIn`, `RecoverAlone`, `Join`, `Pair`, `Opened`, `Mistyped` | `SignInScreen`, `RecoverScreen`, `JoinScreen`, `PairScreen` |
| `Unlock`, `Ask`, `AskFails`, `Lock`, `KeepUnlocked` | `UnlockScreen`, `Settings` |
| `SignOut`, `ClearSession` | `signOut`, in two steps: the device revokes itself, the caches are cleared |
| `RefreshRing`, `GetKeypair`, `PutKeypair`, `Register`, `FetchSealed`, `CacheNewer`, `NoIndexedDB`, `SyncFails` | `refreshRing`, `syncRing` |
| `RekeyHere`, `Rekey`, `Reencrypt` | a re-key from this page's settings, or of another device |

*Abstractions.*  The key of epoch *e* is *e*: a key is right when it is filed
under itself, and a ring may hold wrong ones.  One account; an enrolment's key
is of the epoch it names (VaultKeys has the one that is not).  A request may be
lost, which is bounded, or refused each time it is made: a file over the limit
(`client/files.ts`), of a plan that syncs no files, for which there is no room
or no upload left this month (`blobs.ts:95-129`).  Which parts of which shares
that is, is the constant `Refusable`: an error that trying again does not end.
A file is one request (BlobStore has its chunks).  Sign-up is left out, and
shares that are never kept (a text in the address, or one the worker could not
store).

## 14. What the runs show

| Run | Question | Instance |
|---|---|---|
| `clips` | Beside a re-key and its re-encryption, does every copy settle and every re-encryption end, is there one row per key, do the rows implement `History`, is no key ahead of the account's, and is a row nobody can open only left by a bump or a page that was overtaken? | 2 devices copying 1 text, 2 ids, 1 re-key, 2 instants, 1 pin, pages of one row |
| `clips_misstamp` | Is a re-encrypted row sealed under the epoch it is stamped with, as `clips.ts:415-417` says?  **No.** | 2 devices re-keying in turn |
| `blobs` | Does a clip keep its bytes, are room and budgets kept, do uploads end, is what they leave swept, with a failure anywhere? | 1 account, 2 uploads of 1 file of up to 2 chunks, room for 3, 1 victim at a time, one upload prompt and one not |
| `vault` | Whatever changes, re-keys, resets, recoveries and first unlocks race: do rings, sealed copies, recovery key and proof stay of one vault, does it implement `Vault`, and do re-keys reach who stays? | 2 devices and one that may join, 2 passphrases, 3 client operations begun, 1 re-key landing of 2 attempted, 1 recovery key, 2 keypairs; the two assumptions of section 5 |
| `enrol` | Does a grant enrol one device, within the plan; is no device left that nobody can be; is a joining client told, and what was parked for it gone in the end? | 2 accounts of a device each with room for one more, 1 code, 1 link request both may approve, 2 requests at a time, any of which may fail |
| `account` | Is an address one account's and its reader's; does an invite make one account, the admin secret one; are guesses bounded, and failed sign-ins? | 2 people, 2 accounts, 2 requests at a time and 4 in all, 1 guess a code, 1 failure a window |
| `sync` | Is who is shown as connected who is; is a revoked device cut off, but for a socket that came late, and does it learn of it; do the others come back? | 2 devices, one with 2 connections that may overlap, 1 drop or restart, 1 clip |
| `agent` | Is what was applied never sent back, what was overwritten never sent, and what the user copied sent, until an order of `slipped` is met? | a text, a picture the clipboard re-encodes, two files that read as text, 1 copy here, 1 elsewhere, 2 re-keys, 1 failure |
| `machine` | Is a device left behind only where the file was replaced over it or something failed; unless its registering failed, does the agent hold the keypair re-keys are sealed to, and stop for good only with cause; does it come to serve as the file's device? | 3 commands typed of 8 kinds, 3 devices of which one is the tray's, 3 keypairs, 1 re-key, 1 failure or crash |
| `update` | Does what is in place always run, and the newest release come to? | 4 releases of which the third does not run here, 2 terminals, 2 commands, 2 failures or kills |
| `view` | Does what was undone stay, does a delete reach the server, does looking again show what is there? | 2 clips, pages of one row, 1 re-key, 1 write elsewhere, 2 acts, 2 loads at once, 1 failure |
| `browser` | Is what is stored under the key of its epoch, is a share kept until it is in the account, and does it arrive? | 2 tabs, 1 share of a text and a file that may be refused each time, 1 re-key, 3 enrolments, 1 act of the user and 1 failure beside those that answer the share screen |

All but `clips_misstamp` pass; that one is a disagreement of the code with what is
written beside it.  The type invariants `TypeOK` are not among the runs'
properties: they are proved of every module but `HistoryView`, and held for that
one in the same instance.

*Bounds, and why they are enough to be interesting.* In `clips` two ids give a
re-encryption two pages, so a cursor that may skip; one re-key gives rows under
both keys; two instants give rows that share one and rows that do not. Only one
device re-keys there: two are in `clips_misstamp`, and the proofs are for any
number. The safety properties were also checked with two texts, for one to be
bumped over the other, and two re-keys, for a page to be overtaken by the
second; and they are proved. In `blobs` the three chunks of room make the second
upload of two evict the first, and `MaxTries` 1 lets a reservation give up; a
budget of three writes for the account below four for the worker refuses some
chunk in the middle of an upload; the file being one makes the second upload
find the first's clip. One account only: eviction and quotas never reach across
accounts in the code, and the proofs are for any number. In `vault` each device
may only do what `Does` lists for it, which keeps apart who re-keys against
whom; `MaxTasks` 3 counts the operations begun by clients: races of three
requests, none of which is bounded in where the others come in. One landing
re-key tells "before" from "after"; two landings, and a device away over both,
are only in the proofs.

In `enrol` room for one more device on each of two accounts makes every two
enrolments race for the last place; two requests at once are every race of two
handlers, and a third (the cron, a deletion, the joiner's clock) is an action of
its own.  In `account` one guess a code and one failure a window put the limit
within reach of two requests.  In `sync` a device with two connections is the
case the room's code speaks of ("a reconnecting agent briefly holds two"); one
drop may be a lost connection, a failed request or a restart, anywhere.  In
`agent` a file that reads as text may be copied here or received, so a text is
settled on that stands for a file received; one event at a time keeps the
liveness check small; two at once are one of the orders that `slipped` names.
In `machine` three commands are needed for a stale save to meet a newer
enrolment and a service restarted over it.  In `update` four releases let one
that does not run be passed over, and one come out while another is installed.
In `view` pages of one row make a list of two pages.  In `browser` one act is
one of ten kinds (a reload, a second tab, a lock, a sign-out, a join, a refresh,
a re-key from the settings, ...) at any point, beside all that the share screen
itself does; safety alone was also checked on a larger instance.  That the file
is refused is a choice made each time it is sent.

*Promises that do not hold.*  The first is a run.  The others have a configuration
of their own, kept for its trace beside those of the runs and as small as the
order of steps it shows: `tlc -config SyncLate.cfg MCSync`, and so on.

- *A row stamped with an epoch it is not of* (`clips_misstamp`, `clips.ts:452`).  A
  second re-key falls between the sealing of a page and its request; the worker
  stamps the page with the epoch it reads itself.
- *A bump over a re-encrypted row* (`ClipStoreOvertaken.cfg`,
  `KeyEpochNamesKey`; `clips.ts:316`, `protocol/src/index.ts:118`). The bump has
  read its row; a re-key and the row's re-encryption follow; the bump then
  stores its envelope, of the old key, by id alone, in a row of the new epoch.
  These two orders are what `OnlyOvertakenWritesSpoil` excuses, and it says that
  there is no third.
- *A lost re-key that writes* (`VaultKeysLost.cfg`, `LostRaceWritesNothing`;
  `vault.ts:168`, where `vault.ts:92` says "a lost race writes nothing at all").
  Two re-keys to one epoch with no device in common: the loser's UPDATE finds
  another epoch, its INSERTs find the new one, and nothing collides. Were there
  a recovery key, its seal would be overwritten with the loser's.
- *An offer accepted after a re-key* (`VaultKeysOffered.cfg`, `RingsAgree`;
  `invites.ts:136`, beside the comment on `freshRing`, `config.ts:248`).  An
  invite, or a link approval, holds the vault key of the moment it was sealed;
  the claim answers with the epoch of the moment it is claimed.  The new device
  notes the old key under the new epoch and never looks for another.
- *An approval the cron cuts through* (`EnrolPurged.cfg`, `NoneOutlivesItsRow`;
  `link.ts:190`, where `purge.ts:22` says "no device outlives the only row that
  knew its token").  Run between
  `createDevice` and the UPDATE that parks the token, `expireLinkRequests` deletes
  a row that names no device yet: an enrolled device is left whose token nobody
  has.
- *An upgrade that outlasts a revocation* (`SyncLate.cfg`, `CutOffWhenAnswered`;
  `sync.ts:63`, beside `devices.ts:204-206`).  It passed its
  check before the device was marked, and enters the room after its sockets
  were closed.
- *A stop without cause* (`MachineUnregistered.cfg`, `StopsOnlyRekeyedOut`;
  `daemon.ts:279`, where `service.ts:485` names the causes of exit 78).  At this start the
  request that registers the keypair is lost and only logged; the agent has no
  keypair in hand, and cannot open what a re-key sealed to the one in its file,
  which an earlier start had registered.
- *An enrolment saved over* (`MachineStale.cfg`, `RestartsAsEnrolled`;
  `config.ts:237`, beside `service.ts:441-442`).  The running agent took
  a re-key's key before the enrolment saved its credentials, and saves its whole
  copy, with the device before, after.

These were met while modelling, each found by TLC as a violation in a variant of an
instance above, and have no configuration:

- *A clip that never expires* (`clips.ts:307`, `UnpinnedExpire`): an unpin
  between a bump's transactions is overwritten.  `purge.ts:48`: "Unpinned clips
  die on schedule".
- *A blob nothing names* (`clips.ts:323`, `AdoptedBlobsAreClips`): a bump of a
  deleted clip, or two at once.  `clips.ts:314-315`: "the row moves to the new
  blob and the old one goes".
- *An abandoned upload that was adopted* (`blobs.ts:157`, `EveryClipWhole`), by
  a POST its client believed failed.  `blobs.ts:153`: "Abandon an upload no clip
  has adopted."
- *An echo* (`daemon.ts:674`, `StaysQuiet`, which is `NoEcho` without
  `slipped`).  `daemon.ts:11`: "so the next poll recognises it and stays quiet".
- *A list that is not current* (`apps/desktop/src/App.tsx:375`, `LiveIsCurrent`):
  a page that was read before an event shows over it.  The comment: "Live events
  keep the list current while the socket is up".
- *Two processes at one `.new`* (`update.ts:118`, `PlaceRuns` without `Alone`): one
  runs and renames what the other is writing.
- *Caches of several tabs* (`session.ts`; steps of `Browser`).  A refresh
  in flight when a tab is locked or signed out caches the ring again
  (`session.ts:207`); a ring cached over a newer one loses the key of an epoch
  in between; a wrapped key unanswered files the enrolled one under epoch 0
  (`session.ts:113-121`), over the right one; a tab that joins again by an
  invite goes on with its old ring until it is reloaded (`App.tsx:132-147`);
  a sign-out in one tab clears the credentials another has just saved; two
  tabs that both find no keypair store two.  `SentOpens`, `SharesKept` and
  `SharesArrive` hold over all of them.

## 15. Fairness

`ClipStore`: the worker serves what it was sent (`ServePost`); the agent polls
every interval, so a refused copy is pushed again (`Retry`) and a newer key is
picked up (`Refresh`); a re-encryption that has begun runs on (`WalkStep`).
Nobody is made to copy, pin, delete, re-key or purge.  `CopiesSettle` lets the
ids run out, a bound of the model.

`BlobStore`: the steps of an upload follow one another; a deletion under way
runs on (unless it fails, and failures are bounded by `MaxFailures`); the cron
is hourly and its sweep comes back to what is still old (`Sweep`).  Beginning an
upload, going away, giving up, failing, deleting, pinning and expiring are not
fair.  A system where every upload has ended may stop, so the BlobStore
configurations do not check deadlock.

`VaultKeys`: only `Refresh` is fair, for each device.  It runs at every start of
an agent or a web session, when `vault.rotated` arrives and after every 409, so
a device that goes on being used does run it, whether or not the event was
lost.  `RekeysReach` speaks of devices that stay enrolled with the keypair the
worker has.  Nobody is made to finish a change, a re-key or a recovery; an
account where nobody does anything may stop, so deadlock is not checked.

`Enrol`: a request that is being handled ends, a link request expires, the cron
is hourly, and a joining client that waits polls and looks at its clock.
Nobody has to ask, approve or revoke.

`Sync`: the hook's timer fires, requests are handled, what is on a live
connection arrives, and a connection that ended is noticed at the other end;
drops are bounded by `MaxDrops`.  A revocation that has begun closes the
sockets it finds (`Cut`).

`Agent`: the poll's timer goes off, what is awaited comes, the socket
reconnects.  The user, the other devices, re-keys and failures are not fair.

`Machine`: the manager starts what it is to start, and a process that has begun
goes on; typing, interrupting, crashing and re-keying are not fair.

`Update`: the same, with the service's timer for releases (`Looks`) and its
watch on the file; releases are bounded, and nobody has to publish or type.

`HistoryView`: requests and events come through or are lost, timers go off, the
socket reconnects.  That the user looks again is a premise of `LooksConverge`.

`Browser`: requests are answered or fail, and what follows is done.  The user
of a share screen answers it: enrols, gives the passphrase, tries again, and,
when that leads nowhere again and again, loads the page anew (`ReloadStuck`,
the one strong fairness: an error is left and met again).  Nothing else the
user does is fair.  Most of these systems may stop when nobody does anything,
so these configurations do not check deadlock.

## 16. Proofs

`tlapm` on `ClipStoreProofs` (1103 obligations), `BlobStoreProofs` (1723),
`VaultKeysProofs` (2524), `AccountProofs` (1928), `EnrolProofs` (1660),
`MachineProofs` (3084), `SyncProofs` (3908) and `BrowserProofs` (3007) proves the
following for every value of the constants that satisfies the ASSUMEs of the
modules.  `SyncProofs` has the proofs about `Agent`, too; `MachineProofs` those
about `Update`, and `BrowserProofs` those about `HistoryView`, each through an
INSTANCE (`U!`, `H!`): the theorems about `Update` have its `ReleaseAssumption` as
their hypothesis, `Released`, its other assumptions being `Machine`'s; the one about
`HistoryView` has none.  The inductive invariants of `Account`, `Enrol`, `Machine`,
`Sync`, `Agent` and `Browser` were first checked by TLC on an instance.

*ClipStore.*  Type correctness first.  `DeletedStaysDeleted` and
`NewRowsUnderCurrentKey` follow from a step analysis: only `InsertClip` adds a
row.  `OnlyOvertakenWritesSpoil` is about what changes a row: a bump or a page
of re-encryption that was not overtaken writes an envelope under the key the row
then names, by what `KeyInv` knows of both, and a re-key touches no row.
`KeyInv` is the inductive invariant for keys: beside `EnvelopeNamesRow`
and `KeysNeverRunAhead` it says what requests in flight know of the row they
will write by id (`BumpsKnowTheirRow`, `ItemsKnowTheirRow`): while the row
lives, its tag is of the same text, and re-encryption's items are newer than
what they replace.  Without that a bump or a re-encryption could put one text's
envelope in another's row.  `OneRowPerKey` needs `RoomPerKey`: a text with a row
under the current key has at most `epoch + 1` rows, one without at most
`epoch`; a re-key adds one place.  `PinCap` is a cardinality argument.
`HistoryImplemented` maps every step, under `KeyInv`, to a step of `History` or
to a stutter.

*BlobStore.*  `IInv` is the inductive invariant of `WholeClips` and
`ObjectsHaveRows`.  Its core is that whoever deletes does so by what it read
earlier, so it must be known what has not changed since:

- `ChunksAgree`: the chunks reserved are the chunks sent, in order;
- `NamedOnce`: no two clips name one blob, and a blob some clip names is past
  uploading;
- `RefsKnow`: a clip as a handler read it may be gone or may name another blob
  by now, but no *other* clip has come to name the blob it had: evictions and
  bumps delete only what nobody else uses;
- `DropsKnow`: what is being deleted of prompt uploads is no clip's, and when
  the rows' turn has come the objects are gone;
- `Progress`: how far a prompt upload's rows and objects have got, and that it
  stays unadopted and undropped till it ends.

Each part has a lemma saying every step keeps it (`ChunksKept`, `NamedKept`,
`RefsKept`, `DropsKept`, `ProgressKept`, `WholeKept`, `ObjectsKept`); these rest
on lemmas saying what a step may do to an upload and to each table (`Flow`,
`BlobFlow`, `RowsFlowed`, `ObjectsFlowed`, `ClipsFlowed`).  The proof depends
on `Prompt` at exactly two places: the sweep and `GiveUp`.

`RoomHolds` has an invariant of its own, `RoomInv`: it needs nothing of the
above but what a step does to each table.  Sizes and operations are counted as
cardinalities of the chunks and operations themselves, so the sums the code
takes (`SUM(size)`) are cardinalities of unions; the invariant adds that these
are finite, which is not assumed of the uploads or the accounts.  Only
`Reserve` adds chunks, as many as `Fits` allowed (`RoomKept`); only
`CheckChunk` moves the budgets, and an object it paid for is in flight
(`Writing`) until `PutObject` makes it (`WritesKept`).

*VaultKeys.*  Three layers, each inductive on top of the one before.

- `Opens`, without assumptions: `TypeOK`, `TasksOK` (a task has the fields its
  next request needs), `ClaimsOpen` (a client about to claim a proof has the
  passphrase of the wrapped key, unless a proof is registered already) and
  `ProofOpensVault`.  `ClaimsOpen` is why trust on first use is safe: a change
  or reset that would make the claim wrong registers a proof itself.
- `Agrees`, under `LostRacesCollide` and `OffersStayCurrent`: `KeysAgree` with
  `TasksKnow` (work under way whose epoch is the account's is on the account's
  key; a rotation's key is nobody's yet), `NothingAhead` (no ring, copy or
  recovery seal of an epoch yet to come) and `Blank` (before the first wrapped
  key there is nothing to disagree with).  Most steps are *steady*: they change
  neither epoch nor key, and the lemmas `SteadyKey`, `SteadyRing`,
  `SteadySeals`, `SteadyTask` and `SteadyOffers` say what each table then needs.
  The two that are not have lemmas of their own, `AgreesFirst` and
  `AgreesRekey`; the latter is where `NothingAhead` pays.
- `Whole`, for the refinement, adds `Remembers` (every key a ring holds or a
  recovery is about to wrap is one the account has had, and the keys drawn for
  rotations are new and told apart, so a re-key's is a key nobody holds) and
  `Stand` (who is recovering is not enrolled yet, and who is not enrolled or has
  yet to unlock holds nothing).  `VaultImplemented` then maps `PutFirst` to `Create`,
  `RotationLands` to `Rekey`, changes, resets and recoveries to `NewPassphrase`,
  what a ring gains to `Learn`, revocations to `ShutOut`, the rest to a stutter.

*Update.*  `PlaceRuns` needs what each process at the file is about to do: what
is about to be renamed into place has been run (`FreshRuns`), which holds
because one process is at it at a time (`OneAtATime`, from the guard `Alone`)
and because `clipsync install` copies what itself runs (`InstallRuns`);
`TagKnown` is what the type invariant needs of the releases that did not run.

*Account.*  `IInv` has a part for each table and one for the requests, and needs
no assumption but those on the bounds.

- `OneAccount`: `OneEmail` and `OneAdmin` are kept by the conditional statements
  that set them, `Insert`, `SetEmail` and `MakeAdmin`.  An invite makes one
  account because one request at most is between spending it and inserting
  (`ClaimedOnce`).
- `AddressProved`: a code is one person's, wherever it is (`OneReader`): in a
  row, in the mail, on its way there, or read by a request that is about to
  compare it.  A code drawn for one row is never in another (`OneKey`), and what
  is not drawn yet is nowhere (`SentDrawn`).  A request past its comparison
  then has an address its person reads, unless an invite named it (`Reads`).
- `GuessesBounded`: a row's `tries` are the guesses its code was compared with
  (`RowsCount`); what a replaced row's code was compared with stays as it was.
- `LockoutBounded` is inductive with the types; it counts requests about to
  count a failure (`Failing`), so it is a cardinality argument.

*Enrol.* `AskedOnce` and `GrantsOnce` say that what spends a row is alone
between its statements: one request at most is about to enrol by a grant, and
the grant is spent and has admitted nobody. `Held` is `Accounted` with the
requests that carry a token named: the device a request has made is in its
answer, or is about to be parked. What `Park` writes to is there, or had expired
(`Claimed`). `MembershipImplemented` then maps `Enrol` to `Admit` (`Joins`, from
`GrantsOnce` and the count of `createDevice`), and whatever shortens a list, a
revocation, a deletion or the cron, to `Leave` (`Departs`).

*Machine.*  `Known` is `NoPhantom` with more said of processes: an enrolled device
that is nowhere on disk is in a command that has yet to save it, and one that
is about to clear the file has revoked what it clears, or has left it.
It holds for any number of terminals.  `Agreed`, for one terminal, is about copies of
the file: outside of an enrolment all copies of one device's have the keypair of
the file, and a process that has registered has registered that; one that has
not works with none, and some request has failed (`AlwaysTried`).  During an
enrolment the copies do not agree, which is why `KeypairsAgree` says nothing then,
and `Agreed` has to say where the process that will make it true again has got to.
`StopsForReason` follows: the agent that finds nothing to open works with the
keypair of its file, or with none.

*Sync.*  `RevokedIsCutOff` needs that whatever of a device whose sockets have
been closed is past its check was so then, and is in `late` (`Apart`).
`PresenceConverges` is `Converging`: inductive with the types and with `Asking`
(a page that asks for a ticket has no socket), which need no assumption.  Each
step either says something to everybody that is joined, and the lemma
`WillShowAppended` tells what that changes; or says nothing because nobody comes
or goes (`Silent`); or makes a page hear what was said, which `WillShow` had
counted already (`WillShowHeard`).

*Agent.*  Beside the types, and the shape of a poll and of an event (`PollFits`,
`HandlerFits`), all that `AgentInv` says holds until `slipped`; each part of it is a
reason why the guards of the daemon are enough till then.

- `Written`: one event is written at a time, what it writes is guarded before
  it is there, and a poll that goes on meanwhile has been overtaken.
- `Guarded`: what the clipboard holds is the user's, or `Known`: a text whose tag
  under the current key is the last handled, or is about to be, once the guard
  is primed for a new key; an image by the digest of what was read back; a file
  by the digest it was received with.
- `PollKnows`: a read that was not overtaken is of what is there, or was until
  the user copied something else; if it is not the user's, a guard knows it.

`NoEcho` is inductive with these: a poll that is about to send has not been
overtaken, and settles on nothing that a guard knows.  `SendsWhatIsThere` follows
by a look at the two steps that claim what they send (`SentBy`).

*Browser.*  The keys of a browser are copied from tab to tab, to its cache and
back, and into what is under way: a refresh, an unlock, a share being sent.
`IInv` says the same of every such ring (`RingFits`): under each epoch but 0 it has
that epoch's key, and it has none the account has not reached.  Under epoch 0
there may be another: the one of an enrolment, filed there because the server
did not answer.  As no key is of an epoch yet to come, that one is right while
the account is at epoch 0; later, what the account takes is sealed under a later
epoch (`CurrentFits`), so it opens (`SentOpens`).  The rest relates a tab to the
calls it waits for: a share waits while its refresh is under way, or while the
passphrase is tried for it, and one is tried for an enrolment only where there is
no device yet.  `SharesKept` rests on `Sent`: what a tab no longer means to send
is in the account; and on `sweeps`: a tab clears away only shares that are old,
or gone.  That the newest epoch of a
ring exists (`Max`) is by well-foundedness of `<` on the naturals, the induction
theorems being out of reach.

*HistoryView.*  `AskedFor`: every delete under way, and the one that can be undone,
is of a clip the user has left deleted.  A request that ended is the only one
of its kind for its clip, so that what an answer settles nobody else still asks
for (`EndsAsked`), and an undo takes a clip back only if its delete has not been
asked for (`UndoAsked`).  `UndoneStays` follows: of the steps that change the
requests, only a request that is served takes a row away (`GoesAsked`).

*Only model-checked.*  The liveness properties (`CopiesSettle`, `WalksEnd`,
`UploadsEnd`, `OrphansSwept`, `RekeysReach`, `JoinerSettles`, `RevokedLearns`,
`CopiesAreSent`, `ServiceServes`, `NewestRuns`, `DeletesReach`, `LooksConverge`,
`SharesArrive`): TLAPS proves nothing under fairness.  The type invariant of
`HistoryView`.  That `WillShow` is the fold of `Heard`
over a whole sequence, an induction over data (TLC finds them equal in every
state of the instance); and that the budgets' counts are the sums of the
accounts', which is how `Charged` is defined and not a theorem.

## 17. What is not modelled, and why

*Platform drivers*: clipboard tools and X11, the service managers' files,
mail delivery, the rate limiter, the self-hosted server's I/O around its SQLite
transactions (`d1.ts`, `bucket.ts`, `limiter.ts`, `serve.ts`): their behaviour is
that of the platform and not of this code.  *Screens*: what the web app and the
tray panel show beside the state of `HistoryView` and `Browser`.
*Cryptography* is abstracted: tags compare and envelopes open exactly when
text, key and device agree.  *Migration*: envelopes of the first format, old
formats of the configuration file, machines that keep a passphrase instead of
keys, clients too old to send an epoch or to know of the recovery key
(`vault.ts:286`), wrapped keys from before there were epochs.

*Known gaps of what is modelled.*  A text the user copied and then replaced by
files while the agent looked for files goes by the text's tag, and the files'
names or the files are sent for it (`daemon.ts:478-490`; `Agent` has it).  A
clip pinned after an eviction has read it as unpinned is still evicted
(`r2.ts:193`): the steps are in `BlobStore`, no property states it.  A recovery
key replaced while a re-key is under way leaves a seal that opens nothing
(`vault.ts:181`); a device enrolled between a rotation's read and its batch gets
no copy, and is not among those the user is told of (`vault.ts:233`); a first
unlock that lost the race notes the key it reads again under the epoch it read
before (`client/vault.ts:88`), which the next refresh sets right.
`deleteAccount` reads the blobs before its batch: a file uploaded in between
leaves objects no row names, as its comment admits (`account.ts:36-43`).  A
change of the address leaves a deletion code mailed to the old one in force
(`account.ts:279`).  A sign-up that fails after its account or its device exists
leaves them (`signup.ts:177`, `cli.ts:215`).  A socket that opens after its page
has gone is left to the browser (`useSync.ts:61`).
