------------------------------- MODULE Enrol -------------------------------
(***************************************************************************)
(* How a device joins an account -- by a pairing code, an invite or a link *)
(* request -- and how it leaves.                                           *)
(*                                                                         *)
(* The three grants are rows that one request makes and another spends.  A *)
(* request is a series of statements on the database with the others' in   *)
(* between: only a statement, or one batch, is atomic (apps/worker/src     *)
(* routes/devices.ts, invites.ts, link.ts, auth.ts, purge.ts and           *)
(* packages/client/src link.ts, invite.ts).                                *)
(*                                                                         *)
(* A device's token is shown once: `token` follows the only copy of it.    *)
(* Time is the set of the grants whose expires_at has passed; a request    *)
(* reads the clock as it starts, so it may act on a grant that expired     *)
(* since.  A guessed secret is not a case: who redeems, collects or        *)
(* approves a grant was shown it.                                          *)
(***************************************************************************)
EXTENDS Naturals, FiniteSets
CONSTANTS
    Users,            \* accounts there may be
    Codes, Invites,   \* rows of pair_codes and of invites
    Links,            \* rows of link_requests
    Address,          \* link |-> the address it is requested from
    MaxPending,       \* MAX_PENDING_PER_ADDRESS
    Limit,            \* user |-> its plan's max_devices
    MaxDevices,       \* bound: rows of devices ever made
    First,            \* the devices enrolled at the start, and whose they are
    Does,             \* account |-> what its people do (a bound)
    Requests,         \* bound: requests under way at once
    NoUser, NoGrant,
    Failures          \* whether requests may fail half-way

Offers == Codes \cup Invites
Grants == Offers \cup Links
Devices == 1..MaxDevices    \* 0: none

ASSUME GrantAssumption ==
    /\ Codes \cap Invites = {} /\ Offers \cap Links = {}
    /\ NoGrant \notin Grants /\ NoUser \notin Users
ASSUME BoundAssumption ==
    /\ MaxDevices \in Nat /\ MaxPending \in Nat
    /\ IsFiniteSet(Requests) /\ IsFiniteSet(Links)
    /\ Limit \in [Users -> Nat]
    /\ DOMAIN Address = Links /\ DOMAIN Does = Users
ASSUME FirstAssumption ==
    /\ DOMAIN First \subseteq Devices
    /\ \A d \in DOMAIN First : First[d] \in Users
    /\ \A u \in Users : Cardinality({d \in DOMAIN First : First[d] = u}) <= Limit[u]
ASSUME ChoiceAssumption == Failures \in BOOLEAN

VARIABLES
    alive,    \* rows of users
    owner,    \* devices.user_id; NoUser: no such row
    revoked,  \* devices with a revoked_at
    token,    \* where the only copy of a device's token is
    offer,    \* pair_codes and invites: not yet made, open, used, deleted
    by,       \* their user_id
    link,     \* link_requests: not yet made, pending, approved, ready, deleted
    parked,   \* link_requests.device_id (and device_token); 0: NULL
    expired,  \* grants whose expires_at has passed
    joiner,   \* the client that made a link request
    work,     \* requests under way
    grew      \* grant |-> the devices it enrolled (history)

devices == <<owner, revoked, token>>
offers == <<offer, by>>
links == <<link, parked>>
vars == <<alive, devices, offers, links, joiner, expired, work, grew>>

Work == [pc : {"idle", "mint", "redeem", "account", "enrol", "reply",
               "count", "insert", "approve", "park", "collect", "whose",
               "revoke"},
         g : Grants \cup {NoGrant},     \* the grant
         u : Users \cup {NoUser},       \* the account
         d : {0} \cup Devices,          \* the device made, collected or revoked
         live : BOOLEAN]                \* the grant had not expired

Idle == [pc |-> "idle", g |-> NoGrant, u |-> NoUser, d |-> 0, live |-> FALSE]

-----------------------------------------------------------------------------
(* Devices and requests.                                                   *)

Active(d) == owner[d] # NoUser /\ d \notin revoked
Live(u) == {d \in Devices : owner[d] = u /\ d \notin revoked}

\* requireDevice: a client that has its token, which still resolves.
Authed(d) == Active(d) /\ token[d] = "kept"

Begins(r, w) == work[r] = Idle /\ work' = [work EXCEPT ![r] = w]
Goes(r, pc) == work' = [work EXCEPT ![r].pc = pc]
Ends(r) == work' = [work EXCEPT ![r] = Idle]
Request(pc, g, u) == [pc |-> pc, g |-> g, u |-> u, d |-> 0, live |-> g \notin expired]

\* createDevice: one INSERT ... SELECT, conditional on the plan's limit and
\* refused by the foreign key once the account is gone.  A fresh id: the next.
HasRoom(u) == u \in alive /\ Cardinality(Live(u)) < Limit[u]
IsFresh(d) == token[d] = "none" /\ \A c \in 1..(d - 1) : token[c] # "none"
Inserts(d, u) ==
    /\ IsFresh(d)
    /\ owner' = [owner EXCEPT ![d] = u]
    /\ token' = [token EXCEPT ![d] = "request"]
    /\ UNCHANGED revoked

-----------------------------------------------------------------------------
(* Pairing codes and invites.                                              *)

\* POST /api/devices/pair-code, POST /api/invites: authenticated first ...
AskOffer(r, d, o) ==
    /\ Authed(d) /\ offer[o] = "none" /\ "offer" \in Does[owner[d]]
    /\ Begins(r, Request("mint", o, owner[d]))
    /\ UNCHANGED <<alive, devices, offers, links, joiner, expired, grew>>

\* ... then, in one batch, the expired rows of the table go and the row is made.
SameTable(o) == IF o \in Codes THEN Codes ELSE Invites
Mint(r) ==
    LET w == work[r] IN
    /\ w.pc = "mint"
    /\ IF w.u \in alive /\ offer[w.g] = "none"
       THEN /\ offer' = [o \in Offers |->
                  IF o = w.g THEN "open"
                  ELSE IF o \in SameTable(w.g) \cap expired /\ offer[o] # "none" THEN "deleted"
                  ELSE offer[o]]
            /\ by' = [by EXCEPT ![w.g] = w.u]
       ELSE UNCHANGED offers
    /\ Ends(r)
    /\ UNCHANGED <<alive, devices, links, joiner, expired, grew>>

\* POST /api/devices/pair, /api/invites/:id/claim.  The UPDATE is the mutex.
AskRedeem(r, o) ==
    /\ offer[o] # "none"
    /\ Begins(r, Request("redeem", o, NoUser))
    /\ UNCHANGED <<alive, devices, offers, links, joiner, expired, grew>>

\* What if a used one could be redeemed until it expires?
MayRedeemUsed(o) == offer[o] \in {"open", "used"}
MayRedeem(o) == offer[o] = "open"

Redeem(r) ==
    LET w == work[r] IN
    /\ w.pc = "redeem"
    /\ IF MayRedeem(w.g) /\ w.live
       THEN /\ offer' = [offer EXCEPT ![w.g] = "used"]
            /\ work' = [work EXCEPT ![r].pc = "account", ![r].u = by[w.g]]
       ELSE Ends(r) /\ UNCHANGED offer
    /\ UNCHANGED <<alive, devices, by, links, joiner, expired, grew>>

\* getUserById.
ReadAccount(r) ==
    /\ work[r].pc = "account"
    /\ IF work[r].u \in alive THEN Goes(r, "enrol") ELSE Ends(r)
    /\ UNCHANGED <<alive, devices, offers, links, joiner, expired, grew>>

\* createDevice for any of the grants: with no room the request is refused
\* (403) and the grant stays spent.
Enrol(r) ==
    LET w == work[r] IN
    /\ w.pc = "enrol"
    /\ IF HasRoom(w.u)
       THEN \E d \in Devices :
              /\ Inserts(d, w.u)
              /\ work' = [work EXCEPT ![r].d = d,
                            ![r].pc = IF w.g \in Links THEN "park" ELSE "reply"]
              /\ grew' = [grew EXCEPT ![w.g] = @ \cup {d}]
       ELSE Ends(r) /\ UNCHANGED <<devices, grew>>
    /\ UNCHANGED <<alive, offers, links, joiner, expired>>

-----------------------------------------------------------------------------
(* Link requests.                                                          *)

\* expireLinkRequests: one batch that revokes what an approval enrolled and
\* nobody collected, and drops the rows, also that of a request which is between
\* the three statements of its approval and names no device yet.
\* (What if what they parked were left out?)
Stale == {l \in Links \cap expired : link[l] \notin {"none", "deleted"}}
ParkedOnNone == {}
Uncollected == {d \in Devices : \E l \in Stale : parked[l] = d}
DropsStale ==
    /\ revoked' = revoked \cup {d \in Uncollected : owner[d] # NoUser}
    /\ token' = [d \in Devices |-> IF d \in Uncollected THEN "void" ELSE token[d]]
    /\ link' = [l \in Links |-> IF l \in Stale THEN "deleted" ELSE link[l]]
    /\ parked' = [l \in Links |-> IF l \in Stale THEN 0 ELSE parked[l]]
    /\ UNCHANGED owner

Pending(a) == {l \in Links : Address[l] = a /\ link[l] = "pending"}

\* POST /api/link/request: the expired rows first, then a count, then the row.
AskLink(r, l) ==
    /\ link[l] = "none" /\ joiner[l] = "none"
    /\ Begins(r, Request("count", l, NoUser))
    /\ joiner' = [joiner EXCEPT ![l] = "asking"]
    /\ DropsStale
    /\ UNCHANGED <<alive, offers, expired, grew>>

Count(r) ==
    LET l == work[r].g IN
    /\ work[r].pc = "count"
    /\ IF Cardinality(Pending(Address[l])) < MaxPending
       THEN Goes(r, "insert") /\ UNCHANGED joiner
       ELSE Ends(r) /\ joiner' = [joiner EXCEPT ![l] = "failed"]
    /\ UNCHANGED <<alive, devices, offers, links, expired, grew>>

InsertLink(r) ==
    LET l == work[r].g IN
    /\ work[r].pc = "insert"
    /\ link' = [link EXCEPT ![l] = "pending"]
    /\ joiner' = [joiner EXCEPT ![l] = "waiting"]
    /\ Ends(r)
    /\ UNCHANGED <<alive, devices, offers, parked, expired, grew>>

\* approveLink: a client of the account reads the request (404 once expired,
\* 409 once approved), seals its vault key to the key it scanned and posts it.
AskApprove(r, d, l) ==
    /\ Authed(d) /\ link[l] = "pending" /\ l \notin expired /\ "approve" \in Does[owner[d]]
    /\ Begins(r, Request("approve", l, owner[d]))
    /\ UNCHANGED <<alive, devices, offers, links, joiner, expired, grew>>

MayApprove(l) == link[l] = "pending"

\* POST /api/link/:id/approve is three statements: the claim, createDevice
\* (Enrol), and what the joining device is to collect, kept on the row.
Approve(r) ==
    LET w == work[r] IN
    /\ w.pc = "approve"
    /\ IF MayApprove(w.g) /\ w.live
       THEN link' = [link EXCEPT ![w.g] = "approved"] /\ Goes(r, "enrol")
       ELSE Ends(r) /\ UNCHANGED link
    /\ UNCHANGED <<alive, devices, offers, parked, joiner, expired, grew>>

\* The last UPDATE names the row by its id alone: a row purged since is not
\* there to update, and the token goes nowhere.
Park(r) ==
    LET w == work[r] IN
    /\ w.pc = "park"
    /\ IF link[w.g] # "deleted"
       THEN /\ link' = [link EXCEPT ![w.g] = "ready"]
            /\ parked' = [parked EXCEPT ![w.g] = w.d]
            /\ token' = [token EXCEPT ![w.d] = IF @ = "request" THEN "row" ELSE @]
       ELSE /\ token' = [token EXCEPT ![w.d] = IF @ = "request" THEN "dropped" ELSE @]
            /\ UNCHANGED links
    /\ Ends(r)
    /\ UNCHANGED <<alive, owner, revoked, offers, joiner, expired, grew>>

\* awaitApproval polls until it is told no, or its own clock passes expiresAt.
AskCollect(r, l) ==
    /\ joiner[l] = "waiting" /\ l \notin expired
    /\ joiner' = [joiner EXCEPT ![l] = "asking"]
    /\ Begins(r, Request("collect", l, NoUser))
    /\ UNCHANGED <<alive, devices, offers, links, expired, grew>>

\* What if it looked at its clock only before it is approved?
JoinerExpiresPending(l) ==
    /\ joiner[l] = "waiting" /\ l \in expired /\ link[l] = "pending"
    /\ joiner' = [joiner EXCEPT ![l] = "failed"]
    /\ UNCHANGED <<alive, devices, offers, links, expired, work, grew>>

JoinerExpires(l) ==
    /\ joiner[l] = "waiting" /\ l \in expired
    /\ joiner' = [joiner EXCEPT ![l] = "failed"]
    /\ UNCHANGED <<alive, devices, offers, links, expired, work, grew>>

\* POST /api/link/:id/claim: the DELETE is the claim.
Collect(r) ==
    LET l == work[r].g IN
    /\ work[r].pc = "collect"
    /\ IF link[l] = "ready" /\ work[r].live
       THEN /\ link' = [link EXCEPT ![l] = "deleted"]
            /\ parked' = [parked EXCEPT ![l] = 0]
            /\ token' = [token EXCEPT ![parked[l]] = IF @ = "row" THEN "request" ELSE @]
            /\ work' = [work EXCEPT ![r].pc = "whose", ![r].d = parked[l]]
            /\ UNCHANGED joiner
       ELSE /\ joiner' = [joiner EXCEPT ![l] =
                  IF link[l] \in {"pending", "approved", "ready"} /\ work[r].live
                  THEN "waiting" ELSE "failed"]      \* 202, or 404
            /\ Ends(r)
            /\ UNCHANGED <<links, token>>
    /\ UNCHANGED <<alive, owner, revoked, offers, expired, grew>>

\* getUserOfDevice.
Whose(r) ==
    LET w == work[r] IN
    /\ w.pc = "whose"
    /\ IF owner[w.d] # NoUser
       THEN Goes(r, "reply") /\ UNCHANGED joiner
       ELSE Ends(r) /\ joiner' = [joiner EXCEPT ![w.g] = "failed"]
    /\ UNCHANGED <<alive, devices, offers, links, expired, grew>>

\* The answer arrives and the client keeps its token.
Reply(r) ==
    LET w == work[r] IN
    /\ w.pc = "reply"
    /\ token' = [token EXCEPT ![w.d] = IF @ = "request" THEN "kept" ELSE @]
    /\ joiner' = [l \in Links |-> IF l = w.g THEN "joined" ELSE joiner[l]]
    /\ Ends(r)
    /\ UNCHANGED <<alive, owner, revoked, offers, links, expired, grew>>

-----------------------------------------------------------------------------
(* Leaving, expiry and failure.                                             *)

\* DELETE /api/devices/:id by another device of the account, or /me by itself:
\* authenticated, then one batch.
AskRevoke(r, d, c) ==
    /\ Authed(d) /\ owner[c] = owner[d] /\ c \notin revoked /\ "revoke" \in Does[owner[d]]
    /\ Begins(r, [Request("revoke", NoGrant, owner[d]) EXCEPT !.d = c])
    /\ UNCHANGED <<alive, devices, offers, links, joiner, expired, grew>>

Revoke(r) ==
    LET w == work[r] IN
    /\ w.pc = "revoke"
    /\ revoked' = IF owner[w.d] = w.u THEN revoked \cup {w.d} ELSE revoked
    /\ Ends(r)
    /\ UNCHANGED <<alive, owner, token, offers, links, joiner, expired, grew>>

\* deleteAccount's batch: link requests by device, then the account, which
\* takes its devices, codes and invites with it.
DeleteAccount(u) ==
    LET gone == {d \in Devices : owner[d] = u}
        rows == {l \in Links : parked[l] \in gone}
        mine == {o \in Offers : by[o] = u} IN
    /\ u \in alive /\ "delete" \in Does[u]
    /\ alive' = alive \ {u}
    /\ owner' = [d \in Devices |-> IF d \in gone THEN NoUser ELSE owner[d]]
    /\ revoked' = revoked \ gone
    /\ token' = [d \in Devices |-> IF d \in gone THEN "void" ELSE token[d]]
    /\ link' = [l \in Links |-> IF l \in rows THEN "deleted" ELSE link[l]]
    /\ parked' = [l \in Links |-> IF l \in rows THEN 0 ELSE parked[l]]
    /\ offer' = [o \in Offers |-> IF o \in mine THEN "deleted" ELSE offer[o]]
    /\ by' = [o \in Offers |-> IF o \in mine THEN NoUser ELSE by[o]]
    /\ UNCHANGED <<joiner, expired, work, grew>>

\* expires_at passes.
Expire(g) ==
    /\ g \notin expired
    /\ IF g \in Links THEN link[g] # "none" ELSE offer[g] # "none"
    /\ expired' = expired \cup {g}
    /\ UNCHANGED <<alive, devices, offers, links, joiner, work, grew>>

\* The hourly cron.
Purge ==
    /\ DropsStale
    /\ offer' = [o \in Offers |-> IF o \in Invites \cap expired THEN "deleted" ELSE offer[o]]
    /\ UNCHANGED <<alive, by, joiner, expired, work, grew>>

\* A request fails half-way: the worker stops, the database refuses, the
\* answer is lost.  A client whose poll fails stops.
Fail(r) ==
    LET w == work[r] IN
    /\ Failures /\ w.pc # "idle"
    /\ token' = [d \in Devices |-> IF d = w.d /\ w.pc # "revoke" /\ token[d] = "request"
                                   THEN "lost" ELSE token[d]]
    /\ joiner' = [l \in Links |-> IF l = w.g /\ w.pc \in {"count", "insert", "collect", "whose", "reply"}
                                  THEN "failed" ELSE joiner[l]]
    /\ Ends(r)
    /\ UNCHANGED <<alive, owner, revoked, offers, links, expired, grew>>

-----------------------------------------------------------------------------
Init ==
    /\ alive = {First[d] : d \in DOMAIN First}
    /\ owner = [d \in Devices |-> IF d \in DOMAIN First THEN First[d] ELSE NoUser]
    /\ revoked = {}
    /\ token = [d \in Devices |-> IF d \in DOMAIN First THEN "kept" ELSE "none"]
    /\ offer = [o \in Offers |-> "none"]
    /\ by = [o \in Offers |-> NoUser]
    /\ link = [l \in Links |-> "none"]
    /\ parked = [l \in Links |-> 0]
    /\ expired = {}
    /\ joiner = [l \in Links |-> "none"]
    /\ work = [r \in Requests |-> Idle]
    /\ grew = [g \in Grants |-> {}]

Ask(r) ==
    \/ \E d \in Devices, o \in Offers : AskOffer(r, d, o)
    \/ \E o \in Offers : AskRedeem(r, o)
    \/ \E l \in Links : AskLink(r, l)
    \/ \E d \in Devices, l \in Links : AskApprove(r, d, l)
    \/ \E d, c \in Devices : AskRevoke(r, d, c)

Step(r) ==
    \/ Mint(r) \/ Redeem(r) \/ ReadAccount(r) \/ Enrol(r)
    \/ Count(r) \/ InsertLink(r) \/ Approve(r) \/ Park(r) \/ Collect(r) \/ Whose(r)
    \/ Revoke(r) \/ Reply(r)

Next ==
    \/ \E r \in Requests : Ask(r) \/ Step(r) \/ Fail(r) \/ \E l \in Links : AskCollect(r, l)
    \/ \E l \in Links : JoinerExpires(l)
    \/ \E u \in Users : DeleteAccount(u)
    \/ \E g \in Grants : Expire(g)
    \/ Purge

\* A request that is being handled ends, time passes, the cron runs, and a
\* joining client that waits looks at its clock.  Nobody has to ask anything.
Fairness ==
    /\ \A r \in Requests : WF_vars(Step(r))
    /\ \A l \in Links : WF_vars(Expire(l))
    /\ \A l \in Links : WF_vars(JoinerExpires(l)) /\ WF_vars(\E r \in Requests : AskCollect(r, l))
    /\ WF_vars(Purge)

Spec == Init /\ [][Next]_vars
FairSpec == Spec /\ Fairness

-----------------------------------------------------------------------------
Places == {"none", "request", "row", "kept", "lost", "dropped", "void"}

\* Every variable has its type; a row names a device and its token together,
\* and only once both are there.
TypeOK ==
    /\ alive \subseteq Users
    /\ owner \in [Devices -> Users \cup {NoUser}]
    /\ revoked \subseteq Devices
    /\ token \in [Devices -> Places]
    /\ offer \in [Offers -> {"none", "open", "used", "deleted"}]
    /\ by \in [Offers -> Users \cup {NoUser}]
    /\ link \in [Links -> {"none", "pending", "approved", "ready", "deleted"}]
    /\ parked \in [Links -> {0} \cup Devices]
    /\ \A l \in Links : parked[l] # 0 <=> link[l] = "ready"
    /\ expired \subseteq Grants
    /\ joiner \in [Links -> {"none", "asking", "waiting", "joined", "failed"}]
    /\ work \in [Requests -> Work]
    /\ grew \in [Grants -> SUBSET Devices]

\* No device is on the account's list that nobody can be: its token is kept by
\* a client, parked for one to collect, on its way in a request, or was lost
\* with one that failed, or by the one order of steps the code has no remedy
\* for: the cron dropped an expired request before its approval had parked the
\* token there (link.ts:190; purge.ts:22 says "no device outlives the only row
\* that knew its token", which that order breaks).
Accounted ==
    \A d \in Devices : Active(d) =>
        \/ token[d] \in {"kept", "lost"}
        \/ token[d] = "row" /\ \E l \in Links : link[l] = "ready" /\ parked[l] = d
        \/ token[d] = "request" /\ \E r \in Requests : work[r].d = d
        \/ token[d] = "dropped" /\ \E l \in Links \cap expired : link[l] = "deleted" /\ d \in grew[l]

\* Each account's devices, as a caller of the API sees them, are those of
\* Membership: one device to a grant, never more than the plan has room for.
Members == INSTANCE Membership WITH
    members <- [u \in Users |-> Live(u)], used <- grew,
    Start <- [u \in Users |-> {d \in DOMAIN First : First[d] = u}]
JoinsAreMembership == Members!Spec

\* A client that waits for an approval is told, or its request expires; and a
\* token parked for it, which the row holds in the clear, does not stay there.
JoinerSettles ==
    \A l \in Links :
        /\ joiner[l] = "waiting" ~> joiner[l] \in {"joined", "failed"}
        /\ link[l] = "ready" ~> link[l] = "deleted"
=============================================================================
