---------------------------- MODULE EnrolProofs ----------------------------
(***************************************************************************)
(* Proofs about Enrol, for any accounts, grants, links, plans and number   *)
(* of requests at once: a device's token is accounted for, and enrolment   *)
(* by whatever grant is Membership.                                        *)
(*                                                                         *)
(* What makes a grant admit one device is that the request that spent it   *)
(* is the only one between its claim and createDevice (GrantsOnce); what   *)
(* accounts for a token is that the request that has it ends by handing it *)
(* on (Held).                                                              *)
(***************************************************************************)
EXTENDS Enrol, FiniteSetTheorems, TLAPS

-----------------------------------------------------------------------------
(* The parts of the invariant.                                             *)

\* devices: a row has a token, a revoked device a row, and a void token no
\* device that is on a list; what no request made yet, no grant admitted.
DevicesOK ==
    /\ alive \subseteq Users /\ expired \subseteq Grants
    /\ owner \in [Devices -> Users \cup {NoUser}]
    /\ revoked \subseteq Devices
    /\ token \in [Devices -> Places]
    /\ grew \in [Grants -> SUBSET Devices]
    /\ \A d \in Devices :
        /\ token[d] = "none" => owner[d] = NoUser /\ \A g \in Grants : d \notin grew[g]
        /\ d \in revoked => owner[d] # NoUser
        /\ token[d] = "void" => ~Active(d)

OffersOK ==
    /\ offer \in [Offers -> {"none", "open", "used", "deleted"}]
    /\ by \in [Offers -> Users \cup {NoUser}]

\* link_requests: a client that waits for one made it.
LinksOK ==
    /\ link \in [Links -> {"none", "pending", "approved", "ready", "deleted"}]
    /\ parked \in [Links -> {0} \cup Devices]
    /\ joiner \in [Links -> {"none", "asking", "waiting", "joined", "failed"}]
    /\ \A l \in Links :
        /\ parked[l] # 0 <=> link[l] = "ready"
        /\ joiner[l] \in {"waiting", "joined"} => link[l] # "none"

\* Requests: each has what its next statement names.
Fits(w) ==
    /\ w \in Work
    /\ w.pc \in {"mint", "redeem", "account"} => w.g \in Offers
    /\ w.pc \in {"enrol", "reply"} => w.g \in Grants
    /\ w.pc \in {"count", "insert", "approve", "park", "collect", "whose"} => w.g \in Links
    /\ w.pc \in {"mint", "enrol", "approve", "revoke"} => w.u \in Users
    /\ w.pc \in {"park", "reply", "whose", "revoke"} => w.d \in Devices
    /\ w.pc = "idle" => w.g = NoGrant
WorkOK == work \in [Requests -> Work] /\ \A r \in Requests : Fits(work[r])

\* A link request is made by one request of its client, and until then no
\* other has to do with it; one approval at most is between its statements, and
\* the row then waits for it, unless it expired and the cron has dropped it.
Asking(r, l) == work[r].g = l /\ work[r].pc \in {"count", "insert"}
Linking(r, l) == work[r].g = l /\ work[r].pc \in {"enrol", "park"}
Claimed(l) == link[l] = "approved" \/ (link[l] = "deleted" /\ l \in expired)
AskedOnce ==
    \A l \in Links :
        /\ \A r \in Requests :
              /\ Asking(r, l) => link[l] = "none" /\ joiner[l] = "asking"
              /\ work[r].g = l /\ link[l] = "none" => Asking(r, l)
              /\ Linking(r, l) => Claimed(l)
        /\ \A r, s \in Requests : /\ Asking(r, l) /\ Asking(s, l) => r = s
                                  /\ Linking(r, l) /\ Linking(s, l) => r = s

\* A grant that admitted a device, or is about to, is spent, and one request
\* at most is about to; what is about to be parked, its grant has admitted.
Spent(g) == IF g \in Offers THEN offer[g] \in {"used", "deleted"}
            ELSE link[g] \in {"approved", "ready", "deleted"}
Admitting(r, g) == work[r].g = g /\ work[r].pc \in {"account", "enrol"}
Parking(r, g) == work[r].g = g /\ work[r].pc = "park"
GrantsOnce ==
    \A g \in Grants :
        /\ grew[g] # {} => Spent(g)
        /\ \A r \in Requests : Admitting(r, g) => Spent(g) /\ grew[g] = {}
        /\ \A r, s \in Requests : Admitting(r, g) /\ Admitting(s, g) => r = s
        /\ \A r \in Requests : Parking(r, g) => work[r].d \in grew[g]

\* Accounted, with the requests that hand a token on.
Carrying == {"park", "whose", "reply"}
Carries(r, d) == work[r].d = d /\ work[r].pc \in Carrying
Cut(l, d) == l \in expired /\ link[l] = "deleted" /\ d \in grew[l]
HeldBy(d) ==
    \/ token[d] \in {"kept", "lost"}
    \/ token[d] = "row" /\ \E l \in Links : parked[l] = d
    \/ token[d] = "request" /\ \E r \in Requests : Carries(r, d)
    \/ token[d] = "dropped" /\ \E l \in Links : Cut(l, d)
Held == \A d \in Devices : Active(d) => HeldBy(d)

IInv == DevicesOK /\ OffersOK /\ LinksOK /\ WorkOK /\ AskedOnce /\ GrantsOnce /\ Held

-----------------------------------------------------------------------------
(* Requests, and what each part stands by.                                 *)

LEMMA GrantsApart ==
    /\ \A l \in Links : l \in Grants /\ l \notin Offers
    /\ \A o \in Offers : o \in Grants /\ o \notin Links
    /\ NoGrant \notin Links /\ NoGrant \notin Offers
    /\ \A g \in Grants : g \in Offers \/ g \in Links
BY GrantAssumption DEF Grants, Offers

LEMMA DevicesCount == Devices \subseteq Nat /\ 0 \notin Devices
BY BoundAssumption DEF Devices

Pcs == {"idle", "mint", "redeem", "account", "enrol", "reply", "count", "insert", "approve",
        "park", "collect", "whose", "revoke"}

LEMMA IdleFits == /\ Fits(Idle) /\ Idle \in Work /\ Idle.pc = "idle" /\ Idle.g = NoGrant
                  /\ Idle.u = NoUser /\ Idle.d = 0
<1>1. Idle \in Work  BY DEF Idle, Work
<1>2. Idle.pc = "idle" /\ Idle.g = NoGrant /\ Idle.u = NoUser /\ Idle.d = 0  BY DEF Idle
<1> QED BY <1>1, <1>2 DEF Fits

LEMMA RequestFields ==
    ASSUME NEW pc \in Pcs, NEW g \in Grants \cup {NoGrant}, NEW u \in Users \cup {NoUser}
    PROVE  /\ Request(pc, g, u) \in Work
           /\ Request(pc, g, u).pc = pc /\ Request(pc, g, u).g = g
           /\ Request(pc, g, u).u = u /\ Request(pc, g, u).d = 0
<1>1. (g \notin expired) \in BOOLEAN  OBVIOUS
<1>2. Request(pc, g, u) \in Work  BY <1>1 DEF Request, Work, Pcs
<1>3. /\ Request(pc, g, u).pc = pc /\ Request(pc, g, u).g = g
      /\ Request(pc, g, u).u = u /\ Request(pc, g, u).d = 0
  BY DEF Request
<1> QED BY <1>2, <1>3

\* A request that goes on, the others as they were.
LEMMA WStands ==
    ASSUME WorkOK, NEW r \in Requests, NEW x, Fits(x), work' = [work EXCEPT ![r] = x]
    PROVE  WorkOK'
<1>1. work' \in [Requests -> Work]  BY DEF WorkOK, Fits
<1>2. \A q \in Requests : Fits(work[q])'
  <2> SUFFICES ASSUME NEW q \in Requests PROVE Fits(work[q])'  OBVIOUS
  <2>1. Fits(work'[q])
    <3>1. CASE q = r  BY <3>1 DEF WorkOK
    <3>2. CASE q # r  BY <3>2 DEF WorkOK
    <3> QED BY <3>1, <3>2
  <2> QED BY <2>1 DEF Fits
<1> QED BY <1>1, <1>2 DEF WorkOK

\* What a request may become that neither makes a link request nor approves one.
May(r, x) ==
    /\ Fits(x) /\ x.pc \notin {"count", "insert", "park"}
    /\ x.g \in Links => link[x.g] # "none"
    /\ x.g \in Links /\ x.pc = "enrol" => Linking(r, x.g)
    /\ x.pc \in {"account", "enrol"} => Admitting(r, x.g)

LEMMA IdleMay == ASSUME NEW r PROVE May(r, Idle)
BY IdleFits, GrantsApart DEF May

LEMMA AStands ==
    ASSUME WorkOK, AskedOnce, NEW r \in Requests, NEW x, work' = [work EXCEPT ![r] = x],
           x.pc \notin {"count", "insert"},
           x.g \in Links => link'[x.g] # "none",
           x.g \in Links /\ x.pc \in {"enrol", "park"} =>
              Claimed(x.g)' /\ \A q \in Requests : Linking(q, x.g) => q = r,
           \A l \in Links : /\ link'[l] = "none" => link[l] = "none"
                            /\ link[l] = "none" => link'[l] = "none" \/ l = work[r].g,
           \A q \in Requests, l \in Links : q # r /\ Linking(q, l) =>
              link'[l] = link[l] \/ (link'[l] = "deleted" /\ l \in expired),
           \A l \in Links : joiner'[l] = joiner[l] \/ l = work[r].g \/ joiner[l] = "waiting",
           expired' = expired
    PROVE  AskedOnce'
<1>1. \A q \in Requests : q # r => work'[q] = work[q]  BY DEF WorkOK
<1>2. work'[r] = x  BY DEF WorkOK
<1>3. \A q \in Requests, l \in Links : Asking(q, l)' => Asking(q, l) /\ q # r
  BY <1>1, <1>2 DEF Asking
<1>4. \A q \in Requests, l \in Links :
        /\ q # r => (Linking(q, l)' <=> Linking(q, l))
        /\ Linking(r, l)' => l = x.g /\ x.pc \in {"enrol", "park"}
  BY <1>1, <1>2 DEF Linking
<1> SUFFICES ASSUME NEW l \in Links
             PROVE  /\ \A q \in Requests :
                         /\ Asking(q, l)' => link'[l] = "none" /\ joiner'[l] = "asking"
                         /\ work'[q].g = l /\ link'[l] = "none" => Asking(q, l)'
                         /\ Linking(q, l)' => Claimed(l)'
                    /\ \A q, s \in Requests : /\ Asking(q, l)' /\ Asking(s, l)' => q = s
                                              /\ Linking(q, l)' /\ Linking(s, l)' => q = s
  BY DEF AskedOnce, Claimed
<1>5. ASSUME NEW q \in Requests
      PROVE  /\ Asking(q, l)' => link'[l] = "none" /\ joiner'[l] = "asking"
             /\ work'[q].g = l /\ link'[l] = "none" => Asking(q, l)'
             /\ Linking(q, l)' => Claimed(l)'
  <2>1. CASE q = r  BY <1>2, <1>3, <1>4, <2>1
  <2>2. CASE q # r
    <3>1. Asking(q, l)' <=> Asking(q, l)  BY <1>1, <2>2 DEF Asking
    <3>2. Asking(q, l) => l # work[r].g /\ link[l] = "none" /\ joiner[l] = "asking"
      BY <2>2 DEF AskedOnce
    <3>3. Linking(q, l)' => Claimed(l)'
      BY <1>4, <2>2 DEF AskedOnce, Claimed
    <3>4. work'[q].g = l /\ link'[l] = "none" => Asking(q, l)'
      BY <1>1, <2>2, <3>1 DEF AskedOnce
    <3> QED BY <3>1, <3>2, <3>3, <3>4
  <2> QED BY <2>1, <2>2
<1>6. \A q, s \in Requests : Asking(q, l)' /\ Asking(s, l)' => q = s  BY <1>3 DEF AskedOnce
<1>7. \A q, s \in Requests : Linking(q, l)' /\ Linking(s, l)' => q = s  BY <1>4 DEF AskedOnce
<1> QED BY <1>5, <1>6, <1>7

LEMMA GStands ==
    ASSUME WorkOK, GrantsOnce, NEW r \in Requests, NEW x, work' = [work EXCEPT ![r] = x],
           x.pc \in {"account", "enrol"} => Admitting(r, x.g), x.pc # "park",
           \A g \in Grants : (Spent(g) => Spent(g)') /\ grew'[g] = grew[g]
    PROVE  GrantsOnce'
<1>1. \A q \in Requests, g \in Grants :
        /\ Admitting(q, g)' => Admitting(q, g)
        /\ Parking(q, g)' => Parking(q, g) /\ work'[q].d = work[q].d
  BY DEF Admitting, Parking, WorkOK
<1>2. \A g \in Grants :
        /\ grew'[g] # {} => Spent(g)'
        /\ \A q \in Requests : Admitting(q, g)' => Spent(g)' /\ grew'[g] = {}
        /\ \A q, s \in Requests : Admitting(q, g)' /\ Admitting(s, g)' => q = s
        /\ \A q \in Requests : Parking(q, g)' => work'[q].d \in grew'[g]
  BY <1>1 DEF GrantsOnce
<1> QED BY <1>2 DEF GrantsOnce

LEMMA HStands ==
    ASSUME WorkOK, Held, NEW r \in Requests, NEW x, work' = [work EXCEPT ![r] = x],
           work[r].pc \in Carrying => (x.pc \in Carrying /\ x.d = work[r].d)
                                      \/ owner[work[r].d] = NoUser,
           \A d \in Devices : Active(d)' =>
              /\ Active(d) /\ token'[d] = token[d]
              /\ \A l \in Links : parked[l] = d => parked'[l] = d,
           \A l \in Links, d \in Devices : Cut(l, d) => Cut(l, d)'
    PROVE  Held'
<1>1. \A q \in Requests, d \in Devices : Carries(q, d) /\ Active(d) => Carries(q, d)'
  BY DEF Carries, WorkOK, Active
<1>2. \A d \in Devices : Active(d)' /\ HeldBy(d) => HeldBy(d)'  BY <1>1 DEF HeldBy
<1> QED BY <1>2 DEF Held

\* Most statements only read: the request goes on, or ends.
LEMMA Quiet ==
    ASSUME IInv, NEW r \in Requests, NEW x, May(r, x), work' = [work EXCEPT ![r] = x],
           work[r].pc \in Carrying => x.pc \in Carrying /\ x.d = work[r].d,
           UNCHANGED <<alive, devices, offers, links, joiner, expired, grew>>
    PROVE  IInv'
<1>1. DevicesOK'  BY DEF IInv, DevicesOK, devices, Active
<1>2. OffersOK' /\ LinksOK'  BY DEF IInv, OffersOK, LinksOK, offers, links
<1>3. WorkOK'  BY WStands DEF IInv, May
<1>4. AskedOnce'
  <2>1. x.g \in Links /\ x.pc \in {"enrol", "park"} =>
          Claimed(x.g)' /\ \A q \in Requests : Linking(q, x.g) => q = r
    BY DEF May, IInv, AskedOnce, links, Claimed
  <2> QED BY <2>1, AStands DEF IInv, May, links
<1>5. GrantsOnce'  BY GStands DEF IInv, May, Spent, offers, links
<1>6. Held'  BY HStands DEF IInv, devices, links, Active, Cut
<1> QED BY <1>1, <1>2, <1>3, <1>4, <1>5, <1>6 DEF IInv

LEMMA EndKeeps ==
    ASSUME IInv, NEW r \in Requests, Ends(r), work[r].pc \notin Carrying,
           UNCHANGED <<alive, devices, offers, links, joiner, expired, grew>>
    PROVE  IInv'
BY IdleMay, Quiet DEF Ends

LEMMA WorkFits == ASSUME IInv, NEW r \in Requests PROVE work[r] \in Work /\ Fits(work[r])
BY DEF IInv, WorkOK, Fits

Same(w, x) == x.g = w.g /\ x.u = w.u /\ x.d = w.d

LEMMA Moved ==
    ASSUME NEW w \in Work, NEW pc \in Pcs, NEW x, x = [w EXCEPT !.pc = pc]
    PROVE  x \in Work /\ x.pc = pc /\ Same(w, x)
BY DEF Work, Pcs, Same

-----------------------------------------------------------------------------
(* Requests that begin, and statements that only read.                     *)

LEMMA AskOfferKeeps ==
    ASSUME IInv, NEW r \in Requests, NEW d \in Devices, NEW o \in Offers, AskOffer(r, d, o)
    PROVE  IInv'
<1> PICK x : x = Request("mint", o, owner[d])  OBVIOUS
<1>1. owner[d] \in Users /\ o \in Grants /\ o \notin Links
  BY GrantsApart DEF AskOffer, Authed, Active, IInv, DevicesOK
<1>2. x \in Work /\ x.pc = "mint" /\ x.g = o /\ x.u = owner[d] /\ x.d = 0
  BY <1>1, RequestFields DEF Pcs
<1>3. May(r, x)  BY <1>1, <1>2 DEF May, Fits
<1>4. work[r].pc \notin Carrying  BY IdleFits DEF AskOffer, Begins, Carrying
<1> QED BY <1>3, <1>4, Quiet DEF AskOffer, Begins

LEMMA AskRedeemKeeps ==
    ASSUME IInv, NEW r \in Requests, NEW o \in Offers, AskRedeem(r, o)
    PROVE  IInv'
<1> PICK x : x = Request("redeem", o, NoUser)  OBVIOUS
<1>1. o \in Grants /\ o \notin Links  BY GrantsApart
<1>2. x \in Work /\ x.pc = "redeem" /\ x.g = o /\ x.u = NoUser /\ x.d = 0
  BY <1>1, RequestFields DEF Pcs
<1>3. May(r, x)  BY <1>1, <1>2 DEF May, Fits
<1>4. work[r].pc \notin Carrying  BY IdleFits DEF AskRedeem, Begins, Carrying
<1> QED BY <1>3, <1>4, Quiet DEF AskRedeem, Begins

LEMMA AskApproveKeeps ==
    ASSUME IInv, NEW r \in Requests, NEW d \in Devices, NEW l \in Links, AskApprove(r, d, l)
    PROVE  IInv'
<1> PICK x : x = Request("approve", l, owner[d])  OBVIOUS
<1>1. owner[d] \in Users /\ l \in Grants /\ link[l] = "pending"
  BY GrantsApart DEF AskApprove, Authed, Active, IInv, DevicesOK
<1>2. x \in Work /\ x.pc = "approve" /\ x.g = l /\ x.u = owner[d] /\ x.d = 0
  BY <1>1, RequestFields DEF Pcs
<1>3. May(r, x)  BY <1>1, <1>2 DEF May, Fits
<1>4. work[r].pc \notin Carrying  BY IdleFits DEF AskApprove, Begins, Carrying
<1> QED BY <1>3, <1>4, Quiet DEF AskApprove, Begins

LEMMA AskRevokeKeeps ==
    ASSUME IInv, NEW r \in Requests, NEW d \in Devices, NEW c \in Devices, AskRevoke(r, d, c)
    PROVE  IInv'
<1> PICK y, x : y = Request("revoke", NoGrant, owner[d]) /\ x = [y EXCEPT !.d = c]  OBVIOUS
<1>1. owner[d] \in Users  BY DEF AskRevoke, Authed, Active, IInv, DevicesOK
<1>2. y \in Work /\ y.pc = "revoke" /\ y.g = NoGrant /\ y.u = owner[d] /\ y.d = 0
  BY <1>1, RequestFields DEF Pcs
<1>3. x \in Work /\ x.pc = "revoke" /\ x.g = NoGrant /\ x.u = owner[d] /\ x.d = c
  BY <1>2 DEF Work
<1>4. May(r, x)  BY <1>1, <1>3, GrantsApart DEF May, Fits
<1>5. work[r].pc \notin Carrying  BY IdleFits DEF AskRevoke, Begins, Carrying
<1> QED BY <1>4, <1>5, Quiet DEF AskRevoke, Begins

LEMMA ReadAccountKeeps == ASSUME IInv, NEW r \in Requests, ReadAccount(r) PROVE IInv'
<1> PICK w : w = work[r]  OBVIOUS
<1>1. w \in Work /\ Fits(w) /\ w.pc = "account"  BY WorkFits DEF ReadAccount
<1>2. CASE Ends(r)  BY <1>1, <1>2, EndKeeps DEF ReadAccount, Carrying
<1>3. CASE w.u \in alive /\ Goes(r, "enrol")
  <2> PICK x : x = [w EXCEPT !.pc = "enrol"]  OBVIOUS
  <2>1. x \in Work /\ x.pc = "enrol" /\ Same(w, x)  BY <1>1, Moved DEF Pcs
  <2>2. work' = [work EXCEPT ![r] = x]  BY <1>3 DEF Goes
  <2>3. May(r, x)
    BY <1>1, <1>3, <2>1, GrantsApart DEF May, Fits, Same, Admitting, IInv, DevicesOK
  <2> QED BY <1>1, <2>2, <2>3, Quiet DEF ReadAccount, Carrying
<1> QED BY <1>2, <1>3 DEF ReadAccount

-----------------------------------------------------------------------------
(* Pairing codes and invites.                                              *)

\* A step that changes offers, each only on: from none, to spent at last.
LEMMA OfferStep ==
    ASSUME IInv, NEW r \in Requests, NEW x, Fits(x), work' = [work EXCEPT ![r] = x],
           x.pc \notin {"count", "insert", "enrol", "park"},
           x.g \notin Links, work[r].pc \notin Carrying,
           OffersOK', GrantsOnce', UNCHANGED <<alive, devices, links, joiner, expired, grew>>
    PROVE  IInv'
<1>1. DevicesOK' /\ LinksOK'  BY DEF IInv, DevicesOK, LinksOK, devices, links, Active
<1>2. WorkOK'  BY WStands DEF IInv
<1>3. AskedOnce'
  <2>1. \A q \in Requests : work'[q] = IF q = r THEN x ELSE work[q]  BY DEF IInv, WorkOK
  <2>2. \A q \in Requests, l \in Links :
          /\ Asking(q, l)' <=> Asking(q, l) /\ q # r
          /\ work'[q].g = l => q # r /\ work[q].g = l /\ work'[q] = work[q]
    BY <2>1 DEF Asking
  <2>3. \A l \in Links :
          /\ \A q \in Requests :
              /\ Asking(q, l)' => link'[l] = "none" /\ joiner'[l] = "asking"
              /\ work'[q].g = l /\ link'[l] = "none" => Asking(q, l)'
              /\ Linking(q, l)' => Claimed(l)'
          /\ \A q, s \in Requests : /\ Asking(q, l)' /\ Asking(s, l)' => q = s
                                    /\ Linking(q, l)' /\ Linking(s, l)' => q = s
    BY <2>2 DEF IInv, AskedOnce, Linking, links, Claimed
  <2> QED BY <2>3 DEF AskedOnce, Claimed
<1>4. Held'  BY HStands DEF IInv, devices, links, Active, Cut
<1> QED BY <1>1, <1>2, <1>3, <1>4 DEF IInv

LEMMA MintKeeps == ASSUME IInv, NEW r \in Requests, Mint(r) PROVE IInv'
<1> PICK w : w = work[r]  OBVIOUS
<1>1. w \in Work /\ Fits(w) /\ w.pc = "mint" /\ w.g \in Offers /\ w.u \in Users
  BY WorkFits DEF Mint, Fits
<1>2. UNCHANGED <<alive, devices, links, joiner, expired, grew>> /\ work' = [work EXCEPT ![r] = Idle]
  BY DEF Mint, Ends
<1>3. CASE UNCHANGED offers  BY <1>1, <1>2, <1>3, EndKeeps DEF Ends, Carrying
<1>4. CASE ~UNCHANGED offers
  <2>1. /\ offer[w.g] = "none"
        /\ offer' = [o \in Offers |->
              IF o = w.g THEN "open"
              ELSE IF o \in SameTable(w.g) \cap expired /\ offer[o] # "none" THEN "deleted"
              ELSE offer[o]]
        /\ by' = [by EXCEPT ![w.g] = w.u]
    BY <1>4 DEF Mint
  <2>2. OffersOK'  BY <1>1, <2>1 DEF IInv, OffersOK
  <2>3. \A g \in Grants : Spent(g) => Spent(g)'
    BY <1>2, <2>1 DEF Spent, links
  <2>4. GrantsOnce'  BY <1>2, <2>3, GStands, IdleFits DEF IInv
  <2> QED BY <1>1, <1>2, <2>2, <2>4, OfferStep, IdleFits, GrantsApart DEF Carrying
<1> QED BY <1>3, <1>4

\* The UPDATE that spends the offer is the mutex: nobody else is admitted by it.
LEMMA RedeemKeeps == ASSUME IInv, NEW r \in Requests, Redeem(r) PROVE IInv'
<1> PICK w, o : w = work[r] /\ o = w.g  OBVIOUS
<1>1. w \in Work /\ Fits(w) /\ w.pc = "redeem" /\ o \in Offers /\ o \in Grants /\ o \notin Links
  BY WorkFits, GrantsApart DEF Redeem, Fits
<1>2. CASE Ends(r) /\ UNCHANGED offer
  BY <1>1, <1>2, EndKeeps DEF Redeem, offers, Carrying
<1>3. CASE ~(Ends(r) /\ UNCHANGED offer)
  <2> PICK x : x = [w EXCEPT !.pc = "account", !.u = by[o]]  OBVIOUS
  <2>1. /\ offer[o] = "open" /\ offer' = [offer EXCEPT ![o] = "used"]
        /\ UNCHANGED <<alive, devices, by, links, joiner, expired, grew>>
    BY <1>3 DEF Redeem, MayRedeem
  <2>2. work' = [work EXCEPT ![r].pc = "account", ![r].u = by[o]]  BY <1>3 DEF Redeem
  <2>3. work' = [work EXCEPT ![r] = x]  BY <2>2 DEF IInv, WorkOK
  <2>4. x \in Work /\ x.pc = "account" /\ x.g = o
    BY <1>1 DEF Work, IInv, OffersOK
  <2>5. Fits(x)  BY <1>1, <2>4 DEF Fits
  <2>6. OffersOK'  BY <2>1 DEF IInv, OffersOK
  <2>7. GrantsOnce'
    <3>1. grew[o] = {} /\ \A q \in Requests : ~Admitting(q, o)
      BY <1>1, <2>1 DEF IInv, GrantsOnce, Spent
    <3>2. \A g \in Grants : g # o => (Spent(g)' <=> Spent(g))
      BY <2>1 DEF Spent, links, IInv, OffersOK
    <3>3. Spent(o)'  BY <1>1, <2>1 DEF Spent, IInv, OffersOK
    <3>4. \A q \in Requests, g \in Grants :
            Admitting(q, g)' => (q = r /\ g = o) \/ (Admitting(q, g) /\ g # o)
      BY <2>3, <2>4, <3>1 DEF Admitting, IInv, WorkOK
    <3>6. \A q \in Requests, g \in Grants :
            Parking(q, g)' => Parking(q, g) /\ work'[q].d = work[q].d
      BY <2>3, <2>4 DEF Parking, IInv, WorkOK
    <3>5. \A g \in Grants :
            /\ grew'[g] # {} => Spent(g)'
            /\ \A q \in Requests : Admitting(q, g)' => Spent(g)' /\ grew'[g] = {}
            /\ \A q, s \in Requests : Admitting(q, g)' /\ Admitting(s, g)' => q = s
            /\ \A q \in Requests : Parking(q, g)' => work'[q].d \in grew'[g]
      BY <2>1, <3>1, <3>2, <3>3, <3>4, <3>6 DEF IInv, GrantsOnce
    <3> QED BY <3>5 DEF GrantsOnce
  <2> QED BY <1>1, <2>1, <2>3, <2>4, <2>5, <2>6, <2>7, OfferStep DEF Carrying
<1> QED BY <1>2, <1>3

\* createDevice: a device that no account had, by a grant that admitted none.
LEMMA EnrolKeeps == ASSUME IInv, NEW r \in Requests, Enrol(r) PROVE IInv'
<1> PICK w, g : w = work[r] /\ g = w.g  OBVIOUS
<1>1. w \in Work /\ Fits(w) /\ w.pc = "enrol" /\ g \in Grants /\ w.u \in Users
  BY WorkFits DEF Enrol, Fits
<1>2. CASE Ends(r) /\ UNCHANGED <<devices, grew>>
  BY <1>1, <1>2, EndKeeps DEF Enrol, Carrying
<1>3. CASE ~(Ends(r) /\ UNCHANGED <<devices, grew>>)
  <2>1. PICK d \in Devices :
          /\ Inserts(d, w.u)
          /\ work' = [work EXCEPT ![r].d = d, ![r].pc = IF w.g \in Links THEN "park" ELSE "reply"]
          /\ grew' = [grew EXCEPT ![w.g] = @ \cup {d}]
    BY <1>3 DEF Enrol
  <2>2. UNCHANGED <<alive, offers, links, joiner, expired>>  BY DEF Enrol
  <2>3. PICK pc \in {"park", "reply"} :
          pc = (IF w.g \in Links THEN "park" ELSE "reply")
    OBVIOUS
  <2>4. PICK x : x = [w EXCEPT !.d = d, !.pc = pc]  OBVIOUS
  <2>5. x \in Work /\ x.pc = pc /\ x.g = g /\ x.u = w.u /\ x.d = d
    BY <1>1, <2>4 DEF Work
  <2>6. work' = [work EXCEPT ![r] = x]  BY <2>1, <2>3, <2>4 DEF IInv, WorkOK
  <2>7. Fits(x) /\ (x.g \in Links <=> pc = "park")
    BY <1>1, <2>3, <2>5 DEF Fits
  <2>8. /\ token[d] = "none" /\ owner' = [owner EXCEPT ![d] = w.u]
        /\ token' = [token EXCEPT ![d] = "request"] /\ UNCHANGED revoked
    BY <2>1 DEF Inserts, IsFresh
  <2>9. DevicesOK'
    <3>1. \A e \in Devices : e # d => owner'[e] = owner[e] /\ token'[e] = token[e]
      BY <2>8 DEF IInv, DevicesOK
    <3>2. token'[d] = "request" /\ owner'[d] = w.u  BY <2>8 DEF IInv, DevicesOK
    <3>3. grew' \in [Grants -> SUBSET Devices]
          /\ \A h \in Grants : grew'[h] \subseteq grew[h] \cup {d}
      BY <1>1, <2>1 DEF IInv, DevicesOK
    <3>4. owner' \in [Devices -> Users \cup {NoUser}] /\ token' \in [Devices -> Places]
      BY <1>1, <2>8 DEF IInv, DevicesOK, Places
    <3>5. ASSUME NEW e \in Devices
          PROVE  /\ token'[e] = "none" => owner'[e] = NoUser /\ \A h \in Grants : e \notin grew'[h]
                 /\ e \in revoked' => owner'[e] # NoUser
                 /\ token'[e] = "void" => ~Active(e)'
      <4>1. CASE e = d  BY <1>1, <3>2, <4>1, GrantAssumption
      <4>2. CASE e # d  BY <2>8, <3>1, <3>3, <4>2 DEF IInv, DevicesOK, Active
      <4> QED BY <4>1, <4>2
    <3> QED BY <2>2, <2>8, <3>3, <3>4, <3>5 DEF IInv, DevicesOK
  <2>10. OffersOK' /\ LinksOK'  BY <2>2 DEF IInv, OffersOK, LinksOK, offers, links
  <2>11. WorkOK'  BY <2>6, <2>7, WStands DEF IInv
  <2>12. AskedOnce'
    <3>1. g \in Links => Linking(r, g)  BY <1>1 DEF Linking
    <3>2. g \in Links => Claimed(g) /\ \A q \in Requests : Linking(q, g) => q = r
      BY <3>1 DEF IInv, AskedOnce
    <3>3. Claimed(g) => Claimed(g)' /\ link[g] # "none"
      BY <2>2 DEF Claimed, links
    <3> QED BY <2>2, <2>5, <2>6, <3>2, <3>3, AStands DEF IInv, links
  <2>13. GrantsOnce'
    <3>1. Admitting(r, g)  BY <1>1 DEF Admitting
    <3>2. Spent(g) /\ \A q \in Requests : Admitting(q, g) => q = r
      BY <1>1, <3>1 DEF IInv, GrantsOnce
    <3>3. \A q \in Requests, h \in Grants : Admitting(q, h)' => Admitting(q, h) /\ q # r
      BY <2>5, <2>6 DEF Admitting, IInv, WorkOK
    <3>4. \A h \in Grants : h # g => grew'[h] = grew[h]  BY <2>1 DEF IInv, DevicesOK
    <3>5. \A h \in Grants : Spent(h)' <=> Spent(h)  BY <2>2 DEF Spent, offers, links
    <3>7. \A q \in Requests, h \in Grants : Parking(q, h)' =>
            \/ h = g /\ work'[q].d = d
            \/ Parking(q, h) /\ work'[q].d = work[q].d
      BY <2>5, <2>6 DEF Parking, IInv, WorkOK
    <3>8. d \in grew'[g] /\ \A h \in Grants : grew[h] \subseteq grew'[h]
      BY <1>1, <2>1 DEF IInv, DevicesOK
    <3>6. \A h \in Grants :
            /\ grew'[h] # {} => Spent(h)'
            /\ \A q \in Requests : Admitting(q, h)' => Spent(h)' /\ grew'[h] = {}
            /\ \A q, s \in Requests : Admitting(q, h)' /\ Admitting(s, h)' => q = s
            /\ \A q \in Requests : Parking(q, h)' => work'[q].d \in grew'[h]
      BY <3>2, <3>3, <3>4, <3>5, <3>7, <3>8 DEF IInv, GrantsOnce
    <3> QED BY <3>6 DEF GrantsOnce
  <2>14. Held'
    <3> SUFFICES ASSUME NEW e \in Devices, Active(e)' PROVE HeldBy(e)'
      BY DEF Held
    <3>1. CASE e = d
      <4>1. Carries(r, d)'  BY <2>5, <2>6 DEF Carries, Carrying, IInv, WorkOK
      <4>2. token'[d] = "request"  BY <2>8 DEF IInv, DevicesOK
      <4> QED BY <3>1, <4>1, <4>2 DEF HeldBy
    <3>2. CASE e # d
      <4>1. Active(e) /\ token'[e] = token[e]  BY <2>8, <3>2 DEF Active, IInv, DevicesOK
      <4>2. HeldBy(e)  BY <4>1 DEF IInv, Held
      <4>3. \A q \in Requests : Carries(q, e) => Carries(q, e)'
        BY <1>1, <2>6 DEF Carries, Carrying, IInv, WorkOK
      <4>4. \A h \in Grants : grew[h] \subseteq grew'[h]
        BY <1>1, <2>1 DEF IInv, DevicesOK
      <4> QED BY <2>2, <4>1, <4>2, <4>3, <4>4, GrantsApart DEF HeldBy, links, Cut
    <3> QED BY <3>1, <3>2
  <2> QED BY <2>9, <2>10, <2>11, <2>12, <2>13, <2>14 DEF IInv
<1> QED BY <1>2, <1>3

-----------------------------------------------------------------------------
(* Link requests.                                                          *)

\* What dropping the stale ones does to what the other parts say.
LEMMA Dropped ==
    ASSUME IInv, DropsStale, UNCHANGED <<alive, expired, grew>>
    PROVE  /\ DevicesOK'
           /\ link' \in [Links -> {"none", "pending", "approved", "ready", "deleted"}]
           /\ parked' \in [Links -> {0} \cup Devices]
           /\ \A l \in Links :
                /\ parked'[l] # 0 <=> link'[l] = "ready"
                /\ link'[l] = "none" <=> link[l] = "none"
                /\ link[l] \in {"approved", "ready", "deleted"}
                   => link'[l] \in {"approved", "ready", "deleted"}
           /\ \A q \in Requests, l \in Links : Linking(q, l) =>
                link'[l] = link[l] \/ (link'[l] = "deleted" /\ l \in expired)
           /\ \A d \in Devices : Active(d)' =>
                /\ Active(d) /\ token'[d] = token[d]
                /\ \A l \in Links : parked[l] = d => parked'[l] = d
           /\ \A l \in Links, d \in Devices : Cut(l, d) => Cut(l, d)'
<1>1. /\ revoked' = revoked \cup {d \in Uncollected : owner[d] # NoUser}
      /\ token' = [d \in Devices |-> IF d \in Uncollected THEN "void" ELSE token[d]]
      /\ link' = [l \in Links |-> IF l \in Stale THEN "deleted" ELSE link[l]]
      /\ parked' = [l \in Links |-> IF l \in Stale THEN 0 ELSE parked[l]]
      /\ UNCHANGED owner
  BY DEF DropsStale
<1>2. \A d \in Devices : Active(d)' => Active(d) /\ d \notin Uncollected
  BY <1>1 DEF Active
<1>3. DevicesOK'
  <2>1. revoked' \subseteq Devices /\ token' \in [Devices -> Places]
    BY <1>1 DEF IInv, DevicesOK, Uncollected, Places
  <2>2. \A d \in Devices :
          /\ token'[d] = "none" => owner'[d] = NoUser /\ \A g \in Grants : d \notin grew'[g]
          /\ d \in revoked' => owner'[d] # NoUser
          /\ token'[d] = "void" => ~Active(d)'
    BY <1>1, <1>2 DEF IInv, DevicesOK
  <2> QED BY <1>1, <2>1, <2>2 DEF IInv, DevicesOK
<1>4. \A l \in Links : l \in Stale => link[l] # "none"  BY DEF Stale
<1>5. \A l \in Links : l \in Stale => l \in expired  BY DEF Stale
<1>6. /\ link' \in [Links -> {"none", "pending", "approved", "ready", "deleted"}]
      /\ parked' \in [Links -> {0} \cup Devices]
  BY <1>1 DEF IInv, LinksOK
<1>7. \A l \in Links :
        /\ parked'[l] # 0 <=> link'[l] = "ready"
        /\ link'[l] = "none" <=> link[l] = "none"
        /\ link[l] \in {"approved", "ready", "deleted"}
           => link'[l] \in {"approved", "ready", "deleted"}
  BY <1>1, <1>4 DEF IInv, LinksOK
<1>8. \A q \in Requests, l \in Links : Linking(q, l) =>
        link'[l] = link[l] \/ (link'[l] = "deleted" /\ l \in expired)
  BY <1>1, <1>5
<1>9. \A d \in Devices : Active(d)' =>
        /\ Active(d) /\ token'[d] = token[d]
        /\ \A l \in Links : parked[l] = d => parked'[l] = d
  BY <1>1, <1>2 DEF Uncollected
<1>10. \A l \in Links, d \in Devices : Cut(l, d) => Cut(l, d)'  BY <1>1 DEF Cut
<1> QED BY <1>3, <1>6, <1>7, <1>8, <1>9, <1>10

LEMMA AskLinkKeeps ==
    ASSUME IInv, NEW r \in Requests, NEW l \in Links, AskLink(r, l)
    PROVE  IInv'
<1> PICK x : x = Request("count", l, NoUser)  OBVIOUS
<1>1. x \in Work /\ x.pc = "count" /\ x.g = l /\ x.u = NoUser /\ x.d = 0
  BY GrantsApart, RequestFields DEF Pcs
<1>2. /\ link[l] = "none" /\ joiner[l] = "none" /\ work[r] = Idle
      /\ work' = [work EXCEPT ![r] = x] /\ joiner' = [joiner EXCEPT ![l] = "asking"]
      /\ DropsStale /\ UNCHANGED <<alive, offers, expired, grew>>
  BY DEF AskLink, Begins
<1>3. /\ DevicesOK'
      /\ link' \in [Links -> {"none", "pending", "approved", "ready", "deleted"}]
      /\ parked' \in [Links -> {0} \cup Devices]
      /\ \A m \in Links :
           /\ parked'[m] # 0 <=> link'[m] = "ready"
           /\ link'[m] = "none" <=> link[m] = "none"
           /\ link[m] \in {"approved", "ready", "deleted"}
              => link'[m] \in {"approved", "ready", "deleted"}
      /\ \A q \in Requests, m \in Links : Linking(q, m) =>
           link'[m] = link[m] \/ (link'[m] = "deleted" /\ m \in expired)
      /\ \A d \in Devices : Active(d)' =>
           /\ Active(d) /\ token'[d] = token[d]
           /\ \A m \in Links : parked[m] = d => parked'[m] = d
      /\ \A m \in Links, d \in Devices : Cut(m, d) => Cut(m, d)'
  BY <1>2, Dropped
<1>4. OffersOK'  BY <1>2 DEF IInv, OffersOK, offers
<1>5. LinksOK'
  <2>1. joiner' \in [Links -> {"none", "asking", "waiting", "joined", "failed"}]
    BY <1>2 DEF IInv, LinksOK
  <2>2. \A m \in Links : joiner'[m] \in {"waiting", "joined"} => link'[m] # "none"
    BY <1>2, <1>3 DEF IInv, LinksOK
  <2> QED BY <1>3, <2>1, <2>2 DEF LinksOK
<1>6. Fits(x)  BY <1>1 DEF Fits
<1>7. WorkOK'  BY <1>2, <1>6, WStands DEF IInv
<1>8. AskedOnce'
  <2>1. \A q \in Requests : work'[q] = IF q = r THEN x ELSE work[q]
    BY <1>2 DEF IInv, WorkOK
  <2>2. \A q \in Requests : work[q].g # l  BY <1>2 DEF IInv, AskedOnce, Asking
  <2>3. \A q \in Requests, m \in Links :
          /\ Asking(q, m)' <=> (q = r /\ m = l) \/ (q # r /\ m # l /\ Asking(q, m))
          /\ Linking(q, m)' => Linking(q, m) /\ q # r
          /\ work'[q].g = m => (q = r /\ m = l) \/ (q # r /\ m # l /\ work[q].g = m)
    BY <1>1, <2>1, <2>2 DEF Asking, Linking
  <2>4. \A m \in Links : m # l => joiner'[m] = joiner[m]  BY <1>2 DEF IInv, LinksOK
  <2>5. joiner'[l] = "asking" /\ link'[l] = "none"  BY <1>2, <1>3 DEF IInv, LinksOK
  <2>6. \A q \in Requests, m \in Links :
          /\ Asking(q, m)' => link'[m] = "none" /\ joiner'[m] = "asking"
          /\ work'[q].g = m /\ link'[m] = "none" => Asking(q, m)'
          /\ Linking(q, m)' => Claimed(m)'
    BY <1>2, <1>3, <2>3, <2>4, <2>5 DEF IInv, AskedOnce, Claimed
  <2>7. \A m \in Links : \A q, s \in Requests :
          /\ Asking(q, m)' /\ Asking(s, m)' => q = s
          /\ Linking(q, m)' /\ Linking(s, m)' => q = s
    BY <2>3 DEF IInv, AskedOnce
  <2> QED BY <2>6, <2>7 DEF AskedOnce, Claimed
<1>9. GrantsOnce'
  <2>1. \A g \in Grants : Spent(g) => Spent(g)'
    BY <1>2, <1>3, GrantsApart DEF Spent, offers
  <2> QED BY <1>1, <1>2, <2>1, GStands DEF IInv
<1>10. Held'
  <2>1. work[r].pc \notin Carrying  BY <1>2, IdleFits DEF Carrying
  <2> QED BY <1>2, <1>3, <2>1, HStands DEF IInv
<1> QED BY <1>3, <1>4, <1>5, <1>7, <1>8, <1>9, <1>10 DEF IInv

LEMMA CountKeeps == ASSUME IInv, NEW r \in Requests, Count(r) PROVE IInv'
<1> PICK w, l : w = work[r] /\ l = w.g  OBVIOUS
<1>1. w \in Work /\ Fits(w) /\ w.pc = "count" /\ l \in Links
  BY WorkFits DEF Count, Fits
<1>2. UNCHANGED <<alive, devices, offers, links, expired, grew>>  BY DEF Count
<1>3. DevicesOK' /\ OffersOK'
  BY <1>2 DEF IInv, DevicesOK, OffersOK, devices, offers, Active
<1>4. CASE Goes(r, "insert") /\ UNCHANGED joiner
  <2> PICK x : x = [w EXCEPT !.pc = "insert"]  OBVIOUS
  <2>1. x \in Work /\ x.pc = "insert" /\ Same(w, x)  BY <1>1, Moved DEF Pcs
  <2>2. work' = [work EXCEPT ![r] = x]  BY <1>4 DEF Goes
  <2>3. WorkOK'  BY <1>1, <2>1, <2>2, WStands DEF IInv, Fits, Same
  <2>4. LinksOK'  BY <1>2, <1>4 DEF IInv, LinksOK, links
  <2>5. AskedOnce'
    <3>1. \A q \in Requests, m \in Links :
            /\ Asking(q, m)' <=> Asking(q, m)
            /\ Linking(q, m)' <=> Linking(q, m)
            /\ work'[q].g = work[q].g
      BY <1>1, <2>1, <2>2 DEF Asking, Linking, IInv, WorkOK, Same
    <3> QED BY <1>2, <1>4, <3>1 DEF IInv, AskedOnce, Claimed, links
  <2>6. GrantsOnce'  BY <1>2, <2>1, <2>2, GStands DEF IInv, Spent, offers, links
  <2>7. Held'  BY <1>1, <1>2, <2>2, HStands DEF IInv, devices, links, Active, Carrying, Cut
  <2> QED BY <1>3, <2>3, <2>4, <2>5, <2>6, <2>7 DEF IInv
<1>5. CASE Ends(r) /\ joiner' = [joiner EXCEPT ![l] = "failed"]
  <2>1. LinksOK'  BY <1>1, <1>2, <1>5 DEF IInv, LinksOK, links
  <2>2. WorkOK'  BY <1>5, WStands, IdleFits DEF IInv, Ends
  <2>3. AskedOnce'
    <3>1. \A m \in Links : joiner'[m] = joiner[m] \/ m = work[r].g
      BY <1>5 DEF IInv, LinksOK
    <3> QED BY <1>2, <1>5, <3>1, AStands, IdleFits, GrantsApart DEF IInv, Ends, links
  <2>4. GrantsOnce'  BY <1>2, <1>5, GStands, IdleFits DEF IInv, Ends, Spent, offers, links
  <2>5. Held'  BY <1>1, <1>2, <1>5, HStands DEF IInv, Ends, devices, links, Active, Carrying, Cut
  <2> QED BY <1>3, <2>1, <2>2, <2>3, <2>4, <2>5 DEF IInv
<1> QED BY <1>4, <1>5 DEF Count

LEMMA InsertLinkKeeps == ASSUME IInv, NEW r \in Requests, InsertLink(r) PROVE IInv'
<1> PICK w, l : w = work[r] /\ l = w.g  OBVIOUS
<1>1. w \in Work /\ Fits(w) /\ w.pc = "insert" /\ l \in Links /\ l \in Grants /\ l \notin Offers
  BY WorkFits, GrantsApart DEF InsertLink, Fits
<1>2. /\ link' = [link EXCEPT ![l] = "pending"] /\ joiner' = [joiner EXCEPT ![l] = "waiting"]
      /\ work' = [work EXCEPT ![r] = Idle]
      /\ UNCHANGED <<alive, devices, offers, parked, expired, grew>>
  BY DEF InsertLink, Ends
<1>3. link[l] = "none" /\ Asking(r, l)  BY <1>1 DEF IInv, AskedOnce, Asking
<1>4. DevicesOK' /\ OffersOK'
  BY <1>2 DEF IInv, DevicesOK, OffersOK, devices, offers, Active
<1>5. LinksOK'
  <2>1. \A m \in Links :
          /\ parked'[m] # 0 <=> link'[m] = "ready"
          /\ joiner'[m] \in {"waiting", "joined"} => link'[m] # "none"
    BY <1>2, <1>3 DEF IInv, LinksOK
  <2> QED BY <1>2, <2>1 DEF IInv, LinksOK
<1>6. WorkOK'  BY <1>2, WStands, IdleFits DEF IInv
<1>7. AskedOnce'
  <2>1. \A m \in Links : m # l => link'[m] = link[m] /\ joiner'[m] = joiner[m]
    BY <1>2 DEF IInv, LinksOK
  <2>2. \A q \in Requests : q # r => ~Linking(q, l)
    BY <1>1, <1>3 DEF IInv, AskedOnce, Claimed
  <2>3. link'[l] = "pending"  BY <1>1, <1>2 DEF IInv, LinksOK
  <2> QED BY <1>2, <2>1, <2>2, <2>3, AStands, IdleFits, GrantsApart DEF IInv
<1>8. GrantsOnce'
  <2>1. \A g \in Grants : Spent(g) => Spent(g)'
    BY <1>2, <1>3, GrantsApart DEF Spent, offers, IInv, LinksOK
  <2> QED BY <1>2, <2>1, GStands, IdleFits DEF IInv
<1>9. Held'
  <2>1. \A m \in Links, d \in Devices : Cut(m, d) => Cut(m, d)'
    BY <1>2, <1>3 DEF Cut, IInv, LinksOK
  <2> QED BY <1>1, <1>2, <2>1, HStands DEF IInv, devices, Active, Carrying
<1> QED BY <1>4, <1>5, <1>6, <1>7, <1>8, <1>9 DEF IInv

\* The claim of a link request: it is pending, so nobody else approves it.
LEMMA ApproveKeeps == ASSUME IInv, NEW r \in Requests, Approve(r) PROVE IInv'
<1> PICK w, l : w = work[r] /\ l = w.g  OBVIOUS
<1>1. w \in Work /\ Fits(w) /\ w.pc = "approve" /\ l \in Links /\ l \in Grants /\ l \notin Offers
  BY WorkFits, GrantsApart DEF Approve, Fits
<1>2. UNCHANGED <<alive, devices, offers, parked, joiner, expired, grew>>  BY DEF Approve
<1>3. CASE Ends(r) /\ UNCHANGED link
  BY <1>1, <1>2, <1>3, EndKeeps DEF Carrying, links
<1>4. CASE ~(Ends(r) /\ UNCHANGED link)
  <2> PICK x : x = [w EXCEPT !.pc = "enrol"]  OBVIOUS
  <2>1. x \in Work /\ x.pc = "enrol" /\ Same(w, x)  BY <1>1, Moved DEF Pcs
  <2>2. /\ link[l] = "pending" /\ link' = [link EXCEPT ![l] = "approved"]
        /\ work' = [work EXCEPT ![r] = x]
    BY <1>4 DEF Approve, MayApprove, Goes
  <2>3. DevicesOK' /\ OffersOK'
    BY <1>2 DEF IInv, DevicesOK, OffersOK, devices, offers, Active
  <2>4. LinksOK'
    <3>1. \A m \in Links :
            /\ parked'[m] # 0 <=> link'[m] = "ready"
            /\ joiner'[m] \in {"waiting", "joined"} => link'[m] # "none"
      BY <1>2, <2>2 DEF IInv, LinksOK
    <3> QED BY <1>2, <2>2, <3>1 DEF IInv, LinksOK
  <2>5. WorkOK'  BY <1>1, <2>1, <2>2, WStands DEF IInv, Fits, Same
  <2>6. \A q \in Requests : ~Linking(q, l)  BY <1>1, <2>2 DEF IInv, AskedOnce, Claimed
  <2>7. link'[l] = "approved" /\ \A m \in Links : m # l => link'[m] = link[m]
    BY <1>1, <2>2 DEF IInv, LinksOK
  <2>8. AskedOnce'
    <3>1. x.g = l /\ x.pc = "enrol" /\ Claimed(l)' /\ link[l] # "none"
      BY <2>1, <2>2, <2>7 DEF Same, Claimed
    <3>2. \A q \in Requests, m \in Links : Linking(q, m) => link'[m] = link[m]
      BY <2>6, <2>7
    <3>3. \A m \in Links : link'[m] = "none" <=> link[m] = "none"
      BY <2>7, <3>1
    <3>4. link'[x.g] # "none" /\ Claimed(x.g)' /\ \A q \in Requests : ~Linking(q, x.g)
      BY <2>6, <2>7, <3>1
    <3>5. UNCHANGED <<joiner, expired>>  BY <1>2
    <3>6. WorkOK /\ AskedOnce  BY DEF IInv
    <3>7. x.pc \notin {"count", "insert"}  BY <3>1
    <3>8. /\ x.g \in Links => link'[x.g] # "none"
          /\ x.g \in Links /\ x.pc \in {"enrol", "park"} =>
               Claimed(x.g)' /\ \A q \in Requests : Linking(q, x.g) => q = r
      BY <3>4
    <3>9. work' = [work EXCEPT ![r] = x]  BY <2>2
    <3> QED BY <3>2, <3>3, <3>5, <3>6, <3>7, <3>8, <3>9, AStands
  <2>9. GrantsOnce'
    <3>1. grew[l] = {} /\ \A q \in Requests : ~Admitting(q, l)
      BY <1>1, <2>2 DEF IInv, GrantsOnce, Spent
    <3>2. \A g \in Grants : g # l => (Spent(g)' <=> Spent(g))
      BY <1>2, <2>7, GrantsApart DEF Spent, offers
    <3>3. Spent(l)'  BY <1>1, <2>7 DEF Spent
    <3>4. \A q \in Requests, g \in Grants :
            Admitting(q, g)' => (q = r /\ g = l) \/ (Admitting(q, g) /\ g # l)
      BY <2>1, <2>2, <3>1 DEF Admitting, IInv, WorkOK, Same
    <3>6. \A q \in Requests, g \in Grants :
            Parking(q, g)' => Parking(q, g) /\ work'[q].d = work[q].d
      BY <2>1, <2>2 DEF Parking, IInv, WorkOK
    <3>5. \A g \in Grants :
            /\ grew'[g] # {} => Spent(g)'
            /\ \A q \in Requests : Admitting(q, g)' => Spent(g)' /\ grew'[g] = {}
            /\ \A q, s \in Requests : Admitting(q, g)' /\ Admitting(s, g)' => q = s
            /\ \A q \in Requests : Parking(q, g)' => work'[q].d \in grew'[g]
      BY <1>2, <3>1, <3>2, <3>3, <3>4, <3>6 DEF IInv, GrantsOnce
    <3> QED BY <3>5 DEF GrantsOnce
  <2>10. Held'
    <3>1. \A m \in Links, d \in Devices : Cut(m, d) => Cut(m, d)'
      BY <1>2, <2>2, <2>7 DEF Cut
    <3> QED BY <1>1, <1>2, <2>2, <3>1, HStands DEF IInv, devices, Active, Carrying
  <2> QED BY <2>3, <2>4, <2>5, <2>8, <2>9, <2>10 DEF IInv
<1> QED BY <1>3, <1>4

\* The last statement of an approval hands the token to the row: it is there,
\* unless the cron has been.
LEMMA ParkKeeps == ASSUME IInv, NEW r \in Requests, Park(r) PROVE IInv'
<1> PICK w, l, d : w = work[r] /\ l = w.g /\ d = w.d  OBVIOUS
<1>1. /\ w \in Work /\ Fits(w) /\ w.pc = "park"
      /\ l \in Links /\ l \in Grants /\ l \notin Offers /\ d \in Devices
  BY WorkFits, GrantsApart DEF Park, Fits
<1>2. /\ work' = [work EXCEPT ![r] = Idle]
      /\ UNCHANGED <<alive, owner, revoked, offers, joiner, expired, grew>>
  BY DEF Park, Ends
<1>3. Linking(r, l) /\ Claimed(l) /\ \A q \in Requests : Linking(q, l) => q = r
  BY <1>1 DEF Linking, IInv, AskedOnce
<1>4. PICK place \in {"row", "dropped"} :
        /\ token' = [token EXCEPT ![d] = IF @ = "request" THEN place ELSE @]
        /\ \/ /\ link[l] = "approved" /\ place = "row"
              /\ link' = [link EXCEPT ![l] = "ready"] /\ parked' = [parked EXCEPT ![l] = d]
           \/ link[l] = "deleted" /\ l \in expired /\ place = "dropped" /\ UNCHANGED links
  BY <1>3 DEF Park, Claimed
<1>5. \A e \in Devices : /\ e # d => token'[e] = token[e]
                         /\ token'[e] = IF e = d /\ token[e] = "request" THEN place ELSE token[e]
  BY <1>4 DEF IInv, DevicesOK
<1>6. DevicesOK'
  <2>1. token' \in [Devices -> Places]  BY <1>4 DEF IInv, DevicesOK, Places
  <2>2. \A e \in Devices :
          /\ token'[e] = "none" => owner'[e] = NoUser /\ \A g \in Grants : e \notin grew'[g]
          /\ e \in revoked' => owner'[e] # NoUser
          /\ token'[e] = "void" => ~Active(e)'
    BY <1>2, <1>5 DEF IInv, DevicesOK, Active
  <2> QED BY <1>2, <2>1, <2>2 DEF IInv, DevicesOK
<1>7. OffersOK'  BY <1>2 DEF IInv, OffersOK, offers
<1>8. \A m \in Links : m # l => link'[m] = link[m] /\ parked'[m] = parked[m]
  BY <1>4 DEF IInv, LinksOK, links
<1>9. /\ link'[l] = "ready" \/ (link'[l] = "deleted" /\ link[l] = "deleted")
      /\ parked'[l] # 0 <=> link'[l] = "ready"
  BY <1>1, <1>4, DevicesCount DEF IInv, LinksOK, links
<1>10. LinksOK'
  <2>1. /\ link' \in [Links -> {"none", "pending", "approved", "ready", "deleted"}]
        /\ parked' \in [Links -> {0} \cup Devices]
    BY <1>1, <1>4 DEF IInv, LinksOK, links
  <2>2. \A m \in Links :
          /\ parked'[m] # 0 <=> link'[m] = "ready"
          /\ joiner'[m] \in {"waiting", "joined"} => link'[m] # "none"
    BY <1>2, <1>8, <1>9 DEF IInv, LinksOK
  <2> QED BY <1>2, <2>1, <2>2 DEF IInv, LinksOK
<1>11. WorkOK'  BY <1>2, WStands, IdleFits DEF IInv
<1>12. AskedOnce'
  <2>1. link[l] # "none"  BY <1>3 DEF Claimed
  <2> QED BY <1>2, <1>3, <1>8, <1>9, <2>1, AStands, IdleFits, GrantsApart DEF IInv
<1>13. GrantsOnce'
  <2>1. \A g \in Grants : Spent(g) => Spent(g)'
    BY <1>2, <1>8, <1>9, GrantsApart DEF Spent, offers
  <2> QED BY <1>2, <2>1, GStands, IdleFits DEF IInv
<1>14. Held'
  <2> SUFFICES ASSUME NEW e \in Devices, Active(e)' PROVE HeldBy(e)'
    BY DEF Held
  <2>1. Active(e) /\ HeldBy(e)  BY <1>2 DEF Active, IInv, Held
  <2>2. \A m \in Links : Cut(m, e) => Cut(m, e)'
    BY <1>2, <1>4, <1>8 DEF Cut, links
  <2>3. CASE e = d /\ token[e] = "request"
    <3>1. CASE place = "row"
      BY <1>1, <1>4, <1>5, <2>3, <3>1 DEF HeldBy, IInv, LinksOK
    <3>2. CASE place = "dropped"
      <4>1. link'[l] = "deleted" /\ l \in expired  BY <1>4, <1>9, <3>2 DEF links
      <4>2. d \in grew[l]  BY <1>1 DEF IInv, GrantsOnce, Parking
      <4>3. Cut(l, e)'  BY <1>2, <2>3, <4>1, <4>2 DEF Cut
      <4> QED BY <1>1, <1>5, <2>3, <3>2, <4>3 DEF HeldBy
    <3> QED BY <3>1, <3>2
  <2>4. CASE ~(e = d /\ token[e] = "request")
    <3>1. token'[e] = token[e]  BY <1>5, <2>4
    <3>2. \A m \in Links : parked[m] = e => parked'[m] = e
      <4>1. parked[l] = 0 \/ UNCHANGED links  BY <1>1, <1>4 DEF IInv, LinksOK
      <4> QED BY <1>8, <4>1, DevicesCount DEF links
    <3>3. \A q \in Requests : Carries(q, e) /\ token[e] = "request" => Carries(q, e)'
      BY <1>2, <2>4 DEF Carries, IInv, WorkOK
    <3> QED BY <2>1, <2>2, <3>1, <3>2, <3>3 DEF HeldBy
  <2> QED BY <2>3, <2>4
<1> QED BY <1>6, <1>7, <1>10, <1>11, <1>12, <1>13, <1>14 DEF IInv

LEMMA AskCollectKeeps ==
    ASSUME IInv, NEW r \in Requests, NEW l \in Links, AskCollect(r, l)
    PROVE  IInv'
<1> PICK x : x = Request("collect", l, NoUser)  OBVIOUS
<1>1. x \in Work /\ x.pc = "collect" /\ x.g = l /\ x.u = NoUser /\ x.d = 0
  BY GrantsApart, RequestFields DEF Pcs
<1>2. /\ joiner[l] = "waiting" /\ joiner' = [joiner EXCEPT ![l] = "asking"]
      /\ work[r] = Idle /\ work' = [work EXCEPT ![r] = x]
      /\ UNCHANGED <<alive, devices, offers, links, expired, grew>>
  BY DEF AskCollect, Begins
<1>3. DevicesOK' /\ OffersOK'
  BY <1>2 DEF IInv, DevicesOK, OffersOK, devices, offers, Active
<1>4. LinksOK'  BY <1>2 DEF IInv, LinksOK, links
<1>5. WorkOK'  BY <1>1, <1>2, WStands DEF IInv, Fits
<1>6. AskedOnce'
  <2>1. link[l] # "none"  BY <1>2 DEF IInv, LinksOK
  <2>2. \A m \in Links : joiner'[m] = joiner[m] \/ joiner[m] = "waiting"
    BY <1>2 DEF IInv, LinksOK
  <2> QED BY <1>1, <1>2, <2>1, <2>2, AStands DEF IInv, links
<1>7. GrantsOnce'  BY <1>1, <1>2, GStands DEF IInv, Spent, offers, links
<1>8. Held'
  <2>1. work[r].pc \notin Carrying  BY <1>2, IdleFits DEF Carrying
  <2> QED BY <1>2, <2>1, HStands DEF IInv, devices, links, Active, Cut
<1> QED BY <1>3, <1>4, <1>5, <1>6, <1>7, <1>8 DEF IInv

\* The DELETE of a ready row hands its token to the request that answers.
LEMMA CollectKeeps == ASSUME IInv, NEW r \in Requests, Collect(r) PROVE IInv'
<1> PICK w, l, d : w = work[r] /\ l = w.g /\ d = parked[l]  OBVIOUS
<1>1. w \in Work /\ Fits(w) /\ w.pc = "collect" /\ l \in Links /\ l \in Grants /\ l \notin Offers
  BY WorkFits, GrantsApart DEF Collect, Fits
<1>2. UNCHANGED <<alive, owner, revoked, offers, expired, grew>>  BY DEF Collect
<1>3. OffersOK'  BY <1>2 DEF IInv, OffersOK, offers
<1>4. link[l] # "none"  BY <1>1 DEF IInv, AskedOnce, Asking
<1>5. CASE ~(link[l] = "ready" /\ w.live)
  <2>1. PICK j \in {"waiting", "failed"} : joiner' = [joiner EXCEPT ![l] = j]
    <3>1. CASE link[l] \in {"pending", "approved", "ready"} /\ w.live
      BY <1>5, <3>1 DEF Collect
    <3>2. CASE ~(link[l] \in {"pending", "approved", "ready"} /\ w.live)
      BY <1>5, <3>2 DEF Collect
    <3> QED BY <3>1, <3>2
  <2>2. UNCHANGED <<links, token>> /\ work' = [work EXCEPT ![r] = Idle]
    BY <1>5 DEF Collect, Ends
  <2>3. DevicesOK'  BY <1>2, <2>2 DEF IInv, DevicesOK, Active
  <2>4. LinksOK'  BY <1>1, <1>4, <2>1, <2>2 DEF IInv, LinksOK, links
  <2>5. WorkOK'  BY <2>2, WStands, IdleFits DEF IInv
  <2>6. AskedOnce'
    <3>1. \A m \in Links : joiner'[m] = joiner[m] \/ m = work[r].g
      BY <2>1 DEF IInv, LinksOK
    <3> QED BY <1>2, <2>2, <3>1, AStands, IdleFits, GrantsApart DEF IInv, links
  <2>7. GrantsOnce'  BY <1>2, <2>2, GStands, IdleFits DEF IInv, Spent, offers, links
  <2>8. Held'  BY <1>1, <1>2, <2>2, HStands DEF IInv, links, Active, Carrying, Cut
  <2> QED BY <1>3, <2>3, <2>4, <2>5, <2>6, <2>7, <2>8 DEF IInv
<1>6. CASE link[l] = "ready" /\ w.live
  <2> PICK x : x = [w EXCEPT !.pc = "whose", !.d = d]  OBVIOUS
  <2>1. d \in Devices  BY <1>1, <1>6 DEF IInv, LinksOK
  <2>2. x \in Work /\ x.pc = "whose" /\ x.g = l /\ x.d = d
    BY <1>1, <2>1 DEF Work
  <2>3. /\ link' = [link EXCEPT ![l] = "deleted"] /\ parked' = [parked EXCEPT ![l] = 0]
        /\ token' = [token EXCEPT ![d] = IF @ = "row" THEN "request" ELSE @]
        /\ work' = [work EXCEPT ![r].pc = "whose", ![r].d = d] /\ UNCHANGED joiner
    BY <1>6 DEF Collect
  <2>4. work' = [work EXCEPT ![r] = x]  BY <2>3 DEF IInv, WorkOK
  <2>5. \A e \in Devices : token'[e] = IF e = d /\ token[e] = "row" THEN "request" ELSE token[e]
    BY <2>3 DEF IInv, DevicesOK
  <2>6. DevicesOK'
    <3>1. token' \in [Devices -> Places]  BY <2>3 DEF IInv, DevicesOK, Places
    <3>2. \A e \in Devices :
            /\ token'[e] = "none" => owner'[e] = NoUser /\ \A g \in Grants : e \notin grew'[g]
            /\ e \in revoked' => owner'[e] # NoUser
            /\ token'[e] = "void" => ~Active(e)'
      BY <1>2, <2>5 DEF IInv, DevicesOK, Active
    <3> QED BY <1>2, <3>1, <3>2 DEF IInv, DevicesOK
  <2>7. /\ link'[l] = "deleted" /\ parked'[l] = 0
        /\ \A m \in Links : m # l => link'[m] = link[m] /\ parked'[m] = parked[m]
    BY <1>1, <2>3 DEF IInv, LinksOK
  <2>8. LinksOK'
    <3>1. \A m \in Links :
            /\ parked'[m] # 0 <=> link'[m] = "ready"
            /\ joiner'[m] \in {"waiting", "joined"} => link'[m] # "none"
      BY <2>3, <2>7 DEF IInv, LinksOK
    <3> QED BY <2>3, <3>1 DEF IInv, LinksOK
  <2>9. WorkOK'
    <3>1. Fits(x)  BY <1>1, <2>1, <2>2 DEF Fits
    <3> QED BY <2>4, <3>1, WStands DEF IInv
  <2>10. AskedOnce'
    <3>1. \A q \in Requests : ~Linking(q, l)
      BY <1>1, <1>6 DEF IInv, AskedOnce, Claimed
    <3>2. \A q \in Requests, m \in Links : Linking(q, m) => link'[m] = link[m]
      BY <2>7, <3>1
    <3>3. \A m \in Links : link'[m] = "none" <=> link[m] = "none"  BY <1>4, <2>7
    <3>4. link'[x.g] # "none" /\ x.pc \notin {"count", "insert", "enrol", "park"}
      BY <2>2, <2>7
    <3>5. WorkOK /\ AskedOnce  BY DEF IInv
    <3>6. UNCHANGED <<joiner, expired>>  BY <1>2, <2>3
    <3> QED BY <2>4, <3>2, <3>3, <3>4, <3>5, <3>6, AStands
  <2>11. GrantsOnce'
    <3>1. \A g \in Grants : Spent(g) => Spent(g)'
      BY <1>2, <2>7, GrantsApart DEF Spent, offers
    <3> QED BY <1>2, <2>2, <2>4, <3>1, GStands DEF IInv
  <2>12. Held'
    <3> SUFFICES ASSUME NEW e \in Devices, Active(e)' PROVE HeldBy(e)'
      BY DEF Held
    <3>1. HeldBy(e)  BY <1>2 DEF Active, IInv, Held
    <3>2. \A q \in Requests : Carries(q, e) => Carries(q, e)'
      BY <1>1, <2>4 DEF Carries, Carrying, IInv, WorkOK
    <3>3. CASE e = d /\ token[e] = "row"
      <4>1. Carries(r, e)'  BY <2>2, <2>4, <3>3 DEF Carries, Carrying, IInv, WorkOK
      <4> QED BY <2>5, <3>3, <4>1 DEF HeldBy
    <3>4. CASE ~(e = d /\ token[e] = "row")
      <4>1. token'[e] = token[e]  BY <2>5, <3>4
      <4>2. token[e] = "row" => \A m \in Links : parked[m] = e => parked'[m] = e
        BY <2>7, <3>4
      <4>3. \A m \in Links : Cut(m, e) => Cut(m, e)'  BY <1>2, <2>7 DEF Cut
      <4> QED BY <3>1, <3>2, <4>1, <4>2, <4>3 DEF HeldBy
    <3> QED BY <3>3, <3>4
  <2> QED BY <1>3, <2>6, <2>8, <2>9, <2>10, <2>11, <2>12 DEF IInv
<1> QED BY <1>5, <1>6

LEMMA WhoseKeeps == ASSUME IInv, NEW r \in Requests, Whose(r) PROVE IInv'
<1> PICK w, l : w = work[r] /\ l = w.g  OBVIOUS
<1>1. /\ w \in Work /\ Fits(w) /\ w.pc = "whose" /\ w.d \in Devices
      /\ l \in Links /\ l \in Grants /\ l \notin Offers
  BY WorkFits, GrantsApart DEF Whose, Fits
<1>2. UNCHANGED <<alive, devices, offers, links, expired, grew>>  BY DEF Whose
<1>3. CASE owner[w.d] # NoUser
  <2> PICK x : x = [w EXCEPT !.pc = "reply"]  OBVIOUS
  <2>1. x \in Work /\ x.pc = "reply" /\ Same(w, x)  BY <1>1, Moved DEF Pcs
  <2>2. work' = [work EXCEPT ![r] = x] /\ UNCHANGED joiner  BY <1>3 DEF Whose, Goes
  <2>3. link[l] # "none"  BY <1>1 DEF IInv, AskedOnce, Asking
  <2>4. May(r, x)  BY <1>1, <2>1, <2>3 DEF May, Fits, Same
  <2> QED BY <1>1, <1>2, <2>1, <2>2, <2>4, Quiet DEF Same, Carrying
<1>4. CASE owner[w.d] = NoUser
  <2>1. work' = [work EXCEPT ![r] = Idle] /\ joiner' = [joiner EXCEPT ![l] = "failed"]
    BY <1>4 DEF Whose, Ends
  <2>2. DevicesOK' /\ OffersOK'
    BY <1>2 DEF IInv, DevicesOK, OffersOK, devices, offers, Active
  <2>3. LinksOK'  BY <1>1, <1>2, <2>1 DEF IInv, LinksOK, links
  <2>4. WorkOK'  BY <2>1, WStands, IdleFits DEF IInv
  <2>5. AskedOnce'
    <3>1. \A m \in Links : joiner'[m] = joiner[m] \/ m = work[r].g
      BY <2>1 DEF IInv, LinksOK
    <3> QED BY <1>2, <2>1, <3>1, AStands, IdleFits, GrantsApart DEF IInv, links
  <2>6. GrantsOnce'  BY <1>2, <2>1, GStands, IdleFits DEF IInv, Spent, offers, links
  <2>7. Held'  BY <1>2, <1>4, <2>1, HStands DEF IInv, devices, links, Active, Cut
  <2> QED BY <2>2, <2>3, <2>4, <2>5, <2>6, <2>7 DEF IInv
<1> QED BY <1>3, <1>4

\* A request that ends with its token handed to a client, or lost with it.
LEMMA HandsOn ==
    ASSUME IInv, NEW r \in Requests, NEW place \in {"kept", "lost"}, Ends(r),
           \A d \in Devices : \/ token'[d] = token[d] /\ ~Carries(r, d)
                              \/ /\ d = work[r].d
                                 /\ token'[d] = IF token[d] = "request" THEN place ELSE token[d],
           token' \in [Devices -> Places],
           joiner' \in [Links -> {"none", "asking", "waiting", "joined", "failed"}],
           \A l \in Links : joiner'[l] = joiner[l]
                            \/ (l = work[r].g /\ (joiner'[l] = "joined" => link[l] # "none")
                                /\ joiner'[l] # "waiting"),
           UNCHANGED <<alive, owner, revoked, offers, links, expired, grew>>
    PROVE  IInv'
<1>1. DevicesOK'
  <2>1. \A d \in Devices :
          /\ token'[d] = "none" => owner'[d] = NoUser /\ \A g \in Grants : d \notin grew'[g]
          /\ d \in revoked' => owner'[d] # NoUser
          /\ token'[d] = "void" => ~Active(d)'
    BY DEF IInv, DevicesOK, Active
  <2> QED BY <2>1 DEF IInv, DevicesOK
<1>2. OffersOK'  BY DEF IInv, OffersOK, offers
<1>3. LinksOK'
  <2>1. \A l \in Links :
          /\ parked'[l] # 0 <=> link'[l] = "ready"
          /\ joiner'[l] \in {"waiting", "joined"} => link'[l] # "none"
    BY DEF IInv, LinksOK, links
  <2> QED BY <2>1 DEF IInv, LinksOK, links
<1>4. WorkOK'  BY WStands, IdleFits DEF IInv, Ends
<1>5. AskedOnce'  BY AStands, IdleFits, GrantsApart DEF IInv, Ends, links
<1>6. GrantsOnce'  BY GStands, IdleFits DEF IInv, Ends, Spent, offers, links
<1>7. Held'
  <2> SUFFICES ASSUME NEW d \in Devices, Active(d)' PROVE HeldBy(d)'
    BY DEF Held
  <2>1. HeldBy(d)  BY DEF Active, IInv, Held
  <2>2. CASE d = work[r].d /\ token[d] = "request" /\ token'[d] = place  BY <2>2 DEF HeldBy
  <2>3. CASE token'[d] = token[d] /\ (token[d] = "request" => ~Carries(r, d))
    <3>1. token[d] = "request" => \A q \in Requests : Carries(q, d) => Carries(q, d)'
      BY <2>3 DEF Carries, Ends, IInv, WorkOK
    <3> QED BY <2>1, <2>3, <3>1 DEF HeldBy, links, Cut
  <2> QED BY <2>2, <2>3
<1> QED BY <1>1, <1>2, <1>3, <1>4, <1>5, <1>6, <1>7 DEF IInv

LEMMA ReplyKeeps == ASSUME IInv, NEW r \in Requests, Reply(r) PROVE IInv'
<1> PICK w, l, d : w = work[r] /\ l = w.g /\ d = w.d  OBVIOUS
<1>1. w \in Work /\ Fits(w) /\ w.pc = "reply" /\ d \in Devices
  BY WorkFits DEF Reply, Fits
<1>2. /\ token' = [token EXCEPT ![d] = IF @ = "request" THEN "kept" ELSE @]
      /\ joiner' = [m \in Links |-> IF m = l THEN "joined" ELSE joiner[m]]
      /\ Ends(r)
      /\ UNCHANGED <<alive, owner, revoked, offers, links, expired, grew>>
  BY DEF Reply
<1>3. l \in Links => link[l] # "none"  BY <1>1 DEF IInv, AskedOnce, Asking
<1>4. token' \in [Devices -> Places]  BY <1>2 DEF IInv, DevicesOK, Places
<1>5. \A e \in Devices :
        \/ token'[e] = token[e] /\ ~Carries(r, e)
        \/ e = work[r].d /\ token'[e] = IF token[e] = "request" THEN "kept" ELSE token[e]
  BY <1>2 DEF Carries, IInv, DevicesOK
<1>6. joiner' \in [Links -> {"none", "asking", "waiting", "joined", "failed"}]
  BY <1>2 DEF IInv, LinksOK
<1>7. \A m \in Links : joiner'[m] = joiner[m] \/ (m = work[r].g /\ link[m] # "none" /\ joiner'[m] # "waiting")
  BY <1>2, <1>3
<1> QED BY <1>2, <1>4, <1>5, <1>6, <1>7, HandsOn

LEMMA FailKeeps == ASSUME IInv, NEW r \in Requests, Fail(r) PROVE IInv'
<1> PICK w, l, d : w = work[r] /\ l = w.g /\ d = w.d  OBVIOUS
<1>1. /\ token' = [e \in Devices |-> IF e = d /\ w.pc # "revoke" /\ token[e] = "request"
                                     THEN "lost" ELSE token[e]]
      /\ joiner' = [m \in Links |->
            IF m = l /\ w.pc \in {"count", "insert", "collect", "whose", "reply"}
            THEN "failed" ELSE joiner[m]]
      /\ Ends(r)
      /\ UNCHANGED <<alive, owner, revoked, offers, links, expired, grew>>
  BY DEF Fail
<1>2. token' \in [Devices -> Places]  BY <1>1 DEF IInv, DevicesOK, Places
<1>3. \A e \in Devices :
        \/ token'[e] = token[e] /\ ~Carries(r, e)
        \/ e = work[r].d /\ token'[e] = IF token[e] = "request" THEN "lost" ELSE token[e]
  BY <1>1 DEF Carries, Carrying
<1>4. joiner' \in [Links -> {"none", "asking", "waiting", "joined", "failed"}]
  BY <1>1 DEF IInv, LinksOK
<1>5. \A m \in Links : joiner'[m] = joiner[m]
                       \/ (m = work[r].g /\ (joiner'[m] = "joined" => link[m] # "none")
                           /\ joiner'[m] # "waiting")
  BY <1>1
<1> QED BY <1>1, <1>2, <1>3, <1>4, <1>5, HandsOn

-----------------------------------------------------------------------------
(* Leaving, expiry, and the whole.                                         *)

LEMMA RevokeKeeps == ASSUME IInv, NEW r \in Requests, Revoke(r) PROVE IInv'
<1> PICK w, d : w = work[r] /\ d = w.d  OBVIOUS
<1>1. w \in Work /\ Fits(w) /\ w.pc = "revoke" /\ d \in Devices /\ w.u \in Users
  BY WorkFits DEF Revoke, Fits
<1>2. /\ revoked' = (IF owner[d] = w.u THEN revoked \cup {d} ELSE revoked)
      /\ work' = [work EXCEPT ![r] = Idle]
      /\ UNCHANGED <<alive, owner, token, offers, links, joiner, expired, grew>>
  BY DEF Revoke, Ends
<1>3. revoked' \subseteq Devices /\ \A e \in Devices : e \in revoked' => owner[e] # NoUser
  BY <1>1, <1>2, GrantAssumption DEF IInv, DevicesOK
<1>4. \A e \in Devices : Active(e)' => Active(e)  BY <1>2 DEF Active
<1>5. DevicesOK'  BY <1>2, <1>3, <1>4 DEF IInv, DevicesOK
<1>6. OffersOK' /\ LinksOK'  BY <1>2 DEF IInv, OffersOK, LinksOK, offers, links
<1>7. WorkOK'  BY <1>2, WStands, IdleFits DEF IInv
<1>8. AskedOnce'  BY <1>2, AStands, IdleFits, GrantsApart DEF IInv, links
<1>9. GrantsOnce'  BY <1>2, GStands, IdleFits DEF IInv, Spent, offers, links
<1>10. Held'  BY <1>1, <1>2, <1>4, HStands DEF IInv, links, Carrying, Cut
<1> QED BY <1>5, <1>6, <1>7, <1>8, <1>9, <1>10 DEF IInv

\* No request moves.
LEMMA Still ==
    ASSUME IInv, UNCHANGED <<work, grew>>, DevicesOK', OffersOK', LinksOK',
           \A g \in Grants : Spent(g) => Spent(g)',
           \A l \in Links : (link'[l] = "none" <=> link[l] = "none")
                            /\ (joiner'[l] = joiner[l] \/ joiner[l] = "waiting"),
           \A q \in Requests, l \in Links : Linking(q, l) =>
              link'[l] = link[l] \/ (link'[l] = "deleted" /\ l \in expired),
           \A d \in Devices : Active(d)' =>
              /\ Active(d) /\ token'[d] = token[d]
              /\ \A l \in Links : parked[l] = d => parked'[l] = d,
           \A l \in Links, d \in Devices : Cut(l, d) => Cut(l, d)',
           expired \subseteq expired'
    PROVE  IInv'
<1>1. WorkOK'  BY DEF IInv, WorkOK, Fits
<1>2. AskedOnce'
  <2>1. \A q \in Requests, l \in Links :
          /\ Asking(q, l)' => link'[l] = "none" /\ joiner'[l] = "asking"
          /\ work'[q].g = l /\ link'[l] = "none" => Asking(q, l)'
          /\ Linking(q, l)' => Claimed(l)'
    BY DEF IInv, AskedOnce, Asking, Linking, Claimed
  <2>2. \A q, s \in Requests, l \in Links :
          /\ Asking(q, l)' /\ Asking(s, l)' => q = s
          /\ Linking(q, l)' /\ Linking(s, l)' => q = s
    BY DEF IInv, AskedOnce, Asking, Linking
  <2> QED BY <2>1, <2>2 DEF AskedOnce, Claimed
<1>3. GrantsOnce'
  <2>1. \A g \in Grants :
          /\ grew'[g] # {} => Spent(g)'
          /\ \A q \in Requests : Admitting(q, g)' => Spent(g)' /\ grew'[g] = {}
          /\ \A q, s \in Requests : Admitting(q, g)' /\ Admitting(s, g)' => q = s
          /\ \A q \in Requests : Parking(q, g)' => work'[q].d \in grew'[g]
    BY DEF IInv, GrantsOnce, Admitting, Parking
  <2> QED BY <2>1 DEF GrantsOnce
<1>4. Held'
  <2>1. \A d \in Devices : Active(d)' /\ HeldBy(d) => HeldBy(d)'  BY DEF HeldBy, Carries
  <2> QED BY <2>1 DEF IInv, Held
<1> QED BY <1>1, <1>2, <1>3, <1>4 DEF IInv

LEMMA JoinerExpiresKeeps ==
    ASSUME IInv, NEW l \in Links, JoinerExpires(l) PROVE IInv'
<1>1. /\ joiner[l] = "waiting" /\ joiner' = [joiner EXCEPT ![l] = "failed"]
      /\ UNCHANGED <<alive, devices, offers, links, expired, work, grew>>
  BY DEF JoinerExpires
<1>2. DevicesOK' /\ OffersOK'
  BY <1>1 DEF IInv, DevicesOK, OffersOK, devices, offers, Active
<1>3. LinksOK'  BY <1>1 DEF IInv, LinksOK, links
<1>4. \A m \in Links : joiner'[m] = joiner[m] \/ joiner[m] = "waiting"
  BY <1>1 DEF IInv, LinksOK
<1> QED BY <1>1, <1>2, <1>3, <1>4, Still DEF devices, offers, links, Spent, Active, Cut

LEMMA ExpireKeeps == ASSUME IInv, NEW g \in Grants, Expire(g) PROVE IInv'
<1>1. expired' = expired \cup {g}
      /\ UNCHANGED <<alive, devices, offers, links, joiner, work, grew>>
  BY DEF Expire
<1>2. DevicesOK' /\ OffersOK' /\ LinksOK'
  BY <1>1 DEF IInv, DevicesOK, OffersOK, LinksOK, devices, offers, links, Active
<1> QED BY <1>1, <1>2, Still DEF devices, offers, links, Spent, Active, Cut

LEMMA PurgeKeeps == ASSUME IInv, Purge PROVE IInv'
<1>1. /\ DropsStale /\ UNCHANGED <<alive, by, joiner, expired, work, grew>>
      /\ offer' = [o \in Offers |-> IF o \in Invites \cap expired THEN "deleted" ELSE offer[o]]
  BY DEF Purge
<1>2. /\ DevicesOK'
      /\ link' \in [Links -> {"none", "pending", "approved", "ready", "deleted"}]
      /\ parked' \in [Links -> {0} \cup Devices]
      /\ \A l \in Links :
           /\ parked'[l] # 0 <=> link'[l] = "ready"
           /\ link'[l] = "none" <=> link[l] = "none"
           /\ link[l] \in {"approved", "ready", "deleted"}
              => link'[l] \in {"approved", "ready", "deleted"}
      /\ \A q \in Requests, l \in Links : Linking(q, l) =>
           link'[l] = link[l] \/ (link'[l] = "deleted" /\ l \in expired)
      /\ \A d \in Devices : Active(d)' =>
           /\ Active(d) /\ token'[d] = token[d]
           /\ \A l \in Links : parked[l] = d => parked'[l] = d
      /\ \A l \in Links, d \in Devices : Cut(l, d) => Cut(l, d)'
  BY <1>1, Dropped
<1>3. OffersOK'  BY <1>1 DEF IInv, OffersOK
<1>4. LinksOK'  BY <1>1, <1>2 DEF IInv, LinksOK
<1>5. \A g \in Grants : Spent(g) => Spent(g)'  BY <1>1, <1>2, GrantsApart DEF Spent
<1> QED BY <1>1, <1>2, <1>3, <1>4, <1>5, Still

LEMMA DeleteKeeps == ASSUME IInv, NEW u \in Users, DeleteAccount(u) PROVE IInv'
<1> PICK gone, rows, mine : /\ gone = {d \in Devices : owner[d] = u}
                            /\ rows = {l \in Links : parked[l] \in gone}
                            /\ mine = {o \in Offers : by[o] = u}
  OBVIOUS
<1>1. /\ alive' = alive \ {u}
      /\ owner' = [d \in Devices |-> IF d \in gone THEN NoUser ELSE owner[d]]
      /\ revoked' = revoked \ gone
      /\ token' = [d \in Devices |-> IF d \in gone THEN "void" ELSE token[d]]
      /\ link' = [l \in Links |-> IF l \in rows THEN "deleted" ELSE link[l]]
      /\ parked' = [l \in Links |-> IF l \in rows THEN 0 ELSE parked[l]]
      /\ offer' = [o \in Offers |-> IF o \in mine THEN "deleted" ELSE offer[o]]
      /\ by' = [o \in Offers |-> IF o \in mine THEN NoUser ELSE by[o]]
      /\ UNCHANGED <<joiner, expired, work, grew>>
  BY DEF DeleteAccount
<1>2. \A d \in Devices : Active(d)' => Active(d) /\ d \notin gone  BY <1>1 DEF Active
<1>3. \A l \in rows : link[l] = "ready"  BY DevicesCount DEF IInv, LinksOK
<1>4. DevicesOK'
  <2>1. /\ alive' \subseteq Users /\ revoked' \subseteq Devices
        /\ owner' \in [Devices -> Users \cup {NoUser}] /\ token' \in [Devices -> Places]
    BY <1>1 DEF IInv, DevicesOK, Places
  <2>2. \A d \in Devices :
          /\ token'[d] = "none" => owner'[d] = NoUser /\ \A g \in Grants : d \notin grew'[g]
          /\ d \in revoked' => owner'[d] # NoUser
          /\ token'[d] = "void" => ~Active(d)'
    BY <1>1, <1>2 DEF IInv, DevicesOK
  <2> QED BY <1>1, <2>1, <2>2 DEF IInv, DevicesOK
<1>5. OffersOK'  BY <1>1 DEF IInv, OffersOK
<1>6. LinksOK'
  <2>1. /\ link' \in [Links -> {"none", "pending", "approved", "ready", "deleted"}]
        /\ parked' \in [Links -> {0} \cup Devices]
    BY <1>1 DEF IInv, LinksOK
  <2>2. \A l \in Links :
          /\ parked'[l] # 0 <=> link'[l] = "ready"
          /\ joiner'[l] \in {"waiting", "joined"} => link'[l] # "none"
    BY <1>1, <1>3 DEF IInv, LinksOK
  <2> QED BY <1>1, <2>1, <2>2 DEF IInv, LinksOK
<1>7. \A g \in Grants : Spent(g) => Spent(g)'  BY <1>1, GrantsApart DEF Spent
<1>8. \A l \in Links : link'[l] = "none" <=> link[l] = "none"  BY <1>1, <1>3
<1>9. \A q \in Requests, l \in Links : Linking(q, l) => link'[l] = link[l]
  BY <1>1, <1>3 DEF IInv, AskedOnce, Claimed
<1>10. \A d \in Devices : Active(d)' =>
         /\ Active(d) /\ token'[d] = token[d]
         /\ \A l \in Links : parked[l] = d => parked'[l] = d
  BY <1>1, <1>2
<1>11. \A l \in Links, d \in Devices : Cut(l, d) => Cut(l, d)'  BY <1>1 DEF Cut
<1> QED BY <1>1, <1>4, <1>5, <1>6, <1>7, <1>8, <1>9, <1>10, <1>11, Still

LEMMA Initially == ASSUME Init PROVE IInv
<1> USE DEF Init
<1>1. DevicesOK
  <2>1. /\ owner \in [Devices -> Users \cup {NoUser}] /\ token \in [Devices -> Places]
        /\ alive \subseteq Users
    BY FirstAssumption DEF Places
  <2>2. \A d \in Devices : token[d] = "none" => owner[d] = NoUser  OBVIOUS
  <2> QED BY <2>1, <2>2 DEF DevicesOK
<1>2. OffersOK  BY DEF OffersOK
<1>3. LinksOK  BY DEF LinksOK
<1>4. \A r \in Requests : work[r].pc = "idle" /\ work[r].g = NoGrant  BY IdleFits
<1>5. WorkOK
  <2>1. work \in [Requests -> Work]  BY IdleFits
  <2>2. \A r \in Requests : Fits(work[r])  BY IdleFits
  <2> QED BY <2>1, <2>2 DEF WorkOK
<1>6. AskedOnce  BY <1>4, GrantsApart DEF AskedOnce, Asking, Linking
<1>7. GrantsOnce  BY <1>4 DEF GrantsOnce, Admitting, Parking
<1>8. Held  BY DEF Held, Active, HeldBy
<1> QED BY <1>1, <1>2, <1>3, <1>5, <1>6, <1>7, <1>8 DEF IInv

LEMMA Inductive == ASSUME IInv, [Next]_vars PROVE IInv'
<1>1. ASSUME NEW r \in Requests, Ask(r) PROVE IInv'
  BY <1>1, AskOfferKeeps, AskRedeemKeeps, AskLinkKeeps, AskApproveKeeps, AskRevokeKeeps DEF Ask
<1>2. ASSUME NEW r \in Requests, Step(r) PROVE IInv'
  BY <1>2, MintKeeps, RedeemKeeps, ReadAccountKeeps, EnrolKeeps, CountKeeps, InsertLinkKeeps,
     ApproveKeeps, ParkKeeps, CollectKeeps, WhoseKeeps, RevokeKeeps, ReplyKeeps
  DEF Step
<1>3. CASE UNCHANGED vars
  <2>1. DevicesOK' /\ OffersOK' /\ LinksOK'
    BY <1>3 DEF vars, IInv, DevicesOK, OffersOK, LinksOK, devices, offers, links, Active
  <2> QED BY <1>3, <2>1, Still DEF vars, devices, offers, links, Spent, Active, Cut
<1> QED BY <1>1, <1>2, <1>3, FailKeeps, AskCollectKeeps, JoinerExpiresKeeps, DeleteKeeps,
           ExpireKeeps, PurgeKeeps DEF Next

\* The invariant, for every number of accounts, grants, devices and requests.
THEOREM Invariant == Spec => []IInv
BY Initially, Inductive, PTL DEF Spec

\* Every variable keeps its type, and a link request's row has a device parked
\* on it exactly when it is ready (link.ts writes both in one UPDATE).
THEOREM TypeCorrect == Spec => []TypeOK
<1>1. IInv => TypeOK  BY DEF IInv, DevicesOK, OffersOK, LinksOK, WorkOK, TypeOK
<1> QED BY Invariant, <1>1, PTL

\* No device is on an account's list whose token nobody has, is about to be
\* given, lost with a request that failed, or with a link request that expired
\* and was dropped before its approval was done.
THEOREM AccountedCorrect == Spec => []Accounted
<1>1. IInv => Accounted
  <2> SUFFICES ASSUME IInv, NEW d \in Devices, Active(d)
               PROVE  \/ token[d] \in {"kept", "lost"}
                      \/ token[d] = "row" /\ \E l \in Links : link[l] = "ready" /\ parked[l] = d
                      \/ token[d] = "request" /\ \E r \in Requests : work[r].d = d
                      \/ token[d] = "dropped" /\ \E l \in Links \cap expired :
                                                    link[l] = "deleted" /\ d \in grew[l]
    BY DEF Accounted
  <2>1. HeldBy(d)  BY DEF IInv, Held
  <2>2. \A l \in Links : parked[l] = d => link[l] = "ready"
    BY DevicesCount DEF IInv, LinksOK
  <2> QED BY <2>1, <2>2 DEF HeldBy, Carries, Cut
<1> QED BY Invariant, <1>1, PTL

-----------------------------------------------------------------------------
(* Enrolment is Membership.                                                *)

\* What leaves the lists without anything joining is a departure.
LEMMA Departs ==
    ASSUME grew' = grew, \A d \in Devices : Active(d)' => Active(d) /\ owner'[d] = owner[d]
    PROVE  Members!Leave
<1> PICK left \in SUBSET Devices : left = {d \in Devices : ~Active(d)'}  OBVIOUS
<1>1. \A u \in Users : Live(u)' = Live(u) \ left
  <2> SUFFICES ASSUME NEW u \in Users PROVE Live(u)' = Live(u) \ left  OBVIOUS
  <2>1. \A d \in Devices : owner'[d] = u => owner'[d] # NoUser  BY GrantAssumption
  <2> QED BY <2>1 DEF Live, Active
<1>2. [u \in Users |-> Live(u)]' = [u \in Users |-> [v \in Users |-> Live(v)][u] \ left]
  BY <1>1
<1> QED BY <1>2 DEF Members!Leave

\* Membership counts as Enrol does.
LEMMA SameCount == ASSUME NEW S PROVE Members!Cardinality(S) = Cardinality(S)
BY Zenon DEF Members!Cardinality, Cardinality

\* The one step by which a device joins.
LEMMA Joins ==
    ASSUME IInv, NEW r \in Requests, NEW d \in Devices, NEW g \in Grants, NEW u \in Users,
           work[r].pc = "enrol", work[r].g = g, HasRoom(u), Inserts(d, u),
           grew' = [grew EXCEPT ![g] = @ \cup {d}]
    PROVE  Members!Admit(g, u, d)
<1>1. token[d] = "none"  BY DEF Inserts, IsFresh
<1>2. owner[d] = NoUser /\ d \notin revoked /\ \A h \in Grants : d \notin grew[h]
  BY <1>1 DEF IInv, DevicesOK
<1>3. grew[g] = {}  BY DEF IInv, GrantsOnce, Admitting
<1>4. owner' = [owner EXCEPT ![d] = u] /\ revoked' = revoked  BY DEF Inserts
<1>5. \A v \in Users : d \notin Live(v)  BY <1>2, GrantAssumption DEF Live
<1>6. \A v \in Users : Live(v)' = IF v = u THEN Live(v) \cup {d} ELSE Live(v)
  <2> SUFFICES ASSUME NEW v \in Users
               PROVE  Live(v)' = IF v = u THEN Live(v) \cup {d} ELSE Live(v)
    OBVIOUS
  <2>1. owner \in [Devices -> Users \cup {NoUser}]  BY DEF IInv, DevicesOK
  <2>2. \A e \in Devices : owner'[e] = IF e = d THEN u ELSE owner[e]  BY <1>4, <2>1
  <2> QED BY <1>2, <1>4, <1>5, <2>2 DEF Live
<1> DEFINE was == [v \in Users |-> Live(v)]
<1>7. [v \in Users |-> Live(v)]' = [was EXCEPT ![u] = @ \cup {d}]  BY <1>6
<1>8. grew' = [grew EXCEPT ![g] = {d}]  BY <1>3
<1>9. Members!Cardinality(was[u]) < Limit[u]  BY SameCount DEF HasRoom
<1>10. Members!Joins(u, d)  BY <1>2, <1>5, <1>7, <1>9 DEF Members!Joins
<1> QED BY <1>3, <1>8, <1>10 DEF Members!Admit

\* createDevice adds to a list, and no other statement does.
LEMMA MemberStep == ASSUME IInv, [Next]_vars PROVE [Members!Next]_(Members!vars)
<1> DEFINE Fewer == grew' = grew /\ \A d \in Devices : Active(d)' => Active(d) /\ owner'[d] = owner[d]
<1>1. ASSUME NEW r \in Requests, Ask(r) PROVE Fewer
  <2>1. CASE \E l \in Links : AskLink(r, l)
    BY <2>1 DEF AskLink, DropsStale, Active
  <2>2. CASE ~\E l \in Links : AskLink(r, l)
    BY <1>1, <2>2 DEF Ask, AskOffer, AskRedeem, AskApprove, AskRevoke, devices, Active
  <2> QED BY <2>1, <2>2
<1>2. ASSUME NEW r \in Requests, Step(r), ~Enrol(r) PROVE Fewer
  <2>1. CASE Mint(r) \/ Redeem(r) \/ ReadAccount(r) \/ Count(r) \/ InsertLink(r) \/ Approve(r) \/ Whose(r)
    BY <2>1 DEF Mint, Redeem, ReadAccount, Count, InsertLink, Approve, Whose, devices, Active
  <2>2. CASE Park(r) \/ Collect(r) \/ Reply(r)
    BY <2>2 DEF Park, Collect, Reply, Active
  <2>3. CASE Revoke(r)
    BY <2>3 DEF Revoke, Active
  <2> QED BY <1>2, <2>1, <2>2, <2>3 DEF Step
<1>3. ASSUME NEW r \in Requests, Enrol(r)
      PROVE  Fewer \/ \E g \in Grants, u \in Users, d \in Devices : Members!Admit(g, u, d)
  <2> PICK g, u : g = work[r].g /\ u = work[r].u  OBVIOUS
  <2>1. work[r].pc = "enrol" /\ g \in Grants /\ u \in Users  BY <1>3, WorkFits DEF Enrol, Fits
  <2>2. CASE HasRoom(u)
    <3>1. PICK d \in Devices : Inserts(d, u) /\ grew' = [grew EXCEPT ![g] = @ \cup {d}]
      BY <1>3, <2>2 DEF Enrol
    <3>2. Members!Admit(g, u, d)
      <4>1. work[r].g = g /\ HasRoom(u)  BY <2>2
      <4> QED BY <2>1, <3>1, <4>1, Joins
    <3> QED BY <2>1, <3>2
  <2>3. CASE ~HasRoom(u)
    BY <1>3, <2>3 DEF Enrol, devices, Active
  <2> QED BY <2>2, <2>3
<1>4. ASSUME NEW r \in Requests, Fail(r) PROVE Fewer  BY <1>4 DEF Fail, Active
<1>5. ASSUME NEW r \in Requests, NEW l \in Links, AskCollect(r, l) PROVE Fewer
  BY <1>5 DEF AskCollect, devices, Active
<1>6. ASSUME NEW l \in Links, JoinerExpires(l) PROVE Fewer  BY <1>6 DEF JoinerExpires, devices, Active
<1>7. ASSUME NEW u \in Users, DeleteAccount(u) PROVE Fewer
  <2> PICK gone : gone = {d \in Devices : owner[d] = u}  OBVIOUS
  <2>1. /\ owner' = [d \in Devices |-> IF d \in gone THEN NoUser ELSE owner[d]]
        /\ revoked' = revoked \ gone /\ grew' = grew
    BY <1>7 DEF DeleteAccount
  <2> QED BY <2>1 DEF Active
<1>8. ASSUME NEW g \in Grants, Expire(g) PROVE Fewer  BY <1>8 DEF Expire, devices, Active
<1>9. Purge => Fewer  BY DEF Purge, DropsStale, Active
<1>10. UNCHANGED vars => Fewer  BY DEF vars, devices, Active
<1>11. Fewer \/ \E g \in Grants, u \in Users, d \in Devices : Members!Admit(g, u, d)
  BY <1>1, <1>2, <1>3, <1>4, <1>5, <1>6, <1>7, <1>8, <1>9, <1>10 DEF Next
<1>12. Fewer => Members!Leave  BY Departs
<1> QED BY <1>11, <1>12 DEF Members!Next

\* By whatever grant: it admits one device at most, a device that was on no list,
\* into an account with room for it; and none comes back.
THEOREM MembershipImplemented == Spec => JoinsAreMembership
<1>1. Init => Members!Init
  <2> SUFFICES ASSUME Init PROVE Members!Init  OBVIOUS
  <2>1. \A u \in Users : Live(u) = {d \in DOMAIN First : First[d] = u}
    BY FirstAssumption, GrantAssumption DEF Init, Live
  <2> QED BY <2>1 DEF Init, Members!Init
<1> QED BY <1>1, MemberStep, Invariant, PTL DEF Spec, JoinsAreMembership, Members!Spec
=============================================================================
