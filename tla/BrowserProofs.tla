--------------------------- MODULE BrowserProofs ---------------------------
(***************************************************************************)
(* What one browser's tabs share is read by the account's other devices,   *)
(* and what its share sheet was handed is not lost, for any tabs, shares   *)
(* and bounds.                                                             *)
(*                                                                         *)
(* The rings are copied from tab to tab, to the browser's cache and back,  *)
(* and into what is under way; so the invariant says the same of every     *)
(* one of them: only what is filed under epoch 0 may be another key, and   *)
(* no key is of an epoch the account has not reached.                      *)
(***************************************************************************)
EXTENDS Browser, TLAPS, WellFoundedInduction

\* A ring with no key from later than e; under epoch 0 there may be another
\* key: the one from an enrolment, opened while the server did not answer.
RingFits(r, e) ==
    /\ r \in Rings
    /\ \A x \in DOMAIN r : x <= e /\ r[x] <= e /\ (x # 0 => r[x] = x)

\* What is to be sent is still to be, or in the account.
Sent(x, st) == \A p \in Parts \ x.left : \E r \in st : r.share = x.share /\ r.part = p

\* A tab, of an account at epoch e that has the parts st.
TabFits(x, e, st, kp) ==
    /\ x \in Tab
    /\ RingFits(x.ring, e) /\ RingFits(x.session, e) /\ RingFits(x.using, e)
    /\ x.view = "share" => x.share \in Shares
    /\ x.phase # "none" => x.view = "share" /\ x.dev # Nobody
    /\ x.leaving => x.view = "app"
    /\ x.phase = "sending" => x.using # Empty /\ Sent(x, st)
    /\ \A s \in x.sweeps : kp[s] \in {"old", "gone"}

\* What a tab opens with the passphrase: the key it asked for, or one for
\* epoch 0.
OpeningFits(o, x, e) ==
    /\ o \in Opening
    /\ o.pc = "idle" => o.for = "none"
    /\ o.pc # "idle" => o.dev \in Devices
    /\ o.epoch <= e /\ o.key <= e /\ (o.epoch # 0 => o.key = o.epoch)
    /\ o.for = "share" => x.phase = "opening"
    /\ o.for = "pair" => x.dev = Nobody
    /\ x.view = "closed" => o.pc = "idle"

\* A refresh of the keys: of a share, only while its tab waits for it.
SyncFits(y, kind, x, e) ==
    /\ y \in Sync
    /\ y.pc # "idle" => y.dev \in Devices
    /\ RingFits(y.held, e) /\ y.got <= e
    /\ kind = "share" /\ y.pc # "idle" => x.phase = "fetching"

\* What no tab has to itself.
CommonFits ==
    /\ epoch \in Epochs
    /\ devices \in [Devices -> Device] /\ \A d \in Devices : devices[d].at <= epoch
    /\ stored \subseteq Row /\ SentOpens
    /\ creds \in Devices \cup {Nobody}
    /\ RingFits(local, epoch)
    /\ idb \in [Devices -> Keypairs]
    /\ kept \in [Shares -> {"never", "kept", "old", "gone"}]

OneTabFits(t) ==
    /\ TabFits(tab[t], epoch, stored, kept)
    /\ OpeningFits(opening[t], tab[t], epoch)
    /\ \A kind \in {"app", "share"} : SyncFits(sync[<<t, kind>>], kind, tab[t], epoch)

IInv ==
    /\ CommonFits
    /\ tab \in [Tabs -> Tab] /\ sync \in [Threads -> Sync] /\ opening \in [Tabs -> Opening]
    /\ \A t \in Tabs : OneTabFits(t)

-----------------------------------------------------------------------------
(* Rings.                                                                  *)

Phases == {"none", "loading", "locked", "opening", "sending", "fetching",
           "saved", "missing", "error"}

LEMMA EpochsAre == Epochs \in SUBSET Nat /\ 0 \in Epochs /\ Devices \in SUBSET Nat /\ Nobody \notin Devices
BY BoundAssumption DEF Epochs, Devices, Nobody

LEMMA LeastOfNaturals ==
    ASSUME NEW S \in SUBSET Nat, S # {}
    PROVE  \E m \in S : \A k \in S : m <= k
<1> DEFINE R == {p \in Nat \X Nat : p[1] < p[2]}
<1>1. IsWellFoundedOn(R, Nat)  BY NatLessThanWellFounded DEF OpToRel
<1> HIDE DEF R
<1>2. PICK m \in S : \A k \in S : ~(<<k, m>> \in R)  BY <1>1, WFMin
<1>3. \A k \in Nat, n \in Nat : k < n => <<k, n>> \in R  BY DEF R
<1>4. \A k \in S : ~(k < m)  BY <1>2, <1>3
<1> QED BY <1>4

\* A set of epochs has a greatest.
LEMMA MaxExists ==
    ASSUME NEW S \in SUBSET Epochs, S # {}
    PROVE  Max(S) \in S /\ \A x \in S : x <= Max(S)
<1> DEFINE D == {d \in Nat : d <= MaxEpoch /\ MaxEpoch - d \in S}
<1>0. MaxEpoch \in Nat /\ S \subseteq 0..MaxEpoch  BY BoundAssumption DEF Epochs
<1>1. PICK x \in S : TRUE  OBVIOUS
<1>2. MaxEpoch - x \in D  BY <1>0, <1>1
<1>3. D \in SUBSET Nat /\ D # {}  BY <1>2
<1>4. PICK m \in D : \A k \in D : m <= k  BY <1>3, LeastOfNaturals
<1>5. MaxEpoch - m \in S  BY <1>4
<1>6. ASSUME NEW y \in S  PROVE y <= MaxEpoch - m
  <2>1. MaxEpoch - y \in D  BY <1>0
  <2>2. m <= MaxEpoch - y  BY <1>4, <2>1
  <2> QED BY <1>0, <1>4, <2>2
<1>7. \E z \in S : \A y \in S : z >= y  BY <1>0, <1>4, <1>5, <1>6
<1>8. Max(S) \in S /\ \A y \in S : Max(S) >= y  BY <1>7 DEF Max
<1> QED BY <1>0, <1>8

LEMMA EmptyFits == \A e \in Epochs : RingFits(Empty, e) /\ DOMAIN Empty = {}
<1>1. Empty \in [{} -> Epochs]  BY DEF Empty
<1>2. DOMAIN Empty = {}  BY DEF Empty
<1> QED BY <1>1, <1>2 DEF Rings, RingFits

LEMMA RingEpochs ==
    ASSUME NEW r \in Rings
    PROVE  DOMAIN r \in SUBSET Epochs /\ \A x \in DOMAIN r : r[x] \in Epochs
BY DEF Rings

\* The current key of a ring that fits, if it is of the account's epoch, is that
\* epoch's key, under epoch 0, too.
LEMMA CurrentFits ==
    ASSUME NEW e \in Epochs, NEW r, RingFits(r, e), r # Empty, Current(r) = e
    PROVE  e \in DOMAIN r /\ r[e] = e
<1>1. r \in Rings /\ DOMAIN r \in SUBSET Epochs  BY RingEpochs DEF RingFits
<1>2. DOMAIN r # {}
  <2>1. SUFFICES ASSUME DOMAIN r = {}  PROVE FALSE  OBVIOUS
  <2>2. r = [x \in {} |-> 0] /\ Empty = [x \in {} |-> 0]  BY <1>1, <2>1 DEF Rings, Empty
  <2> QED BY <2>2
<1>3. e \in DOMAIN r  BY <1>1, <1>2, MaxExists DEF Current
<1>4. r[e] \in Epochs /\ r[e] <= e /\ (e # 0 => r[e] = e)  BY <1>1, <1>3, RingEpochs DEF RingFits
<1> QED BY <1>3, <1>4, EpochsAre

LEMMA WithKeyFits ==
    ASSUME NEW e \in Epochs, NEW r, RingFits(r, e), NEW x \in Epochs, NEW k \in Epochs,
           x <= e, k <= e, x # 0 => k = x
    PROVE  RingFits(WithKey(r, x, k), e) /\ WithKey(r, x, k) # Empty
<1>1. r \in Rings /\ DOMAIN r \in SUBSET Epochs /\ \A y \in DOMAIN r : r[y] \in Epochs
  BY RingEpochs DEF RingFits
<1>2. WithKey(r, x, k) \in [DOMAIN r \cup {x} -> Epochs]  BY <1>1 DEF WithKey
<1>3. WithKey(r, x, k) \in Rings  BY <1>1, <1>2 DEF Rings
<1>4. \A y \in DOMAIN r \cup {x} : WithKey(r, x, k)[y] = IF y = x THEN k ELSE r[y]
  BY DEF WithKey
<1>5. DOMAIN WithKey(r, x, k) = DOMAIN r \cup {x}  BY DEF WithKey
<1>6. WithKey(r, x, k) # Empty  BY <1>5, EmptyFits
<1> QED BY <1>3, <1>4, <1>5, <1>6 DEF RingFits

LEMMA OnlyKeyFits ==
    ASSUME NEW e \in Epochs
    PROVE  RingFits(OnlyKey(e), e) /\ OnlyKey(e) # Empty
<1>1. OnlyKey(e) \in [{e} -> Epochs] /\ DOMAIN OnlyKey(e) = {e} /\ OnlyKey(e)[e] = e
  BY DEF OnlyKey
<1>2. OnlyKey(e) \in Rings  BY <1>1 DEF Rings
<1>3. OnlyKey(e) # Empty  BY <1>1, EmptyFits
<1> QED BY <1>1, <1>2, <1>3, EpochsAre DEF RingFits

\* A ring that fits goes on to, as the account is re-keyed.
LEMMA RingStays ==
    ASSUME NEW e \in Epochs, NEW f \in Epochs, e <= f, NEW r, RingFits(r, e)
    PROVE  RingFits(r, f)
<1>1. DOMAIN r \in SUBSET Epochs /\ \A x \in DOMAIN r : r[x] \in Epochs  BY RingEpochs DEF RingFits
<1>2. \A x \in DOMAIN r : x \in Nat /\ r[x] \in Nat /\ e \in Nat /\ f \in Nat  BY <1>1, EpochsAre
<1> QED BY <1>2 DEF RingFits

-----------------------------------------------------------------------------
(* What others do leaves a tab as it fits.                                 *)

\* The account goes on from st to su: no part is lost to it.
PartsStay(st, su) ==
    \A r \in st : \E q \in su : q.share = r.share /\ q.part = r.part
\* What is over for a share stays over.
GoesOn(kp, kq) ==
    \A s \in Shares : kp[s] \in {"old", "gone"} => kq[s] \in {"old", "gone"}

LEMMA TabStays ==
    ASSUME NEW e \in Epochs, NEW f \in Epochs, e <= f, NEW st, NEW su, NEW kp, NEW kq,
           PartsStay(st, su), GoesOn(kp, kq), NEW x, TabFits(x, e, st, kp)
    PROVE  TabFits(x, f, su, kq)
<1>1. x \in Tab  BY DEF TabFits
<1>2. RingFits(x.ring, f) /\ RingFits(x.session, f) /\ RingFits(x.using, f)
  BY RingStays DEF TabFits
<1>3. Sent(x, st) => Sent(x, su)  BY DEF Sent, PartsStay
<1>4. x.sweeps \subseteq Shares  BY <1>1 DEF Tab
<1>5. \A s \in x.sweeps : kq[s] \in {"old", "gone"}  BY <1>4 DEF TabFits, GoesOn
<1> QED BY <1>1, <1>2, <1>3, <1>5 DEF TabFits

LEMMA OpeningStays ==
    ASSUME NEW e \in Epochs, NEW f \in Epochs, e <= f, NEW x, NEW y, NEW o, OpeningFits(o, x, e),
           o.for = "share" => y.phase = "opening", o.for = "pair" => y.dev = Nobody,
           y.view = "closed" => o.pc = "idle"
    PROVE  OpeningFits(o, y, f)
<1>1. o.epoch \in Nat /\ o.key \in Nat /\ e \in Nat /\ f \in Nat
  BY EpochsAre DEF OpeningFits, Opening
<1> QED BY <1>1 DEF OpeningFits

LEMMA SyncStays ==
    ASSUME NEW e \in Epochs, NEW f \in Epochs, e <= f, NEW x, NEW z, NEW y, NEW kind,
           SyncFits(y, kind, x, e),
           kind = "share" /\ y.pc # "idle" => z.phase = "fetching"
    PROVE  SyncFits(y, kind, z, f)
<1>1. y.got \in Nat /\ e \in Nat /\ f \in Nat  BY EpochsAre DEF SyncFits, Sync
<1>2. RingFits(y.held, f)  BY RingStays DEF SyncFits
<1> QED BY <1>1, <1>2 DEF SyncFits

\* What is common to the tabs has gone on.
Onward ==
    /\ CommonFits'
    /\ epoch <= epoch' /\ PartsStay(stored, stored') /\ GoesOn(kept, kept')

LEMMA OthersStay ==
    ASSUME IInv, Onward, NEW t \in Tabs, tab'[t] = tab[t], opening'[t] = opening[t],
           \A kind \in {"app", "share"} : sync'[<<t, kind>>] = sync[<<t, kind>>]
    PROVE  OneTabFits(t)'
<1>0. OneTabFits(t) /\ epoch \in Epochs /\ epoch' \in Epochs
  BY DEF IInv, Onward, CommonFits
<1>1. TabFits(tab[t], epoch', stored', kept')
  BY <1>0, TabStays DEF OneTabFits, Onward
<1>2. OpeningFits(opening[t], tab[t], epoch')
  <2>1. OpeningFits(opening[t], tab[t], epoch)  BY <1>0 DEF OneTabFits
  <2> QED BY <1>0, <2>1, OpeningStays DEF Onward, OpeningFits
<1>3. ASSUME NEW kind \in {"app", "share"}  PROVE SyncFits(sync[<<t, kind>>], kind, tab[t], epoch')
  <2>1. SyncFits(sync[<<t, kind>>], kind, tab[t], epoch)  BY <1>0 DEF OneTabFits
  <2> QED BY <1>0, <2>1, SyncStays DEF Onward, SyncFits
<1> QED BY <1>1, <1>2, <1>3 DEF OneTabFits

\* A step of one tab, or of none.
LEMMA TabSteps ==
    ASSUME IInv, Onward, NEW t \in Tabs,
           NEW x \in Tab, tab' = [tab EXCEPT ![t] = x],
           NEW o \in Opening, opening' = [opening EXCEPT ![t] = o],
           sync' \in [Threads -> Sync],
           \A th \in Threads : th[1] # t => sync'[th] = sync[th],
           TabFits(x, epoch', stored', kept'), OpeningFits(o, x, epoch'),
           \A kind \in {"app", "share"} : SyncFits(sync'[<<t, kind>>], kind, x, epoch')
    PROVE  IInv'
<1>1. /\ tab' \in [Tabs -> Tab] /\ opening' \in [Tabs -> Opening]
      /\ tab'[t] = x /\ opening'[t] = o
      /\ \A u \in Tabs \ {t} : tab'[u] = tab[u] /\ opening'[u] = opening[u]
  BY DEF IInv
<1>2. OneTabFits(t)'  BY <1>1 DEF OneTabFits
<1>3. ASSUME NEW u \in Tabs \ {t}  PROVE OneTabFits(u)'
  <2>1. ASSUME NEW kind \in {"app", "share"}  PROVE sync'[<<u, kind>>] = sync[<<u, kind>>]
    <3>1. <<u, kind>> \in Threads /\ <<u, kind>>[1] = u  BY DEF Threads
    <3> QED BY <3>1
  <2> QED BY <1>1, <2>1, OthersStay
<1>4. \A u \in Tabs : OneTabFits(u)'  BY <1>2, <1>3
<1> QED BY <1>1, <1>4 DEF IInv, Onward

LEMMA NoTabSteps ==
    ASSUME IInv, Onward, tab' = tab, opening' = opening, sync' = sync
    PROVE  IInv'
<1>1. \A u \in Tabs : OneTabFits(u)'  BY OthersStay
<1> QED BY <1>1 DEF IInv, Onward

\* What a tab comes to, when its calls stay as they are.
LEMMA TabChanges ==
    ASSUME IInv, Onward, NEW t \in Tabs, NEW x \in Tab, tab' = [tab EXCEPT ![t] = x],
           opening' = opening, sync' = sync,
           TabFits(x, epoch', stored', kept'),
           opening[t].for = "share" => x.phase = "opening",
           opening[t].for = "pair" => x.dev = Nobody,
           x.view = "closed" => opening[t].pc = "idle",
           sync[<<t, "share">>].pc # "idle" => x.phase = "fetching"
    PROVE  IInv'
<1>0. OneTabFits(t) /\ epoch \in Epochs /\ epoch' \in Epochs /\ epoch <= epoch'
      /\ opening \in [Tabs -> Opening] /\ sync \in [Threads -> Sync]
  BY DEF IInv, Onward, CommonFits
<1>1. PICK o \in Opening : o = opening[t]  BY <1>0
<1>2. opening' = [opening EXCEPT ![t] = o]  BY <1>0, <1>1
<1>3. OpeningFits(o, x, epoch')
  <2>1. OpeningFits(o, tab[t], epoch)  BY <1>0, <1>1 DEF OneTabFits
  <2> QED BY <1>0, <1>1, <2>1, OpeningStays
<1>4. ASSUME NEW kind \in {"app", "share"}  PROVE SyncFits(sync'[<<t, kind>>], kind, x, epoch')
  <2>1. SyncFits(sync[<<t, kind>>], kind, tab[t], epoch)  BY <1>0 DEF OneTabFits
  <2>2. kind = "share" /\ sync[<<t, kind>>].pc # "idle" => x.phase = "fetching"  OBVIOUS
  <2>3. SyncFits(sync[<<t, kind>>], kind, x, epoch')  BY <1>0, <2>1, <2>2, SyncStays
  <2> QED BY <2>3
<1>5. sync' \in [Threads -> Sync] /\ \A th \in Threads : sync'[th] = sync[th]  BY <1>0
<1> QED BY <1>2, <1>3, <1>4, <1>5, TabSteps

LEMMA IdleFits ==
    \A x, e : e \in Epochs =>
        /\ Shut \in Opening /\ OpeningFits(Shut, x, e)
        /\ Idle \in Sync /\ \A kind : SyncFits(Idle, kind, x, e)
<1>1. Shut \in Opening /\ Shut.pc = "idle" /\ Shut.for = "none" /\ Shut.epoch = 0 /\ Shut.key = 0
  BY EpochsAre DEF Shut, Opening
<1>2. Idle \in Sync /\ Idle.pc = "idle" /\ Idle.held = Empty /\ Idle.got = 0
  BY EpochsAre, EmptyFits DEF Idle, Sync, Keypairs, RingFits
<1>3. \A e \in Epochs : e \in Nat /\ 0 <= e  BY EpochsAre
<1> QED BY <1>1, <1>2, <1>3, EmptyFits DEF OpeningFits, SyncFits

\* What a tab comes to, when its calls end with it.
LEMMA TabBegins ==
    ASSUME IInv, Onward, NEW t \in Tabs, NEW x \in Tab, tab' = [tab EXCEPT ![t] = x],
           Stops(t), TabFits(x, epoch', stored', kept')
    PROVE  IInv'
<1>0. epoch' \in Epochs /\ sync \in [Threads -> Sync]  BY DEF IInv, Onward, CommonFits
<1>1. Shut \in Opening /\ OpeningFits(Shut, x, epoch') /\ Idle \in Sync
      /\ \A kind : SyncFits(Idle, kind, x, epoch')
  BY <1>0, IdleFits
<1>2. opening' = [opening EXCEPT ![t] = Shut]  BY DEF Stops
<1>3. /\ sync' \in [Threads -> Sync]
      /\ \A th \in Threads : th[1] # t => sync'[th] = sync[th]
      /\ \A th \in Threads : th[1] = t => sync'[th] = Idle
  BY <1>0, <1>1 DEF Stops
<1>4. ASSUME NEW kind \in {"app", "share"}  PROVE SyncFits(sync'[<<t, kind>>], kind, x, epoch')
  <2>1. <<t, kind>> \in Threads /\ <<t, kind>>[1] = t  BY DEF Threads
  <2> QED BY <1>1, <1>3, <2>1
<1> QED BY <1>1, <1>2, <1>3, <1>4, TabSteps

\* In these phases, and in the app, nothing is under way for the share.
LEMMA NothingUnderWay ==
    ASSUME IInv, NEW t \in Tabs
    PROVE  /\ tab[t].phase \notin {"none", "opening", "fetching"} =>
                opening[t].for \notin {"share", "pair"} /\ sync[<<t, "share">>].pc = "idle"
           /\ tab[t].view # "share" =>
                tab[t].phase = "none" /\ opening[t].for # "share" /\ sync[<<t, "share">>].pc = "idle"
           /\ tab[t].dev # Nobody => opening[t].for # "pair"
           /\ opening[t].pc = "idle" => opening[t].for = "none"
           /\ tab[t].view = "closed" => opening[t].pc = "idle"
BY DEF IInv, OneTabFits, TabFits, OpeningFits, SyncFits

\* The tabs' parts, one by one.
LEMMA TabIs ==
    ASSUME IInv, NEW t \in Tabs
    PROVE  /\ tab[t] \in Tab /\ TabFits(tab[t], epoch, stored, kept)
           /\ epoch \in Epochs /\ RingFits(local, epoch)
           /\ RingFits(Cached(t), epoch)
           /\ kept \in [Shares -> {"never", "kept", "old", "gone"}]
           /\ creds \in Devices \cup {Nobody}
           /\ tab \in [Tabs -> Tab]
BY DEF IInv, CommonFits, OneTabFits, TabFits, Cached

LEMMA AsItIs ==
    ASSUME IInv
    PROVE  epoch \in Epochs /\ epoch <= epoch /\ PartsStay(stored, stored) /\ GoesOn(kept, kept)
<1>1. epoch \in Epochs /\ epoch <= epoch  BY EpochsAre DEF IInv, CommonFits
<1>2. PartsStay(stored, stored)  BY DEF PartsStay
<1>3. GoesOn(kept, kept)  BY DEF GoesOn
<1> QED BY <1>1, <1>2, <1>3

LEMMA ClosedFits ==
    ASSUME NEW e \in Epochs, NEW st, NEW kp
    PROVE  Closed \in Tab /\ TabFits(Closed, e, st, kp)
<1>1. Empty \in Rings  BY EmptyFits, EpochsAre DEF RingFits
<1>2. Closed \in Tab  BY <1>1 DEF Closed, Tab
<1>3. /\ Closed.ring = Empty /\ Closed.session = Empty /\ Closed.using = Empty
      /\ Closed.view = "closed" /\ Closed.phase = "none" /\ Closed.leaving = FALSE
      /\ Closed.sweeps = {}
  BY DEF Closed
<1> QED BY <1>2, <1>3, EmptyFits DEF TabFits

\* A page that is loaded fits.
LEMMA LoadedFits ==
    ASSUME IInv, NEW t \in Tabs, NEW view \in {"app", "share"}, NEW s, s \in Shares \cup {NoShare},
           view = "share" => s \in Shares
    PROVE  Loaded(t, view, s) \in Tab /\ TabFits(Loaded(t, view, s), epoch, stored, kept)
<1>0. Closed \in Tab /\ tab[t] \in Tab /\ epoch \in Epochs /\ RingFits(tab[t].session, epoch)
      /\ RingFits(Cached(t), epoch) /\ creds \in Devices \cup {Nobody}
  BY TabIs, ClosedFits DEF TabFits
<1>1. RingFits(Empty, epoch)  BY <1>0, EmptyFits
<1>2. PICK r : r = IF creds # Nobody THEN Cached(t) ELSE Empty  OBVIOUS
<1>3. RingFits(r, epoch) /\ r \in Rings  BY <1>0, <1>1, <1>2 DEF RingFits
<1>4. PICK phase : phase = IF view = "share" /\ creds # Nobody THEN "loading" ELSE "none"  OBVIOUS
<1>5. PICK x : x = Loaded(t, view, s)  OBVIOUS
<1>6. PICK sw : sw = {y \in Shares : kept[y] = "old"}  OBVIOUS
<1>7. x = [view |-> view, share |-> s, dev |-> creds, ring |-> r, session |-> tab[t].session,
           stranded |-> FALSE, leaving |-> FALSE, sweeps |-> sw, phase |-> phase,
           using |-> Empty, left |-> {}, again |-> FALSE]
  BY <1>2, <1>4, <1>5, <1>6 DEF Loaded, Closed
<1>8. x \in Tab
  <2>1. tab[t].session \in Rings /\ Empty \in Rings /\ r \in Rings  BY <1>0, <1>1, <1>3 DEF RingFits
  <2>2. phase \in Phases /\ sw \in SUBSET Shares /\ {} \in SUBSET Parts  BY <1>4, <1>6 DEF Phases
  <2> QED BY <1>0, <1>7, <2>1, <2>2 DEF Tab, Phases
<1>9. TabFits(x, epoch, stored, kept)
  <2>1. \A y \in x.sweeps : kept[y] \in {"old", "gone"}  BY <1>6, <1>7
  <2>2. /\ x.ring = r /\ x.session = tab[t].session /\ x.using = Empty /\ x.view = view
        /\ x.share = s /\ x.phase = phase /\ x.dev = creds /\ x.leaving = FALSE
    BY <1>7
  <2> QED BY <1>0, <1>1, <1>3, <1>4, <1>8, <2>1, <2>2 DEF TabFits
<1> QED BY <1>5, <1>8, <1>9

\* What is common to the tabs goes on, when the account stays as it is.
LEMMA AccountStays ==
    ASSUME IInv, UNCHANGED server, creds' \in Devices \cup {Nobody}, RingFits(local', epoch),
           idb' \in [Devices -> Keypairs], kept' \in [Shares -> {"never", "kept", "old", "gone"}],
           GoesOn(kept, kept')
    PROVE  Onward
<1>1. epoch \in Nat  BY EpochsAre DEF IInv, CommonFits
<1>2. CommonFits'  BY DEF IInv, CommonFits, server, SentOpens
<1>3. PartsStay(stored, stored')  BY DEF server, PartsStay
<1> QED BY <1>1, <1>2, <1>3 DEF Onward, server

LEMMA NothingShared ==
    ASSUME IInv, UNCHANGED server, UNCHANGED browser
    PROVE  Onward
<1>1. RingFits(local', epoch) /\ GoesOn(kept, kept')  BY DEF IInv, CommonFits, browser, GoesOn
<1> QED BY <1>1, AccountStays DEF IInv, CommonFits, browser

\* A share gone stays over.
LEMMA ShareGoes ==
    ASSUME IInv, UNCHANGED server, creds' = creds, local' = local, idb' = idb,
           kept' \in [Shares -> {"never", "kept", "old", "gone"}], GoesOn(kept, kept')
    PROVE  Onward
<1>1. RingFits(local', epoch)  BY DEF IInv, CommonFits
<1> QED BY <1>1, AccountStays DEF IInv, CommonFits

LEMMA SavesFits ==
    ASSUME NEW e \in Epochs, NEW st, NEW kp, NEW x, TabFits(x, e, st, kp),
           x.view = "share", x.dev # Nobody, NEW r, RingFits(r, e), r # Empty, NEW again \in BOOLEAN
    PROVE  /\ Saves(x, r, again) \in Tab /\ TabFits(Saves(x, r, again), e, st, kp)
           /\ Saves(x, r, again).phase = "sending" /\ Saves(x, r, again).dev = x.dev
           /\ Saves(x, r, again).view = x.view /\ Saves(x, r, again).session = x.session
<1>1. x \in Tab /\ r \in Rings /\ Parts \in SUBSET Parts  BY DEF TabFits, RingFits
<1>2. PICK y : y = Saves(x, r, again)  OBVIOUS
<1>3. y = [x EXCEPT !.phase = "sending", !.using = r, !.left = Parts, !.again = again]
  BY <1>2 DEF Saves
<1>4. y \in Tab  BY <1>1, <1>3 DEF Tab
<1>5. /\ y.phase = "sending" /\ y.using = r /\ y.left = Parts /\ y.view = x.view /\ y.dev = x.dev
      /\ y.ring = x.ring /\ y.session = x.session /\ y.share = x.share /\ y.leaving = x.leaving
      /\ y.sweeps = x.sweeps
  BY <1>1, <1>3 DEF Tab
<1>6. Sent(y, st)  BY <1>5 DEF Sent
<1>7. TabFits(y, e, st, kp)  BY <1>4, <1>5, <1>6 DEF TabFits
<1> QED BY <1>2, <1>4, <1>5, <1>7

SavedAs(y, x, e, st, kp) ==
    y \in Tab /\ TabFits(y, e, st, kp) /\ y.phase = "sending" /\ y.dev = x.dev
    /\ y.view = x.view /\ y.session = x.session
LEMMA SavesAtFirst ==
    ASSUME NEW e \in Epochs, NEW st, NEW kp, NEW x, TabFits(x, e, st, kp),
           x.view = "share", x.dev # Nobody, NEW r, RingFits(r, e), r # Empty
    PROVE  SavedAs(Saves(x, r, FALSE), x, e, st, kp)
<1>1. PICK again \in BOOLEAN : again = FALSE  OBVIOUS
<1>2. SavedAs(Saves(x, r, again), x, e, st, kp)  BY SavesFits DEF SavedAs
<1> QED BY <1>1, <1>2
LEMMA SavesAgain ==
    ASSUME NEW e \in Epochs, NEW st, NEW kp, NEW x, TabFits(x, e, st, kp),
           x.view = "share", x.dev # Nobody, NEW r, RingFits(r, e), r # Empty
    PROVE  SavedAs(Saves(x, r, TRUE), x, e, st, kp)
<1>1. PICK again \in BOOLEAN : again = TRUE  OBVIOUS
<1>2. SavedAs(Saves(x, r, again), x, e, st, kp)  BY SavesFits DEF SavedAs
<1> QED BY <1>1, <1>2

\* Another phase, in which nothing is sent.
LEMMA PhaseFits ==
    ASSUME NEW e \in Epochs, NEW st, NEW kp, NEW x, TabFits(x, e, st, kp),
           NEW phase \in Phases \ {"sending"},
           phase # "none" => x.view = "share" /\ x.dev # Nobody
    PROVE  /\ [x EXCEPT !.phase = phase] \in Tab /\ TabFits([x EXCEPT !.phase = phase], e, st, kp)
           /\ [x EXCEPT !.phase = phase].phase = phase /\ [x EXCEPT !.phase = phase].dev = x.dev
<1>1. x \in Tab  BY DEF TabFits
<1>2. PICK y : y = [x EXCEPT !.phase = phase]  OBVIOUS
<1>4. y \in Tab  BY <1>1, <1>2 DEF Tab, Phases
<1>5. /\ y.phase = phase /\ y.using = x.using /\ y.view = x.view /\ y.dev = x.dev
      /\ y.ring = x.ring /\ y.session = x.session /\ y.share = x.share /\ y.leaving = x.leaving
      /\ y.sweeps = x.sweeps
  BY <1>1, <1>2 DEF Tab
<1>7. TabFits(y, e, st, kp)  BY <1>4, <1>5 DEF TabFits
<1> QED BY <1>2, <1>4, <1>5, <1>7

\* Sent under what is cached, or locked.
LEMMA BeginsFits ==
    ASSUME IInv, NEW t \in Tabs, tab[t].view = "share", tab[t].dev # Nobody
    PROVE  /\ Begins(t, tab[t]) \in Tab /\ TabFits(Begins(t, tab[t]), epoch, stored, kept)
           /\ Begins(t, tab[t]).dev = tab[t].dev
<1>1. TabFits(tab[t], epoch, stored, kept) /\ epoch \in Epochs /\ RingFits(Cached(t), epoch)
  BY TabIs
<1>2. CASE Cached(t) # Empty
  <2>1. Begins(t, tab[t]) = Saves(tab[t], Cached(t), FALSE)  BY <1>2 DEF Begins
  <2>2. SavedAs(Saves(tab[t], Cached(t), FALSE), tab[t], epoch, stored, kept)
    BY <1>1, <1>2, SavesAtFirst
  <2> QED BY <2>1, <2>2 DEF SavedAs
<1>3. CASE Cached(t) = Empty
  <2>1. Begins(t, tab[t]) = [tab[t] EXCEPT !.phase = "locked"]  BY <1>3 DEF Begins
  <2>2. "locked" \in Phases \ {"sending"}  BY DEF Phases
  <2> QED BY <1>1, <2>1, <2>2, PhaseFits
<1> QED BY <1>2, <1>3

-----------------------------------------------------------------------------
(* The page, and its share.                                                *)

\* Another tab's worth of state, the account and the browser as they were.
LEMMA PageChanges ==
    ASSUME IInv, UNCHANGED server, UNCHANGED browser, UNCHANGED calls,
           NEW t \in Tabs, NEW x, tab' = [tab EXCEPT ![t] = x],
           x \in Tab, TabFits(x, epoch, stored, kept),
           opening[t].for = "share" => x.phase = "opening",
           opening[t].for = "pair" => x.dev = Nobody,
           x.view = "closed" => opening[t].pc = "idle",
           sync[<<t, "share">>].pc # "idle" => x.phase = "fetching"
    PROVE  IInv'
<1>1. Onward /\ opening' = opening /\ sync' = sync  BY NothingShared DEF calls
<1>2. epoch' = epoch /\ stored' = stored /\ kept' = kept  BY DEF server, browser
<1>3. TabFits(x, epoch', stored', kept')  BY <1>2
<1> QED BY <1>1, <1>3, TabChanges

LEMMA ShareFits ==
    ASSUME IInv, NEW t \in Tabs, NEW s \in Shares, Share(t, s)
    PROVE  IInv'
<1>1. /\ tab' = [tab EXCEPT ![t] = Loaded(t, "share", s)] /\ kept' = [kept EXCEPT ![s] = "kept"]
      /\ tab[t].view = "closed" /\ kept[s] = "never"
      /\ epoch' = epoch /\ stored' = stored /\ opening' = opening /\ sync' = sync
      /\ UNCHANGED server /\ creds' = creds /\ local' = local /\ idb' = idb
  BY DEF Share, server, calls
<1>2. PICK x : x = Loaded(t, "share", s)  OBVIOUS
<1>3. x \in Tab /\ TabFits(x, epoch, stored, kept)  BY <1>2, LoadedFits
<1>4. kept' \in [Shares -> {"never", "kept", "old", "gone"}] /\ GoesOn(kept, kept')
  BY <1>1, TabIs DEF GoesOn
<1>5. Onward  BY <1>1, <1>4, ShareGoes
<1>6. TabFits(x, epoch', stored', kept')
  <2> QED BY <1>1, <1>3, <1>4, AsItIs, TabStays
<1>7. opening[t].for # "share" /\ sync[<<t, "share">>].pc = "idle"  BY <1>1, NothingUnderWay
<1>8. opening[t].for # "pair" /\ opening[t].pc = "idle"  BY <1>1, NothingUnderWay
<1> QED BY <1>1, <1>2, <1>3, <1>5, <1>6, <1>7, <1>8, TabChanges

LEMMA OpenAppFits ==
    ASSUME IInv, NEW t \in Tabs, OpenApp(t)
    PROVE  IInv'
<1>1. /\ tab' = [tab EXCEPT ![t] = Loaded(t, "app", NoShare)] /\ tab[t].view = "closed"
      /\ UNCHANGED server /\ UNCHANGED browser /\ UNCHANGED calls
  BY DEF OpenApp
<1>2. PICK x : x = Loaded(t, "app", NoShare)  OBVIOUS
<1>3. x \in Tab /\ TabFits(x, epoch, stored, kept)  BY <1>2, LoadedFits
<1>4. opening[t].pc = "idle" /\ opening[t].for = "none" /\ sync[<<t, "share">>].pc = "idle"
  BY <1>1, NothingUnderWay
<1> QED BY <1>1, <1>2, <1>3, <1>4, PageChanges

LEMMA AgainFits ==
    ASSUME IInv, NEW t \in Tabs, Again(t)
    PROVE  IInv'
<1>1. /\ tab' = [tab EXCEPT ![t] = Loaded(t, tab[t].view, tab[t].share)] /\ tab[t].view # "closed"
      /\ UNCHANGED server /\ UNCHANGED browser /\ Stops(t)
  BY TabIs DEF Again
<1>2. tab[t].view \in {"app", "share"} /\ tab[t].share \in Shares \cup {NoShare}
      /\ (tab[t].view = "share" => tab[t].share \in Shares)
  BY <1>1, TabIs DEF TabFits, Tab
<1>3. PICK x : x = Loaded(t, tab[t].view, tab[t].share)  OBVIOUS
<1>4. x \in Tab /\ TabFits(x, epoch, stored, kept)  BY <1>2, <1>3, LoadedFits
<1>5. epoch' = epoch /\ stored' = stored /\ kept' = kept  BY <1>1 DEF server, browser
<1>6. TabFits(x, epoch', stored', kept')  BY <1>4, <1>5
<1> QED BY <1>1, <1>3, <1>4, <1>6, NothingShared, TabBegins

LEMMA CloseFits ==
    ASSUME IInv, NEW t \in Tabs, Close(t)
    PROVE  IInv'
<1>1. tab' = [tab EXCEPT ![t] = Closed] /\ UNCHANGED server /\ UNCHANGED browser /\ Stops(t)
  BY DEF Close
<1>2. Onward  BY <1>1, NothingShared
<1>3. Closed \in Tab /\ TabFits(Closed, epoch', stored', kept')
  BY <1>2, ClosedFits DEF Onward, CommonFits
<1> QED BY <1>1, <1>2, <1>3, TabBegins

LEMMA SweepFits ==
    ASSUME IInv, NEW t \in Tabs, Sweep(t)
    PROVE  IInv'
<1>1. /\ tab' = [tab EXCEPT ![t] = [tab[t] EXCEPT !.sweeps = {}]]
      /\ kept' = [s \in Shares |-> IF s \in tab[t].sweeps THEN "gone" ELSE kept[s]]
      /\ epoch' = epoch /\ stored' = stored /\ opening' = opening /\ sync' = sync
      /\ UNCHANGED server /\ creds' = creds /\ local' = local /\ idb' = idb
  BY TabIs DEF Sweep, server, calls
<1>2. kept' \in [Shares -> {"never", "kept", "old", "gone"}] /\ GoesOn(kept, kept')
  BY <1>1, TabIs DEF GoesOn
<1>3. Onward  BY <1>1, <1>2, ShareGoes
<1>4. PICK y : y = tab[t]  OBVIOUS
<1>5. y \in Tab /\ TabFits(y, epoch', stored', kept')
  BY <1>1, <1>2, <1>4, AsItIs, TabIs, TabStays
<1>6. PICK x : x = [y EXCEPT !.sweeps = {}]  OBVIOUS
<1>7. x \in Tab  BY <1>5, <1>6 DEF Tab
<1>8. /\ x.phase = y.phase /\ x.using = y.using /\ x.view = y.view /\ x.dev = y.dev
      /\ x.ring = y.ring /\ x.session = y.session /\ x.share = y.share /\ x.leaving = y.leaving
      /\ x.sweeps = {} /\ x.left = y.left
  BY <1>5, <1>6 DEF Tab
<1>9. TabFits(x, epoch', stored', kept')  BY <1>5, <1>7, <1>8 DEF TabFits, Sent
<1>10. /\ opening[t].for = "share" => x.phase = "opening"
       /\ opening[t].for = "pair" => x.dev = Nobody
       /\ x.view = "closed" => opening[t].pc = "idle"
       /\ sync[<<t, "share">>].pc # "idle" => x.phase = "fetching"
  BY <1>4, <1>8 DEF IInv, OneTabFits, OpeningFits, SyncFits
<1> QED BY <1>1, <1>3, <1>4, <1>6, <1>7, <1>9, <1>10, TabChanges

\* A page with nothing under way goes on, in the app or with its share.
LEMMA FreePage ==
    ASSUME IInv, UNCHANGED server, UNCHANGED browser, UNCHANGED calls,
           NEW t \in Tabs, NEW x, tab' = [tab EXCEPT ![t] = x],
           x \in Tab, TabFits(x, epoch, stored, kept), x.view # "closed",
           tab[t].phase \notin {"none", "opening", "fetching"}
    PROVE  IInv'
<1>1. opening[t].for \notin {"share", "pair"} /\ sync[<<t, "share">>].pc = "idle"
  BY NothingUnderWay
<1> QED BY <1>1, PageChanges

LEMMA ShownFits ==
    ASSUME IInv, NEW t \in Tabs, tab[t].phase # "none"
    PROVE  tab[t].view = "share" /\ tab[t].dev # Nobody /\ tab[t].share \in Shares
BY DEF IInv, OneTabFits, TabFits

LEMMA BeginsShown ==
    ASSUME IInv, NEW t \in Tabs, tab[t].phase # "none"
    PROVE  Begins(t, tab[t]).view = "share"
<1>1. tab[t] \in Tab /\ tab[t].view = "share"  BY ShownFits, TabIs
<1> QED BY <1>1 DEF Begins, Saves, Tab

LEMMA LoadFits ==
    ASSUME IInv, NEW t \in Tabs, Load(t)
    PROVE  IInv'
<1>1. /\ tab' = [tab EXCEPT ![t] = IF kept[tab[t].share] = "gone"
                                   THEN [tab[t] EXCEPT !.phase = "missing"] ELSE Begins(t, tab[t])]
      /\ tab[t].phase = "loading" /\ UNCHANGED server /\ UNCHANGED browser /\ UNCHANGED calls
  BY TabIs DEF Load
<1>2. tab[t].view = "share" /\ tab[t].dev # Nobody /\ TabFits(tab[t], epoch, stored, kept)
      /\ epoch \in Epochs /\ tab[t] \in Tab
  BY <1>1, ShownFits, TabIs
<1>3. CASE kept[tab[t].share] = "gone"
  <2>1. PICK x : x = [tab[t] EXCEPT !.phase = "missing"]  OBVIOUS
  <2>2. "missing" \in Phases \ {"sending"}  BY DEF Phases
  <2>3. x \in Tab /\ TabFits(x, epoch, stored, kept)  BY <1>2, <2>1, <2>2, PhaseFits
  <2>4. tab' = [tab EXCEPT ![t] = x]  BY <1>1, <1>3, <2>1
  <2>5. x.view = "share"  BY <1>2, <2>1 DEF Tab
  <2> QED BY <1>1, <2>3, <2>4, <2>5, FreePage
<1>4. CASE kept[tab[t].share] # "gone"
  <2>1. PICK x : x = Begins(t, tab[t])  OBVIOUS
  <2>2. x \in Tab /\ TabFits(x, epoch, stored, kept) /\ x.view = "share"
    BY <1>1, <1>2, <2>1, BeginsFits, BeginsShown
  <2>3. tab' = [tab EXCEPT ![t] = x]  BY <1>1, <1>4, <2>1
  <2> QED BY <1>1, <2>2, <2>3, FreePage
<1> QED BY <1>3, <1>4

LEMMA TryAgainFits ==
    ASSUME IInv, NEW t \in Tabs, TryAgain(t)
    PROVE  IInv'
<1>1. /\ tab' = [tab EXCEPT ![t] = Begins(t, tab[t])]
      /\ tab[t].phase = "error" /\ UNCHANGED server /\ UNCHANGED browser /\ UNCHANGED calls
  BY TabIs DEF TryAgain
<1>2. PICK x : x = Begins(t, tab[t])  OBVIOUS
<1>3. x \in Tab /\ TabFits(x, epoch, stored, kept) /\ x.view = "share"
  BY <1>1, <1>2, BeginsFits, BeginsShown, ShownFits
<1> QED BY <1>1, <1>2, <1>3, FreePage

\* Back to the app.
LeftAs(y, x) ==
    y = [x EXCEPT !.view = "app", !.share = NoShare, !.phase = "none",
                  !.using = Empty, !.left = {}, !.again = FALSE]
LEMMA LeavesFits ==
    ASSUME NEW e \in Epochs, NEW st, NEW kp, NEW x, TabFits(x, e, st, kp), x.view = "share",
           NEW y, LeftAs(y, x)
    PROVE  y \in Tab /\ TabFits(y, e, st, kp) /\ y.view = "app" /\ y.dev = x.dev
<1>1. x \in Tab /\ Empty \in Rings /\ RingFits(Empty, e)  BY EmptyFits DEF TabFits, RingFits
<1>2. y \in Tab  BY <1>1 DEF Tab, LeftAs
<1>3. /\ y.phase = "none" /\ y.using = Empty /\ y.view = "app" /\ y.dev = x.dev
      /\ y.ring = x.ring /\ y.session = x.session /\ y.leaving = x.leaving
      /\ y.sweeps = x.sweeps
  BY <1>1 DEF Tab, LeftAs
<1> QED BY <1>1, <1>2, <1>3 DEF TabFits

LEMMA DoneFits ==
    ASSUME IInv, NEW t \in Tabs, Done(t)
    PROVE  IInv'
<1>1. /\ Leaves(t) /\ tab[t].phase \in {"saved", "missing", "error"}
      /\ UNCHANGED server /\ UNCHANGED browser /\ UNCHANGED calls
  BY DEF Done
<1>2. PICK x : LeftAs(x, tab[t])  BY DEF LeftAs
<1>3. tab' = [tab EXCEPT ![t] = x]  BY <1>1, <1>2, TabIs DEF Leaves, LeftAs
<1>4. x \in Tab /\ TabFits(x, epoch, stored, kept) /\ x.view = "app"
  BY <1>1, <1>2, LeavesFits, TabIs, ShownFits
<1> QED BY <1>1, <1>3, <1>4, FreePage

LEMMA DiscardFits ==
    ASSUME IInv, NEW t \in Tabs, Discard(t)
    PROVE  IInv'
<1>1. /\ Leaves(t) /\ tab[t].phase \in {"locked", "error"}
      /\ kept' = [kept EXCEPT ![tab[t].share] = "gone"]
      /\ epoch' = epoch /\ stored' = stored /\ opening' = opening /\ sync' = sync
      /\ UNCHANGED server /\ creds' = creds /\ local' = local /\ idb' = idb
  BY DEF Discard, server, calls
<1>2. PICK x : LeftAs(x, tab[t])  BY DEF LeftAs
<1>3. tab' = [tab EXCEPT ![t] = x]  BY <1>1, <1>2, TabIs DEF Leaves, LeftAs
<1>4. x \in Tab /\ TabFits(x, epoch, stored, kept) /\ x.view = "app"
  BY <1>1, <1>2, LeavesFits, TabIs, ShownFits
<1>5. kept' \in [Shares -> {"never", "kept", "old", "gone"}] /\ GoesOn(kept, kept')
  BY <1>1, TabIs DEF GoesOn
<1>6. Onward  BY <1>1, <1>5, ShareGoes
<1>7. TabFits(x, epoch', stored', kept')  BY <1>1, <1>4, <1>5, AsItIs, TabStays
<1>8. opening[t].for \notin {"share", "pair"} /\ sync[<<t, "share">>].pc = "idle"
  BY <1>1, NothingUnderWay
<1> QED BY <1>1, <1>3, <1>4, <1>6, <1>7, <1>8, TabChanges

LEMMA SavedFits ==
    ASSUME IInv, NEW t \in Tabs, Saved(t)
    PROVE  IInv'
<1>1. /\ tab[t].phase = "sending"
      /\ kept' = [kept EXCEPT ![tab[t].share] = "gone"] \/ kept' = kept
      /\ epoch' = epoch /\ stored' = stored /\ opening' = opening /\ sync' = sync
      /\ UNCHANGED server /\ creds' = creds /\ local' = local /\ idb' = idb
  BY DEF Saved, server, calls
<1>2. PICK x : x = [tab[t] EXCEPT !.phase = "saved"]  OBVIOUS
<1>3. tab' = [tab EXCEPT ![t] = x]  BY <1>2, TabIs DEF Saved
<1>4. x \in Tab /\ TabFits(x, epoch, stored, kept) /\ x.view = "share"
  <2>1. "saved" \in Phases \ {"sending"}  BY DEF Phases
  <2>2. tab[t] \in Tab /\ TabFits(tab[t], epoch, stored, kept) /\ epoch \in Epochs
        /\ tab[t].view = "share" /\ tab[t].dev # Nobody
    BY <1>1, TabIs, ShownFits
  <2>3. x.view = "share"  BY <1>2, <2>2 DEF Tab
  <2> QED BY <1>2, <2>1, <2>2, <2>3, PhaseFits
<1>5. kept' \in [Shares -> {"never", "kept", "old", "gone"}] /\ GoesOn(kept, kept')
  BY <1>1, TabIs DEF GoesOn
<1>6. Onward  BY <1>1, <1>5, ShareGoes
<1>7. TabFits(x, epoch', stored', kept')  BY <1>1, <1>4, <1>5, AsItIs, TabStays
<1>8. opening[t].for \notin {"share", "pair"} /\ sync[<<t, "share">>].pc = "idle"
  BY <1>1, NothingUnderWay
<1> QED BY <1>1, <1>3, <1>4, <1>6, <1>7, <1>8, TabChanges

-----------------------------------------------------------------------------
(* Sending.                                                                *)

\* What is stored goes under the key of the account's epoch.
LEMMA StoresFits ==
    ASSUME IInv, NEW t \in Tabs, Sending(t), Takes(t), Stores(t),
           epoch' = epoch, devices' = devices, UNCHANGED browser
    PROVE  /\ Onward
           /\ \E r \in stored' : r.share = tab[t].share /\ r.part = Part(t)
<1>1. tab[t].phase = "sending" /\ tab[t].using # Empty /\ RingFits(tab[t].using, epoch)
      /\ tab[t].share \in Shares /\ epoch \in Epochs
  BY ShownFits, TabIs DEF Sending, TabFits
<1>2. tab[t].using[epoch] = epoch  BY <1>1, CurrentFits DEF Takes
<1>3. PICK r : r = [share |-> tab[t].share, part |-> Part(t), epoch |-> epoch, key |-> epoch]  OBVIOUS
<1>4. stored' = stored \cup {r}  BY <1>2, <1>3 DEF Stores
<1>5. Part(t) \in Parts  BY DEF Part, Parts
<1>6. r \in Row /\ r.share = tab[t].share /\ r.part = Part(t) /\ r.key = r.epoch
  BY <1>1, <1>3, <1>5 DEF Row
<1>7. CommonFits'
  <2>1. stored' \subseteq Row /\ SentOpens'
    BY <1>4, <1>6 DEF IInv, CommonFits, SentOpens
  <2> QED BY <2>1 DEF IInv, CommonFits, browser
<1>8. PartsStay(stored, stored')  BY <1>4 DEF PartsStay
<1>9. GoesOn(kept, kept') /\ epoch <= epoch'  BY AsItIs DEF browser
<1> QED BY <1>4, <1>6, <1>7, <1>8, <1>9 DEF Onward

LEMMA SendPartFits ==
    ASSUME IInv, NEW t \in Tabs, SendPart(t)
    PROVE  IInv'
<1>1. /\ Sending(t) /\ Takes(t) /\ Stores(t) /\ tab[t].phase = "sending"
      /\ epoch' = epoch /\ devices' = devices /\ UNCHANGED browser
      /\ opening' = opening /\ sync' = sync
  BY DEF SendPart, calls, Sending
<1>2. Onward /\ \E r \in stored' : r.share = tab[t].share /\ r.part = Part(t)
  BY <1>1, StoresFits
<1>3. PICK y : y = tab[t]  OBVIOUS
<1>4. PICK x : x = [y EXCEPT !.left = y.left \ {Part(t)}]  OBVIOUS
<1>5. tab' = [tab EXCEPT ![t] = x]  BY <1>3, <1>4, TabIs DEF SendPart
<1>6. y \in Tab /\ TabFits(y, epoch', stored', kept')
  BY <1>2, <1>3, TabIs, TabStays DEF Onward, CommonFits
<1>7. PICK p : p = Part(t)  OBVIOUS
<1>8. x \in Tab  BY <1>4, <1>6 DEF Tab
<1>9. /\ x.phase = y.phase /\ x.using = y.using /\ x.view = y.view /\ x.dev = y.dev
      /\ x.ring = y.ring /\ x.session = y.session /\ x.share = y.share /\ x.leaving = y.leaving
      /\ x.sweeps = y.sweeps /\ x.left = y.left \ {p}
  BY <1>4, <1>6, <1>7 DEF Tab
<1>10. Sent(x, stored')
  <2>1. Sent(y, stored')  BY <1>1, <1>3, <1>6 DEF TabFits
  <2> QED BY <1>2, <1>3, <1>7, <1>9, <2>1 DEF Sent
<1>11. TabFits(x, epoch', stored', kept')  BY <1>6, <1>8, <1>9, <1>10 DEF TabFits
<1>12. opening[t].for \notin {"share", "pair"} /\ sync[<<t, "share">>].pc = "idle"
       /\ x.view # "closed"
  BY <1>1, <1>3, <1>9, NothingUnderWay, ShownFits
<1> QED BY <1>1, <1>2, <1>5, <1>8, <1>11, <1>12, TabChanges

\* One thread of a tab goes on, and the tab with it.
LEMMA SyncSteps ==
    ASSUME IInv, Onward, NEW t \in Tabs, NEW k \in {"app", "share"},
           NEW x \in Tab, tab' = [tab EXCEPT ![t] = x], opening' = opening,
           NEW y \in Sync, sync' = [sync EXCEPT ![<<t, k>>] = y],
           TabFits(x, epoch', stored', kept'), SyncFits(y, k, x, epoch'),
           opening[t].for = "share" => x.phase = "opening",
           opening[t].for = "pair" => x.dev = Nobody,
           x.view = "closed" => opening[t].pc = "idle",
           k = "app" /\ sync[<<t, "share">>].pc # "idle" => x.phase = "fetching"
    PROVE  IInv'
<1>0. OneTabFits(t) /\ epoch \in Epochs /\ epoch' \in Epochs /\ epoch <= epoch'
      /\ opening \in [Tabs -> Opening] /\ sync \in [Threads -> Sync] /\ <<t, k>> \in Threads
  BY DEF IInv, Onward, CommonFits, Threads
<1>1. PICK o \in Opening : o = opening[t]  BY <1>0
<1>2. opening' = [opening EXCEPT ![t] = o]  BY <1>0, <1>1
<1>3. OpeningFits(o, x, epoch')
  <2>1. OpeningFits(o, tab[t], epoch)  BY <1>0, <1>1 DEF OneTabFits
  <2> QED BY <1>0, <1>1, <2>1, OpeningStays
<1>4. sync' \in [Threads -> Sync] /\ sync'[<<t, k>>] = y
      /\ \A th \in Threads : th # <<t, k>> => sync'[th] = sync[th]
  BY <1>0
<1>5. \A th \in Threads : th[1] # t => sync'[th] = sync[th]
  <2>1. <<t, k>>[1] = t  OBVIOUS
  <2> QED BY <1>4, <2>1
<1>6. ASSUME NEW kind \in {"app", "share"}, kind # k
      PROVE  SyncFits(sync'[<<t, kind>>], kind, x, epoch')
  <2>1. <<t, kind>> \in Threads /\ <<t, kind>> # <<t, k>>  BY <1>6 DEF Threads
  <2>2. sync'[<<t, kind>>] = sync[<<t, kind>>]  BY <1>4, <2>1
  <2>3. SyncFits(sync[<<t, kind>>], kind, tab[t], epoch)  BY <1>0 DEF OneTabFits
  <2>4. kind = "share" /\ sync[<<t, kind>>].pc # "idle" => x.phase = "fetching"  BY <1>6
  <2> QED BY <1>0, <2>2, <2>3, <2>4, SyncStays
<1>7. \A kind \in {"app", "share"} : SyncFits(sync'[<<t, kind>>], kind, x, epoch')
  BY <1>4, <1>6
<1> QED BY <1>2, <1>3, <1>4, <1>5, <1>7, TabSteps

\* An opening goes on, and its tab with it.
LEMMA OpeningSteps ==
    ASSUME IInv, Onward, NEW t \in Tabs,
           NEW x \in Tab, tab' = [tab EXCEPT ![t] = x], sync' = sync,
           NEW o \in Opening, opening' = [opening EXCEPT ![t] = o],
           TabFits(x, epoch', stored', kept'), OpeningFits(o, x, epoch'),
           sync[<<t, "share">>].pc # "idle" => x.phase = "fetching"
    PROVE  IInv'
<1>0. OneTabFits(t) /\ epoch \in Epochs /\ epoch' \in Epochs /\ epoch <= epoch'
      /\ sync \in [Threads -> Sync]
  BY DEF IInv, Onward, CommonFits
<1>4. ASSUME NEW kind \in {"app", "share"}  PROVE SyncFits(sync'[<<t, kind>>], kind, x, epoch')
  <2>1. SyncFits(sync[<<t, kind>>], kind, tab[t], epoch)  BY <1>0 DEF OneTabFits
  <2>2. kind = "share" /\ sync[<<t, kind>>].pc # "idle" => x.phase = "fetching"  OBVIOUS
  <2>3. SyncFits(sync[<<t, kind>>], kind, x, epoch')  BY <1>0, <2>1, <2>2, SyncStays
  <2> QED BY <2>3
<1>5. sync' \in [Threads -> Sync] /\ \A th \in Threads : sync'[th] = sync[th]  BY <1>0
<1> QED BY <1>4, <1>5, TabSteps

LEMMA GetFits ==
    ASSUME NEW e \in Epochs, NEW d \in Devices, NEW r, RingFits(r, e), NEW x,
           NEW kind, kind = "share" => x.phase = "fetching",
           NEW y, y = [Idle EXCEPT !.pc = "get", !.dev = d, !.held = r]
    PROVE  y \in Sync /\ SyncFits(y, kind, x, e)
<1>1. Idle \in Sync /\ r \in Rings /\ Idle.got = 0 /\ e \in Nat
  BY IdleFits, EpochsAre DEF RingFits, Idle
<1>2. y \in Sync  BY <1>1 DEF Sync
<1>3. y.pc = "get" /\ y.dev = d /\ y.held = r /\ y.got = 0  BY <1>1 DEF Sync
<1> QED BY <1>1, <1>2, <1>3 DEF SyncFits

LEMMA SendStaleFits ==
    ASSUME IInv, NEW t \in Tabs, SendStale(t)
    PROVE  IInv'
<1>1. /\ tab[t].phase = "sending" /\ UNCHANGED server /\ UNCHANGED browser /\ opening' = opening
      /\ epoch' = epoch /\ stored' = stored /\ kept' = kept
  BY DEF SendStale, Sending, server, browser
<1>2. /\ tab[t] \in Tab /\ TabFits(tab[t], epoch, stored, kept) /\ epoch \in Epochs
      /\ tab[t].view = "share" /\ tab[t].dev # Nobody /\ tab[t].dev \in Devices
      /\ RingFits(tab[t].using, epoch)
  BY <1>1, TabIs, ShownFits DEF TabFits, Tab
<1>3. opening[t].for \notin {"share", "pair"} /\ sync[<<t, "share">>].pc = "idle"
  BY <1>1, NothingUnderWay
<1>4. Onward  BY <1>1, NothingShared
<1>5. CASE tab[t].again
  <2>1. PICK x : x = [tab[t] EXCEPT !.phase = "error"]  OBVIOUS
  <2>2. tab' = [tab EXCEPT ![t] = x] /\ UNCHANGED calls
    BY <1>1, <1>5, <2>1, TabIs DEF SendStale, calls
  <2>3. "error" \in Phases \ {"sending"}  BY DEF Phases
  <2>4. x \in Tab /\ TabFits(x, epoch, stored, kept)  BY <1>2, <2>1, <2>3, PhaseFits
  <2>5. x.view = "share"  BY <1>2, <2>1 DEF Tab
  <2> QED BY <1>1, <2>2, <2>4, <2>5, FreePage
<1>6. CASE ~tab[t].again
  <2>1. PICK x : x = [tab[t] EXCEPT !.phase = "fetching"]  OBVIOUS
  <2>2. tab' = [tab EXCEPT ![t] = x] /\ Starts(<<t, "share">>, tab[t].dev, tab[t].using)
    BY <1>1, <1>6, <2>1, TabIs DEF SendStale
  <2>3. "fetching" \in Phases \ {"sending"}  BY DEF Phases
  <2>4. x \in Tab /\ TabFits(x, epoch, stored, kept)  BY <1>2, <2>1, <2>3, PhaseFits
  <2>5. x.view = "share" /\ x.phase = "fetching"  BY <1>2, <2>1 DEF Tab
  <2>6. PICK y : y = [Idle EXCEPT !.pc = "get", !.dev = tab[t].dev, !.held = tab[t].using]  OBVIOUS
  <2>7. sync' = [sync EXCEPT ![<<t, "share">>] = y]  BY <2>2, <2>6 DEF Starts
  <2>8. y \in Sync /\ SyncFits(y, "share", x, epoch)  BY <1>2, <2>5, <2>6, GetFits
  <2>9. TabFits(x, epoch', stored', kept') /\ SyncFits(y, "share", x, epoch')
    BY <1>1, <2>4, <2>8
  <2> QED BY <1>1, <1>3, <1>4, <2>2, <2>4, <2>5, <2>7, <2>8, <2>9, SyncSteps
<1> QED BY <1>5, <1>6

LEMMA SendFailsFits ==
    ASSUME IInv, NEW t \in Tabs, SendFails(t)
    PROVE  IInv'
<1>1. /\ Sending(t) /\ tab[t].phase = "sending" /\ opening' = opening /\ sync' = sync
      /\ epoch' = epoch /\ devices' = devices /\ UNCHANGED browser
      /\ stored' = stored \/ (Takes(t) /\ Stores(t))
  BY DEF SendFails, Sending, calls
<1>2. Onward
  <2>1. CASE stored' = stored
    <3>1. UNCHANGED server  BY <1>1, <2>1 DEF server
    <3> QED BY <1>1, <3>1, NothingShared
  <2>2. CASE Takes(t) /\ Stores(t)  BY <1>1, <2>2, StoresFits
  <2> QED BY <1>1, <2>1, <2>2
<1>3. PICK x : x = [tab[t] EXCEPT !.phase = "error"]  OBVIOUS
<1>4. tab' = [tab EXCEPT ![t] = x]  BY <1>3, TabIs DEF SendFails
<1>5. "error" \in Phases \ {"sending"}  BY DEF Phases
<1>6. tab[t] \in Tab /\ TabFits(tab[t], epoch', stored', kept') /\ epoch' \in Epochs
      /\ tab[t].view = "share" /\ tab[t].dev # Nobody
  BY <1>1, <1>2, ShownFits, TabIs, TabStays DEF Onward, CommonFits
<1>7. x \in Tab /\ TabFits(x, epoch', stored', kept')  BY <1>3, <1>5, <1>6, PhaseFits
<1>8. x.view = "share"  BY <1>3, <1>6 DEF Tab
<1>9. opening[t].for \notin {"share", "pair"} /\ sync[<<t, "share">>].pc = "idle"
  BY <1>1, NothingUnderWay
<1> QED BY <1>1, <1>2, <1>4, <1>7, <1>8, <1>9, TabChanges

LEMMA SendRefusedFits ==
    ASSUME IInv, NEW t \in Tabs, SendRefused(t)
    PROVE  IInv'
<1>1. /\ Sending(t) /\ tab[t].phase = "sending" /\ opening' = opening /\ sync' = sync
      /\ UNCHANGED <<server, browser>>
  BY DEF SendRefused, Sending, calls
<1>2. Onward  BY <1>1, NothingShared
<1>3. PICK x : x = [tab[t] EXCEPT !.phase = "error"]  OBVIOUS
<1>4. tab' = [tab EXCEPT ![t] = x]  BY <1>3, TabIs DEF SendRefused
<1>5. "error" \in Phases \ {"sending"}  BY DEF Phases
<1>6. tab[t] \in Tab /\ TabFits(tab[t], epoch', stored', kept') /\ epoch' \in Epochs
      /\ tab[t].view = "share" /\ tab[t].dev # Nobody
  BY <1>1, <1>2, ShownFits, TabIs, TabStays DEF Onward, CommonFits
<1>7. x \in Tab /\ TabFits(x, epoch', stored', kept')  BY <1>3, <1>5, <1>6, PhaseFits
<1>8. x.view = "share"  BY <1>3, <1>6 DEF Tab
<1>9. opening[t].for \notin {"share", "pair"} /\ sync[<<t, "share">>].pc = "idle"
  BY <1>1, NothingUnderWay
<1> QED BY <1>1, <1>2, <1>4, <1>7, <1>8, <1>9, TabChanges

-----------------------------------------------------------------------------
(* Enrolling, unlocking, and forgetting.                                   *)

\* The devices change, and what the browser has of them.
LEMMA DevicesChange ==
    ASSUME IInv, epoch' = epoch, stored' = stored, kept' = kept,
           devices' \in [Devices -> Device], \A d \in Devices : devices'[d].at <= epoch,
           creds' \in Devices \cup {Nobody}, RingFits(local', epoch),
           idb' \in [Devices -> Keypairs]
    PROVE  Onward
<1>1. CommonFits'  BY DEF IInv, CommonFits, SentOpens
<1> QED BY <1>1, AsItIs DEF Onward

LEMMA DevicesStay ==
    ASSUME IInv
    PROVE  /\ devices \in [Devices -> Device] /\ \A d \in Devices : devices[d].at <= epoch
           /\ idb \in [Devices -> Keypairs] /\ creds \in Devices \cup {Nobody}
           /\ RingFits(local, epoch)
BY DEF IInv, CommonFits

\* cacheRing, wherever the ring goes.
Caches(t, x, r) ==
    \/ local' = r /\ tab' = [tab EXCEPT ![t] = [x EXCEPT !.session = Empty]]
    \/ local' = Empty /\ tab' = [tab EXCEPT ![t] = [x EXCEPT !.session = r]]

LEMMA SessionFits ==
    ASSUME NEW e \in Epochs, NEW st, NEW kp, NEW x, TabFits(x, e, st, kp), NEW r, RingFits(r, e),
           NEW y, y = [x EXCEPT !.session = r]
    PROVE  /\ y \in Tab /\ TabFits(y, e, st, kp)
           /\ y.phase = x.phase /\ y.view = x.view /\ y.dev = x.dev
<1>1. x \in Tab /\ r \in Rings  BY DEF TabFits, RingFits
<1>2. y \in Tab  BY <1>1 DEF Tab
<1>3. /\ y.phase = x.phase /\ y.using = x.using /\ y.view = x.view /\ y.dev = x.dev
      /\ y.ring = x.ring /\ y.session = r /\ y.share = x.share /\ y.leaving = x.leaving
      /\ y.sweeps = x.sweeps /\ y.left = x.left
  BY <1>1 DEF Tab
<1>4. Sent(x, st) => Sent(y, st)  BY <1>3 DEF Sent
<1> QED BY <1>2, <1>3, <1>4 DEF TabFits

LEMMA CachesFits ==
    ASSUME IInv, epoch' \in Epochs, NEW t \in Tabs, NEW x, TabFits(x, epoch', stored', kept'),
           NEW r, RingFits(r, epoch'), Caches(t, x, r)
    PROVE  /\ RingFits(local', epoch')
           /\ \E y \in Tab : /\ tab' = [tab EXCEPT ![t] = y] /\ TabFits(y, epoch', stored', kept')
                             /\ y.phase = x.phase /\ y.view = x.view /\ y.dev = x.dev
<1>1. RingFits(Empty, epoch')  BY EmptyFits
<1>2. CASE local' = r /\ tab' = [tab EXCEPT ![t] = [x EXCEPT !.session = Empty]]
  <2>1. PICK y : y = [x EXCEPT !.session = Empty]  OBVIOUS
  <2>2. y \in Tab /\ TabFits(y, epoch', stored', kept')
        /\ y.phase = x.phase /\ y.view = x.view /\ y.dev = x.dev
    BY <1>1, <2>1, SessionFits
  <2>3. tab' = [tab EXCEPT ![t] = y]  BY <1>2, <2>1
  <2> QED BY <1>2, <2>2, <2>3
<1>3. CASE local' = Empty /\ tab' = [tab EXCEPT ![t] = [x EXCEPT !.session = r]]
  <2>1. PICK y : y = [x EXCEPT !.session = r]  OBVIOUS
  <2>2. y \in Tab /\ TabFits(y, epoch', stored', kept')
        /\ y.phase = x.phase /\ y.view = x.view /\ y.dev = x.dev
    BY <2>1, SessionFits
  <2>3. tab' = [tab EXCEPT ![t] = y]  BY <1>3, <2>1
  <2> QED BY <1>1, <1>3, <2>2, <2>3
<1> QED BY <1>2, <1>3 DEF Caches

LEMMA NewDeviceFits ==
    ASSUME Unused # {}
    PROVE  NewDevice \in Devices
<1>1. Unused \in SUBSET Nat /\ Unused \subseteq Devices  BY EpochsAre DEF Unused
<1>2. \E d \in Unused : \A x \in Unused : d <= x  BY <1>1, LeastOfNaturals
<1>3. NewDevice \in Unused  BY <1>2 DEF NewDevice
<1> QED BY <1>1, <1>3

LEMMA EnrolsFits ==
    ASSUME IInv, NEW d \in Devices, Enrols(d)
    PROVE  /\ devices' \in [Devices -> Device] /\ \A x \in Devices : devices'[x].at <= epoch
           /\ idb' \in [Devices -> Keypairs]
<1>1. PICK v : v = [status |-> "on", at |-> epoch, pub |-> NoKey, sealed |-> NoKey]  OBVIOUS
<1>2. v \in Device /\ v.at <= epoch /\ NoKey \in Keypairs
  BY <1>1, AsItIs DEF Device, Keypairs
<1>3. devices' = [devices EXCEPT ![d] = v] /\ idb' = [idb EXCEPT ![d] = NoKey]
  BY <1>1 DEF Enrols
<1> QED BY <1>2, <1>3, DevicesStay

\* A page that enrolled: its own device, and its ring.
LEMMA EnrolledFits ==
    ASSUME IInv, NEW t \in Tabs, tab[t].dev = Nobody, NEW d \in Devices, NEW r, RingFits(r, epoch)
    PROVE  /\ Enrolled(t, d, r) \in Tab /\ TabFits(Enrolled(t, d, r), epoch, stored, kept)
           /\ Enrolled(t, d, r).phase \in {"none", "loading"} /\ Enrolled(t, d, r).dev = d
           /\ Enrolled(t, d, r).view = tab[t].view
<1>1. PICK x : x = tab[t]  OBVIOUS
<1>2. x \in Tab /\ TabFits(x, epoch, stored, kept) /\ epoch \in Epochs /\ d # Nobody /\ x.phase = "none"
  BY <1>1, TabIs, EpochsAre DEF TabFits
<1>3. PICK q : q = IF x.ring = Empty THEN r ELSE x.ring  OBVIOUS
<1>4. RingFits(q, epoch) /\ q \in Rings  BY <1>2, <1>3 DEF TabFits, RingFits
<1>5. PICK phase : phase = IF x.view = "share" THEN "loading" ELSE "none"  OBVIOUS
<1>6. PICK y : y = Enrolled(t, d, r)  OBVIOUS
<1>7. y = [x EXCEPT !.dev = d, !.ring = q, !.phase = phase]
  BY <1>1, <1>2, <1>3, <1>5, <1>6 DEF Enrolled, Tab
<1>8. y \in Tab  BY <1>2, <1>4, <1>5, <1>7 DEF Tab
<1>9. /\ y.phase = phase /\ y.using = x.using /\ y.view = x.view /\ y.dev = d
      /\ y.ring = q /\ y.session = x.session /\ y.share = x.share /\ y.leaving = x.leaving
      /\ y.sweeps = x.sweeps
  BY <1>2, <1>7 DEF Tab
<1>10. TabFits(y, epoch, stored, kept)  BY <1>2, <1>4, <1>5, <1>8, <1>9 DEF TabFits
<1> QED BY <1>1, <1>5, <1>6, <1>8, <1>9, <1>10

LEMMA KeepsFits ==
    ASSUME IInv, NEW t \in Tabs, NEW d \in Devices, tab[t].dev = Nobody, tab[t].view # "closed",
           opening[t].pc = "idle", Keeps(t, d),
           devices' \in [Devices -> Device], \A x \in Devices : devices'[x].at <= epoch,
           idb' \in [Devices -> Keypairs]
    PROVE  IInv'
<1>1. /\ creds' = d /\ epoch' = epoch /\ stored' = stored /\ kept' = kept
      /\ opening' = opening /\ sync' = sync
  BY DEF Keeps, calls
<1>2. PICK x : x = Enrolled(t, d, OnlyKey(epoch))  OBVIOUS
<1>3. PICK r : r = OnlyKey(epoch)  OBVIOUS
<1>4. epoch \in Epochs /\ RingFits(r, epoch)  BY <1>3, AsItIs, OnlyKeyFits
<1>5. x \in Tab /\ TabFits(x, epoch, stored, kept) /\ x.view = tab[t].view
      /\ x.phase \in {"none", "loading"}
  BY <1>2, <1>3, <1>4, EnrolledFits
<1>6. Caches(t, x, r)  BY <1>2, <1>3 DEF Keeps, Cache, Caches
<1>7. epoch' \in Epochs /\ TabFits(x, epoch', stored', kept') /\ RingFits(r, epoch')
  BY <1>1, <1>4, <1>5
<1>8. RingFits(local', epoch')  BY <1>6, <1>7, CachesFits
<1>9. PICK y \in Tab : /\ tab' = [tab EXCEPT ![t] = y] /\ TabFits(y, epoch', stored', kept')
                       /\ y.phase = x.phase /\ y.view = x.view
  BY <1>6, <1>7, CachesFits
<1>10. Onward  BY <1>1, <1>8, DevicesChange
<1>11. /\ opening[t].for = "none" /\ tab[t].phase = "none"
       /\ sync[<<t, "share">>].pc = "idle"
  BY NothingUnderWay DEF IInv, OneTabFits, TabFits, SyncFits
<1> QED BY <1>1, <1>5, <1>9, <1>10, <1>11, TabChanges

LEMMA SignInFits ==
    ASSUME IInv, NEW t \in Tabs, SignIn(t)
    PROVE  IInv'
<1>1. NewDevice \in Devices  BY NewDeviceFits DEF SignIn, EnrolHere
<1>2. PICK d \in Devices : d = NewDevice  BY <1>1
<1>3. tab[t].dev = Nobody /\ tab[t].view # "closed" /\ opening[t].pc = "idle"
      /\ Enrols(d) /\ Keeps(t, d)
  BY <1>2 DEF SignIn, EnrolHere
<1> QED BY <1>3, EnrolsFits, KeepsFits

LEMMA RecoverAloneFits ==
    ASSUME IInv, NEW t \in Tabs, RecoverAlone(t)
    PROVE  IInv'
<1>1. NewDevice \in Devices  BY NewDeviceFits DEF RecoverAlone, EnrolHere
<1>2. PICK d \in Devices : d = NewDevice  BY <1>1
<1>3. tab[t].dev = Nobody /\ tab[t].view # "closed" /\ opening[t].pc = "idle" /\ Keeps(t, d)
  BY <1>2 DEF RecoverAlone, EnrolHere
<1>4. idb' = [idb EXCEPT ![d] = NoKey]
      /\ devices' = [x \in Devices |->
                       [status |-> IF x = d THEN "on" ELSE "off",
                        at |-> IF x = d THEN epoch ELSE devices[x].at,
                        pub |-> NoKey, sealed |-> NoKey]]
  BY <1>2 DEF RecoverAlone
<1>5. NoKey \in Keypairs /\ epoch \in Epochs /\ epoch <= epoch  BY AsItIs DEF Keypairs
<1>6. idb' \in [Devices -> Keypairs]  BY <1>4, <1>5, DevicesStay
<1>7. ASSUME NEW x \in Devices  PROVE devices'[x] \in Device /\ devices'[x].at <= epoch
  <2>1. devices[x] \in Device /\ devices[x].at \in Epochs /\ devices[x].at <= epoch
    BY DevicesStay DEF Device
  <2>2. devices'[x] = [status |-> IF x = d THEN "on" ELSE "off",
                       at |-> IF x = d THEN epoch ELSE devices[x].at,
                       pub |-> NoKey, sealed |-> NoKey]
    BY <1>4
  <2> QED BY <1>5, <2>1, <2>2 DEF Device
<1>8. devices' \in [Devices -> Device]  BY <1>4, <1>7
<1> QED BY <1>3, <1>6, <1>7, <1>8, KeepsFits

LEMMA JoinFits ==
    ASSUME IInv, NEW t \in Tabs, NEW persist \in BOOLEAN, Join(t, persist)
    PROVE  IInv'
<1>1. NewDevice \in Devices  BY NewDeviceFits DEF Join
<1>2. PICK d \in Devices : d = NewDevice  BY <1>1
<1>3. PICK r : r = OnlyKey(epoch)  OBVIOUS
<1>4. PICK z : z = Loaded(t, "app", NoShare)  OBVIOUS
<1>5. PICK q : q = IF z.ring = Empty THEN r ELSE z.ring  OBVIOUS
<1>6. PICK x : x = [z EXCEPT !.dev = d, !.ring = q]  OBVIOUS
<1>7. epoch \in Epochs /\ RingFits(r, epoch)  BY <1>3, AsItIs, OnlyKeyFits
<1>8. z \in Tab /\ TabFits(z, epoch, stored, kept)  BY <1>4, LoadedFits
<1>9. RingFits(q, epoch) /\ q \in Rings /\ d # Nobody
  BY <1>5, <1>7, <1>8, EpochsAre DEF TabFits, RingFits
<1>10. x \in Tab  BY <1>6, <1>8, <1>9 DEF Tab
<1>11. /\ x.phase = z.phase /\ x.using = z.using /\ x.view = z.view /\ x.dev = d
       /\ x.ring = q /\ x.session = z.session /\ x.share = z.share /\ x.leaving = z.leaving
       /\ x.sweeps = z.sweeps /\ x.left = z.left
  BY <1>6, <1>8 DEF Tab
<1>12. Sent(z, stored) => Sent(x, stored)  BY <1>11 DEF Sent
<1>13. TabFits(x, epoch, stored, kept)  BY <1>8, <1>9, <1>10, <1>11, <1>12 DEF TabFits
<1>14. /\ Enrols(d) /\ creds' = d /\ Stops(t)
       /\ epoch' = epoch /\ stored' = stored /\ kept' = kept
  BY <1>2 DEF Join
<1>15. Caches(t, x, r)
  <2>1. Cache(t, [z EXCEPT !.dev = d, !.ring = IF z.ring = Empty THEN r ELSE z.ring], r, persist)
    BY <1>2, <1>3, <1>4, <1>8 DEF Join, Tab
  <2>2. Cache(t, x, r, persist)  BY <1>5, <1>6, <2>1
  <2> QED BY <2>2 DEF Cache, Caches
<1>16. epoch' \in Epochs /\ TabFits(x, epoch', stored', kept') /\ RingFits(r, epoch')
  BY <1>7, <1>13, <1>14
<1>17. RingFits(local', epoch')  BY <1>15, <1>16, CachesFits
<1>18. PICK y \in Tab : tab' = [tab EXCEPT ![t] = y] /\ TabFits(y, epoch', stored', kept')
  BY <1>15, <1>16, CachesFits
<1>19. Onward  BY <1>14, <1>17, EnrolsFits, DevicesChange
<1> QED BY <1>14, <1>18, <1>19, TabBegins

\* An opening goes on, its tab as it was.
LEMMA OpeningAlone ==
    ASSUME IInv, Onward, NEW t \in Tabs, tab' = tab, sync' = sync,
           NEW o \in Opening, opening' = [opening EXCEPT ![t] = o],
           OpeningFits(o, tab[t], epoch)
    PROVE  IInv'
<1>1. PICK x \in Tab : x = tab[t]  BY TabIs
<1>2. tab' = [tab EXCEPT ![t] = x]  BY <1>1, TabIs
<1>3. epoch \in Epochs /\ epoch' \in Epochs /\ epoch <= epoch'  BY AsItIs DEF Onward, CommonFits
<1>4. TabFits(x, epoch', stored', kept')  BY <1>1, <1>3, TabIs, TabStays DEF Onward
<1>5. OpeningFits(o, x, epoch')
  <2>1. OpeningFits(o, x, epoch)  BY <1>1
  <2> QED BY <1>3, <2>1, OpeningStays DEF OpeningFits
<1>6. sync[<<t, "share">>].pc # "idle" => x.phase = "fetching"
  BY <1>1 DEF IInv, OneTabFits, SyncFits
<1> QED BY <1>1, <1>2, <1>4, <1>5, <1>6, OpeningSteps

Asked(why, d) == [pc |-> "ask", for |-> why, dev |-> d, epoch |-> 0, key |-> 0]

LEMMA AskedIs ==
    \A why, d : [Shut EXCEPT !.pc = "ask", !.for = why, !.dev = d] = Asked(why, d)
<1>1. TAKE why, d
<1>2. PICK o : o = [Shut EXCEPT !.pc = "ask", !.for = why, !.dev = d]  OBVIOUS
<1>3. o = [pc |-> "ask", for |-> why, dev |-> d, epoch |-> 0, key |-> 0]  BY <1>2 DEF Shut
<1> QED BY <1>2, <1>3 DEF Asked

LEMMA AsksFits ==
    ASSUME NEW e \in Epochs, NEW d \in Devices, NEW why \in {"app", "share", "pair"}, NEW x,
           why = "share" => x.phase = "opening", why = "pair" => x.dev = Nobody,
           x.view # "closed",
           NEW o, o = Asked(why, d)
    PROVE  o \in Opening /\ OpeningFits(o, x, e)
<1>2. o \in Opening  BY EpochsAre DEF Opening, Asked
<1>3. 0 <= e  BY EpochsAre
<1>4. o.pc = "ask" /\ o.for = why /\ o.dev = d /\ o.epoch = 0 /\ o.key = 0  BY DEF Asked
<1> QED BY <1>2, <1>3, <1>4 DEF OpeningFits

LEMMA PairFits ==
    ASSUME IInv, NEW t \in Tabs, Pair(t)
    PROVE  IInv'
<1>1. NewDevice \in Devices  BY NewDeviceFits DEF Pair, EnrolHere
<1>2. PICK d \in Devices : d = NewDevice  BY <1>1
<1>3. PICK o : o = Asked("pair", d)  OBVIOUS
<1>4. /\ tab[t].dev = Nobody /\ tab[t].view # "closed" /\ Enrols(d)
      /\ opening' = [opening EXCEPT ![t] = o]
      /\ epoch' = epoch /\ stored' = stored /\ kept' = kept /\ creds' = creds /\ local' = local
      /\ tab' = tab /\ sync' = sync
  BY <1>2, <1>3, AskedIs DEF Pair, EnrolHere
<1>5. o \in Opening /\ OpeningFits(o, tab[t], epoch)  BY <1>2, <1>3, <1>4, AsItIs, AsksFits
<1>6. Onward  BY <1>4, EnrolsFits, DevicesStay, DevicesChange
<1> QED BY <1>4, <1>5, <1>6, OpeningAlone

LEMMA UnlockFits ==
    ASSUME IInv, NEW t \in Tabs, Unlock(t)
    PROVE  IInv'
<1>1. PICK o : o = Asked("app", tab[t].dev)  OBVIOUS
<1>2. /\ tab[t].view = "app" /\ tab[t].dev # Nobody
      /\ opening' = [opening EXCEPT ![t] = o] /\ tab' = tab /\ sync' = sync
      /\ UNCHANGED server /\ UNCHANGED browser
  BY <1>1, AskedIs DEF Unlock
<1>3. tab[t].dev \in Devices  BY <1>2, TabIs DEF Tab
<1>4. o \in Opening /\ OpeningFits(o, tab[t], epoch)  BY <1>1, <1>2, <1>3, AsItIs, AsksFits
<1> QED BY <1>2, <1>4, NothingShared, OpeningAlone

LEMMA UnlockShareFits ==
    ASSUME IInv, NEW t \in Tabs, UnlockShare(t)
    PROVE  IInv'
<1>1. PICK o : o = Asked("share", tab[t].dev)  OBVIOUS
<1>2. PICK x : x = [tab[t] EXCEPT !.phase = "opening"]  OBVIOUS
<1>3. /\ tab[t].phase = "locked" /\ tab' = [tab EXCEPT ![t] = x]
      /\ opening' = [opening EXCEPT ![t] = o] /\ sync' = sync
      /\ UNCHANGED server /\ UNCHANGED browser
      /\ epoch' = epoch /\ stored' = stored /\ kept' = kept
  BY <1>1, <1>2, AskedIs, TabIs DEF UnlockShare, server, browser
<1>4. /\ tab[t] \in Tab /\ TabFits(tab[t], epoch, stored, kept) /\ epoch \in Epochs
      /\ tab[t].view = "share" /\ tab[t].dev # Nobody /\ tab[t].dev \in Devices
  BY <1>3, ShownFits, TabIs DEF Tab
<1>5. "opening" \in Phases \ {"sending"}  BY DEF Phases
<1>6. x \in Tab /\ TabFits(x, epoch, stored, kept)  BY <1>2, <1>4, <1>5, PhaseFits
<1>7. x.phase = "opening" /\ x.view = "share"  BY <1>2, <1>4 DEF Tab
<1>8. o \in Opening /\ OpeningFits(o, x, epoch)  BY <1>1, <1>4, <1>7, AsksFits
<1>9. TabFits(x, epoch', stored', kept') /\ OpeningFits(o, x, epoch')  BY <1>3, <1>6, <1>8
<1>10. sync[<<t, "share">>].pc = "idle"  BY <1>3, NothingUnderWay
<1> QED BY <1>3, <1>6, <1>8, <1>9, <1>10, NothingShared, OpeningSteps

LEMMA OpeningIs ==
    ASSUME IInv, NEW t \in Tabs
    PROVE  opening[t] \in Opening /\ OpeningFits(opening[t], tab[t], epoch)
BY DEF IInv, OneTabFits, OpeningFits

LEMMA DerivesFits ==
    ASSUME IInv, NEW t \in Tabs, opening[t].pc = "ask", NEW a \in Epochs, NEW k \in Epochs,
           a <= epoch, k <= epoch, a # 0 => k = a,
           NEW o, o = [opening[t] EXCEPT !.pc = "derive", !.epoch = a, !.key = k]
    PROVE  o \in Opening /\ OpeningFits(o, tab[t], epoch)
<1>1. opening[t] \in Opening /\ OpeningFits(opening[t], tab[t], epoch)  BY OpeningIs
<1>2. o \in Opening  BY <1>1 DEF Opening
<1>3. o.pc = "derive" /\ o.epoch = a /\ o.key = k /\ o.for = opening[t].for /\ o.dev = opening[t].dev
  BY <1>1 DEF Opening
<1> QED BY <1>1, <1>2, <1>3 DEF OpeningFits

LEMMA AskFits ==
    ASSUME IInv, NEW t \in Tabs, Ask(t)
    PROVE  IInv'
<1>1. PICK o : o = [opening[t] EXCEPT !.pc = "derive", !.epoch = epoch, !.key = epoch]  OBVIOUS
<1>2. /\ opening[t].pc = "ask" /\ opening' = [opening EXCEPT ![t] = o]
      /\ tab' = tab /\ sync' = sync /\ UNCHANGED server /\ UNCHANGED browser
  BY <1>1 DEF Ask, Answered
<1>3. o \in Opening /\ OpeningFits(o, tab[t], epoch)  BY <1>1, <1>2, AsItIs, DerivesFits
<1> QED BY <1>2, <1>3, NothingShared, OpeningAlone

LEMMA AskFailsFits ==
    ASSUME IInv, NEW t \in Tabs, AskFails(t)
    PROVE  IInv'
<1>1. PICK k : k = devices[opening[t].dev].at  OBVIOUS
<1>2. PICK o : o = [opening[t] EXCEPT !.pc = "derive", !.epoch = 0, !.key = k]  OBVIOUS
<1>3. /\ opening[t].pc = "ask" /\ opening' = [opening EXCEPT ![t] = o]
      /\ tab' = tab /\ sync' = sync /\ UNCHANGED server /\ UNCHANGED browser
  BY <1>1, <1>2 DEF AskFails, Unanswered
<1>4. opening[t].dev \in Devices  BY <1>3, OpeningIs DEF OpeningFits
<1>5. k \in Epochs /\ k <= epoch /\ 0 \in Epochs /\ 0 <= epoch
  <2>1. devices[opening[t].dev] \in Device  BY <1>4, DevicesStay
  <2>2. k \in Epochs /\ k <= epoch  BY <1>1, <1>4, <2>1, DevicesStay DEF Device
  <2>3. epoch \in Epochs  BY AsItIs
  <2> QED BY <2>2, <2>3, EpochsAre
<1>6. o \in Opening /\ OpeningFits(o, tab[t], epoch)  BY <1>2, <1>3, <1>5, DerivesFits
<1> QED BY <1>3, <1>6, NothingShared, OpeningAlone

\* A tab that differs in its ring and in what does not matter here, and in the
\* app in its device, too.
LEMMA AlikeFits ==
    ASSUME NEW e \in Epochs, NEW st, NEW kp, NEW x, TabFits(x, e, st, kp),
           NEW y \in Tab, y.phase = x.phase, y.using = x.using, y.view = x.view, y.share = x.share,
           y.session = x.session, y.sweeps = x.sweeps, y.left = x.left,
           RingFits(y.ring, e), y.dev = x.dev \/ x.view # "share",
           y.leaving => x.leaving \/ x.view = "app"
    PROVE  TabFits(y, e, st, kp)
<1>1. Sent(x, st) => Sent(y, st)  BY DEF Sent
<1> QED BY <1>1 DEF TabFits

\* A tab whose ring is cached, wherever.
LEMMA CachedSteps ==
    ASSUME IInv, NEW t \in Tabs, NEW x, TabFits(x, epoch, stored, kept), NEW r, RingFits(r, epoch),
           Caches(t, x, r), sync' = sync,
           NEW o \in Opening, opening' = [opening EXCEPT ![t] = o], OpeningFits(o, x, epoch),
           epoch' = epoch, devices' = devices, stored' = stored, kept' = kept,
           idb' \in [Devices -> Keypairs], creds' \in Devices \cup {Nobody},
           sync[<<t, "share">>].pc # "idle" => x.phase = "fetching"
    PROVE  IInv'
<1>1. epoch \in Epochs /\ epoch' \in Epochs  BY AsItIs
<1>2. TabFits(x, epoch', stored', kept') /\ RingFits(r, epoch')  OBVIOUS
<1>3. RingFits(local', epoch')  BY <1>1, <1>2, CachesFits
<1>4. PICK y \in Tab : /\ tab' = [tab EXCEPT ![t] = y] /\ TabFits(y, epoch', stored', kept')
                       /\ y.phase = x.phase /\ y.view = x.view /\ y.dev = x.dev
  BY <1>1, <1>2, CachesFits
<1>5. Onward  BY <1>3, DevicesStay, DevicesChange
<1>6. OpeningFits(o, y, epoch')  BY <1>4 DEF OpeningFits
<1> QED BY <1>4, <1>5, <1>6, OpeningSteps

LEMMA OpenedFits ==
    ASSUME IInv, NEW t \in Tabs, Opened(t)
    PROVE  IInv'
<1>1. PICK o : o = opening[t]  OBVIOUS
<1>2. PICK r : r = Joined(t)  OBVIOUS
<1>3. o \in Opening /\ OpeningFits(o, tab[t], epoch)  BY <1>1, OpeningIs
<1>4. /\ o.pc = "derive" /\ opening' = [opening EXCEPT ![t] = Shut] /\ sync' = sync
      /\ epoch' = epoch /\ devices' = devices /\ stored' = stored /\ kept' = kept /\ idb' = idb
  BY <1>1 DEF Opened, server
<1>5. epoch \in Epochs /\ RingFits(r, epoch) /\ r # Empty /\ r \in Rings
  <2>1. o.epoch \in Epochs /\ o.key \in Epochs /\ o.epoch <= epoch /\ o.key <= epoch
        /\ (o.epoch # 0 => o.key = o.epoch)
    BY <1>3 DEF OpeningFits, Opening
  <2>2. r = WithKey(Cached(t), o.epoch, o.key)  BY <1>1, <1>2 DEF Joined
  <2>3. epoch \in Epochs /\ RingFits(Cached(t), epoch)  BY TabIs
  <2>4. RingFits(r, epoch) /\ r # Empty  BY <2>1, <2>2, <2>3, WithKeyFits
  <2> QED BY <2>3, <2>4 DEF RingFits
<1>6. tab[t] \in Tab /\ TabFits(tab[t], epoch, stored, kept) /\ idb' \in [Devices -> Keypairs]
      /\ creds \in Devices \cup {Nobody}
  BY <1>4, TabIs, DevicesStay
<1>7. ASSUME NEW x  PROVE Shut \in Opening /\ OpeningFits(Shut, x, epoch)
  BY <1>5, IdleFits
<1>8. \/ /\ o.for = "app" /\ Cache(t, [tab[t] EXCEPT !.ring = r, !.stranded = FALSE], r, Persisted)
         /\ creds' = creds
      \/ /\ o.for = "share" /\ Cache(t, Saves(tab[t], r, FALSE), r, TRUE)
         /\ creds' = creds
      \/ /\ o.for = "pair" /\ Cache(t, Enrolled(t, o.dev, r), r, Persisted)
         /\ creds' = o.dev
  BY <1>1, <1>2 DEF Opened
<1>9. CASE /\ o.for = "app" /\ creds' = creds
           /\ Cache(t, [tab[t] EXCEPT !.ring = r, !.stranded = FALSE], r, Persisted)
  <2>1. PICK x : x = [tab[t] EXCEPT !.ring = r, !.stranded = FALSE]  OBVIOUS
  <2>2. x \in Tab  BY <1>5, <1>6, <2>1 DEF Tab
  <2>3. /\ x.phase = tab[t].phase /\ x.using = tab[t].using /\ x.view = tab[t].view
        /\ x.share = tab[t].share /\ x.session = tab[t].session /\ x.sweeps = tab[t].sweeps
        /\ x.left = tab[t].left /\ x.ring = r /\ x.dev = tab[t].dev /\ x.leaving = tab[t].leaving
    BY <1>6, <2>1 DEF Tab
  <2>4. TabFits(x, epoch, stored, kept)  BY <1>5, <1>6, <2>2, <2>3, AlikeFits
  <2>5. Caches(t, x, r)  BY <1>9, <2>1 DEF Cache, Caches
  <2>6. sync[<<t, "share">>].pc # "idle" => x.phase = "fetching"
    BY <2>3 DEF IInv, OneTabFits, SyncFits
  <2> QED BY <1>4, <1>5, <1>6, <1>7, <1>9, <2>4, <2>5, <2>6, CachedSteps
<1>10. CASE /\ o.for = "share" /\ creds' = creds
            /\ Cache(t, Saves(tab[t], r, FALSE), r, TRUE)
  <2>1. PICK x : x = Saves(tab[t], r, FALSE)  OBVIOUS
  <2>2. tab[t].phase = "opening"  BY <1>3, <1>10 DEF OpeningFits
  <2>3. tab[t].view = "share" /\ tab[t].dev # Nobody  BY <2>2, ShownFits
  <2>4. SavedAs(x, tab[t], epoch, stored, kept)  BY <1>5, <1>6, <2>1, <2>3, SavesAtFirst
  <2>7. x \in Tab /\ TabFits(x, epoch, stored, kept)  BY <2>4 DEF SavedAs
  <2>5. Caches(t, x, r)  BY <1>10, <2>1 DEF Cache, Caches
  <2>6. sync[<<t, "share">>].pc = "idle"
    BY <2>2 DEF IInv, OneTabFits, SyncFits
  <2> QED BY <1>4, <1>5, <1>6, <1>7, <1>10, <2>5, <2>6, <2>7, CachedSteps
<1>11. CASE /\ o.for = "pair" /\ creds' = o.dev
            /\ Cache(t, Enrolled(t, o.dev, r), r, Persisted)
  <2>1. PICK x : x = Enrolled(t, o.dev, r)  OBVIOUS
  <2>2. tab[t].dev = Nobody /\ o.dev \in Devices  BY <1>3, <1>4, <1>11 DEF OpeningFits
  <2>3. x \in Tab /\ TabFits(x, epoch, stored, kept)  BY <1>5, <2>1, <2>2, EnrolledFits
  <2>4. Caches(t, x, r)  BY <1>11, <2>1 DEF Cache, Caches
  <2>5. sync[<<t, "share">>].pc = "idle"
    BY <2>2 DEF IInv, OneTabFits, SyncFits, TabFits
  <2>6. creds' \in Devices \cup {Nobody}  BY <1>11, <2>2
  <2> QED BY <1>4, <1>5, <1>6, <1>7, <2>3, <2>4, <2>5, <2>6, CachedSteps
<1> QED BY <1>8, <1>9, <1>10, <1>11

\* One device's record changes, but not the epoch it enrolled at.
LEMMA DeviceChanges ==
    ASSUME IInv, NEW d \in Devices, NEW v \in Device, v.at = devices[d].at,
           devices' = [devices EXCEPT ![d] = v]
    PROVE  devices' \in [Devices -> Device] /\ \A x \in Devices : devices'[x].at <= epoch
BY DevicesStay

LEMMA MistypedFits ==
    ASSUME IInv, NEW t \in Tabs, Mistyped(t)
    PROVE  IInv'
<1>1. PICK o : o = opening[t]  OBVIOUS
<1>2. o \in Opening /\ OpeningFits(o, tab[t], epoch)  BY <1>1, OpeningIs
<1>3. PICK phase : phase = IF o.for = "share" THEN "error" ELSE tab[t].phase  OBVIOUS
<1>4. PICK x : x = [tab[t] EXCEPT !.phase = phase]  OBVIOUS
<1>5. /\ o.pc = "derive" /\ opening' = [opening EXCEPT ![t] = Shut] /\ sync' = sync
      /\ tab' = [tab EXCEPT ![t] = x]
      /\ epoch' = epoch /\ stored' = stored /\ UNCHANGED browser
  BY <1>1, <1>3, <1>4, TabIs DEF Mistyped
<1>6. o.dev \in Devices  BY <1>2, <1>5 DEF OpeningFits
<1>7. devices' \in [Devices -> Device] /\ \A y \in Devices : devices'[y].at <= epoch
  <2>1. CASE o.for = "pair"
    <3>1. PICK v : v = [devices[o.dev] EXCEPT !.status = "off"]  OBVIOUS
    <3>2. devices[o.dev] \in Device  BY <1>6, DevicesStay
    <3>3. v \in Device /\ v.at = devices[o.dev].at  BY <3>1, <3>2 DEF Device
    <3>4. devices' = [devices EXCEPT ![o.dev] = v]
      BY <1>1, <1>6, <2>1, <3>1, DevicesStay DEF Mistyped
    <3> QED BY <1>6, <3>3, <3>4, DeviceChanges
  <2>2. CASE o.for # "pair"
    <3>1. devices' = devices  BY <1>1, <2>2 DEF Mistyped
    <3> QED BY <3>1, DevicesStay
  <2> QED BY <2>1, <2>2
<1>8. Onward
  <2>1. kept' = kept /\ creds' = creds /\ local' = local /\ idb' = idb  BY <1>5 DEF browser
  <2> QED BY <1>5, <1>7, <2>1, DevicesStay, DevicesChange
<1>9. tab[t] \in Tab /\ TabFits(tab[t], epoch, stored, kept) /\ epoch \in Epochs  BY TabIs
<1>10. x \in Tab /\ TabFits(x, epoch, stored, kept) /\ (o.for # "share" => x = tab[t])
  <2>1. CASE o.for = "share"
    <3>1. tab[t].phase = "opening"  BY <1>2, <2>1 DEF OpeningFits
    <3>2. phase = "error" /\ "error" \in Phases \ {"sending"}  BY <1>3, <2>1 DEF Phases
    <3>3. tab[t].view = "share" /\ tab[t].dev # Nobody  BY <3>1, ShownFits
    <3> QED BY <1>4, <1>9, <2>1, <3>2, <3>3, PhaseFits
  <2>2. CASE o.for # "share"
    <3>1. x = tab[t]  BY <1>3, <1>4, <1>9, <2>2 DEF Tab
    <3> QED BY <1>9, <3>1
  <2> QED BY <2>1, <2>2
<1>11. sync[<<t, "share">>].pc # "idle" => x.phase = "fetching"
  <2>1. sync[<<t, "share">>].pc # "idle" => tab[t].phase = "fetching"
    BY DEF IInv, OneTabFits, SyncFits
  <2>2. o.for = "share" => tab[t].phase = "opening"  BY <1>2 DEF OpeningFits
  <2> QED BY <1>10, <2>1, <2>2
<1>12. Shut \in Opening /\ OpeningFits(Shut, x, epoch)  BY <1>9, IdleFits
<1>13. TabFits(x, epoch', stored', kept') /\ OpeningFits(Shut, x, epoch')
  BY <1>5, <1>10, <1>12 DEF browser
<1> QED BY <1>5, <1>8, <1>10, <1>11, <1>12, <1>13, OpeningSteps

LEMMA CachedAlone ==
    ASSUME IInv, NEW t \in Tabs, NEW x, TabFits(x, epoch, stored, kept), NEW r, RingFits(r, epoch),
           Caches(t, x, r), UNCHANGED calls,
           OpeningFits(opening[t], x, epoch),
           epoch' = epoch, devices' = devices, stored' = stored, kept' = kept,
           idb' \in [Devices -> Keypairs], creds' \in Devices \cup {Nobody},
           sync[<<t, "share">>].pc # "idle" => x.phase = "fetching"
    PROVE  IInv'
<1>1. PICK o \in Opening : o = opening[t]  BY OpeningIs
<1>2. opening' = [opening EXCEPT ![t] = o] /\ sync' = sync  BY <1>1 DEF calls, IInv
<1>3. OpeningFits(o, x, epoch)  BY <1>1
<1> QED BY <1>2, <1>3, CachedSteps

LEMMA LockFits ==
    ASSUME IInv, NEW t \in Tabs, Lock(t)
    PROVE  IInv'
<1>1. PICK x : x = [tab[t] EXCEPT !.ring = Empty]  OBVIOUS
<1>2. /\ Caches(t, x, Empty) /\ tab[t].view = "app" /\ UNCHANGED calls
      /\ epoch' = epoch /\ devices' = devices /\ stored' = stored /\ kept' = kept
      /\ idb' = idb /\ creds' = creds
  BY <1>1 DEF Lock, Cache, Caches, server
<1>3. tab[t] \in Tab /\ TabFits(tab[t], epoch, stored, kept) /\ RingFits(Empty, epoch)
      /\ Empty \in Rings
  BY TabIs, EmptyFits DEF RingFits
<1>4. x \in Tab  BY <1>1, <1>3 DEF Tab
<1>5. /\ x.phase = tab[t].phase /\ x.using = tab[t].using /\ x.view = tab[t].view
      /\ x.share = tab[t].share /\ x.session = tab[t].session /\ x.sweeps = tab[t].sweeps
      /\ x.left = tab[t].left /\ x.ring = Empty /\ x.dev = tab[t].dev /\ x.leaving = tab[t].leaving
  BY <1>1, <1>3 DEF Tab
<1>6. TabFits(x, epoch, stored, kept)  BY <1>3, <1>4, <1>5, AsItIs, AlikeFits
<1>7. sync[<<t, "share">>].pc # "idle" => x.phase = "fetching"
  BY <1>5 DEF IInv, OneTabFits, SyncFits
<1>8. OpeningFits(opening[t], x, epoch)  BY <1>5, OpeningIs DEF OpeningFits
<1> QED BY <1>2, <1>3, <1>6, <1>7, <1>8, DevicesStay, CachedAlone

LEMMA KeepUnlockedFits ==
    ASSUME IInv, NEW t \in Tabs, NEW persist \in BOOLEAN, KeepUnlocked(t, persist)
    PROVE  IInv'
<1>1. PICK x : x = tab[t]  OBVIOUS
<1>2. PICK r : r = tab[t].ring  OBVIOUS
<1>3. Cache(t, x, r, persist)  BY <1>1, <1>2 DEF KeepUnlocked
<1>4. /\ Caches(t, x, r) /\ UNCHANGED calls
      /\ epoch' = epoch /\ devices' = devices /\ stored' = stored /\ kept' = kept
      /\ idb' = idb /\ creds' = creds
  BY <1>3 DEF KeepUnlocked, Cache, Caches, server
<1>5. TabFits(x, epoch, stored, kept) /\ RingFits(r, epoch)  BY <1>1, <1>2, TabIs DEF TabFits
<1>6. sync[<<t, "share">>].pc # "idle" => x.phase = "fetching"
  BY <1>1 DEF IInv, OneTabFits, SyncFits
<1>7. OpeningFits(opening[t], x, epoch)  BY <1>1, OpeningIs
<1> QED BY <1>4, <1>5, <1>6, <1>7, DevicesStay, CachedAlone

LEMMA ClearSessionFits ==
    ASSUME IInv, NEW t \in Tabs, ClearSession(t)
    PROVE  IInv'
<1>1. PICK x : x = [tab[t] EXCEPT !.leaving = FALSE, !.dev = Nobody, !.ring = Empty]  OBVIOUS
<1>2. /\ Caches(t, x, Empty) /\ tab[t].leaving /\ UNCHANGED calls
      /\ epoch' = epoch /\ devices' = devices /\ stored' = stored /\ kept' = kept
      /\ creds' = Nobody
      /\ idb' = IF creds = Nobody THEN idb ELSE [idb EXCEPT ![creds] = NoKey]
  BY <1>1 DEF ClearSession, Cache, Caches, server
<1>3. tab[t] \in Tab /\ TabFits(tab[t], epoch, stored, kept) /\ RingFits(Empty, epoch)
      /\ Empty \in Rings
  BY TabIs, EmptyFits DEF RingFits
<1>4. x \in Tab  BY <1>1, <1>3 DEF Tab
<1>5. /\ x.phase = tab[t].phase /\ x.using = tab[t].using /\ x.view = tab[t].view
      /\ x.share = tab[t].share /\ x.session = tab[t].session /\ x.sweeps = tab[t].sweeps
      /\ x.left = tab[t].left /\ x.ring = Empty /\ x.dev = Nobody /\ x.leaving = FALSE
  BY <1>1, <1>3 DEF Tab
<1>6. tab[t].view = "app"  BY <1>2, <1>3 DEF TabFits
<1>7. TabFits(x, epoch, stored, kept)  BY <1>3, <1>4, <1>5, <1>6, AsItIs, AlikeFits
<1>8. sync[<<t, "share">>].pc # "idle" => x.phase = "fetching"
  BY <1>5 DEF IInv, OneTabFits, SyncFits
<1>9. OpeningFits(opening[t], x, epoch)  BY <1>5, OpeningIs DEF OpeningFits
<1>10. idb' \in [Devices -> Keypairs]  BY <1>2, DevicesStay DEF Keypairs
<1> QED BY <1>2, <1>3, <1>7, <1>8, <1>9, <1>10, CachedAlone

LEMMA SignOutFits ==
    ASSUME IInv, NEW t \in Tabs, SignOut(t)
    PROVE  IInv'
<1>1. PICK x : x = [tab[t] EXCEPT !.leaving = TRUE]  OBVIOUS
<1>2. PICK d : d = tab[t].dev  OBVIOUS
<1>3. PICK v : v = [devices[d] EXCEPT !.status = "off", !.pub = NoKey, !.sealed = NoKey]  OBVIOUS
<1>4. tab[t].view = "app" /\ d # Nobody /\ epoch' = epoch /\ stored' = stored
      /\ UNCHANGED browser /\ opening' = opening /\ sync' = sync
      /\ tab' = [tab EXCEPT ![t] = x]
  BY <1>1, <1>2, TabIs DEF SignOut, calls
<1>5. tab[t] \in Tab /\ TabFits(tab[t], epoch, stored, kept) /\ d \in Devices
  BY <1>2, <1>4, TabIs DEF Tab
<1>6. devices[d] \in Device  BY <1>5, DevicesStay
<1>7. v \in Device /\ v.at = devices[d].at  BY <1>3, <1>6 DEF Device, Keypairs
<1>8. devices' = devices \/ devices' = [devices EXCEPT ![d] = v]
  BY <1>2, <1>3, <1>5, DevicesStay DEF SignOut
<1>9. devices' \in [Devices -> Device] /\ \A y \in Devices : devices'[y].at <= epoch
  BY <1>5, <1>7, <1>8, DeviceChanges, DevicesStay
<1>10. kept' = kept /\ creds' = creds /\ local' = local /\ idb' = idb  BY <1>4 DEF browser
<1>11. Onward  BY <1>4, <1>9, <1>10, DevicesStay, DevicesChange
<1>12. x \in Tab  BY <1>1, <1>5 DEF Tab
<1>13. /\ x.phase = tab[t].phase /\ x.using = tab[t].using /\ x.view = tab[t].view
       /\ x.share = tab[t].share /\ x.session = tab[t].session /\ x.sweeps = tab[t].sweeps
       /\ x.left = tab[t].left /\ x.ring = tab[t].ring /\ x.dev = tab[t].dev
  BY <1>1, <1>5 DEF Tab
<1>14. RingFits(x.ring, epoch)  BY <1>5, <1>13 DEF TabFits
<1>15. TabFits(x, epoch, stored, kept)  BY <1>4, <1>5, <1>12, <1>13, <1>14, AsItIs, AlikeFits
<1>16. TabFits(x, epoch', stored', kept')  BY <1>4, <1>10, <1>15
<1>17. /\ sync[<<t, "share">>].pc # "idle" => x.phase = "fetching"
       /\ opening[t].for = "share" => x.phase = "opening"
       /\ opening[t].for = "pair" => x.dev = Nobody
       /\ x.view = "closed" => opening[t].pc = "idle"
  BY <1>13 DEF IInv, OneTabFits, SyncFits, OpeningFits
<1> QED BY <1>4, <1>11, <1>12, <1>16, <1>17, TabChanges

\* A re-key seals to the devices, and changes nothing else of them.
LEMMA SealsFits ==
    ASSUME IInv, epoch < MaxEpoch
    PROVE  /\ Seals \in [Devices -> Device] /\ epoch + 1 \in Epochs /\ epoch <= epoch + 1
           /\ \A d \in Devices : Seals[d].at <= epoch + 1
<1>1. epoch + 1 \in Epochs /\ epoch \in Nat /\ epoch <= epoch + 1
  BY AsItIs, BoundAssumption DEF Epochs
<1>2. ASSUME NEW d \in Devices
      PROVE  Seals[d] \in Device /\ Seals[d].at <= epoch + 1
  <2>1. devices[d] \in Device /\ devices[d].at <= epoch /\ devices[d].at \in Nat
    BY DevicesStay, EpochsAre DEF Device
  <2>2. PICK s : s = IF On(d) THEN devices[d].pub ELSE NoKey  OBVIOUS
  <2>3. s \in Keypairs  BY <2>1, <2>2 DEF Device, Keypairs
  <2>4. Seals[d] = [devices[d] EXCEPT !.sealed = s]  BY <2>2 DEF Seals
  <2>5. Seals[d] \in Device /\ Seals[d].at = devices[d].at  BY <2>1, <2>3, <2>4 DEF Device
  <2> QED BY <1>1, <2>1, <2>5
<1>3. Seals \in [Devices -> Device]  BY <1>2 DEF Seals
<1> QED BY <1>1, <1>2, <1>3

\* The account at its next epoch.
LEMMA NextEpoch ==
    ASSUME IInv, epoch < MaxEpoch, epoch' = epoch + 1, devices' = Seals, stored' = stored,
           kept' = kept, creds' = creds, idb' = idb, RingFits(local', epoch')
    PROVE  Onward
<1>1. epoch' \in Epochs /\ epoch <= epoch' /\ devices' \in [Devices -> Device]
      /\ \A d \in Devices : devices'[d].at <= epoch'
  BY SealsFits
<1>2. CommonFits'  BY <1>1 DEF IInv, CommonFits, SentOpens
<1> QED BY <1>1, <1>2, AsItIs DEF Onward

LEMMA RekeyFits ==
    ASSUME IInv, Rekey
    PROVE  IInv'
<1>1. /\ epoch < MaxEpoch /\ epoch' = epoch + 1 /\ devices' = Seals /\ stored' = stored
      /\ kept' = kept /\ creds' = creds /\ idb' = idb /\ local' = local
      /\ tab' = tab /\ opening' = opening /\ sync' = sync
  BY DEF Rekey, browser, calls
<1>2. RingFits(local', epoch')  BY <1>1, SealsFits, AsItIs, DevicesStay, RingStays
<1> QED BY <1>1, <1>2, NextEpoch, NoTabSteps

LEMMA RekeyHereFits ==
    ASSUME IInv, NEW t \in Tabs, RekeyHere(t)
    PROVE  IInv'
<1>1. PICK f : f = epoch + 1  OBVIOUS
<1>2. PICK r : r = WithKey(tab[t].ring, f, f)  OBVIOUS
<1>3. PICK x : x = [tab[t] EXCEPT !.ring = r]  OBVIOUS
<1>4. /\ epoch < MaxEpoch /\ epoch' = f /\ epoch' = epoch + 1 /\ devices' = Seals
      /\ stored' = stored /\ kept' = kept /\ creds' = creds /\ idb' = idb
      /\ opening' = opening /\ sync' = sync /\ Caches(t, x, r)
  BY <1>1, <1>2, <1>3 DEF RekeyHere, calls, Cache, Caches
<1>5. epoch \in Epochs /\ f \in Epochs /\ epoch <= f  BY <1>1, <1>4, AsItIs, SealsFits
<1>6. tab[t] \in Tab /\ TabFits(tab[t], epoch', stored', kept')
  BY <1>4, <1>5, AsItIs, TabIs, TabStays
<1>7. RingFits(r, f) /\ r \in Rings
  <2>1. RingFits(tab[t].ring, f)  BY <1>4, <1>6 DEF TabFits
  <2>2. f <= f  BY <1>5, EpochsAre
  <2> QED BY <1>2, <1>5, <2>1, <2>2, WithKeyFits DEF RingFits
<1>8. x \in Tab  BY <1>3, <1>6, <1>7 DEF Tab
<1>9. /\ x.phase = tab[t].phase /\ x.using = tab[t].using /\ x.view = tab[t].view
      /\ x.share = tab[t].share /\ x.session = tab[t].session /\ x.sweeps = tab[t].sweeps
      /\ x.left = tab[t].left /\ x.ring = r /\ x.dev = tab[t].dev /\ x.leaving = tab[t].leaving
  BY <1>3, <1>6 DEF Tab
<1>10. epoch' \in Epochs /\ RingFits(r, epoch')  BY <1>4, <1>5, <1>7
<1>11. TabFits(x, epoch', stored', kept')  BY <1>6, <1>8, <1>9, <1>10, AlikeFits
<1>12. RingFits(local', epoch')  BY <1>4, <1>10, <1>11, CachesFits
<1>13. PICK y \in Tab : /\ tab' = [tab EXCEPT ![t] = y] /\ TabFits(y, epoch', stored', kept')
                        /\ y.phase = x.phase /\ y.view = x.view /\ y.dev = x.dev
  BY <1>4, <1>10, <1>11, CachesFits
<1>14. Onward  BY <1>4, <1>12, NextEpoch
<1>15. /\ sync[<<t, "share">>].pc # "idle" => y.phase = "fetching"
       /\ opening[t].for = "share" => y.phase = "opening"
       /\ opening[t].for = "pair" => y.dev = Nobody
       /\ y.view = "closed" => opening[t].pc = "idle"
  BY <1>9, <1>13 DEF IInv, OneTabFits, SyncFits, OpeningFits
<1> QED BY <1>4, <1>13, <1>14, <1>15, TabChanges

LEMMA ReencryptFits ==
    ASSUME IInv, NEW r \in stored, Reencrypt(r)
    PROVE  IInv'
<1>1. PICK q : q = [r EXCEPT !.epoch = epoch, !.key = epoch]  OBVIOUS
<1>2. /\ stored' = (stored \ {r}) \cup {q}
      /\ epoch' = epoch /\ devices' = devices
      /\ kept' = kept /\ creds' = creds /\ idb' = idb /\ local' = local
      /\ tab' = tab /\ opening' = opening /\ sync' = sync
  BY <1>1 DEF Reencrypt, browser, calls
<1>3. r \in Row /\ epoch \in Epochs  BY AsItIs DEF IInv, CommonFits
<1>4. q \in Row /\ q.share = r.share /\ q.part = r.part /\ q.key = q.epoch  BY <1>1, <1>3 DEF Row
<1>5. CommonFits'
  <2>1. stored' \subseteq Row /\ SentOpens'  BY <1>2, <1>4 DEF IInv, CommonFits, SentOpens
  <2> QED BY <1>2, <2>1 DEF IInv, CommonFits
<1>6. PartsStay(stored, stored')  BY <1>2, <1>4 DEF PartsStay
<1>7. Onward  BY <1>2, <1>5, <1>6, AsItIs DEF Onward
<1> QED BY <1>2, <1>7, NoTabSteps

LEMMA AgeFits ==
    ASSUME IInv, NEW s \in Shares, Age(s)
    PROVE  IInv'
<1>1. /\ kept[s] = "kept" /\ kept' = [kept EXCEPT ![s] = "old"]
      /\ UNCHANGED server /\ creds' = creds /\ idb' = idb /\ local' = local
      /\ tab' = tab /\ opening' = opening /\ sync' = sync
  BY DEF Age, calls
<1>2. kept' \in [Shares -> {"never", "kept", "old", "gone"}] /\ GoesOn(kept, kept')
  BY <1>1 DEF GoesOn, IInv, CommonFits
<1> QED BY <1>1, <1>2, ShareGoes, NoTabSteps

-----------------------------------------------------------------------------
(* Refreshing the keys.                                                    *)

LEMMA SyncIs ==
    ASSUME IInv, NEW t \in Tabs, NEW k \in {"app", "share"}
    PROVE  /\ <<t, k>> \in Threads /\ <<t, k>>[1] = t /\ <<t, k>>[2] = k
           /\ sync[<<t, k>>] \in Sync /\ SyncFits(sync[<<t, k>>], k, tab[t], epoch)
BY DEF IInv, OneTabFits, SyncFits, Threads

\* A thread goes on, its tab as it was.
LEMMA SyncAlone ==
    ASSUME IInv, Onward, NEW t \in Tabs, NEW k \in {"app", "share"},
           tab' = tab, opening' = opening,
           NEW y \in Sync, sync' = [sync EXCEPT ![<<t, k>>] = y],
           SyncFits(y, k, tab[t], epoch)
    PROVE  IInv'
<1>1. PICK x \in Tab : x = tab[t]  BY TabIs
<1>2. tab' = [tab EXCEPT ![t] = x]  BY <1>1, TabIs
<1>3. epoch \in Epochs /\ epoch' \in Epochs /\ epoch <= epoch'  BY AsItIs DEF Onward, CommonFits
<1>4. TabFits(x, epoch', stored', kept')  BY <1>1, <1>3, TabIs, TabStays DEF Onward
<1>5. SyncFits(y, k, x, epoch')
  <2>1. SyncFits(y, k, x, epoch)  BY <1>1
  <2> QED BY <1>3, <2>1, SyncStays DEF SyncFits
<1>6. /\ opening[t].for = "share" => x.phase = "opening"
      /\ opening[t].for = "pair" => x.dev = Nobody
      /\ x.view = "closed" => opening[t].pc = "idle"
  BY <1>1, OpeningIs DEF OpeningFits
<1>7. sync[<<t, "share">>].pc # "idle" => x.phase = "fetching"
  BY <1>1 DEF IInv, OneTabFits, SyncFits
<1> QED BY <1>1, <1>2, <1>4, <1>5, <1>6, <1>7, SyncSteps

LEMMA RefreshRingFits ==
    ASSUME IInv, NEW t \in Tabs, RefreshRing(t)
    PROVE  IInv'
<1>1. PICK y : y = [Idle EXCEPT !.pc = "get", !.dev = tab[t].dev, !.held = tab[t].ring]  OBVIOUS
<1>2. /\ sync' = [sync EXCEPT ![<<t, "app">>] = y] /\ tab[t].dev # Nobody
      /\ tab' = tab /\ opening' = opening /\ UNCHANGED server /\ UNCHANGED browser
  BY <1>1 DEF RefreshRing, Starts
<1>3. tab[t].dev \in Devices /\ RingFits(tab[t].ring, epoch) /\ epoch \in Epochs
  BY <1>2, TabIs DEF Tab, TabFits
<1>4. PICK k \in {"app", "share"} : k = "app"  OBVIOUS
<1>5. y \in Sync /\ SyncFits(y, k, tab[t], epoch)  BY <1>1, <1>3, <1>4, GetFits
<1>6. sync' = [sync EXCEPT ![<<t, k>>] = y]  BY <1>2, <1>4
<1> QED BY <1>2, <1>5, <1>6, NothingShared, SyncAlone

\* A thread that is under way differs in what it does next, and in its keypair.
LEMMA GoesFits ==
    ASSUME IInv, NEW t \in Tabs, NEW k \in {"app", "share"}, sync[<<t, k>>].pc # "idle",
           NEW pc \in {"put", "register", "fetch", "cache"}, NEW key \in Keypairs,
           NEW got \in Epochs, got <= epoch,
           NEW y, y = [sync[<<t, k>>] EXCEPT !.pc = pc, !.key = key, !.got = got]
    PROVE  y \in Sync /\ SyncFits(y, k, tab[t], epoch)
<1>1. PICK z : z = sync[<<t, k>>]  OBVIOUS
<1>2. z \in Sync /\ SyncFits(z, k, tab[t], epoch) /\ z.pc # "idle"  BY <1>1, SyncIs
<1>3. y = [z EXCEPT !.pc = pc, !.key = key, !.got = got]  BY <1>1
<1>4. y \in Sync  BY <1>2, <1>3 DEF Sync
<1>5. y.pc = pc /\ y.dev = z.dev /\ y.held = z.held /\ y.got = got  BY <1>2, <1>3 DEF Sync
<1> QED BY <1>2, <1>4, <1>5 DEF SyncFits

LEMMA ThreadIs ==
    ASSUME NEW th \in Threads
    PROVE  \E t \in Tabs, k \in {"app", "share"} : th = <<t, k>> /\ th[1] = t /\ th[2] = k
BY DEF Threads

LEMMA GetKeypairFits ==
    ASSUME IInv, NEW th \in Threads, GetKeypair(th)
    PROVE  IInv'
<1>1. PICK t \in Tabs, k \in {"app", "share"} : th = <<t, k>>  BY ThreadIs
<1>2. PICK z \in Sync : z = sync[<<t, k>>]  BY SyncIs
<1>3. PICK key : key = idb[z.dev]  OBVIOUS
<1>4. PICK pc : pc = IF key = NoKey THEN "put" ELSE "register"  OBVIOUS
<1>5. PICK y : y = [z EXCEPT !.pc = pc, !.key = key, !.got = z.got]  OBVIOUS
<1>6. /\ z.pc = "get" /\ tab' = tab /\ opening' = opening
      /\ UNCHANGED server /\ UNCHANGED browser
  BY <1>1, <1>2 DEF GetKeypair
<1>7. sync' = [sync EXCEPT ![<<t, k>>] = y]
  <2>1. y = [z EXCEPT !.pc = pc, !.key = key]  BY <1>2, <1>5 DEF Sync
  <2>2. sync' = [sync EXCEPT ![<<t, k>>] = [z EXCEPT !.pc = pc, !.key = key]]
    BY <1>1, <1>2, <1>3, <1>4, SyncIs DEF GetKeypair
  <2> QED BY <2>1, <2>2
<1>8. z.dev \in Devices /\ key \in Keypairs /\ z.got \in Epochs /\ z.got <= epoch
  <2>1. z.dev \in Devices /\ z.got <= epoch  BY <1>2, <1>6, SyncIs DEF SyncFits
  <2>2. idb \in [Devices -> Keypairs]  BY DevicesStay
  <2> QED BY <1>2, <1>3, <2>1, <2>2 DEF Sync
<1>9. y \in Sync /\ SyncFits(y, k, tab[t], epoch)
  BY <1>2, <1>4, <1>5, <1>6, <1>8, GoesFits
<1> QED BY <1>6, <1>7, <1>9, NothingShared, SyncAlone

LEMMA PutKeypairFits ==
    ASSUME IInv, NEW th \in Threads, PutKeypair(th)
    PROVE  IInv'
<1>1. PICK t \in Tabs, k \in {"app", "share"} : th = <<t, k>>  BY ThreadIs
<1>2. PICK z \in Sync : z = sync[<<t, k>>]  BY SyncIs
<1>5. PICK y : y = [z EXCEPT !.pc = "register", !.key = th, !.got = z.got]  OBVIOUS
<1>6. /\ z.pc = "put" /\ tab' = tab /\ opening' = opening
      /\ UNCHANGED server /\ creds' = creds /\ local' = local /\ kept' = kept
      /\ epoch' = epoch /\ devices' = devices /\ stored' = stored
      /\ idb' = [idb EXCEPT ![z.dev] = th]
  BY <1>1, <1>2 DEF PutKeypair, server
<1>7. sync' = [sync EXCEPT ![<<t, k>>] = y]
  <2>1. y = [z EXCEPT !.pc = "register", !.key = th]  BY <1>2, <1>5 DEF Sync
  <2>2. sync' = [sync EXCEPT ![<<t, k>>] = [z EXCEPT !.pc = "register", !.key = th]]
    BY <1>1, <1>2, SyncIs DEF PutKeypair
  <2> QED BY <2>1, <2>2
<1>8. th \in Keypairs /\ z.got \in Epochs /\ z.got <= epoch
  BY <1>2, SyncIs DEF SyncFits, Sync, Keypairs
<1>9. y \in Sync /\ SyncFits(y, k, tab[t], epoch)  BY <1>2, <1>5, <1>6, <1>8, GoesFits
<1>10. idb' \in [Devices -> Keypairs]  BY <1>6, <1>8, DevicesStay
<1>11. Onward  BY <1>6, <1>10, DevicesStay, DevicesChange
<1> QED BY <1>6, <1>7, <1>9, <1>11, SyncAlone

LEMMA RegisterFits ==
    ASSUME IInv, NEW th \in Threads, Register(th)
    PROVE  IInv'
<1>1. PICK t \in Tabs, k \in {"app", "share"} : th = <<t, k>>  BY ThreadIs
<1>2. PICK z \in Sync : z = sync[<<t, k>>]  BY SyncIs
<1>3. PICK v : v = [devices[z.dev] EXCEPT !.pub = z.key]  OBVIOUS
<1>5. PICK y : y = [z EXCEPT !.pc = "fetch", !.key = z.key, !.got = z.got]  OBVIOUS
<1>6. /\ z.pc = "register" /\ tab' = tab /\ opening' = opening
      /\ UNCHANGED browser /\ epoch' = epoch /\ stored' = stored
  BY <1>1, <1>2 DEF Register
<1>7. sync' = [sync EXCEPT ![<<t, k>>] = y]
  <2>1. y = [z EXCEPT !.pc = "fetch"]  BY <1>2, <1>5 DEF Sync
  <2>2. sync' = [sync EXCEPT ![<<t, k>>] = [z EXCEPT !.pc = "fetch"]]
    BY <1>1, <1>2, SyncIs DEF Register
  <2> QED BY <2>1, <2>2
<1>8. z.dev \in Devices /\ z.key \in Keypairs /\ z.got \in Epochs /\ z.got <= epoch
  BY <1>2, <1>6, SyncIs DEF SyncFits, Sync
<1>9. y \in Sync /\ SyncFits(y, k, tab[t], epoch)  BY <1>2, <1>5, <1>6, <1>8, GoesFits
<1>10. devices[z.dev] \in Device  BY <1>8, DevicesStay
<1>11. v \in Device /\ v.at = devices[z.dev].at  BY <1>3, <1>8, <1>10 DEF Device
<1>12. devices' = [devices EXCEPT ![z.dev] = v]
  BY <1>1, <1>2, <1>3, <1>8, DevicesStay DEF Register
<1>13. devices' \in [Devices -> Device] /\ \A x \in Devices : devices'[x].at <= epoch
  BY <1>8, <1>11, <1>12, DeviceChanges
<1>14. kept' = kept /\ creds' = creds /\ local' = local /\ idb' = idb  BY <1>6 DEF browser
<1>15. Onward  BY <1>6, <1>13, <1>14, DevicesStay, DevicesChange
<1> QED BY <1>6, <1>7, <1>9, <1>15, SyncAlone

LEMMA NoIndexedDBFits ==
    ASSUME IInv, NEW th \in Threads, NoIndexedDB(th)
    PROVE  IInv'
<1>1. PICK t \in Tabs, k \in {"app", "share"} : th = <<t, k>>  BY ThreadIs
<1>2. PICK z \in Sync : z = sync[<<t, k>>]  BY SyncIs
<1>5. PICK y : y = [z EXCEPT !.pc = "fetch", !.key = NoKey, !.got = z.got]  OBVIOUS
<1>6. /\ z.pc # "idle" /\ tab' = tab /\ opening' = opening
      /\ UNCHANGED server /\ UNCHANGED browser
  BY <1>1, <1>2 DEF NoIndexedDB
<1>7. sync' = [sync EXCEPT ![<<t, k>>] = y]
  <2>1. y = [z EXCEPT !.pc = "fetch", !.key = NoKey]  BY <1>2, <1>5 DEF Sync
  <2>2. sync' = [sync EXCEPT ![<<t, k>>] = [z EXCEPT !.pc = "fetch", !.key = NoKey]]
    BY <1>1, <1>2, SyncIs DEF NoIndexedDB
  <2> QED BY <2>1, <2>2
<1>8. NoKey \in Keypairs /\ z.got \in Epochs /\ z.got <= epoch
  BY <1>2, SyncIs DEF SyncFits, Sync, Keypairs
<1>9. y \in Sync /\ SyncFits(y, k, tab[t], epoch)  BY <1>2, <1>5, <1>6, <1>8, GoesFits
<1> QED BY <1>6, <1>7, <1>9, NothingShared, SyncAlone

\* What a tab may come to when a thread of it ends: a refresh for its history
\* leaves its share alone.
LEMMA ThreadLeaves ==
    ASSUME IInv, NEW t \in Tabs, NEW k \in {"app", "share"}, sync[<<t, k>>].pc # "idle",
           NEW x, x.view = tab[t].view, x.dev = tab[t].dev, k = "app" => x.phase = tab[t].phase
    PROVE  /\ opening[t].for = "share" => x.phase = "opening"
           /\ opening[t].for = "pair" => x.dev = Nobody
           /\ x.view = "closed" => opening[t].pc = "idle"
           /\ k = "app" /\ sync[<<t, "share">>].pc # "idle" => x.phase = "fetching"
<1>1. CASE k = "app"  BY <1>1 DEF IInv, OneTabFits, SyncFits, OpeningFits
<1>2. CASE k = "share"
  <2>1. tab[t].phase = "fetching"  BY <1>2 DEF IInv, OneTabFits, SyncFits
  <2> QED BY <1>2, <2>1, OpeningIs DEF OpeningFits
<1> QED BY <1>1, <1>2

LEMMA EndsFits ==
    ASSUME IInv, NEW t \in Tabs, NEW k \in {"app", "share"}, sync[<<t, k>>].pc # "idle",
           UNCHANGED server, UNCHANGED browser, opening' = opening,
           NEW x, x \in Tab, TabFits(x, epoch, stored, kept), Ends(<<t, k>>, x),
           x.view = tab[t].view, x.dev = tab[t].dev, k = "app" => x.phase = tab[t].phase
    PROVE  IInv'
<1>1. sync' = [sync EXCEPT ![<<t, k>>] = Idle] /\ tab' = [tab EXCEPT ![t] = x]  BY DEF Ends
<1>2. epoch' = epoch /\ stored' = stored /\ kept' = kept /\ epoch \in Epochs
  BY AsItIs DEF server, browser
<1>3. Idle \in Sync /\ SyncFits(Idle, k, x, epoch)  BY <1>2, IdleFits
<1>4. TabFits(x, epoch', stored', kept') /\ SyncFits(Idle, k, x, epoch')  BY <1>2, <1>3
<1>5. /\ opening[t].for = "share" => x.phase = "opening"
      /\ opening[t].for = "pair" => x.dev = Nobody
      /\ x.view = "closed" => opening[t].pc = "idle"
      /\ k = "app" /\ sync[<<t, "share">>].pc # "idle" => x.phase = "fetching"
  BY ThreadLeaves
<1> QED BY <1>1, <1>3, <1>4, <1>5, NothingShared, SyncSteps

\* A refresh under way for a share finds its tab waiting.
LEMMA ShareWaits ==
    ASSUME IInv, NEW t \in Tabs, sync[<<t, "share">>].pc # "idle"
    PROVE  tab[t].view = "share" /\ tab[t].dev # Nobody /\ tab[t].phase = "fetching"
BY ShownFits DEF IInv, OneTabFits, SyncFits

\* Another phase, in which nothing is sent, of a share that waited.
LEMMA WaitEnds ==
    ASSUME IInv, NEW t \in Tabs, sync[<<t, "share">>].pc # "idle",
           NEW phase \in Phases \ {"sending"}
    PROVE  \E x \in Tab : /\ x = [tab[t] EXCEPT !.phase = phase]
                          /\ TabFits(x, epoch, stored, kept)
                          /\ x.view = tab[t].view /\ x.dev = tab[t].dev
<1>1. tab[t].view = "share" /\ tab[t].dev # Nobody  BY ShareWaits
<1>2. PICK x : x = [tab[t] EXCEPT !.phase = phase]  OBVIOUS
<1>3. tab[t] \in Tab /\ TabFits(tab[t], epoch, stored, kept) /\ epoch \in Epochs  BY TabIs
<1>4. x \in Tab /\ TabFits(x, epoch, stored, kept)  BY <1>1, <1>2, <1>3, PhaseFits
<1>5. x.view = tab[t].view /\ x.dev = tab[t].dev  BY <1>2, <1>3 DEF Tab
<1> QED BY <1>2, <1>4, <1>5

LEMMA SyncFailsFits ==
    ASSUME IInv, NEW th \in Threads, SyncFails(th)
    PROVE  IInv'
<1>1. PICK t \in Tabs, k \in {"app", "share"} : th = <<t, k>> /\ th[1] = t /\ th[2] = k
  BY ThreadIs
<1>2. /\ sync[<<t, k>>].pc # "idle" /\ UNCHANGED server /\ UNCHANGED browser
      /\ opening' = opening
      /\ Ends(<<t, k>>, IF k = "app" THEN tab[t] ELSE [tab[t] EXCEPT !.phase = "error"])
  BY <1>1 DEF SyncFails
<1>3. CASE k = "app"
  <2>1. PICK x : x = tab[t]  OBVIOUS
  <2>2. x \in Tab /\ TabFits(x, epoch, stored, kept)  BY <2>1, TabIs
  <2>3. Ends(<<t, k>>, x)  BY <1>2, <1>3, <2>1
  <2> QED BY <1>2, <2>1, <2>2, <2>3, EndsFits
<1>4. CASE k = "share"
  <2>1. "error" \in Phases \ {"sending"}  BY DEF Phases
  <2>2. PICK x \in Tab : /\ x = [tab[t] EXCEPT !.phase = "error"]
                         /\ TabFits(x, epoch, stored, kept)
                         /\ x.view = tab[t].view /\ x.dev = tab[t].dev
    BY <1>2, <1>4, <2>1, WaitEnds
  <2>3. Ends(<<t, k>>, x)  BY <1>2, <1>4, <2>2
  <2> QED BY <1>2, <1>4, <2>2, <2>3, EndsFits
<1> QED BY <1>3, <1>4

LEMMA NothingNewerFits ==
    ASSUME IInv, NEW t \in Tabs, NEW k \in {"app", "share"}, sync[<<t, k>>].pc # "idle",
           UNCHANGED server, UNCHANGED browser, opening' = opening,
           epoch \in DOMAIN sync[<<t, k>>].held,
           Ends(<<t, k>>, NothingNewer(<<t, k>>, tab[t]))
    PROVE  IInv'
<1>1. tab[t] \in Tab /\ TabFits(tab[t], epoch, stored, kept) /\ epoch \in Epochs  BY TabIs
<1>2. CASE k = "app"
  <2>1. PICK x : x = tab[t]  OBVIOUS
  <2>2. Ends(<<t, k>>, x)  BY <1>2, <2>1, SyncIs DEF NothingNewer
  <2> QED BY <1>1, <2>1, <2>2, EndsFits
<1>3. CASE k = "share"
  <2>1. PICK r : r = sync[<<t, k>>].held  OBVIOUS
  <2>2. RingFits(r, epoch) /\ r # Empty  BY <1>1, <2>1, SyncIs, EmptyFits DEF SyncFits
  <2>3. PICK x : x = Saves(tab[t], r, TRUE)  OBVIOUS
  <2>4. tab[t].view = "share" /\ tab[t].dev # Nobody  BY <1>3, ShareWaits
  <2>5. SavedAs(x, tab[t], epoch, stored, kept)  BY <1>1, <2>2, <2>3, <2>4, SavesAgain
  <2>6. Ends(<<t, k>>, x)  BY <1>3, <2>1, <2>3, SyncIs DEF NothingNewer
  <2>7. x \in Tab /\ TabFits(x, epoch, stored, kept) /\ x.view = tab[t].view /\ x.dev = tab[t].dev
    BY <2>5 DEF SavedAs
  <2> QED BY <1>3, <2>6, <2>7, EndsFits
<1> QED BY <1>2, <1>3

LEMMA LeftOutFits ==
    ASSUME IInv, NEW t \in Tabs, NEW k \in {"app", "share"}, sync[<<t, k>>].pc # "idle",
           UNCHANGED server, UNCHANGED browser, opening' = opening,
           Ends(<<t, k>>, LeftOut(<<t, k>>, tab[t]))
    PROVE  IInv'
<1>1. tab[t] \in Tab /\ TabFits(tab[t], epoch, stored, kept) /\ epoch \in Epochs  BY TabIs
<1>2. CASE k = "app"
  <2>1. PICK x : x = [tab[t] EXCEPT !.stranded = TRUE]  OBVIOUS
  <2>2. Ends(<<t, k>>, x)  BY <1>2, <2>1, SyncIs DEF LeftOut
  <2>3. x \in Tab  BY <1>1, <2>1 DEF Tab
  <2>4. /\ x.phase = tab[t].phase /\ x.using = tab[t].using /\ x.view = tab[t].view
        /\ x.share = tab[t].share /\ x.session = tab[t].session /\ x.sweeps = tab[t].sweeps
        /\ x.left = tab[t].left /\ x.ring = tab[t].ring /\ x.dev = tab[t].dev
        /\ x.leaving = tab[t].leaving
    BY <1>1, <2>1 DEF Tab
  <2>5. RingFits(x.ring, epoch)  BY <1>1, <2>4 DEF TabFits
  <2>6. TabFits(x, epoch, stored, kept)  BY <1>1, <2>3, <2>4, <2>5, AlikeFits
  <2> QED BY <2>2, <2>3, <2>4, <2>6, EndsFits
<1>3. CASE k = "share"
  <2>1. "locked" \in Phases \ {"sending"}  BY DEF Phases
  <2>2. PICK x \in Tab : /\ x = [tab[t] EXCEPT !.phase = "locked"]
                         /\ TabFits(x, epoch, stored, kept)
                         /\ x.view = tab[t].view /\ x.dev = tab[t].dev
    BY <1>3, <2>1, WaitEnds
  <2>3. Ends(<<t, k>>, x)  BY <1>3, <2>2, SyncIs DEF LeftOut
  <2> QED BY <1>3, <2>2, <2>3, EndsFits
<1> QED BY <1>2, <1>3

LEMMA FetchSealedFits ==
    ASSUME IInv, NEW th \in Threads, FetchSealed(th)
    PROVE  IInv'
<1>1. PICK t \in Tabs, k \in {"app", "share"} : th = <<t, k>> /\ th[1] = t
  BY ThreadIs
<1>2. /\ sync[<<t, k>>].pc = "fetch" /\ UNCHANGED server /\ UNCHANGED browser
      /\ opening' = opening
  BY <1>1 DEF FetchSealed
<1>3. CASE epoch \in DOMAIN sync[<<t, k>>].held
  <2>1. Ends(<<t, k>>, NothingNewer(<<t, k>>, tab[t]))  BY <1>1, <1>3 DEF FetchSealed
  <2> QED BY <1>2, <1>3, <2>1, NothingNewerFits
<1>4. CASE epoch \notin DOMAIN sync[<<t, k>>].held /\ ~CanOpen(th)
  <2>1. Ends(<<t, k>>, LeftOut(<<t, k>>, tab[t]))  BY <1>1, <1>4 DEF FetchSealed
  <2> QED BY <1>2, <2>1, LeftOutFits
<1>5. CASE epoch \notin DOMAIN sync[<<t, k>>].held /\ CanOpen(th)
  <2>1. PICK z \in Sync : z = sync[<<t, k>>]  BY SyncIs
  <2>2. PICK y : y = [z EXCEPT !.pc = "cache", !.key = z.key, !.got = epoch]  OBVIOUS
  <2>3. tab' = tab /\ sync' = [sync EXCEPT ![<<t, k>>] = y]
    <3>1. y = [z EXCEPT !.pc = "cache", !.got = epoch]  BY <2>1, <2>2 DEF Sync
    <3>2. tab' = tab /\ sync' = [sync EXCEPT ![<<t, k>>] = [z EXCEPT !.pc = "cache", !.got = epoch]]
      BY <1>1, <1>5, <2>1, SyncIs DEF FetchSealed
    <3> QED BY <3>1, <3>2
  <2>4. z.key \in Keypairs /\ epoch \in Epochs /\ epoch <= epoch /\ z.pc # "idle"
    BY <1>2, <2>1, AsItIs DEF Sync
  <2>5. y \in Sync /\ SyncFits(y, k, tab[t], epoch)  BY <2>1, <2>2, <2>4, GoesFits
  <2> QED BY <1>2, <2>3, <2>5, NothingShared, SyncAlone
<1> QED BY <1>3, <1>4, <1>5

LEMMA CacheNewerFits ==
    ASSUME IInv, NEW th \in Threads, CacheNewer(th)
    PROVE  IInv'
<1>1. PICK t \in Tabs, k \in {"app", "share"} : th = <<t, k>> /\ th[1] = t /\ th[2] = k
  BY ThreadIs
<1>2. PICK z \in Sync : z = sync[<<t, k>>] /\ SyncFits(z, k, tab[t], epoch)  BY SyncIs
<1>3. PICK r : r = WithKey(z.held, z.got, z.got)  OBVIOUS
<1>4. PICK x : x = IF k = "app" THEN [tab[t] EXCEPT !.ring = r] ELSE Saves(tab[t], r, TRUE)
  OBVIOUS
<1>5. /\ z.pc = "cache" /\ sync' = [sync EXCEPT ![<<t, k>>] = Idle] /\ Caches(t, x, r)
      /\ opening' = opening /\ UNCHANGED server /\ creds' = creds /\ idb' = idb /\ kept' = kept
      /\ epoch' = epoch /\ stored' = stored /\ devices' = devices
  BY <1>1, <1>2, <1>3, <1>4 DEF CacheNewer, Cache, Caches, server
<1>6. tab[t] \in Tab /\ TabFits(tab[t], epoch, stored, kept) /\ epoch \in Epochs  BY TabIs
<1>7. RingFits(r, epoch) /\ r # Empty /\ r \in Rings
  <2>1. z.got \in Epochs /\ z.got <= epoch /\ RingFits(z.held, epoch)  BY <1>2 DEF SyncFits, Sync
  <2>2. RingFits(r, epoch) /\ r # Empty  BY <1>3, <1>6, <2>1, WithKeyFits
  <2> QED BY <2>2 DEF RingFits
<1>8. /\ TabFits(x, epoch, stored, kept) /\ x.view = tab[t].view /\ x.dev = tab[t].dev
      /\ (k = "app" => x.phase = tab[t].phase)
  <2>1. CASE k = "app"
    <3>1. x = [tab[t] EXCEPT !.ring = r]  BY <1>4, <2>1
    <3>2. x \in Tab  BY <1>6, <1>7, <3>1 DEF Tab
    <3>3. /\ x.phase = tab[t].phase /\ x.using = tab[t].using /\ x.view = tab[t].view
          /\ x.share = tab[t].share /\ x.session = tab[t].session /\ x.sweeps = tab[t].sweeps
          /\ x.left = tab[t].left /\ x.ring = r /\ x.dev = tab[t].dev
          /\ x.leaving = tab[t].leaving
      BY <1>6, <3>1 DEF Tab
    <3>4. TabFits(x, epoch, stored, kept)  BY <1>6, <1>7, <3>2, <3>3, AlikeFits
    <3> QED BY <3>3, <3>4
  <2>2. CASE k = "share"
    <3>1. x = Saves(tab[t], r, TRUE)  BY <1>4, <2>2
    <3>2. tab[t].view = "share" /\ tab[t].dev # Nobody  BY <1>2, <1>5, <2>2, ShareWaits
    <3>3. SavedAs(x, tab[t], epoch, stored, kept)  BY <1>6, <1>7, <3>1, <3>2, SavesAgain
    <3> QED BY <2>2, <3>3 DEF SavedAs
  <2> QED BY <2>1, <2>2
<1>9. epoch' \in Epochs /\ TabFits(x, epoch', stored', kept') /\ RingFits(r, epoch')
  BY <1>5, <1>6, <1>7, <1>8
<1>10. RingFits(local', epoch) /\ RingFits(local', epoch')  BY <1>5, <1>9, CachesFits
<1>11. PICK w \in Tab : /\ tab' = [tab EXCEPT ![t] = w] /\ TabFits(w, epoch', stored', kept')
                        /\ w.phase = x.phase /\ w.view = x.view /\ w.dev = x.dev
  BY <1>5, <1>9, CachesFits
<1>12. Onward  BY <1>5, <1>10, DevicesStay, DevicesChange
<1>13. sync[<<t, k>>].pc # "idle" /\ w.view = tab[t].view /\ w.dev = tab[t].dev
       /\ (k = "app" => w.phase = tab[t].phase)
  BY <1>2, <1>5, <1>8, <1>11
<1>14. /\ opening[t].for = "share" => w.phase = "opening"
       /\ opening[t].for = "pair" => w.dev = Nobody
       /\ w.view = "closed" => opening[t].pc = "idle"
       /\ k = "app" /\ sync[<<t, "share">>].pc # "idle" => w.phase = "fetching"
  BY <1>13, ThreadLeaves
<1>15. Idle \in Sync /\ SyncFits(Idle, k, w, epoch')  BY <1>9, IdleFits
<1> QED BY <1>5, <1>11, <1>12, <1>14, <1>15, SyncSteps

-----------------------------------------------------------------------------
(* The invariant, and what it shows.                                       *)

LEMMA InitFits ==
    ASSUME Init
    PROVE  IInv
<1>1. 0 \in Epochs /\ RingFits(Empty, 0) /\ Empty \in Rings
      /\ RingFits(OnlyKey(0), 0) /\ OnlyKey(0) \in Rings
  BY EpochsAre, EmptyFits, OnlyKeyFits DEF RingFits
<1>2. /\ epoch = 0 /\ stored = {} /\ creds = 1 /\ local = Empty
      /\ devices = [d \in Devices |-> [status |-> IF d = 1 THEN "on" ELSE "off", at |-> 0,
                                       pub |-> NoKey, sealed |-> NoKey]]
      /\ idb = [d \in Devices |-> NoKey] /\ kept = [s \in Shares |-> "never"]
      /\ sync = [th \in Threads |-> Idle] /\ opening = [t \in Tabs |-> Shut]
  BY DEF Init
<1>3. NoKey \in Keypairs /\ 1 \in Devices /\ 1 # Nobody /\ NoShare \in Shares \cup {NoShare}
  BY BoundAssumption DEF Keypairs, Devices, Nobody
<1>4. CommonFits
  <2>1. ASSUME NEW d \in Devices  PROVE devices[d] \in Device /\ devices[d].at <= epoch
    BY <1>1, <1>2, <1>3 DEF Device
  <2>2. devices \in [Devices -> Device]  BY <1>2, <2>1
  <2>3. idb \in [Devices -> Keypairs] /\ kept \in [Shares -> {"never", "kept", "old", "gone"}]
    BY <1>2, <1>3
  <2> QED BY <1>1, <1>2, <1>3, <2>1, <2>2, <2>3 DEF CommonFits, SentOpens
<1>5. ASSUME NEW t \in Tabs  PROVE tab[t] \in Tab /\ TabFits(tab[t], epoch, stored, kept)
  <2>1. Closed \in Tab /\ TabFits(Closed, epoch, stored, kept)  BY <1>1, <1>2, ClosedFits
  <2>2. CASE t # First
    <3>1. tab[t] = Closed  BY <2>2 DEF Init
    <3> QED BY <2>1, <3>1
  <2>3. CASE t = First
    <3>1. PICK r : r = OnlyKey(0)  OBVIOUS
    <3>2. PICK x : x = [Closed EXCEPT !.view = "app", !.dev = 1, !.ring = r, !.session = r]
      OBVIOUS
    <3>3. tab[t] = x  BY <2>3, <3>1, <3>2 DEF Init
    <3>4. x \in Tab  BY <1>1, <1>3, <2>1, <3>1, <3>2 DEF Tab
    <3>5. /\ x.view = "app" /\ x.ring = r /\ x.session = r /\ x.using = Closed.using
          /\ x.phase = Closed.phase /\ x.leaving = Closed.leaving /\ x.sweeps = Closed.sweeps
      BY <2>1, <3>2 DEF Tab
    <3>6. /\ Closed.using = Empty /\ Closed.phase = "none" /\ Closed.leaving = FALSE
          /\ Closed.sweeps = {}
      BY DEF Closed
    <3>7. TabFits(x, epoch, stored, kept)  BY <1>1, <1>2, <3>1, <3>4, <3>5, <3>6 DEF TabFits
    <3> QED BY <3>3, <3>4, <3>7
  <2> QED BY <2>2, <2>3
<1>6. ASSUME NEW x  PROVE /\ Shut \in Opening /\ OpeningFits(Shut, x, epoch)
                          /\ Idle \in Sync /\ \A kind : SyncFits(Idle, kind, x, epoch)
  BY <1>1, <1>2, IdleFits
<1>7. tab \in [Tabs -> Tab]
  <2>1. tab = [t \in Tabs |-> tab[t]]  BY DEF Init
  <2> QED BY <1>5, <2>1
<1>8. sync \in [Threads -> Sync] /\ opening \in [Tabs -> Opening]  BY <1>2, <1>6
<1>9. ASSUME NEW t \in Tabs  PROVE OneTabFits(t)
  <2>1. opening[t] = Shut  BY <1>2
  <2>2. ASSUME NEW kind \in {"app", "share"}  PROVE sync[<<t, kind>>] = Idle
    BY <1>2 DEF Threads
  <2> QED BY <1>5, <1>6, <2>1, <2>2 DEF OneTabFits
<1> QED BY <1>4, <1>7, <1>8, <1>9 DEF IInv

LEMMA StutterFits ==
    ASSUME IInv, UNCHANGED vars
    PROVE  IInv'
<1>1. UNCHANGED server /\ UNCHANGED browser /\ tab' = tab /\ opening' = opening /\ sync' = sync
  BY DEF vars, calls
<1> QED BY <1>1, NothingShared, NoTabSteps

LEMMA NextFits ==
    ASSUME IInv, Next
    PROVE  IInv'
<1>1. ASSUME NEW t \in Tabs,
             \/ \E s \in Shares : Share(t, s)
             \/ OpenApp(t) \/ Reload(t) \/ ReloadStuck(t) \/ Close(t) \/ Sweep(t)
      PROVE  IInv'
  <2>1. CASE \E s \in Shares : Share(t, s)  BY <2>1, ShareFits
  <2>2. CASE OpenApp(t)  BY <2>2, OpenAppFits
  <2>3. CASE Reload(t)  BY <2>3, AgainFits DEF Reload
  <2>4. CASE ReloadStuck(t)  BY <2>4, AgainFits DEF ReloadStuck
  <2>5. CASE Close(t)  BY <2>5, CloseFits
  <2>6. CASE Sweep(t)  BY <2>6, SweepFits
  <2> QED BY <1>1, <2>1, <2>2, <2>3, <2>4, <2>5, <2>6
<1>2. ASSUME NEW t \in Tabs,
             \/ Load(t) \/ SendPart(t) \/ SendStale(t) \/ SendFails(t) \/ SendRefused(t)
             \/ Saved(t) \/ TryAgain(t) \/ Done(t) \/ Discard(t)
      PROVE  IInv'
  BY <1>2, LoadFits, SendPartFits, SendStaleFits, SendFailsFits, SendRefusedFits, SavedFits,
     TryAgainFits, DoneFits, DiscardFits
<1>3. ASSUME NEW t \in Tabs,
             \/ SignIn(t) \/ RecoverAlone(t) \/ Pair(t) \/ Unlock(t) \/ UnlockShare(t)
             \/ Ask(t) \/ AskFails(t) \/ Opened(t) \/ Mistyped(t)
      PROVE  IInv'
  BY <1>3, SignInFits, RecoverAloneFits, PairFits, UnlockFits, UnlockShareFits, AskFits,
     AskFailsFits, OpenedFits, MistypedFits
<1>4. ASSUME NEW t \in Tabs,
             \/ Lock(t) \/ RekeyHere(t) \/ SignOut(t) \/ ClearSession(t) \/ RefreshRing(t)
             \/ \E persist \in BOOLEAN : Join(t, persist) \/ KeepUnlocked(t, persist)
      PROVE  IInv'
  BY <1>4, LockFits, RekeyHereFits, SignOutFits, ClearSessionFits, RefreshRingFits, JoinFits,
     KeepUnlockedFits
<1>5. ASSUME NEW th \in Threads,
             \/ GetKeypair(th) \/ PutKeypair(th) \/ Register(th) \/ FetchSealed(th)
             \/ CacheNewer(th) \/ NoIndexedDB(th) \/ SyncFails(th)
      PROVE  IInv'
  BY <1>5, GetKeypairFits, PutKeypairFits, RegisterFits, FetchSealedFits, CacheNewerFits,
     NoIndexedDBFits, SyncFailsFits
<1>6. ASSUME \/ \E s \in Shares : Age(s)
             \/ \E r \in stored : Reencrypt(r)
             \/ Rekey
      PROVE  IInv'
  BY <1>6, AgeFits, ReencryptFits, RekeyFits
<1> QED BY <1>1, <1>2, <1>3, <1>4, <1>5, <1>6 DEF Next

\* The invariant holds, whatever the fairness.
LEMMA Inductive == Spec => []IInv
<1>1. Init => IInv  BY InitFits
<1>2. IInv /\ [Next]_vars => IInv'  BY NextFits, StutterFits
<1> QED BY <1>1, <1>2, PTL DEF Spec

\* The account, the browser's caches and every tab keep to their types.
THEOREM TypeCorrect == Spec => []TypeOK
<1>1. DOMAIN Closed =
        {"view", "share", "dev", "ring", "session", "stranded", "leaving", "sweeps", "phase",
         "using", "left", "again"}
  BY DEF Closed
<1>2. ASSUME IInv  PROVE TypeOK
  <2>1. ASSUME NEW t \in Tabs
        PROVE  /\ DOMAIN tab[t] = DOMAIN Closed
               /\ tab[t].view \in {"closed", "app", "share"} /\ tab[t].share \in Shares \cup {NoShare}
               /\ tab[t].ring \in Rings /\ tab[t].session \in Rings /\ tab[t].using \in Rings
    <3>1. tab[t] \in Tab  BY <1>2, TabIs
    <3>2. DOMAIN tab[t] = DOMAIN Closed  BY <1>1, <3>1 DEF Tab
    <3> QED BY <3>1, <3>2 DEF Tab
  <2> QED BY <1>2, <2>1 DEF IInv, CommonFits, RingFits, TypeOK
<1> QED BY <1>2, Inductive, PTL

\* What this browser stores in the account every device can open: whatever its
\* tabs do to each other's caches, the key it was written under is that of the
\* epoch it is stored under (ShareScreen's save, unlockWithPassphrase, syncRing).
THEOREM SentOpensAlways == Spec => []SentOpens
<1>1. IInv => SentOpens  BY DEF IInv, CommonFits
<1> QED BY <1>1, Inductive, PTL

\* Only a sweep, the end of a save and the user's own word end a share.
Ended(s) == kept[s] = "kept" /\ kept'[s] = "gone"

LEMMA KeptBy ==
    ASSUME IInv, [Next]_vars, NEW s \in Shares, Ended(s)
    PROVE  \E t \in Tabs : Sweep(t) \/ Saved(t) \/ Discard(t)
<1>1. kept' # kept  BY DEF Ended
<1>2. kept \in [Shares -> {"never", "kept", "old", "gone"}]  BY DEF IInv, CommonFits
<1>3. ASSUME NEW t \in Tabs,
             \/ OpenApp(t) \/ Reload(t) \/ ReloadStuck(t) \/ Close(t)
             \/ Load(t) \/ SendPart(t) \/ SendStale(t) \/ SendFails(t) \/ SendRefused(t)
             \/ TryAgain(t) \/ Done(t)
      PROVE  kept' = kept
  BY <1>3 DEF OpenApp, Reload, ReloadStuck, Again, Close, Load, SendPart, SendStale, SendFails,
     SendRefused, TryAgain, Done, browser
<1>4. ASSUME NEW t \in Tabs,
             \/ SignIn(t) \/ RecoverAlone(t) \/ Pair(t) \/ Unlock(t) \/ UnlockShare(t)
             \/ Ask(t) \/ AskFails(t) \/ Opened(t) \/ Mistyped(t)
      PROVE  kept' = kept
  BY <1>4 DEF SignIn, RecoverAlone, Keeps, Pair, Unlock, UnlockShare, Ask, AskFails, Opened,
     Mistyped, browser
<1>5. ASSUME NEW t \in Tabs,
             \/ Lock(t) \/ RekeyHere(t) \/ SignOut(t) \/ ClearSession(t) \/ RefreshRing(t)
             \/ \E persist \in BOOLEAN : Join(t, persist) \/ KeepUnlocked(t, persist)
      PROVE  kept' = kept
  BY <1>5 DEF Lock, RekeyHere, SignOut, ClearSession, RefreshRing, Join, KeepUnlocked, browser
<1>6. ASSUME NEW th \in Threads,
             \/ GetKeypair(th) \/ PutKeypair(th) \/ Register(th) \/ FetchSealed(th)
             \/ CacheNewer(th) \/ NoIndexedDB(th) \/ SyncFails(th)
      PROVE  kept' = kept
  BY <1>6 DEF GetKeypair, PutKeypair, Register, FetchSealed, CacheNewer, NoIndexedDB, SyncFails,
     browser
<1>7. ASSUME Rekey \/ \E r \in stored : Reencrypt(r)
      PROVE  kept' = kept
  BY <1>7 DEF Rekey, Reencrypt, browser
<1>8. ~\E u \in Shares : Age(u)  BY <1>2 DEF Age, Ended
<1>9. ~\E t \in Tabs, u \in Shares : Share(t, u)  BY <1>2 DEF Share, Ended
<1>10. UNCHANGED vars => kept' = kept  BY DEF vars, browser
<1> QED BY <1>1, <1>3, <1>4, <1>5, <1>6, <1>7, <1>8, <1>9, <1>10 DEF Next

LEMMA KeptUntil ==
    ASSUME IInv, [Next]_vars, NEW s \in Shares, Ended(s)
    PROVE  Arrived(s) \/ Discards(s)
<1>0. kept \in [Shares -> {"never", "kept", "old", "gone"}] /\ kept[s] = "kept" /\ kept'[s] = "gone"
  BY DEF IInv, CommonFits, Ended
<1>1. PICK t \in Tabs : Sweep(t) \/ Saved(t) \/ Discard(t)  BY KeptBy
<1>2. TabFits(tab[t], epoch, stored, kept) /\ tab[t] \in Tab  BY TabIs
<1>3. CASE Sweep(t)
  <2>1. s \notin tab[t].sweeps  BY <1>0, <1>2 DEF TabFits
  <2> QED BY <1>0, <1>3, <2>1 DEF Sweep
<1>4. CASE Saved(t)
  <2>1. tab[t].share = s /\ tab[t].phase = "sending" /\ tab[t].left = {}  BY <1>0, <1>4 DEF Saved
  <2>2. Sent(tab[t], stored)  BY <1>2, <2>1 DEF TabFits
  <2> QED BY <2>1, <2>2 DEF Sent, Arrived
<1>5. CASE Discard(t)
  <2>1. tab[t].share = s /\ tab[t].phase \in {"locked", "error"}  BY <1>0, <1>5 DEF Discard
  <2>2. tab[t].view = "share"  BY <2>1, ShownFits
  <2>3. PICK x : LeftAs(x, tab[t])  BY DEF LeftAs
  <2>4. tab' = [tab EXCEPT ![t] = x]  BY <1>5, <2>3, TabIs DEF Discard, Leaves, LeftAs
  <2>5. tab'[t].view = "app"
    <3>1. x.view = "app"  BY <1>2, <2>3 DEF LeftAs, Tab
    <3> QED BY <2>4, <3>1, TabIs
  <2> QED BY <2>1, <2>2, <2>5 DEF Discards, Shows
<1> QED BY <1>1, <1>3, <1>4, <1>5

\* A share the service worker kept stays kept until all of it is in the account,
\* unless its user discards it or a day has passed: no reload, error, lock,
\* sign-out or other tab loses it (shares.ts, ShareScreen.tsx).
THEOREM SharesStayKept == Spec => SharesKept
<1>1. IInv /\ [Next]_vars =>
        [\A s \in Shares :
           kept[s] = "kept" /\ kept'[s] = "gone" => Arrived(s) \/ Discards(s)]_vars
  BY KeptUntil DEF Ended
<1> QED BY <1>1, Inductive, PTL DEF Spec, SharesKept

-----------------------------------------------------------------------------
(***************************************************************************)
(* The history on the screen of such a browser (HistoryView): a delete     *)
(* that was undone deletes nothing, for any clips, pages and bounds.       *)
(*                                                                         *)
(* Deletes are asked for under a clip's id and answered whenever the       *)
(* server answers; so the invariant says that each one under way, and the  *)
(* one that can be undone, is of a clip the user has left deleted.         *)
(***************************************************************************)
CONSTANTS Clips, PageSize, MaxWrites, MaxLoads
VARIABLES rows, fresh, time, current, link, wire,
          here, list, cursor, loads, decoding, held, asking,
          pending, requests, asked, writes, does, lost   \* its epoch, acts and fails

H == INSTANCE HistoryView WITH epoch <- current, acts <- does, fails <- lost

\* What is asked of the server, and what is about to be, the user has asked for.
AskedFor ==
    /\ pending # H!None => pending \in asked
    /\ \A r \in requests : r = H!Request(r.does, r.clip)
    /\ \A r \in requests : r.does = "delete" => r.clip \in asked

LEMMA NothingAsked == H!Init => AskedFor
BY DEF H!Init, AskedFor

\* A delete of what is pending is asked for.
LEMMA DeleteAsked ==
    ASSUME AskedFor, requests' \subseteq requests \cup {H!Request("delete", pending)},
           pending = H!None => requests' = requests, asked \subseteq asked',
           pending' # H!None => pending' \in asked'
    PROVE  AskedFor'
BY DEF AskedFor, H!Request

LEMMA CommitsAsked ==
    ASSUME AskedFor, H!Commits, asked \subseteq asked', pending' # H!None => pending' \in asked'
    PROVE  AskedFor'
<1>1. requests' \subseteq requests \cup {H!Request("delete", pending)}
      /\ (pending = H!None => requests' = requests)
  BY DEF H!Commits
<1> QED BY <1>1, DeleteAsked

\* Once a request has ended, no other deletes its clip.
LEMMA EndsAsked ==
    ASSUME AskedFor, NEW r \in requests, H!Ends(r), pending' = pending
    PROVE  AskedFor'
<1>1. requests' = requests \ {r}  BY DEF H!Ends
<1>2. ASSUME NEW q \in requests', q.does = "delete" PROVE q.clip \in asked'
  <2>1. q \in requests /\ q # r /\ q.clip \in asked  BY <1>1, <1>2 DEF AskedFor
  <2>2. r.does = "delete" => q.clip # r.clip  BY <1>2, <2>1 DEF AskedFor
  <2> QED BY <2>1, <2>2 DEF H!Ends
<1>3. pending' # H!None => pending' \in asked'  BY DEF AskedFor, H!Ends
<1> QED BY <1>1, <1>2, <1>3 DEF AskedFor

LEMMA UndoAsked ==
    ASSUME AskedFor, H!Undo
    PROVE  AskedFor'
<1>1. pending' = H!None /\ requests' = requests
      /\ asked' = IF H!Request("delete", pending) \in requests THEN asked ELSE asked \ {pending}
  BY DEF H!Undo, H!Undoes
<1>2. ASSUME NEW r \in requests, r.does = "delete" PROVE r.clip \in asked'
  <2>1. r = H!Request("delete", r.clip) /\ r.clip \in asked  BY <1>2 DEF AskedFor
  <2> QED BY <1>1, <2>1
<1> QED BY <1>1, <1>2 DEF AskedFor

\* What the server answers.
LEMMA AnswersAsked ==
    ASSUME AskedFor, NEW r \in requests, H!Serve(r) \/ H!NotFound(r) \/ H!RequestFails(r)
    PROVE  AskedFor'
<1>1. H!Ends(r) /\ pending' = pending  BY DEF H!Serve, H!NotFound, H!RequestFails
<1> QED BY <1>1, EndsAsked

\* What the user does.
LEMMA UserAsked ==
    ASSUME AskedFor, H!User \/ H!UndoTimeout
    PROVE  AskedFor'
<1>1. CASE H!Look \/ H!LoadMore \/ H!Enter
  BY <1>1 DEF H!Look, H!LoadMore, H!Enter, H!user, AskedFor
<1>2. CASE H!Undo  BY <1>2, UndoAsked
<1>3. CASE H!Leave
  <2>1. /\ requests' \subseteq requests \cup {H!Request("delete", pending)}
        /\ pending = H!None => requests' = requests
        /\ asked' = asked /\ pending' = H!None
    BY <1>3 DEF H!Leave
  <2> QED BY <2>1, DeleteAsked
<1>4. ASSUME NEW c \in Clips, H!Remove(c) PROVE AskedFor'
  BY <1>4, CommitsAsked DEF H!Remove
<1>5. ASSUME NEW c \in Clips, H!TogglePin(c) PROVE AskedFor'
  <2>1. pending' = pending /\ asked' = asked
    BY <1>5 DEF H!TogglePin
  <2>2. requests' = requests \cup {H!Request(IF list[c].pinned THEN "unpin" ELSE "pin", c)}
    BY <1>5 DEF H!TogglePin
  <2> QED BY <2>1, <2>2 DEF AskedFor, H!Request
<1>6. CASE H!UndoTimeout
  BY <1>6, CommitsAsked DEF H!UndoTimeout
<1> QED BY <1>1, <1>2, <1>3, <1>4, <1>5, <1>6 DEF H!User

\* The rest leaves alone what is asked.
LEMMA RestAsked ==
    ASSUME H!Others \/ H!Loading \/ H!Hears \/ H!Connect \/ H!Disconnect \/ H!RefreshFails
           \/ (\E l \in loads : H!LoadFails(l)) \/ UNCHANGED H!vars
    PROVE  requests' = requests /\ pending' = pending /\ asked' = asked
<1>1. CASE H!Others
  BY <1>1 DEF H!Others, H!Create, H!Bump, H!Pin, H!Delete, H!Reencrypt, H!Rotate, H!user
<1>2. CASE H!Loading \/ H!Connect
  BY <1>2 DEF H!Loading, H!Loaded, H!Connect, H!user
<1>3. CASE H!Hears
  BY <1>3 DEF H!Hears, H!Deliver, H!Decoded, H!Refreshed, H!user
<1>4. CASE H!Disconnect \/ H!RefreshFails \/ (\E l \in loads : H!LoadFails(l))
  BY <1>4 DEF H!Disconnect, H!RefreshFails, H!LoadFails, H!user
<1>5. CASE UNCHANGED H!vars
  BY <1>5 DEF H!vars, H!user
<1> QED BY <1>1, <1>2, <1>3, <1>4, <1>5

LEMMA AskedForStays == AskedFor /\ [H!Next]_(H!vars) => AskedFor'
<1> SUFFICES ASSUME AskedFor, [H!Next]_(H!vars) PROVE AskedFor'  OBVIOUS
<1>1. CASE H!Answers \/ (\E r \in requests : H!RequestFails(r))
  BY <1>1, AnswersAsked DEF H!Answers
<1>2. CASE H!User \/ H!UndoTimeout
  BY <1>2, UserAsked
<1>3. CASE H!Others \/ H!Loading \/ H!Hears \/ H!Connect \/ H!Disconnect \/ H!RefreshFails
           \/ (\E l \in loads : H!LoadFails(l)) \/ UNCHANGED H!vars
  <2>1. requests' = requests /\ pending' = pending /\ asked' = asked  BY <1>3, RestAsked
  <2> QED BY <2>1 DEF AskedFor
<1> QED BY <1>1, <1>2, <1>3 DEF H!Next, H!Lost

\* A row that goes while a request does is one the request deletes.
LEMMA GoesAsked ==
    ASSUME AskedFor, [H!Next]_(H!vars), requests' # requests,
           NEW c \in DOMAIN rows \ DOMAIN rows'
    PROVE  c \in asked
<1>1. ~(H!User \/ H!UndoTimeout)
  <2>1. ASSUME H!User \/ H!UndoTimeout PROVE rows' = rows
    <3>1. CASE H!Look \/ H!LoadMore \/ H!Enter
      BY <3>1 DEF H!Look, H!LoadMore, H!Enter, H!server
    <3>2. CASE H!Undo \/ H!Leave \/ H!UndoTimeout
      BY <3>2 DEF H!Undo, H!Leave, H!UndoTimeout, H!server
    <3>3. CASE \E d \in Clips : H!Remove(d) \/ H!TogglePin(d)
      BY <3>3 DEF H!Remove, H!TogglePin, H!server
    <3> QED BY <2>1, <3>1, <3>2, <3>3 DEF H!User
  <2> QED BY <2>1
<1>2. H!Answers \/ (\E r \in requests : H!RequestFails(r))
  BY <1>1, RestAsked DEF H!Next, H!Lost
<1>3. PICK r \in requests : H!Serve(r) \/ H!NotFound(r) \/ H!RequestFails(r)
  BY <1>2 DEF H!Answers
<1>4. H!Serves(r)
  <2>1. rows' # rows  OBVIOUS
  <2> QED BY <1>3, <2>1 DEF H!Serve, H!NotFound, H!RequestFails, H!server
<1>5. r.does = "delete" /\ c = r.clip
  <2>1. CASE r.does = "delete"
    <3>1. DOMAIN rows' = DOMAIN rows \ {r.clip}  BY <1>4, <2>1 DEF H!Serves, H!Drop
    <3> QED BY <2>1, <3>1
  <2>2. CASE r.does # "delete"
    <3>1. DOMAIN rows' = DOMAIN rows  BY <1>4, <2>2 DEF H!Serves
    <3> QED BY <3>1
  <2> QED BY <2>1, <2>2
<1> QED BY <1>5 DEF AskedFor

\* Undone in time, a clip stays: the screen deletes none the user has not deleted
\* and left deleted, however its deletes, undos and their answers interleave
\* (apps/web/src/History.tsx, commit, remove and undo).
THEOREM UndoneStaysCorrect == H!Spec => H!UndoneStays
<1>1. AskedFor /\ [H!Next]_(H!vars) =>
        [\A c \in DOMAIN rows \ DOMAIN rows' : requests' # requests => c \in asked]_(H!vars)
  BY GoesAsked
<1> QED BY <1>1, NothingAsked, AskedForStays, PTL DEF H!Spec, H!UndoneStays

=============================================================================
