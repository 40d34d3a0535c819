--------------------------- MODULE AccountProofs ---------------------------
(***************************************************************************)
(* Proofs about Account, for any people, accounts, invites and bounds: an  *)
(* address is one account's and its reader's, an invite makes one account, *)
(* the admin secret opens one, guesses and failed sign-ins are bounded.    *)
(*                                                                         *)
(* The invariant has a part for each table, and one for the requests, that *)
(* says what a request under way knows of the rows it has read: a step     *)
(* then concerns few parts, and the others stand by what it leaves alone.  *)
(***************************************************************************)
EXTENDS Account, FiniteSetTheorems, TLAPS

-----------------------------------------------------------------------------
(* The parts of the invariant.                                             *)

\* users: only an account that is there has an address, the admin mark or
\* devices; an address is one account's and its reader's; one is the admin's.
UsersOK ==
    /\ row \in [Users -> {"none", "live", "deleted"}]
    /\ admin \in [Users -> BOOLEAN]
    /\ email \in [Users -> People \cup {NoOne}]
    /\ auth \in [Users -> Pass]
    /\ failed \in [Users -> Nat]
    /\ window \in [Users -> BOOLEAN]
    /\ devices \in [Users -> 0..Limit]
    /\ members \in [Users -> SUBSET People]
    /\ by \in [Users -> People \cup {NoOne, "invite"}]
    /\ \A u \in Users : row[u] # "live" => ~admin[u] /\ email[u] = NoOne /\ devices[u] = 0
OneEmail == \A u, v \in Users : email[u] = email[v] /\ email[u] # NoOne => u = v
OneAdmin == \A u, v \in Users : admin[u] /\ admin[v] => u = v
UInv == UsersOK /\ OneEmail /\ OneAdmin /\ AddressProved

\* Codes: no two rows share one, a row's tries are the guesses its code was
\* compared with, and what is not drawn yet was compared with none.
CodesOK ==
    /\ code \in [Keys -> Row]
    /\ inbox \in [People -> SUBSET Codes]
    /\ judged \in [Codes -> Nat]
    /\ drawn \in {0} \cup Codes
    /\ \A u \in Users : row[u] # "live" =>
          code[<<"delete", u>>].code = 0 /\ code[<<"change", u>>].code = 0
RowsCount ==
    \A k \in Keys : code[k].code # 0 =>
        /\ code[k].to \in People /\ code[k].code <= drawn
        /\ judged[code[k].code] = code[k].tries
OneKey == \A k, l \in Keys : code[k].code = code[l].code /\ code[k].code # 0 => k = l
JudgedOK == \A c \in Codes : judged[c] <= CodeAttempts /\ (c > drawn => judged[c] = 0)
CInv == CodesOK /\ RowsCount /\ OneKey /\ JudgedOK

\* Who a code is for: by its row, by who has it in the mail, by the mail under
\* way, and by the request that compares a guess with it.
Mailing(r, c, e) == work[r].pc = "mail" /\ work[r].c = c /\ work[r].e = e
Judging(r, c, e) ==
    work[r].pc = "judge" /\ work[r].op # "delete" /\ work[r].seen = c /\ work[r].e = e
SentTo(c, e) ==
    \/ c \in inbox[e]
    \/ \E k \in Keys : code[k].code = c /\ code[k].to = e
    \/ \E r \in Requests : Mailing(r, c, e) \/ Judging(r, c, e)
OneReader == \A c \in Codes : \A e, f \in People : SentTo(c, e) /\ SentTo(c, f) => e = f
SentDrawn == \A c \in Codes : \A e \in People : SentTo(c, e) => c <= drawn
RInv == OneReader /\ SentDrawn

\* Invites: one that made an account, or is about to, is used; one request at
\* most is about to make it.
InvitesOK == invite \in [Invites -> {"open", "used", "expired"}] /\ made \in [Invites -> SUBSET Users]
MadeOne ==
    \A i \in Invites : (made[i] # {} => invite[i] = "used") /\ \A u, v \in made[i] : u = v
Claiming(r, i) == work[r].pc = "insert" /\ work[r].i = i
ClaimedOnce ==
    \A i \in Invites :
        /\ \A r \in Requests : Claiming(r, i) => invite[i] = "used" /\ made[i] = {}
        /\ \A r, s \in Requests : Claiming(r, i) /\ Claiming(s, i) => r = s
IInvites == InvitesOK /\ MadeOne /\ ClaimedOnce

\* Requests: each has the fields its next statement needs, presents a code its
\* person was mailed, and sets an address only they read, or names by invite.
Fits(w) ==
    /\ w \in Work
    /\ w.pc \in {"store", "mail", "claim", "judge"} => w.op \in {"signup", "delete", "change"}
    /\ w.pc \in {"taken", "spend", "insert"} => w.op = "signup"
    /\ w.pc \in {"address", "erase"} => w.op = "delete"
    /\ w.pc \in {"free", "set"} => w.op = "change"
    /\ w.pc = "proof" => w.op \in {"delete", "change"}
    /\ w.pc \in {"store", "mail", "user"} => w.e \in People
    /\ w.op \in {"signup", "change"} => w.e \in People
    /\ w.op # "" => w.p \in People
    /\ w.op \in {"delete", "change"} => w.u \in Users
    /\ w.pc \in {"device", "set up", "fail", "reset"} => w.u \in Users
    /\ w.pc # "idle" => w.op # ""
    /\ w.i # NoInvite => w.op = "signup" /\ w.pc # "spend" /\ w.pc # "judge"
    /\ w.pc = "mail" => w.c \in Codes
    /\ w.pc = "judge" => w.seen \in Codes
Presented(w) == w.pc \in {"taken", "claim", "judge", "proof"} => w.c = 0 \/ w.c \in inbox[w.p]
Reads(w) == w.pc = "set" \/ (w.pc \in {"spend", "insert"} /\ w.i = NoInvite) => w.p = w.e
Sound(w) == Fits(w) /\ Presented(w) /\ Reads(w)
WInv ==
    /\ work \in [Requests -> Work] /\ begun \in 0..MaxBegun
    /\ \A r \in Requests : Sound(work[r])

IInv == UInv /\ CInv /\ RInv /\ IInvites /\ WInv /\ LockoutBounded

-----------------------------------------------------------------------------
(* What each part stands by.                                               *)

LEMMA Split == TypeOK <=> UsersOK /\ CodesOK /\ InvitesOK /\ work \in [Requests -> Work] /\ begun \in 0..MaxBegun
BY DEF TypeOK, UsersOK, CodesOK, InvitesOK

\* What a statement about one account needs.
LEMMA KeysTyped ==
    /\ \A u \in Users : <<"delete", u>> \in Keys /\ <<"change", u>> \in Keys
    /\ \A e \in People : <<"signup", e>> \in Keys
BY DEF Keys

LEMMA KeyTyped ==
    ASSUME NEW w, Fits(w), w.op \in {"signup", "delete", "change"}
    PROVE  Key(w) \in Keys
BY KeysTyped DEF Fits, Key

LEMMA IdleSound == Sound(Idle) /\ Idle.pc = "idle" /\ Idle.op = "" /\ Idle.i = NoInvite
BY BoundAssumption DEF Sound, Fits, Presented, Reads, Idle, Work, Pass

LEMMA UStands == ASSUME UInv, UNCHANGED users PROVE UInv'
BY DEF UInv, UsersOK, OneEmail, OneAdmin, AddressProved, users

LEMMA CStands ==
    ASSUME CInv, UNCHANGED codes, \A u \in Users : row'[u] # "live" => row[u] # "live"
    PROVE  CInv'
BY DEF CInv, CodesOK, RowsCount, OneKey, JudgedOK, codes

\* A request that goes on, the others as they were.
LEMMA WStands ==
    ASSUME WInv, NEW r \in Requests, NEW x, work' = [work EXCEPT ![r] = x],
           begun' \in 0..MaxBegun, Fits(x), Presented(x)', Reads(x),
           \A p \in People : inbox[p] \subseteq inbox'[p]
    PROVE  WInv'
<1>1. work' \in [Requests -> Work]  BY DEF WInv, Fits
<1>2. \A q \in Requests : Sound(work[q])'
  <2> SUFFICES ASSUME NEW q \in Requests PROVE Sound(work[q])'  OBVIOUS
  <2>1. CASE q = r  BY <2>1 DEF WInv, Sound, Fits, Reads, Presented
  <2>2. CASE q # r
    <3>1. work'[q] = work[q] /\ Sound(work[q])  BY <2>2 DEF WInv
    <3> QED BY <3>1 DEF Sound, Fits, Reads, Presented
  <2> QED BY <2>1, <2>2
<1> QED BY <1>1, <1>2 DEF WInv

LEMMA RStands ==
    ASSUME RInv, WInv, NEW r \in Requests, NEW x, work' = [work EXCEPT ![r] = x],
           x.pc \notin {"mail", "judge"}, UNCHANGED codes
    PROVE  RInv'
<1>1. \A c, e : \A q \in Requests : Mailing(q, c, e)' \/ Judging(q, c, e)'
                              => Mailing(q, c, e) \/ Judging(q, c, e)
  BY DEF Mailing, Judging, WInv
<1>2. \A c, e : SentTo(c, e)' => SentTo(c, e)  BY <1>1 DEF SentTo, codes
<1> QED BY <1>2 DEF RInv, OneReader, SentDrawn, codes

LEMMA IStands ==
    ASSUME IInvites, WInv, NEW r \in Requests, NEW x, work' = [work EXCEPT ![r] = x],
           x.pc = "insert" => x.i = NoInvite, UNCHANGED invites
    PROVE  IInvites'
<1>1. \A q \in Requests, i \in Invites : Claiming(q, i)' => Claiming(q, i)
  BY NullAssumption DEF Claiming, WInv
<1> QED BY <1>1 DEF IInvites, InvitesOK, MadeOne, ClaimedOnce, invites

LEMMA LStands ==
    ASSUME LockoutBounded, UsersOK, WInv, NEW r \in Requests, NEW x,
           work' = [work EXCEPT ![r] = x], x.pc # "fail",
           \A u \in Users : window'[u] => window[u] /\ failed'[u] = failed[u]
    PROVE  LockoutBounded'
<1> SUFFICES ASSUME NEW u \in Users, window'[u]
             PROVE  failed'[u] + Cardinality(Failing(u)') < SigninFailures + Cardinality(Requests)
  BY DEF LockoutBounded
<1>1. Failing(u)' \in SUBSET Failing(u)  BY DEF Failing, WInv
<1>2. Failing(u) \in SUBSET Requests /\ IsFiniteSet(Requests)  BY BoundAssumption DEF Failing
<1>3. Cardinality(Failing(u)') <= Cardinality(Failing(u))
      /\ Cardinality(Failing(u)') \in Nat /\ Cardinality(Failing(u)) \in Nat
  BY <1>1, <1>2, FS_Subset, FS_CardinalityType
<1>4. failed'[u] = failed[u] /\ window[u] /\ failed[u] \in Nat  BY DEF UsersOK
<1>5. SigninFailures \in Nat /\ Cardinality(Requests) \in Nat
  BY <1>2, FS_CardinalityType, BoundAssumption
<1> QED BY <1>3, <1>4, <1>5 DEF LockoutBounded

\* Most statements only read: the request goes on, or ends.
LEMMA OnlyGoesOn ==
    ASSUME IInv, NEW r \in Requests, NEW x, work' = [work EXCEPT ![r] = x],
           Sound(x), x.pc \notin {"mail", "judge", "fail"},
           x.pc = "insert" => x.i = NoInvite,
           begun' \in 0..MaxBegun, UNCHANGED <<users, codes, invites>>
    PROVE  IInv'
<1>1. UInv'  BY UStands DEF IInv
<1>2. CInv'  BY CStands DEF IInv, users
<1>3. RInv'  BY RStands DEF IInv
<1>4. IInvites'  BY IStands DEF IInv
<1>5. WInv'
  <2>1. Presented(x)'  BY DEF Sound, Presented, codes
  <2> QED BY <2>1, WStands DEF IInv, Sound, codes
<1>6. LockoutBounded'  BY LStands DEF IInv, UInv, users
<1> QED BY <1>1, <1>2, <1>3, <1>4, <1>5, <1>6 DEF IInv

-----------------------------------------------------------------------------
(* Steps that only read, and requests that begin.                          *)

LEMMA BeginsKeeps ==
    ASSUME IInv, NEW r \in Requests, NEW x, Begins(r, x), Sound(x),
           x.pc \notin {"mail", "judge", "fail", "insert"}, UNCHANGED <<users, codes, invites>>
    PROVE  IInv'
<1>1. begun' \in 0..MaxBegun  BY BoundAssumption DEF Begins, IInv, WInv
<1>2. work' = [work EXCEPT ![r] = x]  BY DEF Begins
<1> QED BY <1>1, <1>2, OnlyGoesOn

LEMMA AsksKeeps ==
    ASSUME IInv, NEW r \in Requests, NEW p \in People, Asks(r, p)
    PROVE  IInv'
<1> USE BoundAssumption, NullAssumption
<1>00. Idle \in Work  BY IdleSound DEF Sound, Fits
<1>0. /\ inbox[p] \subseteq Codes
      /\ \A u \in Users : Types(p, u) \subseteq Pass
      /\ \A u \in Users : email[u] \in People \cup {NoOne}
  BY DEF IInv, UInv, UsersOK, CInv, CodesOK, Types, Pass
<1>1. CASE AskCode(r, p)
  <2> DEFINE x == [Idle EXCEPT !.pc = "store", !.op = "signup", !.p = p, !.e = p]
  <2>1. x \in Work
    BY <1>00 DEF Work
  <2>2. x.pc = "store" /\ x.op = "signup" /\ x.p = p /\ x.e = p
        /\ x.u = NoUser /\ x.i = NoInvite /\ x.c = 0 /\ x.w = 0 /\ x.seen = 0
    BY DEF Idle
  <2> HIDE DEF x
  <2>3. Sound(x)
    BY <2>1, <2>2 DEF Sound, Fits, Presented, Reads
  <2> QED BY <1>1, <2>2, <2>3, BeginsKeeps DEF x, AskCode
<1>2. ASSUME NEW e \in People, NEW c \in Presents(p), Signup(r, p, e, c) PROVE IInv'
  <2> DEFINE x == [Idle EXCEPT !.pc = "taken", !.op = "signup", !.p = p, !.e = e, !.c = c]
  <2>1. x \in Work
    BY <1>0, <1>00 DEF Presents, Work
  <2>2. x.pc = "taken" /\ x.op = "signup" /\ x.p = p /\ x.e = e /\ x.c = c
        /\ x.u = NoUser /\ x.i = NoInvite /\ x.w = 0 /\ x.seen = 0
    BY DEF Idle
  <2> HIDE DEF x
  <2>3. Sound(x)
    BY <1>0, <2>1, <2>2 DEF Presents, Sound, Fits, Presented, Reads
  <2> QED BY <1>2, <2>2, <2>3, BeginsKeeps DEF x, Signup
<1>3. ASSUME NEW e \in People, NEW i \in Invites, SignupInvited(r, p, e, i) PROVE IInv'
  <2> DEFINE x == [Idle EXCEPT !.pc = "taken", !.op = "signup", !.p = p, !.e = e, !.i = i]
  <2>1. x \in Work
    BY <1>00 DEF Work
  <2>2. x.pc = "taken" /\ x.op = "signup" /\ x.p = p /\ x.e = e /\ x.i = i
        /\ x.u = NoUser /\ x.c = 0 /\ x.w = 0 /\ x.seen = 0
    BY DEF Idle
  <2> HIDE DEF x
  <2>3. Sound(x)
    BY <2>1, <2>2 DEF Sound, Fits, Presented, Reads
  <2> QED BY <1>3, <2>2, <2>3, BeginsKeeps DEF x, SignupInvited
<1>4. ASSUME NEW u \in Users, NEW w \in Pass, Signin(r, p, u, w) PROVE IInv'
  <2> DEFINE x == [Idle EXCEPT !.pc = "user", !.op = "signin", !.p = p, !.e = email[u], !.w = w]
  <2>1. x \in Work
    BY <1>0, <1>4, <1>00 DEF Signin, Work
  <2>2. x.pc = "user" /\ x.op = "signin" /\ x.p = p /\ x.e = email[u] /\ x.w = w
        /\ x.u = NoUser /\ x.i = NoInvite /\ x.c = 0 /\ x.seen = 0
    BY DEF Idle
  <2> HIDE DEF x
  <2>3. Sound(x)
    BY <1>0, <1>4, <2>1, <2>2 DEF Signin, Sound, Fits, Presented, Reads
  <2> QED BY <1>4, <2>2, <2>3, BeginsKeeps DEF x, Signin
<1>5. CASE Bootstrap(r, p)
  <2> DEFINE x == [Idle EXCEPT !.pc = "find", !.op = "bootstrap", !.p = p]
  <2>1. x \in Work
    BY <1>00 DEF Work
  <2>2. x.pc = "find" /\ x.op = "bootstrap" /\ x.p = p
        /\ x.u = NoUser /\ x.e = NoOne /\ x.i = NoInvite /\ x.c = 0 /\ x.w = 0 /\ x.seen = 0
    BY DEF Idle
  <2> HIDE DEF x
  <2>3. Sound(x)
    BY <2>1, <2>2 DEF Sound, Fits, Presented, Reads
  <2> QED BY <1>5, <2>2, <2>3, BeginsKeeps DEF x, Bootstrap
<1>6. ASSUME NEW u \in Users, AskDeletionCode(r, p, u) PROVE IInv'
  <2> DEFINE x == [Idle EXCEPT !.pc = "address", !.op = "delete", !.p = p, !.u = u]
  <2>1. x \in Work
    BY <1>00 DEF Work
  <2>2. x.pc = "address" /\ x.op = "delete" /\ x.p = p /\ x.u = u
        /\ x.e = NoOne /\ x.i = NoInvite /\ x.c = 0 /\ x.w = 0 /\ x.seen = 0
    BY DEF Idle
  <2> HIDE DEF x
  <2>3. Sound(x)
    BY <2>1, <2>2 DEF Sound, Fits, Presented, Reads
  <2> QED BY <1>6, <2>2, <2>3, BeginsKeeps DEF x, AskDeletionCode
<1>7. ASSUME NEW u \in Users, NEW e \in People, AskEmailCode(r, p, u, e) PROVE IInv'
  <2> DEFINE x == [Idle EXCEPT !.pc = "free", !.op = "change", !.p = p, !.u = u, !.e = e]
  <2>1. x \in Work
    BY <1>00 DEF Work
  <2>2. x.pc = "free" /\ x.op = "change" /\ x.p = p /\ x.u = u /\ x.e = e
        /\ x.i = NoInvite /\ x.c = 0 /\ x.w = 0 /\ x.seen = 0
    BY DEF Idle
  <2> HIDE DEF x
  <2>3. Sound(x)
    BY <2>1, <2>2 DEF Sound, Fits, Presented, Reads
  <2> QED BY <1>7, <2>2, <2>3, BeginsKeeps DEF x, AskEmailCode
<1>8. ASSUME NEW u \in Users, NEW e \in People, NEW w \in Pass, NEW c \in Presents(p),
             ChangeEmail(r, p, u, e, w, c)
      PROVE IInv'
  <2> DEFINE x == [Idle EXCEPT !.pc = "proof", !.op = "change", !.p = p, !.u = u, !.e = e,
                               !.w = w, !.c = c]
  <2>1. x \in Work
    BY <1>0, <1>00 DEF Presents, Work
  <2>2. x.pc = "proof" /\ x.op = "change" /\ x.p = p /\ x.u = u /\ x.e = e /\ x.w = w /\ x.c = c
        /\ x.i = NoInvite /\ x.seen = 0
    BY DEF Idle
  <2> HIDE DEF x
  <2>3. Sound(x)
    BY <1>0, <2>1, <2>2 DEF Presents, Sound, Fits, Presented, Reads
  <2> QED BY <1>8, <2>2, <2>3, BeginsKeeps DEF x, ChangeEmail
<1>9. ASSUME NEW u \in Users, NEW w \in Pass, NEW c \in Presents(p), Delete(r, p, u, w, c)
      PROVE IInv'
  <2> DEFINE pc == IF w # 0 THEN "proof" ELSE "claim"
             x == [Idle EXCEPT !.pc = pc, !.op = "delete", !.p = p, !.u = u, !.w = w, !.c = c]
  <2>1. pc \in {"proof", "claim"}  OBVIOUS
  <2>2. Begins(r, x) /\ UNCHANGED <<users, codes, invites>>  BY <1>9 DEF Delete
  <2> HIDE DEF pc
  <2>3. x \in Work
    BY <1>0, <1>00, <2>1 DEF Presents, Work
  <2>4. x.pc = pc /\ x.op = "delete" /\ x.p = p /\ x.u = u /\ x.w = w /\ x.c = c
        /\ x.e = NoOne /\ x.i = NoInvite /\ x.seen = 0
    BY DEF Idle
  <2> HIDE DEF x
  <2>5. Sound(x)
    BY <1>0, <2>1, <2>3, <2>4 DEF Presents, Sound, Fits, Presented, Reads
  <2> QED BY <2>1, <2>2, <2>4, <2>5, BeginsKeeps
<1> QED BY <1>1, <1>2, <1>3, <1>4, <1>5, <1>6, <1>7, <1>8, <1>9 DEF Asks

\* A request that ends, by itself or by a failure.
LEMMA EndKeeps ==
    ASSUME IInv, NEW r \in Requests, Ends(r), UNCHANGED <<users, codes, invites, begun>>
    PROVE  IInv'
BY IdleSound, OnlyGoesOn DEF Ends, IInv, WInv

\* A request that goes on to another statement, with what it has.
LEMMA GoesKeeps ==
    ASSUME IInv, NEW r \in Requests, NEW pc, Goes(r, pc), Sound([work[r] EXCEPT !.pc = pc]),
           pc \notin {"mail", "judge", "fail", "insert"}, UNCHANGED <<users, codes, invites, begun>>
    PROVE  IInv'
<1>1. work' = [work EXCEPT ![r] = [work[r] EXCEPT !.pc = pc]]  BY DEF Goes
<1>2. [work[r] EXCEPT !.pc = pc].pc = pc  BY DEF IInv, WInv, Work
<1> QED BY <1>1, <1>2, OnlyGoesOn DEF IInv, WInv

\* A record whose pc, and perhaps whose account, is another.
Pcs == {"idle", "store", "mail", "taken", "claim", "judge", "spend", "insert",
        "device", "set up", "user", "fail", "reset", "find", "make", "find again",
        "address", "proof", "erase", "free", "set"}
Same(w, x) == x.op = w.op /\ x.p = w.p /\ x.i = w.i /\ x.w = w.w

LEMMA Moved ==
    ASSUME NEW w \in Work, NEW pc \in Pcs
    PROVE  LET x == [w EXCEPT !.pc = pc] IN
           /\ x \in Work /\ x.pc = pc /\ Same(w, x)
           /\ x.u = w.u /\ x.e = w.e /\ x.c = w.c /\ x.seen = w.seen
<1>1. [w EXCEPT !.pc = pc] \in Work  BY DEF Work, Pcs
<1>2. [w EXCEPT !.pc = pc].pc = pc  BY DEF Work
<1> QED BY <1>1, <1>2 DEF Same, Work

LEMMA MovedTo ==
    ASSUME NEW w \in Work, NEW pc \in Pcs, NEW u \in Users
    PROVE  LET x == [w EXCEPT !.u = u, !.pc = pc] IN
           /\ x \in Work /\ x.pc = pc /\ Same(w, x)
           /\ x.u = u /\ x.e = w.e /\ x.c = w.c /\ x.seen = w.seen
<1> DEFINE y == [w EXCEPT !.u = u]
<1>1. y \in Work /\ Same(w, y) /\ y.u = u /\ y.e = w.e /\ y.c = w.c /\ y.seen = w.seen
  BY DEF Work, Same
<1> HIDE DEF y
<1>2. LET x == [y EXCEPT !.pc = pc] IN
      /\ x \in Work /\ x.pc = pc /\ Same(w, x)
      /\ x.u = u /\ x.e = w.e /\ x.c = w.c /\ x.seen = w.seen
  BY <1>1, Moved DEF Same
<1> QED BY <1>2 DEF y

LEMMA WorkSound ==
    ASSUME IInv, NEW r \in Requests
    PROVE  work[r] \in Work /\ Fits(work[r]) /\ Presented(work[r]) /\ Reads(work[r])
BY DEF IInv, WInv, Sound

-----------------------------------------------------------------------------
(* Statements that only read.                                              *)

LEMMA JudgeKeeps == ASSUME IInv, NEW r \in Requests, Judge(r) PROVE IInv'
<1> DEFINE w == work[r]
<1>1. w \in Work /\ Fits(w) /\ Presented(w) /\ Reads(w) /\ w.pc = "judge"
  BY WorkSound DEF Judge, At
<1>2. CASE w.c # w.seen  BY <1>2, EndKeeps DEF Judge, At
<1>3. CASE w.c = w.seen
  <2>1. PICK pc \in {"spend", "erase", "set"} :
          /\ pc = "spend" <=> w.op = "signup"
          /\ pc = "erase" <=> w.op = "delete"
          /\ Goes(r, pc) /\ UNCHANGED <<users, codes, invites, begun>>
    <3>1. CASE w.op = "signup"
      <4>1. Goes(r, "spend")  BY <1>3, <3>1 DEF Judge
      <4> QED BY <3>1, <4>1 DEF Judge, At
    <3>2. CASE w.op = "delete"
      <4>1. Goes(r, "erase")  BY <1>3, <3>2 DEF Judge
      <4> QED BY <3>2, <4>1 DEF Judge, At
    <3>3. CASE w.op \notin {"signup", "delete"}
      <4>1. Goes(r, "set")  BY <1>3, <3>3 DEF Judge
      <4> QED BY <3>3, <4>1 DEF Judge, At
    <3> QED BY <3>1, <3>2, <3>3
  <2>2. w.op # "delete" => w.p = w.e
    <3> SUFFICES ASSUME w.op # "delete" PROVE w.p = w.e  OBVIOUS
    <3>0. w.seen \in Codes /\ w.p \in People /\ w.e \in People  BY <1>1 DEF Fits
    <3>1. w.seen \in Codes /\ w.p \in People /\ w.e \in People /\ w.c # 0
      BY <1>3, <3>0, BoundAssumption DEF Codes
    <3>2. SentTo(w.seen, w.p) /\ SentTo(w.seen, w.e)
      BY <1>1, <1>3, <3>1 DEF SentTo, Judging, Presented
    <3> QED BY <3>1, <3>2 DEF IInv, RInv, OneReader
  <2> DEFINE x == [w EXCEPT !.pc = pc]
  <2>3. pc \in Pcs  BY DEF Pcs
  <2>4. /\ x \in Work /\ x.pc = pc /\ Same(w, x)
        /\ x.u = w.u /\ x.e = w.e /\ x.c = w.c /\ x.seen = w.seen
    BY <1>1, <2>3, Moved
  <2>5. work' = [work EXCEPT ![r] = x]  BY <2>1 DEF Goes
  <2> HIDE DEF x
  <2>6. Sound(x)
    BY <1>1, <2>1, <2>2, <2>4 DEF Sound, Fits, Presented, Reads, Same
  <2> QED BY <2>1, <2>4, <2>5, <2>6, OnlyGoesOn DEF IInv, WInv
<1> QED BY <1>2, <1>3

LEMMA TakenKeeps == ASSUME IInv, NEW r \in Requests, Taken(r) PROVE IInv'
<1> DEFINE w == work[r]
           x == [w EXCEPT !.pc = "claim"]
<1>1. w \in Work /\ Fits(w) /\ Presented(w) /\ Reads(w) /\ w.pc = "taken"
  BY WorkSound DEF Taken, At
<1>2. CASE Holder(w.e) # {}  BY <1>2, EndKeeps DEF Taken, At
<1>3. CASE Holder(w.e) = {}
  <2>1. /\ x \in Work /\ x.pc = "claim" /\ Same(w, x)
        /\ x.u = w.u /\ x.e = w.e /\ x.c = w.c /\ x.seen = w.seen
    BY <1>1, Moved DEF Pcs
  <2>2. work' = [work EXCEPT ![r] = x] /\ UNCHANGED <<users, codes, invites, begun>>
    BY <1>3 DEF Taken, At, Goes
  <2> HIDE DEF x
  <2>3. Sound(x)  BY <1>1, <2>1 DEF Sound, Fits, Presented, Reads, Same
  <2> QED BY <2>1, <2>2, <2>3, OnlyGoesOn DEF IInv, WInv
<1> QED BY <1>2, <1>3

LEMMA FreeKeeps == ASSUME IInv, NEW r \in Requests, FreeForAccount(r) PROVE IInv'
<1> DEFINE w == work[r]
           x == [w EXCEPT !.pc = "store"]
<1>1. w \in Work /\ Fits(w) /\ Presented(w) /\ Reads(w) /\ w.pc = "free"
  BY WorkSound DEF FreeForAccount, At
<1>2. CASE ~(Holder(w.e) \subseteq {w.u})  BY <1>2, EndKeeps DEF FreeForAccount, At
<1>3. CASE Holder(w.e) \subseteq {w.u}
  <2>1. /\ x \in Work /\ x.pc = "store" /\ Same(w, x)
        /\ x.u = w.u /\ x.e = w.e /\ x.c = w.c /\ x.seen = w.seen
    BY <1>1, Moved DEF Pcs
  <2>2. work' = [work EXCEPT ![r] = x] /\ UNCHANGED <<users, codes, invites, begun>>
    BY <1>3 DEF FreeForAccount, At, Goes
  <2> HIDE DEF x
  <2>3. Sound(x)  BY <1>1, <2>1 DEF Sound, Fits, Presented, Reads, Same
  <2> QED BY <2>1, <2>2, <2>3, OnlyGoesOn DEF IInv, WInv
<1> QED BY <1>2, <1>3

LEMMA ProofKeeps == ASSUME IInv, NEW r \in Requests, Proof(r) PROVE IInv'
<1> DEFINE w == work[r]
<1>1. w \in Work /\ Fits(w) /\ Presented(w) /\ Reads(w) /\ w.pc = "proof"
  BY WorkSound DEF Proof, At
<1>2. CASE Ends(r)  BY <1>2, EndKeeps DEF Proof, At
<1>3. ASSUME NEW pc \in {"erase", "claim"}, pc = "erase" <=> w.op = "delete", Goes(r, pc)
      PROVE  IInv'
  <2> DEFINE x == [w EXCEPT !.pc = pc]
  <2>1. pc \in Pcs  BY DEF Pcs
  <2>2. /\ x \in Work /\ x.pc = pc /\ Same(w, x)
        /\ x.u = w.u /\ x.e = w.e /\ x.c = w.c /\ x.seen = w.seen
    BY <1>1, <2>1, Moved
  <2>3. work' = [work EXCEPT ![r] = x] /\ UNCHANGED <<users, codes, invites, begun>>
    BY <1>3 DEF Proof, At, Goes
  <2> HIDE DEF x
  <2>4. Sound(x)  BY <1>1, <1>3, <2>2 DEF Sound, Fits, Presented, Reads, Same
  <2> QED BY <2>2, <2>3, <2>4, OnlyGoesOn DEF IInv, WInv
<1> QED BY <1>2, <1>3 DEF Proof

LEMMA AddressKeeps == ASSUME IInv, NEW r \in Requests, Address(r) PROVE IInv'
<1> DEFINE w == work[r]
           x == [w EXCEPT !.pc = "store", !.e = email[w.u]]
<1>1. w \in Work /\ Fits(w) /\ Presented(w) /\ Reads(w) /\ w.pc = "address"
  BY WorkSound DEF Address, At
<1>2. CASE Ends(r)  BY <1>2, EndKeeps DEF Address, At
<1>3. CASE email[w.u] # NoOne /\ work' = [work EXCEPT ![r] = x]
  <2>1. email[w.u] \in People  BY <1>1, <1>3 DEF Fits, IInv, UInv, UsersOK
  <2>2. /\ x \in Work /\ x.pc = "store" /\ Same(w, x)
        /\ x.u = w.u /\ x.e = email[w.u] /\ x.c = w.c /\ x.seen = w.seen
    BY <1>1, <2>1 DEF Work, Same
  <2>3. UNCHANGED <<users, codes, invites, begun>>  BY DEF Address, At
  <2> HIDE DEF x
  <2>4. Sound(x)  BY <1>1, <2>1, <2>2 DEF Sound, Fits, Presented, Reads, Same
  <2> QED BY <1>3, <2>2, <2>3, <2>4, OnlyGoesOn DEF IInv, WInv
<1> QED BY <1>2, <1>3 DEF Address

LEMMA FindKeeps == ASSUME IInv, NEW r \in Requests, FindAdmin(r) PROVE IInv'
<1> DEFINE w == work[r]
<1>1. w \in Work /\ Fits(w) /\ Presented(w) /\ Reads(w) /\ w.pc \in {"find", "find again"}
      /\ UNCHANGED <<users, codes, invites, begun>>
  BY WorkSound DEF FindAdmin
<1>2. CASE Ends(r)  BY <1>1, <1>2, EndKeeps
<1>3. ASSUME NEW u \in Users, work' = [work EXCEPT ![r].pc = "device", ![r].u = u] PROVE IInv'
  <2> DEFINE x == [w EXCEPT !.pc = "device", !.u = u]
  <2>1. /\ x \in Work /\ x.pc = "device" /\ Same(w, x)
        /\ x.u = u /\ x.e = w.e /\ x.c = w.c /\ x.seen = w.seen
    BY <1>1 DEF Work, Same
  <2>2. work' = [work EXCEPT ![r] = x]  BY <1>3 DEF IInv, WInv
  <2> HIDE DEF x
  <2>3. Sound(x)  BY <1>1, <2>1 DEF Sound, Fits, Presented, Reads, Same
  <2> QED BY <1>1, <2>1, <2>2, <2>3, OnlyGoesOn DEF IInv, WInv
<1>4. CASE Goes(r, "make")
  <2> DEFINE x == [w EXCEPT !.pc = "make"]
  <2>1. /\ x \in Work /\ x.pc = "make" /\ Same(w, x)
        /\ x.u = w.u /\ x.e = w.e /\ x.c = w.c /\ x.seen = w.seen
    BY <1>1, Moved DEF Pcs
  <2>2. work' = [work EXCEPT ![r] = x]  BY <1>4 DEF Goes
  <2> HIDE DEF x
  <2>3. Sound(x)  BY <1>1, <2>1 DEF Sound, Fits, Presented, Reads, Same
  <2> QED BY <1>1, <2>1, <2>2, <2>3, OnlyGoesOn DEF IInv, WInv
<1>5. \/ Ends(r) \/ Goes(r, "make")
      \/ \E u \in Users : work' = [work EXCEPT ![r].pc = "device", ![r].u = u]
  BY DEF FindAdmin, Admins
<1> QED BY <1>2, <1>3, <1>4, <1>5

\* Sign-in judges what it has read.  A wrong passphrase is about to be counted:
\* the account did not see as many as lock it, or its hour has passed.
LEMMA ReadUserKeeps == ASSUME IInv, NEW r \in Requests, ReadUser(r) PROVE IInv'
<1> DEFINE w == work[r]
<1>1. w \in Work /\ Fits(w) /\ Presented(w) /\ Reads(w) /\ w.pc = "user"
      /\ UNCHANGED <<users, codes, invites, begun>>
  BY WorkSound DEF ReadUser, At
<1>2. CASE Ends(r)  BY <1>1, <1>2, EndKeeps
<1>3. ASSUME NEW u \in Users, NEW pc \in {"reset", "fail"},
             \E v \in Holder(w.e) : MaySignin(v), u \in Holder(w.e),
             work' = [work EXCEPT ![r].u = u, ![r].pc = pc]
      PROVE  IInv'
  <2>1. pc \in Pcs  BY DEF Pcs
  <2>2. PICK x : x = [w EXCEPT !.u = u, !.pc = pc]  OBVIOUS
  <2>3. /\ x \in Work /\ x.pc = pc /\ Same(w, x)
        /\ x.u = u /\ x.e = w.e /\ x.c = w.c /\ x.seen = w.seen
        /\ work' = [work EXCEPT ![r] = x]
    <3>1. work' = [work EXCEPT ![r] = x]  BY <1>3, <2>2 DEF IInv, WInv
    <3> DEFINE z == [w EXCEPT !.u = u, !.pc = pc]
    <3>2. w \in Work /\ u \in Users  BY <1>1, <1>3
    <3>3. /\ z \in Work /\ z.pc = pc /\ Same(w, z)
          /\ z.u = u /\ z.e = w.e /\ z.c = w.c /\ z.seen = w.seen
      BY <2>1, <3>2, MovedTo
    <3> HIDE DEF z
    <3>4. x = z  BY <2>2 DEF z
    <3> QED BY <3>1, <3>3, <3>4
  <2>4. Sound(x)  BY <1>1, <2>3 DEF Sound, Fits, Presented, Reads, Same
  <2>5. CASE pc = "reset"  BY <1>1, <2>3, <2>4, <2>5, OnlyGoesOn DEF IInv, WInv
  <2>6. CASE pc = "fail"
    <3>1. UInv' /\ CInv' /\ RInv' /\ IInvites'
      BY <1>1, <2>3, <2>6, UStands, CStands, RStands, IStands DEF IInv, users
    <3>2. WInv'
      <4>1. Presented(x)'  BY <1>1, <2>4 DEF Sound, Presented, codes
      <4> QED BY <1>1, <2>3, <2>4, <4>1, WStands DEF IInv, WInv, Sound, codes
    <3>3. LockoutBounded'
      <4> SUFFICES ASSUME NEW v \in Users, window'[v]
                   PROVE  failed'[v] + Cardinality(Failing(v)')
                          < SigninFailures + Cardinality(Requests)
        BY DEF LockoutBounded
      <4>1. window[v] /\ failed'[v] = failed[v] /\ failed[v] \in Nat
        BY <1>1 DEF users, IInv, UInv, UsersOK
      <4>2. IsFiniteSet(Requests) /\ Failing(v) \in SUBSET Requests /\ Failing(v)' \in SUBSET Requests
        BY BoundAssumption DEF Failing
      <4>3. /\ Cardinality(Failing(v)') <= Cardinality(Requests)
            /\ Cardinality(Failing(v)') \in Nat /\ Cardinality(Requests) \in Nat
            /\ Cardinality(Failing(v)) \in Nat /\ SigninFailures \in Nat \ {0}
        BY <4>2, FS_Subset, FS_CardinalityType, BoundAssumption
      <4>4. CASE v = u
        <5>1. MaySignin(u)  BY <1>1, <1>3, NullAssumption DEF Fits, Holder, IInv, UInv, OneEmail
        <5>2. failed[u] < SigninFailures  BY <4>1, <4>3, <4>4, <5>1 DEF MaySignin
        <5> QED BY <4>1, <4>3, <4>4, <5>2
      <4>5. CASE v # u
        <5>1. Failing(v)' = Failing(v)
          BY <1>1, <2>3, <4>5 DEF Failing, IInv, WInv
        <5> QED BY <4>1, <4>5, <5>1 DEF IInv, LockoutBounded
      <4> QED BY <4>4, <4>5
    <3> QED BY <3>1, <3>2, <3>3 DEF IInv
  <2> QED BY <2>5, <2>6
<1>4. \/ Ends(r)
      \/ /\ \E u \in Holder(w.e) : MaySignin(u)
         /\ \E u \in Holder(w.e), pc \in {"reset", "fail"} :
              work' = [work EXCEPT ![r].u = u, ![r].pc = pc]
  <2>1. CASE \E u \in Holder(w.e) : MaySignin(u)
    <3>1. PICK u \in Holder(w.e) :
            work' = [work EXCEPT ![r].u = u,
                         ![r].pc = IF auth[u] # 0 /\ w.w = auth[u] THEN "reset" ELSE "fail"]
      BY <2>1 DEF ReadUser
    <3> QED BY <2>1, <3>1
  <2>2. CASE ~\E u \in Holder(w.e) : MaySignin(u)  BY <2>2 DEF ReadUser
  <2> QED BY <2>1, <2>2
<1> QED BY <1>2, <1>3, <1>4 DEF Holder

-----------------------------------------------------------------------------
(* Statements that write users.                                            *)

LEMMA UserStep ==
    ASSUME IInv, NEW r \in Requests, NEW x, work' = [work EXCEPT ![r] = x],
           Sound(x), x.pc \notin {"mail", "judge", "fail", "insert"},
           UNCHANGED <<codes, invites, begun>>, UInv',
           \A u \in Users : row'[u] # "live" => row[u] # "live",
           \A u \in Users : window'[u] => window[u] /\ failed'[u] = failed[u]
    PROVE  IInv'
<1>1. CInv'  BY CStands DEF IInv
<1>2. RInv'  BY RStands DEF IInv
<1>3. IInvites'  BY IStands DEF IInv
<1>4. WInv'
  <2>1. Presented(x)'  BY DEF Sound, Presented, codes
  <2> QED BY <2>1, WStands DEF IInv, WInv, Sound, codes
<1>5. LockoutBounded'  BY LStands DEF IInv, UInv
<1> QED BY <1>1, <1>2, <1>3, <1>4, <1>5 DEF IInv

LEMMA DeviceKeeps == ASSUME IInv, NEW r \in Requests, Device(r) PROVE IInv'
<1> DEFINE w == work[r]
           x == [w EXCEPT !.pc = "set up"]
<1>1. w \in Work /\ Fits(w) /\ Presented(w) /\ Reads(w) /\ w.pc = "device"
  BY WorkSound DEF Device, At
<1>2. CASE ~(row[w.u] = "live" /\ devices[w.u] < Limit)
  BY <1>2, EndKeeps DEF Device, At, users
<1>3. CASE row[w.u] = "live" /\ devices[w.u] < Limit
  <2>1. /\ x \in Work /\ x.pc = "set up" /\ Same(w, x)
        /\ x.u = w.u /\ x.e = w.e /\ x.c = w.c /\ x.seen = w.seen
    BY <1>1, Moved DEF Pcs
  <2>2. /\ work' = [work EXCEPT ![r] = x]
        /\ devices' = [devices EXCEPT ![w.u] = @ + 1]
        /\ UNCHANGED <<row, admin, email, auth, failed, window, members, by>>
        /\ UNCHANGED <<codes, invites, begun>>
    BY <1>3 DEF Device, At, Goes
  <2> HIDE DEF x
  <2>3. Sound(x)  BY <1>1, <2>1 DEF Sound, Fits, Presented, Reads, Same
  <2>4. w.u \in Users  BY <1>1 DEF Fits
  <2>5. UInv'
    <3>1. devices' \in [Users -> 0..Limit]
      BY <1>3, <2>2, <2>4, BoundAssumption DEF IInv, UInv, UsersOK
    <3>2. \A u \in Users : row'[u] # "live" => devices'[u] = 0
      BY <1>3, <2>2, <2>4 DEF IInv, UInv, UsersOK
    <3>3. UsersOK'  BY <2>2, <3>1, <3>2 DEF IInv, UInv, UsersOK
    <3> QED BY <2>2, <3>3 DEF IInv, UInv, OneEmail, OneAdmin, AddressProved
  <2> QED BY <2>1, <2>2, <2>3, <2>5, UserStep
<1> QED BY <1>2, <1>3

LEMMA SetUpKeeps == ASSUME IInv, NEW r \in Requests, SetUp(r) PROVE IInv'
<1> DEFINE w == work[r]
<1>1. w \in Work /\ Fits(w) /\ w.pc = "set up"  BY WorkSound DEF SetUp, At
<1>2. w.u \in Users /\ w.p \in People  BY <1>1 DEF Fits
<1>3. /\ members' = [members EXCEPT ![w.u] = IF row[w.u] = "live" THEN @ \cup {w.p} ELSE @]
      /\ auth' = [auth EXCEPT ![w.u] = IF row[w.u] = "live" /\ @ = 0 THEN 1 ELSE @]
      /\ UNCHANGED <<row, admin, email, failed, window, devices, by, codes, invites, begun>>
      /\ work' = [work EXCEPT ![r] = Idle]
  BY DEF SetUp, At, Ends
<1>4. UInv'
  <2>1. members' \in [Users -> SUBSET People] /\ auth' \in [Users -> Pass]
    BY <1>2, <1>3, BoundAssumption DEF IInv, UInv, UsersOK, Pass
  <2>2. UsersOK'  BY <1>3, <2>1 DEF IInv, UInv, UsersOK
  <2> QED BY <1>3, <2>2 DEF IInv, UInv, OneEmail, OneAdmin, AddressProved
<1> QED BY <1>3, <1>4, IdleSound, UserStep

LEMMA ResetKeeps == ASSUME IInv, NEW r \in Requests, ResetFailures(r) PROVE IInv'
<1> DEFINE w == work[r]
           x == [w EXCEPT !.pc = "device"]
<1>1. w \in Work /\ Fits(w) /\ Presented(w) /\ Reads(w) /\ w.pc = "reset"
  BY WorkSound DEF ResetFailures, At
<1>2. /\ x \in Work /\ x.pc = "device" /\ Same(w, x)
      /\ x.u = w.u /\ x.e = w.e /\ x.c = w.c /\ x.seen = w.seen
  BY <1>1, Moved DEF Pcs
<1>3. /\ work' = [work EXCEPT ![r] = x]
      /\ failed' = [failed EXCEPT ![w.u] = 0] /\ window' = [window EXCEPT ![w.u] = FALSE]
      /\ UNCHANGED <<row, admin, email, auth, devices, members, by, codes, invites, begun>>
  BY DEF ResetFailures, At, Goes
<1> HIDE DEF x
<1>4. Sound(x)  BY <1>1, <1>2 DEF Sound, Fits, Presented, Reads, Same
<1>5. w.u \in Users  BY <1>1 DEF Fits
<1>6. UInv'
  <2>1. failed' \in [Users -> Nat] /\ window' \in [Users -> BOOLEAN]
    BY <1>3, <1>5 DEF IInv, UInv, UsersOK
  <2>2. UsersOK'  BY <1>3, <2>1 DEF IInv, UInv, UsersOK
  <2> QED BY <1>3, <2>2 DEF IInv, UInv, OneEmail, OneAdmin, AddressProved
<1>7. \A u \in Users : window'[u] => window[u] /\ failed'[u] = failed[u]
  BY <1>3, <1>5 DEF IInv, UInv, UsersOK
<1> QED BY <1>2, <1>3, <1>4, <1>6, <1>7, UserStep

LEMMA MakeAdminKeeps == ASSUME IInv, NEW r \in Requests, MakeAdmin(r) PROVE IInv'
<1> DEFINE w == work[r]
           x == [w EXCEPT !.pc = "find again"]
<1>1. w \in Work /\ Fits(w) /\ Presented(w) /\ Reads(w) /\ w.pc = "make"
  BY WorkSound DEF MakeAdmin, At
<1>2. /\ x \in Work /\ x.pc = "find again" /\ Same(w, x)
      /\ x.u = w.u /\ x.e = w.e /\ x.c = w.c /\ x.seen = w.seen
  BY <1>1, Moved DEF Pcs
<1>3. /\ work' = [work EXCEPT ![r] = x]
      /\ UNCHANGED <<email, auth, failed, window, devices, members, by, codes, invites, begun>>
  BY DEF MakeAdmin, At, Goes
<1> HIDE DEF x
<1>4. Sound(x)  BY <1>1, <1>2 DEF Sound, Fits, Presented, Reads, Same
<1>5. CASE UNCHANGED <<row, admin>>
  <2>1. UInv'  BY <1>3, <1>5, UStands DEF IInv, users
  <2> QED BY <1>2, <1>3, <1>4, <1>5, <2>1, UserStep
<1>6. ASSUME NoAdmin, NEW u \in Users, row[u] = "none", row' = [row EXCEPT ![u] = "live"],
             admin' = [admin EXCEPT ![u] = TRUE]
      PROVE  IInv'
  <2>1. \A v \in Users : ~admin[v]  BY <1>6 DEF NoAdmin, Admins, IInv, UInv, UsersOK
  <2>2. row' \in [Users -> {"none", "live", "deleted"}] /\ admin' \in [Users -> BOOLEAN]
        /\ \A v \in Users : row'[v] # "live" => row[v] # "live"
    BY <1>6 DEF IInv, UInv, UsersOK
  <2>3. UsersOK'  BY <1>3, <1>6, <2>2 DEF IInv, UInv, UsersOK
  <2>4. OneAdmin'  BY <1>6, <2>1 DEF OneAdmin, IInv, UInv, UsersOK
  <2>5. UInv'  BY <1>3, <2>3, <2>4 DEF IInv, UInv, OneEmail, AddressProved
  <2> QED BY <1>2, <1>3, <1>4, <2>2, <2>5, UserStep
<1> QED BY <1>5, <1>6 DEF MakeAdmin

\* A failure that was under way is counted: the sum stays, or starts again.
LEMMA CountFailureKeeps == ASSUME IInv, NEW r \in Requests, CountFailure(r) PROVE IInv'
<1> DEFINE w == work[r]
<1>1. w \in Work /\ Fits(w) /\ w.pc = "fail"  BY WorkSound DEF CountFailure, At
<1>2. w.u \in Users  BY <1>1 DEF Fits
<1>3. CASE row[w.u] # "live"  BY <1>3, EndKeeps DEF CountFailure, At, users
<1>4. CASE row[w.u] = "live"
  <2>1. /\ failed' = [failed EXCEPT ![w.u] = IF window[w.u] THEN @ + 1 ELSE 1]
        /\ window' = [window EXCEPT ![w.u] = TRUE]
        /\ UNCHANGED <<row, admin, email, auth, devices, members, by, codes, invites, begun>>
        /\ work' = [work EXCEPT ![r] = Idle]
    BY <1>4 DEF CountFailure, At, Ends
  <2>2. UInv'
    <3>1. failed' \in [Users -> Nat] /\ window' \in [Users -> BOOLEAN]
      BY <1>2, <2>1 DEF IInv, UInv, UsersOK
    <3>2. UsersOK'  BY <2>1, <3>1 DEF IInv, UInv, UsersOK
    <3> QED BY <2>1, <3>2 DEF IInv, UInv, OneEmail, OneAdmin, AddressProved
  <2>3. CInv' /\ RInv' /\ IInvites'
    BY <2>1, CStands, RStands, IStands, IdleSound DEF IInv
  <2>4. WInv'
    <3>1. Presented(Idle)' /\ Fits(Idle) /\ Reads(Idle)  BY IdleSound DEF Sound, Presented
    <3> QED BY <2>1, <3>1, WStands DEF IInv, WInv, codes
  <2>5. LockoutBounded'
    <3> SUFFICES ASSUME NEW v \in Users, window'[v]
                 PROVE  failed'[v] + Cardinality(Failing(v)')
                        < SigninFailures + Cardinality(Requests)
      BY DEF LockoutBounded
    <3>1. /\ IsFiniteSet(Requests) /\ Failing(v) \in SUBSET Requests
          /\ r \notin Failing(v)' /\ Failing(v)' = Failing(v) \ {r}
      BY <2>1, IdleSound, BoundAssumption DEF Failing, IInv, WInv
    <3>2. /\ Cardinality(Failing(v)) <= Cardinality(Requests)
          /\ Cardinality(Failing(v)) \in Nat /\ Cardinality(Requests) \in Nat
          /\ SigninFailures \in Nat \ {0}
      BY <3>1, FS_Subset, FS_CardinalityType, BoundAssumption
    <3>3. window \in [Users -> BOOLEAN] /\ failed \in [Users -> Nat]
      BY DEF IInv, UInv, UsersOK
    <3>4. CASE v = w.u
      <4>1. r \in Failing(v)  BY <1>1, <3>4 DEF Failing
      <4>2. Cardinality(Failing(v)') = Cardinality(Failing(v)) - 1
        BY <3>1, <4>1, FS_RemoveElement, FS_Subset
      <4>3. CASE window[v]
        <5>1. failed'[v] = failed[v] + 1  BY <2>1, <3>3, <3>4, <4>3
        <5>2. failed[v] \in Nat  BY <3>3
        <5> QED BY <3>2, <4>2, <4>3, <5>1, <5>2 DEF IInv, LockoutBounded
      <4>4. CASE ~window[v]
        <5>1. failed'[v] = 1  BY <2>1, <3>3, <3>4, <4>4
        <5> QED BY <3>2, <4>2, <5>1
      <4> QED BY <4>3, <4>4
    <3>5. CASE v # w.u
      <4>1. failed'[v] = failed[v] /\ window[v] /\ failed[v] \in Nat
        BY <1>2, <2>1, <3>3, <3>5
      <4>2. Failing(v)' = Failing(v)  BY <3>1, <3>5 DEF Failing
      <4> QED BY <4>1, <4>2 DEF IInv, LockoutBounded
    <3> QED BY <3>4, <3>5
  <2> QED BY <2>2, <2>3, <2>4, <2>5 DEF IInv
<1> QED BY <1>3, <1>4

\* A sign-up's account: nobody has its address, and its reader asked for it,
\* unless an invite named it.  The invite it claimed has made none before.
LEMMA InsertKeeps == ASSUME IInv, NEW r \in Requests, Insert(r) PROVE IInv'
<1> DEFINE w == work[r]
<1>1. w \in Work /\ Fits(w) /\ Presented(w) /\ Reads(w) /\ w.pc = "insert"
  BY WorkSound DEF Insert, At
<1>2. CASE ~Free(w.e)  BY <1>2, EndKeeps DEF Insert, At, users, invites
<1>3. CASE Free(w.e)
  <2>1. PICK u \in Users :
          /\ row[u] = "none"
          /\ row' = [row EXCEPT ![u] = "live"]
          /\ email' = [email EXCEPT ![u] = w.e]
          /\ by' = [by EXCEPT ![u] = IF w.i = NoInvite THEN w.p ELSE "invite"]
          /\ made' = [i \in Invites |-> IF i = w.i THEN made[i] \cup {u} ELSE made[i]]
          /\ work' = [work EXCEPT ![r].pc = "device", ![r].u = u]
    BY <1>3 DEF Insert
  <2>2. UNCHANGED <<admin, auth, failed, window, devices, members, codes, invite, begun>>
    BY DEF Insert, At
  <2>3. PICK x : x = [w EXCEPT !.pc = "device", !.u = u]  OBVIOUS
  <2>4. /\ x \in Work /\ x.pc = "device" /\ Same(w, x)
        /\ x.u = u /\ x.e = w.e /\ x.c = w.c /\ x.seen = w.seen
    BY <1>1, <2>3 DEF Work, Same
  <2>5. work' = [work EXCEPT ![r] = x]  BY <2>1, <2>3 DEF IInv, WInv
  <2>6. Sound(x)  BY <1>1, <2>4 DEF Sound, Fits, Presented, Reads, Same
  <2>7. w.e \in People /\ w.p \in People /\ w.i \in Invites \cup {NoInvite}
    BY <1>1 DEF Fits, Work
  <2>8. \A v \in Users : row'[v] # "live" => row[v] # "live"
    BY <2>1 DEF IInv, UInv, UsersOK
  <2>9. UInv'
    <3>1. /\ row' \in [Users -> {"none", "live", "deleted"}]
          /\ email' \in [Users -> People \cup {NoOne}]
          /\ by' \in [Users -> People \cup {NoOne, "invite"}]
      BY <2>1, <2>7 DEF IInv, UInv, UsersOK
    <3>2. UsersOK'
      BY <2>1, <2>2, <2>8, <3>1 DEF IInv, UInv, UsersOK
    <3>3. \A v \in Users : email[v] # w.e
      BY <1>3, <2>7, NullAssumption DEF Free, Holder, IInv, UInv, UsersOK
    <3>4. OneEmail'  BY <2>1, <3>3 DEF OneEmail, IInv, UInv, UsersOK
    <3>5. OneAdmin'  BY <2>2 DEF OneAdmin, IInv, UInv
    <3>6. AddressProved'
      <4>1. w.i = NoInvite => w.p = w.e  BY <1>1 DEF Reads
      <4> QED BY <2>1, <4>1 DEF AddressProved, IInv, UInv, UsersOK
    <3> QED BY <3>2, <3>4, <3>5, <3>6 DEF UInv
  <2>10. CInv'  BY <2>2, <2>8, CStands DEF IInv
  <2>11. RInv'  BY <2>2, <2>4, <2>5, RStands DEF IInv
  <2>12. IInvites'
    <3>1. \A q \in Requests, i \in Invites : Claiming(q, i)' => Claiming(q, i) /\ q # r
      BY <2>4, <2>5 DEF Claiming, IInv, WInv
    <3>2. InvitesOK'  BY <2>1, <2>2 DEF IInv, IInvites, InvitesOK
    <3>0. PICK j : j = w.i  OBVIOUS
    <3>3. \A i \in Invites : i # j => made'[i] = made[i] /\ invite'[i] = invite[i]
      BY <2>1, <2>2, <3>0
    <3>4. ASSUME j \in Invites
          PROVE  /\ made'[j] = {u} /\ invite'[j] = "used"
                 /\ \A q \in Requests : ~Claiming(q, j)'
      <4>1. Claiming(r, j)  BY <1>1, <3>0 DEF Claiming
      <4>2. made[j] = {} /\ invite[j] = "used"
        BY <3>4, <4>1 DEF IInv, IInvites, ClaimedOnce
      <4>3. \A q \in Requests : ~Claiming(q, j)'
        BY <3>1, <3>4, <4>1 DEF IInv, IInvites, ClaimedOnce
      <4>4. made'[j] = made[j] \cup {u}  BY <2>1, <3>0, <3>4
      <4> QED BY <2>2, <4>2, <4>3, <4>4
    <3>5. MadeOne'  BY <3>3, <3>4 DEF MadeOne, IInv, IInvites
    <3>6. ClaimedOnce'
      <4>1. \A i \in Invites :
              /\ \A q \in Requests : Claiming(q, i)' => invite'[i] = "used" /\ made'[i] = {}
              /\ \A q, s \in Requests : Claiming(q, i)' /\ Claiming(s, i)' => q = s
        BY <3>1, <3>3, <3>4 DEF ClaimedOnce, IInv, IInvites
      <4> QED BY <4>1 DEF ClaimedOnce
    <3> QED BY <3>2, <3>5, <3>6 DEF IInvites
  <2>13. WInv'
    <3>1. Presented(x)'  BY <2>2, <2>6 DEF Sound, Presented, codes
    <3> QED BY <2>2, <2>5, <2>6, <3>1, WStands DEF IInv, WInv, Sound, codes
  <2>14. LockoutBounded'  BY <2>2, <2>4, <2>5, LStands DEF IInv, UInv
  <2> QED BY <2>9, <2>10, <2>11, <2>12, <2>13, <2>14 DEF IInv
<1> QED BY <1>2, <1>3

-----------------------------------------------------------------------------
(* Statements that write codes and invites.                                *)

\* Rows only go, or keep their code, its reader and its tries.
Shrinks ==
    /\ code' \in [Keys -> Row] /\ UNCHANGED <<judged, drawn>>
    /\ \A k \in Keys : code'[k].code # 0 =>
          code'[k].code = code[k].code /\ code'[k].to = code[k].to /\ code'[k].tries = code[k].tries

LEMMA ShrinkC ==
    ASSUME CInv, Shrinks, UNCHANGED inbox,
           \A u \in Users : row'[u] # "live" =>
              code'[<<"delete", u>>].code = 0 /\ code'[<<"change", u>>].code = 0
    PROVE  CInv'
<1>1. CodesOK'  BY DEF CInv, CodesOK, Shrinks
<1>2. RowsCount'  BY DEF CInv, RowsCount, Shrinks
<1>3. OneKey'  BY DEF CInv, OneKey, Shrinks
<1>4. JudgedOK'  BY DEF CInv, JudgedOK, Shrinks
<1> QED BY <1>1, <1>2, <1>3, <1>4 DEF CInv

LEMMA ShrinkR ==
    ASSUME RInv, Shrinks, UNCHANGED inbox,
           \A c, e : \A q \in Requests : Mailing(q, c, e)' \/ Judging(q, c, e)'
                                  => Mailing(q, c, e) \/ Judging(q, c, e)
    PROVE  RInv'
<1>1. \A c \in Codes : \A e \in People : SentTo(c, e)' => SentTo(c, e)
  <2> SUFFICES ASSUME NEW c \in Codes, NEW e \in People, SentTo(c, e)' PROVE SentTo(c, e)
    OBVIOUS
  <2>1. c # 0  BY BoundAssumption DEF Codes
  <2> QED BY <2>1 DEF SentTo, Shrinks
<1> QED BY <1>1 DEF RInv, OneReader, SentDrawn, Shrinks

\* What a request's next record says of the mail and the guesses under way.
LEMMA NoneNew ==
    ASSUME WInv, NEW r \in Requests, NEW x, work' = [work EXCEPT ![r] = x],
           x.pc \notin {"mail", "judge"}
    PROVE  \A c, e : \A q \in Requests : Mailing(q, c, e)' \/ Judging(q, c, e)'
                                  => Mailing(q, c, e) \/ Judging(q, c, e)
BY DEF Mailing, Judging, WInv

\* A new code is one that nobody has seen, for the address it is mailed to.
LEMMA StoreKeeps == ASSUME IInv, NEW r \in Requests, Store(r) PROVE IInv'
<1> DEFINE w == work[r]
<1>1. w \in Work /\ Fits(w) /\ w.pc = "store"  BY WorkSound DEF Store, At
<1>2. CASE Ends(r) /\ UNCHANGED <<code, drawn>>
  BY <1>2, EndKeeps DEF Store, At, codes
<1>3. CASE ~(Ends(r) /\ UNCHANGED <<code, drawn>>)
  <2>1. PICK n, k, e : n = drawn + 1 /\ k = Key(w) /\ e = w.e  OBVIOUS
  <2>2. PICK b : b = [code |-> n, to |-> e, tries |-> 0, recent |-> TRUE, live |-> TRUE]
    OBVIOUS
  <2>3. /\ RowHasAccount(w) /\ drawn < MaxCodes /\ drawn' = n
        /\ code' = [code EXCEPT ![k] = b]
        /\ work' = [work EXCEPT ![r].pc = "mail", ![r].c = n]
        /\ UNCHANGED <<users, inbox, judged, invites, begun>>
    BY <1>3, <2>1, <2>2 DEF Store, At
  <2>4. k \in Keys /\ e \in People  BY <1>1, <2>1, KeyTyped DEF Fits
  <2>5. drawn \in Nat /\ n \in Codes /\ n > drawn /\ n \in Nat
    BY <2>1, <2>3, BoundAssumption DEF Codes, IInv, CInv, CodesOK
  <2>6. b \in Row /\ b.code = n /\ b.to = e /\ b.tries = 0
    BY <2>2, <2>4, <2>5, BoundAssumption DEF Row
  <2>7. PICK x : x = [w EXCEPT !.pc = "mail", !.c = n]  OBVIOUS
  <2>8. /\ x \in Work /\ x.pc = "mail" /\ Same(w, x)
        /\ x.u = w.u /\ x.e = w.e /\ x.c = n /\ x.seen = w.seen
    BY <1>1, <2>5, <2>7 DEF Work, Same
  <2>9. work' = [work EXCEPT ![r] = x]  BY <2>3, <2>7 DEF IInv, WInv
  <2>10. Fits(x) /\ Reads(x) /\ Presented(x)'
    BY <1>1, <2>1, <2>4, <2>5, <2>8 DEF Fits, Reads, Presented, Same
  <2> HIDE DEF w
  <2>11. UInv'  BY <2>3, UStands DEF IInv
  <2>12. CInv'
    <3>1. CodesOK'
      <4>1. \A u \in Users : row[u] # "live" =>
              k # <<"delete", u>> /\ k # <<"change", u>>
        BY <1>1, <2>1, <2>3 DEF Fits, Key, RowHasAccount
      <4>2. code' \in [Keys -> Row]  BY <2>3, <2>6 DEF IInv, CInv, CodesOK
      <4>3. \A u \in Users : row'[u] # "live" =>
              code'[<<"delete", u>>].code = 0 /\ code'[<<"change", u>>].code = 0
        BY <2>3, <4>1, KeysTyped DEF IInv, CInv, CodesOK, users
      <4> QED BY <2>3, <2>5, <4>2, <4>3 DEF IInv, CInv, CodesOK
    <3>2. \A l \in Keys : l # k => code'[l] = code[l]  BY <2>3 DEF IInv, CInv, CodesOK
    <3>3. code'[k] = b  BY <2>3, <2>4 DEF IInv, CInv, CodesOK
    <3>4. \A l \in Keys : code[l].code \in Nat
      BY BoundAssumption DEF IInv, CInv, CodesOK, Row, Codes
    <3>5. RowsCount'
      <4> SUFFICES ASSUME NEW l \in Keys, code'[l].code # 0
                   PROVE  /\ code'[l].to \in People /\ code'[l].code <= drawn'
                          /\ judged'[code'[l].code] = code'[l].tries
        BY DEF RowsCount
      <4>1. CASE l = k
        BY <2>3, <2>4, <2>5, <2>6, <3>3, <4>1 DEF IInv, CInv, JudgedOK
      <4>2. CASE l # k
        BY <2>3, <2>5, <3>2, <3>4, <4>2 DEF IInv, CInv, RowsCount
      <4> QED BY <4>1, <4>2
    <3>6. OneKey'
      <4>1. \A l \in Keys : code[l].code # n
        BY <2>5, <3>4 DEF IInv, CInv, RowsCount
      <4> QED BY <2>6, <3>2, <3>3, <4>1 DEF IInv, CInv, OneKey
    <3>7. JudgedOK'
      BY <2>1, <2>3, <2>5, BoundAssumption DEF IInv, CInv, JudgedOK, Codes
    <3> QED BY <3>1, <3>5, <3>6, <3>7 DEF CInv
  <2>13. RInv'
    <3>1. \A c \in Codes : \A f \in People : SentTo(c, f)' => SentTo(c, f) \/ (c = n /\ f = e)
      <4> SUFFICES ASSUME NEW c \in Codes, NEW f \in People, SentTo(c, f)'
                   PROVE  SentTo(c, f) \/ (c = n /\ f = e)
        OBVIOUS
      <4>1. CASE c \in inbox'[f]  BY <2>3, <4>1 DEF SentTo
      <4>2. ASSUME NEW l \in Keys, code'[l].code = c, code'[l].to = f
            PROVE  SentTo(c, f) \/ (c = n /\ f = e)
        BY <2>3, <2>6, <4>2 DEF SentTo, IInv, CInv, CodesOK
      <4>3. ASSUME NEW q \in Requests, Mailing(q, c, f)' \/ Judging(q, c, f)'
            PROVE  SentTo(c, f) \/ (c = n /\ f = e)
        <5>1. CASE q = r
          BY <2>1, <2>8, <2>9, <4>3, <5>1 DEF Mailing, Judging, IInv, WInv
        <5>2. CASE q # r
          BY <2>9, <4>3, <5>2 DEF Mailing, Judging, SentTo, IInv, WInv
        <5> QED BY <5>1, <5>2
      <4> QED BY <4>1, <4>2, <4>3 DEF SentTo
    <3>2. \A f \in People : ~SentTo(n, f)
      BY <2>5 DEF IInv, RInv, SentDrawn
    <3>3. OneReader'  BY <3>1, <3>2 DEF OneReader, IInv, RInv
    <3>4. SentDrawn'
      BY <2>3, <2>5, <3>1, BoundAssumption DEF SentDrawn, IInv, RInv, Codes
    <3> QED BY <3>3, <3>4 DEF RInv
  <2>14. IInvites'  BY <2>3, <2>8, <2>9, IStands DEF IInv
  <2>15. WInv'  BY <2>3, <2>9, <2>10, WStands DEF IInv, WInv
  <2>16. LockoutBounded'  BY <2>3, <2>8, <2>9, LStands DEF IInv, UInv, users
  <2> QED BY <2>11, <2>12, <2>13, <2>14, <2>15, <2>16 DEF IInv
<1> QED BY <1>2, <1>3

\* MAILER.send: what was under way to its reader has arrived.
LEMMA MailKeeps == ASSUME IInv, NEW r \in Requests, Mail(r) PROVE IInv'
<1> PICK e, c : e = work[r].e /\ c = work[r].c  OBVIOUS
<1>1. work[r].pc = "mail" /\ e \in People /\ c \in Codes
  BY WorkSound DEF Mail, At, Fits
<1>2. /\ inbox' = [inbox EXCEPT ![e] = @ \cup {c}]
      /\ work' = [work EXCEPT ![r] = Idle]
      /\ UNCHANGED <<users, code, judged, drawn, invites, begun>>
  BY DEF Mail, At, Ends
<1>3. UInv'  BY <1>2, UStands DEF IInv
<1>4. CInv'
  <2>1. inbox' \in [People -> SUBSET Codes]  BY <1>1, <1>2 DEF IInv, CInv, CodesOK
  <2> QED BY <1>2, <2>1 DEF IInv, CInv, CodesOK, RowsCount, OneKey, JudgedOK, users
<1>5. RInv'
  <2>1. \A d \in Codes : \A f \in People : SentTo(d, f)' => SentTo(d, f)
    <3> SUFFICES ASSUME NEW d \in Codes, NEW f \in People, SentTo(d, f)' PROVE SentTo(d, f)
      OBVIOUS
    <3>1. CASE d \in inbox'[f]
      <4>1. d \in inbox[f] \/ (d = c /\ f = e)
        BY <1>1, <1>2, <3>1 DEF IInv, CInv, CodesOK
      <4>2. Mailing(r, c, e)  BY <1>1 DEF Mailing
      <4> QED BY <4>1, <4>2 DEF SentTo
    <3>2. CASE \E k \in Keys : code'[k].code = d /\ code'[k].to = f
      BY <1>2, <3>2 DEF SentTo
    <3>3. CASE \E q \in Requests : Mailing(q, d, f)' \/ Judging(q, d, f)'
      BY <1>2, <3>3, IdleSound, NoneNew DEF SentTo, IInv
    <3> QED BY <3>1, <3>2, <3>3 DEF SentTo
  <2> QED BY <1>2, <2>1 DEF RInv, OneReader, SentDrawn, IInv
<1>6. IInvites'  BY <1>2, IdleSound, IStands DEF IInv
<1>7. WInv'
  <2>1. Fits(Idle) /\ Reads(Idle) /\ Presented(Idle)'
    BY IdleSound DEF Sound, Presented
  <2>2. \A p \in People : inbox[p] \subseteq inbox'[p]
    BY <1>2 DEF IInv, CInv, CodesOK
  <2> QED BY <1>2, <2>1, <2>2, WStands DEF IInv, WInv
<1>8. LockoutBounded'  BY <1>2, IdleSound, LStands DEF IInv, UInv, users
<1> QED BY <1>3, <1>4, <1>5, <1>6, <1>7, <1>8 DEF IInv

\* A guess is counted, of one row only; the code it will be compared with was
\* mailed to the address it is for.
LEMMA GuessKeeps == ASSUME IInv, NEW r \in Requests, Guess(r) PROVE IInv'
<1> DEFINE w == work[r]
<1>1. w \in Work /\ Fits(w) /\ w.pc = "claim" /\ w.i = NoInvite
  BY WorkSound DEF Guess, At
<1>2. CASE Ends(r) /\ UNCHANGED <<code, judged>>
  BY <1>2, EndKeeps DEF Guess, At, codes
<1>3. CASE ~(Ends(r) /\ UNCHANGED <<code, judged>>)
  <2>1. PICK k, e, c : k = Key(w) /\ e = w.e /\ c = code[k].code  OBVIOUS
  <2>2. k \in Keys  BY <1>1, <2>1, KeyTyped DEF Fits
  <2>3. /\ Matches(k, e) /\ MayGuess(code[k].tries)
        /\ code' = [code EXCEPT ![k].tries = IF @ < CodeAttempts THEN @ + 1 ELSE @]
        /\ judged' = [judged EXCEPT ![c] = IF @ <= CodeAttempts THEN @ + 1 ELSE @]
        /\ work' = [work EXCEPT ![r].pc = "judge", ![r].seen = c]
        /\ UNCHANGED <<users, inbox, drawn, invites, begun>>
    BY <1>3, <2>1 DEF Guess, At
  <2>4. code[k] \in Row /\ c # 0 /\ c \in Codes /\ code[k].tries \in 0..(CodeAttempts - 1)
    BY <2>1, <2>2, <2>3, BoundAssumption DEF Matches, MayGuess, Row, IInv, CInv, CodesOK
  <2>5. PICK b : b = [code[k] EXCEPT !.tries = @ + 1]  OBVIOUS
  <2>6. /\ b \in Row /\ b.code = c /\ b.to = code[k].to /\ b.tries = code[k].tries + 1
    BY <2>1, <2>4, <2>5, BoundAssumption DEF Row
  <2>7. code' = [code EXCEPT ![k] = b]
    <3>1. code' = [code EXCEPT ![k] = [code[k] EXCEPT
                     !.tries = IF code[k].tries < CodeAttempts THEN code[k].tries + 1
                                                               ELSE code[k].tries]]
      BY <2>3
    <3>2. code[k].tries < CodeAttempts  BY <2>4, BoundAssumption
    <3>3. b = [code[k] EXCEPT !.tries = IF code[k].tries < CodeAttempts THEN code[k].tries + 1
                                                               ELSE code[k].tries]
      BY <2>5, <3>2
    <3> QED BY <3>1, <3>3
  <2>8. PICK x : x = [w EXCEPT !.pc = "judge", !.seen = c]  OBVIOUS
  <2>9. /\ x \in Work /\ x.pc = "judge" /\ Same(w, x)
        /\ x.u = w.u /\ x.e = w.e /\ x.c = w.c /\ x.seen = c
    BY <1>1, <2>4, <2>8 DEF Work, Same
  <2>10. work' = [work EXCEPT ![r] = x]  BY <2>3, <2>8 DEF IInv, WInv
  <2>11. Sound(w)  BY DEF IInv, WInv
  <2>12. Fits(x) /\ Reads(x) /\ Presented(x)'
    BY <1>1, <2>3, <2>4, <2>9, <2>11 DEF Fits, Reads, Presented, Same, Sound
  <2>13. w.op # "delete" => w.e \in People /\ code[k].to = e
    BY <1>1, <2>1, <2>3 DEF Fits, Key, Matches
  <2>14. w.op # "delete" => x.op # "delete" /\ x.e = e
    BY <2>1, <2>9 DEF Same
  <2>15. x.op # "delete" => e \in People /\ code[k].to = e /\ x.e = e
    BY <2>1, <2>9, <2>13 DEF Same
  <2> HIDE DEF w
  <2>16. UInv'  BY <2>3, UStands DEF IInv
  <2>17. \A l \in Keys : /\ code'[l].code = code[l].code /\ code'[l].to = code[l].to
                         /\ l # k => code'[l] = code[l]
    BY <2>1, <2>6, <2>7 DEF IInv, CInv, CodesOK
  <2>18. judged[c] = code[k].tries /\ judged'[c] = code[k].tries + 1 /\ c <= drawn
    <3>1. judged[c] = code[k].tries /\ c <= drawn
      BY <2>1, <2>2, <2>4 DEF IInv, CInv, RowsCount
    <3>2. judged[c] <= CodeAttempts  BY <2>4 DEF IInv, CInv, JudgedOK
    <3> QED BY <2>3, <2>4, <3>1, <3>2 DEF IInv, CInv, CodesOK
  <2>19. CInv'
    <3>1. CodesOK'
      <4>1. code' \in [Keys -> Row]  BY <2>6, <2>7 DEF IInv, CInv, CodesOK
      <4>2. judged' \in [Codes -> Nat]  BY <2>3, <2>4 DEF IInv, CInv, CodesOK
      <4>3. \A u \in Users : row'[u] # "live" =>
              code'[<<"delete", u>>].code = 0 /\ code'[<<"change", u>>].code = 0
        BY <2>3, <2>17, KeysTyped DEF IInv, CInv, CodesOK, users
      <4> QED BY <2>3, <4>1, <4>2, <4>3 DEF IInv, CInv, CodesOK
    <3>2. code'[k] = b  BY <2>2, <2>7 DEF IInv, CInv, CodesOK
    <3>3. \A l \in Keys : l # k => code[l].code # c
      BY <2>1, <2>2, <2>4 DEF IInv, CInv, OneKey
    <3>4. RowsCount'
      <4> SUFFICES ASSUME NEW l \in Keys, code'[l].code # 0
                   PROVE  /\ code'[l].to \in People /\ code'[l].code <= drawn'
                          /\ judged'[code'[l].code] = code'[l].tries
        BY DEF RowsCount
      <4>0. code[l].to \in People /\ code[l].code <= drawn /\ judged[code[l].code] = code[l].tries
        BY <2>17 DEF IInv, CInv, RowsCount
      <4>1. CASE l = k
        BY <2>1, <2>3, <2>6, <2>18, <3>2, <4>0, <4>1
      <4>2. CASE l # k
        <5>1. judged'[code[l].code] = judged[code[l].code]
          BY <2>3, <3>3, <4>2 DEF IInv, CInv, CodesOK, Row
        <5> QED BY <2>3, <2>17, <4>0, <4>2, <5>1
      <4> QED BY <4>1, <4>2
    <3>5. OneKey'  BY <2>17 DEF IInv, CInv, OneKey
    <3>6. JudgedOK'
      <4> SUFFICES ASSUME NEW d \in Codes
                   PROVE  judged'[d] <= CodeAttempts /\ (d > drawn' => judged'[d] = 0)
        BY DEF JudgedOK
      <4>0. drawn \in Nat /\ c \in Nat
        BY <2>4, BoundAssumption DEF Codes, IInv, CInv, CodesOK
      <4>1. CASE d = c  BY <2>3, <2>4, <2>18, <4>0, <4>1, BoundAssumption
      <4>2. CASE d # c  BY <2>3, <4>2 DEF IInv, CInv, JudgedOK, CodesOK
      <4> QED BY <4>1, <4>2
    <3> QED BY <3>1, <3>4, <3>5, <3>6 DEF CInv
  <2>20. RInv'
    <3>1. \A d \in Codes : \A f \in People : SentTo(d, f)' => SentTo(d, f)
      <4> SUFFICES ASSUME NEW d \in Codes, NEW f \in People, SentTo(d, f)'
                   PROVE  SentTo(d, f)
        OBVIOUS
      <4>1. CASE d \in inbox'[f]  BY <2>3, <4>1 DEF SentTo
      <4>2. CASE \E l \in Keys : code'[l].code = d /\ code'[l].to = f
        BY <2>17, <4>2 DEF SentTo
      <4>3. ASSUME NEW q \in Requests, Mailing(q, d, f)' \/ Judging(q, d, f)'
            PROVE  SentTo(d, f)
        <5>1. CASE q = r
          <6>1. d = c /\ f = e /\ code[k].to = e
            BY <2>9, <2>10, <2>15, <4>3, <5>1 DEF Mailing, Judging, IInv, WInv
          <6> QED BY <2>1, <2>2, <6>1 DEF SentTo
        <5>2. CASE q # r
          BY <2>10, <4>3, <5>2 DEF Mailing, Judging, SentTo, IInv, WInv
        <5> QED BY <5>1, <5>2
      <4> QED BY <4>1, <4>2, <4>3 DEF SentTo
    <3> QED BY <2>3, <3>1 DEF RInv, OneReader, SentDrawn, IInv
  <2>21. IInvites'  BY <2>3, <2>9, <2>10, IStands DEF IInv
  <2>22. WInv'  BY <2>3, <2>10, <2>12, WStands DEF IInv, WInv
  <2>23. LockoutBounded'  BY <2>3, <2>9, <2>10, LStands DEF IInv, UInv, users
  <2> QED BY <2>16, <2>19, <2>20, <2>21, <2>22, <2>23 DEF IInv
<1> QED BY <1>2, <1>3

\* An open invite has made no account, and nobody else is about to.
LEMMA ClaimKeeps == ASSUME IInv, NEW r \in Requests, ClaimInvite(r) PROVE IInv'
<1> PICK i : i = work[r].i  OBVIOUS
<1> DEFINE w == work[r]
<1>1. /\ w \in Work /\ Fits(w) /\ Presented(w) /\ Reads(w)
      /\ w.pc = "claim" /\ i # NoInvite /\ i \in Invites /\ w.i = i
  BY WorkSound DEF ClaimInvite, At, Work
<1>2. CASE invite[i] # "open"  BY <1>2, EndKeeps DEF ClaimInvite, At, invites
<1>3. CASE invite[i] = "open"
  <2>1. PICK x : x = [w EXCEPT !.pc = "insert"]  OBVIOUS
  <2>2. /\ x \in Work /\ x.pc = "insert" /\ Same(w, x)
        /\ x.u = w.u /\ x.e = w.e /\ x.c = w.c /\ x.seen = w.seen
    BY <1>1, <2>1 DEF Work, Same
  <2>3. /\ work' = [work EXCEPT ![r] = x]
        /\ invite' = [invite EXCEPT ![i] = "used"]
        /\ UNCHANGED <<users, codes, made, begun>>
    BY <1>3, <2>1 DEF ClaimInvite, At, Goes
  <2>4. Sound(x) /\ x.i = i  BY <1>1, <2>2 DEF Sound, Fits, Presented, Reads, Same
  <2>5. UInv' /\ CInv'  BY <2>3, UStands, CStands DEF IInv, users
  <2>6. RInv'  BY <2>2, <2>3, RStands DEF IInv
  <2>7. IInvites'
    <3>1. InvitesOK'  BY <2>3 DEF IInv, IInvites, InvitesOK
    <3>2. made[i] = {} /\ \A q \in Requests : ~Claiming(q, i)
      BY <1>1, <1>3 DEF IInv, IInvites, MadeOne, ClaimedOnce
    <3>3. invite'[i] = "used" /\ \A j \in Invites : j # i => invite'[j] = invite[j]
      BY <1>1, <2>3 DEF IInv, IInvites, InvitesOK
    <3>4. MadeOne'  BY <2>3, <3>2, <3>3 DEF MadeOne, IInv, IInvites
    <3>5. \A q \in Requests, j \in Invites :
            Claiming(q, j)' => (q = r /\ j = i) \/ (Claiming(q, j) /\ j # i)
      BY <2>2, <2>3, <2>4, <3>2 DEF Claiming, IInv, WInv
    <3>6. ClaimedOnce'
      <4>1. \A j \in Invites :
              /\ \A q \in Requests : Claiming(q, j)' => invite'[j] = "used" /\ made'[j] = {}
              /\ \A q, s \in Requests : Claiming(q, j)' /\ Claiming(s, j)' => q = s
        BY <2>3, <3>2, <3>3, <3>5 DEF ClaimedOnce, IInv, IInvites
      <4> QED BY <4>1 DEF ClaimedOnce
    <3> QED BY <3>1, <3>4, <3>6 DEF IInvites
  <2>8. WInv'
    <3>1. Presented(x)'  BY <2>3, <2>4 DEF Sound, Presented, codes
    <3> QED BY <2>3, <2>4, <3>1, WStands DEF IInv, WInv, Sound, codes
  <2>9. LockoutBounded'  BY <2>2, <2>3, LStands DEF IInv, UInv, users
  <2> QED BY <2>5, <2>6, <2>7, <2>8, <2>9 DEF IInv
<1> QED BY <1>2, <1>3

LEMMA NoRowIsRow == NoRow \in Row /\ NoRow.code = 0
BY BoundAssumption DEF NoRow, Row

\* A row that is deleted.
LEMMA Deleted ==
    ASSUME CInv, NEW k \in Keys, code' = [code EXCEPT ![k] = NoRow], UNCHANGED <<judged, drawn>>
    PROVE  Shrinks /\ \A l \in Keys : code[l].code = 0 => code'[l].code = 0
BY NoRowIsRow DEF Shrinks, CInv, CodesOK

LEMMA SpendKeeps == ASSUME IInv, NEW r \in Requests, Spend(r) PROVE IInv'
<1> DEFINE w == work[r]
<1>1. w \in Work /\ Fits(w) /\ Presented(w) /\ Reads(w) /\ w.pc = "spend"
  BY WorkSound DEF Spend, At
<1>2. PICK k, x : k = Key(w) /\ x = [w EXCEPT !.pc = "insert"]  OBVIOUS
<1>3. k \in Keys  BY <1>1, <1>2, KeyTyped DEF Fits
<1>4. /\ x \in Work /\ x.pc = "insert" /\ Same(w, x)
      /\ x.u = w.u /\ x.e = w.e /\ x.c = w.c /\ x.seen = w.seen
  BY <1>1, <1>2 DEF Work, Same
<1>5. /\ work' = [work EXCEPT ![r] = x] /\ code' = [code EXCEPT ![k] = NoRow]
      /\ UNCHANGED <<users, inbox, judged, drawn, invites, begun>>
  BY <1>2 DEF Spend, At, Goes
<1>6. Sound(x) /\ x.i = NoInvite
  BY <1>1, <1>4 DEF Sound, Fits, Presented, Reads, Same
<1>7. Shrinks /\ \A l \in Keys : code[l].code = 0 => code'[l].code = 0
  BY <1>3, <1>5, Deleted DEF IInv
<1>8. UInv'  BY <1>5, UStands DEF IInv
<1>9. CInv'
  <2>1. \A u \in Users : row'[u] # "live" =>
          code'[<<"delete", u>>].code = 0 /\ code'[<<"change", u>>].code = 0
    BY <1>5, <1>7, KeysTyped DEF IInv, CInv, CodesOK, users
  <2> QED BY <1>5, <1>7, <2>1, ShrinkC DEF IInv
<1>10. RInv'  BY <1>4, <1>5, <1>7, ShrinkR, NoneNew DEF IInv
<1>11. IInvites'  BY <1>5, <1>6, IStands DEF IInv
<1>12. WInv'
  <2>1. Presented(x)'  BY <1>4 DEF Presented
  <2> QED BY <1>5, <1>6, <2>1, WStands DEF IInv, WInv, Sound
<1>13. LockoutBounded'  BY <1>4, <1>5, LStands DEF IInv, UInv, users
<1> QED BY <1>8, <1>9, <1>10, <1>11, <1>12, <1>13 DEF IInv

\* A new address: no other account has it, and its reader asked for it.
LEMMA SetEmailKeeps == ASSUME IInv, NEW r \in Requests, SetEmail(r) PROVE IInv'
<1> PICK w : w = work[r]  OBVIOUS
<1>1. Fits(w) /\ w.pc = "set" /\ w.u \in Users /\ w.e \in People /\ w.p = w.e
  BY WorkSound DEF SetEmail, At, Fits, Reads
<1>2. PICK k : k = Key(w)  OBVIOUS
<1>3. k \in Keys  BY <1>1, <1>2, KeyTyped DEF Fits
<1>4. /\ work' = [work EXCEPT ![r] = Idle] /\ code' = [code EXCEPT ![k] = NoRow]
      /\ UNCHANGED <<row, admin, auth, failed, window, devices, members, inbox, judged, drawn,
                     invites, begun>>
  BY <1>2 DEF SetEmail, At, Ends
<1>5. Shrinks /\ \A l \in Keys : code[l].code = 0 => code'[l].code = 0
  BY <1>3, <1>4, Deleted DEF IInv
<1>6. UInv'
  <2>1. CASE UNCHANGED <<email, by>>
    <3>1. UNCHANGED users  BY <1>4, <2>1 DEF users
    <3> QED BY <3>1, UStands DEF IInv
  <2>2. CASE /\ row[w.u] = "live" /\ FreeFor(w.e, w.u)
             /\ email' = [email EXCEPT ![w.u] = w.e] /\ by' = [by EXCEPT ![w.u] = w.p]
    <3>1. \A v \in Users : v # w.u => email[v] # w.e
      BY <1>1, <2>2, NullAssumption DEF FreeFor, Holder, IInv, UInv, UsersOK
    <3>2. email' \in [Users -> People \cup {NoOne}] /\ by' \in [Users -> People \cup {NoOne, "invite"}]
      BY <1>1, <2>2 DEF IInv, UInv, UsersOK
    <3>3. \A v \in Users : row'[v] # "live" => email'[v] = NoOne
      BY <1>4, <2>2 DEF IInv, UInv, UsersOK
    <3>4. UsersOK'  BY <1>4, <3>2, <3>3 DEF IInv, UInv, UsersOK
    <3>5. OneEmail'  BY <1>1, <2>2, <3>1 DEF OneEmail, IInv, UInv, UsersOK
    <3>6. OneAdmin'  BY <1>4 DEF OneAdmin, IInv, UInv
    <3>7. AddressProved'  BY <1>1, <2>2 DEF AddressProved, IInv, UInv, UsersOK
    <3> QED BY <3>4, <3>5, <3>6, <3>7 DEF UInv
  <2> QED BY <2>1, <2>2 DEF SetEmail
<1>7. CInv'
  <2>1. \A u \in Users : row'[u] # "live" =>
          code'[<<"delete", u>>].code = 0 /\ code'[<<"change", u>>].code = 0
    BY <1>4, <1>5, KeysTyped DEF IInv, CInv, CodesOK
  <2> QED BY <1>4, <1>5, <2>1, ShrinkC DEF IInv
<1>8. RInv'  BY <1>4, <1>5, IdleSound, ShrinkR, NoneNew DEF IInv
<1>9. IInvites'  BY <1>4, IdleSound, IStands DEF IInv
<1>10. WInv'
  <2>1. Fits(Idle) /\ Reads(Idle) /\ Presented(Idle)'  BY IdleSound DEF Sound, Presented
  <2> QED BY <1>4, <2>1, WStands DEF IInv, WInv
<1>11. LockoutBounded'  BY <1>4, IdleSound, LStands DEF IInv, UInv
<1> QED BY <1>6, <1>7, <1>8, <1>9, <1>10, <1>11 DEF IInv

\* An account that is deleted takes its address, its mark and its codes along.
LEMMA EraseKeeps == ASSUME IInv, NEW r \in Requests, Erase(r) PROVE IInv'
<1> PICK u : u = work[r].u  OBVIOUS
<1>1. work[r].pc = "erase" /\ u \in Users  BY WorkSound DEF Erase, At, Fits
<1>2. CASE row[u] # "live"
  BY <1>2, EndKeeps DEF Erase, At, users, codes
<1>3. CASE row[u] = "live"
  <2>1. /\ row' = [row EXCEPT ![u] = "deleted"]
        /\ admin' = [admin EXCEPT ![u] = FALSE]
        /\ email' = [email EXCEPT ![u] = NoOne]
        /\ by' = [by EXCEPT ![u] = NoOne]
        /\ auth' = [auth EXCEPT ![u] = 0]
        /\ devices' = [devices EXCEPT ![u] = 0]
        /\ code' = [k \in Keys |-> IF k[2] = u \/ k = <<"signup", email[u]>>
                                   THEN NoRow ELSE code[k]]
        /\ work' = [work EXCEPT ![r] = Idle]
        /\ UNCHANGED <<failed, window, members, inbox, judged, drawn, invites, begun>>
    BY <1>3 DEF Erase, At, Ends
  <2>2. Shrinks  BY <2>1, NoRowIsRow DEF Shrinks, IInv, CInv, CodesOK
  <2>3. UInv'
    <3>1. UsersOK'
      BY <1>1, <2>1, BoundAssumption DEF IInv, UInv, UsersOK, Pass
    <3>2. OneEmail'  BY <2>1 DEF OneEmail, IInv, UInv, UsersOK
    <3>3. OneAdmin'  BY <2>1 DEF OneAdmin, IInv, UInv, UsersOK
    <3>4. AddressProved'  BY <2>1 DEF AddressProved, IInv, UInv, UsersOK
    <3> QED BY <3>1, <3>2, <3>3, <3>4 DEF UInv
  <2>4. CInv'
    <3>1. ASSUME NEW v \in Users, row'[v] # "live"
          PROVE  code'[<<"delete", v>>].code = 0 /\ code'[<<"change", v>>].code = 0
      <4>1. <<"delete", v>> \in Keys /\ <<"change", v>> \in Keys
            /\ <<"delete", v>>[2] = v /\ <<"change", v>>[2] = v
        BY KeysTyped
      <4>2. CASE v = u  BY <2>1, <4>1, <4>2, NoRowIsRow
      <4>3. CASE v # u
        <5>1. code[<<"delete", v>>].code = 0 /\ code[<<"change", v>>].code = 0
          BY <2>1, <3>1, <4>3 DEF IInv, UInv, UsersOK, CInv, CodesOK
        <5> QED BY <2>1, <4>1, <5>1, NoRowIsRow
      <4> QED BY <4>2, <4>3
    <3> QED BY <2>1, <2>2, <3>1, ShrinkC DEF IInv
  <2>5. RInv'  BY <2>1, <2>2, IdleSound, ShrinkR, NoneNew DEF IInv
  <2>6. IInvites'  BY <2>1, IdleSound, IStands DEF IInv
  <2>7. WInv'
    <3>1. Fits(Idle) /\ Reads(Idle) /\ Presented(Idle)'  BY IdleSound DEF Sound, Presented
    <3> QED BY <2>1, <3>1, WStands DEF IInv, WInv
  <2>8. LockoutBounded'  BY <2>1, IdleSound, LStands DEF IInv, UInv
  <2> QED BY <2>3, <2>4, <2>5, <2>6, <2>7, <2>8 DEF IInv
<1> QED BY <1>2, <1>3

-----------------------------------------------------------------------------
(* Time, the operator, and the whole.                                      *)

\* No request moves: what its rows do not show stands.
LEMMA Still ==
    ASSUME IInv, UNCHANGED <<work, begun, inbox>>, UInv', CInv', Shrinks, IInvites',
           \A u \in Users : window'[u] => window[u] /\ failed'[u] = failed[u]
    PROVE  IInv'
<1>1. RInv'  BY ShrinkR DEF IInv, Mailing, Judging
<1>2. WInv'
  <2>1. \A r \in Requests : Sound(work[r])'
    BY DEF IInv, WInv, Sound, Fits, Presented, Reads
  <2> QED BY <2>1 DEF IInv, WInv
<1>3. LockoutBounded'  BY DEF IInv, LockoutBounded, Failing
<1> QED BY <1>1, <1>2, <1>3 DEF IInv

LEMMA PassphraseKeeps ==
    ASSUME IInv, NEW p \in People, NEW u \in Users, NEW b \in BOOLEAN, NewPassphrase(p, u, b)
    PROVE  IInv'
<1>1. /\ auth[u] \in 1..(MaxPass - 1) /\ auth' = [auth EXCEPT ![u] = @ + 1]
      /\ failed' = (IF b THEN [failed EXCEPT ![u] = 0] ELSE failed)
      /\ window' = (IF b THEN [window EXCEPT ![u] = FALSE] ELSE window)
      /\ UNCHANGED <<row, admin, email, devices, members, by, codes, invites, work, begun>>
  BY DEF NewPassphrase
<1>2. UInv'
  <2>1. auth' \in [Users -> Pass]  BY <1>1, BoundAssumption DEF IInv, UInv, UsersOK, Pass
  <2>2. failed' \in [Users -> Nat] /\ window' \in [Users -> BOOLEAN]
    BY <1>1 DEF IInv, UInv, UsersOK
  <2>3. UsersOK'  BY <1>1, <2>1, <2>2 DEF IInv, UInv, UsersOK
  <2> QED BY <1>1, <2>3 DEF IInv, UInv, OneEmail, OneAdmin, AddressProved
<1>3. CInv'  BY <1>1, CStands DEF IInv
<1>4. Shrinks  BY <1>1 DEF Shrinks, codes, IInv, CInv, CodesOK
<1>5. IInvites'
  BY <1>1 DEF IInv, IInvites, InvitesOK, MadeOne, ClaimedOnce, Claiming, invites
<1>6. \A v \in Users : window'[v] => window[v] /\ failed'[v] = failed[v]
  BY <1>1 DEF IInv, UInv, UsersOK
<1> QED BY <1>1, <1>2, <1>3, <1>4, <1>5, <1>6, Still DEF codes

\* A row that is older.
LEMMA OlderKeeps ==
    ASSUME IInv, NEW k \in Keys, MinutePasses(k) \/ CodeExpires(k)
    PROVE  IInv'
<1>1. UNCHANGED <<users, inbox, judged, drawn, invites, work, begun>>
  BY DEF MinutePasses, CodeExpires
<1>2. Shrinks /\ \A l \in Keys : code'[l].code = code[l].code
  <2>1. PICK b : code' = [code EXCEPT ![k] = b] /\ b \in Row /\ b.code = code[k].code
                 /\ b.to = code[k].to /\ b.tries = code[k].tries
    <3>1. code[k] \in Row  BY DEF IInv, CInv, CodesOK
    <3>2. CASE MinutePasses(k)
      <4>1. code' = [code EXCEPT ![k] = [code[k] EXCEPT !.recent = FALSE]]
        BY <3>2 DEF MinutePasses
      <4>2. PICK b : b = [code[k] EXCEPT !.recent = FALSE]  OBVIOUS
      <4>3. b \in Row /\ b.code = code[k].code /\ b.to = code[k].to /\ b.tries = code[k].tries
        BY <3>1, <4>2 DEF Row
      <4> QED BY <4>1, <4>2, <4>3
    <3>3. CASE CodeExpires(k)
      <4>1. code' = [code EXCEPT ![k] = [code[k] EXCEPT !.live = FALSE]]
        BY <3>3 DEF CodeExpires
      <4>2. PICK b : b = [code[k] EXCEPT !.live = FALSE]  OBVIOUS
      <4>3. b \in Row /\ b.code = code[k].code /\ b.to = code[k].to /\ b.tries = code[k].tries
        BY <3>1, <4>2 DEF Row
      <4> QED BY <4>1, <4>2, <4>3
    <3> QED BY <3>2, <3>3
  <2> QED BY <1>1, <2>1 DEF Shrinks, IInv, CInv, CodesOK
<1>3. UInv'  BY <1>1, UStands DEF IInv
<1>4. CInv'
  <2>1. \A u \in Users : row'[u] # "live" =>
          code'[<<"delete", u>>].code = 0 /\ code'[<<"change", u>>].code = 0
    BY <1>1, <1>2, KeysTyped DEF IInv, CInv, CodesOK, users
  <2> QED BY <1>1, <1>2, <2>1, ShrinkC DEF IInv
<1>5. IInvites'
  BY <1>1 DEF IInv, IInvites, InvitesOK, MadeOne, ClaimedOnce, Claiming, invites
<1> QED BY <1>1, <1>2, <1>3, <1>4, <1>5, Still DEF users

LEMMA WindowKeeps == ASSUME IInv, NEW u \in Users, WindowPasses(u) PROVE IInv'
<1>1. /\ window' = [window EXCEPT ![u] = FALSE]
      /\ UNCHANGED <<row, admin, email, auth, failed, devices, members, by, codes, invites,
                     work, begun>>
  BY DEF WindowPasses
<1>2. UInv'
  <2>1. UsersOK'  BY <1>1 DEF IInv, UInv, UsersOK
  <2> QED BY <1>1, <2>1 DEF IInv, UInv, OneEmail, OneAdmin, AddressProved
<1>3. CInv' /\ Shrinks  BY <1>1, CStands DEF Shrinks, codes, IInv, CInv, CodesOK
<1>4. IInvites'
  BY <1>1 DEF IInv, IInvites, InvitesOK, MadeOne, ClaimedOnce, Claiming, invites
<1>5. \A v \in Users : window'[v] => window[v] /\ failed'[v] = failed[v]
  BY <1>1 DEF IInv, UInv, UsersOK
<1> QED BY <1>1, <1>2, <1>3, <1>4, <1>5, Still DEF codes

LEMMA ExpiresKeeps == ASSUME IInv, NEW i \in Invites, InviteExpires(i) PROVE IInv'
<1>1. /\ invite[i] = "open" /\ invite' = [invite EXCEPT ![i] = "expired"]
      /\ UNCHANGED <<users, codes, made, work, begun>>
  BY DEF InviteExpires
<1>2. UInv' /\ CInv' /\ Shrinks
  BY <1>1, UStands, CStands DEF Shrinks, users, codes, IInv, CInv, CodesOK
<1>3. IInvites'
  <2>1. InvitesOK'  BY <1>1 DEF IInv, IInvites, InvitesOK
  <2>2. \A j \in Invites : invite[j] = "used" => invite'[j] = "used"
    BY <1>1 DEF IInv, IInvites, InvitesOK
  <2> QED BY <1>1, <2>1, <2>2 DEF IInv, IInvites, MadeOne, ClaimedOnce, Claiming
<1> QED BY <1>1, <1>2, <1>3, Still DEF users, codes

LEMMA Initially == ASSUME Init PROVE IInv
<1> USE BoundAssumption, NullAssumption
<1>1. UInv  BY DEF Init, UInv, UsersOK, OneEmail, OneAdmin, AddressProved, Pass
<1>2. CInv
  <2>1. \A k \in Keys : code[k].code = 0  BY NoRowIsRow DEF Init
  <2>2. CodesOK  BY <2>1, NoRowIsRow, KeysTyped DEF Init, CodesOK
  <2>3. JudgedOK  BY DEF Init, JudgedOK
  <2> QED BY <2>1, <2>2, <2>3 DEF CInv, RowsCount, OneKey
<1>3. \A r \in Requests : work[r] = Idle  BY DEF Init
<1>4. RInv
  <2>1. \A c \in Codes : \A e \in People : ~SentTo(c, e)
    <3> SUFFICES ASSUME NEW c \in Codes, NEW e \in People PROVE ~SentTo(c, e)  OBVIOUS
    <3>1. c # 0  BY DEF Codes
    <3> QED BY <1>3, <3>1, IdleSound, NoRowIsRow DEF Init, SentTo, Mailing, Judging
  <2> QED BY <2>1 DEF RInv, OneReader, SentDrawn
<1>5. IInvites
  <2>1. \A r \in Requests, i \in Invites : ~Claiming(r, i)  BY <1>3, IdleSound DEF Claiming
  <2> QED BY <2>1 DEF Init, IInvites, InvitesOK, MadeOne, ClaimedOnce
<1>6. WInv
  <2>1. Idle \in Work  BY IdleSound DEF Sound, Fits
  <2>2. work \in [Requests -> Work]  BY <2>1 DEF Init
  <2>3. \A r \in Requests : Sound(work[r])  BY <1>3, IdleSound
  <2>4. begun \in 0..MaxBegun  BY DEF Init
  <2> QED BY <2>2, <2>3, <2>4 DEF WInv
<1>7. LockoutBounded  BY DEF Init, LockoutBounded
<1> QED BY <1>1, <1>2, <1>4, <1>5, <1>6, <1>7 DEF IInv

LEMMA Inductive == ASSUME IInv, [Next]_vars PROVE IInv'
<1>1. ASSUME NEW r \in Requests, NEW p \in People, Asks(r, p) PROVE IInv'
  BY <1>1, AsksKeeps
<1>2. ASSUME NEW r \in Requests, Step(r) PROVE IInv'
  BY <1>2, StoreKeeps, MailKeeps, GuessKeeps, JudgeKeeps, TakenKeeps, ClaimKeeps, SpendKeeps,
     InsertKeeps, DeviceKeeps, SetUpKeeps, ReadUserKeeps, CountFailureKeeps, ResetKeeps,
     FindKeeps, MakeAdminKeeps, AddressKeeps, FreeKeeps, ProofKeeps, SetEmailKeeps, EraseKeeps
  DEF Step
<1>3. ASSUME NEW r \in Requests, Fail(r) PROVE IInv'  BY <1>3, EndKeeps DEF Fail
<1>4. CASE UNCHANGED vars
  <2>1. UInv' /\ CInv' /\ Shrinks
    BY <1>4, UStands, CStands DEF vars, Shrinks, users, codes, IInv, CInv, CodesOK
  <2>2. IInvites'
    BY <1>4 DEF vars, IInv, IInvites, InvitesOK, MadeOne, ClaimedOnce, Claiming, invites
  <2> QED BY <1>4, <2>1, <2>2, Still DEF vars, users, codes
<1> QED BY <1>1, <1>2, <1>3, <1>4, PassphraseKeeps, OlderKeeps, WindowKeeps, ExpiresKeeps DEF Next

\* What every reachable state satisfies, and the theorems below read off.
THEOREM Invariant == Spec => []IInv
<1>1. Init => IInv  BY Initially
<1>2. IInv /\ [Next]_vars => IInv'  BY Inductive
<1> QED BY <1>1, <1>2, PTL DEF Spec

-----------------------------------------------------------------------------
(* What a reader of Account should know.                                   *)

\* Every variable has its type; only an account that is there has an address,
\* the admin mark, devices or codes.
THEOREM TypeCorrect == Spec => []TypeOK
<1>1. IInv => TypeOK  BY Split DEF IInv, UInv, CInv, IInvites, WInv
<1> QED BY <1>1, Invariant, PTL

\* An address is one account's, the admin secret opens one account, and an
\* invite makes one, however many requests are between two of their statements.
THEOREM OneAccountCorrect == Spec => []OneAccount
<1>1. ASSUME IInv PROVE OneAccount
  <2>1. \A u, v \in Users : email[u] = email[v] /\ email[u] # NoOne => u = v
    BY <1>1 DEF IInv, UInv, OneEmail
  <2>2. \A u, v \in Admins : u = v  BY <1>1 DEF IInv, UInv, OneAdmin, Admins
  <2>3. ASSUME NEW i \in Invites PROVE Cardinality(made[i]) <= 1
    <3>1. \A u, v \in made[i] : u = v  BY <1>1 DEF IInv, IInvites, MadeOne
    <3>2. CASE made[i] = {}  BY <3>2, FS_EmptySet
    <3>3. CASE made[i] # {}
      <4>1. PICK u : made[i] = {u}  BY <3>1, <3>3
      <4> QED BY <4>1, FS_Singleton
    <3> QED BY <3>2, <3>3
  <2> QED BY <2>1, <2>2, <2>3 DEF OneAccount
<1> QED BY <1>1, Invariant, PTL

\* An address of an account is one whose reader gave it with a code mailed
\* there, or one that an invited person named.
THEOREM AddressProvedCorrect == Spec => []AddressProved
<1>1. IInv => AddressProved  BY DEF IInv, UInv
<1> QED BY <1>1, Invariant, PTL

\* No code is compared with more than CODE_ATTEMPTS guesses.
THEOREM GuessesBoundedCorrect == Spec => []GuessesBounded
<1>1. IInv => GuessesBounded  BY DEF IInv, CInv, JudgedOK, GuessesBounded
<1> QED BY <1>1, Invariant, PTL

\* Within a window, at most as many failures pass the last that is let through
\* as there are requests at once.
THEOREM LockoutBoundedCorrect == Spec => []LockoutBounded
<1>1. IInv => LockoutBounded  BY DEF IInv
<1> QED BY <1>1, Invariant, PTL
=============================================================================
