------------------------------ MODULE Account ------------------------------
(***************************************************************************)
(* Accounts: made by sign-up or by the admin secret, signed in to, given   *)
(* an address, deleted.  Mailed one-time codes, invites and the sign-in    *)
(* lockout stand between, each a row that several requests read and write  *)
(* a statement at a time (apps/worker/src routes/signup.ts, account.ts,    *)
(* auth.ts, packages/client/src/account.ts).                               *)
(*                                                                         *)
(* A person is the mailbox they read: what is mailed to an address its     *)
(* reader knows, and nobody else; a guessed code or passphrase is wrong.   *)
(* A passphrase is a number, the later the higher; 0 is a wrong one, and   *)
(* an auth_hash of NULL.  Of the vault only that a client sets it up after *)
(* it has signed up is here; VaultKeys has the rest.                       *)
(***************************************************************************)
EXTENDS Naturals, FiniteSets
CONSTANTS
    Users,           \* accounts there may be, each made once
    People,          \* addresses, and who reads them
    Invites,         \* rows of signup_invites
    CodeAttempts, SigninFailures,   \* CODE_ATTEMPTS, SIGNIN_FAILURES
    Limit,           \* max_devices of SIGNUP_PLAN
    Does,            \* person |-> what they do (a bound)
    NoUser, NoOne, NoInvite,        \* NULL
    Failures,        \* whether requests may fail half-way
    Requests, MaxCodes, MaxPass, MaxBegun   \* bounds

Codes == 1..MaxCodes    \* one-time codes, in the order drawn; 0: none, or a wrong one
Pass == 0..MaxPass

\* The rows of email_codes, deletion_codes and email_changes, by primary key.
Keys == {"signup"} \X People \cup {"delete", "change"} \X Users

ASSUME BoundAssumption ==
    /\ CodeAttempts \in Nat /\ SigninFailures \in Nat \ {0} /\ Limit \in Nat \ {0}
    /\ MaxCodes \in Nat /\ MaxPass \in Nat \ {0} /\ MaxBegun \in Nat
    /\ IsFiniteSet(Requests)
ASSUME NullAssumption ==
    NoUser \notin Users /\ NoOne \notin People /\ NoInvite \notin Invites
ASSUME DoesAssumption == DOMAIN Does = People /\ Failures \in BOOLEAN

VARIABLES
    row,       \* users: not yet made, there, or deleted
    admin,     \* users.admin = 1
    email,     \* users.email
    auth,      \* users.auth_hash, as the passphrase it proves
    failed, window,   \* users.signin_failures; whether signin_window is open
    devices,   \* devices enrolled
    members,   \* people who have (or had) a device and the passphrase
    by,        \* who set the address, or "invite" (history)
    code,      \* the one-time codes, by key
    inbox,     \* person |-> codes mailed to them
    judged,    \* code |-> guesses compared with it (history)
    drawn,     \* codes drawn so far
    invite,    \* signup_invites: open or used
    made,      \* invite |-> accounts made with it (history)
    work,      \* requests under way
    begun      \* requests begun so far (a bound)

users == <<row, admin, email, auth, failed, window, devices, members, by>>
codes == <<code, inbox, judged, drawn>>
invites == <<invite, made>>
vars == <<users, codes, invites, work, begun>>

Row == [code : {0} \cup Codes,    \* code_hash; 0: no row
        to : People \cup {NoOne}, \* the address mailed (email_changes.email)
        tries : 0..CodeAttempts,  \* attempts
        recent : BOOLEAN,         \* sent_at within RESEND_AFTER_MS
        live : BOOLEAN]           \* expires_at still to come
NoRow == [code |-> 0, to |-> NoOne, tries |-> 0, recent |-> FALSE, live |-> FALSE]

Work == [pc : {"idle", "store", "mail", "taken", "claim", "judge", "spend", "insert",
               "device", "set up", "user", "fail", "reset", "find", "make", "find again",
               "address", "proof", "erase", "free", "set"},
         op : {"", "signup", "signin", "bootstrap", "ask", "delete", "change"},
         p : People \cup {NoOne},      \* who asks
         u : Users \cup {NoUser},      \* the account
         e : People \cup {NoOne},      \* the address named
         i : Invites \cup {NoInvite},  \* the invite presented
         c : {0} \cup Codes,           \* the code presented, or drawn
         w : Pass,                     \* the passphrase typed
         seen : {0} \cup Codes]        \* code_hash as read

Idle == [pc |-> "idle", op |-> "", p |-> NoOne, u |-> NoUser, e |-> NoOne,
         i |-> NoInvite, c |-> 0, w |-> 0, seen |-> 0]

-----------------------------------------------------------------------------
(* Requests and one-time codes.                                            *)

Begins(r, w) ==
    /\ work[r] = Idle /\ begun < MaxBegun
    /\ begun' = begun + 1
    /\ work' = [work EXCEPT ![r] = w]
Goes(r, pc) == work' = [work EXCEPT ![r].pc = pc]
Ends(r) == work' = [work EXCEPT ![r] = Idle]
At(r, pc) == work[r].pc = pc /\ UNCHANGED begun
Key(w) == IF w.op = "signup" THEN <<"signup", w.e>> ELSE <<w.op, w.u>>

\* requireDevice.
Enrolled(p, u) == row[u] = "live" /\ devices[u] > 0 /\ p \in members[u]

\* The account with an address, if there is one.
Holder(e) == {u \in Users : row[u] = "live" /\ email[u] = e}

\* A row of deletion_codes or of email_changes references its account.
RowHasAccount(w) == w.op # "signup" => row[w.u] = "live"

\* INSERT ... ON CONFLICT DO UPDATE ... WHERE sent_at is a minute ago: a code
\* replaces the one before it, at most once a minute.
Store(r) ==
    LET w == work[r] k == Key(w) IN
    /\ At(r, "store")
    /\ IF RowHasAccount(w) /\ ~code[k].recent
       THEN /\ drawn < MaxCodes
            /\ drawn' = drawn + 1
            /\ code' = [code EXCEPT ![k] = [code |-> drawn + 1, to |-> w.e, tries |-> 0,
                                            recent |-> TRUE, live |-> TRUE]]
            /\ work' = [work EXCEPT ![r].pc = "mail", ![r].c = drawn + 1]
       ELSE Ends(r) /\ UNCHANGED <<code, drawn>>
    /\ UNCHANGED <<users, inbox, judged, invites>>

\* MAILER.send: the mail arrives, or the request fails (Fail).
Mail(r) ==
    /\ At(r, "mail")
    /\ inbox' = [inbox EXCEPT ![work[r].e] = @ \cup {work[r].c}]
    /\ Ends(r)
    /\ UNCHANGED <<users, code, judged, drawn, invites>>

\* What if any code mailed for the account would do?
MatchesAny(k, e) == code[k].code # 0 /\ code[k].live
\* The WHERE of the UPDATE that counts a guess (email_changes are also asked
\* for by their address).
Matches(k, e) == code[k].code # 0 /\ code[k].live /\ code[k].to = (IF k[1] = "delete" THEN code[k].to ELSE e)

\* What if a guess were counted after it is judged?
CountedAfter(tries) == tries <= CodeAttempts
MayGuess(tries) == tries < CodeAttempts

\* UPDATE ... SET attempts = attempts + 1 ... RETURNING code_hash: each guess is
\* counted before it is judged.
Guess(r) ==
    LET w == work[r] k == Key(w) IN
    /\ At(r, "claim") /\ w.i = NoInvite
    /\ IF Matches(k, w.e) /\ MayGuess(code[k].tries)
       THEN /\ code' = [code EXCEPT ![k].tries = IF @ < CodeAttempts THEN @ + 1 ELSE @]
            /\ judged' = [judged EXCEPT ![code[k].code] = IF @ <= CodeAttempts THEN @ + 1 ELSE @]
            /\ work' = [work EXCEPT ![r].pc = "judge", ![r].seen = code[k].code]
       ELSE Ends(r) /\ UNCHANGED <<code, judged>>
    /\ UNCHANGED <<users, inbox, drawn, invites>>

Judge(r) ==
    LET w == work[r] IN
    /\ At(r, "judge")
    /\ IF w.c = w.seen
       THEN Goes(r, CASE w.op = "signup" -> "spend" [] w.op = "delete" -> "erase" [] OTHER -> "set")
       ELSE Ends(r)
    /\ UNCHANGED <<users, codes, invites>>

\* What a person may present: a code they were mailed, or a wrong one.
Presents(p) == {0} \cup inbox[p]

-----------------------------------------------------------------------------
(* Signing up.                                                             *)

\* POST /api/signup/email.
AskCode(r, p) ==
    /\ "signup" \in Does[p]
    /\ Begins(r, [Idle EXCEPT !.pc = "store", !.op = "signup", !.p = p, !.e = p])
    /\ UNCHANGED <<users, codes, invites>>

\* POST /api/signup with a code, or with an invite (which names any address).
Signup(r, p, e, c) ==
    /\ "signup" \in Does[p] /\ c \in Presents(p)
    /\ Begins(r, [Idle EXCEPT !.pc = "taken", !.op = "signup", !.p = p, !.e = e, !.c = c])
    /\ UNCHANGED <<users, codes, invites>>

SignupInvited(r, p, e, i) ==
    /\ "invited" \in Does[p]
    /\ Begins(r, [Idle EXCEPT !.pc = "taken", !.op = "signup", !.p = p, !.e = e, !.i = i])
    /\ UNCHANGED <<users, codes, invites>>

Taken(r) ==
    /\ At(r, "taken")
    /\ IF Holder(work[r].e) = {} THEN Goes(r, "claim") ELSE Ends(r)
    /\ UNCHANGED <<users, codes, invites>>

\* The UPDATE of the invite is its claim.
ClaimInvite(r) ==
    LET i == work[r].i IN
    /\ At(r, "claim") /\ i # NoInvite
    /\ IF invite[i] = "open"
       THEN invite' = [invite EXCEPT ![i] = "used"] /\ Goes(r, "insert")
       ELSE Ends(r) /\ UNCHANGED invite
    /\ UNCHANGED <<users, codes, made>>

\* DELETE FROM email_codes.
Spend(r) ==
    /\ At(r, "spend")
    /\ code' = [code EXCEPT ![Key(work[r])] = NoRow]
    /\ Goes(r, "insert")
    /\ UNCHANGED <<users, inbox, judged, drawn, invites>>

\* What if the address were not asked for again?
FreeWhenRead(e) == TRUE
Free(e) == Holder(e) = {}

\* INSERT INTO users ... WHERE NOT EXISTS the address.
Insert(r) ==
    LET w == work[r] IN
    /\ At(r, "insert")
    /\ IF Free(w.e)
       THEN \E u \in Users :
              /\ row[u] = "none"
              /\ row' = [row EXCEPT ![u] = "live"]
              /\ email' = [email EXCEPT ![u] = w.e]
              /\ by' = [by EXCEPT ![u] = IF w.i = NoInvite THEN w.p ELSE "invite"]
              /\ made' = [i \in Invites |-> IF i = w.i THEN made[i] \cup {u} ELSE made[i]]
              /\ work' = [work EXCEPT ![r].pc = "device", ![r].u = u]
       ELSE Ends(r) /\ UNCHANGED <<row, email, by, made>>
    /\ UNCHANGED <<admin, auth, failed, window, devices, members, codes, invite>>

\* createDevice, for sign-up, sign-in and bootstrap: its own statement.
Device(r) ==
    LET w == work[r] IN
    /\ At(r, "device")
    /\ IF row[w.u] = "live" /\ devices[w.u] < Limit
       THEN /\ devices' = [devices EXCEPT ![w.u] = @ + 1]
            /\ Goes(r, "set up")
       ELSE Ends(r) /\ UNCHANGED devices
    /\ UNCHANGED <<row, admin, email, auth, failed, window, members, by, codes, invites>>

\* The answer arrives; a client of a new account then sets the passphrase
\* (unlockVault, PUT /api/vault/key), which only a vault without one takes.
SetUp(r) ==
    LET w == work[r] IN
    /\ At(r, "set up")
    /\ members' = [members EXCEPT ![w.u] = IF row[w.u] = "live" THEN @ \cup {w.p} ELSE @]
    /\ auth' = [auth EXCEPT ![w.u] = IF row[w.u] = "live" /\ @ = 0 THEN 1 ELSE @]
    /\ Ends(r)
    /\ UNCHANGED <<row, admin, email, failed, window, devices, by, codes, invites>>

-----------------------------------------------------------------------------
(* Signing in, and the owner's account.                                    *)

\* What a person types as the passphrase: theirs, or a wrong one.
Types(p, u) == {0} \cup (IF p \in members[u] THEN {auth[u]} ELSE {})

\* POST /api/signin, naming any address.
Signin(r, p, u, w) ==
    /\ "signin" \in Does[p] /\ row[u] = "live" /\ email[u] # NoOne /\ w \in Types(p, u)
    /\ Begins(r, [Idle EXCEPT !.pc = "user", !.op = "signin", !.p = p, !.e = email[u], !.w = w])
    /\ UNCHANGED <<users, codes, invites>>

\* What if a lockout were never asked about?
MaySigninAlways(u) == TRUE
MaySignin(u) == ~(window[u] /\ failed[u] >= SigninFailures)

\* The row as read is judged: the count is asked about before, and counted after.
ReadUser(r) ==
    LET w == work[r] IN
    /\ At(r, "user")
    /\ IF \E u \in Holder(w.e) : MaySignin(u)
       THEN \E u \in Holder(w.e) :
              work' = [work EXCEPT ![r].u = u,
                           ![r].pc = IF auth[u] # 0 /\ w.w = auth[u] THEN "reset" ELSE "fail"]
       ELSE Ends(r)
    /\ UNCHANGED <<users, codes, invites>>

CountFailure(r) ==
    LET u == work[r].u IN
    /\ At(r, "fail")
    /\ IF row[u] = "live"
       THEN /\ failed' = [failed EXCEPT ![u] = IF window[u] THEN @ + 1 ELSE 1]
            /\ window' = [window EXCEPT ![u] = TRUE]
       ELSE UNCHANGED <<failed, window>>
    /\ Ends(r)
    /\ UNCHANGED <<row, admin, email, auth, devices, members, by, codes, invites>>

ResetFailures(r) ==
    LET u == work[r].u IN
    /\ At(r, "reset")
    /\ failed' = [failed EXCEPT ![u] = 0]
    /\ window' = [window EXCEPT ![u] = FALSE]
    /\ Goes(r, "device")
    /\ UNCHANGED <<row, admin, email, auth, devices, members, by, codes, invites>>

\* POST /api/auth/bootstrap, for whoever has the admin secret.
Bootstrap(r, p) ==
    /\ "bootstrap" \in Does[p]
    /\ Begins(r, [Idle EXCEPT !.pc = "find", !.op = "bootstrap", !.p = p])
    /\ UNCHANGED <<users, codes, invites>>

\* adminUser, before and after the INSERT OR IGNORE.
Admins == {u \in Users : row[u] = "live" /\ admin[u]}
FindAdmin(r) ==
    /\ UNCHANGED begun /\ work[r].pc \in {"find", "find again"}
    /\ IF Admins # {}
       THEN \E u \in Admins : work' = [work EXCEPT ![r].pc = "device", ![r].u = u]
       ELSE IF work[r].pc = "find" THEN Goes(r, "make") ELSE Ends(r)
    /\ UNCHANGED <<users, codes, invites>>

\* The unique index on users.admin.
NoAdmin == Admins = {}

MakeAdmin(r) ==
    /\ At(r, "make")
    /\ IF NoAdmin
       THEN \E u \in Users :
              /\ row[u] = "none"
              /\ row' = [row EXCEPT ![u] = "live"]
              /\ admin' = [admin EXCEPT ![u] = TRUE]
       ELSE UNCHANGED <<row, admin>>
    /\ Goes(r, "find again")
    /\ UNCHANGED <<email, auth, failed, window, devices, members, by, codes, invites>>

\* A new passphrase: by the account's own (PUT /api/vault/passphrase), or by
\* the operator, which also ends a lockout (POST /api/account/passphrase-reset).
NewPassphrase(p, u, byOperator) ==
    /\ "passphrase" \in Does[p] /\ Enrolled(p, u) /\ auth[u] \in 1..(MaxPass - 1)
    /\ auth' = [auth EXCEPT ![u] = @ + 1]
    /\ failed' = IF byOperator THEN [failed EXCEPT ![u] = 0] ELSE failed
    /\ window' = IF byOperator THEN [window EXCEPT ![u] = FALSE] ELSE window
    /\ UNCHANGED <<row, admin, email, devices, members, by, codes, invites, work, begun>>

-----------------------------------------------------------------------------
(* The account's address, and its end.                                     *)

\* POST /api/account/deletion-code: the address is read first.
AskDeletionCode(r, p, u) ==
    /\ "delete" \in Does[p] /\ Enrolled(p, u)
    /\ Begins(r, [Idle EXCEPT !.pc = "address", !.op = "delete", !.p = p, !.u = u])
    /\ UNCHANGED <<users, codes, invites>>

Address(r) ==
    LET u == work[r].u IN
    /\ At(r, "address")
    /\ IF row[u] = "live" /\ email[u] # NoOne
       THEN work' = [work EXCEPT ![r].pc = "store", ![r].e = email[u]]
       ELSE Ends(r)
    /\ UNCHANGED <<users, codes, invites>>

\* POST /api/account/email/code.
AskEmailCode(r, p, u, e) ==
    /\ "address" \in Does[p] /\ Enrolled(p, u)
    /\ Begins(r, [Idle EXCEPT !.pc = "free", !.op = "change", !.p = p, !.u = u, !.e = e])
    /\ UNCHANGED <<users, codes, invites>>

FreeForAccount(r) ==
    LET w == work[r] IN
    /\ At(r, "free")
    /\ IF Holder(w.e) \subseteq {w.u} THEN Goes(r, "store") ELSE Ends(r)
    /\ UNCHANGED <<users, codes, invites>>

\* PUT /api/account/email takes a code and the passphrase, DELETE /api/account
\* either.
ChangeEmail(r, p, u, e, w, c) ==
    /\ "address" \in Does[p] /\ Enrolled(p, u) /\ w \in Types(p, u) /\ c \in Presents(p)
    /\ Begins(r, [Idle EXCEPT !.pc = "proof", !.op = "change", !.p = p, !.u = u, !.e = e,
                              !.w = w, !.c = c])
    /\ UNCHANGED <<users, codes, invites>>

Delete(r, p, u, w, c) ==
    /\ "delete" \in Does[p] /\ Enrolled(p, u) /\ w \in Types(p, u) /\ c \in Presents(p)
    /\ Begins(r, [Idle EXCEPT !.pc = IF w # 0 THEN "proof" ELSE "claim", !.op = "delete",
                              !.p = p, !.u = u, !.w = w, !.c = c])
    /\ UNCHANGED <<users, codes, invites>>

Proof(r) ==
    LET w == work[r] IN
    /\ At(r, "proof")
    /\ IF row[w.u] = "live" /\ auth[w.u] # 0 /\ w.w = auth[w.u]
       THEN Goes(r, IF w.op = "delete" THEN "erase" ELSE "claim")
       ELSE Ends(r)
    /\ UNCHANGED <<users, codes, invites>>

FreeFor(e, u) == Holder(e) \subseteq {u}

\* One batch: the address, unless another account has it by now, and the code.
SetEmail(r) ==
    LET w == work[r] IN
    /\ At(r, "set")
    /\ IF row[w.u] = "live" /\ FreeFor(w.e, w.u)
       THEN /\ email' = [email EXCEPT ![w.u] = w.e]
            /\ by' = [by EXCEPT ![w.u] = w.p]
       ELSE UNCHANGED <<email, by>>
    /\ code' = [code EXCEPT ![Key(w)] = NoRow]
    /\ Ends(r)
    /\ UNCHANGED <<row, admin, auth, failed, window, devices, members, inbox, judged, drawn,
                   invites>>

\* deleteAccount's last batch: the sign-up code of its address, and the row of
\* users with all that references it.
Erase(r) ==
    LET u == work[r].u IN
    /\ At(r, "erase")
    /\ IF row[u] = "live"
       THEN /\ row' = [row EXCEPT ![u] = "deleted"]
            /\ admin' = [admin EXCEPT ![u] = FALSE]
            /\ email' = [email EXCEPT ![u] = NoOne]
            /\ by' = [by EXCEPT ![u] = NoOne]
            /\ auth' = [auth EXCEPT ![u] = 0]
            /\ devices' = [devices EXCEPT ![u] = 0]
            /\ code' = [k \in Keys |-> IF k[2] = u \/ k = <<"signup", email[u]>>
                                       THEN NoRow ELSE code[k]]
       ELSE UNCHANGED <<row, admin, email, by, auth, devices, code>>
    /\ Ends(r)
    /\ UNCHANGED <<failed, window, members, inbox, judged, drawn, invites>>

-----------------------------------------------------------------------------
(* Time and failure.                                                       *)

\* A minute passes since a code was sent, or a quarter of an hour.
MinutePasses(k) ==
    /\ code[k].recent
    /\ code' = [code EXCEPT ![k].recent = FALSE]
    /\ UNCHANGED <<users, inbox, judged, drawn, invites, work, begun>>

CodeExpires(k) ==
    /\ code[k].live /\ ~code[k].recent
    /\ code' = [code EXCEPT ![k].live = FALSE]
    /\ UNCHANGED <<users, inbox, judged, drawn, invites, work, begun>>

\* An hour passes since the first failed sign-in.
WindowPasses(u) ==
    /\ window[u]
    /\ window' = [window EXCEPT ![u] = FALSE]
    /\ UNCHANGED <<row, admin, email, auth, failed, devices, members, by, codes, invites,
                   work, begun>>

InviteExpires(i) ==
    /\ invite[i] = "open"
    /\ invite' = [invite EXCEPT ![i] = "expired"]
    /\ UNCHANGED <<users, codes, made, work, begun>>

\* The worker stops, the database or the mail server refuses, the answer is lost.
Fail(r) ==
    /\ Failures /\ work[r] # Idle
    /\ Ends(r)
    /\ UNCHANGED <<users, codes, invites, begun>>

-----------------------------------------------------------------------------
Init ==
    /\ row = [u \in Users |-> "none"]
    /\ admin = [u \in Users |-> FALSE]
    /\ email = [u \in Users |-> NoOne]
    /\ auth = [u \in Users |-> 0]
    /\ failed = [u \in Users |-> 0]
    /\ window = [u \in Users |-> FALSE]
    /\ devices = [u \in Users |-> 0]
    /\ members = [u \in Users |-> {}]
    /\ by = [u \in Users |-> NoOne]
    /\ code = [k \in Keys |-> NoRow]
    /\ inbox = [p \in People |-> {}]
    /\ judged = [c \in Codes |-> 0]
    /\ drawn = 0
    /\ invite = [i \in Invites |-> "open"]
    /\ made = [i \in Invites |-> {}]
    /\ work = [r \in Requests |-> Idle]
    /\ begun = 0

Asks(r, p) ==
    \/ AskCode(r, p)
    \/ \E e \in People, c \in Presents(p) : Signup(r, p, e, c)
    \/ \E e \in People, i \in Invites : SignupInvited(r, p, e, i)
    \/ \E u \in Users, w \in Pass : Signin(r, p, u, w)
    \/ Bootstrap(r, p)
    \/ \E u \in Users : AskDeletionCode(r, p, u)
    \/ \E u \in Users, e \in People : AskEmailCode(r, p, u, e)
    \/ \E u \in Users, e \in People, w \in Pass, c \in Presents(p) : ChangeEmail(r, p, u, e, w, c)
    \/ \E u \in Users, w \in Pass, c \in Presents(p) : Delete(r, p, u, w, c)

Step(r) ==
    \/ Store(r) \/ Mail(r) \/ Guess(r) \/ Judge(r)
    \/ Taken(r) \/ ClaimInvite(r) \/ Spend(r) \/ Insert(r) \/ Device(r) \/ SetUp(r)
    \/ ReadUser(r) \/ CountFailure(r) \/ ResetFailures(r) \/ FindAdmin(r) \/ MakeAdmin(r)
    \/ Address(r) \/ FreeForAccount(r) \/ Proof(r) \/ SetEmail(r) \/ Erase(r)

Next ==
    \/ \E r \in Requests, p \in People : Asks(r, p)
    \/ \E r \in Requests : Step(r) \/ Fail(r)
    \/ \E p \in People, u \in Users, b \in BOOLEAN : NewPassphrase(p, u, b)
    \/ \E k \in Keys : MinutePasses(k) \/ CodeExpires(k)
    \/ \E u \in Users : WindowPasses(u)
    \/ \E i \in Invites : InviteExpires(i)

Spec == Init /\ [][Next]_vars

-----------------------------------------------------------------------------
\* Every variable has its type; only an account that is there has an address,
\* an admin mark, devices, or codes.
TypeOK ==
    /\ row \in [Users -> {"none", "live", "deleted"}]
    /\ admin \in [Users -> BOOLEAN]
    /\ email \in [Users -> People \cup {NoOne}]
    /\ auth \in [Users -> Pass]
    /\ failed \in [Users -> Nat]
    /\ window \in [Users -> BOOLEAN]
    /\ devices \in [Users -> 0..Limit]
    /\ members \in [Users -> SUBSET People]
    /\ by \in [Users -> People \cup {NoOne, "invite"}]
    /\ code \in [Keys -> Row]
    /\ inbox \in [People -> SUBSET Codes]
    /\ judged \in [Codes -> Nat]
    /\ drawn \in {0} \cup Codes
    /\ invite \in [Invites -> {"open", "used", "expired"}]
    /\ made \in [Invites -> SUBSET Users]
    /\ work \in [Requests -> Work]
    /\ begun \in 0..MaxBegun
    /\ \A u \in Users : row[u] # "live" =>
          /\ ~admin[u] /\ email[u] = NoOne /\ devices[u] = 0
          /\ code[<<"delete", u>>].code = 0 /\ code[<<"change", u>>].code = 0

\* However sign-ups, bootstraps and changes of address interleave: an address
\* is one account's, the admin secret opens one account, and an invite makes
\* one.
OneAccount ==
    /\ \A u, v \in Users : email[u] = email[v] /\ email[u] # NoOne => u = v
    /\ \A u, v \in Admins : u = v
    /\ \A i \in Invites : Cardinality(made[i]) <= 1

\* An account has an address its reader gave it with a code mailed there, or an
\* address an invited person named ("before the caller has shown they read its
\* mail"), whatever is replaced or judged in between.
AddressProved ==
    \A u \in Users : email[u] # NoOne => by[u] \in {email[u], "invite"}

\* No code is ever compared with more than CODE_ATTEMPTS guesses, however many
\* come at once ("each guess is counted before it is judged").
GuessesBounded == \A c \in Codes : judged[c] <= CodeAttempts

\* Sign-in counts after it judges: within a window an account sees at most as
\* many failures past the last that is let through as requests were under way.
Failing(u) == {r \in Requests : work[r].pc = "fail" /\ work[r].u = u}
LockoutBounded ==
    \A u \in Users : window[u] =>
        failed[u] + Cardinality(Failing(u)) < SigninFailures + Cardinality(Requests)
=============================================================================
