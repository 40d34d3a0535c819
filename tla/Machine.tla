------------------------------ MODULE Machine ------------------------------
(***************************************************************************)
(* One machine the agent is installed on: the file its credentials and     *)
(* keys are kept in (apps/agent/src/config.ts), the background service     *)
(* that runs it (service.ts) and the commands typed beside it (cli.ts).    *)
(*                                                                         *)
(* The agent and the commands are processes that share nothing but the     *)
(* file.  Each reads the whole of it once, works on its copy and saves the *)
(* whole copy, over whatever has been saved since.  A step is what happens *)
(* between two awaits; a save is one.  The other settings in the file, and *)
(* a machine that keeps a passphrase instead of keys, are left out.        *)
(***************************************************************************)
EXTENDS Naturals
CONSTANTS
    Terminals,    \* where commands are typed
    Agent,        \* the process of the service
    Commands,     \* what is typed
    Tray,         \* the device of the tray panel
    MaxDevices, MaxPairs, MaxEpoch,   \* bounds: devices enrolled, keypairs, re-keys
    MaxTyped,     \* bound: commands typed
    Failing,      \* requests that may not get through
    MaxFails      \* bound: failures and crashes

None == 0
Devices == 1..MaxDevices
Pairs == 1..MaxPairs
Epochs == 0..MaxEpoch

ASSUME ProcessAssumption == Agent \notin Terminals
ASSUME CommandAssumption ==
    Commands \subseteq {"enrol", "keys", "rekey", "receive", "logout", "delete",
                        "install", "uninstall"}
ASSUME TrayAssumption == Tray \in Devices \cup {None}
ASSUME BoundAssumption ==
    /\ MaxDevices \in Nat /\ MaxPairs \in Nat /\ MaxEpoch \in Nat
    /\ MaxTyped \in Nat /\ MaxFails \in Nat
    /\ Failing \subseteq {"register", "refresh", "revoke"}

VARIABLES
    \* the server
    status,    \* device |-> "new", "active" or "revoked"
    pub,       \* device |-> the keypair registered for it
    sealed,    \* device |-> the keypair the current vault key is sealed to for it
    epoch,     \* of the vault
    \* the machine
    file,      \* config.json
    tray,      \* tray.json: the tray panel's device
    service,   \* whether it is installed and runs, or what it stopped over
    proc,      \* process |-> where it is, what it does, its copy of the file
    made,      \* how many keypairs have been made
    left,      \* devices interrupted, or not revoked for a failure (history)
    over,      \* devices the file named when it was replaced (history)
    typed, fails

server == <<status, pub, sealed, epoch>>
machine == <<file, tray, left, over>>
counts == <<made, typed, fails>>
vars == <<server, machine, service, proc, counts>>

Config == [dev : Devices \cup {None}, keys : SUBSET Epochs, pair : Pairs \cup {None}]
NoFile == [dev |-> None, keys |-> {}, pair |-> None]
Off == [pc |-> "off", does |-> "run", conf |-> NoFile, pair |-> None]

Processes == Terminals \cup {Agent}
At(p, pc) == proc[p].pc = pc
Mine(p) == proc[p].conf.dev
Active(d) == d # None /\ status[d] = "active"
Unkept(t) == At(t, "enrolled") \/ At(t, "signed")   \* enrolled, not saved
Quiet == \A t \in Terminals : At(t, "off")

Goes(p, pc) == proc' = [proc EXCEPT ![p].pc = pc]

\* exitForGood: a service that stops for one of these reasons is not started
\* again.  A command just fails.
Ends(p, why) ==
    /\ proc' = [proc EXCEPT ![p] = Off]
    /\ service' = IF p = Agent THEN why ELSE service

\* saveConfig: whatever is there is replaced, another device's credentials too.
Saves(c) ==
    /\ file' = c
    /\ over' = over \cup ({file.dev} \ {c.dev, None})
    /\ UNCHANGED <<tray, left>>

Fails(what) == what \in Failing /\ fails < MaxFails /\ fails' = fails + 1

-----------------------------------------------------------------------------
\* Starting: the service's manager starts what exited otherwise than for good.
AgentStarts ==
    /\ service = "waits"
    /\ service' = "up"
    /\ proc' = [proc EXCEPT ![Agent] = [Off EXCEPT !.pc = "load"]]
    /\ UNCHANGED <<server, machine, counts>>

\* It may crash at any point.
AgentDies ==
    /\ service = "up" /\ fails < MaxFails
    /\ fails' = fails + 1
    /\ service' = "waits"
    /\ proc' = [proc EXCEPT ![Agent] = Off]
    /\ UNCHANGED <<server, machine, made, typed>>

Types(t, does) ==
    /\ At(t, "off") /\ does \in Commands /\ typed < MaxTyped
    /\ typed' = typed + 1

\* A command on an enrolled machine: it reads the file first.
Begins(t) ==
    /\ \E does \in {"keys", "rekey", "receive", "logout", "delete"} :
         /\ Types(t, does)
         /\ proc' = [proc EXCEPT ![t] = [Off EXCEPT !.pc = "load", !.does = does]]
    /\ UNCHANGED <<server, machine, service, made, fails>>

\* Ctrl-C, while a command waits for a person or for the server.  An enrolment
\* that has been saved is taken to go through to its restart of the service.
Interrupt(t) ==
    /\ fails < MaxFails /\ fails' = fails + 1
    /\ proc[t].pc \in {"enrolled", "signed", "register", "refresh", "ready", "revoke"}
    /\ proc[t].does = "enrol" => Unkept(t)
    /\ proc' = [proc EXCEPT ![t] = Off]
    /\ left' = IF Unkept(t) THEN left \cup {Mine(t)} ELSE left
    /\ UNCHANGED <<server, file, tray, over, service, made, typed>>

AfterLoad(does) ==
    CASE does = "receive" -> "save"
      [] does \in {"logout", "delete"} -> "revoke"
      [] OTHER -> "key"

Load(p) ==
    /\ At(p, "load") /\ (file # NoFile \/ proc[p].does = "logout")
    /\ proc' = [proc EXCEPT ![p].conf = file, ![p].pc = AfterLoad(proc[p].does)]
    /\ UNCHANGED <<server, machine, service, counts>>

\* "not enrolled -- run `clipsync link`".
NotEnrolled(p) ==
    /\ At(p, "load") /\ file = NoFile /\ proc[p].does # "logout"
    /\ Ends(p, "unenrolled")
    /\ UNCHANGED <<server, machine, counts>>

-----------------------------------------------------------------------------
\* Ids are fresh: the next.
IsNext(d) == status[d] = "new" /\ \A e \in 1..(d - 1) : status[e] # "new"

\* Enrolling.  The server has enrolled a device, and the command has its
\* credentials and the vault's key; `clipsync login`, `pair` and `link` have
\* yet to see whether the key opens.
GetsDevice(t, pc) ==
    /\ Types(t, "enrol")
    /\ \E d \in Devices :
         /\ IsNext(d)
         /\ status' = [status EXCEPT ![d] = "active"]
         /\ proc' = [proc EXCEPT ![t] =
                       [pc |-> pc, does |-> "enrol", pair |-> None,
                        conf |-> [dev |-> d, keys |-> {epoch}, pair |-> None]]]
    /\ UNCHANGED <<pub, sealed, epoch, machine, service, made, fails>>
Enrols(t) == GetsDevice(t, "enrolled")

\* `clipsync signup`, `signin` and `recover` have proved their passphrase, or
\* their recovery key, before there is a device.
SignsIn(t) == GetsDevice(t, "signed")

\* What if it were not undone?
WrongPassphraseStays(t) ==
    /\ At(t, "enrolled")
    /\ proc' = [proc EXCEPT ![t] = Off]
    /\ UNCHANGED <<server, machine, service, counts>>

\* The passphrase typed does not open the vault: undoEnrolment, best effort.
WrongPassphrase(t) ==
    /\ At(t, "enrolled")
    /\ \/ /\ status' = [status EXCEPT ![Mine(t)] = "revoked"]
          /\ UNCHANGED <<left, fails>>
       \/ /\ Fails("revoke")
          /\ left' = left \cup {Mine(t)}
          /\ UNCHANGED status
    /\ proc' = [proc EXCEPT ![t] = Off]
    /\ UNCHANGED <<pub, sealed, epoch, file, tray, over, service, made, typed>>

\* enrol saves before anything else.
Keeps(t) ==
    /\ Unkept(t)
    /\ Saves(proc[t].conf) /\ Goes(t, "key")
    /\ UNCHANGED <<server, service, counts>>

\* ... and restarts the service last, as `receive` does.
\* What if only a service that runs were restarted (`try-restart`)?
RestartedIfUp == service' = IF service = "up" THEN "waits" ELSE service
Restarted == service' = IF service = "absent" THEN "absent" ELSE "waits"
Restarts(t) ==
    /\ At(t, "restart")
    /\ Restarted
    /\ proc' = [proc EXCEPT ![t] = Off,
                            ![Agent] = IF service = "absent" THEN @ ELSE Off]
    /\ UNCHANGED <<server, machine, counts>>

-----------------------------------------------------------------------------
\* What if it were not saved?
MakeKeyUnsaved(p) ==
    /\ At(p, "key") /\ made < MaxPairs
    /\ made' = made + 1
    /\ proc' = [proc EXCEPT ![p].conf.pair = made + 1, ![p].pc = "register"]
    /\ UNCHANGED <<server, machine, service, typed, fails>>

\* ensureDeviceKey: a keypair is made and saved on first use,
MakeKey(p) ==
    /\ At(p, "key")
    /\ IF proc[p].conf.pair # None
       THEN /\ Goes(p, "register")
            /\ UNCHANGED <<machine, made>>
       ELSE /\ made < MaxPairs /\ made' = made + 1
            /\ LET c == [proc[p].conf EXCEPT !.pair = made + 1] IN
                 /\ Saves(c)
                 /\ proc' = [proc EXCEPT ![p].conf = c, ![p].pc = "register"]
    /\ UNCHANGED <<server, service, typed, fails>>

AfterRegister(p) == IF proc[p].does = "enrol" THEN "restart" ELSE "refresh"

\* What if the keypair were not kept in hand?
RegisterOnly(p) ==
    /\ At(p, "register") /\ Active(Mine(p))
    /\ pub' = [pub EXCEPT ![Mine(p)] = proc[p].conf.pair]
    /\ Goes(p, AfterRegister(p))
    /\ UNCHANGED <<status, sealed, epoch, machine, service, counts>>

\* and registered every time.
Register(p) ==
    /\ At(p, "register") /\ Active(Mine(p))
    /\ pub' = [pub EXCEPT ![Mine(p)] = proc[p].conf.pair]
    /\ proc' = [proc EXCEPT ![p].pair = proc[p].conf.pair, ![p].pc = AfterRegister(p)]
    /\ UNCHANGED <<status, sealed, epoch, machine, service, counts>>

\* It does not get through.  The agent goes on, with no keypair in hand; an
\* enrolment leaves it to the agent; another command fails.
RegisterFails(p) ==
    /\ At(p, "register") /\ Fails("register")
    /\ IF p = Agent \/ proc[p].does = "enrol"
       THEN Goes(p, AfterRegister(p))
       ELSE proc' = [proc EXCEPT ![p] = Off]
    /\ UNCHANGED <<server, machine, service, made, typed>>

\* Whoever asks as a device that is revoked is told so.
Refused(p) ==
    /\ ~Active(Mine(p))
    /\ proc[p].pc \in {"register", "refresh", "ready"}
    /\ IF proc[p].does = "enrol"
       THEN Goes(p, "restart") /\ UNCHANGED service
       ELSE Ends(p, "revoked")
    /\ UNCHANGED <<server, machine, counts>>

-----------------------------------------------------------------------------
\* refreshRing: at the agent's start and whenever it hears of a re-key, and in
\* every command that writes or hands on a key.
Behind(p) == epoch \notin proc[p].conf.keys
Asks(p) == Active(Mine(p)) /\ (At(p, "refresh") \/ (p = Agent /\ At(p, "ready") /\ Behind(p)))
\* The agent and `rekey` go on; `history`, `copy`, `send` and `get` read or
\* write clips with the ring, and are done.
Then(p) == IF proc[p].does \in {"run", "rekey"} THEN "ready" ELSE "off"
Settles(p) == proc' = [proc EXCEPT ![p] = IF Then(p) = "off" THEN Off ELSE [@ EXCEPT !.pc = "ready"]]

UpToDate(p) ==
    /\ At(p, "refresh") /\ Active(Mine(p)) /\ ~Behind(p)
    /\ Settles(p)
    /\ UNCHANGED <<server, machine, service, counts>>

Holds(p) == sealed[Mine(p)] # None /\ sealed[Mine(p)] = proc[p].pair
Refresh(p) ==
    /\ Asks(p) /\ Behind(p) /\ Holds(p)
    /\ proc' = [proc EXCEPT ![p].conf.keys = @ \cup {epoch}, ![p].pc = "save"]
    /\ UNCHANGED <<server, machine, service, counts>>

RefreshFails(p) ==
    /\ At(p, "refresh") /\ Fails("refresh")
    /\ IF p = Agent THEN Goes(p, "ready") ELSE proc' = [proc EXCEPT ![p] = Off]
    /\ UNCHANGED <<server, machine, service, made, typed>>

\* NoSealedKeyError: re-keyed without a copy it can open.
NoneSealed(p) == Behind(p) /\ ~Holds(p)
Stranded(p) ==
    /\ Asks(p) /\ NoneSealed(p)
    /\ Ends(p, "stranded")
    /\ UNCHANGED <<server, machine, counts>>

Save(p) ==
    /\ At(p, "save")
    /\ Saves(proc[p].conf)
    /\ IF proc[p].does = "receive" THEN Goes(p, "restart") ELSE Settles(p)
    /\ UNCHANGED <<server, service, counts>>

-----------------------------------------------------------------------------
\* A re-key seals the new key to the keypairs registered.
Rotates ==
    /\ epoch < MaxEpoch
    /\ epoch' = epoch + 1
    /\ sealed' = [d \in Devices |-> IF Active(d) THEN pub[d] ELSE None]
    /\ UNCHANGED <<status, pub>>

\* `clipsync rekey`, the passphrase typed; what it saves is what it read.
Rekeys(t) ==
    /\ At(t, "ready") /\ Active(Mine(t)) /\ ~Behind(t)
    /\ Rotates
    /\ proc' = [proc EXCEPT ![t].conf.keys = @ \cup {epoch'}, ![t].pc = "rotated"]
    /\ UNCHANGED <<machine, service, counts>>

\* Another device was first, or the passphrase is wrong.
RekeyFails(t) ==
    /\ At(t, "ready")
    /\ proc' = [proc EXCEPT ![t] = Off]
    /\ UNCHANGED <<server, machine, service, counts>>

SaveRekeyed(t) ==
    /\ At(t, "rotated")
    /\ Saves(proc[t].conf)
    /\ proc' = [proc EXCEPT ![t] = Off]
    /\ UNCHANGED <<server, service, counts>>

\* Another device re-keys, or revokes one of this machine's.
RekeyedElsewhere == Rotates /\ UNCHANGED <<machine, service, proc, counts>>

Revoke(ds) ==
    /\ status' = [d \in Devices |-> IF d \in ds THEN "revoked" ELSE status[d]]
    /\ sealed' = [d \in Devices |-> IF d \in ds THEN None ELSE sealed[d]]
    /\ UNCHANGED <<pub, epoch>>
RevokedElsewhere(d) ==
    /\ Active(d) /\ Revoke({d})
    /\ UNCHANGED <<machine, service, proc, counts>>

-----------------------------------------------------------------------------
\* `clipsync logout` revokes the machine's device, then the tray's.  A server
\* that cannot be reached does not keep it from forgetting them.
RevokesSelf(t, d, next) ==
    /\ Goes(t, next)
    /\ IF Active(d)
       THEN \/ Revoke({d}) /\ UNCHANGED <<left, fails>>
            \/ Fails("revoke") /\ left' = left \cup {d} /\ UNCHANGED server
       ELSE UNCHANGED <<server, left, fails>>
    /\ UNCHANGED <<file, tray, over, service, made, typed>>
LogsOut(t) == At(t, "revoke") /\ proc[t].does = "logout" /\ RevokesSelf(t, Mine(t), "tray")
LogsOutTray(t) == At(t, "tray") /\ RevokesSelf(t, tray, "clear")

\* `clipsync delete-account`: every device goes; if refused, nothing does.
Deletes(t) ==
    /\ At(t, "revoke") /\ proc[t].does = "delete"
    /\ IF Active(Mine(t))
       THEN Revoke({d \in Devices : Active(d)}) /\ Goes(t, "clear")
       ELSE proc' = [proc EXCEPT ![t] = Off] /\ UNCHANGED server
    /\ UNCHANGED <<machine, service, counts>>

\* clearConfig, whosever the file has become; the service is not touched.
Clears(t) ==
    /\ At(t, "clear")
    /\ file' = NoFile /\ tray' = None
    /\ over' = over \cup ({file.dev} \ {Mine(t), None})
    /\ proc' = [proc EXCEPT ![t] = Off]
    /\ UNCHANGED <<server, left, service, counts>>

-----------------------------------------------------------------------------
\* `clipsync install` starts the service, or starts it again; `uninstall`
\* stops it.
Installs(t) ==
    /\ Types(t, "install")
    /\ service' = "waits"
    /\ proc' = [proc EXCEPT ![Agent] = Off]
    /\ UNCHANGED <<server, machine, made, fails>>

Uninstalls(t) ==
    /\ Types(t, "uninstall")
    /\ service' = "absent"
    /\ proc' = [proc EXCEPT ![Agent] = Off]
    /\ UNCHANGED <<server, machine, made, fails>>

-----------------------------------------------------------------------------
Init ==
    /\ status = [d \in Devices |-> IF d = Tray THEN "active" ELSE "new"]
    /\ pub = [d \in Devices |-> None] /\ sealed = [d \in Devices |-> None]
    /\ epoch = 0 /\ file = NoFile /\ tray = Tray
    /\ service = "absent" /\ proc = [p \in Processes |-> Off]
    /\ made = 0 /\ left = {} /\ over = {} /\ typed = 0 /\ fails = 0

\* What a process does next once it has begun.
Step(p) ==
    \/ Load(p) \/ NotEnrolled(p) \/ MakeKey(p) \/ Register(p) \/ Refused(p)
    \/ UpToDate(p) \/ Refresh(p) \/ Stranded(p) \/ Save(p)
CommandStep(t) ==
    \/ Step(t) \/ Keeps(t) \/ WrongPassphrase(t) \/ Restarts(t)
    \/ Rekeys(t) \/ RekeyFails(t) \/ SaveRekeyed(t)
    \/ LogsOut(t) \/ LogsOutTray(t) \/ Deletes(t) \/ Clears(t)

Next ==
    \/ AgentStarts \/ AgentDies \/ Step(Agent)
    \/ \E p \in Processes : RegisterFails(p) \/ RefreshFails(p)
    \/ \E t \in Terminals :
         \/ Begins(t) \/ Enrols(t) \/ SignsIn(t) \/ Installs(t) \/ Uninstalls(t)
         \/ CommandStep(t) \/ Interrupt(t)
    \/ RekeyedElsewhere
    \/ \E d \in Devices : RevokedElsewhere(d)

\* The manager starts what it is to start; a process that has begun goes on.
Fairness ==
    /\ WF_vars(AgentStarts) /\ WF_vars(Step(Agent))
    /\ \A t \in Terminals : WF_vars(CommandStep(t))

Spec == Init /\ [][Next]_vars
FairSpec == Spec /\ Fairness

-----------------------------------------------------------------------------
\* Every variable has its type; only a service that is up has a process; and
\* a copy of the file is always some device's.
TypeOK ==
    /\ status \in [Devices -> {"new", "active", "revoked"}]
    /\ pub \in [Devices -> Pairs \cup {None}] /\ sealed \in [Devices -> Pairs \cup {None}]
    /\ epoch \in Epochs /\ file \in Config /\ tray \in {Tray, None}
    /\ service \in {"absent", "waits", "up", "unenrolled", "revoked", "stranded"}
    /\ \A p \in Processes : proc[p].conf \in Config /\ proc[p].pair \in Pairs \cup {None}
    /\ made \in 0..MaxPairs /\ left \subseteq Devices /\ over \subseteq Devices
    /\ typed \in 0..MaxTyped /\ fails \in 0..MaxFails
    /\ At(Agent, "off") <=> service # "up"

\* "So a typo does not leave a phantom device behind": every device of this
\* machine that the server takes for enrolled is one the file, the tray panel
\* or a process still is, unless the file was saved or cleared over it; or, but
\* only where something failed, it was interrupted or its revocation did not get
\* through.  (Enrolling a machine again does leave the device it was.)
NoPhantom ==
    /\ \A d \in Devices : Active(d) =>
         d \in left \cup over \cup {file.dev, tray} \cup {Mine(p) : p \in Processes}
    /\ left # {} => fails > 0

\* What a re-key is sealed to, this agent can open, and after its next start, too:
\* with no command under way, the keypair registered, the one the agent works
\* with and the one in the file are the same, unless the agent works with none,
\* because its registering at this start did not get through.
Unregistered(p) == proc[p].pair = None /\ fails > 0
KeypairsAgree ==
    Quiet /\ At(Agent, "ready") /\ Active(file.dev) /\ Mine(Agent) = file.dev
    => \/ pub[file.dev] = file.pair /\ proc[Agent].pair = file.pair
       \/ Unregistered(Agent)

\* With no command under way, the agent stops for good over a re-key only if
\* there is no copy sealed to the keypair of its file, or if it works with none,
\* because its registering did not get through.
StopsForReason ==
    [][service # "stranded" /\ service' = "stranded" /\ Quiet /\ file.dev = Mine(Agent)
       => \/ sealed[file.dev] = None \/ sealed[file.dev] # file.pair
          \/ Unregistered(Agent)]_vars

\* "78  stop for good: revoked, re-keyed out, or not enrolled": when it stops over
\* a re-key, there is no copy sealed to the keypair of its file.
StopsOnlyRekeyedOut ==
    [][service # "stranded" /\ service' = "stranded" /\ Quiet /\ file.dev = Mine(Agent)
       => sealed[file.dev] = None \/ sealed[file.dev] # file.pair]_vars

\* "After enrolling: restart an installed service so it runs with the new
\* credentials": when an enrolment is at its restart, those are in the file.
RestartsAsEnrolled ==
    \A t \in Terminals : At(t, "restart") /\ proc[t].does = "enrol" => file.dev = Mine(t)

\* The same of the service: one that is installed and has not been left out of a
\* re-key comes to run as the device the file names, while that is enrolled.
Serves(d) == At(Agent, "ready") /\ Mine(Agent) = d
MayServe(d) ==
    Quiet /\ file.dev = d /\ Active(d) /\ service \notin {"absent", "stranded"}
ServiceServes == \A d \in Devices : MayServe(d) ~> Serves(d) \/ ~MayServe(d)
=============================================================================
