------------------------------- MODULE Update -------------------------------
(***************************************************************************)
(* How the agent's executable is replaced: by the service, which looks for *)
(* a newer release, by `clipsync update`, and by `clipsync install`        *)
(* (apps/agent/src/update.ts, self.ts, service.ts, cli.ts).                *)
(*                                                                         *)
(* A process looks which release is the newest and downloads it, awaiting  *)
(* both; the rest it does without giving way: it writes the file beside    *)
(* the executable, `.new`, runs it, and renames it into place.  Two        *)
(* processes at this would share that one name; `Alone` takes them to be   *)
(* at it one after the other, which the code does not see to.  A file is   *)
(* the release it holds, or Partial.                                       *)
(***************************************************************************)
EXTENDS Naturals, FiniteSets
CONSTANTS
    Agent, Terminals,   \* the process of the service; where commands are typed
    MaxRelease,         \* bound: releases published
    Runnable,           \* those that run on this machine
    MaxTyped, MaxFails  \* bounds: commands typed; failures and crashes

Releases == 1..MaxRelease
Partial == 0
NoFile == MaxRelease + 1
Files == Releases \cup {Partial, NoFile}
Processes == Terminals \cup {Agent}

ASSUME ProcessAssumption == Agent \notin Terminals
ASSUME ReleaseAssumption == MaxRelease \in Nat /\ 1 \in Runnable /\ Runnable \subseteq Releases
ASSUME BoundAssumption == MaxTyped \in Nat /\ MaxFails \in Nat

VARIABLES
    windows,   \* whether a running program may be renamed, not replaced
    newest,    \* the newest release published
    place,     \* the executable
    fresh,     \* the file beside it
    proc,      \* process |-> where it is, the release it is, the one it installs
    up,        \* whether the service runs
    watching,  \* ... and has begun to watch its file and look for releases
    rebuilt,   \* the file has changed since
    wontRun,   \* releases it found not to run here
    typed, fails

files == <<place, fresh>>
service == <<up, watching, rebuilt, wontRun>>
counts == <<typed, fails>>
vars == <<windows, newest, files, proc, service, counts>>

Off == [pc |-> "off", does |-> "update", rel |-> Partial, tag |-> Partial]
At(p, pc) == proc[p].pc = pc
Goes(p, pc) == proc' = [proc EXCEPT ![p].pc = pc]
Tag(p) == proc[p].tag

\* Back to what it was doing, or done.
Done(p) == [proc EXCEPT ![p] = IF p = Agent THEN [@ EXCEPT !.pc = "idle"] ELSE Off]

Alone(p) == \A q \in Processes \ {p} : proc[q].pc \notin {"written", "tried", "gap"}

-----------------------------------------------------------------------------
\* The manager starts what is in place, whatever it exited with; what cannot
\* be started it tries again.
Starts ==
    /\ ~up /\ place \in Runnable
    /\ up' = TRUE /\ watching' = FALSE /\ rebuilt' = FALSE /\ wontRun' = {}
    /\ proc' = [proc EXCEPT ![Agent] = [Off EXCEPT !.pc = "idle", !.rel = place]]
    /\ UNCHANGED <<windows, newest, files, counts>>

\* Once the daemon has started: restartOnRebuild and scheduleUpdates.
Watches ==
    /\ up /\ ~watching
    /\ watching' = TRUE
    /\ UNCHANGED <<windows, newest, files, proc, up, rebuilt, wontRun, counts>>

Exits == up' = FALSE /\ UNCHANGED <<watching, rebuilt, wontRun>>

\* "New build on disk -- restarting to pick it up", between two awaits.
Waits(p) == proc[p].pc \in {"off", "idle", "download"}
Hands ==
    /\ up /\ watching /\ rebuilt /\ place # NoFile /\ Waits(Agent)
    /\ Exits
    /\ proc' = [proc EXCEPT ![Agent] = Off]
    /\ UNCHANGED <<windows, newest, files, counts>>

-----------------------------------------------------------------------------
\* `clipsync update` is the executable in place.
TypesUpdate(t) ==
    /\ At(t, "off") /\ place \in Runnable /\ typed < MaxTyped
    /\ typed' = typed + 1
    /\ proc' = [proc EXCEPT ![t] = [Off EXCEPT !.pc = "idle", !.rel = place]]
    /\ UNCHANGED <<windows, newest, files, service, fails>>

Newer(p) == newest > proc[p].rel
Skips(p) == p = Agent /\ newest \in wontRun

\* updateTo: the newest release, if it is newer and not known not to run here.
Looks(p) ==
    /\ At(p, "idle") /\ (p = Agent => watching)
    /\ Newer(p) /\ ~Skips(p)
    /\ proc' = [proc EXCEPT ![p].pc = "download", ![p].tag = newest]
    /\ UNCHANGED <<windows, newest, files, service, counts>>
UpToDate(t) ==
    /\ At(t, "idle") /\ ~Newer(t)
    /\ proc' = Done(t)
    /\ UNCHANGED <<windows, newest, files, service, counts>>

\* What if it were not asked again?
DownloadFailsForGood(p) ==
    /\ At(p, "download") /\ fails < MaxFails
    /\ fails' = fails + 1
    /\ wontRun' = IF p = Agent THEN wontRun \cup {Tag(p)} ELSE wontRun
    /\ proc' = Done(p)
    /\ UNCHANGED <<windows, newest, files, up, watching, rebuilt, typed>>

\* No network, no such asset, or not the checksum listed: asked again later.
DownloadFails(p) ==
    /\ At(p, "download") /\ fails < MaxFails
    /\ fails' = fails + 1
    /\ proc' = Done(p)
    /\ UNCHANGED <<windows, newest, files, service, typed>>

\* The archive matches: it is unpacked over whatever `.new` holds.
Unpacks(p) ==
    /\ At(p, "download") /\ Alone(p)
    /\ fresh' = Partial /\ Goes(p, "written")
    /\ UNCHANGED <<windows, newest, place, service, counts>>

\* What if it were not run first?
TriesNothing(p) ==
    /\ At(p, "written") /\ proc[p].does = "update"
    /\ fresh' = Tag(p) /\ Goes(p, "tried")
    /\ UNCHANGED <<windows, newest, place, service, counts>>

\* It must run, and be the release it was fetched as.
Tries(p) ==
    /\ At(p, "written") /\ proc[p].does = "update" /\ Tag(p) \in Runnable
    /\ fresh' = Tag(p) /\ Goes(p, "tried")
    /\ UNCHANGED <<windows, newest, place, service, counts>>
WontRun(p) ==
    /\ At(p, "written") /\ proc[p].does = "update" /\ Tag(p) \notin Runnable
    /\ fresh' = NoFile
    /\ wontRun' = IF p = Agent THEN wontRun \cup {Tag(p)} ELSE wontRun
    /\ proc' = Done(p)
    /\ UNCHANGED <<windows, newest, place, up, watching, rebuilt, counts>>

-----------------------------------------------------------------------------
\* replaceExecutable.  Whoever watches sees the file change.
InPlace(p) ==
    /\ place' = fresh /\ fresh' = NoFile
    /\ rebuilt' = (rebuilt \/ watching)
    /\ UNCHANGED <<watching, wontRun>>
    /\ IF p = Agent
       THEN up' = FALSE /\ proc' = [proc EXCEPT ![p] = Off]
       ELSE /\ UNCHANGED up
            /\ IF proc[p].does = "install" THEN Goes(p, "restart") ELSE proc' = Done(p)

Replaces(p) ==
    /\ At(p, "tried") /\ (windows => place = NoFile)
    /\ InPlace(p)
    /\ UNCHANGED <<windows, newest, counts>>

\* Windows: what runs is renamed aside first.
MovesAside(p) ==
    /\ At(p, "tried") /\ windows /\ place # NoFile
    /\ place' = NoFile /\ Goes(p, "gap")
    /\ UNCHANGED <<windows, newest, fresh, service, counts>>
MovesIn(p) ==
    /\ At(p, "gap")
    /\ InPlace(p)
    /\ UNCHANGED <<windows, newest, counts>>

-----------------------------------------------------------------------------
\* `clipsync install`, run from a release the user downloaded: it copies itself
\* into place untried,
TypesInstall(t) ==
    /\ At(t, "off") /\ typed < MaxTyped /\ Alone(t)
    /\ typed' = typed + 1
    /\ \E r \in Runnable :
         /\ r <= newest
         /\ proc' = [proc EXCEPT ![t] = [pc |-> "written", does |-> "install",
                                         rel |-> r, tag |-> r]]
    /\ fresh' = Partial
    /\ UNCHANGED <<windows, newest, place, service, fails>>
Copies(t) ==
    /\ At(t, "written") /\ proc[t].does = "install"
    /\ fresh' = Tag(t) /\ Goes(t, "tried")
    /\ UNCHANGED <<windows, newest, place, service, counts>>

\* and restarts the service, once the agent gives way.
Restarts(t) ==
    /\ At(t, "restart") /\ Waits(Agent)
    /\ Exits
    /\ proc' = [proc EXCEPT ![t] = Off, ![Agent] = Off]
    /\ UNCHANGED <<windows, newest, files, counts>>

\* A process is killed, anywhere.
Dies(p) ==
    /\ ~At(p, "off") /\ fails < MaxFails
    /\ fails' = fails + 1
    /\ proc' = [proc EXCEPT ![p] = Off]
    /\ IF p = Agent THEN Exits ELSE UNCHANGED service
    /\ UNCHANGED <<windows, newest, files, typed>>

Publishes ==
    /\ newest < MaxRelease
    /\ newest' = newest + 1
    /\ UNCHANGED <<windows, files, proc, service, counts>>

-----------------------------------------------------------------------------
Init ==
    /\ windows \in BOOLEAN
    /\ newest = 1 /\ place = 1 /\ fresh = NoFile
    /\ proc = [p \in Processes |-> Off]
    /\ up = FALSE /\ watching = FALSE /\ rebuilt = FALSE /\ wontRun = {}
    /\ typed = 0 /\ fails = 0

Step(p) ==
    \/ Unpacks(p) \/ Tries(p) \/ WontRun(p)
    \/ Replaces(p) \/ MovesAside(p) \/ MovesIn(p)
CommandStep(t) == Looks(t) \/ UpToDate(t) \/ Step(t) \/ Copies(t) \/ Restarts(t)

Next ==
    \/ Starts \/ Watches \/ Hands \/ Publishes
    \/ Looks(Agent) \/ Step(Agent)
    \/ \E t \in Terminals : TypesUpdate(t) \/ TypesInstall(t) \/ CommandStep(t)
    \/ \E p \in Processes : DownloadFails(p) \/ Dies(p)

\* What has exited is started, timers go off, and what has begun goes on.
Fairness ==
    /\ WF_vars(Starts) /\ WF_vars(Watches) /\ WF_vars(Hands)
    /\ WF_vars(Looks(Agent)) /\ WF_vars(Step(Agent))
    /\ \A t \in Terminals : WF_vars(CommandStep(t))

Spec == Init /\ [][Next]_vars
FairSpec == Spec /\ Fairness

-----------------------------------------------------------------------------
\* Every variable has its type, and a service that is down does nothing.
TypeOK ==
    /\ windows \in BOOLEAN /\ newest \in Releases
    /\ place \in Files /\ fresh \in Files
    /\ proc \in [Processes ->
                   [pc : {"off", "idle", "download", "written", "tried", "gap", "restart"},
                    does : {"update", "install"},
                    rel : Releases \cup {Partial}, tag : Releases \cup {Partial}]]
    /\ {up, watching, rebuilt} \subseteq BOOLEAN /\ wontRun \subseteq Releases
    /\ typed \in 0..MaxTyped /\ fails \in 0..MaxFails
    /\ At(Agent, "off") <=> ~up

\* "A download must match the release's SHA256SUMS, run, and report the version
\* it was fetched as before it replaces anything": whatever is killed, and
\* whatever `.new` was left, what is in place runs here; on Windows whoever is
\* between the two renames, or was killed there, leaves nothing in place.
PlaceRuns == place \in Runnable \/ (windows /\ place = NoFile)

\* "Keep a supervised release build up to date": once no more is published, the
\* service comes to run the newest release for good, if that runs here, though
\* its file may be replaced before it watches it, and by an older one; unless
\* Windows is left with nothing in place.
NewestRuns == <>[](newest \in Runnable /\ place # NoFile => up /\ proc[Agent].rel = newest)
=============================================================================
