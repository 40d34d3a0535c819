--------------------------- MODULE MachineProofs ---------------------------
(***************************************************************************)
(* Proofs about Machine, for any devices, keypairs, re-keys and failures:  *)
(* at however many terminals commands are typed, a device left enrolled    *)
(* that is nobody's is one the file was replaced over, or, where something *)
(* failed, one interrupted or not revoked; and, one command at a time, the *)
(* keypair the agent works with, if it works with one, is the one          *)
(* registered and the one in the file.                                     *)
(*                                                                         *)
(* The first rests on what a save and a clear leave behind (Known); the    *)
(* second on the copies of the file: outside of an enrolment, any two of   *)
(* one device have the same keypair, and a process that has registered its *)
(* copy's is not overtaken by one that registers another (Agreed).         *)
(***************************************************************************)
EXTENDS Machine, TLAPS

-----------------------------------------------------------------------------
(* The parts of the invariant.                                             *)

Deeds == {"run", "enrol", "keys", "rekey", "receive", "logout", "delete"}
Owned == {"enrolled", "signed", "key", "register", "refresh", "ready", "save", "rotated"}
Leaving == {"revoke", "tray", "clear"}
Unpaired == {"load", "enrolled", "signed", "key", "register"}
Pcs == {"off", "load", "restart"} \cup Owned \cup Leaving
Procs == [pc : Pcs, does : Deeds, conf : Config, pair : Pairs \cup {None}]

\* A process: what it does goes with where it is, and it has a device by the
\* time it makes a keypair or saves.
Fits(p, w) ==
    /\ w \in Procs
    /\ w.pc = "off" => w = Off
    /\ w.pc \in Owned => w.conf.dev # None
    /\ w.pc \in Leaving => w.does \in {"logout", "delete"}
    /\ w.pc = "tray" => w.does = "logout"
    /\ w.pc = "restart" => w.does \in {"enrol", "receive"}
    /\ w.pc \in {"enrolled", "signed"} => w.does = "enrol" /\ w.conf.pair = None
    /\ w.pc \in Unpaired => w.pair = None
    /\ w.does = "enrol" /\ w.pc = "key" => w.conf.pair = None
    /\ w.does = "enrol" => w.pc \in {"enrolled", "signed", "key", "register", "restart"}
    /\ w.does = "receive" => w.pc \in {"load", "save", "restart"}
    /\ w.pc \in {"register", "refresh", "ready", "rotated"} => w.conf.pair # None
    /\ w.pc = "save" /\ w.does # "receive" => w.conf.pair # None
    /\ p = Agent => w.does = "run" /\ w.pc \notin {"restart", "rotated"}
    /\ p # Agent /\ w.pc # "off" => w.does # "run"
ProcsOK ==
    /\ proc \in [Processes -> Procs]
    /\ \A p \in Processes : Fits(p, proc[p])
    /\ At(Agent, "off") <=> service # "up"

ServerOK ==
    /\ status \in [Devices -> {"new", "active", "revoked"}]
    /\ pub \in [Devices -> Pairs \cup {None}] /\ sealed \in [Devices -> Pairs \cup {None}]
    /\ epoch \in Epochs

MachineOK ==
    /\ file \in Config /\ tray \in {Tray, None}
    /\ left \subseteq Devices /\ over \subseteq Devices /\ (left # {} => fails > 0)
    /\ service \in {"absent", "waits", "up", "unenrolled", "revoked", "stranded"}
    /\ made \in 0..MaxPairs /\ typed \in 0..MaxTyped /\ fails \in 0..MaxFails
    /\ file.dev = None => file = NoFile

\* The devices the machine goes by were enrolled, and one that is enrolled is in
\* the file or the tray's, was left, or is in a command that has yet to save it.
Left == left \cup over
Enrolled(d) == d # None => status[d] # "new"
Excused(d) == Active(d) => d \in Left
Known ==
    /\ Enrolled(file.dev) /\ Enrolled(tray)
    /\ \A p \in Processes : Enrolled(Mine(p))
    /\ \A d \in Devices : Active(d) =>
          \/ d \in Left \cup {file.dev, tray}
          \/ \E t \in Terminals : Unkept(t) /\ Mine(t) = d
    /\ \A t \in Terminals :
          /\ proc[t].pc \in {"tray", "clear"} => Excused(Mine(t))
          /\ At(t, "clear") => Excused(tray)

\* One command at a time.
OneTerminal == \A s, t \in Terminals : s = t

\* An enrolment that has been saved and has yet to restart the service.
Enrols1(t) == proc[t].does = "enrol" /\ proc[t].pc \in {"key", "register", "restart"}
Enrolling == \E t \in Terminals : Enrols1(t)

Holder(p) == Mine(p) # None /\ proc[p].pc \notin {"enrolled", "signed"}
Registered(p) ==
    /\ proc[p].pair # None
    /\ \/ proc[p].pc \in {"refresh", "ready", "rotated"}
       \/ At(p, "save") /\ proc[p].does # "receive"
Agreed ==
    /\ file.dev # None /\ file.pair = None =>
          \E t \in Terminals : proc[t].does = "enrol" /\ At(t, "key")
    /\ ~Enrolling =>
          /\ \A p \in Processes : Holder(p) =>
                /\ proc[p].conf.pair # None
                /\ Mine(p) = file.dev => proc[p].conf.pair = file.pair
          /\ \A p, q \in Processes : Holder(p) /\ Holder(q) /\ Mine(p) = Mine(q)
                => proc[p].conf.pair = proc[q].conf.pair
          /\ \A p \in Processes : Registered(p) =>
                pub[Mine(p)] = proc[p].conf.pair /\ proc[p].pair = proc[p].conf.pair

IInv == ProcsOK /\ ServerOK /\ MachineOK /\ Known /\ (OneTerminal => Agreed)

-----------------------------------------------------------------------------
(* Processes and what a step of one stands by.                             *)

LEMMA Counts == /\ None \notin Devices /\ Devices \subseteq Nat
                /\ None \notin Pairs /\ 0 \in Epochs /\ Pairs \subseteq Nat
BY BoundAssumption DEF None, Devices, Pairs, Epochs

LEMMA AgentApart == Agent \in Processes /\ \A t \in Terminals : t \in Processes /\ t # Agent
BY ProcessAssumption DEF Processes

LEMMA NoFileIs == /\ NoFile \in Config /\ NoFile.dev = None /\ NoFile.pair = None
                  /\ NoFile.keys = {}
BY DEF NoFile, Config

LEMMA OffIs == /\ Off \in Procs /\ Off.pc = "off" /\ Off.does = "run" /\ Off.conf = NoFile
               /\ Off.pair = None /\ \A p : Fits(p, Off)
<1>1. Off \in Procs  BY NoFileIs DEF Off, Procs, Pcs, Deeds
<1>2. Off.pc = "off" /\ Off.does = "run" /\ Off.conf = NoFile /\ Off.pair = None  BY DEF Off
<1> QED BY <1>1, <1>2, NoFileIs DEF Fits, Owned, Leaving, Unpaired

\* One process moves; the agent may be stopped beside it.
Turns(p, x) ==
    /\ proc' \in [Processes -> Procs]
    /\ proc'[p] = x
    /\ \A q \in Processes \ {p} : proc'[q] = proc[q] \/ (q = Agent /\ proc'[q] = Off)

LEMMA TurnsOne ==
    ASSUME ProcsOK, NEW p \in Processes, NEW x \in Procs, proc' = [proc EXCEPT ![p] = x]
    PROVE  Turns(p, x)
BY DEF ProcsOK, Turns

\* ... to a place of the same process.
LEMMA Moved ==
    ASSUME NEW w \in Procs, NEW pc \in Pcs, NEW x, x = [w EXCEPT !.pc = pc]
    PROVE  x \in Procs /\ x.pc = pc /\ x.does = w.does /\ x.conf = w.conf /\ x.pair = w.pair
BY DEF Procs

LEMMA Going ==
    ASSUME ProcsOK, NEW p \in Processes, NEW pc \in Pcs, Goes(p, pc)
    PROVE  \E x \in Procs : /\ Turns(p, x) /\ x.pc = pc /\ x.does = proc[p].does
                            /\ x.conf = proc[p].conf /\ x.pair = proc[p].pair
                            /\ proc' = [proc EXCEPT ![p] = x]
<1> PICK x : x = [proc[p] EXCEPT !.pc = pc]  OBVIOUS
<1>1. proc[p] \in Procs  BY DEF ProcsOK
<1>2. x \in Procs /\ x.pc = pc /\ x.does = proc[p].does /\ x.conf = proc[p].conf /\ x.pair = proc[p].pair
  BY <1>1, Moved
<1>3. proc' = [proc EXCEPT ![p] = x]  BY DEF Goes, ProcsOK
<1> QED BY <1>2, <1>3, TurnsOne

LEMMA Stopping ==
    ASSUME ProcsOK, NEW p \in Processes, proc' = [proc EXCEPT ![p] = Off]
    PROVE  Turns(p, Off)
BY OffIs, TurnsOne

LEMMA ProcsStand ==
    ASSUME ProcsOK, NEW p \in Processes, NEW x, Turns(p, x), Fits(p, x),
           (proc'[Agent].pc = "off") <=> (service' # "up")
    PROVE  ProcsOK'
<1>1. \A q \in Processes : Fits(q, proc'[q])
  BY OffIs DEF ProcsOK, Turns
<1>2. \A q \in Processes : Fits(q, proc[q])'  BY <1>1 DEF Fits
<1> QED BY <1>2 DEF ProcsOK, Turns, At

\* Nothing is enrolled, and what is saved over was, if it still is, left.
Remembers(p, x) ==
    /\ \A d \in Devices : (Active(d)' => Active(d)) /\ (status[d] # "new" => status'[d] # "new")
    /\ Left \subseteq Left' /\ tray' = tray
    /\ file.dev \in Left' \cup {file'.dev, None}
    /\ file'.dev \in {None, file.dev, Mine(p)} /\ x.conf.dev \in {None, file.dev, Mine(p)}
    /\ Unkept(p) => \/ x.pc \in {"enrolled", "signed"} /\ x.conf.dev = Mine(p)
                    \/ Mine(p) \in Left' \cup {file'.dev}
                    \/ status'[Mine(p)] # "active"
    /\ x.pc \in {"tray", "clear"} => (Active(x.conf.dev)' => x.conf.dev \in Left')
    /\ x.pc = "clear" => (Active(tray)' => tray \in Left')

LEMMA KnownStands ==
    ASSUME IInv, NEW p \in Processes, NEW x, Turns(p, x), Remembers(p, x)
    PROVE  Known'
<1>0. /\ file \in Config /\ tray \in Devices \cup {None}
      /\ \A q \in Processes : Mine(q) \in Devices \cup {None} /\ proc[q].pc \in Pcs
  BY TrayAssumption DEF IInv, MachineOK, ProcsOK, Procs, Mine, Config
<1>1. \A q \in Processes \ {p} : proc'[q] = proc[q] \/ (q = Agent /\ proc'[q] = Off)
  BY DEF Turns
<1>2. \A d \in Devices \cup {None} : Enrolled(d) => Enrolled(d)'  BY DEF Remembers, Enrolled
<1>3. Enrolled(file.dev) /\ Enrolled(tray) /\ \A q \in Processes : Enrolled(Mine(q))
  BY DEF IInv, Known
<1>4. Enrolled(None)'  BY DEF Enrolled
<1>5. file.dev \in Devices \cup {None}  BY <1>0 DEF Config
<1>6. Enrolled(file.dev)' /\ Enrolled(tray)'
  <2>1. Enrolled(file.dev)'
    <3> PICK f : f = file'  OBVIOUS
    <3>1. f.dev \in {None, file.dev, Mine(p)}  BY DEF Remembers
    <3>2. Enrolled(f.dev)'  BY <1>0, <1>2, <1>3, <1>4, <1>5, <3>1
    <3> QED BY <3>2 DEF Enrolled
  <2>2. Enrolled(tray)'  BY <1>0, <1>2, <1>3 DEF Remembers, Enrolled
  <2> QED BY <2>1, <2>2 DEF Enrolled
<1>7. ASSUME NEW q \in Processes PROVE Enrolled(Mine(q))'
  <2>1. CASE q = p
    <3>1. Enrolled(x.conf.dev)'  BY <1>0, <1>2, <1>3, <1>4, <1>5 DEF Remembers
    <3> QED BY <2>1, <3>1 DEF Enrolled, Mine, Turns
  <2>2. CASE q # p /\ proc'[q] = proc[q]
    <3>1. Mine(q)' = Mine(q)  BY <2>2 DEF Mine
    <3>2. status'[Mine(q)] # "new" \/ Mine(q) = None  BY <1>0, <1>2, <1>3 DEF Enrolled
    <3> QED BY <3>1, <3>2 DEF Enrolled
  <2>3. CASE q # p /\ proc'[q] = Off
    BY <2>3, OffIs, NoFileIs DEF Enrolled, Mine
  <2> QED BY <1>1, <2>1, <2>2, <2>3
<1>8. ASSUME NEW d \in Devices, Active(d)'
      PROVE  d \in Left' \cup {file'.dev, tray'} \/ \E t \in Terminals : Unkept(t)' /\ Mine(t)' = d
  <2>1. Active(d)  BY <1>8 DEF Remembers
  <2>2. CASE d \in Left \cup {file.dev, tray}
    BY <1>8, <2>2, Counts DEF Remembers
  <2>3. CASE \E t \in Terminals : Unkept(t) /\ Mine(t) = d
    <3> PICK t \in Terminals : Unkept(t) /\ Mine(t) = d  BY <2>3
    <3>1. CASE t # p
      BY <1>1, <3>1, AgentApart DEF Unkept, At, Mine
    <3>2. CASE t = p
      BY <1>8, <3>2 DEF Remembers, Turns, Unkept, At, Mine, Active
    <3> QED BY <3>1, <3>2
  <2> QED BY <2>1, <2>2, <2>3 DEF IInv, Known
<1>9. ASSUME NEW t \in Terminals
      PROVE  /\ proc'[t].pc \in {"tray", "clear"} => Excused(Mine(t))'
             /\ proc'[t].pc = "clear" => Excused(tray)'
  <2>1. CASE t = p  BY <2>1 DEF Remembers, Turns, Excused, Mine
  <2>2. CASE t # p
    <3>1. proc'[t] = proc[t] /\ Mine(t)' = Mine(t)  BY <1>1, <2>2, AgentApart DEF Mine
    <3>2. \A d \in Devices \cup {None} : Excused(d) => Excused(d)'
      BY DEF Excused, Remembers, Active
    <3>3. tray' = tray  BY DEF Remembers
    <3>4. proc[t].pc \in {"tray", "clear"} => Excused(Mine(t))  BY DEF IInv, Known
    <3>5. proc[t].pc = "clear" => Excused(tray)  BY DEF IInv, Known, At
    <3>6. Excused(Mine(t)) => Excused(Mine(t))'
      BY <1>0, <3>1, <3>2, AgentApart DEF Excused
    <3>7. Excused(tray) => Excused(tray)'  BY <1>0, <3>2, <3>3 DEF Excused
    <3> QED BY <3>1, <3>4, <3>5, <3>6, <3>7
  <2> QED BY <2>1, <2>2
<1>10. Known' <=>
         /\ Enrolled(file.dev)' /\ Enrolled(tray)'
         /\ \A q \in Processes : Enrolled(Mine(q))'
         /\ \A d \in Devices : Active(d)' =>
               \/ d \in Left' \cup {file'.dev, tray'}
               \/ \E t \in Terminals : Unkept(t)' /\ Mine(t)' = d
         /\ \A t \in Terminals :
               /\ proc'[t].pc \in {"tray", "clear"} => Excused(Mine(t))'
               /\ proc'[t].pc = "clear" => Excused(tray)'
  BY DEF Known, At
<1> QED BY <1>6, <1>7, <1>8, <1>9, <1>10

\* No enrolment ends, nothing is registered, and a copy comes from the file or
\* goes to it.
EnrolsIn(x) == x.does = "enrol" /\ x.pc \in {"key", "register", "restart"}
HoldsIn(x) == x.conf.dev # None /\ x.pc \notin {"enrolled", "signed"}
RegisteredIn(x) ==
    /\ x.pair # None
    /\ \/ x.pc \in {"refresh", "ready", "rotated"}
       \/ x.pc = "save" /\ x.does # "receive"
AtKey(x) == x.does = "enrol" /\ x.pc = "key"
CopyIs(x, c) == x.conf.dev = c.dev /\ x.conf.pair = c.pair
Agrees(p, x) ==
    /\ pub' = pub
    /\ EnrolsIn(proc[p]) => EnrolsIn(x)
    /\ HoldsIn(x) => (HoldsIn(proc[p]) /\ CopyIs(x, proc[p].conf)) \/ CopyIs(x, file)
    /\ RegisteredIn(x) => RegisteredIn(proc[p]) /\ CopyIs(x, proc[p].conf) /\ x.pair = proc[p].pair
    /\ \/ /\ file'.dev = file.dev /\ file'.pair = file.pair
          /\ AtKey(x) \/ ~AtKey(proc[p]) \/ file.pair # None
       \/ file'.dev = None
       \/ HoldsIn(proc[p]) /\ CopyIs(proc[p], file') /\ file'.pair # None

\* Agreed, in those terms.
KeyToCome == \E t \in Terminals : AtKey(proc[t])
CopiesAgree ==
    /\ \A q \in Processes : HoldsIn(proc[q]) =>
          /\ proc[q].conf.pair # None
          /\ proc[q].conf.dev = file.dev => proc[q].conf.pair = file.pair
    /\ \A q, r \in Processes : HoldsIn(proc[q]) /\ HoldsIn(proc[r])
                               /\ proc[q].conf.dev = proc[r].conf.dev
          => proc[q].conf.pair = proc[r].conf.pair
    /\ \A q \in Processes : RegisteredIn(proc[q]) =>
          pub[proc[q].conf.dev] = proc[q].conf.pair /\ proc[q].pair = proc[q].conf.pair
NoneEnrols == \A t \in Terminals : ~EnrolsIn(proc[t])

LEMMA AgreedIs ==
    Agreed <=> /\ file.dev # None /\ file.pair = None => KeyToCome
               /\ NoneEnrols => CopiesAgree
BY DEF Agreed, KeyToCome, CopiesAgree, NoneEnrols, EnrolsIn, HoldsIn, RegisteredIn, AtKey,
       Enrolling, Enrols1, Holder, Registered, Mine, At

LEMMA AgreedStands ==
    ASSUME IInv, Agreed, NEW p \in Processes, NEW x, Turns(p, x), Agrees(p, x)
    PROVE  Agreed'
<1>1. /\ file.dev # None /\ file.pair = None => KeyToCome
      /\ NoneEnrols => CopiesAgree
  BY AgreedIs
<1>2. /\ proc'[p] = x
      /\ \A q \in Processes \ {p} : proc'[q] = proc[q] \/ (q = Agent /\ proc'[q] = Off)
  BY DEF Turns
<1>3. file'.dev # None /\ file'.pair = None => KeyToCome'
  <2> SUFFICES ASSUME file'.dev # None, file'.pair = None PROVE KeyToCome'  OBVIOUS
  <2>1. /\ file'.dev = file.dev /\ file'.pair = file.pair
        /\ AtKey(x) \/ ~AtKey(proc[p]) \/ file.pair # None
    BY DEF Agrees
  <2>2. PICK t \in Terminals : AtKey(proc[t])  BY <1>1, <2>1 DEF KeyToCome
  <2>3. AtKey(proc'[t])  BY <1>2, <2>1, <2>2, AgentApart
  <2> QED BY <2>3 DEF KeyToCome, AtKey
<1>4. ASSUME NoneEnrols' PROVE CopiesAgree'
  <2>1. NoneEnrols
    <3> SUFFICES ASSUME NEW t \in Terminals, EnrolsIn(proc[t]) PROVE FALSE  BY DEF NoneEnrols
    <3>1. EnrolsIn(proc'[t])  BY <1>2, AgentApart DEF Agrees
    <3> QED BY <1>4, <3>1 DEF NoneEnrols, EnrolsIn
  <2>2. CopiesAgree  BY <1>1, <2>1
  <2>3. ~KeyToCome  BY <2>1 DEF KeyToCome, NoneEnrols, EnrolsIn, AtKey
  <2>4. file.dev # None => file.pair # None  BY <1>1, <2>3
  <2>5. \A q \in Processes : HoldsIn(proc'[q]) =>
          \/ HoldsIn(proc[q]) /\ CopyIs(proc'[q], proc[q].conf)
          \/ CopyIs(proc'[q], file) /\ file.dev # None
    BY <1>2, OffIs, NoFileIs DEF Agrees, HoldsIn, CopyIs
  <2>6. \A q \in Processes : RegisteredIn(proc'[q]) =>
          RegisteredIn(proc[q]) /\ CopyIs(proc'[q], proc[q].conf) /\ proc'[q].pair = proc[q].pair
    BY <1>2, OffIs DEF Agrees, RegisteredIn, CopyIs
  <2>7. \/ file'.dev = file.dev /\ file'.pair = file.pair
        \/ file'.dev = None
        \/ HoldsIn(proc[p]) /\ CopyIs(proc[p], file')
    BY DEF Agrees
  <2>8. \A q \in Processes : HoldsIn(proc'[q]) =>
          /\ proc'[q].conf.pair # None
          /\ proc'[q].conf.dev = file'.dev => proc'[q].conf.pair = file'.pair
    <3> SUFFICES ASSUME NEW q \in Processes, HoldsIn(proc'[q])
                 PROVE  /\ proc'[q].conf.pair # None
                        /\ proc'[q].conf.dev = file'.dev => proc'[q].conf.pair = file'.pair
      OBVIOUS
    <3>1. proc'[q].conf.dev # None  BY DEF HoldsIn
    <3>2. CASE HoldsIn(proc[q]) /\ CopyIs(proc'[q], proc[q].conf)
      BY <2>2, <2>7, <3>1, <3>2 DEF CopiesAgree, CopyIs
    <3>3. CASE CopyIs(proc'[q], file) /\ file.dev # None
      BY <2>2, <2>4, <2>7, <3>1, <3>3 DEF CopiesAgree, CopyIs
    <3> QED BY <2>5, <3>2, <3>3
  <2>9. \A q, r \in Processes : HoldsIn(proc'[q]) /\ HoldsIn(proc'[r])
                                /\ proc'[q].conf.dev = proc'[r].conf.dev
          => proc'[q].conf.pair = proc'[r].conf.pair
    BY <2>2, <2>5 DEF CopiesAgree, CopyIs
  <2>10. \A q \in Processes : RegisteredIn(proc'[q]) =>
          pub'[proc'[q].conf.dev] = proc'[q].conf.pair /\ proc'[q].pair = proc'[q].conf.pair
    BY <2>2, <2>6 DEF CopiesAgree, CopyIs, Agrees
  <2> QED BY <2>8, <2>9, <2>10 DEF CopiesAgree, HoldsIn, RegisteredIn
<1>5. (file.dev # None /\ file.pair = None => KeyToCome)' /\ (NoneEnrols => CopiesAgree)'
  BY <1>3, <1>4
<1> QED BY <1>5, AgreedIs, PTL

LEMMA Stands ==
    ASSUME IInv, NEW p \in Processes, NEW x, Turns(p, x), Fits(p, x), ServerOK', MachineOK',
           (proc'[Agent].pc = "off") <=> (service' # "up"),
           Remembers(p, x), OneTerminal => Agrees(p, x)
    PROVE  IInv'
<1>1. ProcsOK'  BY ProcsStand DEF IInv
<1>2. Known'  BY KnownStands
<1>3. OneTerminal => Agreed'  BY AgreedStands DEF IInv
<1>4. (OneTerminal => Agreed)'  BY <1>3 DEF OneTerminal
<1> QED BY <1>1, <1>2, <1>4 DEF IInv

Services == {"absent", "waits", "up", "unenrolled", "revoked", "stranded"}

\* A step that leaves the server and the files alone.
Follows(p, x) ==
    /\ x.conf = NoFile \/ x.conf = proc[p].conf \/ x.conf = file
       \/ (x.conf.dev = Mine(p) /\ x.conf.pair = proc[p].conf.pair)
    /\ Unkept(p) => x.pc \in {"enrolled", "signed"} /\ x.conf = proc[p].conf
    /\ x.pc \notin {"tray", "clear"}
    /\ OneTerminal =>
        /\ EnrolsIn(proc[p]) => EnrolsIn(x)
        /\ HoldsIn(x) => (HoldsIn(proc[p]) /\ CopyIs(x, proc[p].conf)) \/ CopyIs(x, file)
        /\ RegisteredIn(x) => RegisteredIn(proc[p]) /\ CopyIs(x, proc[p].conf) /\ x.pair = proc[p].pair
        /\ AtKey(proc[p]) => AtKey(x) \/ file.pair # None

LEMMA Reads ==
    ASSUME IInv, NEW p \in Processes, NEW x, Turns(p, x), Fits(p, x),
           UNCHANGED <<server, machine>>, made' = made,
           service' \in Services, typed' \in 0..MaxTyped, fails' \in fails..MaxFails,
           (proc'[Agent].pc = "off") <=> (service' # "up"),
           Follows(p, x)
    PROVE  IInv'
<1>1. ServerOK'  BY DEF IInv, ServerOK, server
<1>2. MachineOK'
  <2>1. fails \in 0..MaxFails /\ (left # {} => fails > 0)  BY DEF IInv, MachineOK
  <2>2. fails' \in 0..MaxFails /\ (left' # {} => fails' > 0)
    BY <2>1, BoundAssumption DEF machine
  <2> QED BY <2>2 DEF IInv, MachineOK, machine, Services
<1>3. Remembers(p, x)
  <2>1. x.conf.dev \in {None, file.dev, Mine(p)}  BY NoFileIs DEF Follows, Mine
  <2>2. Unkept(p) => x.pc \in {"enrolled", "signed"} /\ x.conf.dev = Mine(p)
    BY DEF Follows, Mine
  <2> QED BY <2>1, <2>2 DEF Remembers, Follows, server, machine, Active, Left
<1>4. OneTerminal => Agrees(p, x)  BY DEF Agrees, Follows, server, machine
<1> QED BY <1>1, <1>2, <1>3, <1>4, Stands

LEMMA ProcIs == ASSUME IInv, NEW p \in Processes PROVE proc[p] \in Procs /\ Fits(p, proc[p])
BY DEF IInv, ProcsOK

\* A step of a process that is neither started nor stopped.
LEMMA Up ==
    ASSUME IInv, NEW p \in Processes, NEW x, proc' = [proc EXCEPT ![p] = x], service' = service,
           p = Agent => proc[p].pc # "off" /\ x.pc # "off"
    PROVE  (proc'[Agent].pc = "off") <=> (service' # "up")
BY AgentApart DEF IInv, ProcsOK, At

\* A process that ends, for good or not, having kept what it had.
LEMMA EndsKeeps ==
    ASSUME IInv, NEW p \in Processes, proc' = [proc EXCEPT ![p] = Off],
           UNCHANGED <<server, machine, made, typed>>, fails' \in fails..MaxFails,
           service' \in Services, p = Agent => service' # "up", p # Agent => service' = service,
           ~Unkept(p), proc[p].does # "enrol"
    PROVE  IInv'
<1>1. Turns(p, Off)  BY Stopping DEF IInv
<1>2. Follows(p, Off)
  BY OffIs, NoFileIs DEF Follows, EnrolsIn, HoldsIn, RegisteredIn, AtKey
<1>3. (proc'[Agent].pc = "off") <=> (service' # "up")
  BY <1>1, OffIs, AgentApart DEF Turns, IInv, ProcsOK, At
<1>4. typed' \in 0..MaxTyped  BY DEF IInv, MachineOK
<1> QED BY <1>1, <1>2, <1>3, <1>4, OffIs, Reads

-----------------------------------------------------------------------------
(* The actions.                                                            *)

LEMMA LoadIs ==
    ASSUME NEW does \in Deeds, NEW x, x = [Off EXCEPT !.pc = "load", !.does = does]
    PROVE  x \in Procs /\ x.pc = "load" /\ x.does = does /\ x.conf = NoFile /\ x.pair = None
BY OffIs DEF Procs, Pcs

LEMMA AgentStartsKeeps == ASSUME IInv, AgentStarts PROVE IInv'
<1> PICK x : x = [Off EXCEPT !.pc = "load"]  OBVIOUS
<1>1. x \in Procs /\ x.pc = "load" /\ x.does = "run" /\ x.conf = NoFile /\ x.pair = None
  BY OffIs, Moved DEF Pcs
<1>3. /\ proc' = [proc EXCEPT ![Agent] = x] /\ service' = "up" /\ service = "waits"
      /\ UNCHANGED <<server, machine, counts>>
  BY DEF AgentStarts
<1>4. Turns(Agent, x)  BY <1>1, <1>3, TurnsOne, AgentApart DEF IInv
<1>5. At(Agent, "off")  BY <1>3 DEF IInv, ProcsOK
<1>6. Fits(Agent, x)  BY <1>1 DEF Fits, Owned, Leaving, Unpaired
<1>7. proc[Agent] = Off  BY <1>5, ProcIs, AgentApart DEF Fits, At
<1>8. Follows(Agent, x)
  BY <1>1, <1>7, OffIs, NoFileIs DEF Follows, EnrolsIn, HoldsIn, RegisteredIn, AtKey, Unkept, At
<1>9. (proc'[Agent].pc = "off") <=> (service' # "up")  BY <1>1, <1>3, <1>4 DEF Turns
<1>10. typed' \in 0..MaxTyped /\ fails' \in fails..MaxFails /\ made' = made
  BY <1>3 DEF counts, IInv, MachineOK
<1> QED BY <1>3, <1>4, <1>6, <1>8, <1>9, <1>10, Reads, AgentApart DEF Services

\* The agent is stopped, and somebody counts.
LEMMA AgentStops ==
    ASSUME IInv, proc' = [proc EXCEPT ![Agent] = Off], service' \in Services \ {"up"},
           UNCHANGED <<server, machine, made>>, typed' \in 0..MaxTyped, fails' \in fails..MaxFails
    PROVE  IInv'
<1>1. Turns(Agent, Off)  BY Stopping, AgentApart DEF IInv
<1>2. proc[Agent].does = "run" /\ ~Unkept(Agent)
  BY ProcIs, AgentApart DEF Fits, Unkept, At
<1>3. Follows(Agent, Off)
  BY <1>2, OffIs, NoFileIs DEF Follows, EnrolsIn, HoldsIn, RegisteredIn, AtKey
<1>4. (proc'[Agent].pc = "off") <=> (service' # "up")  BY <1>1, OffIs DEF Turns
<1> QED BY <1>1, <1>3, <1>4, OffIs, AgentApart, Reads

LEMMA AgentDiesKeeps == ASSUME IInv, AgentDies PROVE IInv'
<1>1. typed' \in 0..MaxTyped /\ fails' \in fails..MaxFails
  BY BoundAssumption DEF AgentDies, IInv, MachineOK
<1> QED BY <1>1, AgentStops DEF AgentDies, Services

LEMMA InstallsKeeps ==
    ASSUME IInv, NEW t \in Terminals, Installs(t) \/ Uninstalls(t) PROVE IInv'
<1>1. typed' \in 0..MaxTyped /\ fails' \in fails..MaxFails
  BY BoundAssumption DEF Installs, Uninstalls, Types, IInv, MachineOK
<1> QED BY <1>1, AgentStops DEF Installs, Uninstalls, Services

LEMMA BeginsKeeps == ASSUME IInv, NEW t \in Terminals, Begins(t) PROVE IInv'
<1> PICK does \in {"keys", "rekey", "receive", "logout", "delete"} :
      /\ Types(t, does)
      /\ proc' = [proc EXCEPT ![t] = [Off EXCEPT !.pc = "load", !.does = does]]
  BY DEF Begins
<1> PICK x : x = [Off EXCEPT !.pc = "load", !.does = does]  OBVIOUS
<1>1. x \in Procs /\ x.pc = "load" /\ x.does = does /\ x.conf = NoFile /\ x.pair = None
  BY LoadIs DEF Deeds
<1>2. proc' = [proc EXCEPT ![t] = x] /\ UNCHANGED <<server, machine, service, made, fails>>
  BY DEF Begins
<1>3. Turns(t, x)  BY <1>1, <1>2, TurnsOne, AgentApart DEF IInv
<1>4. proc[t] = Off  BY ProcIs, AgentApart DEF Types, At, Fits
<1>5. Fits(t, x)  BY <1>1, AgentApart DEF Fits, Owned, Leaving, Unpaired
<1>6. Follows(t, x)
  BY <1>1, <1>4, OffIs, NoFileIs DEF Follows, EnrolsIn, HoldsIn, RegisteredIn, AtKey, Unkept, At
<1>7. (proc'[Agent].pc = "off") <=> (service' # "up")
  BY <1>2, <1>3, AgentApart, OffIs DEF Turns, IInv, ProcsOK, At
<1>8. typed' \in 0..MaxTyped /\ fails' \in fails..MaxFails /\ service' \in Services
  BY <1>2, BoundAssumption DEF Types, IInv, MachineOK, Services
<1> QED BY <1>2, <1>3, <1>5, <1>6, <1>7, <1>8, AgentApart, Reads

LEMMA LoadKeeps == ASSUME IInv, NEW p \in Processes, Load(p) PROVE IInv'
<1> PICK w, pc : w = proc[p] /\ pc = AfterLoad(w.does)  OBVIOUS
<1>0. w \in Procs /\ Fits(p, w) /\ w.pc = "load"  BY ProcIs DEF Load, At
<1>1. /\ w.does = "receive" => pc = "save"
      /\ w.does \in {"logout", "delete"} => pc = "revoke"
      /\ w.does \notin {"receive", "logout", "delete"} => pc = "key"
  BY DEF AfterLoad
<1> PICK x : x = [w EXCEPT !.conf = file, !.pc = pc]  OBVIOUS
<1>2. pc \in {"save", "revoke", "key"} /\ pc \in Pcs  BY <1>1 DEF Pcs, Owned, Leaving, Unpaired
<1>3. x \in Procs /\ x.pc = pc /\ x.does = w.does /\ x.conf = file /\ x.pair = w.pair
  BY <1>0, <1>2 DEF Procs, IInv, MachineOK
<1>4. proc' = [proc EXCEPT ![p] = x]  BY DEF Load, IInv, ProcsOK
<1>5. UNCHANGED <<server, machine, service, counts>> /\ (file # NoFile \/ w.does = "logout")
  BY DEF Load
<1>6. Turns(p, x)  BY <1>3, <1>4, TurnsOne DEF IInv
<1>7. w.does # "enrol"  BY <1>0 DEF Fits
<1>8. file.dev # None \/ w.does = "logout"  BY <1>5 DEF IInv, MachineOK
<1>9. Fits(p, x)
  <2>1. CASE pc = "save"  BY <1>0, <1>1, <1>3, <1>8, <2>1 DEF Fits, Owned, Leaving, Unpaired
  <2>2. CASE pc = "revoke"  BY <1>0, <1>1, <1>3, <2>2 DEF Fits, Owned, Leaving, Unpaired
  <2>3. CASE pc = "key"  BY <1>0, <1>1, <1>3, <1>7, <1>8, <2>3 DEF Fits, Owned, Leaving, Unpaired
  <2> QED BY <1>2, <2>1, <2>2, <2>3
<1>10. Follows(p, x)
  <2>1. ~Unkept(p) /\ ~EnrolsIn(proc[p]) /\ ~AtKey(proc[p])
    BY <1>0 DEF Unkept, At, EnrolsIn, AtKey
  <2>2. ~RegisteredIn(x)  BY <1>1, <1>2, <1>3 DEF RegisteredIn
  <2>3. CopyIs(x, file) /\ x.pc \notin {"tray", "clear"}  BY <1>2, <1>3 DEF CopyIs
  <2> QED BY <1>3, <2>1, <2>2, <2>3 DEF Follows
<1>11. (proc'[Agent].pc = "off") <=> (service' # "up")
  BY <1>0, <1>2, <1>3, <1>4, <1>5, Up
<1>12. typed' \in 0..MaxTyped /\ fails' \in fails..MaxFails /\ service' \in Services /\ made' = made
  BY <1>5 DEF counts, IInv, MachineOK, Services
<1> QED BY <1>5, <1>6, <1>9, <1>10, <1>11, <1>12, Reads

\* Ends, for whatever reason.
LEMMA GivesUp ==
    ASSUME IInv, NEW p \in Processes, NEW why \in {"unenrolled", "revoked", "stranded"},
           Ends(p, why), UNCHANGED <<server, machine, counts>>,
           ~Unkept(p), proc[p].does # "enrol"
    PROVE  IInv'
<1>1. service' \in Services /\ fails' \in fails..MaxFails /\ UNCHANGED <<made, typed>>
  BY DEF Ends, IInv, MachineOK, counts, Services
<1> QED BY <1>1, EndsKeeps DEF Ends

LEMMA NotEnrolledKeeps == ASSUME IInv, NEW p \in Processes, NotEnrolled(p) PROVE IInv'
<1>1. proc[p].does # "enrol" /\ ~Unkept(p)  BY ProcIs DEF NotEnrolled, At, Fits, Unkept
<1> QED BY <1>1, GivesUp DEF NotEnrolled

LEMMA InterruptKeeps == ASSUME IInv, NEW t \in Terminals, Interrupt(t) PROVE IInv'
<1>0. t \in Processes /\ t # Agent  BY AgentApart
<1>1. /\ fails < MaxFails /\ fails' = fails + 1
      /\ proc[t].pc \in {"enrolled", "signed", "register", "refresh", "ready", "revoke"}
      /\ proc[t].does = "enrol" => Unkept(t)
      /\ proc' = [proc EXCEPT ![t] = Off]
      /\ left' = IF Unkept(t) THEN left \cup {Mine(t)} ELSE left
      /\ UNCHANGED <<server, file, tray, over, service, made, typed>>
  BY DEF Interrupt
<1>2. Turns(t, Off)  BY <1>0, <1>1, Stopping DEF IInv
<1>3. Fits(t, proc[t]) /\ proc[t] \in Procs  BY <1>0, ProcIs
<1>4. Unkept(t) => Mine(t) \in Devices
  BY <1>3 DEF Unkept, At, Fits, Owned, Mine, Procs, Config, None
<1>5. ServerOK'  BY <1>1 DEF IInv, ServerOK, server
<1>6. MachineOK'  BY <1>1, <1>4, BoundAssumption DEF IInv, MachineOK
<1>7. (proc'[Agent].pc = "off") <=> (service' # "up")  BY <1>0, <1>1, OffIs, Up
<1>8. Remembers(t, Off)
  BY <1>1, OffIs, NoFileIs DEF Remembers, server, Active, Left
<1>9. Agrees(t, Off)
  <2>1. ~EnrolsIn(proc[t]) /\ ~AtKey(proc[t])
    BY <1>1 DEF EnrolsIn, AtKey, Unkept, At
  <2>2. ~HoldsIn(Off) /\ ~RegisteredIn(Off)  BY OffIs, NoFileIs DEF HoldsIn, RegisteredIn
  <2> QED BY <1>1, <2>1, <2>2 DEF Agrees, server
<1> QED BY <1>0, <1>2, <1>5, <1>6, <1>7, <1>8, <1>9, OffIs, Stands

\* The device is new: nobody has it but the command.
LEMMA GetsDeviceKeeps ==
    ASSUME IInv, NEW t \in Terminals, NEW pc \in {"enrolled", "signed"}, GetsDevice(t, pc)
    PROVE  IInv'
<1>0. t \in Processes /\ t # Agent  BY AgentApart
<1> PICK d \in Devices :
      /\ IsNext(d) /\ status' = [status EXCEPT ![d] = "active"]
      /\ proc' = [proc EXCEPT ![t] =
                    [pc |-> pc, does |-> "enrol", pair |-> None,
                     conf |-> [dev |-> d, keys |-> {epoch}, pair |-> None]]]
  BY DEF GetsDevice
<1> PICK x : x = [pc |-> pc, does |-> "enrol", pair |-> None,
                  conf |-> [dev |-> d, keys |-> {epoch}, pair |-> None]]
  OBVIOUS
<1>1. /\ Types(t, "enrol") /\ UNCHANGED <<pub, sealed, epoch, machine, service, made, fails>>
      /\ proc' = [proc EXCEPT ![t] = x]
  BY DEF GetsDevice
<1>2. /\ x \in Procs /\ x.pc = pc /\ x.does = "enrol" /\ x.conf.dev = d /\ x.conf.pair = None
      /\ x.pair = None
  <2>1. [dev |-> d, keys |-> {epoch}, pair |-> None] \in Config  BY DEF Config, IInv, ServerOK
  <2> QED BY <2>1 DEF Procs, Pcs, Owned, Deeds
<1>3. Turns(t, x)  BY <1>0, <1>1, <1>2, TurnsOne DEF IInv
<1>4. Fits(t, x)  BY <1>0, <1>2, Counts DEF Fits, Owned, Leaving, Unpaired
<1>5. At(t, "off") /\ status[d] = "new" /\ proc[t] = Off
  BY <1>0, <1>1, ProcIs DEF Types, IsNext, Fits, At
<1>6. ServerOK'  BY <1>1 DEF IInv, ServerOK
<1>7. MachineOK'  BY <1>1, BoundAssumption DEF IInv, MachineOK, machine, Types
<1>8. (proc'[Agent].pc = "off") <=> (service' # "up")  BY <1>0, <1>1, Up
<1>9. ProcsOK'  BY <1>0, <1>3, <1>4, <1>8, ProcsStand DEF IInv
<1>10. \A e \in Devices : status'[e] = IF e = d THEN "active" ELSE status[e]
  BY DEF IInv, ServerOK
<1>11. \A q \in Processes \ {t} : proc'[q] = proc[q]  BY <1>1 DEF IInv, ProcsOK
<1>12. /\ file.dev \in Devices \cup {None} /\ tray \in Devices \cup {None}
       /\ \A q \in Processes : Mine(q) \in Devices \cup {None}
  BY TrayAssumption DEF IInv, MachineOK, ProcsOK, Procs, Mine, Config
<1>13. file' = file /\ tray' = tray /\ Left' = Left  BY <1>1 DEF machine, Left
<1>14. Known'
  <2>1. Enrolled(file.dev)' /\ Enrolled(tray)'
    BY <1>10, <1>12, <1>13 DEF IInv, Known, Enrolled
  <2>2. \A q \in Processes : Enrolled(Mine(q))'
    <3> SUFFICES ASSUME NEW q \in Processes PROVE Enrolled(Mine(q))'  OBVIOUS
    <3>1. CASE q = t  BY <1>2, <1>3, <1>10, <3>1 DEF Enrolled, Mine, Turns
    <3>2. CASE q # t  BY <1>10, <1>11, <1>12, <3>2 DEF Enrolled, Mine, IInv, Known
    <3> QED BY <3>1, <3>2
  <2>3. ASSUME NEW e \in Devices, Active(e)'
        PROVE  \/ e \in Left' \cup {file'.dev, tray'}
               \/ \E s \in Terminals : Unkept(s)' /\ Mine(s)' = e
    <3>1. CASE e = d
      <4>1. Unkept(t)' /\ Mine(t)' = e  BY <1>2, <1>3, <3>1 DEF Unkept, At, Mine, Turns
      <4> QED BY <4>1
    <3>2. CASE e # d
      <4>1. Active(e)  BY <1>10, <2>3, <3>2 DEF Active
      <4>2. \A s \in Terminals : Unkept(s) => Unkept(s)' /\ Mine(s)' = Mine(s)
        BY <1>5, <1>11, AgentApart DEF Unkept, At, Mine
      <4> QED BY <1>13, <4>1, <4>2 DEF IInv, Known
    <3> QED BY <3>1, <3>2
  <2>4. ASSUME NEW s \in Terminals
        PROVE  /\ proc'[s].pc \in {"tray", "clear"} => Excused(Mine(s))'
               /\ proc'[s].pc = "clear" => Excused(tray)'
    <3>1. CASE s = t  BY <1>2, <1>3, <3>1 DEF Turns
    <3>2. CASE s # t
      <4>1. proc'[s] = proc[s] /\ s \in Processes  BY <1>11, <3>2, AgentApart
      <4>2. Enrolled(Mine(s)) /\ Enrolled(tray)  BY <4>1 DEF IInv, Known
      <4>3. \A e \in Devices \cup {None} : Enrolled(e) /\ Excused(e) => Excused(e)'
        BY <1>5, <1>10, <1>13, Counts DEF Enrolled, Excused, Active
      <4>4. Excused(Mine(s)) => Excused(Mine(s))'
        BY <1>12, <4>1, <4>2, <4>3 DEF Mine, Excused
      <4>5. Excused(tray) => Excused(tray)'  BY <1>12, <1>13, <4>2, <4>3 DEF Excused
      <4> QED BY <4>1, <4>4, <4>5 DEF IInv, Known, At
    <3> QED BY <3>1, <3>2
  <2> QED BY <2>1, <2>2, <2>3, <2>4 DEF Known, At
<1>15. Agrees(t, x)
  <2>1. ~EnrolsIn(proc[t]) /\ ~AtKey(proc[t])  BY <1>5 DEF EnrolsIn, AtKey, At
  <2>2. ~HoldsIn(x) /\ ~RegisteredIn(x)  BY <1>2 DEF HoldsIn, RegisteredIn
  <2> QED BY <1>1, <1>13, <2>1, <2>2 DEF Agrees
<1>16. OneTerminal => Agreed'  BY <1>0, <1>3, <1>15, AgreedStands DEF IInv
<1>17. (OneTerminal => Agreed)'  BY <1>16 DEF OneTerminal
<1> QED BY <1>6, <1>7, <1>9, <1>14, <1>17 DEF IInv

LEMMA WrongPassphraseKeeps == ASSUME IInv, NEW t \in Terminals, WrongPassphrase(t) PROVE IInv'
<1>0. t \in Processes /\ t # Agent  BY AgentApart
<1> PICK d : d = Mine(t)  OBVIOUS
<1>1. /\ At(t, "enrolled") /\ proc' = [proc EXCEPT ![t] = Off]
      /\ UNCHANGED <<pub, sealed, epoch, file, tray, over, service, made, typed>>
      /\ \/ status' = [status EXCEPT ![d] = "revoked"] /\ left' = left /\ fails' = fails
         \/ Fails("revoke") /\ left' = left \cup {d} /\ status' = status
  BY DEF WrongPassphrase
<1>2. Turns(t, Off)  BY <1>0, <1>1, Stopping DEF IInv
<1>3. Fits(t, proc[t]) /\ proc[t] \in Procs  BY <1>0, ProcIs
<1>4. d \in Devices  BY <1>1, <1>3 DEF At, Fits, Owned, Mine, Procs, Config, None
<1>5. ServerOK'  BY <1>1 DEF IInv, ServerOK
<1>6. MachineOK'  BY <1>1, <1>4, BoundAssumption DEF IInv, MachineOK, Fails
<1>7. (proc'[Agent].pc = "off") <=> (service' # "up")  BY <1>0, <1>1, Up
<1>8. Remembers(t, Off)
  <2>1. \A e \in Devices : (Active(e)' => Active(e)) /\ (status[e] # "new" => status'[e] # "new")
    BY <1>1 DEF IInv, ServerOK, Active
  <2>2. d \in Left' \/ status'[d] # "active"  BY <1>1, <1>4 DEF IInv, ServerOK, Left
  <2>3. Left \subseteq Left'  BY <1>1 DEF Left
  <2> QED BY <1>1, <2>1, <2>2, <2>3, OffIs, NoFileIs DEF Remembers
<1>9. Agrees(t, Off)
  <2>1. ~EnrolsIn(proc[t]) /\ ~AtKey(proc[t])  BY <1>1 DEF EnrolsIn, AtKey, At
  <2>2. ~HoldsIn(Off) /\ ~RegisteredIn(Off)  BY OffIs, NoFileIs DEF HoldsIn, RegisteredIn
  <2> QED BY <1>1, <2>1, <2>2 DEF Agrees
<1> QED BY <1>0, <1>2, <1>5, <1>6, <1>7, <1>8, <1>9, OffIs, Stands

\* A save, whoever's: what was there is saved over, unless it is the same device.
LEMMA Saved ==
    ASSUME IInv, NEW c \in Config, Saves(c), c.dev # None, UNCHANGED <<service, typed, fails>>,
           made' \in 0..MaxPairs
    PROVE  /\ MachineOK' /\ file' = c /\ tray' = tray /\ Left \subseteq Left'
           /\ file.dev \in Left' \cup {file'.dev, None}
<1>1. /\ file' = c /\ over' = over \cup ({file.dev} \ {c.dev, None})
      /\ tray' = tray /\ left' = left
  BY DEF Saves
<1>2. file.dev \in Devices \cup {None}  BY DEF IInv, MachineOK, Config
<1>3. over' \subseteq Devices  BY <1>1, <1>2 DEF IInv, MachineOK
<1> QED BY <1>1, <1>3 DEF IInv, MachineOK, Left

LEMMA KeepsKeeps == ASSUME IInv, NEW t \in Terminals, Keeps(t) PROVE IInv'
<1>0. t \in Processes /\ t # Agent  BY AgentApart
<1>1. Unkept(t) /\ Saves(proc[t].conf) /\ Goes(t, "key") /\ UNCHANGED <<server, service, counts>>
  BY DEF Keeps
<1>2. Fits(t, proc[t]) /\ proc[t] \in Procs  BY <1>0, ProcIs
<1>3. PICK x \in Procs : /\ Turns(t, x) /\ x.pc = "key" /\ x.does = proc[t].does
                         /\ x.conf = proc[t].conf /\ x.pair = proc[t].pair
  BY <1>0, <1>1, Going DEF IInv, Pcs, Owned
<1>4. /\ x.conf \in Config /\ x.conf.dev # None /\ x.does = "enrol" /\ x.conf.pair = None
      /\ x.pair = None
  BY <1>1, <1>2, <1>3 DEF Unkept, At, Fits, Owned, Procs, Unpaired
<1>5. Fits(t, x)  BY <1>0, <1>3, <1>4 DEF Fits, Owned, Leaving, Unpaired
<1>6. /\ MachineOK' /\ file' = x.conf /\ tray' = tray /\ Left \subseteq Left'
      /\ file.dev \in Left' \cup {file'.dev, None}
  BY <1>1, <1>3, <1>4, Saved DEF counts, IInv, MachineOK
<1>7. ServerOK'  BY <1>1 DEF IInv, ServerOK, server
<1>8. proc' = [proc EXCEPT ![t].pc = "key"]  BY <1>1 DEF Goes
<1>9. (proc'[Agent].pc = "off") <=> (service' # "up")
  BY <1>0, <1>1, <1>8, AgentApart DEF IInv, ProcsOK, At
<1>10. ProcsOK'  BY <1>0, <1>3, <1>5, <1>9, ProcsStand DEF IInv
<1>11. Remembers(t, x)
  BY <1>1, <1>3, <1>6 DEF Remembers, server, Active, Mine
<1>12. Known'  BY <1>0, <1>3, <1>11, KnownStands
<1>13. Agreed'
  <2>1. AtKey(proc'[t]) /\ EnrolsIn(proc'[t])  BY <1>3, <1>4 DEF Turns, AtKey, EnrolsIn
  <2>2. KeyToCome' /\ ~NoneEnrols'  BY <2>1 DEF KeyToCome, NoneEnrols, AtKey, EnrolsIn
  <2>3. (file.dev # None /\ file.pair = None => KeyToCome)' /\ (NoneEnrols => CopiesAgree)'
    BY <2>2
  <2> QED BY <2>3, AgreedIs, PTL
<1> QED BY <1>6, <1>7, <1>10, <1>12, <1>13 DEF IInv

\* The agent, if it runs, is stopped: nothing has a copy of the file.
LEMMA RestartsKeeps == ASSUME IInv, NEW t \in Terminals, Restarts(t) PROVE IInv'
<1>0. t \in Processes /\ t # Agent  BY AgentApart
<1>1. /\ At(t, "restart") /\ service' = IF service = "absent" THEN "absent" ELSE "waits"
      /\ proc' = [proc EXCEPT ![t] = Off, ![Agent] = IF service = "absent" THEN @ ELSE Off]
      /\ UNCHANGED <<server, machine, counts>>
  BY DEF Restarts, Restarted
<1>2. /\ proc'[t] = Off /\ (service # "absent" => proc'[Agent] = Off)
      /\ (service = "absent" => proc'[Agent] = proc[Agent])
      /\ \A q \in Processes \ {t, Agent} : proc'[q] = proc[q]
      /\ proc' \in [Processes -> Procs]
  BY <1>0, <1>1, AgentApart, OffIs DEF IInv, ProcsOK
<1>3. proc'[Agent] = Off
  <2>1. service = "absent" => proc[Agent] = Off
    BY AgentApart DEF IInv, ProcsOK, At, Fits
  <2> QED BY <1>2, <2>1
<1>4. Turns(t, Off)  BY <1>2, <1>3 DEF Turns
<1>5. service' # "up" /\ service' \in Services  BY <1>1 DEF Services
<1>6. (proc'[Agent].pc = "off") <=> (service' # "up")  BY <1>3, <1>5, OffIs
<1>7. ProcsOK'  BY <1>0, <1>4, <1>6, OffIs, ProcsStand DEF IInv
<1>8. ServerOK'  BY <1>1 DEF IInv, ServerOK, server
<1>9. MachineOK'  BY <1>1, <1>5 DEF IInv, MachineOK, machine, counts, Services
<1>10. Remembers(t, Off)
  BY <1>1, OffIs, NoFileIs DEF Remembers, server, machine, Active, Unkept, At, Left
<1>11. Known'  BY <1>0, <1>4, <1>10, KnownStands
<1>12. ASSUME OneTerminal PROVE Agreed'
  <2>1. \A q \in Processes : proc'[q] = Off
    BY <1>2, <1>3, <1>12 DEF OneTerminal, Processes
  <2>2. CopiesAgree'
    BY <2>1, OffIs, NoFileIs DEF CopiesAgree, HoldsIn, RegisteredIn
  <2>3. file.dev # None => file.pair # None
    <3>1. ~KeyToCome
      BY <1>1, <1>12 DEF KeyToCome, AtKey, At, OneTerminal, OneTerminal
    <3> QED BY <1>12, <3>1, AgreedIs DEF IInv
  <2>4. (file.dev # None /\ file.pair = None => KeyToCome)' /\ (NoneEnrols => CopiesAgree)'
    BY <1>1, <2>2, <2>3 DEF machine
  <2> QED BY <2>4, AgreedIs, PTL
<1>13. (OneTerminal => Agreed)'  BY <1>12 DEF OneTerminal
<1> QED BY <1>7, <1>8, <1>9, <1>11, <1>13 DEF IInv

\* A keypair is made only by an enrolment, or by an agent that read the file
\* before the enrolment made its own.
LEMMA MakeKeyKeeps == ASSUME IInv, NEW p \in Processes, MakeKey(p) PROVE IInv'
<1> PICK w : w = proc[p]  OBVIOUS
<1>1. w \in Procs /\ Fits(p, w) /\ w.pc = "key"  BY ProcIs DEF MakeKey, At
<1>2. w.conf \in Config /\ w.conf.dev # None  BY <1>1 DEF Fits, Owned, Procs
<1>3. UNCHANGED <<server, service, typed, fails>>  BY DEF MakeKey
<1>4. CASE w.conf.pair # None
  <2>1. Goes(p, "register") /\ UNCHANGED <<machine, made>>  BY <1>4 DEF MakeKey
  <2>2. PICK x \in Procs : /\ Turns(p, x) /\ x.pc = "register" /\ x.does = w.does
                           /\ x.conf = w.conf /\ x.pair = w.pair
                           /\ proc' = [proc EXCEPT ![p] = x]
    BY <2>1, Going DEF IInv, Pcs, Owned
  <2>3. Fits(p, x)  BY <1>1, <1>2, <1>4, <2>2 DEF Fits, Owned, Leaving, Unpaired
  <2>4. Follows(p, x)
    <3>1. ~Unkept(p) /\ ~RegisteredIn(x) /\ HoldsIn(w) /\ CopyIs(x, w.conf)
      BY <1>1, <1>2, <2>2 DEF Unkept, At, RegisteredIn, HoldsIn, CopyIs
    <3>2. (EnrolsIn(w) => EnrolsIn(x)) /\ ~AtKey(w)
      BY <1>1, <1>4, <2>2 DEF Fits, EnrolsIn, AtKey
    <3> QED BY <2>2, <3>1, <3>2 DEF Follows
  <2>5. (proc'[Agent].pc = "off") <=> (service' # "up")  BY <1>1, <1>3, <2>2, Up
  <2>6. service' \in Services /\ typed' \in 0..MaxTyped /\ fails' \in fails..MaxFails
    BY <1>3 DEF IInv, MachineOK, Services
  <2> QED BY <1>3, <2>1, <2>2, <2>3, <2>4, <2>5, <2>6, Reads
<1>5. CASE w.conf.pair = None
  <2>0. PICK n : n = made + 1  OBVIOUS
  <2> PICK c : c = [w.conf EXCEPT !.pair = n]  OBVIOUS
  <2>1. /\ made < MaxPairs /\ made' = n /\ Saves(c)
        /\ proc' = [proc EXCEPT ![p].conf = c, ![p].pc = "register"]
    BY <1>5, <2>0 DEF MakeKey
  <2>2. n \in Pairs /\ n # None /\ n \in 0..MaxPairs
    BY <2>0, <2>1, BoundAssumption, Counts DEF Pairs, IInv, MachineOK
  <2>3. c \in Config /\ c.dev = w.conf.dev /\ c.pair = n  BY <1>2, <2>2 DEF Config
  <2> PICK x : x = [w EXCEPT !.conf = c, !.pc = "register"]  OBVIOUS
  <2>4. /\ x \in Procs /\ x.pc = "register" /\ x.does = w.does /\ x.conf = c
    BY <1>1, <2>3 DEF Procs, Pcs, Owned
  <2>5. proc' = [proc EXCEPT ![p] = x]  BY <2>1 DEF IInv, ProcsOK
  <2>6. Turns(p, x)  BY <2>4, <2>5, TurnsOne DEF IInv
  <2>7. Fits(p, x)
    <3>1. x.conf.dev # None /\ x.conf.pair # None  BY <1>2, <2>2, <2>3, <2>4
    <3> QED BY <1>1, <2>4, <3>1 DEF Fits, Owned, Leaving, Unpaired
  <2>8. /\ MachineOK' /\ file' = c /\ tray' = tray /\ Left \subseteq Left'
        /\ file.dev \in Left' \cup {file'.dev, None}
    BY <1>2, <1>3, <2>1, <2>2, <2>3, Saved
  <2>9. ServerOK'  BY <1>3 DEF IInv, ServerOK, server
  <2>10. (proc'[Agent].pc = "off") <=> (service' # "up")  BY <1>1, <1>3, <2>4, <2>5, Up
  <2>11. ProcsOK'  BY <2>6, <2>7, <2>10, ProcsStand DEF IInv
  <2>12. ~Unkept(p)  BY <1>1 DEF Unkept, At
  <2>13. Remembers(p, x)
    BY <1>3, <2>3, <2>4, <2>8, <2>12 DEF Remembers, server, Active, Mine
  <2>14. Known'  BY <2>6, <2>13, KnownStands
  <2>15. ASSUME OneTerminal PROVE Agreed'
    <3>1. Agreed  BY <2>15 DEF IInv
    <3>2. ~NoneEnrols
      <4>1. HoldsIn(w)  BY <1>1, <1>2 DEF HoldsIn
      <4> QED BY <1>5, <3>1, <4>1, AgreedIs DEF CopiesAgree
    <3>3. PICK t \in Terminals : EnrolsIn(proc[t])  BY <3>2 DEF NoneEnrols
    <3>4. EnrolsIn(proc'[t])
      <4>1. CASE t = p  BY <2>4, <2>6, <3>3, <4>1 DEF EnrolsIn, Turns
      <4>2. CASE t # p  BY <2>6, <3>3, <4>2, AgentApart DEF Turns
      <4> QED BY <4>1, <4>2
    <3>5. ~NoneEnrols'  BY <3>4 DEF NoneEnrols, EnrolsIn
    <3>6. file'.pair # None  BY <2>2, <2>3, <2>8
    <3>7. (file.dev # None /\ file.pair = None => KeyToCome)' /\ (NoneEnrols => CopiesAgree)'
      BY <3>5, <3>6
    <3> QED BY <3>7, AgreedIs, PTL
  <2>16. (OneTerminal => Agreed)'  BY <2>15 DEF OneTerminal
  <2> QED BY <2>8, <2>9, <2>11, <2>14, <2>16 DEF IInv
<1> QED BY <1>4, <1>5

\* Any other that has registered this device's keypair has registered the same.
LEMMA RegisterKeeps == ASSUME IInv, NEW p \in Processes, Register(p) PROVE IInv'
<1> PICK w, pc : w = proc[p] /\ pc = AfterRegister(p)  OBVIOUS
<1>1. w \in Procs /\ Fits(p, w) /\ w.pc = "register"  BY ProcIs DEF Register, At
<1>2. w.conf \in Config /\ w.conf.dev # None /\ w.conf.pair # None /\ w.conf.pair \in Pairs
  BY <1>1 DEF Fits, Owned, Procs, Config
<1>3. /\ pub' = [pub EXCEPT ![w.conf.dev] = w.conf.pair]
      /\ proc' = [proc EXCEPT ![p].pair = w.conf.pair, ![p].pc = pc]
      /\ UNCHANGED <<status, sealed, epoch, machine, service, counts>>
  BY DEF Register, Mine
<1>4. pc \in {"restart", "refresh"} /\ (pc = "restart" <=> w.does = "enrol")
  BY DEF AfterRegister
<1> PICK x : x = [w EXCEPT !.pair = w.conf.pair, !.pc = pc]  OBVIOUS
<1>5. x \in Procs /\ x.pc = pc /\ x.does = w.does /\ x.conf = w.conf /\ x.pair = w.conf.pair
  BY <1>1, <1>2, <1>4 DEF Procs, Pcs, Owned
<1>6. proc' = [proc EXCEPT ![p] = x]  BY <1>3 DEF IInv, ProcsOK
<1>7. Turns(p, x)  BY <1>5, <1>6, TurnsOne DEF IInv
<1>8. Fits(p, x)
  <2>1. CASE pc = "restart"  BY <1>1, <1>4, <1>5, <2>1 DEF Fits, Owned, Leaving, Unpaired
  <2>2. CASE pc = "refresh"  BY <1>1, <1>2, <1>4, <1>5, <2>2 DEF Fits, Owned, Leaving, Unpaired
  <2> QED BY <1>4, <2>1, <2>2
<1>9. (proc'[Agent].pc = "off") <=> (service' # "up")
  <2>1. w.pc # "off" /\ x.pc # "off" /\ service' = service  BY <1>1, <1>3, <1>4, <1>5
  <2> QED BY <1>6, <2>1, Up
<1>10. ProcsOK'  BY <1>7, <1>8, <1>9, ProcsStand DEF IInv
<1>11. ServerOK'  BY <1>2, <1>3 DEF IInv, ServerOK
<1>12. MachineOK'  BY <1>3 DEF IInv, MachineOK, machine, counts
<1>13. Known'
  <2>1. ~Unkept(p)  BY <1>1 DEF Unkept, At
  <2>2. Remembers(p, x)
    BY <1>3, <1>4, <1>5, <2>1 DEF Remembers, machine, Active, Mine, Left
  <2> QED BY <1>7, <2>2, KnownStands
<1>14. ASSUME OneTerminal PROVE Agreed'
  <2>1. /\ file.dev # None /\ file.pair = None => KeyToCome
        /\ NoneEnrols => CopiesAgree
    BY <1>14, AgreedIs DEF IInv
  <2>2. proc'[p] = x /\ \A q \in Processes \ {p} : proc'[q] = proc[q]
    BY <1>5, <1>6 DEF IInv, ProcsOK
  <2>3. KeyToCome => KeyToCome'
    <3> SUFFICES ASSUME NEW t \in Terminals, AtKey(proc[t]) PROVE KeyToCome'  BY DEF KeyToCome
    <3>1. t # p  BY <1>1 DEF AtKey
    <3>2. AtKey(proc'[t])  BY <2>2, <3>1, AgentApart
    <3> QED BY <3>2 DEF KeyToCome, AtKey
  <2>4. NoneEnrols' => NoneEnrols
    <3> SUFFICES ASSUME NEW t \in Terminals, EnrolsIn(proc[t]) PROVE ~NoneEnrols'
      BY DEF NoneEnrols
    <3>1. CASE t = p  BY <1>4, <1>5, <2>2, <3>1 DEF NoneEnrols, EnrolsIn
    <3>2. CASE t # p  BY <2>2, <3>2, AgentApart DEF NoneEnrols, EnrolsIn
    <3> QED BY <3>1, <3>2
  <2>5. ASSUME CopiesAgree PROVE CopiesAgree'
    <3>1. HoldsIn(w)  BY <1>1, <1>2 DEF HoldsIn
    <3>2. \A q \in Processes : HoldsIn(proc'[q]) => HoldsIn(proc[q]) /\ proc'[q].conf = proc[q].conf
      BY <1>5, <2>2, <3>1
    <3>3. \A q \in Processes : HoldsIn(proc'[q]) =>
            /\ proc'[q].conf.pair # None
            /\ proc'[q].conf.dev = file'.dev => proc'[q].conf.pair = file'.pair
      BY <1>3, <2>5, <3>2 DEF CopiesAgree, machine
    <3>4. \A q, r \in Processes : HoldsIn(proc'[q]) /\ HoldsIn(proc'[r])
                                  /\ proc'[q].conf.dev = proc'[r].conf.dev
            => proc'[q].conf.pair = proc'[r].conf.pair
      BY <2>5, <3>2 DEF CopiesAgree
    <3>5. ASSUME NEW q \in Processes, RegisteredIn(proc'[q])
          PROVE  pub'[proc'[q].conf.dev] = proc'[q].conf.pair /\ proc'[q].pair = proc'[q].conf.pair
      <4>0. \A d \in Devices : pub'[d] = IF d = w.conf.dev THEN w.conf.pair ELSE pub[d]
        BY <1>3 DEF IInv, ServerOK
      <4>1. CASE q = p
        <5>1. w.conf.dev \in Devices  BY <1>2 DEF Config, None
        <5> QED BY <1>5, <2>2, <4>0, <4>1, <5>1
      <4>2. CASE q # p
        <5>1. proc'[q] = proc[q] /\ RegisteredIn(proc[q])  BY <2>2, <3>5, <4>2
        <5>2. proc[q] \in Procs /\ Fits(q, proc[q])  BY ProcIs
        <5>3. proc[q].conf.dev # None  BY <5>1, <5>2 DEF RegisteredIn, Fits, Owned
        <5>4. HoldsIn(proc[q])  BY <5>1, <5>3 DEF HoldsIn, RegisteredIn
        <5>5. proc[q].conf.dev \in Devices  BY <5>2, <5>3 DEF Procs, Config, None
        <5>6. proc[q].conf.dev = w.conf.dev => proc[q].conf.pair = w.conf.pair
          BY <2>5, <3>1, <5>4 DEF CopiesAgree
        <5>7. pub[proc[q].conf.dev] = proc[q].conf.pair /\ proc[q].pair = proc[q].conf.pair
          BY <2>5, <5>1 DEF CopiesAgree
        <5> QED BY <4>0, <5>1, <5>5, <5>6, <5>7
      <4> QED BY <4>1, <4>2
    <3> QED BY <3>3, <3>4, <3>5 DEF CopiesAgree, HoldsIn, RegisteredIn
  <2>6. (file.dev # None /\ file.pair = None => KeyToCome)' /\ (NoneEnrols => CopiesAgree)'
    BY <1>3, <2>1, <2>3, <2>4, <2>5 DEF machine
  <2> QED BY <2>6, AgreedIs, PTL
<1>15. (OneTerminal => Agreed)'  BY <1>14 DEF OneTerminal
<1> QED BY <1>10, <1>11, <1>12, <1>13, <1>15 DEF IInv

\* A step that ends a request without the server or the files: the process goes on
\* as it was.
LEMMA GoesOn ==
    ASSUME IInv, NEW p \in Processes, NEW pc \in Pcs, Goes(p, pc),
           UNCHANGED <<server, machine, service, made, typed>>, fails' \in fails..MaxFails,
           proc[p].pc \in {"register", "refresh"}, pc \in {"restart", "refresh", "ready"},
           pc = "restart" <=> proc[p].does = "enrol"
    PROVE  IInv'
<1> PICK w : w = proc[p]  OBVIOUS
<1>1. w \in Procs /\ Fits(p, w)  BY ProcIs
<1>2. PICK x \in Procs : /\ Turns(p, x) /\ x.pc = pc /\ x.does = w.does
                         /\ x.conf = w.conf /\ x.pair = w.pair
                         /\ proc' = [proc EXCEPT ![p] = x]
  BY Going DEF IInv
<1>3. w.conf.dev # None /\ w.conf.pair # None  BY <1>1 DEF Fits, Owned
<1>4. Fits(p, x)
  <2>1. CASE pc = "restart"  BY <1>1, <1>2, <2>1 DEF Fits, Owned, Leaving, Unpaired
  <2>2. CASE pc \in {"refresh", "ready"}  BY <1>1, <1>2, <1>3, <2>2 DEF Fits, Owned, Leaving, Unpaired
  <2> QED BY <2>1, <2>2
<1>5. Follows(p, x)
  <2>1. ~Unkept(p) /\ ~AtKey(w) /\ HoldsIn(w) /\ CopyIs(x, w.conf) /\ (EnrolsIn(w) => EnrolsIn(x))
    BY <1>1, <1>2, <1>3 DEF Unkept, At, AtKey, HoldsIn, CopyIs, EnrolsIn, Fits
  <2>2. RegisteredIn(x) => RegisteredIn(w)
    BY <1>1, <1>2 DEF RegisteredIn, Fits, Unpaired
  <2>3. x.pc \notin {"tray", "clear"}  BY <1>2
  <2> QED BY <1>2, <2>1, <2>2, <2>3 DEF Follows
<1>6. (proc'[Agent].pc = "off") <=> (service' # "up")  BY <1>2, Up
<1>7. service' \in Services /\ typed' \in 0..MaxTyped  BY DEF IInv, MachineOK, Services
<1> QED BY <1>2, <1>4, <1>5, <1>6, <1>7, Reads

LEMMA RegisterFailsKeeps == ASSUME IInv, NEW p \in Processes, RegisterFails(p) PROVE IInv'
<1>1. Fits(p, proc[p]) /\ proc[p].pc = "register"  BY ProcIs DEF RegisterFails, At
<1>2. /\ UNCHANGED <<server, machine, service, made, typed>>
      /\ fails < MaxFails /\ fails' = fails + 1
  BY DEF RegisterFails, Fails
<1>3. fails' \in fails..MaxFails  BY <1>2, BoundAssumption DEF IInv, MachineOK
<1>4. CASE p = Agent \/ proc[p].does = "enrol"
  <2> PICK pc : pc = AfterRegister(p)  OBVIOUS
  <2>1. Goes(p, pc)  BY <1>4 DEF RegisterFails
  <2>2. pc \in {"restart", "refresh"} /\ (pc = "restart" <=> proc[p].does = "enrol")
    BY DEF AfterRegister
  <2>3. pc \in Pcs  BY <2>2 DEF Pcs, Owned
  <2> QED BY <1>1, <1>2, <1>3, <2>1, <2>2, <2>3, GoesOn
<1>5. CASE ~(p = Agent \/ proc[p].does = "enrol")
  <2>1. proc' = [proc EXCEPT ![p] = Off]  BY <1>5 DEF RegisterFails
  <2>2. ~Unkept(p) /\ service' \in Services
    BY <1>1, <1>2 DEF Unkept, At, IInv, MachineOK, Services
  <2> QED BY <1>2, <1>3, <1>5, <2>1, <2>2, EndsKeeps
<1> QED BY <1>4, <1>5

LEMMA RefusedKeeps == ASSUME IInv, NEW p \in Processes, Refused(p) PROVE IInv'
<1>1. Fits(p, proc[p]) /\ proc[p].pc \in {"register", "refresh", "ready"}
  BY ProcIs DEF Refused
<1>2. UNCHANGED <<server, machine, made, typed, fails>>  BY DEF Refused, counts
<1>3. CASE proc[p].does = "enrol"
  <2>1. Goes(p, "restart") /\ service' = service  BY <1>3 DEF Refused
  <2>2. fails' \in fails..MaxFails  BY <1>2 DEF IInv, MachineOK
  <2>3. proc[p].pc = "register" /\ "restart" \in Pcs  BY <1>1, <1>3 DEF Fits, Pcs
  <2> QED BY <1>2, <1>3, <2>1, <2>2, <2>3, GoesOn
<1>4. CASE proc[p].does # "enrol"
  <2>1. Ends(p, "revoked")  BY <1>4 DEF Refused
  <2>2. ~Unkept(p)  BY <1>1 DEF Unkept, At
  <2> QED BY <1>2, <1>4, <2>1, <2>2, GivesUp DEF counts
<1> QED BY <1>3, <1>4

\* Where a command that is done goes.
LEMMA Settled ==
    ASSUME IInv, NEW p \in Processes, Settles(p)
    PROVE  \/ proc' = [proc EXCEPT ![p] = Off] /\ proc[p].does \notin {"run", "rekey"}
           \/ Goes(p, "ready") /\ proc[p].does \in {"run", "rekey"}
<1>1. CASE proc[p].does \in {"run", "rekey"}  BY <1>1 DEF Settles, Then, Goes
<1>2. CASE proc[p].does \notin {"run", "rekey"}  BY <1>2 DEF Settles, Then
<1> QED BY <1>1, <1>2

LEMMA UpToDateKeeps == ASSUME IInv, NEW p \in Processes, UpToDate(p) PROVE IInv'
<1>1. Fits(p, proc[p]) /\ proc[p].pc = "refresh"  BY ProcIs DEF UpToDate, At
<1>2. UNCHANGED <<server, machine, service, made, typed, fails>>  BY DEF UpToDate, counts
<1>3. /\ fails' \in fails..MaxFails /\ service' \in Services /\ ~Unkept(p)
      /\ proc[p].does # "enrol" /\ "ready" \in Pcs
  BY <1>1, <1>2 DEF IInv, MachineOK, Services, Unkept, At, Fits, Pcs, Owned
<1>4. CASE proc' = [proc EXCEPT ![p] = Off] /\ proc[p].does \notin {"run", "rekey"}
  <2>1. p # Agent  BY <1>1, <1>4 DEF Fits
  <2> QED BY <1>2, <1>3, <1>4, <2>1, EndsKeeps
<1>5. CASE Goes(p, "ready")  BY <1>1, <1>2, <1>3, <1>5, GoesOn
<1> QED BY <1>4, <1>5, Settled DEF UpToDate

LEMMA RefreshFailsKeeps == ASSUME IInv, NEW p \in Processes, RefreshFails(p) PROVE IInv'
<1>1. Fits(p, proc[p]) /\ proc[p].pc = "refresh"  BY ProcIs DEF RefreshFails, At
<1>2. /\ UNCHANGED <<server, machine, service, made, typed>>
      /\ fails < MaxFails /\ fails' = fails + 1
  BY DEF RefreshFails, Fails
<1>3. fails' \in fails..MaxFails  BY <1>2, BoundAssumption DEF IInv, MachineOK
<1>4. service' \in Services /\ ~Unkept(p) /\ proc[p].does # "enrol" /\ "ready" \in Pcs
  BY <1>1, <1>2 DEF IInv, MachineOK, Services, Unkept, At, Fits, Pcs, Owned
<1>5. CASE p = Agent  BY <1>1, <1>2, <1>3, <1>4, <1>5, GoesOn DEF RefreshFails
<1>6. CASE p # Agent  BY <1>2, <1>3, <1>4, <1>6, EndsKeeps DEF RefreshFails
<1> QED BY <1>5, <1>6

LEMMA StrandedKeeps == ASSUME IInv, NEW p \in Processes, Stranded(p) PROVE IInv'
<1>1. Fits(p, proc[p]) /\ proc[p].pc \in {"refresh", "ready"}
  BY ProcIs DEF Stranded, Asks, At
<1>2. proc[p].does # "enrol" /\ ~Unkept(p)  BY <1>1 DEF Fits, Unkept, At
<1> QED BY <1>2, GivesUp DEF Stranded

LEMMA RekeyFailsKeeps == ASSUME IInv, NEW t \in Terminals, RekeyFails(t) PROVE IInv'
<1>1. t \in Processes /\ t # Agent /\ Fits(t, proc[t]) /\ proc[t].pc = "ready"
  BY ProcIs, AgentApart DEF RekeyFails, At
<1>2. proc[t].does # "enrol" /\ ~Unkept(t)  BY <1>1 DEF Fits, Unkept, At
<1>3. UNCHANGED <<server, machine, service, made, typed, fails>>  BY DEF RekeyFails, counts
<1>4. fails' \in fails..MaxFails /\ service' \in Services
  BY <1>3 DEF IInv, MachineOK, Services
<1> QED BY <1>1, <1>2, <1>3, <1>4, EndsKeeps DEF RekeyFails

LEMMA RefreshKeeps == ASSUME IInv, NEW p \in Processes, Refresh(p) PROVE IInv'
<1> PICK w : w = proc[p]  OBVIOUS
<1>1. w \in Procs /\ Fits(p, w) /\ w.pc \in {"refresh", "ready"}
  BY ProcIs DEF Refresh, Asks, At
<1>2. /\ UNCHANGED <<server, machine, service, made, typed, fails>>
      /\ proc' = [proc EXCEPT ![p].conf.keys = @ \cup {epoch}, ![p].pc = "save"]
  BY DEF Refresh, counts
<1> PICK c : c = [w.conf EXCEPT !.keys = @ \cup {epoch}]  OBVIOUS
<1> PICK x : x = [w EXCEPT !.conf = c, !.pc = "save"]  OBVIOUS
<1>3. c \in Config /\ c.dev = w.conf.dev /\ c.pair = w.conf.pair
  BY <1>1 DEF Procs, Config, IInv, ServerOK
<1>4. x \in Procs /\ x.pc = "save" /\ x.does = w.does /\ x.conf = c /\ x.pair = w.pair
  BY <1>1, <1>3 DEF Procs, Pcs, Owned
<1>5. proc' = [proc EXCEPT ![p] = x]  BY <1>2 DEF IInv, ProcsOK
<1>6. Turns(p, x)  BY <1>4, <1>5, TurnsOne DEF IInv
<1>7. w.conf.dev # None /\ w.conf.pair # None /\ w.does \notin {"enrol", "receive"}
  BY <1>1 DEF Fits, Owned
<1>8. Fits(p, x)  BY <1>1, <1>3, <1>4, <1>7 DEF Fits, Owned, Leaving, Unpaired
<1>9. Follows(p, x)
  <2>1. ~Unkept(p) /\ ~AtKey(w) /\ ~EnrolsIn(w) /\ HoldsIn(w) /\ CopyIs(x, w.conf)
    BY <1>1, <1>3, <1>4, <1>7 DEF Unkept, At, AtKey, HoldsIn, CopyIs, EnrolsIn
  <2>2. x.conf.dev = Mine(p) /\ x.conf.pair = w.conf.pair  BY <1>3, <1>4 DEF Mine
  <2>3. RegisteredIn(x) => RegisteredIn(w)  BY <1>1, <1>4, <1>7 DEF RegisteredIn
  <2> QED BY <1>4, <2>1, <2>2, <2>3 DEF Follows
<1>10. (proc'[Agent].pc = "off") <=> (service' # "up")
  <2>1. w.pc # "off" /\ x.pc # "off" /\ service' = service  BY <1>1, <1>2, <1>4
  <2> QED BY <1>5, <2>1, Up
<1>11. service' \in Services /\ typed' \in 0..MaxTyped /\ fails' \in fails..MaxFails
  BY <1>2 DEF IInv, MachineOK, Services
<1> QED BY <1>2, <1>6, <1>8, <1>9, <1>10, <1>11, Reads

\* What a process saves over the file is the copy of its device.
LEMMA SavesKeeps ==
    ASSUME IInv, NEW p \in Processes, NEW x, Turns(p, x), Fits(p, x), Saves(proc[p].conf),
           UNCHANGED <<server, service, counts>>, proc[p].pc \in {"save", "rotated"},
           \/ x = Off
           \/ /\ x.conf = proc[p].conf /\ x.pair = proc[p].pair
              /\ x.pc = "restart" \/ (x.pc = "ready" /\ proc[p].does # "receive"),
           (proc'[Agent].pc = "off") <=> (service' # "up")
    PROVE  IInv'
<1> PICK w : w = proc[p]  OBVIOUS
<1>1. w \in Procs /\ Fits(p, w)  BY ProcIs
<1>2. w.conf \in Config /\ w.conf.dev # None  BY <1>1 DEF Fits, Owned, Procs
<1>3. /\ MachineOK' /\ file' = w.conf /\ tray' = tray /\ Left \subseteq Left'
      /\ file.dev \in Left' \cup {file'.dev, None}
  BY <1>2, Saved DEF counts, IInv, MachineOK
<1>4. ServerOK'  BY DEF IInv, ServerOK, server
<1>5. ~Unkept(p) /\ x.pc \notin {"tray", "clear"}  BY OffIs DEF Unkept, At
<1>6. x.conf.dev \in {None, Mine(p)}  BY OffIs, NoFileIs DEF Mine
<1>7. Remembers(p, x)
  BY <1>3, <1>5, <1>6 DEF Remembers, server, Active, Mine
<1>8. ASSUME OneTerminal PROVE Agrees(p, x)
  <2>1. w.does # "enrol" /\ ~AtKey(w) /\ ~EnrolsIn(w) /\ HoldsIn(w)
    BY <1>1, <1>2 DEF Fits, AtKey, EnrolsIn, HoldsIn
  <2>2. w.conf.pair # None
    <3>1. CASE w.does # "receive"
      BY <1>1, <3>1 DEF Fits
    <3>2. CASE w.does = "receive"
      <4>1. p \in Terminals  BY <1>1, <3>2 DEF Fits, Processes
      <4>2. NoneEnrols  BY <1>8, <2>1, <4>1 DEF OneTerminal, NoneEnrols
      <4>3. CopiesAgree  BY <1>8, <4>2, AgreedIs DEF IInv
      <4> QED BY <2>1, <4>3 DEF CopiesAgree
    <3> QED BY <3>1, <3>2
  <2>3. HoldsIn(x) => CopyIs(x, w.conf)  BY OffIs, NoFileIs DEF HoldsIn, CopyIs
  <2>4. RegisteredIn(x) => RegisteredIn(w) /\ CopyIs(x, w.conf) /\ x.pair = w.pair
    BY OffIs DEF RegisteredIn, CopyIs
  <2>5. CopyIs(w, file') /\ file'.pair # None  BY <1>3, <2>2 DEF CopyIs
  <2> QED BY <2>1, <2>3, <2>4, <2>5 DEF Agrees, server
<1> QED BY <1>3, <1>4, <1>7, <1>8, Stands

LEMMA SaveKeeps == ASSUME IInv, NEW p \in Processes, Save(p) PROVE IInv'
<1> PICK w : w = proc[p]  OBVIOUS
<1>1. w \in Procs /\ Fits(p, w) /\ w.pc = "save"  BY ProcIs DEF Save, At
<1>2. Saves(w.conf) /\ UNCHANGED <<server, service, counts>>  BY DEF Save
<1>3. CASE \E pc \in {"restart", "ready"} :
             Goes(p, pc) /\ (pc = "restart" <=> w.does = "receive")
  <2> PICK pc \in {"restart", "ready"} : Goes(p, pc) /\ (pc = "restart" <=> w.does = "receive")
    BY <1>3
  <2>1. pc \in Pcs  BY DEF Pcs, Owned
  <2>2. PICK x \in Procs : /\ Turns(p, x) /\ x.pc = pc /\ x.does = w.does
                           /\ x.conf = w.conf /\ x.pair = w.pair
                           /\ proc' = [proc EXCEPT ![p] = x]
    BY <2>1, Going DEF IInv
  <2>3. Fits(p, x)
    <3>1. CASE pc = "restart"  BY <1>1, <2>2, <3>1 DEF Fits, Owned, Leaving, Unpaired
    <3>2. CASE pc = "ready"
      <4>1. w.conf.dev # None /\ w.conf.pair # None /\ w.does # "enrol"
        BY <1>1, <3>2 DEF Fits, Owned
      <4> QED BY <1>1, <2>2, <3>2, <4>1 DEF Fits, Owned, Leaving, Unpaired
    <3> QED BY <3>1, <3>2
  <2>4. (proc'[Agent].pc = "off") <=> (service' # "up")
    <3>1. w.pc # "off" /\ x.pc # "off"  BY <1>1, <2>2
    <3> QED BY <1>2, <2>2, <3>1, Up
  <2>5. x.pc = "restart" \/ (x.pc = "ready" /\ w.does # "receive")  BY <2>2
  <2> QED BY <1>1, <1>2, <2>2, <2>3, <2>4, <2>5, SavesKeeps
<1>4. CASE proc' = [proc EXCEPT ![p] = Off] /\ w.does \notin {"run", "rekey"}
  <2>1. Turns(p, Off)  BY <1>4, Stopping DEF IInv
  <2>2. p # Agent  BY <1>1, <1>4 DEF Fits
  <2>3. (proc'[Agent].pc = "off") <=> (service' # "up")  BY <1>2, <1>4, <2>2, Up
  <2> QED BY <1>1, <1>2, <2>1, <2>3, OffIs, SavesKeeps
<1>5. CASE w.does = "receive"
  <2>1. Goes(p, "restart")  BY <1>5 DEF Save
  <2> QED BY <1>3, <1>5, <2>1
<1>6. CASE w.does # "receive"
  <2>1. Settles(p)  BY <1>6 DEF Save
  <2>2. (Goes(p, "ready") /\ w.does \in {"run", "rekey"})
        \/ (proc' = [proc EXCEPT ![p] = Off] /\ w.does \notin {"run", "rekey"})
    BY <2>1, Settled
  <2>3. CASE Goes(p, "ready")
    <3>1. \E pc \in {"restart", "ready"} : Goes(p, pc) /\ (pc = "restart" <=> w.does = "receive")
      BY <1>6, <2>3
    <3> QED BY <1>3, <3>1
  <2> QED BY <1>4, <2>2, <2>3
<1> QED BY <1>5, <1>6

LEMMA SaveRekeyedKeeps == ASSUME IInv, NEW t \in Terminals, SaveRekeyed(t) PROVE IInv'
<1>1. t \in Processes /\ t # Agent  BY AgentApart
<1>2. /\ proc[t].pc = "rotated" /\ Saves(proc[t].conf) /\ proc' = [proc EXCEPT ![t] = Off]
      /\ UNCHANGED <<server, service, counts>>
  BY DEF SaveRekeyed, At
<1>3. Turns(t, Off)  BY <1>1, <1>2, Stopping DEF IInv
<1>4. (proc'[Agent].pc = "off") <=> (service' # "up")  BY <1>1, <1>2, Up
<1> QED BY <1>1, <1>2, <1>3, <1>4, OffIs, SavesKeeps

LEMMA RotatesOK == ASSUME IInv, Rotates PROVE ServerOK' /\ UNCHANGED <<status, pub>>
<1>1. epoch \in Nat /\ epoch < MaxEpoch /\ epoch' = epoch + 1
  BY BoundAssumption DEF Rotates, IInv, ServerOK, Epochs
<1>2. epoch' \in Epochs  BY <1>1, BoundAssumption DEF Epochs
<1>3. sealed' \in [Devices -> Pairs \cup {None}]  BY DEF Rotates, IInv, ServerOK
<1> QED BY <1>2, <1>3 DEF Rotates, IInv, ServerOK

\* What `rekey` adds to its copy is a key.
LEMMA RekeysKeeps == ASSUME IInv, NEW t \in Terminals, Rekeys(t) PROVE IInv'
<1> PICK w : w = proc[t]  OBVIOUS
<1>0. t \in Processes /\ t # Agent  BY AgentApart
<1>1. w \in Procs /\ Fits(t, w) /\ w.pc = "ready"  BY <1>0, ProcIs DEF Rekeys, At
<1>2. /\ UNCHANGED <<machine, service, counts>> /\ Rotates
      /\ proc' = [proc EXCEPT ![t].conf.keys = @ \cup {epoch'}, ![t].pc = "rotated"]
  BY DEF Rekeys
<1>3. ServerOK' /\ UNCHANGED <<status, pub>>  BY <1>2, RotatesOK
<1> PICK e : e = epoch'  OBVIOUS
<1>4. e \in Epochs  BY <1>3 DEF ServerOK
<1> PICK c : c = [w.conf EXCEPT !.keys = @ \cup {e}]  OBVIOUS
<1> PICK x : x = [w EXCEPT !.conf = c, !.pc = "rotated"]  OBVIOUS
<1>5. c \in Config /\ c.dev = w.conf.dev /\ c.pair = w.conf.pair
  BY <1>1, <1>4 DEF Procs, Config
<1>6. x \in Procs /\ x.pc = "rotated" /\ x.does = w.does /\ x.conf = c /\ x.pair = w.pair
  BY <1>1, <1>5 DEF Procs, Pcs, Owned
<1>7. proc' = [proc EXCEPT ![t] = x]  BY <1>2 DEF IInv, ProcsOK
<1>8. Turns(t, x)  BY <1>0, <1>6, <1>7, TurnsOne DEF IInv
<1>9. w.conf.dev # None /\ w.conf.pair # None /\ w.does \notin {"enrol", "receive", "run"}
  BY <1>0, <1>1 DEF Fits, Owned
<1>10. Fits(t, x)  BY <1>0, <1>1, <1>5, <1>6, <1>9 DEF Fits, Owned, Leaving, Unpaired
<1>11. MachineOK'  BY <1>2 DEF IInv, MachineOK, machine, counts
<1>12. (proc'[Agent].pc = "off") <=> (service' # "up")  BY <1>0, <1>2, <1>7, Up
<1>13. Remembers(t, x)
  <2>1. ~Unkept(t) /\ x.pc \notin {"tray", "clear"} /\ x.conf.dev = Mine(t)
    BY <1>1, <1>5, <1>6 DEF Unkept, At, Mine
  <2> QED BY <1>2, <1>3, <2>1 DEF Remembers, machine, Active, Left
<1>14. Agrees(t, x)
  <2>1. ~AtKey(w) /\ ~EnrolsIn(w) /\ HoldsIn(w) /\ CopyIs(x, w.conf)
    BY <1>1, <1>5, <1>6, <1>9 DEF AtKey, HoldsIn, CopyIs, EnrolsIn
  <2>2. RegisteredIn(x) => RegisteredIn(w)  BY <1>1, <1>6 DEF RegisteredIn
  <2> QED BY <1>2, <1>3, <1>6, <2>1, <2>2 DEF Agrees, machine
<1> QED BY <1>0, <1>3, <1>8, <1>10, <1>11, <1>12, <1>13, <1>14, Stands

\* A step of the server alone, or of none.
LEMMA ElsewhereKeeps ==
    ASSUME IInv, UNCHANGED <<machine, service, proc, counts>>, ServerOK', pub' = pub,
           \A d \in Devices : (Active(d)' => Active(d)) /\ (status[d] # "new" => status'[d] # "new")
    PROVE  IInv'
<1> PICK x : x = proc[Agent]  OBVIOUS
<1>1. Fits(Agent, x)  BY ProcIs, AgentApart
<1>2. Turns(Agent, x)  BY DEF Turns, IInv, ProcsOK
<1>3. MachineOK'  BY DEF IInv, MachineOK, machine, counts
<1>4. (proc'[Agent].pc = "off") <=> (service' # "up")  BY DEF IInv, ProcsOK, At
<1>5. ~Unkept(Agent) /\ x.pc \notin {"tray", "clear"} /\ x.conf.dev = Mine(Agent)
  BY <1>1 DEF Unkept, At, Mine, Fits, Leaving
<1>6. Remembers(Agent, x)  BY <1>5 DEF Remembers, machine, Left
<1>7. x.does # "enrol"  BY <1>1 DEF Fits
<1>8. Agrees(Agent, x)
  BY <1>7 DEF Agrees, machine, EnrolsIn, HoldsIn, CopyIs, AtKey
<1> QED BY <1>1, <1>2, <1>3, <1>4, <1>6, <1>8, AgentApart, Stands

LEMMA RekeyedElsewhereKeeps == ASSUME IInv, RekeyedElsewhere PROVE IInv'
<1>1. ServerOK' /\ UNCHANGED <<status, pub>>  BY RotatesOK DEF RekeyedElsewhere
<1> QED BY <1>1, ElsewhereKeeps DEF RekeyedElsewhere, Active

LEMMA StutterKeeps == ASSUME IInv, UNCHANGED vars PROVE IInv'
<1>1. ServerOK'  BY DEF IInv, ServerOK, vars, server
<1> QED BY <1>1, ElsewhereKeeps DEF vars, server, Active

LEMMA Revoked ==
    ASSUME IInv, NEW ds \in SUBSET Devices, Revoke(ds)
    PROVE  /\ ServerOK' /\ pub' = pub
           /\ \A d \in Devices : /\ Active(d)' => Active(d) /\ d \notin ds
                                 /\ status[d] # "new" => status'[d] # "new"
<1>1. \A d \in Devices : status'[d] = IF d \in ds THEN "revoked" ELSE status[d]
  BY DEF Revoke
<1>2. sealed' \in [Devices -> Pairs \cup {None}]  BY DEF Revoke, IInv, ServerOK
<1>3. status' \in [Devices -> {"new", "active", "revoked"}]  BY DEF Revoke, IInv, ServerOK
<1>4. pub' = pub /\ epoch' = epoch  BY DEF Revoke
<1> QED BY <1>1, <1>2, <1>3, <1>4 DEF IInv, ServerOK, Active

LEMMA RevokedElsewhereKeeps == ASSUME IInv, NEW d \in Devices, RevokedElsewhere(d) PROVE IInv'
<1>1. Revoke({d}) /\ UNCHANGED <<machine, service, proc, counts>>  BY DEF RevokedElsewhere
<1>2. /\ ServerOK' /\ pub' = pub
      /\ \A e \in Devices : (Active(e)' => Active(e)) /\ (status[e] # "new" => status'[e] # "new")
  BY <1>1, Revoked
<1> QED BY <1>1, <1>2, ElsewhereKeeps

\* `logout` goes on once the device is revoked, or left.
LEMMA RevokesSelfKeeps ==
    ASSUME IInv, NEW t \in Terminals, NEW d \in Devices \cup {None}, NEW next \in {"tray", "clear"},
           RevokesSelf(t, d, next), proc[t].does = "logout", proc[t].pc \in {"revoke", "tray"},
           next = "tray" => d = Mine(t),
           next = "clear" => d = tray /\ Excused(Mine(t))
    PROVE  IInv'
<1>0. t \in Processes /\ t # Agent  BY AgentApart
<1>1. /\ Goes(t, next) /\ UNCHANGED <<file, tray, over, service, made, typed>>
      /\ \/ Active(d) /\ Revoke({d}) /\ UNCHANGED <<left, fails>>
         \/ Active(d) /\ Fails("revoke") /\ left' = left \cup {d} /\ UNCHANGED server
         \/ ~Active(d) /\ UNCHANGED <<server, left, fails>>
  BY DEF RevokesSelf
<1>2. next \in Pcs  BY DEF Pcs, Leaving
<1>3. PICK x \in Procs : /\ Turns(t, x) /\ x.pc = next /\ x.does = proc[t].does
                         /\ x.conf = proc[t].conf /\ x.pair = proc[t].pair
                         /\ proc' = [proc EXCEPT ![t] = x]
  BY <1>0, <1>1, <1>2, Going DEF IInv
<1>4. Fits(t, x)  BY <1>0, <1>3 DEF Fits, Owned, Leaving, Unpaired
<1>5. Active(d) => d \in Devices  BY DEF Active
<1>6. ServerOK' /\ pub' = pub /\ (\A e \in Devices : /\ Active(e)' => Active(e)
                                                     /\ status[e] # "new" => status'[e] # "new")
  <2>1. CASE Active(d) /\ Revoke({d})
    <3>1. {d} \in SUBSET Devices  BY <1>5, <2>1
    <3> QED BY <2>1, <3>1, Revoked
  <2>2. CASE UNCHANGED server  BY <2>2 DEF IInv, ServerOK, server, Active
  <2> QED BY <1>1, <2>1, <2>2
<1>7. Left \subseteq Left' /\ (d # None /\ status'[d] = "active" => d \in Left')
  <2>1. CASE Active(d) /\ Revoke({d}) /\ UNCHANGED <<left, fails>>
    <3>1. status'[d] = "revoked"  BY <1>5, <2>1 DEF Revoke
    <3> QED BY <1>1, <2>1, <3>1 DEF Left
  <2>2. CASE left' = left \cup {d}  BY <1>1, <2>2 DEF Left
  <2>3. CASE ~Active(d) /\ UNCHANGED <<server, left, fails>>
    BY <1>1, <2>3 DEF Active, server, Left
  <2> QED BY <1>1, <2>1, <2>2, <2>3
<1>8. MachineOK'
  <2>1. left' \subseteq Devices  BY <1>1, <1>5 DEF IInv, MachineOK
  <2>2. fails' \in 0..MaxFails /\ (left' # {} => fails' > 0)
    BY <1>1, BoundAssumption DEF IInv, MachineOK, Fails
  <2> QED BY <1>1, <2>1, <2>2 DEF IInv, MachineOK
<1>9. (proc'[Agent].pc = "off") <=> (service' # "up")  BY <1>0, <1>1, <1>3, Up
<1>10. Mine(t) \in Devices \cup {None} /\ x.conf.dev = Mine(t)
  <2>1. proc[t] \in Procs  BY <1>0, ProcIs
  <2> QED BY <1>3, <2>1 DEF Procs, Config, Mine
<1>11. Remembers(t, x)
  <2>1. ~Unkept(t)  BY DEF Unkept, At
  <2>2. Active(x.conf.dev)' => x.conf.dev \in Left'
    <3>1. CASE next = "tray"  BY <1>7, <1>10, <3>1 DEF Active
    <3>2. CASE next = "clear"
      <4> PICK m : m = Mine(t)  OBVIOUS
      <4>1. Excused(m) /\ m \in Devices \cup {None}  BY <1>10, <3>2 DEF Excused
      <4>2. (m # None /\ status'[m] = "active") => m \in Left'
        BY <1>6, <1>7, <4>1 DEF Excused, Active
      <4> QED BY <1>10, <4>2 DEF Active
    <3> QED BY <3>1, <3>2
  <2>3. x.pc = "clear" => (Active(tray)' => tray \in Left')
    BY <1>1, <1>3, <1>7 DEF Active
  <2> QED BY <1>1, <1>6, <1>7, <1>10, <2>1, <2>2, <2>3 DEF Remembers
<1>12. Agrees(t, x)
  <2>1. ~AtKey(proc[t]) /\ ~EnrolsIn(proc[t])  BY DEF AtKey, EnrolsIn
  <2>2. ~RegisteredIn(x)  BY <1>3 DEF RegisteredIn
  <2>3. HoldsIn(x) => HoldsIn(proc[t]) /\ CopyIs(x, proc[t].conf)
    BY <1>3 DEF HoldsIn, CopyIs
  <2> QED BY <1>1, <1>6, <2>1, <2>2, <2>3 DEF Agrees
<1> QED BY <1>0, <1>3, <1>4, <1>6, <1>8, <1>9, <1>11, <1>12, Stands

LEMMA LogsOutKeeps == ASSUME IInv, NEW t \in Terminals, LogsOut(t) PROVE IInv'
<1>1. proc[t].pc = "revoke" /\ proc[t].does = "logout" /\ RevokesSelf(t, Mine(t), "tray")
  BY DEF LogsOut, At
<1>2. Mine(t) \in Devices \cup {None}  BY ProcIs, AgentApart DEF Mine, Procs, Config
<1> QED BY <1>1, <1>2, RevokesSelfKeeps

LEMMA LogsOutTrayKeeps == ASSUME IInv, NEW t \in Terminals, LogsOutTray(t) PROVE IInv'
<1>1. proc[t].pc = "tray" /\ RevokesSelf(t, tray, "clear")  BY DEF LogsOutTray, At
<1>2. proc[t].does = "logout"  BY <1>1, ProcIs, AgentApart DEF Fits
<1>3. tray \in Devices \cup {None}  BY TrayAssumption DEF IInv, MachineOK
<1>4. Excused(Mine(t))  BY <1>1 DEF IInv, Known
<1> QED BY <1>1, <1>2, <1>3, <1>4, RevokesSelfKeeps

LEMMA DeletesKeeps == ASSUME IInv, NEW t \in Terminals, Deletes(t) PROVE IInv'
<1>0. t \in Processes /\ t # Agent  BY AgentApart
<1>1. /\ proc[t].pc = "revoke" /\ proc[t].does = "delete" /\ UNCHANGED <<machine, service, counts>>
  BY DEF Deletes, At
<1>2. CASE ~Active(Mine(t))
  <2>1. proc' = [proc EXCEPT ![t] = Off] /\ UNCHANGED server  BY <1>2 DEF Deletes
  <2>2. service' \in Services /\ fails' \in fails..MaxFails /\ UNCHANGED <<made, typed>>
    BY <1>1 DEF counts, IInv, MachineOK, Services
  <2>3. ~Unkept(t)  BY <1>1 DEF Unkept, At
  <2> QED BY <1>0, <1>1, <2>1, <2>2, <2>3, EndsKeeps
<1>3. CASE Active(Mine(t))
  <2> PICK ds : ds = {d \in Devices : Active(d)}  OBVIOUS
  <2>1. Goes(t, "clear") /\ Revoke(ds) /\ ds \in SUBSET Devices  BY <1>3 DEF Deletes
  <2>2. "clear" \in Pcs  BY DEF Pcs, Leaving
  <2>3. PICK x \in Procs : /\ Turns(t, x) /\ x.pc = "clear" /\ x.does = proc[t].does
                           /\ x.conf = proc[t].conf /\ x.pair = proc[t].pair
                           /\ proc' = [proc EXCEPT ![t] = x]
    BY <1>0, <2>1, <2>2, Going DEF IInv
  <2>4. Fits(t, x)  BY <1>0, <1>1, <2>3 DEF Fits, Owned, Leaving, Unpaired
  <2>5. ServerOK' /\ pub' = pub /\ (\A e \in Devices : /\ Active(e)' => Active(e) /\ e \notin ds
                                                       /\ status[e] # "new" => status'[e] # "new")
    BY <2>1, Revoked
  <2>6. \A e \in Devices : status'[e] # "active"  BY <2>5, Counts DEF Active
  <2>7. MachineOK'  BY <1>1 DEF IInv, MachineOK, machine, counts
  <2>8. (proc'[Agent].pc = "off") <=> (service' # "up")  BY <1>0, <1>1, <2>3, Up
  <2>9. Remembers(t, x)
    <3>1. ~Unkept(t) /\ x.conf.dev = Mine(t) /\ x.conf.dev \in Devices \cup {None}
      BY <1>1, <2>3 DEF Unkept, At, Mine, Procs, Config
    <3>2. tray \in Devices \cup {None}  BY TrayAssumption DEF IInv, MachineOK
    <3>3. Active(x.conf.dev)' => x.conf.dev \in Left'  BY <2>6, <3>1 DEF Active
    <3>4. Active(tray)' => tray \in Left'  BY <1>1, <2>6, <3>2 DEF Active, machine, Left
    <3> QED BY <1>1, <2>5, <3>1, <3>3, <3>4 DEF Remembers, machine, Left
  <2>10. Agrees(t, x)
    <3>1. ~AtKey(proc[t]) /\ ~EnrolsIn(proc[t])  BY <1>1 DEF AtKey, EnrolsIn
    <3>2. ~RegisteredIn(x)  BY <2>3 DEF RegisteredIn
    <3>3. HoldsIn(x) => HoldsIn(proc[t]) /\ CopyIs(x, proc[t].conf)
      BY <1>1, <2>3 DEF HoldsIn, CopyIs
    <3> QED BY <1>1, <2>5, <3>1, <3>2, <3>3 DEF Agrees, machine
  <2> QED BY <1>0, <2>3, <2>4, <2>5, <2>7, <2>8, <2>9, <2>10, Stands
<1> QED BY <1>2, <1>3

\* The file is emptied once the devices it and the command go by are gone, left or saved over.
LEMMA ClearsKeeps == ASSUME IInv, NEW t \in Terminals, Clears(t) PROVE IInv'
<1>0. t \in Processes /\ t # Agent  BY AgentApart
<1>1. /\ proc[t].pc = "clear" /\ file' = NoFile /\ tray' = None
      /\ over' = over \cup ({file.dev} \ {Mine(t), None})
      /\ proc' = [proc EXCEPT ![t] = Off] /\ UNCHANGED <<server, left, service, counts>>
  BY DEF Clears, At
<1>2. Turns(t, Off)  BY <1>0, <1>1, Stopping DEF IInv
<1>3. ServerOK'  BY <1>1 DEF IInv, ServerOK, server
<1>4. MachineOK'
  <2>1. over' \subseteq Devices  BY <1>1 DEF IInv, MachineOK, Config
  <2> QED BY <1>1, <2>1, NoFileIs DEF IInv, MachineOK, counts
<1>5. (proc'[Agent].pc = "off") <=> (service' # "up")  BY <1>0, <1>1, Up
<1>6. ProcsOK'  BY <1>0, <1>2, <1>5, OffIs, ProcsStand DEF IInv
<1>7. \A q \in Processes \ {t} : proc'[q] = proc[q]  BY <1>1 DEF IInv, ProcsOK
<1>8. file'.dev = None /\ status' = status /\ Left \subseteq Left' /\ proc'[t] = Off
  BY <1>1, <1>2, NoFileIs DEF server, Turns, Left
<1>9. Known'
  <2>1. Enrolled(file.dev)' /\ Enrolled(tray)'  BY <1>1, <1>8 DEF Enrolled
  <2>2. ASSUME NEW q \in Processes PROVE Enrolled(Mine(q))'
    <3>1. CASE q = t  BY <1>8, <3>1, OffIs, NoFileIs DEF Enrolled, Mine
    <3>2. CASE q # t  BY <1>7, <1>8, <3>2 DEF Enrolled, Mine, IInv, Known
    <3> QED BY <3>1, <3>2
  <2>3. ASSUME NEW e \in Devices, Active(e)'
        PROVE  \/ e \in Left' \cup {file'.dev, tray'}
               \/ \E s \in Terminals : Unkept(s)' /\ Mine(s)' = e
    <3>1. Active(e)  BY <1>8, <2>3 DEF Active
    <3>2. CASE e \in Left  BY <1>8, <3>2
    <3>3. CASE e = file.dev
      <4>1. CASE e = Mine(t)  BY <1>1, <1>8, <3>1, <4>1 DEF IInv, Known, Excused
      <4>2. CASE e # Mine(t)  BY <1>1, <3>3, <4>2, Counts DEF Left
      <4> QED BY <4>1, <4>2
    <3>4. CASE e = tray  BY <1>1, <1>8, <3>1, <3>4 DEF IInv, Known, Excused, At
    <3>5. CASE \E s \in Terminals : Unkept(s) /\ Mine(s) = e
      <4> PICK s \in Terminals : Unkept(s) /\ Mine(s) = e  BY <3>5
      <4>1. s # t  BY <1>1 DEF Unkept, At
      <4>2. Unkept(s)' /\ Mine(s)' = e  BY <1>7, <4>1, AgentApart DEF Unkept, At, Mine
      <4> QED BY <4>2
    <3> QED BY <3>1, <3>2, <3>3, <3>4, <3>5 DEF IInv, Known
  <2>4. ASSUME NEW s \in Terminals
        PROVE  /\ proc'[s].pc \in {"tray", "clear"} => Excused(Mine(s))'
               /\ proc'[s].pc = "clear" => Excused(tray)'
    <3>1. CASE s = t  BY <1>8, <3>1, OffIs
    <3>2. CASE s # t
      <4>1. proc'[s] = proc[s]  BY <1>7, <3>2, AgentApart
      <4>2. Excused(Mine(s)) => Excused(Mine(s))'  BY <1>8, <4>1 DEF Excused, Active, Mine
      <4>3. Excused(tray)'  BY <1>1 DEF Excused, Active
      <4> QED BY <4>1, <4>2, <4>3 DEF IInv, Known
    <3> QED BY <3>1, <3>2
  <2> QED BY <2>1, <2>2, <2>3, <2>4 DEF Known, At
<1>10. Agrees(t, Off)
  <2>1. Fits(t, proc[t])  BY <1>0, ProcIs
  <2>2. ~AtKey(proc[t]) /\ ~EnrolsIn(proc[t])  BY <1>1, <2>1 DEF AtKey, EnrolsIn, Fits
  <2>3. ~HoldsIn(Off) /\ ~RegisteredIn(Off)  BY OffIs, NoFileIs DEF HoldsIn, RegisteredIn
  <2> QED BY <1>1, <1>8, <2>2, <2>3 DEF Agrees, server
<1>11. OneTerminal => Agreed'  BY <1>0, <1>2, <1>10, AgreedStands DEF IInv
<1>12. (OneTerminal => Agreed)'  BY <1>11 DEF OneTerminal
<1> QED BY <1>3, <1>4, <1>6, <1>9, <1>12 DEF IInv

-----------------------------------------------------------------------------
(* The invariant holds from the start, and every step keeps it.            *)

LEMMA Initially == ASSUME Init PROVE IInv
<1>1. /\ status = [d \in Devices |-> IF d = Tray THEN "active" ELSE "new"]
      /\ pub = [d \in Devices |-> None] /\ sealed = [d \in Devices |-> None]
      /\ epoch = 0 /\ file = NoFile /\ tray = Tray
      /\ service = "absent" /\ proc = [p \in Processes |-> Off]
      /\ made = 0 /\ left = {} /\ over = {} /\ typed = 0 /\ fails = 0
  BY DEF Init
<1>2. \A p \in Processes : proc[p] = Off  BY <1>1
<1>3. ProcsOK  BY <1>1, <1>2, OffIs, AgentApart DEF ProcsOK, At
<1>4. ServerOK  BY <1>1, Counts DEF ServerOK
<1>5. MachineOK  BY <1>1, NoFileIs, BoundAssumption DEF MachineOK
<1>6. Known
  <2>1. \A p \in Processes : Mine(p) = None  BY <1>2, OffIs, NoFileIs DEF Mine
  <2>2. Enrolled(file.dev) /\ \A p \in Processes : Enrolled(Mine(p))
    BY <1>1, <2>1, NoFileIs DEF Enrolled
  <2>3. Enrolled(tray)  BY <1>1, TrayAssumption DEF Enrolled
  <2>4. \A d \in Devices : Active(d) => d = tray  BY <1>1 DEF Active
  <2>5. \A t \in Terminals : proc[t].pc = "off"  BY <1>2, OffIs, AgentApart
  <2> QED BY <2>2, <2>3, <2>4, <2>5 DEF Known, At
<1>7. Agreed
  <2>1. file.dev = None  BY <1>1, NoFileIs
  <2>2. CopiesAgree  BY <1>2, OffIs, NoFileIs DEF CopiesAgree, HoldsIn, RegisteredIn
  <2> QED BY <2>1, <2>2, AgreedIs
<1> QED BY <1>3, <1>4, <1>5, <1>6, <1>7 DEF IInv

LEMMA StepKeeps == ASSUME IInv, NEW p \in Processes, Step(p) PROVE IInv'
BY LoadKeeps, NotEnrolledKeeps, MakeKeyKeeps, RegisterKeeps, RefusedKeeps, UpToDateKeeps,
   RefreshKeeps, StrandedKeeps, SaveKeeps
DEF Step

LEMMA CommandStepKeeps == ASSUME IInv, NEW t \in Terminals, CommandStep(t) PROVE IInv'
BY AgentApart, StepKeeps, KeepsKeeps, WrongPassphraseKeeps, RestartsKeeps, RekeysKeeps,
   RekeyFailsKeeps, SaveRekeyedKeeps, LogsOutKeeps, LogsOutTrayKeeps, DeletesKeeps, ClearsKeeps
DEF CommandStep

LEMMA Inductive == IInv /\ [Next]_vars => IInv'
<1> SUFFICES ASSUME IInv, [Next]_vars PROVE IInv'  OBVIOUS
<1>1. CASE AgentStarts  BY <1>1, AgentStartsKeeps
<1>2. CASE AgentDies  BY <1>2, AgentDiesKeeps
<1>3. CASE Step(Agent)  BY <1>3, AgentApart, StepKeeps
<1>4. CASE \E p \in Processes : RegisterFails(p) \/ RefreshFails(p)
  BY <1>4, RegisterFailsKeeps, RefreshFailsKeeps
<1>5. ASSUME NEW t \in Terminals, Begins(t) \/ CommandStep(t) \/ Interrupt(t) PROVE IInv'
  BY <1>5, BeginsKeeps, CommandStepKeeps, InterruptKeeps
<1>6. ASSUME NEW t \in Terminals, Enrols(t) \/ SignsIn(t) PROVE IInv'
  BY <1>6, GetsDeviceKeeps DEF Enrols, SignsIn
<1>7. ASSUME NEW t \in Terminals, Installs(t) \/ Uninstalls(t) PROVE IInv'
  BY <1>7, InstallsKeeps
<1>8. CASE RekeyedElsewhere  BY <1>8, RekeyedElsewhereKeeps
<1>9. ASSUME NEW d \in Devices, RevokedElsewhere(d) PROVE IInv'
  BY <1>9, RevokedElsewhereKeeps
<1>10. CASE UNCHANGED vars  BY <1>10, StutterKeeps
<1> QED BY <1>1, <1>2, <1>3, <1>4, <1>5, <1>6, <1>7, <1>8, <1>9, <1>10 DEF Next

\* The inductive invariant, for any number of terminals.
THEOREM Invariant == Spec => []IInv
BY Initially, Inductive, PTL DEF Spec

-----------------------------------------------------------------------------
(* An agent that works with no keypair failed to register one.             *)

Working == {"refresh", "ready", "save"}
Tried == proc[Agent].pc \in Working /\ proc[Agent].pair = None => fails > 0

\* A command moves itself, and may stop the agent; nothing takes failures back.
LEMMA OthersMove ==
    ASSUME IInv, NEW t \in Terminals,
           \/ Begins(t) \/ CommandStep(t) \/ Interrupt(t) \/ Enrols(t) \/ SignsIn(t)
           \/ Installs(t) \/ Uninstalls(t) \/ RegisterFails(t) \/ RefreshFails(t)
    PROVE  /\ fails' \in Nat /\ fails' >= fails
           /\ proc'[Agent] = proc[Agent] \/ proc'[Agent] = Off
<1>0. fails \in Nat /\ t # Agent  BY AgentApart, BoundAssumption DEF IInv, MachineOK
<1>1. fails' = fails \/ fails' = fails + 1
  <2>1. CASE Step(t)
    BY <2>1 DEF Step, Load, NotEnrolled, MakeKey, Register, Refused, UpToDate, Refresh, Stranded,
                Save, counts
  <2>2. CASE Keeps(t) \/ WrongPassphrase(t) \/ Restarts(t) \/ Rekeys(t) \/ RekeyFails(t)
             \/ SaveRekeyed(t) \/ LogsOut(t) \/ LogsOutTray(t) \/ Deletes(t) \/ Clears(t)
    BY <2>2 DEF Keeps, WrongPassphrase, Restarts, Rekeys, RekeyFails, SaveRekeyed, LogsOut,
                LogsOutTray, RevokesSelf, Deletes, Clears, Fails, counts
  <2>3. CASE ~CommandStep(t)
    BY <2>3 DEF Begins, Interrupt, Enrols, SignsIn, GetsDevice, Installs, Uninstalls,
                RegisterFails, RefreshFails, Fails
  <2> QED BY <2>1, <2>2, <2>3 DEF CommandStep
<1>2. proc'[Agent] = proc[Agent] \/ proc'[Agent] = Off
  <2>0. proc \in [Processes -> Procs] /\ Agent \in Processes  BY AgentApart DEF IInv, ProcsOK
  <2>1. CASE Step(t)
    BY <1>0, <2>0, <2>1 DEF Step, Load, NotEnrolled, MakeKey, Register, Refused, UpToDate,
          Refresh, Stranded, Save, Settles, Goes, Ends
  <2>2. CASE Keeps(t) \/ WrongPassphrase(t) \/ Rekeys(t) \/ RekeyFails(t)
             \/ SaveRekeyed(t) \/ LogsOut(t) \/ LogsOutTray(t) \/ Deletes(t) \/ Clears(t)
    BY <1>0, <2>0, <2>2 DEF Keeps, WrongPassphrase, Rekeys, RekeyFails, SaveRekeyed,
          LogsOut, LogsOutTray, RevokesSelf, Deletes, Clears, Goes
  <2>3. CASE Restarts(t)
    BY <1>0, <2>0, <2>3 DEF Restarts
  <2>4. CASE ~CommandStep(t)
    BY <1>0, <2>0, <2>4 DEF Begins, Interrupt, Enrols, SignsIn, GetsDevice, Installs,
          Uninstalls, RegisterFails, RefreshFails, Goes
  <2> QED BY <2>1, <2>2, <2>3, <2>4 DEF CommandStep
<1> QED BY <1>0, <1>1, <1>2

\* The agent comes to work with the keypair it has registered, or after a failure.
LEMMA AgentMoves ==
    ASSUME IInv, Step(Agent)
    PROVE  /\ fails' = fails
           /\ \/ proc'[Agent].pc \notin Working
              \/ proc'[Agent].pair # None
              \/ proc'[Agent].pair = proc[Agent].pair /\ proc[Agent].pc \in Working
<1>0. Agent \in Processes /\ proc \in [Processes -> Procs] /\ Fits(Agent, proc[Agent])
  BY AgentApart, ProcIs DEF IInv, ProcsOK
<1>1. fails' = fails
  BY DEF Step, Load, NotEnrolled, MakeKey, Register, Refused, UpToDate, Refresh, Stranded,
         Save, counts
<1> PICK w : w = proc[Agent]  OBVIOUS
<1>2. w \in Procs /\ w.does = "run"  BY <1>0 DEF Fits
<1>3. CASE Load(Agent)
  <2>1. proc'[Agent].pc = "key"  BY <1>0, <1>2, <1>3 DEF Load, AfterLoad
  <2> QED BY <1>1, <2>1 DEF Working
<1>4. CASE NotEnrolled(Agent) \/ Stranded(Agent)
  BY <1>0, <1>1, <1>4, OffIs DEF NotEnrolled, Stranded, Ends, Working
<1>5. CASE MakeKey(Agent)
  <2>1. CASE Goes(Agent, "register")
    <3>1. proc'[Agent].pc = "register"  BY <1>0, <2>1 DEF Goes
    <3> QED BY <1>1, <3>1 DEF Working
  <2>2. CASE ~Goes(Agent, "register")
    <3> PICK c : c = [w.conf EXCEPT !.pair = made + 1]  OBVIOUS
    <3>1. proc' = [proc EXCEPT ![Agent].conf = c, ![Agent].pc = "register"]
      BY <1>5, <2>2 DEF MakeKey
    <3>2. proc'[Agent].pc = "register"  BY <1>0, <3>1
    <3> QED BY <1>1, <3>2 DEF Working
  <2> QED BY <2>1, <2>2
<1>6. CASE Register(Agent)
  <2>1. proc'[Agent].pair = w.conf.pair  BY <1>0, <1>6 DEF Register
  <2>2. w.conf.pair # None  BY <1>0, <1>6 DEF Register, At, Fits
  <2> QED BY <1>1, <2>1, <2>2
<1>7. CASE Refused(Agent)
  <2>1. proc'[Agent] = Off  BY <1>0, <1>2, <1>7 DEF Refused, Ends
  <2> QED BY <1>1, <2>1, OffIs DEF Working
<1>8. CASE UpToDate(Agent)
  <2>1. Goes(Agent, "ready")  BY <1>2, <1>8, Settled, AgentApart DEF UpToDate
  <2>2. proc'[Agent].pair = w.pair /\ w.pc \in Working
    BY <1>0, <1>8, <2>1 DEF UpToDate, At, Goes, Working
  <2> QED BY <1>1, <2>2
<1>9. CASE Refresh(Agent)
  <2>1. proc'[Agent].pair = w.pair /\ w.pc \in Working
    BY <1>0, <1>2, <1>9 DEF Refresh, Asks, At, Working, Procs
  <2> QED BY <1>1, <2>1
<1>10. CASE Save(Agent)
  <2>1. Goes(Agent, "ready")  BY <1>2, <1>10, Settled, AgentApart DEF Save
  <2>2. proc'[Agent].pair = w.pair /\ w.pc \in Working
    BY <1>0, <1>10, <2>1 DEF Save, At, Goes, Working
  <2> QED BY <1>1, <2>2
<1> QED BY <1>3, <1>4, <1>5, <1>6, <1>7, <1>8, <1>9, <1>10 DEF Step

LEMMA TriedKeeps == IInv /\ Tried /\ [Next]_vars => Tried'
<1> SUFFICES ASSUME IInv, Tried, [Next]_vars PROVE Tried'  OBVIOUS
<1>0. /\ Agent \in Processes /\ proc \in [Processes -> Procs] /\ fails \in Nat
      /\ Off.pc \notin Working
  BY AgentApart, BoundAssumption, OffIs DEF IInv, ProcsOK, MachineOK, Working
<1>1. CASE Step(Agent)  BY <1>1, AgentMoves DEF Tried
<1>2. CASE AgentStarts
  BY <1>0, <1>2 DEF AgentStarts, Tried, Working, Off
<1>3. CASE AgentDies \/ RegisterFails(Agent) \/ RefreshFails(Agent)
  BY <1>0, <1>3 DEF AgentDies, RegisterFails, RefreshFails, Fails, Tried
<1>4. ASSUME NEW t \in Terminals,
             \/ Begins(t) \/ CommandStep(t) \/ Interrupt(t) \/ Enrols(t) \/ SignsIn(t)
             \/ Installs(t) \/ Uninstalls(t) \/ RegisterFails(t) \/ RefreshFails(t)
      PROVE  Tried'
  <2>1. /\ fails' \in Nat /\ fails' >= fails
        /\ proc'[Agent] = proc[Agent] \/ proc'[Agent] = Off
    BY <1>4, OthersMove
  <2> QED BY <1>0, <2>1 DEF Tried
<1>5. CASE RekeyedElsewhere \/ (\E d \in Devices : RevokedElsewhere(d)) \/ UNCHANGED vars
  <2>1. proc' = proc /\ fails' = fails
    BY <1>5 DEF RekeyedElsewhere, RevokedElsewhere, vars, counts
  <2> QED BY <2>1 DEF Tried
<1>6. CASE \E p \in Processes : RegisterFails(p) \/ RefreshFails(p)
  BY <1>3, <1>4, <1>6 DEF Processes
<1> QED BY <1>1, <1>2, <1>3, <1>4, <1>5, <1>6 DEF Next

LEMMA AlwaysTried == Spec => [](IInv /\ Tried)
<1>1. Init => Tried  BY AgentApart, OffIs DEF Init, Tried, Working
<1> QED BY <1>1, TriedKeeps, Invariant, PTL DEF Spec

-----------------------------------------------------------------------------
(* What a reader of Machine should know.                                   *)

\* Every variable has its type; only a service that is up has a process; and
\* a copy of the file is some device's.
THEOREM TypeCorrect == Spec => []TypeOK
<1>1. IInv => TypeOK  BY DEF IInv, ProcsOK, ServerOK, MachineOK, TypeOK, Procs
<1> QED BY <1>1, Invariant, PTL

\* At however many terminals commands are typed, a device the server takes for
\* enrolled is in the file, the tray panel's or a process's; or the file was saved
\* or cleared over it; or, but only where something failed, it was interrupted or
\* its revocation did not get through.
THEOREM NoPhantomCorrect == Spec => []NoPhantom
<1>1. IInv => NoPhantom
  BY AgentApart DEF IInv, Known, MachineOK, NoPhantom, Left
<1> QED BY <1>1, Invariant, PTL

\* One command at a time, whatever fails: when none is under way, the keypair
\* registered for the machine's device, the one the agent works with and the one in
\* the file are one, unless its registering at this start failed and it works with
\* none; so what a re-key seals to it can be opened, now or after its next start.
THEOREM KeypairsAgreeCorrect == OneTerminal => (Spec => []KeypairsAgree)
<1> SUFFICES ASSUME OneTerminal PROVE Spec => []KeypairsAgree  OBVIOUS
<1>1. ASSUME IInv, Quiet, At(Agent, "ready"), Mine(Agent) = file.dev,
             proc[Agent].pair # None
      PROVE  pub[file.dev] = file.pair /\ proc[Agent].pair = file.pair
  <2>1. Agent \in Processes /\ Fits(Agent, proc[Agent])  BY <1>1, AgentApart, ProcIs
  <2>2. NoneEnrols  BY <1>1 DEF Quiet, NoneEnrols, EnrolsIn, At
  <2>3. CopiesAgree  BY <1>1, <2>2, AgreedIs DEF IInv
  <2>4. HoldsIn(proc[Agent]) /\ RegisteredIn(proc[Agent])
    BY <1>1, <2>1 DEF At, Fits, Owned, HoldsIn, RegisteredIn
  <2> QED BY <1>1, <2>1, <2>3, <2>4 DEF CopiesAgree, Mine
<1>2. IInv /\ Tried => KeypairsAgree
  BY <1>1 DEF KeypairsAgree, Unregistered, Tried, Working, At
<1> QED BY <1>2, AlwaysTried, PTL

LEMMA OnlyStranded ==
    ASSUME IInv, [Next]_vars, service # "stranded", service' = "stranded"
    PROVE  Stranded(Agent)
<1>1. ASSUME NEW p \in Processes, Step(p) PROVE p = Agent /\ Stranded(p)
  BY <1>1 DEF Step, Load, NotEnrolled, MakeKey, Register, Refused, UpToDate, Refresh, Stranded,
              Save, Ends
<1>2. ASSUME NEW t \in Terminals, CommandStep(t) PROVE FALSE
  <2>1. ~Step(t)  BY <1>1, AgentApart
  <2> QED BY <1>2, <2>1 DEF CommandStep, Keeps, WrongPassphrase, Restarts, Restarted, Rekeys,
             RekeyFails, SaveRekeyed, LogsOut, LogsOutTray, RevokesSelf, Deletes, Clears
<1>3. ASSUME NEW t \in Terminals,
             \/ Begins(t) \/ Enrols(t) \/ SignsIn(t) \/ Installs(t) \/ Uninstalls(t) \/ Interrupt(t)
      PROVE  FALSE
  BY <1>3 DEF Begins, Enrols, SignsIn, GetsDevice, Installs, Uninstalls, Interrupt
<1>4. ~AgentStarts /\ ~AgentDies /\ ~RekeyedElsewhere /\ ~UNCHANGED vars
  BY DEF AgentStarts, AgentDies, RekeyedElsewhere, vars
<1>5. ASSUME NEW p \in Processes, RegisterFails(p) \/ RefreshFails(p) PROVE FALSE
  BY <1>5 DEF RegisterFails, RefreshFails
<1>6. ASSUME NEW d \in Devices, RevokedElsewhere(d) PROVE FALSE  BY <1>6 DEF RevokedElsewhere
<1> QED BY <1>1, <1>2, <1>3, <1>4, <1>5, <1>6, AgentApart DEF Next

\* One command at a time: when none is under way, the agent stops for good over a
\* re-key only if no copy of the new key is sealed to the keypair of its file, or
\* if its registering at this start failed and it works with none.
THEOREM StopsForReasonCorrect == OneTerminal => (Spec => StopsForReason)
<1> SUFFICES ASSUME OneTerminal PROVE Spec => StopsForReason  OBVIOUS
<1>1. ASSUME IInv, Tried, [Next]_vars, service # "stranded", service' = "stranded", Quiet,
             file.dev = Mine(Agent)
      PROVE  \/ sealed[file.dev] = None \/ sealed[file.dev] # file.pair
             \/ Unregistered(Agent)
  <2>1. Stranded(Agent)  BY <1>1, OnlyStranded
  <2>2. Agent \in Processes /\ Fits(Agent, proc[Agent])  BY <1>1, AgentApart, ProcIs
  <2>3. NoneEnrols  BY <1>1 DEF Quiet, NoneEnrols, EnrolsIn, At
  <2>4. CopiesAgree  BY <1>1, <2>3, AgreedIs DEF IInv
  <2>5. proc[Agent].pc \in {"refresh", "ready"} /\ ~Holds(Agent)
    BY <2>1 DEF Stranded, Asks, NoneSealed, At
  <2>6. CASE proc[Agent].pair = None
    BY <1>1, <2>5, <2>6 DEF Tried, Working, Unregistered
  <2>7. CASE proc[Agent].pair # None
    <3>1. HoldsIn(proc[Agent]) /\ RegisteredIn(proc[Agent])
      BY <2>2, <2>5, <2>7 DEF Fits, Owned, HoldsIn, RegisteredIn
    <3>2. proc[Agent].pair = file.pair  BY <1>1, <2>2, <2>4, <3>1 DEF CopiesAgree, Mine
    <3> QED BY <1>1, <2>5, <3>2 DEF Holds
  <2> QED BY <2>6, <2>7
<1>2. IInv /\ Tried /\ [Next]_vars =>
        [service # "stranded" /\ service' = "stranded" /\ Quiet /\ file.dev = Mine(Agent)
           => \/ sealed[file.dev] = None \/ sealed[file.dev] # file.pair
              \/ Unregistered(Agent)]_vars
  BY <1>1
<1> QED BY <1>2, AlwaysTried, PTL DEF Spec, StopsForReason

-----------------------------------------------------------------------------
(***************************************************************************)
(* The machine's executable (Update): what is in place runs, for any       *)
(* processes, releases and bounds.                                         *)
(*                                                                         *)
(* Whoever renames `.new` into place has just run what it holds, and       *)
(* nobody else is at it meanwhile; so the invariant says who is at it, and *)
(* what `.new` and the place hold then.  The same agent, terminals and     *)
(* bounds as above; the releases are as Update takes them.                 *)
(***************************************************************************)
CONSTANTS MaxRelease, Runnable
VARIABLES windows, newest, place, fresh, up, watching, rebuilt, wontRun,
          updater, updates, mishaps   \* its proc, typed and fails

U == INSTANCE Update WITH proc <- updater, typed <- updates, fails <- mishaps

\* Update's ReleaseAssumption; its others are Machine's.
Released == MaxRelease \in Nat /\ 1 \in Runnable /\ Runnable \subseteq U!Releases

Busy(p) == updater[p].pc \in {"written", "tried", "gap"}

\* One process at a time writes `.new`, runs it and renames it.
OneAtATime == \A p, q \in U!Processes : Busy(p) /\ Busy(q) => p = q

\* What is about to be renamed into place runs here.
FreshRuns == \A p \in U!Processes : updater[p].pc \in {"tried", "gap"} => fresh \in Runnable

\* What is installed was not looked for: it is what runs.
InstallRuns ==
    \A p \in U!Processes :
        updater[p].does = "install" =>
            U!Tag(p) \in Runnable /\ updater[p].pc \notin {"idle", "download"}

\* What is downloaded or written is some release.
TagKnown ==
    \A p \in U!Processes : updater[p].pc \in {"download", "written"} => U!Tag(p) \in U!Releases

UInv ==
    U!TypeOK /\ U!PlaceRuns /\ OneAtATime /\ FreshRuns /\ InstallRuns /\ TagKnown

-----------------------------------------------------------------------------
UPcs == {"off", "idle", "download", "written", "tried", "gap", "restart"}
UProcs == [pc : UPcs, does : {"update", "install"},
          rel : U!Releases \cup {U!Partial}, tag : U!Releases \cup {U!Partial}]

LEMMA NoFileNew ==
    Released =>
        U!NoFile \notin Runnable /\ Runnable \subseteq U!Releases /\ 1 \in U!Releases
BY DEF Released, U!NoFile, U!Releases

LEMMA OffTyped == U!Off \in UProcs /\ U!Off.pc = "off" /\ U!Off.does = "update"
BY DEF U!Off, UProcs, UPcs, U!Partial

\* What Done leaves a process at: idle or off, and of its type.
LEMMA DoneTyped ==
    ASSUME U!TypeOK, NEW p \in U!Processes, U!At(p, "off") => FALSE
    PROVE  /\ U!Done(p) \in [U!Processes -> UProcs]
           /\ \A q \in U!Processes \ {p} : U!Done(p)[q] = updater[q]
           /\ U!Done(p)[p].pc \in {"off", "idle"}
           /\ updater[p].does = "update" => U!Done(p)[p].does = "update"
           /\ (U!Done(p)[Agent].pc = "off") <=> ~up
<1>1. updater \in [U!Processes -> UProcs] /\ Agent \in U!Processes /\ (U!At(Agent, "off") <=> ~up)
  BY DEF U!TypeOK, UProcs, UPcs, U!Processes
<1>2. CASE p = Agent
  <2>1. [updater[p] EXCEPT !.pc = "idle"] \in UProcs  BY <1>1 DEF UProcs, UPcs
  <2>2. U!Done(p) = [updater EXCEPT ![p] = [updater[p] EXCEPT !.pc = "idle"]]  BY <1>2 DEF U!Done
  <2> QED BY <1>1, <1>2, <2>1, <2>2 DEF U!At, UProcs, UPcs
<1>3. CASE p # Agent
  <2>1. U!Done(p) = [updater EXCEPT ![p] = U!Off]  BY <1>3 DEF U!Done
  <2> QED BY <1>1, <1>3, <2>1, OffTyped DEF U!At
<1> QED BY <1>2, <1>3

\* A step of one process that changes its place only.
LEMMA GoesTyped ==
    ASSUME U!TypeOK, NEW p \in U!Processes, NEW pc \in UPcs \ {"off"}, U!Goes(p, pc), ~U!At(p,
           "off")
    PROVE  /\ updater' \in [U!Processes -> UProcs]
           /\ \A q \in U!Processes \ {p} : updater'[q] = updater[q]
           /\ updater'[p] = [updater[p] EXCEPT !.pc = pc]
           /\ updater'[p].pc = pc /\ updater'[p].does = updater[p].does
              /\ updater'[p].tag = updater[p].tag
           /\ (updater'[Agent].pc = "off") <=> ~up
<1>1. updater \in [U!Processes -> UProcs] /\ Agent \in U!Processes /\ (U!At(Agent, "off") <=> ~up)
  BY DEF U!TypeOK, UProcs, UPcs, U!Processes
<1>2. updater[p] \in UProcs /\ [updater[p] EXCEPT !.pc = pc] \in UProcs  BY <1>1 DEF UProcs, UPcs
<1>3. updater' = [updater EXCEPT ![p] = [updater[p] EXCEPT !.pc = pc]]  BY DEF U!Goes
<1>4. updater'[p] = [updater[p] EXCEPT !.pc = pc]  BY <1>1, <1>3
<1>5. [updater[p] EXCEPT !.pc = pc].pc = pc
      /\ [updater[p] EXCEPT !.pc = pc].does = updater[p].does
      /\ [updater[p] EXCEPT !.pc = pc].tag = updater[p].tag
  BY <1>2 DEF UProcs
<1>6. \A q \in U!Processes \ {p} : updater'[q] = updater[q]  BY <1>1, <1>3
<1>7. updater' \in [U!Processes -> UProcs]  BY <1>1, <1>2, <1>3
<1>8. (updater'[Agent].pc = "off") <=> ~up  BY <1>1, <1>4, <1>5, <1>6 DEF U!At
<1> QED BY <1>4, <1>5, <1>6, <1>7, <1>8

-----------------------------------------------------------------------------
(* What a step must show.                                                  *)

\* The parts of the invariant that only a step of the service, or of the bounds,
\* could disturb.
URest ==
    /\ windows \in BOOLEAN /\ newest \in U!Releases
    /\ up \in BOOLEAN /\ watching \in BOOLEAN /\ rebuilt \in BOOLEAN
    /\ wontRun \subseteq U!Releases
    /\ updates \in 0..MaxTyped /\ mishaps \in 0..MaxFails

LEMMA TypeSplit ==
    U!TypeOK <=> /\ URest /\ place \in U!Files /\ fresh \in U!Files
               /\ updater \in [U!Processes -> UProcs]
               /\ (updater[Agent].pc = "off" <=> ~up)
BY DEF U!TypeOK, URest, UProcs, UPcs, U!At

LEMMA TypeSplitNext ==
    U!TypeOK' <=> /\ URest' /\ place' \in U!Files /\ fresh' \in U!Files
                /\ updater' \in [U!Processes -> UProcs]
                /\ (updater'[Agent].pc = "off" <=> ~up')
BY DEF U!TypeOK, URest, UProcs, UPcs, U!At

\* Nobody comes to be busy and the files stay: the parts about them stay.
LEMMA UIdles ==
    ASSUME UInv, windows' = windows, place' = place, fresh' = fresh,
           \A q \in U!Processes : \/ updater'[q] = updater[q]
                                \/ /\ updater'[q].pc \notin {"written", "tried", "gap"}
                                   /\ updater'[q].does = "update"
                                   /\ updater'[q].pc = "download" => updater'[q].tag \in U!Releases
    PROVE  (U!PlaceRuns /\ OneAtATime /\ FreshRuns /\ InstallRuns /\ TagKnown)'
<1>1. U!PlaceRuns'
  BY DEF UInv, U!PlaceRuns
<1>2. OneAtATime'
  BY DEF UInv, OneAtATime, Busy
<1>3. FreshRuns'
  BY DEF UInv, FreshRuns
<1>4. InstallRuns'
  BY DEF UInv, InstallRuns, U!Tag
<1>5. TagKnown'
  BY DEF UInv, TagKnown, U!Tag
<1> QED BY <1>1, <1>2, <1>3, <1>4, <1>5

\* What is in place is replaced by what has just been run.
LEMMA InPlaceKeeps ==
    ASSUME Released, UInv, NEW p \in U!Processes, updater[p].pc \in {"tried", "gap"}, U!InPlace(p),
           UNCHANGED <<windows, newest, U!counts>>
    PROVE  UInv'
<1>r. Released  OBVIOUS
<1>1. fresh \in Runnable  BY DEF UInv, FreshRuns
<1>2. U!TypeOK /\ ~U!At(p, "off")  BY DEF UInv, U!At
<1>3. place' = fresh /\ fresh' = U!NoFile  BY DEF U!InPlace
<1>4. \A q \in U!Processes \ {p} : ~Busy(q)  BY DEF UInv, OneAtATime, Busy
<1>5. /\ updater' \in [U!Processes -> UProcs]
      /\ \A q \in U!Processes \ {p} : updater'[q] = updater[q]
      /\ updater'[p].pc \in {"off", "idle", "restart"}
      /\ updater'[p].does = "install" => updater'[p].pc = "restart"
         /\ updater'[p].tag = updater[p].tag
                                     /\ updater[p].does = "install"
      /\ (updater'[Agent].pc = "off" <=> ~up')
      /\ up' \in BOOLEAN
  <2>1. CASE p = Agent
    <3>1. up' = FALSE /\ updater' = [updater EXCEPT ![p] = U!Off]  BY <2>1 DEF U!InPlace
    <3> QED BY <2>1, <3>1, <1>2, TypeSplit, OffTyped
  <2>2. CASE p # Agent /\ updater[p].does = "install"
    <3>1. U!Goes(p, "restart") /\ up' = up  BY <2>2 DEF U!InPlace
    <3>2. "restart" \in UPcs \ {"off"}  BY DEF UPcs
    <3> QED BY <3>1, <3>2, <1>2, GoesTyped, TypeSplit DEF URest
  <2>3. CASE p # Agent /\ updater[p].does # "install"
    <3>1. updater' = U!Done(p) /\ up' = up  BY <2>3 DEF U!InPlace
    <3>2. updater[p].does = "update"  BY <1>2, <2>3, TypeSplit DEF UProcs
    <3> QED BY <3>1, <3>2, <1>2, DoneTyped, TypeSplit DEF URest
  <2> QED BY <2>1, <2>2, <2>3
<1>6. U!TypeOK'
  <2>1. URest'  BY <1>2, <1>5, TypeSplit DEF URest, U!InPlace, U!counts
  <2>2. U!NoFile \in U!Files  BY DEF U!Files
  <2> QED BY <1>1, <1>2, <1>3, <1>5, <2>1, <2>2, TypeSplit, TypeSplitNext, <1>r, NoFileNew
     DEF U!Files
<1>7. \A q \in U!Processes : ~Busy(q)'  BY <1>4, <1>5 DEF Busy
<1>8. U!PlaceRuns'  BY <1>1, <1>3 DEF U!PlaceRuns
<1>9. (OneAtATime /\ FreshRuns)'
  BY <1>7 DEF OneAtATime, FreshRuns, Busy, U!At
<1>10. InstallRuns'  BY <1>5 DEF UInv, InstallRuns, U!Tag
<1>11. TagKnown'  BY <1>5 DEF UInv, TagKnown, U!Tag
<1> QED BY <1>6, <1>8, <1>9, <1>10, <1>11 DEF UInv

\* What has just been run, or copied from what runs, is in `.new`.
LEMMA UTried ==
    ASSUME Released, UInv, NEW p \in U!Processes, U!At(p, "written"), U!Goes(p, "tried"),
           fresh' = U!Tag(p), U!Tag(p) \in Runnable, windows' = windows, place' = place,
           up' = up, URest'
    PROVE  UInv'
<1>r. Released  OBVIOUS
<1>1. "tried" \in UPcs \ {"off"} /\ ~U!At(p, "off") /\ U!TypeOK  BY DEF UPcs, U!At, UInv
<1>2. /\ updater' \in [U!Processes -> UProcs]
      /\ \A q \in U!Processes \ {p} : updater'[q] = updater[q]
      /\ updater'[p].pc = "tried" /\ updater'[p].does = updater[p].does
         /\ updater'[p].tag = updater[p].tag
      /\ (updater'[Agent].pc = "off" <=> ~up)
  BY <1>1, GoesTyped
<1>3. \A q \in U!Processes \ {p} : ~Busy(q)  BY DEF UInv, OneAtATime, Busy, U!At
<1>4. \A q \in U!Processes \ {p} : ~Busy(q)'  BY <1>2, <1>3 DEF Busy
<1>5. U!TypeOK'  BY <1>1, <1>2, <1>r, NoFileNew, TypeSplit, TypeSplitNext DEF U!Files
<1>6. U!PlaceRuns'  BY DEF UInv, U!PlaceRuns
<1>7. (OneAtATime)'  BY <1>2, <1>4 DEF OneAtATime, Busy, U!At
<1>8. FreshRuns'  BY DEF FreshRuns
<1>9. (InstallRuns /\ TagKnown)'  BY <1>2 DEF UInv, InstallRuns, TagKnown, U!Tag, U!At
<1> QED BY <1>5, <1>6, <1>7, <1>8, <1>9 DEF UInv

-----------------------------------------------------------------------------
\* What is in place at first runs, and nobody is at it.
LEMMA UInitially ==
    ASSUME Released, U!Init
    PROVE  UInv
<1>r. Released  OBVIOUS
<1>1. \A p \in U!Processes : updater[p] = U!Off  BY DEF U!Init
<1>2. updater \in [U!Processes -> UProcs]  BY OffTyped DEF U!Init
<1>3. U!TypeOK
  <2>1. URest
    <3>1. newest \in U!Releases /\ wontRun \subseteq U!Releases  BY <1>r, NoFileNew DEF U!Init
    <3>2. 0 \in 0..MaxTyped /\ 0 \in 0..MaxFails  BY BoundAssumption
    <3>3. updates \in 0..MaxTyped /\ mishaps \in 0..MaxFails  BY <3>2 DEF U!Init
    <3> QED BY <3>1, <3>3 DEF U!Init, URest
  <2>2. place \in U!Files /\ fresh \in U!Files  BY <1>r, NoFileNew DEF U!Init, U!Files
  <2> QED BY <1>1, <1>2, <2>1, <2>2, OffTyped, TypeSplit DEF U!Init, U!Processes
<1>4. U!PlaceRuns  BY <1>r DEF Released, U!Init, U!PlaceRuns
<1>5. OneAtATime /\ FreshRuns /\ InstallRuns /\ TagKnown
  BY <1>1, OffTyped DEF OneAtATime, FreshRuns, InstallRuns, TagKnown, Busy, U!At
<1> QED BY <1>3, <1>4, <1>5 DEF UInv

\* No step, of any process, the manager or whoever publishes, disturbs it.
LEMMA UInductive ==
    ASSUME Released, UInv, [U!Next]_(U!vars)
    PROVE  UInv'
<1>r. Released  OBVIOUS
<1> USE DEF U!vars, U!files, U!service, U!counts
<1>0. U!TypeOK /\ URest /\ updater \in [U!Processes -> UProcs]
      /\ (updater[Agent].pc = "off" <=> ~up)
      /\ place \in U!Files /\ fresh \in U!Files /\ Agent \in U!Processes
  BY TypeSplit DEF UInv, U!Processes
<1>1. CASE U!Starts
  <2>1. [U!Off EXCEPT !.pc = "idle", !.rel = place] \in UProcs
        /\ [U!Off EXCEPT !.pc = "idle", !.rel = place].pc = "idle"
        /\ [U!Off EXCEPT !.pc = "idle", !.rel = place].does = "update"
    BY <1>1, <1>r, NoFileNew DEF U!Starts, U!Off, UProcs, UPcs, U!Partial
  <2>2. URest'  BY <1>0, <1>1 DEF U!Starts, URest
  <2>3. U!TypeOK'  BY <1>0, <1>1, <2>1, <2>2, TypeSplitNext DEF U!Starts
  <2> QED BY <1>0, <1>1, <2>1, <2>3, UIdles DEF U!Starts, UInv
<1>2. CASE U!Watches
  <2>1. U!TypeOK'  BY <1>0, <1>2, TypeSplitNext DEF U!Watches, URest
  <2> QED BY <1>2, <2>1, UIdles DEF U!Watches, UInv
<1>3. CASE U!Hands
  <2>1. U!TypeOK'  BY <1>0, <1>3, OffTyped, TypeSplitNext DEF U!Hands, U!Exits, URest
  <2> QED BY <1>0, <1>3, <2>1, OffTyped, UIdles DEF U!Hands, U!Waits, UInv
<1>4. CASE U!Publishes
  <2>1. newest' \in U!Releases  BY <1>0, <1>4, <1>r DEF Released, U!Publishes, U!Releases, URest
  <2>2. U!TypeOK'  BY <1>0, <1>4, <2>1, TypeSplitNext DEF U!Publishes, URest
  <2> QED BY <1>4, <2>2, UIdles DEF U!Publishes, UInv
<1>5. ASSUME NEW p \in U!Processes, U!Looks(p) PROVE UInv'
  <2>1. updater' = [updater EXCEPT ![p] = [updater[p] EXCEPT !.pc = "download", !.tag = newest]]
    BY <1>5 DEF U!Looks
  <2>2. [updater[p] EXCEPT !.pc = "download", !.tag = newest] \in UProcs
        /\ [updater[p] EXCEPT !.pc = "download", !.tag = newest].pc = "download"
        /\ [updater[p] EXCEPT !.pc = "download", !.tag = newest].tag \in U!Releases
    BY <1>0 DEF URest, UProcs, UPcs
  <2>3. U!TypeOK'  BY <1>0, <1>5, <2>1, <2>2, TypeSplitNext DEF U!Looks, URest, U!At
  <2>4. updater[p].does = "update"
    BY <1>0, <1>5 DEF U!Looks, U!At, UInv, InstallRuns, UProcs
  <2>5. [updater[p] EXCEPT !.pc = "download", !.tag = newest].does = updater[p].does
    BY <1>0 DEF UProcs
  <2>6. \A q \in U!Processes : \/ updater'[q] = updater[q]
                             \/ /\ updater'[q].pc \notin {"written", "tried", "gap"}
                                /\ updater'[q].does = "update"
                                /\ updater'[q].pc = "download" => updater'[q].tag \in U!Releases
    BY <1>0, <1>5, <2>1, <2>2, <2>4, <2>5 DEF U!Looks, U!At
  <2> QED BY <1>5, <2>3, <2>6, UIdles DEF U!Looks, UInv
<1>6. ASSUME NEW p \in U!Processes, U!Unpacks(p) PROVE UInv'
  <2>1. U!Goes(p, "written") /\ U!At(p, "download") /\ fresh' = U!Partial
        /\ "written" \in UPcs \ {"off"}
    BY <1>6 DEF U!Unpacks, UPcs
  <2>2. ~U!At(p, "off")  BY <2>1 DEF U!At
  <2>3. U!TypeOK'
  
      BY <1>0, <1>6, <2>1, <2>2, GoesTyped, TypeSplitNext
       DEF U!Unpacks, URest, U!Files, U!Releases, U!Partial
  <2>4. \A q \in U!Processes \ {p} : ~Busy(q) /\ updater'[q] = updater[q]
    BY <1>0, <1>6, <2>1, <2>2, GoesTyped DEF U!Unpacks, U!Alone, Busy
  <2>5. U!PlaceRuns'  BY <1>6 DEF UInv, U!PlaceRuns, U!Unpacks
  <2>6. updater'[p].pc = "written" /\ updater'[p].does = updater[p].does
        /\ updater'[p].tag = updater[p].tag
    BY <2>1, <2>2, <1>0, GoesTyped
  <2>7. (OneAtATime /\ FreshRuns)'
    BY <2>4, <2>6 DEF OneAtATime, FreshRuns, Busy, U!At
  <2>8. (InstallRuns /\ TagKnown)'  BY <2>1, <2>4, <2>6 DEF TagKnown, UInv, InstallRuns, U!Tag, U!At
  <2> QED BY <2>3, <2>5, <2>7, <2>8 DEF UInv
<1>7. ASSUME NEW p \in U!Processes, U!Tries(p) PROVE UInv'
  <2>1. /\ U!Goes(p, "tried") /\ U!At(p, "written") /\ fresh' = U!Tag(p) /\ U!Tag(p) \in Runnable
        /\ windows' = windows /\ place' = place /\ up' = up /\ URest'
    BY <1>0, <1>7 DEF U!Tries, URest
  <2> QED BY <2>1, <1>r, UTried
<1>8. ASSUME NEW p \in U!Processes, U!Copies(p) PROVE UInv'
  <2>1. /\ U!Goes(p, "tried") /\ U!At(p, "written") /\ fresh' = U!Tag(p) /\ U!Tag(p) \in Runnable
        /\ windows' = windows /\ place' = place /\ up' = up /\ URest'
    BY <1>0, <1>8 DEF U!Copies, URest, UInv, InstallRuns
  <2> QED BY <2>1, <1>r, UTried
<1>9. ASSUME NEW p \in U!Processes, U!WontRun(p) PROVE UInv'
  <2>1. U!At(p, "written") /\ updater' = U!Done(p) /\ updater[p].does = "update" /\ ~U!At(p, "off")
    BY <1>9 DEF U!WontRun, U!At
  <2>2. /\ updater' \in [U!Processes -> UProcs]
        /\ \A q \in U!Processes \ {p} : updater'[q] = updater[q]
        /\ updater'[p].pc \in {"off", "idle"} /\ updater'[p].does = "update"
        /\ (updater'[Agent].pc = "off" <=> ~up)
    BY <1>0, <2>1, DoneTyped
  <2>3. \A q \in U!Processes \ {p} : ~Busy(q)  BY <2>1 DEF UInv, OneAtATime, Busy, U!At
  <2>4. \A q \in U!Processes : ~Busy(q)'  BY <2>2, <2>3 DEF Busy
  <2>5. wontRun' \subseteq U!Releases
    BY <1>0, <1>9, <2>1 DEF U!WontRun, URest, UInv, TagKnown, U!At
  <2>6. U!TypeOK'
    BY <1>0, <1>9, <2>2, <2>5, TypeSplitNext DEF U!WontRun, URest, U!Files
  <2>7. U!PlaceRuns'  BY <1>9 DEF UInv, U!PlaceRuns, U!WontRun
  <2>8. (OneAtATime /\ FreshRuns)'
    BY <2>4 DEF OneAtATime, FreshRuns, Busy, U!At
  <2>9. (InstallRuns /\ TagKnown)'  BY <2>2 DEF TagKnown, UInv, InstallRuns, U!Tag
  <2> QED BY <2>6, <2>7, <2>8, <2>9 DEF UInv
<1>10. ASSUME NEW p \in U!Processes, U!Replaces(p) \/ U!MovesIn(p) PROVE UInv'
  BY <1>10, <1>r, InPlaceKeeps DEF U!Replaces, U!MovesIn, U!At
<1>11. ASSUME NEW p \in U!Processes, U!MovesAside(p) PROVE UInv'
  <2>1. /\ U!Goes(p, "gap") /\ U!At(p, "tried") /\ ~U!At(p, "off") /\ "gap" \in UPcs \ {"off"}
        /\ place' = U!NoFile /\ fresh' = fresh
    BY <1>11 DEF U!MovesAside, U!At, UPcs
  <2>2. /\ updater' \in [U!Processes -> UProcs]
        /\ \A q \in U!Processes \ {p} : updater'[q] = updater[q]
        /\ updater'[p].pc = "gap" /\ updater'[p].does = updater[p].does
           /\ updater'[p].tag = updater[p].tag
        /\ (updater'[Agent].pc = "off" <=> ~up)
    BY <1>0, <2>1, GoesTyped
  <2>3. \A q \in U!Processes \ {p} : ~Busy(q)  BY <2>1 DEF UInv, OneAtATime, Busy, U!At
  <2>4. \A q \in U!Processes \ {p} : ~Busy(q)'  BY <2>2, <2>3 DEF Busy
  <2>5. U!TypeOK'  BY <1>0, <1>11, <2>2, TypeSplitNext DEF U!MovesAside, URest, U!Files
  <2>6. U!PlaceRuns'  BY <1>11, <2>1 DEF U!PlaceRuns, U!MovesAside
  <2>7. OneAtATime'  BY <2>4 DEF OneAtATime
  <2>8. FreshRuns'  BY <2>1, <2>4 DEF UInv, FreshRuns, Busy, U!At
  <2>9. (InstallRuns /\ TagKnown)'  BY <2>1, <2>2 DEF TagKnown, UInv, InstallRuns, U!Tag, U!At
  <2> QED BY <2>5, <2>6, <2>7, <2>8, <2>9 DEF UInv
<1>12. ASSUME NEW t \in Terminals, U!TypesUpdate(t) PROVE UInv'
  <2>1. t \in U!Processes /\ t # Agent  BY ProcessAssumption DEF U!Processes
  <2> DEFINE new == [U!Off EXCEPT !.pc = "idle", !.rel = place]
  <2>2. new \in UProcs /\ new.pc = "idle" /\ new.does = "update"
    BY <1>12, <1>r, NoFileNew DEF U!TypesUpdate, U!Off, UProcs, UPcs, U!Partial
  <2>3. updater' = [updater EXCEPT ![t] = new] /\ U!At(t, "off")  BY <1>12 DEF U!TypesUpdate
  <2>4. updates' \in 0..MaxTyped  BY <1>0, <1>12, BoundAssumption DEF U!TypesUpdate, URest
  <2>5. URest'  BY <1>0, <1>12, <2>4 DEF U!TypesUpdate, URest
  <2> HIDE DEF new
  <2>6. U!TypeOK'  BY <1>0, <1>12, <2>1, <2>2, <2>3, <2>5, TypeSplitNext DEF U!TypesUpdate
  <2>7. \A q \in U!Processes : \/ updater'[q] = updater[q]
                             \/ /\ updater'[q].pc \notin {"written", "tried", "gap"}
                                /\ updater'[q].does = "update"
                                /\ updater'[q].pc = "download" => updater'[q].tag \in U!Releases
    BY <1>0, <2>1, <2>2, <2>3 DEF U!At
  <2> QED BY <1>12, <2>6, <2>7, UIdles DEF U!TypesUpdate, UInv
<1>13. ASSUME NEW t \in Terminals, U!TypesInstall(t) PROVE UInv'
  <2>1. t \in U!Processes /\ t # Agent  BY ProcessAssumption DEF U!Processes
  <2>2. PICK r \in Runnable :
          updater' = [updater EXCEPT
                        ![t] = [pc |-> "written", does |-> "install", rel |-> r, tag |-> r]]
    BY <1>13 DEF U!TypesInstall
  <2> DEFINE new == [pc |-> "written", does |-> "install", rel |-> r, tag |-> r]
  <2>3. /\ new \in UProcs /\ new.pc = "written" /\ new.does = "install"
        /\ new.tag = r
    BY <1>r, NoFileNew DEF UProcs, UPcs
  <2> r \in U!Releases  BY <1>r, NoFileNew
  <2>4. updater' = [updater EXCEPT ![t] = new]  BY <2>2
  <2> HIDE DEF new
  <2>5. updater'[t] = new /\ \A q \in U!Processes \ {t} : updater'[q] = updater[q] /\ ~Busy(q)
    BY <1>0, <1>13, <2>1, <2>4 DEF U!TypesInstall, U!Alone, Busy
  <2>6. updates' \in 0..MaxTyped  BY <1>0, <1>13, BoundAssumption DEF U!TypesInstall, URest
  <2>7. URest'  BY <1>0, <1>13, <2>6 DEF U!TypesInstall, URest
  <2>8. U!TypeOK'
    BY <1>0, <1>13, <2>1, <2>3, <2>4, <2>7, TypeSplitNext DEF U!TypesInstall, U!Files
  <2>9. U!PlaceRuns'  BY <1>13 DEF UInv, U!PlaceRuns, U!TypesInstall
  <2>10. (OneAtATime /\ FreshRuns)'
    BY <2>3, <2>5 DEF OneAtATime, FreshRuns, Busy, U!At
  <2>11. (InstallRuns /\ TagKnown)'  BY <2>3, <2>5 DEF TagKnown, UInv, InstallRuns, U!Tag
  <2> QED BY <2>8, <2>9, <2>10, <2>11 DEF UInv
<1>14. ASSUME NEW p \in U!Processes, U!UpToDate(p) \/ U!DownloadFails(p) PROVE UInv'
  <2>1. /\ updater[p].pc \in {"idle", "download"} /\ updater' = U!Done(p) /\ ~U!At(p, "off")
        /\ windows' = windows /\ place' = place /\ fresh' = fresh /\ up' = up
    BY <1>14 DEF U!UpToDate, U!DownloadFails, U!At
  <2>2. updater[p].does = "update"  BY <1>0, <2>1 DEF UInv, InstallRuns, UProcs
  <2>3. /\ updater' \in [U!Processes -> UProcs]
        /\ \A q \in U!Processes \ {p} : updater'[q] = updater[q]
        /\ updater'[p].pc \in {"off", "idle"} /\ updater'[p].does = "update"
        /\ (updater'[Agent].pc = "off" <=> ~up)
    BY <1>0, <2>1, <2>2, DoneTyped
  <2>4. mishaps' \in 0..MaxFails
    BY <1>0, <1>14, BoundAssumption DEF U!UpToDate, U!DownloadFails, URest
  <2>5. URest'  BY <1>0, <1>14, <2>4 DEF U!UpToDate, U!DownloadFails, URest
  <2>6. U!TypeOK'  BY <1>0, <2>1, <2>3, <2>5, TypeSplitNext
  <2> QED BY <2>1, <2>3, <2>6, UIdles DEF UInv
<1>15. ASSUME NEW t \in Terminals, U!Restarts(t) PROVE UInv'
  <2>1. t \in U!Processes /\ t # Agent  BY ProcessAssumption DEF U!Processes
  <2>2. U!TypeOK'
    BY <1>0, <1>15, <2>1, OffTyped, TypeSplitNext DEF U!Restarts, U!Exits, URest
  <2> QED BY <1>0, <1>15, <2>1, <2>2, OffTyped, UIdles DEF U!Restarts, U!Waits, U!At, UInv
<1>16. ASSUME NEW p \in U!Processes, U!Dies(p) PROVE UInv'
  <2>1. mishaps' \in 0..MaxFails  BY <1>0, <1>16, BoundAssumption DEF U!Dies, URest
  <2>2. URest'  BY <1>0, <1>16, <2>1 DEF U!Dies, URest, U!Exits
  <2>3. U!TypeOK'
    BY <1>0, <1>16, <2>2, OffTyped, TypeSplitNext DEF U!Dies, U!Exits
  <2> QED BY <1>0, <1>16, <2>3, OffTyped, UIdles DEF U!Dies, UInv
<1>17. CASE UNCHANGED U!vars
  <2>1. U!TypeOK'  BY <1>0, <1>17, TypeSplitNext DEF URest
  <2> QED BY <1>17, <2>1, UIdles DEF UInv
<1>18. ASSUME NEW p \in U!Processes, U!Step(p) PROVE UInv'
  BY <1>18, <1>6, <1>7, <1>9, <1>10, <1>11 DEF U!Step
<1>19. ASSUME NEW t \in Terminals, U!CommandStep(t) PROVE UInv'
  <2>1. t \in U!Processes  BY DEF U!Processes
  <2> QED BY <1>19, <2>1, <1>5, <1>14, <1>18, <1>8, <1>15 DEF U!CommandStep
<1> HIDE DEF U!vars, U!files, U!service, U!counts
<1> QED
  BY <1>0, <1>1, <1>2, <1>3, <1>4, <1>5, <1>12, <1>13, <1>14, <1>16, <1>17, <1>18, <1>19 DEF U!Next

-----------------------------------------------------------------------------
LEMMA UAlways == Released /\ U!Spec => []UInv
<1> DEFINE I == Released /\ UInv
<1>1. Released /\ U!Init => I  BY UInitially
<1>2. I /\ [U!Next]_(U!vars) => I'  BY UInductive DEF Released, U!Releases
<1> QED BY <1>1, <1>2, PTL DEF U!Spec

\* Every variable keeps its type, and the service is up exactly when its process
\* is: for every set of terminals, releases and bounds.
THEOREM UpdateTypeCorrect == Released /\ U!Spec => []U!TypeOK
<1>1. UInv => U!TypeOK  BY DEF UInv
<1> QED BY UAlways, <1>1, PTL

\* Whatever is killed, fails or is left beside it, what is in place runs here,
\* but for the moment on Windows between the two renames of replaceExecutable.
THEOREM PlaceRunsCorrect == Released /\ U!Spec => []U!PlaceRuns
<1>1. UInv => U!PlaceRuns  BY DEF UInv
<1> QED BY UAlways, <1>1, PTL
=============================================================================
