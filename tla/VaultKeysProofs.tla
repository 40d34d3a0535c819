--------------------------- MODULE VaultKeysProofs ---------------------------
(***************************************************************************)
(* What TLAPS proves of VaultKeys for any devices, passphrases and bounds, *)
(* and anything the people at the devices may do.                          *)
(***************************************************************************)
EXTENDS VaultKeys, TLAPS

-----------------------------------------------------------------------------
(* Types.                                                                  *)

Claims == {"claim unlock", "claim change", "claim rekey"}
Typed == Claims \cup {"put", "reread", "change", "devices", "recovery", "check", "rotate", "set up"}
Renames == {"claim change", "change", "reset", "recover"}
Rekeys == {"claim rekey", "devices", "recovery", "check", "rotate"}

\* A task has what the requests it has yet to send are made of.
TaskOK(t) ==
    /\ t.pc \in Typed => t.pass \in Passes
    /\ t.pc \in Renames => t.next \in Passes
    /\ t.pc \in Rekeys => t.epoch < MaxEpoch
    /\ t.pc = "set up" => t.rec # 0
    /\ t.pc = "rotate" /\ t.asks => t.rec # 0
TasksOK == \A d \in Devices : TaskOK(task[d])

\* A client that claims, or reads again, has seen the account's wrapped key,
\* and while no proof is registered nobody can have changed its passphrase.
ClaimsOpen ==
    \A d \in Devices :
        /\ task[d].pc \in Claims \cup {"reread"} => wrapped # NoWrap
        /\ task[d].pc \in Claims /\ auth = NoPass => task[d].pass = wrapped.pass

\* A task that begins is one.
LEMMA IdleType ==
    /\ Idle \in Task
    /\ Idle.pc = "idle" /\ Idle.epoch = 0 /\ Idle.asks = FALSE
  BY BoundsAssumption DEF Idle, Task, Keys, Epochs

LEMMA NewTask ==
    ASSUME NEW p \in Passes \cup {NoPass}, NEW q \in Passes \cup {NoPass},
           NEW k \in Keys, NEW e \in Epochs, NEW r \in {0} \cup Recoveries
    PROVE  /\ [Idle EXCEPT !.pc = "claim unlock", !.pass = p] \in Task
           /\ [Idle EXCEPT !.pc = "put", !.pass = p, !.epoch = e, !.key = k] \in Task
           /\ [Idle EXCEPT !.pc = "claim change", !.pass = p, !.next = q, !.key = k, !.epoch = e] \in Task
           /\ [Idle EXCEPT !.pc = "reset", !.next = q, !.key = k, !.epoch = e] \in Task
           /\ [Idle EXCEPT !.pc = "claim rekey", !.pass = p, !.epoch = e] \in Task
           /\ [Idle EXCEPT !.pc = "set up", !.pass = p, !.key = k, !.epoch = e, !.rec = r] \in Task
           /\ [Idle EXCEPT !.pc = "recover", !.next = q, !.key = k, !.epoch = e, !.rec = r] \in Task
  <1>0. 0 \in Epochs /\ 0 \in Keys  BY BoundsAssumption DEF Keys, Epochs
  <1> USE <1>0 DEF Idle, Task
  <1>1. [Idle EXCEPT !.pc = "claim unlock", !.pass = p] \in Task  OBVIOUS
  <1>2. [Idle EXCEPT !.pc = "put", !.pass = p, !.epoch = e, !.key = k] \in Task  OBVIOUS
  <1>3. [Idle EXCEPT !.pc = "claim change", !.pass = p, !.next = q, !.key = k, !.epoch = e] \in Task
    OBVIOUS
  <1>4. [Idle EXCEPT !.pc = "reset", !.next = q, !.key = k, !.epoch = e] \in Task  OBVIOUS
  <1>5. [Idle EXCEPT !.pc = "claim rekey", !.pass = p, !.epoch = e] \in Task  OBVIOUS
  <1>6. [Idle EXCEPT !.pc = "set up", !.pass = p, !.key = k, !.epoch = e, !.rec = r] \in Task
    OBVIOUS
  <1>7. [Idle EXCEPT !.pc = "recover", !.next = q, !.key = k, !.epoch = e, !.rec = r] \in Task
    OBVIOUS
  <1> QED  BY <1>1, <1>2, <1>3, <1>4, <1>5, <1>6, <1>7

\* One that goes on is one.
LEMMA PcType ==
    ASSUME NEW t \in Task,
           NEW pc \in {"reread", "claim unlock", "change", "devices", "check", "revoke", "enrol"}
    PROVE  [t EXCEPT !.pc = pc] \in Task
  BY DEF Task

LEMMA GoesType ==
    ASSUME TypeOK, NEW d \in Devices,
           NEW pc \in {"reread", "claim unlock", "change", "devices", "revoke", "enrol"},
           Goes(d, pc)
    PROVE  /\ task' \in [Devices -> Task]
           /\ task' = [task EXCEPT ![d] = [task[d] EXCEPT !.pc = pc]]
  <1>1. task \in [Devices -> Task] /\ task[d] \in Task  BY DEF TypeOK
  <1>2. task' = [task EXCEPT ![d] = [task[d] EXCEPT !.pc = pc]]  BY <1>1 DEF Goes
  <1>3. [task[d] EXCEPT !.pc = pc] \in Task  BY <1>1, PcType
  <1> QED  BY <1>1, <1>2, <1>3

LEMMA EndsType ==
    ASSUME TypeOK, NEW d \in Devices, Ends(d)
    PROVE  /\ task' \in [Devices -> Task]
           /\ task' = [task EXCEPT ![d] = Idle]
  BY IdleType DEF TypeOK, Ends

LEMMA BeginsType ==
    ASSUME TypeOK, NEW d \in Devices, NEW what, NEW t \in Task, Begins(d, what, t)
    PROVE  /\ task' \in [Devices -> Task] /\ begun' \in 0..MaxTasks
           /\ task' = [task EXCEPT ![d] = t]
           /\ task[d].pc = "idle"
  BY BoundsAssumption DEF TypeOK, Begins, Free

\* The steps of a re-key set these fields of its task.
LEMMA RekeyTask ==
    ASSUME TypeOK, NEW d \in Devices
    PROVE  /\ ReadDevices(d) => \E S \in [Devices -> {0} \cup Pairs] :
                task' = [task EXCEPT ![d] = [task[d] EXCEPT !.pc = "recovery", !.key = minted + 1, !.seals = S]]
           /\ ReadRecovery(d) =>
                task' = [task EXCEPT ![d] = [task[d] EXCEPT !.pc = "check", !.rec = PublicKey]]
           /\ CheckRotation(d) /\ Complete(task[d]) =>
                task' = [task EXCEPT ![d] = [task[d] EXCEPT !.pc = "rotate", !.asks = (recovery # NoRecovery)]]
           /\ CheckRotation(d) /\ ~Complete(task[d]) => task' = [task EXCEPT ![d] = Idle]
  <1>0. task \in [Devices -> Task] /\ task[d] \in Task  BY DEF TypeOK
  <1> DEFINE S == [c \in Devices |-> IF status[c] = "active" THEN pub[c] ELSE 0]
  <1>1. S \in [Devices -> {0} \cup Pairs]  BY DEF TypeOK
  <1>2. ASSUME ReadDevices(d)
        PROVE  task' = [task EXCEPT ![d] = [task[d] EXCEPT !.pc = "recovery", !.key = minted + 1, !.seals = S]]
    BY <1>0, <1>2 DEF ReadDevices
  <1>3. ASSUME ReadRecovery(d)
        PROVE  task' = [task EXCEPT ![d] = [task[d] EXCEPT !.pc = "check", !.rec = PublicKey]]
    BY <1>0, <1>3 DEF ReadRecovery
  <1>4. ASSUME CheckRotation(d), Complete(task[d])
        PROVE  task' = [task EXCEPT ![d] = [task[d] EXCEPT !.pc = "rotate", !.asks = (recovery # NoRecovery)]]
    BY <1>0, <1>4 DEF CheckRotation
  <1>5. ASSUME CheckRotation(d), ~Complete(task[d]) PROVE task' = [task EXCEPT ![d] = Idle]
    BY <1>5 DEF CheckRotation, Ends
  <1> HIDE DEF S
  <1> QED  BY <1>1, <1>2, <1>3, <1>4, <1>5

LEMMA LearnType ==
    ASSUME TypeOK, NEW d \in Devices, NEW e \in Epochs, NEW k \in Keys, Learn(d, e, k)
    PROVE  /\ ring' \in [Devices -> [Epochs -> Keys \cup {NoKey}]]
           /\ ring' = [ring EXCEPT ![d] = [ring[d] EXCEPT ![e] = k]]
  BY DEF TypeOK, Learn

LEMMA TypeInit == Init => TypeOK
  <1> SUFFICES ASSUME Init PROVE TypeOK  OBVIOUS
  <1> USE BoundsAssumption
  <1>1. 0 \in Epochs /\ 0 \in Keys /\ 1 \in Pairs  BY DEF Epochs, Keys, Pairs
  <1>2. task \in [Devices -> Task]  BY IdleType DEF Init
  <1>3. Empty \in [Epochs -> Keys \cup {NoKey}]
        /\ [Empty EXCEPT ![0] = 0] \in [Epochs -> Keys \cup {NoKey}]
    BY <1>1 DEF Empty
  <1>4. ring \in [Devices -> [Epochs -> Keys \cup {NoKey}]]  BY <1>3 DEF Init
  <1>5. pair \in [Devices -> {0} \cup Pairs] /\ pub = pair  BY <1>1 DEF Init
  <1>6. /\ wrapped \in Wrap \cup {NoWrap} /\ auth \in Passes \cup {NoPass}
        /\ past \subseteq Keys
    BY <1>1 DEF Init, Wrap
  <1> QED  BY <1>1, <1>2, <1>4, <1>5, <1>6 DEF Init, TypeOK

LEMMA TypeStep == TypeOK /\ TasksOK /\ ClaimsOpen /\ [Next]_vars => TypeOK'
  <1> SUFFICES ASSUME TypeOK, TasksOK, ClaimsOpen, [Next]_vars PROVE TypeOK'  OBVIOUS
  <1>0. /\ task \in [Devices -> Task] /\ \A d \in Devices : task[d] \in Task
        /\ epoch \in Epochs /\ 0 \in Epochs /\ 0 \in Keys
        /\ wrapped # NoWrap => wrapped.key \in Keys /\ wrapped.pass \in Passes
    BY BoundsAssumption DEF TypeOK, Epochs, Keys, Wrap
  <1>00. \A d \in Devices, e \in Epochs : Holds(d, e) => ring[d][e] \in Keys
    BY DEF TypeOK, Holds
  <1> USE DEF server, clients, counts
  <1>1. ASSUME NEW d \in Devices, GiveUp(d) PROVE TypeOK'
    BY <1>1, EndsType DEF GiveUp, TypeOK
  <1>2. ASSUME NEW d \in Devices, Unlock(d) PROVE TypeOK'
    <2>1. [Idle EXCEPT !.pc = "claim unlock", !.pass = wrapped.pass] \in Task
      BY <1>0, <1>2, NewTask DEF Unlock
    <2>2. task' \in [Devices -> Task] /\ begun' \in 0..MaxTasks
      BY <1>2, <2>1, BeginsType DEF Unlock
    <2>3. ring' \in [Devices -> [Epochs -> Keys \cup {NoKey}]]
      BY <1>0, <1>2, LearnType DEF Unlock
    <2> QED  BY <1>2, <2>2, <2>3 DEF Unlock, TypeOK
  <1>3. ASSUME NEW d \in Devices, PutFirst(d) PROVE TypeOK'
    <2>1. task[d].pass \in Passes /\ task[d].key \in Keys /\ task[d].epoch \in Epochs
      BY <1>0, <1>3 DEF PutFirst, TasksOK, TaskOK, Typed, Task
    <2>2. CASE wrapped = NoWrap
      <3>1. task' \in [Devices -> Task]  BY <1>3, <2>2, EndsType DEF PutFirst
      <3>2. ring' \in [Devices -> [Epochs -> Keys \cup {NoKey}]]
        BY <1>3, <2>1, <2>2, LearnType DEF PutFirst
      <3> QED  BY <1>3, <2>1, <2>2, <3>1, <3>2 DEF PutFirst, TypeOK, Wrap
    <2>3. CASE wrapped # NoWrap
      <3>1. task' \in [Devices -> Task]  BY <1>3, <2>3, GoesType DEF PutFirst
      <3> QED  BY <1>3, <2>3, <3>1 DEF PutFirst, TypeOK
    <2> QED  BY <2>2, <2>3
  <1>4. ASSUME NEW d \in Devices, Reread(d) PROVE TypeOK'
    <2>1. task[d].epoch \in Epochs /\ wrapped # NoWrap
      BY <1>0, <1>4 DEF Reread, ClaimsOpen, Task
    <2>2. CASE wrapped.pass = task[d].pass
      <3>1. task' \in [Devices -> Task]  BY <1>4, <2>2, GoesType DEF Reread
      <3>2. ring' \in [Devices -> [Epochs -> Keys \cup {NoKey}]]
        BY <1>0, <1>4, <2>1, <2>2, LearnType DEF Reread
      <3> QED  BY <1>4, <3>1, <3>2 DEF Reread, TypeOK
    <2>3. CASE wrapped.pass # task[d].pass
      <3>1. task' \in [Devices -> Task]  BY <1>4, <2>3, EndsType DEF Reread
      <3> QED  BY <1>4, <2>3, <3>1 DEF Reread, TypeOK
    <2> QED  BY <2>2, <2>3
  <1>5. ASSUME NEW d \in Devices, Claim(d) PROVE TypeOK'
    <2>1. task[d].pass \in Passes  BY <1>5 DEF Claim, TasksOK, TaskOK, Typed, Claims
    <2>2. auth' \in Passes \cup {NoPass}  BY <1>5, <2>1 DEF Claim, Claimed, TypeOK
    <2>3. task' \in [Devices -> Task]
      BY <1>5, GoesType, EndsType DEF Claim
    <2> QED  BY <1>5, <2>2, <2>3 DEF Claim, TypeOK
  <1>6. ASSUME NEW d \in Devices, NEW p \in Passes, NEW isNew \in BOOLEAN, FirstUnlock(d, p, isNew)
        PROVE TypeOK'
    <2>1. minted' \in Keys /\ (isNew => minted + 1 \in Keys)
      BY <1>6, BoundsAssumption DEF FirstUnlock, TypeOK, Keys
    <2>2. [Idle EXCEPT !.pc = "put", !.pass = p, !.epoch = epoch,
             !.key = IF isNew THEN minted + 1 ELSE 0] \in Task
      BY <1>0, <2>1, NewTask
    <2>3. task' \in [Devices -> Task] /\ begun' \in 0..MaxTasks
      BY <1>6, <2>2, BeginsType DEF FirstUnlock
    <2> QED  BY <1>6, <2>1, <2>3 DEF FirstUnlock, TypeOK
  <1>7. ASSUME NEW d \in Devices, NEW q \in Passes, StartChange(d, q) PROVE TypeOK'
    <2>1. [Idle EXCEPT !.pc = "claim change", !.pass = wrapped.pass, !.next = q,
             !.key = wrapped.key, !.epoch = epoch] \in Task
      BY <1>0, <1>7, NewTask DEF StartChange
    <2>2. task' \in [Devices -> Task] /\ begun' \in 0..MaxTasks
      BY <1>7, <2>1, BeginsType DEF StartChange
    <2> QED  BY <1>7, <2>2 DEF StartChange, TypeOK
  <1>8. ASSUME NEW d \in Devices, NEW q \in Passes, StartReset(d, q) PROVE TypeOK'
    <2>1. [Idle EXCEPT !.pc = "reset", !.next = q, !.key = ring[d][epoch], !.epoch = epoch] \in Task
      BY <1>0, <1>00, <1>8, NewTask DEF StartReset, IsCurrent
    <2>2. task' \in [Devices -> Task] /\ begun' \in 0..MaxTasks
      BY <1>8, <2>1, BeginsType DEF StartReset
    <2> QED  BY <1>8, <2>2 DEF StartReset, TypeOK
  <1>9. ASSUME NEW d \in Devices, NEW q \in Passes, OpenRecovery(d, q) PROVE TypeOK'
    <2>1. recovery.key \in Keys /\ recovery.pub \in Recoveries
      BY <1>9 DEF OpenRecovery, TypeOK, Recovery
    <2>2. [Idle EXCEPT !.pc = "recover", !.next = q, !.key = recovery.key,
             !.epoch = epoch, !.rec = recovery.pub] \in Task
      BY <1>0, <2>1, NewTask
    <2>3. task' \in [Devices -> Task] /\ begun' \in 0..MaxTasks
      BY <1>9, <2>2, BeginsType DEF OpenRecovery
    <2> QED  BY <1>9, <2>3 DEF OpenRecovery, TypeOK
  <1>10. ASSUME NEW t \in Task, t.next \in Passes, Rewrap(t)
         PROVE wrapped' \in Wrap /\ auth' \in Passes
    BY <1>10 DEF Rewrap, Wrap, Task
  <1>11. ASSUME NEW d \in Devices, Change(d) PROVE TypeOK'
    <2>1. task[d].next \in Passes  BY <1>11 DEF Change, TasksOK, TaskOK, Renames
    <2>2. wrapped' \in Wrap \cup {NoWrap} /\ auth' \in Passes \cup {NoPass}
      BY <1>0, <1>10, <1>11, <2>1 DEF Change, TypeOK
    <2>3. task' \in [Devices -> Task]  BY <1>11, EndsType DEF Change
    <2> QED  BY <1>11, <2>2, <2>3 DEF Change, TypeOK
  <1>12. ASSUME NEW d \in Devices, Reset(d) PROVE TypeOK'
    <2>1. task[d].next \in Passes  BY <1>12 DEF Reset, TasksOK, TaskOK, Renames
    <2>2. wrapped' \in Wrap \cup {NoWrap} /\ auth' \in Passes \cup {NoPass}
      BY <1>0, <1>10, <1>12, <2>1 DEF Reset, TypeOK
    <2>3. task' \in [Devices -> Task]  BY <1>12, EndsType DEF Reset
    <2> QED  BY <1>12, <2>2, <2>3 DEF Reset, TypeOK
  <1>13. ASSUME NEW d \in Devices, StartRekey(d) PROVE TypeOK'
    <2>1. [Idle EXCEPT !.pc = "claim rekey", !.pass = wrapped.pass, !.epoch = epoch] \in Task
      BY <1>0, <1>13, NewTask DEF StartRekey
    <2>2. task' \in [Devices -> Task] /\ begun' \in 0..MaxTasks
      BY <1>13, <2>1, BeginsType DEF StartRekey
    <2> QED  BY <1>13, <2>2 DEF StartRekey, TypeOK
  <1>14. ASSUME NEW d \in Devices, ReadDevices(d) PROVE TypeOK'
    <2>1. minted + 1 \in Keys  BY <1>14, BoundsAssumption DEF ReadDevices, TypeOK, Keys
    <2>2. PICK S \in [Devices -> {0} \cup Pairs] :
            task' = [task EXCEPT ![d] = [task[d] EXCEPT !.pc = "recovery", !.key = minted + 1, !.seals = S]]
      BY <1>14, RekeyTask
    <2>4. [task[d] EXCEPT !.pc = "recovery", !.key = minted + 1, !.seals = S] \in Task
      BY <1>0, <2>1, <2>2 DEF Task
    <2>5. task' \in [Devices -> Task]  BY <1>0, <2>2, <2>4
    <2> QED  BY <1>14, <2>1, <2>5 DEF ReadDevices, TypeOK
  <1>15. ASSUME NEW d \in Devices, ReadRecovery(d) PROVE TypeOK'
    <2>1. PublicKey \in {0} \cup Recoveries  BY DEF PublicKey, TypeOK, Recovery
    <2>2. task' = [task EXCEPT ![d] = [task[d] EXCEPT !.pc = "check", !.rec = PublicKey]]
      BY <1>15, RekeyTask
    <2>3. [task[d] EXCEPT !.pc = "check", !.rec = PublicKey] \in Task
      BY <1>0, <2>1 DEF Task
    <2>4. task' \in [Devices -> Task]  BY <1>0, <2>2, <2>3
    <2> QED  BY <1>15, <2>4 DEF ReadRecovery, TypeOK
  <1>16. ASSUME NEW d \in Devices, CheckRotation(d) PROVE TypeOK'
    <2>1. CASE Complete(task[d])
      <3>1. task' = [task EXCEPT ![d] = [task[d] EXCEPT !.pc = "rotate", !.asks = (recovery # NoRecovery)]]
        BY <1>16, <2>1, RekeyTask
      <3>2. [task[d] EXCEPT !.pc = "rotate", !.asks = (recovery # NoRecovery)] \in Task
        BY <1>0 DEF Task
      <3>3. task' \in [Devices -> Task]  BY <1>0, <3>1, <3>2
      <3> QED  BY <1>16, <3>3 DEF CheckRotation, TypeOK
    <2>2. CASE ~Complete(task[d])
      <3>1. task' \in [Devices -> Task]  BY <1>16, <2>2, EndsType DEF CheckRotation
      <3> QED  BY <1>16, <3>1 DEF CheckRotation, TypeOK
    <2> QED  BY <2>1, <2>2
  <1>17. ASSUME NEW d \in Devices, task[d].pc = "rotate"
         PROVE  /\ To(task[d]) \in Epochs
                /\ Sealing(task[d]) \in [Devices -> [Epochs -> Copy \cup {NoCopy}]]
                /\ SealingRecovery(task[d]) \in Recovery \cup {NoRecovery}
    <2> DEFINE t == task[d]
    <2>1. t \in Task /\ t.epoch < MaxEpoch /\ (t.asks => t.rec # 0)
      BY <1>0, <1>17 DEF TasksOK, TaskOK, Rekeys
    <2>2. t.epoch \in Epochs  BY <2>1 DEF Task
    <2>7. To(t) \in Epochs  BY <2>1, <2>2, BoundsAssumption DEF To, Epochs
    <2>3. \A c \in Devices : t.seals[c] # 0 => [pair |-> t.seals[c], key |-> t.key] \in Copy
      BY <2>1 DEF Task, Copy
    <2>4. Sealing(t) \in [Devices -> [Epochs -> Copy \cup {NoCopy}]]
      BY <2>3 DEF Sealing, TypeOK
    <2>5. t.asks => t.rec \in Recoveries /\ t.key \in Keys  BY <2>1 DEF Task
    <2>6. SealingRecovery(t) \in Recovery \cup {NoRecovery}
      BY <2>5, <2>7 DEF SealingRecovery, TypeOK, Recovery
    <2> QED  BY <2>4, <2>6, <2>7
  <1>18. ASSUME NEW d \in Devices, RotationLands(d) PROVE TypeOK'
    <2>1. task[d].pc = "rotate" /\ task[d].pass \in Passes /\ task[d].key \in Keys
      BY <1>0, <1>18 DEF RotationLands, TasksOK, TaskOK, Typed, Task
    <2>2. ring' \in [Devices -> [Epochs -> Keys \cup {NoKey}]]
      <3>1. CASE Learn(d, To(task[d]), task[d].key)  BY <1>17, <2>1, <3>1, LearnType
      <3>2. CASE UNCHANGED ring  BY <3>2 DEF TypeOK
      <3> QED  BY <1>18, <3>1, <3>2 DEF RotationLands
    <2>3. task' \in [Devices -> Task]  BY <1>18, EndsType DEF RotationLands
    <2>4. wrapped' \in Wrap  BY <1>18, <2>1 DEF RotationLands, Wrap
    <2>5. /\ epoch' \in Epochs
          /\ sealed' \in [Devices -> [Epochs -> Copy \cup {NoCopy}]]
          /\ recovery' \in Recovery \cup {NoRecovery}
      BY <1>17, <1>18, <2>1 DEF RotationLands
    <2> QED  BY <1>18, <2>1, <2>2, <2>3, <2>4, <2>5 DEF RotationLands, TypeOK
  <1>19. ASSUME NEW d \in Devices, RotationLost(d) PROVE TypeOK'
    <2>1. task[d].pc = "rotate"  BY <1>19 DEF RotationLost
    <2>2. /\ sealed' \in [Devices -> [Epochs -> Copy \cup {NoCopy}]]
          /\ recovery' \in Recovery \cup {NoRecovery}
      BY <1>17, <1>19, <2>1 DEF RotationLost, TypeOK
    <2>3. task' \in [Devices -> Task]  BY <1>19, EndsType DEF RotationLost
    <2> QED  BY <1>19, <2>2, <2>3 DEF RotationLost, TypeOK
  <1>20. ASSUME NEW d \in Devices, Refresh(d) PROVE TypeOK'
    <2>1. sealed[d][epoch].key \in Keys  BY <1>0, <1>20 DEF Refresh, TypeOK, Copy
    <2>2. ring' \in [Devices -> [Epochs -> Keys \cup {NoKey}]]
      BY <1>0, <1>20, <2>1, LearnType DEF Refresh
    <2> QED  BY <1>20, <2>2 DEF Refresh, TypeOK
  <1>21. ASSUME NEW d \in Devices, StartSetUp(d) PROVE TypeOK'
    <2>0. made \in {0} \cup Recoveries /\ made < MaxRecoveries
      BY <1>21 DEF StartSetUp, TypeOK
    <2>1. made + 1 \in Recoveries  BY <2>0, BoundsAssumption DEF Recoveries
    <2>2. [Idle EXCEPT !.pc = "set up", !.pass = wrapped.pass, !.key = wrapped.key,
             !.epoch = epoch, !.rec = made + 1] \in Task
      BY <1>0, <1>21, <2>1, NewTask DEF StartSetUp
    <2>3. task' \in [Devices -> Task] /\ begun' \in 0..MaxTasks
      BY <1>21, <2>2, BeginsType DEF StartSetUp
    <2> QED  BY <1>21, <2>1, <2>3 DEF StartSetUp, TypeOK
  <1>22. ASSUME NEW d \in Devices, SetUp(d) PROVE TypeOK'
    <2>1. task[d].rec \in Recoveries /\ task[d].key \in Keys /\ task[d].epoch \in Epochs
      BY <1>0, <1>22 DEF SetUp, TasksOK, TaskOK, Task
    <2>2. recovery' \in Recovery \cup {NoRecovery}
      BY <1>22, <2>1 DEF SetUp, TypeOK, Recovery
    <2>3. task' \in [Devices -> Task]  BY <1>22, EndsType DEF SetUp
    <2> QED  BY <1>22, <2>2, <2>3 DEF SetUp, TypeOK
  <1>23. ASSUME NEW d \in Devices, RemoveRecovery(d) PROVE TypeOK'
    BY <1>23 DEF RemoveRecovery, TypeOK
  <1>24. ASSUME NEW d \in Devices, Recover(d) PROVE TypeOK'
    <2>1. task[d].next \in Passes  BY <1>24 DEF Recover, TasksOK, TaskOK, Renames
    <2>2. wrapped' \in Wrap \cup {NoWrap} /\ auth' \in Passes \cup {NoPass}
      BY <1>0, <1>10, <1>24, <2>1 DEF Recover, TypeOK
    <2>3. task' \in [Devices -> Task]  BY <1>24, EndsType, GoesType DEF Recover
    <2> QED  BY <1>24, <2>2, <2>3 DEF Recover, TypeOK
  <1>25. ASSUME NEW d \in Devices, RevokeOthers(d) PROVE TypeOK'
    <2>1. task' \in [Devices -> Task]  BY <1>25, GoesType DEF RevokeOthers
    <2> QED  BY <1>25, <2>1 DEF RevokeOthers, TypeOK
  <1>26. ASSUME NEW d \in Devices, EnrolRecovered(d) PROVE TypeOK'
    <2>1. task[d].key \in Keys /\ task[d].epoch \in Epochs  BY <1>0 DEF Task
    <2>2. ring' \in [Devices -> [Epochs -> Keys \cup {NoKey}]]
      BY <1>26, <2>1, LearnType DEF EnrolRecovered
    <2>3. task' \in [Devices -> Task]  BY <1>26, EndsType DEF EnrolRecovered
    <2> QED  BY <1>26, <2>2, <2>3 DEF EnrolRecovered, TypeOK
  <1>27. ASSUME NEW d \in Devices, Offer(d) PROVE TypeOK'
    <2>1. offers' \subseteq Keys  BY <1>00, <1>27 DEF Offer, IsCurrent, TypeOK
    <2> QED  BY <1>27, <2>1 DEF Offer, TypeOK
  <1>28. ASSUME NEW d \in Devices, NEW k \in Keys, Accept(d, k) PROVE TypeOK'
    <2>1. ring' \in [Devices -> [Epochs -> Keys \cup {NoKey}]]
      BY <1>0, <1>28, LearnType DEF Accept
    <2> QED  BY <1>28, <2>1 DEF Accept, TypeOK
  <1>29. ASSUME NEW d \in Devices, Register(d) PROVE TypeOK'
    <2>1. pair' = [pair EXCEPT ![d] = IF pair[d] = 0 THEN 1 ELSE pair[d]]  BY <1>29 DEF Register
    <2>2. 1 \in Pairs  BY BoundsAssumption DEF Pairs
    <2>3. pair' \in [Devices -> {0} \cup Pairs] /\ pair'[d] \in {0} \cup Pairs
      BY <2>1, <2>2 DEF TypeOK
    <2> QED  BY <1>29, <2>3 DEF Register, TypeOK
  <1>30. ASSUME NEW d \in Devices, LoseKeypair(d) PROVE TypeOK'
    <2>1. pair' = [pair EXCEPT ![d] = pair[d] + 1]  BY <1>30 DEF LoseKeypair
    <2>2. pair[d] + 1 \in Pairs  BY <1>30, BoundsAssumption DEF LoseKeypair, Pairs
    <2> QED  BY <1>30, <2>1, <2>2 DEF LoseKeypair, TypeOK
  <1>31. ASSUME NEW d \in Devices, Revoke(d) PROVE TypeOK'
    BY <1>31 DEF Revoke, TypeOK
  <1>32. CASE UNCHANGED vars
    BY <1>32 DEF vars, TypeOK
  <1> QED
    BY <1>1, <1>2, <1>3, <1>4, <1>5, <1>6, <1>7, <1>8, <1>9, <1>11, <1>12, <1>13, <1>14,
       <1>15, <1>16, <1>18, <1>19, <1>20, <1>21, <1>22, <1>23, <1>24, <1>25, <1>26,
       <1>27, <1>28, <1>29, <1>30, <1>31, <1>32
    DEF Next, Step, RekeyStep
\* Only the device that acts changes its task.
LEMMA OneTask ==
    ASSUME TypeOK, TasksOK, NEW d \in Devices, NEW t, TaskOK(t),
           task' = [task EXCEPT ![d] = t]
    PROVE  TasksOK'
  <1> SUFFICES ASSUME NEW c \in Devices PROVE TaskOK(task'[c])
    BY DEF TasksOK, TaskOK
  <1>1. CASE c = d  BY <1>1 DEF TypeOK
  <1>2. CASE c # d  BY <1>2 DEF TypeOK, TasksOK
  <1> QED  BY <1>1, <1>2

LEMMA TasksStep == TypeOK /\ ClaimsOpen /\ TasksOK /\ [Next]_vars => TasksOK'
  <1> SUFFICES ASSUME TypeOK, ClaimsOpen, TasksOK, [Next]_vars PROVE TasksOK'  OBVIOUS
  <1>0. /\ wrapped # NoWrap => wrapped.pass \in Passes
        /\ \A d \in Devices : TaskOK(task[d]) /\ task[d] \in Task
        /\ TaskOK(Idle)
        /\ recovery # NoRecovery => recovery.pub # 0
    <2>1. wrapped # NoWrap => wrapped.pass \in Passes  BY DEF TypeOK, Wrap
    <2>2. \A d \in Devices : TaskOK(task[d]) /\ task[d] \in Task  BY DEF TypeOK, TasksOK
    <2>3. TaskOK(Idle)  BY DEF TaskOK, Idle, Typed, Claims, Renames, Rekeys
    <2>4. recovery # NoRecovery => recovery.pub \in Recoveries  BY DEF TypeOK, Recovery
    <2> QED  BY <2>1, <2>2, <2>3, <2>4, BoundsAssumption DEF Recoveries
  <1>1. ASSUME UNCHANGED task PROVE TasksOK'
    <2> SUFFICES ASSUME NEW c \in Devices PROVE TaskOK(task'[c])  BY DEF TasksOK, TaskOK
    <2> QED  BY <1>1 DEF TasksOK
  <1>2. ASSUME NEW d \in Devices, Ends(d) PROVE TasksOK'
    BY <1>0, <1>2, OneTask DEF Ends
  <1>3. ASSUME NEW d \in Devices, Goes(d, "reread"), task[d].pc = "put" PROVE TasksOK'
    <2>1. TaskOK([task[d] EXCEPT !.pc = "reread"])
      BY <1>0, <1>3 DEF TaskOK, Task, Typed, Claims, Renames, Rekeys
    <2> QED  BY <1>3, <2>1, GoesType, OneTask
  <1>4. ASSUME NEW d \in Devices, Unlock(d) PROVE TasksOK'
    <2>1. TaskOK([Idle EXCEPT !.pc = "claim unlock", !.pass = wrapped.pass])
      BY <1>0, <1>4 DEF Unlock, TaskOK, Idle, Typed, Claims, Renames, Rekeys
    <2> QED  BY <1>4, <2>1, OneTask DEF Unlock, Begins
  <1>5. ASSUME NEW d \in Devices, Reread(d) PROVE TasksOK'
    <2>1. TaskOK([task[d] EXCEPT !.pc = "claim unlock"])
      BY <1>0, <1>5 DEF Reread, TaskOK, Task, Typed, Claims, Renames, Rekeys
    <2>2. Goes(d, "claim unlock") => TasksOK'  BY <2>1, GoesType, OneTask
    <2> QED  BY <1>2, <1>5, <2>2 DEF Reread
  <1>6. ASSUME NEW d \in Devices, Claim(d) PROVE TasksOK'
    <2>1. TaskOK([task[d] EXCEPT !.pc = "change"]) \/ task[d].pc # "claim change"
      BY <1>0 DEF TaskOK, Task, Typed, Claims, Renames, Rekeys
    <2>2. TaskOK([task[d] EXCEPT !.pc = "devices"]) \/ task[d].pc # "claim rekey"
      BY <1>0 DEF TaskOK, Task, Typed, Claims, Renames, Rekeys
    <2>3. ASSUME task[d].pc = "claim change", Goes(d, "change") PROVE TasksOK'
      BY <2>1, <2>3, GoesType, OneTask
    <2>4. ASSUME task[d].pc = "claim rekey", Goes(d, "devices") PROVE TasksOK'
      BY <2>2, <2>4, GoesType, OneTask
    <2> QED  BY <1>2, <1>6, <2>3, <2>4 DEF Claim
  <1>7. ASSUME NEW d \in Devices, NEW p \in Passes, NEW isNew \in BOOLEAN, FirstUnlock(d, p, isNew)
        PROVE TasksOK'
    <2> DEFINE t == [Idle EXCEPT !.pc = "put", !.pass = p, !.epoch = epoch,
                       !.key = IF isNew THEN minted + 1 ELSE 0]
    <2>1. TaskOK(t)  BY DEF TaskOK, Idle, Typed, Claims, Renames, Rekeys
    <2> QED  BY <1>7, <2>1, OneTask DEF FirstUnlock, Begins
  <1>8. ASSUME NEW d \in Devices, NEW q \in Passes, StartChange(d, q) PROVE TasksOK'
    <2>1. TaskOK([Idle EXCEPT !.pc = "claim change", !.pass = wrapped.pass, !.next = q,
             !.key = wrapped.key, !.epoch = epoch])
      BY <1>0, <1>8 DEF StartChange, TaskOK, Idle, Typed, Claims, Renames, Rekeys
    <2> QED  BY <1>8, <2>1, OneTask DEF StartChange, Begins
  <1>9. ASSUME NEW d \in Devices, NEW q \in Passes, StartReset(d, q) PROVE TasksOK'
    <2>1. TaskOK([Idle EXCEPT !.pc = "reset", !.next = q, !.key = ring[d][epoch], !.epoch = epoch])
      BY DEF TaskOK, Idle, Typed, Claims, Renames, Rekeys
    <2> QED  BY <1>9, <2>1, OneTask DEF StartReset, Begins
  <1>10. ASSUME NEW d \in Devices, NEW q \in Passes, OpenRecovery(d, q) PROVE TasksOK'
    <2>1. TaskOK([Idle EXCEPT !.pc = "recover", !.next = q, !.key = recovery.key,
             !.epoch = epoch, !.rec = recovery.pub])
      BY DEF TaskOK, Idle, Typed, Claims, Renames, Rekeys
    <2> QED  BY <1>10, <2>1, OneTask DEF OpenRecovery, Begins
  <1>11. ASSUME NEW d \in Devices, StartRekey(d) PROVE TasksOK'
    <2>1. TaskOK([Idle EXCEPT !.pc = "claim rekey", !.pass = wrapped.pass, !.epoch = epoch])
      BY <1>0, <1>11 DEF StartRekey, TaskOK, Idle, Typed, Claims, Renames, Rekeys
    <2> QED  BY <1>11, <2>1, OneTask DEF StartRekey, Begins
  <1>12. ASSUME NEW d \in Devices, ReadDevices(d) PROVE TasksOK'
    <2>1. PICK S \in [Devices -> {0} \cup Pairs] :
            task' = [task EXCEPT ![d] = [task[d] EXCEPT !.pc = "recovery", !.key = minted + 1, !.seals = S]]
      BY <1>12, RekeyTask
    <2>2. TaskOK([task[d] EXCEPT !.pc = "recovery", !.key = minted + 1, !.seals = S])
      BY <1>0, <1>12 DEF ReadDevices, Task, TaskOK, Typed, Claims, Renames, Rekeys
    <2> QED  BY <2>1, <2>2, OneTask
  <1>13. ASSUME NEW d \in Devices, ReadRecovery(d) PROVE TasksOK'
    <2>1. TaskOK([task[d] EXCEPT !.pc = "check", !.rec = PublicKey])
      BY <1>0, <1>13 DEF ReadRecovery, Task, TaskOK, Typed, Claims, Renames, Rekeys
    <2> QED  BY <1>13, <2>1, RekeyTask, OneTask
  <1>14. ASSUME NEW d \in Devices, CheckRotation(d) PROVE TasksOK'
    <2>1. CASE Complete(task[d])
      <3>1. TaskOK([task[d] EXCEPT !.pc = "rotate", !.asks = (recovery # NoRecovery)])
        BY <1>0, <1>14, <2>1 DEF CheckRotation, Complete, Task, TaskOK, Typed, Claims, Renames, Rekeys
      <3> QED  BY <1>14, <2>1, <3>1, RekeyTask, OneTask
    <2>2. CASE ~Complete(task[d])
      BY <1>0, <1>14, <2>2, RekeyTask, OneTask
    <2> QED  BY <2>1, <2>2
  <1>15. ASSUME NEW d \in Devices, StartSetUp(d) PROVE TasksOK'
    <2>0. made + 1 # 0  BY BoundsAssumption DEF TypeOK, Recoveries
    <2>1. TaskOK([Idle EXCEPT !.pc = "set up", !.pass = wrapped.pass, !.key = wrapped.key,
             !.epoch = epoch, !.rec = made + 1])
      BY <1>0, <1>15, <2>0 DEF StartSetUp, TaskOK, Idle, Typed, Claims, Renames, Rekeys
    <2> QED  BY <1>15, <2>1, OneTask DEF StartSetUp, Begins
  <1>16. ASSUME NEW d \in Devices, NEW pc \in {"revoke", "enrol"}, Goes(d, pc),
                task[d].pc \in {"recover", "revoke"}
         PROVE TasksOK'
    <2>1. TaskOK([task[d] EXCEPT !.pc = pc])
      BY <1>0, <1>16 DEF TaskOK, Task, Typed, Claims, Renames, Rekeys
    <2>2. task' = [task EXCEPT ![d] = [task[d] EXCEPT !.pc = pc]]  BY <1>16, GoesType
    <2> QED  BY <2>1, <2>2, OneTask
  <1>17. ASSUME NEW d \in Devices, PutFirst(d) PROVE TasksOK'
    BY <1>2, <1>3, <1>17 DEF PutFirst
  <1>18. ASSUME NEW d \in Devices, Recover(d) \/ RevokeOthers(d) PROVE TasksOK'
    BY <1>2, <1>16, <1>18 DEF Recover, RevokeOthers
  <1>19. ASSUME NEW d \in Devices,
                \/ GiveUp(d) \/ Change(d) \/ Reset(d) \/ RotationLands(d) \/ RotationLost(d)
                \/ SetUp(d) \/ EnrolRecovered(d)
         PROVE TasksOK'
    BY <1>2, <1>19 DEF GiveUp, Change, Reset, RotationLands, RotationLost, SetUp, EnrolRecovered
  <1>20. ASSUME NEW d \in Devices,
                \/ Refresh(d) \/ RemoveRecovery(d) \/ Offer(d) \/ Register(d) \/ LoseKeypair(d)
                \/ Revoke(d) \/ \E k \in Keys : Accept(d, k)
         PROVE TasksOK'
    BY <1>1, <1>20 DEF Refresh, RemoveRecovery, Offer, Accept, Register, LoseKeypair, Revoke
  <1>21. CASE UNCHANGED vars
    BY <1>1, <1>21 DEF vars
  <1> QED
    BY <1>4, <1>5, <1>6, <1>7, <1>8, <1>9, <1>10, <1>11, <1>12, <1>13, <1>14, <1>15,
       <1>17, <1>18, <1>19, <1>20, <1>21
    DEF Next, Step, RekeyStep
-----------------------------------------------------------------------------
(* The passphrase.                                                         *)

\* A key that is wrapped stays wrapped, and only under the passphrase that is
\* proved: while none is registered, the one it was first wrapped under.
LEMMA Doors ==
    TypeOK /\ TasksOK /\ ClaimsOpen /\ ProofOpensVault /\ [Next]_vars =>
        /\ wrapped # NoWrap => wrapped' # NoWrap
        /\ auth' = NoPass => auth = NoPass /\ wrapped' = wrapped
        /\ ProofOpensVault'
  <1> DEFINE Kept == /\ wrapped # NoWrap => wrapped' # NoWrap
                     /\ auth' = NoPass => auth = NoPass /\ wrapped' = wrapped
                     /\ ProofOpensVault'
  <1> SUFFICES ASSUME TypeOK, TasksOK, ClaimsOpen, ProofOpensVault, [Next]_vars PROVE Kept
    OBVIOUS
  <1>1. NoPass \notin Passes /\ NoWrap \notin Wrap  BY NullAssumption
  <1>2. ASSUME NEW d \in Devices, task[d].pc \in Typed PROVE task[d].pass \in Passes
    BY <1>2 DEF TasksOK, TaskOK
  <1>3. ASSUME NEW d \in Devices, task[d].pc \in Typed \cup Renames, Rewrap(task[d]),
               task[d].next \in Passes
        PROVE  Kept
    <2>1. task[d].key \in Keys  BY DEF TypeOK, Task
    <2>2. wrapped' \in Wrap /\ wrapped'.pass = task[d].next /\ auth' = task[d].next
      BY <1>3, <2>1 DEF Rewrap, Wrap
    <2> QED  BY <1>1, <1>3, <2>2 DEF ProofOpensVault
  <1>4. ASSUME UNCHANGED <<wrapped, auth>> PROVE Kept
    BY <1>4 DEF ProofOpensVault
  <1>5. ASSUME NEW d \in Devices, Change(d) \/ Reset(d) \/ Recover(d) PROVE Kept
    <2>1. task[d].next \in Passes /\ task[d].pc \in Renames
      BY <1>5 DEF Change, Reset, Recover, TasksOK, TaskOK, Renames
    <2>2. Rewrap(task[d]) \/ UNCHANGED <<wrapped, auth>>
      BY <1>5 DEF Change, Reset, Recover
    <2> QED  BY <1>3, <1>4, <2>1, <2>2
  <1>6. ASSUME NEW d \in Devices, PutFirst(d) PROVE Kept
    <2>1. task[d].pass \in Passes /\ task[d].key \in Keys
      BY <1>2, <1>6 DEF PutFirst, Typed, TypeOK, Task
    <2>2. CASE wrapped = NoWrap
      <3>1. wrapped' \in Wrap /\ wrapped'.pass = task[d].pass /\ auth' = task[d].pass
        BY <1>6, <2>1, <2>2 DEF PutFirst, Wrap
      <3> QED  BY <1>1, <2>1, <2>2, <3>1 DEF ProofOpensVault
    <2>3. CASE wrapped # NoWrap  BY <1>4, <1>6, <2>3 DEF PutFirst
    <2> QED  BY <2>2, <2>3
  <1>7. ASSUME NEW d \in Devices, Claim(d) PROVE Kept
    <2>1. /\ task[d].pass \in Passes /\ wrapped # NoWrap
          /\ auth = NoPass => task[d].pass = wrapped.pass
      BY <1>2, <1>7 DEF Claim, Claims, Typed, ClaimsOpen
    <2>2. wrapped' = wrapped /\ auth' = IF auth = NoPass THEN task[d].pass ELSE auth
      BY <1>7, <2>1 DEF Claim, Claimed
    <2> QED  BY <1>1, <2>1, <2>2 DEF ProofOpensVault
  <1>8. ASSUME NEW d \in Devices, RotationLands(d) PROVE Kept
    <2>1. task[d].pass \in Passes /\ task[d].key \in Keys /\ auth = task[d].pass /\ auth' = auth
      BY <1>2, <1>8 DEF RotationLands, Proves, Typed, TypeOK, Task
    <2>2. wrapped' \in Wrap /\ wrapped'.pass = task[d].pass
      BY <1>8, <2>1 DEF RotationLands, Wrap
    <2> QED  BY <1>1, <2>1, <2>2 DEF ProofOpensVault
  <1>9. ASSUME NEW d \in Devices, Step(d),
               ~(Change(d) \/ Reset(d) \/ Recover(d) \/ PutFirst(d) \/ Claim(d) \/ RotationLands(d))
        PROVE  UNCHANGED <<wrapped, auth>>
    BY <1>9 DEF Step, RekeyStep, server, GiveUp, Unlock, Reread, FirstUnlock, StartChange,
       StartReset, OpenRecovery, StartRekey, ReadDevices, ReadRecovery, CheckRotation,
       RotationLost, Refresh, StartSetUp, SetUp, RemoveRecovery, RevokeOthers,
       EnrolRecovered, Offer, Accept, Register, LoseKeypair, Revoke
  <1>10. CASE UNCHANGED vars  BY <1>4, <1>10 DEF vars, server
  <1> HIDE DEF Kept
  <1> QED  BY <1>4, <1>5, <1>6, <1>7, <1>8, <1>9, <1>10 DEF Next

\* Who goes on to claim has just unwrapped the account's key, or had before.
LEMMA Claimants ==
    ASSUME TypeOK, ClaimsOpen, NEW d \in Devices, Step(d), NEW c \in Devices,
           task'[c].pc \in Claims \cup {"reread"}
    PROVE  \/ task[c].pc \in Claims \cup {"reread"} /\ task'[c] = task[c]
           \/ wrapped # NoWrap /\ (task'[c].pc \in Claims => task'[c].pass = wrapped.pass)
  <1> DEFINE Goal == \/ task[c].pc \in Claims \cup {"reread"} /\ task'[c] = task[c]
                     \/ wrapped # NoWrap /\ (task'[c].pc \in Claims => task'[c].pass = wrapped.pass)
  <1> SUFFICES Goal  OBVIOUS
  <1>0. task \in [Devices -> Task] /\ \A b \in Devices : task[b] \in Task  BY DEF TypeOK
  <1>1. ASSUME NEW t, task' = [task EXCEPT ![d] = t],
               t.pc \in Claims \cup {"reread"} =>
                    wrapped # NoWrap /\ (t.pc \in Claims => t.pass = wrapped.pass)
        PROVE  Goal
    BY <1>0, <1>1
  <1>2. ASSUME UNCHANGED task PROVE Goal
    BY <1>2
  <1>3. ASSUME Ends(d) PROVE Goal
    <2>1. Idle.pc \notin Claims \cup {"reread"}  BY DEF Idle, Claims
    <2> QED  BY <1>1, <1>3, <2>1 DEF Ends
  <1>4. CASE PutFirst(d)
    <2>1. CASE wrapped = NoWrap  BY <1>3, <1>4, <2>1 DEF PutFirst
    <2>2. CASE wrapped # NoWrap
      <3>1. task' = [task EXCEPT ![d] = [task[d] EXCEPT !.pc = "reread"]]
        BY <1>4, <2>2, GoesType DEF PutFirst
      <3>2. [task[d] EXCEPT !.pc = "reread"].pc = "reread"  BY <1>0 DEF Task
      <3> QED  BY <1>1, <2>2, <3>1, <3>2 DEF Claims
    <2> QED  BY <2>1, <2>2
  <1>5. CASE Reread(d)
    <2>1. wrapped # NoWrap  BY <1>5 DEF Reread, ClaimsOpen
    <2>2. CASE wrapped.pass = task[d].pass
      <3>1. task' = [task EXCEPT ![d] = [task[d] EXCEPT !.pc = "claim unlock"]]
        BY <1>5, <2>2, GoesType DEF Reread
      <3>2. [task[d] EXCEPT !.pc = "claim unlock"].pass = wrapped.pass  BY <1>0, <2>2 DEF Task
      <3> QED  BY <1>1, <2>1, <3>1, <3>2
    <2>3. CASE wrapped.pass # task[d].pass  BY <1>3, <1>5, <2>3 DEF Reread
    <2> QED  BY <2>2, <2>3
  <1>6. CASE Claim(d)
    <2>1. ASSUME NEW pc \in {"change", "devices"}, Goes(d, pc) PROVE Goal
      <3>1. task' = [task EXCEPT ![d] = [task[d] EXCEPT !.pc = pc]]
        BY <2>1, GoesType
      <3>2. [task[d] EXCEPT !.pc = pc].pc = pc  BY <1>0 DEF Task
      <3>3. pc \notin Claims \cup {"reread"}  BY DEF Claims
      <3> QED  BY <1>1, <3>1, <3>2, <3>3
    <2> QED  BY <1>3, <1>6, <2>1 DEF Claim
  <1>7. ASSUME NEW what, NEW t, Begins(d, what, t),
               t.pc \in Claims \cup {"reread"} =>
                    wrapped # NoWrap /\ (t.pc \in Claims => t.pass = wrapped.pass)
        PROVE  Goal
    BY <1>1, <1>7 DEF Begins
  <1>8. CASE Unlock(d)
    <2>1. [Idle EXCEPT !.pc = "claim unlock", !.pass = wrapped.pass].pass = wrapped.pass
      BY DEF Idle
    <2> QED  BY <1>7, <1>8, <2>1 DEF Unlock
  <1>9. ASSUME NEW p \in Passes, NEW isNew \in BOOLEAN, FirstUnlock(d, p, isNew) PROVE Goal
    <2>1. \A k : [Idle EXCEPT !.pc = "put", !.pass = p, !.epoch = epoch, !.key = k].pc
                    \notin Claims \cup {"reread"}
      BY DEF Idle, Claims
    <2> QED  BY <1>7, <1>9, <2>1 DEF FirstUnlock
  <1>10. ASSUME NEW q \in Passes, StartChange(d, q) PROVE Goal
    <2>1. [Idle EXCEPT !.pc = "claim change", !.pass = wrapped.pass, !.next = q,
             !.key = wrapped.key, !.epoch = epoch].pass = wrapped.pass
      BY DEF Idle
    <2> QED  BY <1>7, <1>10, <2>1 DEF StartChange
  <1>11. ASSUME NEW q \in Passes, StartReset(d, q) PROVE Goal
    <2>1. [Idle EXCEPT !.pc = "reset", !.next = q, !.key = ring[d][epoch], !.epoch = epoch].pc
            \notin Claims \cup {"reread"}
      BY DEF Idle, Claims
    <2> QED  BY <1>7, <1>11, <2>1 DEF StartReset
  <1>12. ASSUME NEW q \in Passes, OpenRecovery(d, q) PROVE Goal
    <2>1. [Idle EXCEPT !.pc = "recover", !.next = q, !.key = recovery.key,
             !.epoch = epoch, !.rec = recovery.pub].pc \notin Claims \cup {"reread"}
      BY DEF Idle, Claims
    <2> QED  BY <1>7, <1>12, <2>1 DEF OpenRecovery
  <1>13. CASE StartRekey(d)
    <2>1. [Idle EXCEPT !.pc = "claim rekey", !.pass = wrapped.pass, !.epoch = epoch].pass = wrapped.pass
      BY DEF Idle
    <2> QED  BY <1>7, <1>13, <2>1 DEF StartRekey
  <1>14. CASE StartSetUp(d)
    <2>1. [Idle EXCEPT !.pc = "set up", !.pass = wrapped.pass, !.key = wrapped.key,
             !.epoch = epoch, !.rec = made + 1].pc \notin Claims \cup {"reread"}
      BY DEF Idle, Claims
    <2> QED  BY <1>7, <1>14, <2>1 DEF StartSetUp
  <1>15. CASE ReadDevices(d) \/ ReadRecovery(d) \/ CheckRotation(d)
    <2>1. PICK t : task' = [task EXCEPT ![d] = t] /\ t.pc \in {"recovery", "check", "rotate", "idle"}
      <3>1. CASE ReadDevices(d)
        <4>1. PICK S \in [Devices -> {0} \cup Pairs] :
                task' = [task EXCEPT ![d] = [task[d] EXCEPT !.pc = "recovery", !.key = minted + 1, !.seals = S]]
          BY <3>1, RekeyTask
        <4>2. [task[d] EXCEPT !.pc = "recovery", !.key = minted + 1, !.seals = S].pc = "recovery"
          BY <1>0 DEF Task
        <4> QED  BY <4>1, <4>2
      <3>2. CASE ReadRecovery(d)
        <4>1. [task[d] EXCEPT !.pc = "check", !.rec = PublicKey].pc = "check"  BY <1>0 DEF Task
        <4> QED  BY <3>2, <4>1, RekeyTask
      <3>3. CASE CheckRotation(d)
        <4>1. [task[d] EXCEPT !.pc = "rotate", !.asks = (recovery # NoRecovery)].pc = "rotate"
          BY <1>0 DEF Task
        <4>2. Idle.pc = "idle"  BY DEF Idle
        <4> QED  BY <3>3, <4>1, <4>2, RekeyTask
      <3> QED  BY <1>15, <3>1, <3>2, <3>3
    <2> QED  BY <1>1, <2>1 DEF Claims
  <1>16. CASE Recover(d) \/ RevokeOthers(d)
    <2>1. ASSUME NEW pc \in {"revoke", "enrol"}, Goes(d, pc) PROVE Goal
      <3>1. task' = [task EXCEPT ![d] = [task[d] EXCEPT !.pc = pc]]
        BY <2>1, GoesType
      <3>2. [task[d] EXCEPT !.pc = pc].pc = pc  BY <1>0 DEF Task
      <3>3. pc \notin Claims \cup {"reread"}  BY DEF Claims
      <3> QED  BY <1>1, <3>1, <3>2, <3>3
    <2> QED  BY <1>3, <1>16, <2>1 DEF Recover, RevokeOthers
  <1>17. CASE \/ GiveUp(d) \/ Change(d) \/ Reset(d) \/ RotationLands(d) \/ RotationLost(d)
              \/ SetUp(d) \/ EnrolRecovered(d)
    BY <1>3, <1>17 DEF GiveUp, Change, Reset, RotationLands, RotationLost, SetUp, EnrolRecovered
  <1>18. CASE \/ Refresh(d) \/ RemoveRecovery(d) \/ Offer(d) \/ Register(d) \/ LoseKeypair(d)
              \/ Revoke(d) \/ \E k \in Keys : Accept(d, k)
    BY <1>2, <1>18 DEF Refresh, RemoveRecovery, Offer, Accept, Register, LoseKeypair, Revoke
  <1> HIDE DEF Goal
  <1> QED
    BY <1>4, <1>5, <1>6, <1>8, <1>9, <1>10, <1>11, <1>12, <1>13, <1>14, <1>15, <1>16, <1>17, <1>18
    DEF Step, RekeyStep
LEMMA ClaimsStep ==
    TypeOK /\ TasksOK /\ ClaimsOpen /\ ProofOpensVault /\ [Next]_vars => ClaimsOpen'
  <1> SUFFICES ASSUME TypeOK, TasksOK, ClaimsOpen, ProofOpensVault, [Next]_vars,
                      NEW c \in Devices, task'[c].pc \in Claims \cup {"reread"}
               PROVE  /\ wrapped' # NoWrap
                      /\ task'[c].pc \in Claims /\ auth' = NoPass => task'[c].pass = wrapped'.pass
    BY DEF ClaimsOpen
  <1>1. \/ task[c].pc \in Claims \cup {"reread"} /\ task'[c] = task[c]
        \/ wrapped # NoWrap /\ (task'[c].pc \in Claims => task'[c].pass = wrapped.pass)
    BY Claimants DEF Next, vars
  <1>2. /\ wrapped # NoWrap
        /\ task'[c].pc \in Claims /\ auth = NoPass => task'[c].pass = wrapped.pass
    BY <1>1 DEF ClaimsOpen
  <1> QED  BY <1>2, Doors

Opens == TypeOK /\ TasksOK /\ ClaimsOpen /\ ProofOpensVault

LEMMA OpensInit == Init => Opens
  <1> SUFFICES ASSUME Init PROVE Opens  OBVIOUS
  <1>1. \A d \in Devices : task[d].pc = "idle"  BY IdleType DEF Init
  <1>2. TasksOK /\ ClaimsOpen
    BY <1>1 DEF TasksOK, TaskOK, ClaimsOpen, Typed, Claims, Renames, Rekeys
  <1>3. ProofOpensVault
    <2>1. \A p \in Passes : [pass |-> p, key |-> 0] \in Wrap
      BY BoundsAssumption DEF Wrap, Keys
    <2> QED  BY <2>1, NullAssumption DEF Init, ProofOpensVault
  <1> QED  BY <1>2, <1>3, TypeInit DEF Opens

LEMMA OpensStep == Opens /\ [Next]_vars => Opens'
  BY TypeStep, TasksStep, ClaimsStep, Doors DEF Opens

LEMMA OpensInvariant == Spec => []Opens
  BY OpensInit, OpensStep, PTL DEF Spec

\* Every column, ring and task holds what the code keeps there: in particular
\* a copy is sealed to a keypair a device has had, and a rotation that does
\* not leave the recovery key out has one to seal to.
THEOREM TypeCorrect == Spec => []TypeOK
  <1>1. Opens => TypeOK  BY DEF Opens
  <1> QED  BY <1>1, OpensInvariant, PTL

\* Whatever is going on between the devices, with lost races and reads that
\* are out of date, the passphrase the worker takes for the account's opens
\* its wrapped key: nobody is locked out, and nobody locks the others out.
THEOREM ProofOpensVaultCorrect == Spec => []ProofOpensVault
  <1>1. Opens => ProofOpensVault  BY DEF Opens
  <1> QED  BY <1>1, OpensInvariant, PTL
-----------------------------------------------------------------------------
(* One key for each epoch.  The invariant is about what clients have read: *)
(* while the account is still at the epoch a task has read, the key the    *)
(* task has is the account's; nothing is ahead of the account's epoch; and *)
(* where no key is wrapped yet, there is nothing to disagree.              *)

Knows == {"claim change", "change", "reset", "set up", "recover", "revoke", "enrol"}

KnowsKey(t) ==
    /\ t.epoch <= epoch
    /\ t.pc \in Knows /\ t.epoch = epoch => wrapped # NoWrap /\ t.key = wrapped.key
    /\ t.pc \in {"put", "reread"} => t.epoch = 0
TasksKnow == \A d \in Devices : KnowsKey(task[d])

NothingAhead ==
    /\ \A d \in Devices, e \in Epochs : e > epoch => ring[d][e] = NoKey /\ sealed[d][e] = NoCopy
    /\ recovery # NoRecovery => recovery.epoch <= epoch

Blank ==
    wrapped = NoWrap =>
        /\ epoch = 0 /\ recovery = NoRecovery /\ offers = {}
        /\ \A d \in Devices, e \in Epochs : ring[d][e] = NoKey /\ sealed[d][e] = NoCopy
        /\ \A d \in Devices : task[d].pc \in {"idle", "put"}

Agrees == TasksKnow /\ NothingAhead /\ Blank /\ KeysAgree

\* Steps other than the two that give the account a key leave it the one it has.
Steady(d) == Step(d) /\ ~RotationLands(d) /\ ~(PutFirst(d) /\ wrapped = NoWrap)

LEMMA SteadyKey ==
    ASSUME Opens, Agrees, NEW d \in Devices, Steady(d)
    PROVE  /\ epoch' = epoch
           /\ wrapped = NoWrap => wrapped' = NoWrap
           /\ wrapped # NoWrap => wrapped' # NoWrap /\ wrapped'.key = wrapped.key
  <1>1. epoch' = epoch
    BY DEF Steady, Step, RekeyStep, server, GiveUp, Unlock, PutFirst, Reread, Claim, FirstUnlock,
       StartChange, StartReset, OpenRecovery, Change, Reset, StartRekey, ReadDevices, ReadRecovery,
       CheckRotation, RotationLost, Refresh, StartSetUp, SetUp, RemoveRecovery, Recover,
       RevokeOthers, EnrolRecovered, Offer, Accept, Register, LoseKeypair, Revoke
  <1>2. ASSUME Change(d) \/ Reset(d) \/ Recover(d)
        PROVE  wrapped # NoWrap /\ (wrapped' = wrapped \/ wrapped'.key = wrapped.key)
    <2>1. task[d].pc \in {"change", "reset", "recover"}  BY <1>2 DEF Change, Reset, Recover
    <2>2. wrapped' = wrapped \/ (Rewrap(task[d]) /\ epoch = task[d].epoch)
      BY <1>2 DEF Change, Reset, Recover, Proves, Recovers
    <2>3. epoch = task[d].epoch => wrapped # NoWrap /\ task[d].key = wrapped.key
      BY <2>1 DEF Agrees, TasksKnow, KnowsKey, Knows
    <2>4. wrapped # NoWrap  BY <2>1 DEF Agrees, Blank
    <2> QED  BY <2>2, <2>3, <2>4 DEF Rewrap
  <1>3. ASSUME ~(Change(d) \/ Reset(d) \/ Recover(d)) PROVE wrapped' = wrapped
    BY <1>3 DEF Steady, Step, RekeyStep, server, GiveUp, Unlock, PutFirst, Reread, Claim, FirstUnlock,
       StartChange, StartReset, OpenRecovery, StartRekey, ReadDevices, ReadRecovery,
       CheckRotation, RotationLost, Refresh, StartSetUp, SetUp, RemoveRecovery,
       RevokeOthers, EnrolRecovered, Offer, Accept, Register, LoseKeypair, Revoke
  <1>4. wrapped # NoWrap => wrapped' # NoWrap
    BY Doors DEF Opens, Next, Steady
  <1> QED  BY <1>1, <1>2, <1>3, <1>4

\* What it holds for its epoch, a device has been told by who knows.
LEMMA SteadyRing ==
    ASSUME OffersStayCurrent, Opens, Agrees, NEW d \in Devices, Steady(d),
           NEW c \in Devices, NEW e \in Epochs
    PROVE  \/ ring'[c][e] = ring[c][e]
           \/ /\ wrapped # NoWrap /\ e <= epoch
              /\ e = epoch => ring'[c][e] = wrapped.key
  <1> DEFINE Goal == \/ ring'[c][e] = ring[c][e]
                     \/ /\ wrapped # NoWrap /\ e <= epoch
                        /\ e = epoch => ring'[c][e] = wrapped.key
  <1> SUFFICES Goal  OBVIOUS
  <1>0. /\ ring \in [Devices -> [Epochs -> Keys \cup {NoKey}]]
        /\ epoch \in Epochs /\ epoch <= epoch
    BY BoundsAssumption DEF Opens, TypeOK, Epochs
  <1>1. ASSUME NEW f \in Epochs, NEW k, Learn(d, f, k), wrapped # NoWrap, f <= epoch,
               f = epoch => k = wrapped.key
        PROVE  Goal
    <2>1. ring' = [ring EXCEPT ![d] = [ring[d] EXCEPT ![f] = k]]  BY <1>0, <1>1 DEF Learn
    <2> QED  BY <1>0, <1>1, <2>1
  <1>2. CASE Unlock(d)  BY <1>0, <1>1, <1>2 DEF Unlock
  <1>3. CASE Reread(d)
    <2>1. task[d].epoch \in Epochs /\ task[d].epoch <= epoch /\ wrapped # NoWrap
      BY <1>3 DEF Reread, Opens, TypeOK, Task, ClaimsOpen, Agrees, TasksKnow, KnowsKey
    <2> QED  BY <1>1, <1>3, <2>1 DEF Reread
  <1>4. CASE Refresh(d)
    <2>1. wrapped # NoWrap /\ sealed[d][epoch].key = wrapped.key
      BY <1>4 DEF Refresh, Agrees, KeysAgree, CopiesAgree
    <2> QED  BY <1>0, <1>1, <1>4, <2>1 DEF Refresh
  <1>5. CASE EnrolRecovered(d)
    <2>1. /\ task[d].epoch \in Epochs /\ task[d].epoch <= epoch
          /\ task[d].epoch = epoch => task[d].key = wrapped.key
      BY <1>5 DEF EnrolRecovered, Opens, TypeOK, Task, Agrees, TasksKnow, KnowsKey, Knows
    <2>2. wrapped # NoWrap  BY <1>5 DEF EnrolRecovered, Agrees, Blank
    <2> QED  BY <1>1, <1>5, <2>1, <2>2 DEF EnrolRecovered
  <1>6. ASSUME NEW k \in Keys, Accept(d, k) PROVE Goal
    <2>1. wrapped # NoWrap /\ k = wrapped.key /\ Learn(d, epoch, k)
      BY <1>6 DEF Accept, Agrees, Blank
    <2> QED  BY <1>0, <1>1, <2>1
  <1>7. ASSUME ~(Unlock(d) \/ Reread(d) \/ Refresh(d) \/ EnrolRecovered(d) \/ \E k \in Keys : Accept(d, k))
        PROVE  ring' = ring
    BY <1>7 DEF Steady, Step, RekeyStep, clients, GiveUp, PutFirst, Claim, FirstUnlock,
       StartChange, StartReset, OpenRecovery, Change, Reset, StartRekey, ReadDevices, ReadRecovery,
       CheckRotation, RotationLost, StartSetUp, SetUp, RemoveRecovery, Recover,
       RevokeOthers, Offer, Register, LoseKeypair, Revoke
  <1> QED  BY <1>2, <1>3, <1>4, <1>5, <1>6, <1>7

\* Copies are only deleted; the recovery key only removed, or set up anew.
LEMMA SteadySeals ==
    ASSUME LostRacesCollide, Opens, Agrees, NEW d \in Devices, Steady(d)
    PROVE  /\ \A c \in Devices, e \in Epochs : sealed'[c][e] \in {sealed[c][e], NoCopy}
           /\ \/ recovery' \in {recovery, NoRecovery}
              \/ /\ wrapped # NoWrap /\ recovery' # NoRecovery
                 /\ recovery'.epoch = epoch /\ recovery'.key = wrapped.key
  <1>1. sealed \in [Devices -> [Epochs -> Copy \cup {NoCopy}]]  BY DEF Opens, TypeOK
  <1>2. CASE Revoke(d)
    <2>1. sealed' = [sealed EXCEPT ![d] = [e \in Epochs |-> NoCopy]] /\ recovery' = recovery
      BY <1>2 DEF Revoke
    <2> QED  BY <1>1, <2>1
  <1>3. CASE RevokeOthers(d)
    BY <1>3 DEF RevokeOthers
  <1>4. CASE SetUp(d)
    <2>1. sealed' = sealed  BY <1>4 DEF SetUp
    <2>2. CASE Proves(task[d])
      <3>1. epoch = task[d].epoch /\ task[d].pc = "set up"  BY <1>4, <2>2 DEF SetUp, Proves
      <3>2. wrapped # NoWrap /\ task[d].key = wrapped.key
        BY <3>1 DEF Agrees, TasksKnow, KnowsKey, Knows
      <3>3. /\ recovery' = [pub |-> task[d].rec, to |-> task[d].rec, key |-> task[d].key, epoch |-> epoch]
            /\ task[d] \in Task /\ TaskOK(task[d]) /\ epoch \in Epochs
        BY <1>4, <2>2, <3>1 DEF SetUp, Opens, TypeOK, TasksOK
      <3>4. task[d].rec \in Recoveries /\ task[d].key \in Keys
        BY <3>1, <3>3 DEF TaskOK, Task
      <3>5. recovery' \in Recovery  BY <3>3, <3>4 DEF Recovery
      <3> QED  BY <2>1, <3>2, <3>3, <3>5, NullAssumption
    <2>3. CASE ~Proves(task[d])  BY <1>4, <2>1, <2>3 DEF SetUp
    <2> QED  BY <2>2, <2>3
  <1>5. CASE RotationLost(d)
    BY <1>5 DEF RotationLost
  <1>6. CASE RemoveRecovery(d)
    BY <1>6 DEF RemoveRecovery
  <1>7. CASE ~(Revoke(d) \/ RevokeOthers(d) \/ SetUp(d) \/ RotationLost(d) \/ RemoveRecovery(d))
    <2>1. UNCHANGED <<sealed, recovery>>
      BY <1>7 DEF Steady, Step, RekeyStep, server, GiveUp, Unlock, PutFirst, Reread, Claim, FirstUnlock,
         StartChange, StartReset, OpenRecovery, Change, Reset, StartRekey, ReadDevices, ReadRecovery,
         CheckRotation, Refresh, StartSetUp, Recover, EnrolRecovered, Offer, Accept, Register, LoseKeypair
    <2> QED  BY <2>1
  <1> QED  BY <1>2, <1>3, <1>4, <1>5, <1>6, <1>7
\* What a task has read is the account's when it begins, and it forgets none of it.
LEMMA SteadyTask ==
    ASSUME Opens, Agrees, NEW d \in Devices, Steady(d), NEW c \in Devices
    PROVE  /\ KnowsKey(task'[c])
           /\ wrapped = NoWrap => task'[c].pc \in {"idle", "put"}
  <1> DEFINE Good(t) == KnowsKey(t) /\ (wrapped = NoWrap => t.pc \in {"idle", "put"})
  <1> SUFFICES Good(task'[c])  OBVIOUS
  <1>0. /\ TypeOK /\ task \in [Devices -> Task] /\ \A b \in Devices : task[b] \in Task
        /\ epoch \in Epochs /\ epoch <= epoch /\ 0 <= epoch
        /\ \A b \in Devices : Good(task[b])
    <2>1. TypeOK /\ task \in [Devices -> Task] /\ epoch \in Epochs  BY DEF Opens, TypeOK
    <2>2. epoch <= epoch /\ 0 <= epoch  BY <2>1, BoundsAssumption DEF Epochs
    <2>3. \A b \in Devices : Good(task[b])  BY DEF Agrees, TasksKnow, Blank
    <2> QED  BY <2>1, <2>2, <2>3
  <1>1. ASSUME NEW t, task' = [task EXCEPT ![d] = t], Good(t) PROVE Good(task'[c])
    BY <1>0, <1>1
  <1>2. Good(Idle)  BY <1>0 DEF Idle, KnowsKey, Knows
  <1>3. ASSUME Ends(d) PROVE Good(task'[c])
    BY <1>1, <1>2, <1>3 DEF Ends
  <1>4. ASSUME NEW what, NEW t, Begins(d, what, t), Good(t) PROVE Good(task'[c])
    BY <1>1, <1>4 DEF Begins
  <1>5. ASSUME NEW pc \in {"reread", "claim unlock", "change", "devices", "revoke", "enrol"},
               Goes(d, pc), Good([task[d] EXCEPT !.pc = pc])
        PROVE  Good(task'[c])
    BY <1>0, <1>1, <1>5, GoesType
  <1>6. ASSUME wrapped # NoWrap, NEW pc \in {"reread", "claim unlock", "change", "devices", "revoke", "enrol"},
               pc \in Knows => task[d].pc \in Knows,
               pc = "reread" => task[d].pc = "put"
        PROVE  Good([task[d] EXCEPT !.pc = pc])
    <2>1. Good(task[d])  BY <1>0
    <2>2. /\ [task[d] EXCEPT !.pc = pc].pc = pc
          /\ [task[d] EXCEPT !.pc = pc].key = task[d].key
          /\ [task[d] EXCEPT !.pc = pc].epoch = task[d].epoch
      BY <1>0 DEF Task
    <2> QED  BY <1>6, <2>1, <2>2 DEF KnowsKey
  <1>7. task[d].pc \notin {"idle", "put"} => wrapped # NoWrap  BY <1>0
  <1> HIDE DEF Good
  <1>8. CASE PutFirst(d)
    <2>1. wrapped # NoWrap /\ Goes(d, "reread") /\ task[d].pc = "put"
      BY <1>8 DEF Steady, PutFirst
    <2> QED  BY <1>5, <1>6, <2>1 DEF Knows
  <1>9. CASE Reread(d)
    <2>1. Goes(d, "claim unlock") \/ Ends(d)  BY <1>9 DEF Reread
    <2>2. wrapped # NoWrap  BY <1>7, <1>9 DEF Reread
    <2> QED  BY <1>3, <1>5, <1>6, <2>1, <2>2 DEF Knows
  <1>10. CASE Claim(d)
    <2>1. wrapped # NoWrap  BY <1>7, <1>10 DEF Claim
    <2>2. ASSUME Goes(d, "change"), task[d].pc = "claim change" PROVE Good(task'[c])
      BY <1>5, <1>6, <2>1, <2>2 DEF Knows
    <2>3. ASSUME Goes(d, "devices") PROVE Good(task'[c])
      BY <1>5, <1>6, <2>1, <2>3 DEF Knows
    <2> QED  BY <1>3, <1>10, <2>2, <2>3 DEF Claim
  <1>11. CASE Recover(d) \/ RevokeOthers(d)
    <2>1. wrapped # NoWrap /\ task[d].pc \in Knows
      BY <1>7, <1>11 DEF Recover, RevokeOthers, Knows
    <2>2. ASSUME NEW pc \in {"revoke", "enrol"}, Goes(d, pc) PROVE Good(task'[c])
      <3>1. Good([task[d] EXCEPT !.pc = pc])  BY <1>6, <2>1
      <3> QED  BY <1>5, <2>2, <3>1
    <2> QED  BY <1>3, <1>11, <2>2 DEF Recover, RevokeOthers
  <1>12. CASE Unlock(d)
    <2>1. Good([Idle EXCEPT !.pc = "claim unlock", !.pass = wrapped.pass])
      BY <1>0, <1>12 DEF Unlock, Good, Idle, KnowsKey, Knows
    <2> QED  BY <1>4, <1>12, <2>1 DEF Unlock
  <1>13. ASSUME NEW p \in Passes, NEW isNew \in BOOLEAN, FirstUnlock(d, p, isNew)
         PROVE Good(task'[c])
    <2>1. epoch = 0  BY <1>13 DEF FirstUnlock, Agrees, Blank
    <2>2. Good([Idle EXCEPT !.pc = "put", !.pass = p, !.epoch = epoch,
                  !.key = IF isNew THEN minted + 1 ELSE 0])
      BY <2>1 DEF Good, Idle, KnowsKey, Knows
    <2> QED  BY <1>4, <1>13, <2>2 DEF FirstUnlock
  <1>14. ASSUME NEW q \in Passes, StartChange(d, q) PROVE Good(task'[c])
    <2>1. Good([Idle EXCEPT !.pc = "claim change", !.pass = wrapped.pass, !.next = q,
             !.key = wrapped.key, !.epoch = epoch])
      BY <1>0, <1>14 DEF StartChange, Good, Idle, KnowsKey
    <2> QED  BY <1>4, <1>14, <2>1 DEF StartChange
  <1>15. ASSUME NEW q \in Passes, StartReset(d, q) PROVE Good(task'[c])
    <2>1. wrapped # NoWrap /\ ring[d][epoch] = wrapped.key
      BY <1>0, <1>15 DEF StartReset, IsCurrent, Holds, Agrees, Blank, KeysAgree, RingsAgree
    <2>2. Good([Idle EXCEPT !.pc = "reset", !.next = q, !.key = ring[d][epoch], !.epoch = epoch])
      BY <1>0, <2>1 DEF Good, Idle, KnowsKey
    <2> QED  BY <1>4, <1>15, <2>2 DEF StartReset
  <1>16. ASSUME NEW q \in Passes, OpenRecovery(d, q) PROVE Good(task'[c])
    <2>1. wrapped # NoWrap /\ recovery.key = wrapped.key
      BY <1>16 DEF OpenRecovery, Agrees, KeysAgree, RecoveryAgrees
    <2>2. Good([Idle EXCEPT !.pc = "recover", !.next = q, !.key = recovery.key,
             !.epoch = epoch, !.rec = recovery.pub])
      BY <1>0, <2>1 DEF Good, Idle, KnowsKey
    <2> QED  BY <1>4, <1>16, <2>2 DEF OpenRecovery
  <1>17. CASE StartRekey(d)
    <2>1. Good([Idle EXCEPT !.pc = "claim rekey", !.pass = wrapped.pass, !.epoch = epoch])
      BY <1>0, <1>17 DEF StartRekey, Good, Idle, KnowsKey, Knows
    <2> QED  BY <1>4, <1>17, <2>1 DEF StartRekey
  <1>18. CASE StartSetUp(d)
    <2>1. Good([Idle EXCEPT !.pc = "set up", !.pass = wrapped.pass, !.key = wrapped.key,
             !.epoch = epoch, !.rec = made + 1])
      BY <1>0, <1>18 DEF StartSetUp, Good, Idle, KnowsKey
    <2> QED  BY <1>4, <1>18, <2>1 DEF StartSetUp
  <1>19. CASE ReadDevices(d)
    <2>1. PICK S \in [Devices -> {0} \cup Pairs] :
            task' = [task EXCEPT ![d] = [task[d] EXCEPT !.pc = "recovery", !.key = minted + 1, !.seals = S]]
      BY <1>0, <1>19, RekeyTask
    <2>2. Good([task[d] EXCEPT !.pc = "recovery", !.key = minted + 1, !.seals = S])
      BY <1>0, <1>7, <1>19 DEF ReadDevices, Good, Task, KnowsKey, Knows
    <2> QED  BY <1>1, <2>1, <2>2
  <1>20. CASE ReadRecovery(d)
    <2>1. Good([task[d] EXCEPT !.pc = "check", !.rec = PublicKey])
      BY <1>0, <1>7, <1>20 DEF ReadRecovery, Good, Task, KnowsKey, Knows
    <2> QED  BY <1>0, <1>1, <1>20, <2>1, RekeyTask
  <1>21. CASE CheckRotation(d)
    <2>1. Good([task[d] EXCEPT !.pc = "rotate", !.asks = (recovery # NoRecovery)])
      BY <1>0, <1>7, <1>21 DEF CheckRotation, Good, Task, KnowsKey, Knows
    <2> QED  BY <1>0, <1>1, <1>2, <1>21, <2>1, RekeyTask
  <1>22. CASE \/ GiveUp(d) \/ Change(d) \/ Reset(d) \/ RotationLost(d)
              \/ SetUp(d) \/ EnrolRecovered(d)
    BY <1>3, <1>22 DEF GiveUp, Change, Reset, RotationLost, SetUp, EnrolRecovered
  <1>23. CASE \/ Refresh(d) \/ RemoveRecovery(d) \/ Offer(d) \/ Register(d) \/ LoseKeypair(d)
              \/ Revoke(d) \/ \E k \in Keys : Accept(d, k)
    <2>1. task' = task
      BY <1>23 DEF Refresh, RemoveRecovery, Offer, Accept, Register, LoseKeypair, Revoke
    <2> QED  BY <1>0, <2>1
  <1> QED
    BY <1>8, <1>9, <1>10, <1>11, <1>12, <1>13, <1>14, <1>15, <1>16, <1>17, <1>18, <1>19,
       <1>20, <1>21, <1>22, <1>23
    DEF Steady, Step, RekeyStep
\* Nothing is handed over of an account that has no key.
LEMMA SteadyOffers ==
    ASSUME Opens, Agrees, NEW d \in Devices, Steady(d), wrapped = NoWrap
    PROVE  offers' = {}
  <1>1. offers = {} /\ \A e \in Epochs : ~Holds(d, e)  BY DEF Agrees, Blank, Holds
  <1>2. ASSUME NEW k \in Keys, Accept(d, k) PROVE FALSE
    BY <1>1, <1>2 DEF Accept
  <1>3. ~Offer(d)  BY <1>1 DEF Offer, IsCurrent
  <1>4. offers' = offers
    BY <1>2, <1>3 DEF Steady, Step, RekeyStep, clients, GiveUp, Unlock, PutFirst, Reread, Claim, FirstUnlock,
       StartChange, StartReset, OpenRecovery, Change, Reset, StartRekey, ReadDevices, ReadRecovery,
       CheckRotation, RotationLost, Refresh, StartSetUp, SetUp, RemoveRecovery, Recover,
       RevokeOthers, EnrolRecovered, Register, LoseKeypair, Revoke
  <1> QED  BY <1>1, <1>4

LEMMA AgreesSteady ==
    ASSUME LostRacesCollide, OffersStayCurrent, Opens, Agrees, NEW d \in Devices, Steady(d)
    PROVE  Agrees'
  <1>1. /\ epoch' = epoch /\ epoch \in Epochs /\ epoch <= epoch /\ ~(epoch > epoch)
        /\ wrapped = NoWrap => wrapped' = NoWrap
        /\ wrapped # NoWrap => wrapped' # NoWrap /\ wrapped'.key = wrapped.key
    BY SteadyKey, BoundsAssumption DEF Opens, TypeOK, Epochs
  <1>2. TasksKnow'
    BY <1>1, SteadyTask DEF TasksKnow, KnowsKey
  <1>3. \A c \in Devices, e \in Epochs :
            \/ ring'[c][e] = ring[c][e]
            \/ wrapped # NoWrap /\ e <= epoch /\ (e = epoch => ring'[c][e] = wrapped.key)
    BY SteadyRing
  <1>4. /\ \A c \in Devices, e \in Epochs : sealed'[c][e] \in {sealed[c][e], NoCopy}
        /\ \/ recovery' \in {recovery, NoRecovery}
           \/ /\ wrapped # NoWrap /\ recovery' # NoRecovery
              /\ recovery'.epoch = epoch /\ recovery'.key = wrapped.key
    BY SteadySeals
  <1>5. \A e \in Epochs : e > epoch => ~(e <= epoch)
    BY <1>1, BoundsAssumption DEF Epochs
  <1>6. NothingAhead'
    BY <1>1, <1>3, <1>4, <1>5 DEF Agrees, NothingAhead
  <1>7. Blank'
    <2> SUFFICES ASSUME wrapped' = NoWrap
                 PROVE  /\ epoch' = 0 /\ recovery' = NoRecovery /\ offers' = {}
                        /\ \A c \in Devices, e \in Epochs : ring'[c][e] = NoKey /\ sealed'[c][e] = NoCopy
                        /\ \A c \in Devices : task'[c].pc \in {"idle", "put"}
      BY DEF Blank
    <2>1. wrapped = NoWrap  BY <1>1
    <2>2. \A c \in Devices : task'[c].pc \in {"idle", "put"}  BY <2>1, SteadyTask
    <2> QED  BY <1>1, <1>3, <1>4, <2>1, <2>2, SteadyOffers DEF Agrees, Blank
  <1>8. RingsAgree'
    BY <1>1, <1>3 DEF Agrees, KeysAgree, RingsAgree, Holds
  <1>9. CopiesAgree'
    BY <1>1, <1>4 DEF Agrees, KeysAgree, CopiesAgree
  <1>10. RecoveryAgrees'
    BY <1>1, <1>4 DEF Agrees, KeysAgree, RecoveryAgrees
  <1> QED  BY <1>2, <1>6, <1>7, <1>8, <1>9, <1>10 DEF Agrees, KeysAgree

\* The first wrapped key: there is nothing it could disagree with.
LEMMA AgreesFirst ==
    ASSUME Opens, Agrees, NEW d \in Devices, PutFirst(d), wrapped = NoWrap
    PROVE  Agrees'
  <1>0. /\ task \in [Devices -> Task] /\ ring \in [Devices -> [Epochs -> Keys \cup {NoKey}]]
        /\ task[d] \in Task /\ task[d].pass \in Passes /\ task[d].pc = "put"
        /\ 0 \in Epochs /\ 0 <= 0 /\ ~(0 > 0)
    <2>1. task \in [Devices -> Task] /\ ring \in [Devices -> [Epochs -> Keys \cup {NoKey}]]
      BY DEF Opens, TypeOK
    <2>2. task[d].pc = "put" /\ TaskOK(task[d])  BY DEF Opens, TasksOK, PutFirst
    <2>3. task[d].pass \in Passes  BY <2>2 DEF TaskOK, Typed
    <2>4. 0 \in Epochs /\ 0 <= 0 /\ ~(0 > 0)  BY BoundsAssumption DEF Epochs
    <2> QED  BY <2>1, <2>2, <2>3, <2>4
  <1>1. /\ epoch = 0 /\ recovery = NoRecovery /\ task[d].epoch = 0
        /\ \A c \in Devices, e \in Epochs : ring[c][e] = NoKey /\ sealed[c][e] = NoCopy
        /\ \A c \in Devices : task[c].pc \in {"idle", "put"} /\ KnowsKey(task[c])
    BY <1>0 DEF Agrees, Blank, TasksKnow, KnowsKey
  <1>2. /\ epoch' = 0 /\ UNCHANGED <<recovery, sealed>>
        /\ wrapped' = [pass |-> task[d].pass, key |-> task[d].key]
        /\ ring' = [ring EXCEPT ![d] = [ring[d] EXCEPT ![0] = task[d].key]]
        /\ task' = [task EXCEPT ![d] = Idle]
    BY <1>0, <1>1 DEF PutFirst, Learn, Ends
  <1>3. wrapped' # NoWrap /\ wrapped'.key = task[d].key
    <2>1. task[d].key \in Keys  BY <1>0 DEF Task
    <2>2. wrapped' \in Wrap  BY <1>0, <1>2, <2>1 DEF Wrap
    <2> QED  BY <1>2, <2>2, NullAssumption
  <1>4. TasksKnow'
    <2> SUFFICES ASSUME NEW c \in Devices PROVE KnowsKey(task[c])' 
      BY DEF TasksKnow
    <2>1. task'[c] = Idle \/ task'[c] = task[c]  BY <1>0, <1>2
    <2>2. /\ task'[c].epoch <= 0 /\ task'[c].pc \notin Knows
          /\ task'[c].pc \in {"put", "reread"} => task'[c].epoch = 0
      <3>1. KnowsKey(task[c]) /\ task[c].pc \in {"idle", "put"}  BY <1>1
      <3>2. Idle.epoch = 0 /\ Idle.pc = "idle"  BY DEF Idle
      <3> QED  BY <1>0, <1>1, <2>1, <3>1, <3>2 DEF KnowsKey, Knows
    <2> QED  BY <1>2, <2>2 DEF KnowsKey
  <1>5. \A c \in Devices, e \in Epochs : ring'[c][e] = NoKey \/ (e = 0 /\ ring'[c][e] = task[d].key)
    BY <1>0, <1>1, <1>2
  <1>6. NothingAhead'
    BY <1>0, <1>1, <1>2, <1>5 DEF NothingAhead
  <1>7. Blank'  BY <1>3 DEF Blank
  <1>8. KeysAgree'
    BY <1>0, <1>1, <1>2, <1>3, <1>5 DEF KeysAgree, RingsAgree, CopiesAgree, RecoveryAgrees, Holds
  <1> QED  BY <1>4, <1>6, <1>7, <1>8 DEF Agrees
\* A re-key: what is made for the new epoch is made by it alone.
LEMMA AgreesRekey ==
    ASSUME Opens, Agrees, NEW d \in Devices, RotationLands(d)
    PROVE  Agrees'
  <1> DEFINE t == task[d]
  <1> DEFINE n == epoch + 1
  <1>0. /\ task \in [Devices -> Task] /\ ring \in [Devices -> [Epochs -> Keys \cup {NoKey}]]
        /\ \A c \in Devices : task[c] \in Task
    BY DEF Opens, TypeOK
  <1>1. t.epoch = epoch /\ TaskOK(t) /\ t.pc = "rotate" /\ t \in Task
    BY <1>0 DEF RotationLands, Proves, Opens, TasksOK
  <1>2. epoch \in Nat /\ n \in Epochs /\ n \in Nat /\ epoch \in Epochs
    BY <1>1, BoundsAssumption DEF TaskOK, Rekeys, Epochs, Opens, TypeOK
  <1>3. /\ epoch' = n
        /\ sealed' = [c \in Devices |-> [e \in Epochs |->
                        IF e < n THEN NoCopy
                        ELSE IF e = n /\ t.seals[c] # 0 THEN [pair |-> t.seals[c], key |-> t.key]
                        ELSE sealed[c][e]]]
        /\ task' = [task EXCEPT ![d] = Idle]
    BY <1>1 DEF RotationLands, To, Sealing, Ends
  <1>4. wrapped' # NoWrap /\ wrapped'.key = t.key
    <2>1. t.pass \in Passes /\ t.key \in Keys  BY <1>1 DEF TaskOK, Typed, Task
    <2>2. wrapped' = [pass |-> t.pass, key |-> t.key]  BY DEF RotationLands
    <2>3. wrapped' \in Wrap  BY <2>1, <2>2 DEF Wrap
    <2> QED  BY <2>2, <2>3, NullAssumption
  <1>5. ring' = [ring EXCEPT ![d] = [ring[d] EXCEPT ![n] = t.key]] \/ ring' = ring
    BY <1>0, <1>1 DEF RotationLands, To, Learn
  <1>6. /\ recovery # NoRecovery => recovery.epoch \in Epochs /\ recovery.epoch <= epoch
        /\ \/ recovery' = recovery
           \/ recovery' # NoRecovery /\ recovery'.epoch = n /\ recovery'.key = t.key
    <2>1. recovery # NoRecovery => recovery \in Recovery /\ recovery.epoch <= epoch
      BY DEF Opens, TypeOK, Agrees, NothingAhead
    <2>2. recovery' = SealingRecovery(t)  BY DEF RotationLands
    <2>3. CASE t.asks /\ recovery # NoRecovery
      <3>1. recovery' = [recovery EXCEPT !.to = t.rec, !.key = t.key, !.epoch = n]
        BY <1>1, <2>2, <2>3 DEF SealingRecovery, To
      <3>2. t.rec \in Recoveries /\ t.key \in Keys  BY <1>1, <2>3 DEF TaskOK, Task
      <3>3. recovery' \in Recovery  BY <1>2, <2>1, <2>3, <3>1, <3>2 DEF Recovery
      <3> QED  BY <2>1, <2>3, <3>1, <3>3, NullAssumption DEF Recovery
    <2>4. CASE ~(t.asks /\ recovery # NoRecovery)
      BY <2>1, <2>2, <2>4 DEF SealingRecovery, Recovery
    <2> QED  BY <2>3, <2>4
  <1>7. \A e \in Epochs : e \in Nat  BY BoundsAssumption DEF Epochs
  <1>8. \A c \in Devices, e \in Epochs : e > epoch => ring[c][e] = NoKey /\ sealed[c][e] = NoCopy
    BY DEF Agrees, NothingAhead
  <1> HIDE DEF t
  <1>9. TasksKnow'
    <2> SUFFICES ASSUME NEW c \in Devices PROVE KnowsKey(task[c])'  BY DEF TasksKnow
    <2>1. Idle.epoch = 0 /\ Idle.pc = "idle"  BY DEF Idle
    <2>2. KnowsKey(task[c]) /\ task[c].epoch \in Epochs  BY <1>0 DEF Agrees, TasksKnow, Task
    <2>3. /\ task'[c].epoch \in Nat /\ task'[c].epoch <= epoch
          /\ task'[c].pc \in {"put", "reread"} => task'[c].epoch = 0
      <3>1. task'[c] = Idle \/ task'[c] = task[c]  BY <1>0, <1>3
      <3>2. 0 \in Nat /\ 0 <= epoch  BY <1>2
      <3>3. /\ task[c].epoch \in Nat /\ task[c].epoch <= epoch
            /\ task[c].pc \in {"put", "reread"} => task[c].epoch = 0
        BY <1>7, <2>2 DEF KnowsKey
      <3> QED  BY <2>1, <3>1, <3>2, <3>3
    <2>4. task'[c].epoch <= n /\ task'[c].epoch # n  BY <1>2, <2>3
    <2> QED  BY <1>3, <2>3, <2>4 DEF KnowsKey
  <1>10. \A c \in Devices, e \in Epochs :
            ring'[c][e] = ring[c][e] \/ (e = n /\ ring'[c][e] = t.key)
    BY <1>0, <1>5
  <1>11. \A c \in Devices, e \in Epochs :
            sealed'[c][e] = NoCopy \/ (e = n /\ sealed'[c][e].key = t.key)
    <2> SUFFICES ASSUME NEW c \in Devices, NEW e \in Epochs
                 PROVE  sealed'[c][e] = NoCopy \/ (e = n /\ sealed'[c][e].key = t.key)
      OBVIOUS
    <2>1. sealed'[c][e] = IF e < n THEN NoCopy
                          ELSE IF e = n /\ t.seals[c] # 0 THEN [pair |-> t.seals[c], key |-> t.key]
                          ELSE sealed[c][e]
      BY <1>3
    <2>2. e < n \/ (e > epoch /\ sealed[c][e] = NoCopy)  BY <1>2, <1>7, <1>8
    <2> QED  BY <2>1, <2>2
  <1>12. NothingAhead'
    <2>1. \A e \in Epochs : e > n => e > epoch /\ e # n  BY <1>2, <1>7
    <2>2. \A c \in Devices, e \in Epochs : e > n => ring'[c][e] = NoKey /\ sealed'[c][e] = NoCopy
      BY <1>8, <1>10, <1>11, <2>1
    <2>3. n <= n /\ \A e \in Epochs : e <= epoch => e <= n  BY <1>2, <1>7
    <2>4. recovery' # NoRecovery =>
            recovery'.epoch = n \/ (recovery'.epoch \in Epochs /\ recovery'.epoch <= epoch)
      BY <1>6
    <2>5. recovery' # NoRecovery => recovery'.epoch <= n
      <3> HIDE DEF n
      <3> QED  BY <2>3, <2>4
    <2> QED  BY <1>3, <2>2, <2>5 DEF NothingAhead
  <1>13. Blank'  BY <1>4 DEF Blank
  <1>14. RingsAgree'
    BY <1>2, <1>3, <1>4, <1>7, <1>8, <1>10 DEF RingsAgree, Holds
  <1>15. CopiesAgree' /\ RecoveryAgrees'
    BY <1>2, <1>3, <1>4, <1>6, <1>7, <1>11 DEF CopiesAgree, RecoveryAgrees
  <1> QED  BY <1>9, <1>12, <1>13, <1>14, <1>15 DEF Agrees, KeysAgree

LEMMA AgreesStep ==
    ASSUME LostRacesCollide, OffersStayCurrent
    PROVE  Opens /\ Agrees /\ [Next]_vars => Agrees'
  <1> SUFFICES ASSUME Opens, Agrees, [Next]_vars PROVE Agrees'  OBVIOUS
  <1>1. ASSUME NEW d \in Devices, Step(d) PROVE Agrees'
    BY <1>1, AgreesSteady, AgreesFirst, AgreesRekey DEF Steady
  <1>2. CASE UNCHANGED vars
    BY <1>2 DEF vars, server, clients, counts, Agrees, TasksKnow, KnowsKey, NothingAhead, Blank,
       KeysAgree, RingsAgree, CopiesAgree, RecoveryAgrees, Holds
  <1> QED  BY <1>1, <1>2 DEF Next

LEMMA AgreesInit == Init => Agrees
  <1> SUFFICES ASSUME Init PROVE Agrees  OBVIOUS
  <1>1. 0 \in Epochs /\ 0 <= 0 /\ \A e \in Epochs : e > 0 => e # 0
    BY BoundsAssumption DEF Epochs
  <1>2. \A c \in Devices : task[c].pc = "idle" /\ task[c].epoch = 0  BY IdleType DEF Init
  <1>3. TasksKnow  BY <1>1, <1>2 DEF Init, TasksKnow, KnowsKey, Knows
  <1>4. \A c \in Devices, e \in Epochs : ring[c][e] = NoKey \/ (e = 0 /\ ring[c][e] = 0 /\ wrapped # NoWrap)
    <2>1. \A e \in Epochs : Empty[e] = NoKey  BY DEF Empty
    <2>2. \A e \in Epochs : [Empty EXCEPT ![0] = 0][e] = IF e = 0 THEN 0 ELSE NoKey
      BY DEF Empty
    <2>3. \A p \in Passes : [pass |-> p, key |-> 0] # NoWrap
      BY BoundsAssumption, NullAssumption DEF Wrap, Keys
    <2> QED  BY <2>1, <2>2, <2>3 DEF Init
  <1>5. NothingAhead  BY <1>1, <1>4 DEF Init, NothingAhead
  <1>6. Blank  BY <1>2, <1>4 DEF Init, Blank
  <1>7. wrapped # NoWrap => wrapped.key = 0  BY DEF Init
  <1>8. KeysAgree
    BY <1>1, <1>4, <1>7 DEF Init, KeysAgree, RingsAgree, CopiesAgree, RecoveryAgrees, Holds
  <1> QED  BY <1>3, <1>5, <1>6, <1>8 DEF Agrees

\* Two re-keys, a passphrase change, a reset and a recovery, from devices that
\* have each read the account at a time of their own: everything there is for
\* the account's epoch is of one key, the one its passphrase opens.
THEOREM KeysAgreeCorrect ==
    ASSUME LostRacesCollide, OffersStayCurrent
    PROVE  Spec => []KeysAgree
  <1>1. Init => Opens /\ Agrees  BY OpensInit, AgreesInit
  <1>2. Opens /\ Agrees /\ [Next]_vars => (Opens /\ Agrees)'  BY OpensStep, AgreesStep
  <1>3. Opens /\ Agrees => KeysAgree  BY DEF Agrees
  <1> QED  BY <1>1, <1>2, <1>3, PTL DEF Spec
-----------------------------------------------------------------------------
(* The vault.  A device that has yet to join, or to unlock for the first   *)
(* time, holds nothing; what devices hold, and what one about to be        *)
(* recovered has been given, are keys the account has had; and the keys of *)
(* re-keys under way are none of these, and no two are the same.           *)

Recovering == {"recover", "revoke", "enrol"}
Drawn == {"recovery", "check", "rotate"}

Standing(d) ==
    /\ task[d].pc \in Recovering => status[d] = "out"
    /\ task[d].pc \notin Recovering \cup {"idle"} => status[d] # "out"
    /\ status[d] = "out" \/ task[d].pc \in {"put", "reread"} => \A e \in Epochs : ring[d][e] = NoKey
Stand == \A d \in Devices : Standing(d)

KeyKnown(t) ==
    /\ t.pc \in Recovering => t.key \in past
    /\ t.pc = "put" => t.key <= minted
    /\ t.pc \in Drawn => t.key \in 1..minted /\ t.key \notin past

Remembers ==
    /\ \A k \in past : k <= minted
    /\ wrapped # NoWrap => wrapped.key \in past
    /\ \A d \in Devices, e \in Epochs : Holds(d, e) => ring[d][e] \in past
    /\ \A d \in Devices : KeyKnown(task[d])
    /\ \A c, d \in Devices : c # d /\ task[c].pc \in Drawn /\ task[d].pc \in Drawn
            => task[c].key # task[d].key

Whole == Opens /\ Agrees /\ Stand /\ Remembers

\* What a device other than the one that acts is, has and does.
LEMMA OthersStand ==
    ASSUME TypeOK, NEW d \in Devices, Step(d), NEW c \in Devices, c # d
    PROVE  /\ task'[c] = task[c] /\ ring'[c] = ring[c]
           /\ status'[c] = status[c] \/ (status[c] = "active" /\ status'[c] = "revoked")
  <1> USE DEF TypeOK
  <1>1. task'[c] = task[c]
    <2>1. ASSUME ReadDevices(d) \/ ReadRecovery(d) \/ CheckRotation(d) PROVE task'[c] = task[c]
      BY <2>1, RekeyTask
    <2>2. ASSUME ~(ReadDevices(d) \/ ReadRecovery(d) \/ CheckRotation(d)) PROVE task'[c] = task[c]
      BY <2>2 DEF Step, RekeyStep, Begins, Goes, Ends, GiveUp, Unlock, PutFirst, Reread, Claim, FirstUnlock,
         StartChange, StartReset, OpenRecovery, Change, Reset, StartRekey,
         RotationLands, RotationLost, Refresh, StartSetUp, SetUp, RemoveRecovery, Recover,
         RevokeOthers, EnrolRecovered, Offer, Accept, Register, LoseKeypair, Revoke
    <2> QED  BY <2>1, <2>2
  <1>2. ring'[c] = ring[c]
    BY DEF Step, RekeyStep, clients, Learn, GiveUp, Unlock, PutFirst, Reread, Claim, FirstUnlock,
       StartChange, StartReset, OpenRecovery, Change, Reset, StartRekey, ReadDevices, ReadRecovery,
       CheckRotation, RotationLands, RotationLost, Refresh, StartSetUp, SetUp, RemoveRecovery, Recover,
       RevokeOthers, EnrolRecovered, Offer, Accept, Register, LoseKeypair, Revoke
  <1>3. status'[c] = status[c] \/ (status[c] = "active" /\ status'[c] = "revoked")
    BY DEF Step, RekeyStep, clients, GiveUp, Unlock, PutFirst, Reread, Claim, FirstUnlock,
       StartChange, StartReset, OpenRecovery, Change, Reset, StartRekey, ReadDevices, ReadRecovery,
       CheckRotation, RotationLands, RotationLost, Refresh, StartSetUp, SetUp, RemoveRecovery, Recover,
       RevokeOthers, EnrolRecovered, Offer, Accept, Register, LoseKeypair, Revoke
  <1> QED  BY <1>1, <1>2, <1>3
\* What the device that acts learns is a key the account has had, for an epoch
\* it had none for or had the same.
LEMMA SteadyLearn ==
    ASSUME OffersStayCurrent, Whole, NEW d \in Devices, Steady(d), ring' # ring
    PROVE  \E e \in Epochs, k \in past :
              /\ ring' = [ring EXCEPT ![d] = [ring[d] EXCEPT ![e] = k]]
              /\ ring[d][e] \in {NoKey, k}
              /\ status[d] # "revoked" /\ status' = [status EXCEPT ![d] = "active"]
  <1> DEFINE Goal == \E e \in Epochs, k \in past :
                        /\ ring' = [ring EXCEPT ![d] = [ring[d] EXCEPT ![e] = k]]
                        /\ ring[d][e] \in {NoKey, k}
                        /\ status[d] # "revoked" /\ status' = [status EXCEPT ![d] = "active"]
  <1> SUFFICES Goal  OBVIOUS
  <1>0. /\ ring \in [Devices -> [Epochs -> Keys \cup {NoKey}]] /\ epoch \in Epochs
        /\ status \in [Devices -> {"out", "active", "revoked"}]
        /\ wrapped # NoWrap => wrapped.key \in past
        /\ task[d] \in Task /\ Standing(d) /\ KeyKnown(task[d])
    BY DEF Whole, Opens, TypeOK, Stand, Remembers
  <1>1. ASSUME NEW e \in Epochs, NEW k \in past, Learn(d, e, k), ring[d][e] \in {NoKey, k},
               status[d] # "revoked", status' = [status EXCEPT ![d] = "active"]
        PROVE  Goal
    <2>1. ring' = [ring EXCEPT ![d] = [ring[d] EXCEPT ![e] = k]]  BY <1>0, <1>1 DEF Learn
    <2> QED  BY <1>1, <2>1
  <1>2. ASSUME UNCHANGED status, status[d] = "active" PROVE status' = [status EXCEPT ![d] = "active"]
    BY <1>0, <1>2
  <1> HIDE DEF Goal
  <1>3. CASE Unlock(d)
    <2>1. wrapped.key \in past /\ ring[d][epoch] \in {NoKey, wrapped.key}
      BY <1>0, <1>3 DEF Unlock, Whole, Agrees, KeysAgree, RingsAgree, Holds
    <2> QED  BY <1>0, <1>1, <1>3, <2>1 DEF Unlock
  <1>4. CASE Reread(d)
    <2>1. task[d].epoch \in Epochs /\ wrapped # NoWrap
      BY <1>0, <1>4 DEF Reread, Task, Whole, Opens, ClaimsOpen
    <2>2. ring[d][task[d].epoch] = NoKey  BY <1>0, <1>4, <2>1 DEF Reread, Standing
    <2> QED  BY <1>0, <1>1, <1>2, <1>4, <2>1, <2>2 DEF Reread
  <1>5. CASE Refresh(d)
    <2>1. wrapped # NoWrap /\ sealed[d][epoch].key = wrapped.key
      BY <1>5 DEF Refresh, Whole, Agrees, KeysAgree, CopiesAgree
    <2>2. ring[d][epoch] = NoKey  BY <1>5 DEF Refresh, HasMissed, Holds
    <2> QED  BY <1>0, <1>1, <1>2, <1>5, <2>1, <2>2 DEF Refresh
  <1>6. CASE EnrolRecovered(d)
    <2>1. task[d].epoch \in Epochs /\ task[d].key \in past /\ status[d] = "out"
      BY <1>0, <1>6 DEF EnrolRecovered, Task, Standing, KeyKnown, Recovering
    <2>2. ring[d][task[d].epoch] = NoKey  BY <1>0, <2>1 DEF Standing
    <2> QED  BY <1>1, <1>6, <2>1, <2>2 DEF EnrolRecovered
  <1>7. ASSUME NEW k \in Keys, Accept(d, k) PROVE Goal
    <2>1. wrapped # NoWrap /\ k = wrapped.key
      BY <1>7 DEF Accept, Whole, Agrees, Blank
    <2>2. ring[d][epoch] = NoKey  BY <1>0, <1>7 DEF Accept, Standing
    <2> QED  BY <1>0, <1>1, <1>7, <2>1, <2>2 DEF Accept
  <1>8. ASSUME ~(Unlock(d) \/ Reread(d) \/ Refresh(d) \/ EnrolRecovered(d) \/ \E k \in Keys : Accept(d, k))
        PROVE  ring' = ring
    BY <1>8 DEF Steady, Step, RekeyStep, clients, GiveUp, PutFirst, Claim, FirstUnlock,
       StartChange, StartReset, OpenRecovery, Change, Reset, StartRekey, ReadDevices, ReadRecovery,
       CheckRotation, RotationLost, StartSetUp, SetUp, RemoveRecovery, Recover,
       RevokeOthers, Offer, Register, LoseKeypair, Revoke
  <1> QED  BY <1>3, <1>4, <1>5, <1>6, <1>7, <1>8

\* And where the device that acts stands after it.
LEMMA ActorStands ==
    ASSUME Opens, Agrees, Stand, NEW d \in Devices, Step(d)
    PROVE  Standing(d)'
  <1>0. /\ TypeOK /\ task \in [Devices -> Task] /\ task[d] \in Task
        /\ status \in [Devices -> {"out", "active", "revoked"}]
        /\ ring \in [Devices -> [Epochs -> Keys \cup {NoKey}]]
        /\ Standing(d)
    BY DEF Opens, TypeOK, Stand
  <1>1. Idle.pc = "idle" /\ "idle" \notin Recovering  BY DEF Idle, Recovering
  <1>2. ASSUME Ends(d), status'[d] # "out" PROVE Standing(d)'
    <2>1. task'[d] = Idle  BY <1>0, <1>2 DEF Ends
    <2> QED  BY <1>1, <1>2, <2>1 DEF Standing
  <1>3. ASSUME Ends(d), ring'[d] = ring[d], status'[d] = status[d] PROVE Standing(d)'
    <2>1. task'[d] = Idle  BY <1>0, <1>3 DEF Ends
    <2> QED  BY <1>0, <1>1, <1>3, <2>1 DEF Standing
  <1>4. ASSUME NEW t, task' = [task EXCEPT ![d] = t],
               t.pc \notin Recovering \cup {"put", "reread"}, status'[d] # "out"
        PROVE  Standing(d)'
    <2>1. task'[d] = t  BY <1>0, <1>4
    <2> QED  BY <1>4, <2>1 DEF Standing
  <1>5. ASSUME UNCHANGED task, status'[d] = status[d] \/ (status[d] = "active" /\ status'[d] = "revoked"),
               UNCHANGED ring
        PROVE  Standing(d)'
    BY <1>0, <1>5 DEF Standing
  <1>6. ASSUME NEW pc \in {"reread", "claim unlock", "change", "devices", "revoke", "enrol"}, Goes(d, pc)
        PROVE  task' = [task EXCEPT ![d] = [task[d] EXCEPT !.pc = pc]] /\ task'[d].pc = pc
    <2>1. task' = [task EXCEPT ![d] = [task[d] EXCEPT !.pc = pc]]  BY <1>0, <1>6, GoesType
    <2>2. [task[d] EXCEPT !.pc = pc].pc = pc  BY <1>0 DEF Task
    <2> QED  BY <1>0, <2>1, <2>2
  <1>7. CASE Unlock(d)
    <2>1. [Idle EXCEPT !.pc = "claim unlock", !.pass = wrapped.pass].pc
                \notin Recovering \cup {"put", "reread"}
      BY DEF Idle, Recovering
    <2>2. status'[d] # "out"  BY <1>0, <1>7 DEF Unlock
    <2> QED  BY <1>4, <1>7, <2>1, <2>2 DEF Unlock, Begins
  <1>8. CASE PutFirst(d)
    <2>1. status'[d] # "out" /\ status' = status
      BY <1>0, <1>8 DEF PutFirst, Standing, Recovering
    <2>2. CASE wrapped = NoWrap  BY <1>2, <1>8, <2>1, <2>2 DEF PutFirst
    <2>3. CASE wrapped # NoWrap
      <3>1. task'[d].pc = "reread" /\ ring' = ring  BY <1>6, <1>8, <2>3 DEF PutFirst
      <3>2. \A e \in Epochs : ring[d][e] = NoKey  BY <1>0, <1>8 DEF PutFirst, Standing
      <3> QED  BY <2>1, <3>1, <3>2 DEF Standing, Recovering
    <2> QED  BY <2>2, <2>3
  <1>9. CASE Reread(d)
    <2>1. status'[d] # "out"  BY <1>0, <1>9 DEF Reread
    <2>2. ASSUME Goes(d, "claim unlock") PROVE Standing(d)'
      <3>1. task'[d].pc = "claim unlock"  BY <1>6, <2>2
      <3> QED  BY <2>1, <3>1 DEF Standing, Recovering
    <2> QED  BY <1>2, <1>9, <2>1, <2>2 DEF Reread
  <1>10. CASE Claim(d)
    <2>1. status'[d] # "out"  BY <1>0, <1>10 DEF Claim, clients
    <2>2. ASSUME NEW pc \in {"change", "devices"}, Goes(d, pc) PROVE Standing(d)'
      <3>0. pc \in {"reread", "claim unlock", "change", "devices", "revoke", "enrol"}
        OBVIOUS
      <3>1. task'[d].pc = pc  BY ONLY <3>0, <2>2, <1>6
      <3> QED  BY <2>1, <3>1 DEF Standing, Recovering
    <2> QED  BY <1>2, <1>10, <2>1, <2>2 DEF Claim
  <1>11. ASSUME NEW p \in Passes, NEW isNew \in BOOLEAN, FirstUnlock(d, p, isNew)
         PROVE Standing(d)'
    <2>1. \A e \in Epochs : ring[d][e] = NoKey  BY <1>11 DEF FirstUnlock, Agrees, Blank
    <2>2. \A k : [Idle EXCEPT !.pc = "put", !.pass = p, !.epoch = epoch, !.key = k].pc = "put"
      BY DEF Idle
    <2>3. task'[d].pc = "put"  BY <1>0, <1>11, <2>2 DEF FirstUnlock, Begins
    <2>4. status'[d] = "active" /\ ring' = ring  BY <1>11 DEF FirstUnlock, clients
    <2> QED  BY <2>1, <2>3, <2>4 DEF Standing, Recovering
  <1>12. CASE StartRekey(d) \/ StartSetUp(d) \/ (\E q \in Passes : StartChange(d, q) \/ StartReset(d, q))
    <2>1. status'[d] # "out"  BY <1>12 DEF StartRekey, StartSetUp, StartChange, StartReset, clients
    <2>2. task'[d].pc \in {"claim rekey", "set up", "claim change", "reset"}
      BY <1>0, <1>12 DEF StartRekey, StartSetUp, StartChange, StartReset, Begins, Idle
    <2> QED  BY <2>1, <2>2 DEF Standing, Recovering
  <1>13. ASSUME NEW q \in Passes, OpenRecovery(d, q) PROVE Standing(d)'
    <2>1. [Idle EXCEPT !.pc = "recover", !.next = q, !.key = recovery.key,
             !.epoch = epoch, !.rec = recovery.pub].pc = "recover"
      BY DEF Idle
    <2>2. task'[d].pc = "recover"  BY <1>0, <1>13, <2>1 DEF OpenRecovery, Begins
    <2>3. status'[d] = "out" /\ ring' = ring /\ \A e \in Epochs : ring[d][e] = NoKey
      BY <1>0, <1>13 DEF OpenRecovery, clients, Standing
    <2> QED  BY <2>2, <2>3 DEF Standing, Recovering
  <1>14. CASE ReadDevices(d) \/ ReadRecovery(d) \/ CheckRotation(d)
    <2>1. PICK t : task' = [task EXCEPT ![d] = t] /\ t.pc \in {"recovery", "check", "rotate", "idle"}
      <3>1. CASE ReadDevices(d)
        <4>1. PICK S \in [Devices -> {0} \cup Pairs] :
                task' = [task EXCEPT ![d] = [task[d] EXCEPT !.pc = "recovery", !.key = minted + 1, !.seals = S]]
          BY <1>0, <3>1, RekeyTask
        <4>2. [task[d] EXCEPT !.pc = "recovery", !.key = minted + 1, !.seals = S].pc = "recovery"
          BY <1>0 DEF Task
        <4> QED  BY <4>1, <4>2
      <3>2. CASE ReadRecovery(d)
        <4>1. [task[d] EXCEPT !.pc = "check", !.rec = PublicKey].pc = "check"  BY <1>0 DEF Task
        <4> QED  BY <1>0, <3>2, <4>1, RekeyTask
      <3>3. CASE CheckRotation(d)
        <4>1. [task[d] EXCEPT !.pc = "rotate", !.asks = (recovery # NoRecovery)].pc = "rotate"
          BY <1>0 DEF Task
        <4> QED  BY <1>0, <1>1, <3>3, <4>1, RekeyTask
      <3> QED  BY <1>14, <3>1, <3>2, <3>3
    <2>2. status'[d] # "out"
      BY <1>14 DEF ReadDevices, ReadRecovery, CheckRotation, clients
    <2> QED  BY <1>4, <2>1, <2>2 DEF Recovering
  <1>15. CASE RotationLands(d)
    <2>1. status'[d] # "out"  BY <1>0, <1>15 DEF RotationLands, Standing, Recovering
    <2> QED  BY <1>2, <1>15, <2>1 DEF RotationLands
  <1>16. CASE Recover(d) \/ RevokeOthers(d)
    <2>1. /\ status[d] = "out" /\ status'[d] = status[d] /\ ring' = ring
          /\ \A e \in Epochs : ring[d][e] = NoKey
      BY <1>0, <1>16 DEF Recover, RevokeOthers, clients, Standing, Recovering
    <2>2. ASSUME NEW pc \in {"revoke", "enrol"}, Goes(d, pc) PROVE Standing(d)'
      <3>0. pc \in {"reread", "claim unlock", "change", "devices", "revoke", "enrol"}
        OBVIOUS
      <3>1. task'[d].pc = pc  BY ONLY <3>0, <2>2, <1>6
      <3> QED  BY <2>1, <3>1 DEF Standing, Recovering
    <2> QED  BY <1>3, <1>16, <2>1, <2>2 DEF Recover, RevokeOthers
  <1>17. CASE EnrolRecovered(d)
    <2>1. status'[d] # "out"  BY <1>0, <1>17 DEF EnrolRecovered
    <2> QED  BY <1>2, <1>17, <2>1 DEF EnrolRecovered
  <1>18. CASE GiveUp(d) \/ Change(d) \/ Reset(d) \/ RotationLost(d) \/ SetUp(d)
    BY <1>3, <1>18 DEF GiveUp, Change, Reset, RotationLost, SetUp, clients
  <1>19. CASE Refresh(d)
    <2>1. status' = status /\ status[d] = "active" /\ task' = task
      BY <1>19 DEF Refresh
    <2>2. task[d].pc \notin {"put", "reread"}
      BY <1>0, <1>19 DEF Refresh, HasMissed, HasRing, Holds, Standing
    <2> QED  BY <1>0, <2>1, <2>2 DEF Standing
  <1>20. ASSUME NEW k \in Keys, Accept(d, k) PROVE Standing(d)'
    <2>1. status'[d] = "active" /\ task' = task /\ task[d].pc = "idle"
      BY <1>0, <1>20 DEF Accept, Free
    <2> QED  BY <1>1, <2>1 DEF Standing
  <1>21. CASE RemoveRecovery(d) \/ Offer(d) \/ Register(d) \/ LoseKeypair(d) \/ Revoke(d)
    BY <1>0, <1>5, <1>21 DEF RemoveRecovery, clients, Offer, Register, LoseKeypair, Revoke
  <1> QED
    BY <1>7, <1>8, <1>9, <1>10, <1>11, <1>12, <1>13, <1>14, <1>15, <1>16, <1>17, <1>18, <1>19, <1>20, <1>21
    DEF Step, RekeyStep
LEMMA StandStep == Opens /\ Agrees /\ Stand /\ [Next]_vars => Stand'
  <1> SUFFICES ASSUME Opens, Agrees, Stand, [Next]_vars, NEW c \in Devices PROVE Standing(c)'
    BY DEF Stand
  <1>1. ASSUME NEW d \in Devices, Step(d), c # d PROVE Standing(c)'
    <2>1. /\ task'[c] = task[c] /\ ring'[c] = ring[c]
          /\ status'[c] = status[c] \/ (status[c] = "active" /\ status'[c] = "revoked")
      BY <1>1, OthersStand DEF Opens
    <2>2. Standing(c)  BY DEF Stand
    <2> QED  BY <2>1, <2>2 DEF Standing
  <1>2. CASE UNCHANGED vars
    BY <1>2 DEF vars, clients, Stand, Standing
  <1> QED  BY <1>1, <1>2, ActorStands DEF Next

\* Where a task's key comes from: it had it, for the same purpose; it is the
\* account's, or drawn just now.
LEMMA ActorKey ==
    ASSUME Opens, Agrees, Remembers, NEW d \in Devices, Step(d)
    PROVE  \/ task'[d].pc \notin Recovering \cup Drawn \cup {"put"}
           \/ /\ task'[d].key = task[d].key
              /\ \/ task[d].pc \in Recovering /\ task'[d].pc \in Recovering
                 \/ task[d].pc \in Drawn /\ task'[d].pc \in Drawn
           \/ task'[d].pc = "recover" /\ task'[d].key \in past
           \/ ReadDevices(d) /\ task'[d].pc = "recovery" /\ task'[d].key = minted + 1
           \/ task'[d].pc = "put" /\ task'[d].key <= minted'
  <1> DEFINE Goal(t) ==
           \/ t.pc \notin Recovering \cup Drawn \cup {"put"}
           \/ /\ t.key = task[d].key
              /\ \/ task[d].pc \in Recovering /\ t.pc \in Recovering
                 \/ task[d].pc \in Drawn /\ t.pc \in Drawn
           \/ t.pc = "recover" /\ t.key \in past
           \/ ReadDevices(d) /\ t.pc = "recovery" /\ t.key = minted + 1
           \/ t.pc = "put" /\ t.key <= minted'
  <1> SUFFICES Goal(task'[d])  OBVIOUS
  <1>0. TypeOK /\ task \in [Devices -> Task] /\ task[d] \in Task
    BY DEF Opens, TypeOK
  <1>1. ASSUME NEW t, task' = [task EXCEPT ![d] = t], Goal(t) PROVE Goal(task'[d])
    BY <1>0, <1>1
  <1>2. ASSUME Ends(d) PROVE Goal(task'[d])
    <2>1. task'[d] = Idle  BY <1>0, <1>2 DEF Ends
    <2> QED  BY <2>1 DEF Idle, Recovering, Drawn
  <1>3. ASSUME NEW pc \in {"reread", "claim unlock", "change", "devices", "revoke", "enrol"}, Goes(d, pc),
               pc \in {"revoke", "enrol"} => task[d].pc \in Recovering
        PROVE  Goal(task'[d])
    <2>1. task' = [task EXCEPT ![d] = [task[d] EXCEPT !.pc = pc]]  BY <1>0, <1>3, GoesType
    <2>2. task'[d].pc = pc /\ task'[d].key = task[d].key  BY <1>0, <2>1 DEF Task
    <2> QED  BY <1>3, <2>2 DEF Recovering, Drawn
  <1>5. ASSUME UNCHANGED <<task, minted>> PROVE Goal(task'[d])
    BY <1>5 DEF Remembers, KeyKnown
  <1>6. CASE PutFirst(d) \/ Reread(d) \/ Claim(d)
    <2>1. \/ Ends(d) \/ Goes(d, "reread") \/ Goes(d, "claim unlock") \/ Goes(d, "change") \/ Goes(d, "devices")
      BY <1>6 DEF PutFirst, Reread, Claim
    <2> QED  BY <1>2, <1>3, <2>1
  <1>7. CASE Recover(d) \/ RevokeOthers(d)
    <2>1. task[d].pc \in Recovering /\ (Ends(d) \/ Goes(d, "revoke") \/ Goes(d, "enrol"))
      BY <1>7 DEF Recover, RevokeOthers, Recovering
    <2> QED  BY <1>2, <1>3, <2>1
  <1>8. CASE \/ Unlock(d) \/ StartRekey(d) \/ StartSetUp(d)
             \/ \E q \in Passes : StartChange(d, q) \/ StartReset(d, q)
    <2>1. task'[d].pc \in {"claim unlock", "claim rekey", "set up", "claim change", "reset"}
      BY <1>0, <1>8 DEF Unlock, StartRekey, StartSetUp, StartChange, StartReset, Begins, Idle
    <2> QED  BY <2>1 DEF Recovering, Drawn
  <1>9. ASSUME NEW p \in Passes, NEW isNew \in BOOLEAN, FirstUnlock(d, p, isNew)
        PROVE  Goal(task'[d])
    <2> DEFINE k == IF isNew THEN minted + 1 ELSE 0
    <2> DEFINE t == [Idle EXCEPT !.pc = "put", !.pass = p, !.epoch = epoch, !.key = k]
    <2>1. task' = [task EXCEPT ![d] = t]  BY <1>9 DEF FirstUnlock, Begins
    <2>2. minted \in Nat /\ minted' = IF isNew THEN minted + 1 ELSE minted
      BY <1>9, BoundsAssumption DEF FirstUnlock, Opens, TypeOK, Keys
    <2>3. k <= minted'  BY <2>2
    <2>4. t.pc = "put" /\ t.key = k  BY DEF Idle
    <2> QED  BY <1>1, <2>1, <2>3, <2>4
  <1>10. ASSUME NEW q \in Passes, OpenRecovery(d, q) PROVE Goal(task'[d])
    <2> DEFINE t == [Idle EXCEPT !.pc = "recover", !.next = q, !.key = recovery.key,
                       !.epoch = epoch, !.rec = recovery.pub]
    <2>1. task' = [task EXCEPT ![d] = t]  BY <1>10 DEF OpenRecovery, Begins
    <2>2. t.pc = "recover" /\ t.key = recovery.key  BY DEF Idle
    <2>3. recovery.key \in past
      BY <1>10 DEF OpenRecovery, Agrees, KeysAgree, RecoveryAgrees, Remembers
    <2> QED  BY <1>1, <2>1, <2>2, <2>3
  <1>11. CASE ReadDevices(d)
    <2>1. PICK S \in [Devices -> {0} \cup Pairs] :
            task' = [task EXCEPT ![d] = [task[d] EXCEPT !.pc = "recovery", !.key = minted + 1, !.seals = S]]
      BY <1>0, <1>11, RekeyTask
    <2>2. task'[d].pc = "recovery" /\ task'[d].key = minted + 1  BY <1>0, <2>1 DEF Task
    <2> QED  BY <1>11, <2>2
  <1>12. CASE ReadRecovery(d)
    <2>1. task'[d] = [task[d] EXCEPT !.pc = "check", !.rec = PublicKey]
      BY <1>0, <1>12, RekeyTask
    <2>2. task'[d].pc = "check" /\ task'[d].key = task[d].key  BY <1>0, <2>1 DEF Task
    <2> QED  BY <1>12, <2>2 DEF ReadRecovery, Drawn
  <1>13. CASE CheckRotation(d)
    <2>1. CASE Complete(task[d])
      <3>1. task'[d] = [task[d] EXCEPT !.pc = "rotate", !.asks = (recovery # NoRecovery)]
        BY <1>0, <1>13, <2>1, RekeyTask
      <3>2. task'[d].pc = "rotate" /\ task'[d].key = task[d].key  BY <1>0, <3>1 DEF Task
      <3> QED  BY <1>13, <3>2 DEF CheckRotation, Drawn
    <2>2. CASE ~Complete(task[d])  BY <1>2, <1>13, <2>2 DEF CheckRotation
    <2> QED  BY <2>1, <2>2
  <1>14. CASE \/ GiveUp(d) \/ Change(d) \/ Reset(d) \/ RotationLands(d) \/ RotationLost(d)
              \/ SetUp(d) \/ EnrolRecovered(d)
    BY <1>2, <1>14 DEF GiveUp, Change, Reset, RotationLands, RotationLost, SetUp, EnrolRecovered
  <1>15. CASE \/ Refresh(d) \/ RemoveRecovery(d) \/ Offer(d) \/ Register(d) \/ LoseKeypair(d)
              \/ Revoke(d) \/ \E k \in Keys : Accept(d, k)
    <2>1. UNCHANGED <<task, minted>>
      BY <1>15 DEF Refresh, RemoveRecovery, Offer, Accept, Register, LoseKeypair, Revoke, counts
    <2> QED  BY <1>5, <2>1
  <1> QED
    BY <1>6, <1>7, <1>8, <1>9, <1>10, <1>11, <1>12, <1>13, <1>14, <1>15 DEF Step, RekeyStep
\* Keys are drawn one at a time, and only a wrapped one becomes the account's.
LEMMA Counts ==
    ASSUME TypeOK, NEW d \in Devices, Step(d)
    PROVE  /\ minted \in Nat /\ minted' \in {minted, minted + 1}
           /\ ReadDevices(d) => minted' = minted + 1
           /\ past' = past \/ RotationLands(d) \/ (PutFirst(d) /\ wrapped = NoWrap)
  <1>1. minted \in Nat  BY BoundsAssumption DEF TypeOK, Keys
  <1>2. minted' \in {minted, minted + 1}
    BY DEF Step, RekeyStep, counts, GiveUp, Unlock, PutFirst, Reread, Claim, FirstUnlock,
       StartChange, StartReset, OpenRecovery, Change, Reset, StartRekey, ReadDevices, ReadRecovery,
       CheckRotation, RotationLands, RotationLost, Refresh, StartSetUp, SetUp, RemoveRecovery, Recover,
       RevokeOthers, EnrolRecovered, Offer, Accept, Register, LoseKeypair, Revoke
  <1>3. past' = past \/ RotationLands(d) \/ (PutFirst(d) /\ wrapped = NoWrap)
    BY DEF Step, RekeyStep, server, GiveUp, Unlock, PutFirst, Reread, Claim, FirstUnlock,
       StartChange, StartReset, OpenRecovery, Change, Reset, StartRekey, ReadDevices, ReadRecovery,
       CheckRotation, RotationLost, Refresh, StartSetUp, SetUp, RemoveRecovery, Recover,
       RevokeOthers, EnrolRecovered, Offer, Accept, Register, LoseKeypair, Revoke
  <1> QED  BY <1>1, <1>2, <1>3 DEF ReadDevices

\* What a wrapped key that becomes the account's is of it: the acting task's.
LEMMA Crowned ==
    ASSUME Whole, NEW d \in Devices, RotationLands(d) \/ (PutFirst(d) /\ wrapped = NoWrap)
    PROVE  /\ past' = past \cup {task[d].key} /\ wrapped'.key = task[d].key
           /\ task'[d] = Idle /\ minted' = minted /\ task[d].key <= minted
           /\ \E e \in Epochs :
                /\ ring[d][e] = NoKey
                /\ \/ ring' = [ring EXCEPT ![d] = [ring[d] EXCEPT ![e] = task[d].key]]
                   \/ ring' = ring
           /\ \A c \in Devices : c # d /\ task[c].pc \in Drawn => task[c].key # task[d].key
  <1>0. /\ task \in [Devices -> Task] /\ task[d] \in Task
        /\ ring \in [Devices -> [Epochs -> Keys \cup {NoKey}]]
        /\ KeyKnown(task[d]) /\ TaskOK(task[d]) /\ minted \in Nat
    BY BoundsAssumption DEF Whole, Opens, TypeOK, TasksOK, Remembers, Keys
  <1>1. CASE RotationLands(d)
    <2>1. task[d].pc \in Drawn /\ task[d].key \in 1..minted
      BY <1>0, <1>1 DEF RotationLands, Drawn, KeyKnown
    <2>2. task[d].key <= minted  BY <1>0, <2>1
    <2>3. To(task[d]) \in Epochs /\ ring[d][To(task[d])] = NoKey
      <3>1. task[d].epoch \in Epochs /\ task[d].epoch < MaxEpoch /\ task[d].epoch = epoch
        BY <1>0, <1>1 DEF RotationLands, Proves, TaskOK, Rekeys, Task
      <3>2. To(task[d]) \in Epochs /\ To(task[d]) > epoch
        BY <3>1, BoundsAssumption DEF To, Epochs
      <3> QED  BY <3>2 DEF Whole, Agrees, NothingAhead
    <2>4. \/ ring' = [ring EXCEPT ![d] = [ring[d] EXCEPT ![To(task[d])] = task[d].key]]
          \/ ring' = ring
      BY <1>0, <1>1 DEF RotationLands, Learn
    <2>5. \A c \in Devices : c # d /\ task[c].pc \in Drawn => task[c].key # task[d].key
      BY <2>1 DEF Whole, Remembers
    <2>6. /\ past' = past \cup {task[d].key} /\ wrapped'.key = task[d].key
          /\ task'[d] = Idle /\ minted' = minted
      BY <1>0, <1>1 DEF RotationLands, Ends, counts
    <2>7. \E e \in Epochs :
            /\ ring[d][e] = NoKey
            /\ \/ ring' = [ring EXCEPT ![d] = [ring[d] EXCEPT ![e] = task[d].key]]
               \/ ring' = ring
      BY <2>3, <2>4
    <2> QED  BY <2>2, <2>5, <2>6, <2>7
  <1>2. CASE PutFirst(d) /\ wrapped = NoWrap
    <2>0. task[d].epoch \in Epochs /\ task[d].key <= minted
      BY <1>0, <1>2 DEF PutFirst, KeyKnown, Task
    <2>1. ring[d][task[d].epoch] = NoKey
      BY <1>2, <2>0 DEF Whole, Agrees, Blank
    <2>2. ring' = [ring EXCEPT ![d] = [ring[d] EXCEPT ![task[d].epoch] = task[d].key]]
      BY <1>0, <1>2 DEF PutFirst, Learn
    <2>3. \A c \in Devices : task[c].pc \notin Drawn
      BY <1>2 DEF Whole, Agrees, Blank, Drawn
    <2>4. /\ past' = past \cup {task[d].key} /\ wrapped'.key = task[d].key
          /\ task'[d] = Idle /\ minted' = minted
      BY <1>0, <1>2 DEF PutFirst, Ends, counts
    <2> QED  BY <2>0, <2>1, <2>2, <2>3, <2>4
  <1> QED  BY <1>1, <1>2

LEMMA RemembersStep ==
    ASSUME OffersStayCurrent
    PROVE  Whole /\ [Next]_vars => Remembers'
  <1> SUFFICES ASSUME Whole, [Next]_vars PROVE Remembers'  OBVIOUS
  <1>0. /\ TypeOK /\ Opens /\ Agrees /\ Remembers /\ Stand
        /\ task \in [Devices -> Task] /\ \A c \in Devices : task[c] \in Task /\ KeyKnown(task[c])
        /\ ring \in [Devices -> [Epochs -> Keys \cup {NoKey}]]
        /\ past \subseteq Keys /\ \A k \in Keys : k \in Nat
    BY BoundsAssumption DEF Whole, Opens, TypeOK, Remembers, Keys
  <1>1. CASE UNCHANGED vars
    BY <1>0, <1>1 DEF vars, server, clients, counts, Remembers, KeyKnown, Holds
  <1>2. ASSUME NEW d \in Devices, Step(d) PROVE Remembers'
    <2>1. /\ minted \in Nat /\ minted' \in Nat /\ minted <= minted' /\ minted' < minted + 2
          /\ ReadDevices(d) => minted' = minted + 1
      BY <1>0, <1>2, Counts
    <2>2. \A c \in Devices : c # d => task'[c] = task[c] /\ ring'[c] = ring[c]
      BY <1>0, <1>2, OthersStand
    <2>3. past' = past \/ (RotationLands(d) \/ (PutFirst(d) /\ wrapped = NoWrap))
      BY <1>0, <1>2, Counts
    <2>4. CASE RotationLands(d) \/ (PutFirst(d) /\ wrapped = NoWrap)
      <3>1. /\ past' = past \cup {task[d].key} /\ wrapped'.key = task[d].key
            /\ task'[d] = Idle /\ minted' = minted /\ task[d].key <= minted
            /\ \A c \in Devices : c # d /\ task[c].pc \in Drawn => task[c].key # task[d].key
        BY <2>4, Crowned
      <3>2. PICK e \in Epochs : \/ ring' = [ring EXCEPT ![d] = [ring[d] EXCEPT ![e] = task[d].key]]
                                \/ ring' = ring
        BY <2>4, Crowned
      <3>3. \A k \in past' : k <= minted'  BY <1>0, <3>1 DEF Remembers
      <3>4. \A c \in Devices, f \in Epochs : ring'[c][f] \in {ring[c][f], task[d].key}
        BY <1>0, <3>2
      <3>5. \A c \in Devices, f \in Epochs : Holds(c, f)' => ring'[c][f] \in past'
        BY <1>0, <3>1, <3>4 DEF Remembers, Holds
      <3>6. Idle.pc \notin Recovering \cup Drawn \cup {"put"}  BY DEF Idle, Recovering, Drawn
      <3>7. \A c \in Devices : KeyKnown(task[c])'
        BY <1>0, <2>2, <3>1, <3>6 DEF KeyKnown
      <3>8. \A b, c \in Devices : b # c /\ task'[b].pc \in Drawn /\ task'[c].pc \in Drawn
                => task'[b].key # task'[c].key
        BY <1>0, <2>2, <3>1, <3>6 DEF Remembers
      <3> QED  BY <3>1, <3>3, <3>5, <3>7, <3>8 DEF Remembers
    <2>5. CASE ~(RotationLands(d) \/ (PutFirst(d) /\ wrapped = NoWrap))
      <3>0. Steady(d) /\ past' = past  BY <1>2, <2>3, <2>5 DEF Steady
      <3>1. \A k \in past' : k <= minted'
        BY <1>0, <2>1, <3>0 DEF Remembers
      <3>2. wrapped' # NoWrap => wrapped'.key \in past'
        BY <1>0, <3>0, SteadyKey DEF Remembers
      <3>3. \A c \in Devices, f \in Epochs : Holds(c, f)' => ring'[c][f] \in past'
        <4>1. CASE ring' = ring  BY <1>0, <3>0, <4>1 DEF Remembers, Holds
        <4>2. CASE ring' # ring
          <5>1. PICK e \in Epochs, k \in past : ring' = [ring EXCEPT ![d] = [ring[d] EXCEPT ![e] = k]]
            BY <3>0, <4>2, SteadyLearn
          <5>2. \A c \in Devices, f \in Epochs : ring'[c][f] \in {ring[c][f], k}
            BY <1>0, <5>1
          <5> QED  BY <1>0, <3>0, <5>2 DEF Remembers, Holds
        <4> QED  BY <4>1, <4>2
      <3>4. \/ task'[d].pc \notin Recovering \cup Drawn \cup {"put"}
            \/ /\ task'[d].key = task[d].key
               /\ \/ task[d].pc \in Recovering /\ task'[d].pc \in Recovering
                  \/ task[d].pc \in Drawn /\ task'[d].pc \in Drawn
            \/ task'[d].pc = "recover" /\ task'[d].key \in past
            \/ minted' = minted + 1 /\ task'[d].pc = "recovery" /\ task'[d].key = minted + 1
            \/ task'[d].pc = "put" /\ task'[d].key <= minted'
        BY <1>0, <1>2, <2>1, ActorKey
      <3>5. minted + 1 \notin past /\ \A k \in 1..minted : k # minted + 1 /\ k \in 1..minted'
        BY <1>0, <2>1 DEF Remembers
      <3>6. \A c \in Devices : KeyKnown(task[c])'
        <4> SUFFICES ASSUME NEW c \in Devices PROVE KeyKnown(task[c])'  OBVIOUS
        <4>1. CASE c # d
          <5>1. task'[c] = task[c] /\ KeyKnown(task[c]) /\ task[c].key \in Nat
            BY <1>0, <2>2, <4>1 DEF Task
          <5>2. task[c].key <= minted => task[c].key <= minted'  BY <2>1, <5>1
          <5> QED  BY <3>0, <3>5, <5>1, <5>2 DEF KeyKnown
        <4>2. CASE c = d
          <5>1. KeyKnown(task[d])  BY <1>0
          <5>2. minted' = minted + 1 => minted + 1 \in 1..minted'  BY <2>1
          <5> QED  BY <3>0, <3>4, <3>5, <4>2, <5>1, <5>2 DEF KeyKnown, Recovering, Drawn
        <4> QED  BY <4>1, <4>2
      <3>7. \A b, c \in Devices : b # c /\ task'[b].pc \in Drawn /\ task'[c].pc \in Drawn
                => task'[b].key # task'[c].key
        <4>1. \A c \in Devices : c # d /\ task'[c].pc \in Drawn /\ task'[d].pc \in Drawn
                => task'[c].key # task'[d].key
          <5> SUFFICES ASSUME NEW c \in Devices, c # d, task'[c].pc \in Drawn, task'[d].pc \in Drawn
                       PROVE  task'[c].key # task'[d].key
            OBVIOUS
          <5>1. task'[c] = task[c] /\ task[c].key \in 1..minted
            BY <1>0, <2>2 DEF KeyKnown
          <5>2. \/ task'[d].key = task[d].key /\ task[d].pc \in Drawn
                \/ task'[d].key = minted + 1
            BY <3>4 DEF Recovering, Drawn
          <5> QED  BY <1>0, <3>5, <5>1, <5>2 DEF Remembers
        <4> QED  BY <1>0, <2>2, <4>1 DEF Remembers
      <3> QED  BY <3>1, <3>2, <3>3, <3>6, <3>7 DEF Remembers
    <2> QED  BY <2>4, <2>5
  <1> QED  BY <1>1, <1>2 DEF Next
LEMMA WholeInit == Init => Whole
  <1> SUFFICES ASSUME Init PROVE Whole  OBVIOUS
  <1>1. Opens /\ Agrees  BY OpensInit, AgreesInit
  <1>2. \A c \in Devices : task[c].pc = "idle"  BY IdleType DEF Init
  <1>3. \A e \in Epochs : /\ Empty[e] = NoKey
                          /\ [Empty EXCEPT ![0] = 0][e] = IF e = 0 THEN 0 ELSE NoKey
    BY DEF Empty
  <1>4. Stand
    BY <1>2, <1>3 DEF Init, Stand, Standing, Recovering
  <1>5. Remembers
    <2>1. past \subseteq {0} /\ 0 <= 0 /\ minted = 0 /\ (wrapped # NoWrap => wrapped.key \in past)
      BY DEF Init
    <2>2. \A d \in Devices, e \in Epochs : Holds(d, e) => ring[d][e] \in past
      BY <1>3 DEF Init, Holds
    <2> QED  BY <1>2, <2>1, <2>2 DEF Remembers, KeyKnown, Recovering, Drawn
  <1> QED  BY <1>1, <1>4, <1>5 DEF Whole

LEMMA WholeStep ==
    ASSUME LostRacesCollide, OffersStayCurrent
    PROVE  Whole /\ [Next]_vars => Whole'
  BY OpensStep, AgreesStep, StandStep, RemembersStep DEF Whole

\* A device that learns a key holds one more and loses none.
LEMMA HeldGains ==
    ASSUME ring \in [Devices -> [Epochs -> Keys \cup {NoKey}]],
           NEW d \in Devices, NEW e \in Epochs, NEW k \in Keys,
           ring' = [ring EXCEPT ![d] = [ring[d] EXCEPT ![e] = k]], ring[d][e] \in {NoKey, k}
    PROVE  V!Gains(d, {k})
  <1>1. k # NoKey  BY NullAssumption
  <1>2. HeldBy(d)' = HeldBy(d) \cup {k}
    <2>1. \A f \in Epochs : ring'[d][f] = IF f = e THEN k ELSE ring[d][f]  OBVIOUS
    <2>2. HeldBy(d)' \subseteq HeldBy(d) \cup {k}  BY <2>1 DEF HeldBy
    <2>3. HeldBy(d) \subseteq HeldBy(d)'
      <3> SUFFICES ASSUME NEW f \in Epochs, ring[d][f] # NoKey PROVE ring[d][f] \in HeldBy(d)'
        BY DEF HeldBy
      <3>1. ring'[d][f] = ring[d][f]  BY <2>1
      <3> QED  BY <3>1 DEF HeldBy
    <2>4. k \in HeldBy(d)'  BY <1>1, <2>1 DEF HeldBy
    <2> QED  BY <2>2, <2>3, <2>4
  <1>3. \A c \in Devices : c # d => HeldBy(c)' = HeldBy(c)
    BY DEF HeldBy
  <1> QED  BY <1>2, <1>3 DEF V!Gains

LEMMA VaultInit == Whole /\ Init => V!Init
  <1> SUFFICES ASSUME Whole, Init PROVE V!Init  OBVIOUS
  <1>1. wrapped # NoWrap => wrapped.key \in past  BY DEF Whole, Remembers
  <1>2. \A d \in Devices : HeldBy(d) \subseteq past  BY DEF Whole, Remembers, HeldBy, Holds
  <1>3. {d \in Devices : status[d] = "revoked"} = {}  BY DEF Init
  <1> QED  BY <1>1, <1>2, <1>3 DEF V!Init

\* Every step is one the vault allows.
LEMMA VaultStep ==
    ASSUME LostRacesCollide, OffersStayCurrent
    PROVE  Whole /\ [Next]_vars => [V!Next]_(V!abstract)
  <1> SUFFICES ASSUME Whole, [Next]_vars PROVE [V!Next]_(V!abstract)  OBVIOUS
  <1> DEFINE Shut == {c \in Devices : status[c] = "revoked"}
  <1> DEFINE Held == [c \in Devices |-> HeldBy(c)]
  <1>0. /\ Opens /\ Agrees /\ Remembers /\ TypeOK
        /\ ring \in [Devices -> [Epochs -> Keys \cup {NoKey}]] /\ past \subseteq Keys
        /\ status \in [Devices -> {"out", "active", "revoked"}]
        /\ \A c \in Devices : task[c] \in Task /\ TaskOK(task[c]) /\ KeyKnown(task[c])
    BY DEF Whole, Opens, TypeOK, TasksOK, Remembers
  <1>1. CASE UNCHANGED vars
    BY <1>1 DEF vars, server, clients, counts, V!abstract, HeldBy
  <1>2. ASSUME NEW d \in Devices, Step(d) PROVE [V!Next]_(V!abstract)
    <2>1. ring' = ring => Held' = Held  BY DEF HeldBy
    <2>2. CASE PutFirst(d) /\ wrapped = NoWrap
      <3>1. /\ past' = past \cup {task[d].key} /\ wrapped'.key = task[d].key /\ task[d].key \in Keys
            /\ status' = status /\ wrapped' # NoWrap
        <4>1. task[d].key \in Keys /\ task[d].pass \in Passes
          BY <1>0, <2>2 DEF PutFirst, TaskOK, Typed, Task
        <4>2. /\ past' = past \cup {task[d].key} /\ status' = status
              /\ wrapped' = [pass |-> task[d].pass, key |-> task[d].key]
          BY <2>2 DEF PutFirst
        <4>3. wrapped' \in Wrap  BY <4>1, <4>2 DEF Wrap
        <4> QED  BY <4>1, <4>2, <4>3, NullAssumption
      <3>2. V!Gains(d, {task[d].key})
        <4>0. task[d].epoch \in Epochs  BY <1>0 DEF Task
        <4>1. ring[d][task[d].epoch] = NoKey  BY <1>0, <2>2, <4>0 DEF Agrees, Blank
        <4>2. ring' = [ring EXCEPT ![d] = [ring[d] EXCEPT ![task[d].epoch] = task[d].key]]
          BY <1>0, <2>2 DEF PutFirst, Learn
        <4> QED  BY <1>0, <3>1, <4>0, <4>1, <4>2, HeldGains
      <3>3. V!Create(d, task[d].key)  BY <2>2, <3>1, <3>2 DEF V!Create
      <3> QED  BY <3>1, <3>3 DEF V!Next
    <2>3. CASE RotationLands(d)
      <3> DEFINE k == task[d].key
      <3>1. /\ past' = past \cup {k} /\ k \in Keys /\ k \notin past /\ status' = status
        BY <1>0, <2>3 DEF RotationLands, KeyKnown, Drawn, Task
      <3>2. wrapped \in Wrap /\ wrapped.pass = task[d].pass
        BY <1>0, <2>3, NullAssumption
        DEF RotationLands, Proves, Opens, TypeOK, ProofOpensVault, TaskOK, Typed
      <3>3. wrapped' = [wrapped EXCEPT !.key = k]
        BY <2>3, <3>2 DEF RotationLands, Wrap
      <3>4. wrapped # NoWrap  BY <3>2, NullAssumption
      <3>5. \A c \in Devices : k \notin HeldBy(c)
        BY <1>0, <3>1 DEF Remembers, HeldBy, Holds
      <3>6. V!Gains(d, {k}) \/ Held' = Held
        <4>1. PICK e \in Epochs : /\ ring[d][e] = NoKey
                                  /\ \/ ring' = [ring EXCEPT ![d] = [ring[d] EXCEPT ![e] = k]]
                                     \/ ring' = ring
          BY <2>3, Crowned
        <4> QED  BY <1>0, <2>1, <3>1, <4>1, HeldGains
      <3>7. V!Rekey(d, k)  BY <3>1, <3>3, <3>4, <3>5, <3>6 DEF V!Rekey
      <3> QED  BY <3>1, <3>7 DEF V!Next
    <2>4. CASE Steady(d) /\ ring' # ring
      <3>1. PICK e \in Epochs, k \in past :
                /\ ring' = [ring EXCEPT ![d] = [ring[d] EXCEPT ![e] = k]]
                /\ ring[d][e] \in {NoKey, k}
                /\ status[d] # "revoked" /\ status' = [status EXCEPT ![d] = "active"]
        BY <2>4, SteadyLearn
      <3>2. V!Gains(d, {k})  BY <1>0, <3>1, HeldGains
      <3>3. Shut' = Shut  BY <1>0, <3>1
      <3>4. UNCHANGED <<wrapped, past>>
        BY <2>4 DEF Steady, Step, RekeyStep, clients, server, GiveUp, Unlock, PutFirst, Reread, Claim,
           FirstUnlock, StartChange, StartReset, OpenRecovery, Change, Reset, StartRekey, ReadDevices,
           ReadRecovery, CheckRotation, RotationLost, Refresh, StartSetUp, SetUp, RemoveRecovery,
           Recover, RevokeOthers, EnrolRecovered, Offer, Accept, Register, LoseKeypair, Revoke
      <3>5. V!Learn(d, k)  BY <3>1, <3>2, <3>3, <3>4 DEF V!Learn
      <3> QED  BY <1>0, <3>5 DEF V!Next
    <2>5. CASE Steady(d) /\ ring' = ring
      <3>1. past' = past  BY <1>0, <1>2, <2>5, Counts DEF Steady
      <3>2. Held' = Held  BY <2>1, <2>5
      <3>3. ASSUME Change(d) \/ Reset(d) \/ Recover(d) PROVE [V!Next]_(V!abstract)
        <4>1. status' = status  BY <3>3 DEF Change, Reset, Recover, clients
        <4>2. wrapped # NoWrap
          BY <1>0, <3>3 DEF Change, Reset, Recover, Agrees, Blank
        <4>3. wrapped' # NoWrap /\ wrapped'.key = wrapped.key
          BY <1>0, <2>5, <4>2, SteadyKey
        <4>4. V!NewPassphrase  BY <3>1, <3>2, <4>1, <4>2, <4>3 DEF V!NewPassphrase
        <4> QED  BY <4>4 DEF V!Next
      <3>4. ASSUME ~(Change(d) \/ Reset(d) \/ Recover(d)) PROVE [V!Next]_(V!abstract)
        <4>1. wrapped' = wrapped
          BY <2>5, <3>4 DEF Steady, Step, RekeyStep, server, GiveUp, Unlock, PutFirst, Reread, Claim,
             FirstUnlock, StartChange, StartReset, OpenRecovery, StartRekey, ReadDevices,
             ReadRecovery, CheckRotation, RotationLost, Refresh, StartSetUp, SetUp, RemoveRecovery,
             RevokeOthers, EnrolRecovered, Offer, Accept, Register, LoseKeypair, Revoke
        <4>2. Shut \subseteq Shut'
          <5>1. \A c \in Devices : c # d /\ status[c] = "revoked" => status'[c] = "revoked"
            BY <1>0, <1>2, OthersStand
          <5>2. Standing(d)  BY DEF Whole, Stand
          <5>3. status[d] = "revoked" => status'[d] = "revoked"
            BY <1>0, <2>5, <5>2
            DEF Standing, Recovering, Steady, Step, RekeyStep, clients, GiveUp, Unlock, PutFirst, Reread,
                Claim, FirstUnlock, StartChange, StartReset, OpenRecovery, Change, Reset, StartRekey,
                ReadDevices, ReadRecovery, CheckRotation, RotationLost, Refresh, StartSetUp, SetUp,
                RemoveRecovery, Recover, RevokeOthers, EnrolRecovered, Offer, Accept, Register,
                LoseKeypair, Revoke
          <5> QED  BY <5>1, <5>3
        <4>3. V!ShutOut  BY <3>1, <3>2, <4>1, <4>2 DEF V!ShutOut
        <4> QED  BY <4>3 DEF V!Next
      <3> QED  BY <3>3, <3>4
    <2> QED  BY <1>2, <2>2, <2>3, <2>4, <2>5 DEF Steady
  <1> QED  BY <1>1, <1>2 DEF Next

\* The rows of an account and the rings of its devices are a vault: a change
\* or a reset of the passphrase, a recovery and a revocation leave the key, a
\* re-key puts one that nobody held in its place, a device gets only keys the
\* account has had, none once it is revoked, and loses none.
THEOREM VaultImplemented ==
    ASSUME LostRacesCollide, OffersStayCurrent
    PROVE  Spec => ImplementsVault
  <1>1. Init => Whole  BY WholeInit
  <1>2. Whole /\ [Next]_vars => Whole'  BY WholeStep
  <1>3. Init => V!Init  BY WholeInit, VaultInit
  <1>4. Whole /\ [Next]_vars => [V!Next]_(V!abstract)  BY VaultStep
  <1> QED  BY <1>1, <1>2, <1>3, <1>4, PTL DEF Spec, ImplementsVault, V!Spec
=============================================================================
