--------------------------- MODULE DeploymentProofs ----------------------------
(******************************************************************************)
(* Theorems about Deployment, for every number of commands, children,         *)
(* services and faults.                                                       *)
(*                                                                            *)
(* The argument: as long as every live process can be identified, the state   *)
(* file names the one supervisor that is past its claim (RecordOfOwner), and  *)
(* a start that holds the lock has found, and keeps, a file that names nobody *)
(* or its own reservation (Reserved). A supervisor that does not hold the     *)
(* lock therefore writes over nobody's record but its own.                    *)
(******************************************************************************)
EXTENDS Deployment, TLAPS

--------------------------------------------------------------------------------
(* Configuration *)

\* Compose services of an environment are services (build_plan).
LEMMA ServicesOfEnv == \A env : Services(env) \subseteq Service
  BY DEF Services, Service

--------------------------------------------------------------------------------
(* The inductive invariant *)

\* The lock is held while the host is prepared and the run reserved.
LockHeld == \A l \in Start : launcher[l].pc \in Launching <=> lock = l

\* A supervisor exists once its launcher has spawned it.
BeforeSpawn ==
    \A l \in Start : launcher[l].pc \in {"new"} \union Launching => supervisor[l].pc = "none"

\* Only a process that existed is killed, and it does not come back.
KilledIsGone == \A r \in Start : supervisor[r].killed => supervisor[r].pc = "gone"

\* Children belong to a supervisor that will reap them, unless it was killed.
ChildrenOwned ==
    \A r \in Start : child[r] # {} =>
        supervisor[r].killed \/ supervisor[r].pc \in Active \union {"reap"}

\* The file names the supervisor that is past its claim.
RecordOfOwner ==
    ~blind => \A r \in Start : Owner(r) =>
                  file.run = r /\ file.phase \in {"supervising", "running"}

\* A start under the lock sees no record, then its own reservation.
Reserved ==
    ~blind => \A l \in Start :
                  /\ launcher[l].pc \in {"prepare", "rollback", "reserve"} => file = NoFile
                  /\ launcher[l].pc = "spawn" => file = [run |-> l, phase |-> "starting"]

\* The file names no run that was not reserved.
NamedWhenReserved ==
    \A l \in Start :
        launcher[l].pc \in {"new", "check", "prepare", "rollback", "reserve"} => file.run # l

\* A launcher removes the state of a supervisor that is gone.
RemovesGone ==
    \A l \in Start : launcher[l].pc = "remove" => supervisor[l].pc = "gone"

\* What failed is done with, and over.
FailedIsDone ==
    \A l \in Start : launcher[l].told = "failed" =>
        launcher[l].pc = "done" /\ ~SupervisorAlive(l) /\ file.run # l

\* A stop command waits for a supervisor that did exist.
StopsKnow ==
    \A s \in Stop :
        /\ stopper[s].told = "stopped" => stopper[s].pc = "done"
        /\ stopper[s].pc = "wait" \/ stopper[s].told = "stopped" =>
               /\ stopper[s].run \in Start
               /\ supervisor[stopper[s].run].pc # "none"
        /\ stopper[s].told = "stopped" => supervisor[stopper[s].run].pc = "gone"

\* What ran before any start still runs, and a start that may roll back found
\* all of it running.
BeforeStays ==
    \A k \in Start :
        /\ launcher[k].before \subseteq service
        /\ \A l \in Start : launcher[l].pc \in {"prepare", "rollback"} =>
               launcher[k].before \subseteq launcher[l].before

Lifecycle ==
    /\ LockHeld /\ BeforeSpawn /\ KilledIsGone /\ ChildrenOwned
    /\ RecordOfOwner /\ Reserved /\ NamedWhenReserved
    /\ RemovesGone /\ FailedIsDone /\ StopsKnow /\ BeforeStays

IInv == TypeOK /\ Lifecycle

--------------------------------------------------------------------------------
(* Initial states and types *)

\* The initial states satisfy the invariant.
LEMMA InitInv == Init => IInv
<1> SUFFICES ASSUME Init PROVE IInv
  OBVIOUS
<1>1. /\ NoFile \in File
      /\ [pc |-> "new", before |-> {}, told |-> "nothing"] \in LauncherState
      /\ [pc |-> "none", stopping |-> FALSE, killed |-> FALSE] \in SupervisorState
      /\ [pc |-> "new", run |-> "none", told |-> "nothing"] \in StopperState
  BY DEF File, LauncherState, SupervisorState, StopperState
<1>2. TypeOK
  <2>1. lock \in Start \union {"none"} /\ file \in File /\ service \in SUBSET Service
    BY <1>1 DEF Init
  <2>2. /\ launcher \in [Start -> LauncherState] /\ supervisor \in [Start -> SupervisorState]
        /\ child \in [Start -> SUBSET Component] /\ stopper \in [Stop -> StopperState]
    BY <1>1 DEF Init
  <2>3. faults \in 0..MaxFaults
    BY HostAssumption DEF Init
  <2>4. blind \in BOOLEAN
    BY DEF Init
  <2>5. QED
    BY <2>1, <2>2, <2>3, <2>4 DEF TypeOK
<1>3. LockHeld /\ BeforeSpawn /\ KilledIsGone /\ ChildrenOwned
  BY HostAssumption DEF Init, LockHeld, BeforeSpawn, KilledIsGone, ChildrenOwned, Launching
<1>4. RecordOfOwner /\ Reserved /\ NamedWhenReserved
  BY HostAssumption DEF Init, RecordOfOwner, Reserved, NamedWhenReserved, Owner, Active, NoFile
<1>5. RemovesGone /\ FailedIsDone /\ StopsKnow /\ BeforeStays
  BY DEF Init, RemovesGone, FailedIsDone, StopsKnow, BeforeStays
<1>6. QED
  BY <1>2, <1>3, <1>4, <1>5 DEF IInv, Lifecycle

\* A signal ends a supervisor without handlers, and is remembered by another.
LEMMA SignalledEffect ==
  ASSUME TypeOK, NEW r \in Start
  PROVE  /\ Signalled(r) \in [Start -> SupervisorState]
         /\ \A q \in Start :
               /\ Signalled(r)[q].killed = supervisor[q].killed
               /\ \/ Signalled(r)[q].pc = supervisor[q].pc
                  \/ /\ q = r /\ supervisor[q].pc \in Starting
                     /\ Signalled(r)[q].pc = "gone"
<1>1. supervisor \in [Start -> SupervisorState]
  BY DEF TypeOK
<1>2. CASE supervisor[r].pc \in Starting
  <2>1. Signalled(r) = [supervisor EXCEPT ![r].pc = "gone"]
    BY <1>2 DEF Signalled, Starting
  <2>2. QED
    BY <1>1, <1>2, <2>1 DEF SupervisorState
<1>3. CASE supervisor[r].pc \in {"none", "gone"}
  <2>1. Signalled(r) = supervisor
    BY <1>3 DEF Signalled, Starting
  <2>2. QED
    BY <1>1, <2>1
<1>4. CASE supervisor[r].pc \notin Starting \union {"none", "gone"}
  <2>1. Signalled(r) = [supervisor EXCEPT ![r].stopping = TRUE]
    BY <1>4 DEF Signalled
  <2>2. supervisor[r] \in SupervisorState
    BY <1>1
  <2>3. /\ [supervisor[r] EXCEPT !.stopping = TRUE] \in SupervisorState
        /\ [supervisor[r] EXCEPT !.stopping = TRUE].killed = supervisor[r].killed
        /\ [supervisor[r] EXCEPT !.stopping = TRUE].pc = supervisor[r].pc
    BY <2>2 DEF SupervisorState
  <2>4. QED
    BY <1>1, <2>1, <2>3
<1>5. QED
  BY <1>2, <1>3, <1>4

\* Every step keeps the types.
LEMMA TypesKept ==
  ASSUME TypeOK, [Next]_vars
  PROVE  TypeOK'
<1> DEFINE LPC == {"new", "lock", "done", "dead"} \union Launching \union Watching
<1> DEFINE SPC == {"none", "gone"} \union Starting \union Active \union Cleaning
<1> DEFINE Told == {"nothing", "started", "already", "failed"}
<1>1. \A l \in Start, p \in LPC, t \in Told :
         /\ [launcher EXCEPT ![l].pc = p] \in [Start -> LauncherState]
         /\ [launcher EXCEPT ![l].pc = p, ![l].told = t] \in [Start -> LauncherState]
         /\ [launcher EXCEPT ![l].pc = p, ![l].before = service] \in [Start -> LauncherState]
  <2> SUFFICES ASSUME NEW l \in Start, NEW p \in LPC, NEW t \in Told
               PROVE  /\ [launcher EXCEPT ![l].pc = p] \in [Start -> LauncherState]
                      /\ [launcher EXCEPT ![l].pc = p, ![l].told = t]
                            \in [Start -> LauncherState]
                      /\ [launcher EXCEPT ![l].pc = p, ![l].before = service]
                            \in [Start -> LauncherState]
    OBVIOUS
  <2>1. launcher \in [Start -> LauncherState] /\ service \in SUBSET Service
    BY DEF TypeOK
  <2>2. /\ [launcher[l] EXCEPT !.pc = p] \in LauncherState
        /\ [launcher[l] EXCEPT !.pc = p, !.told = t] \in LauncherState
        /\ [launcher[l] EXCEPT !.pc = p, !.before = service] \in LauncherState
    BY <2>1 DEF LauncherState
  <2> HIDE DEF LPC, Told
  <2>3. QED
    BY <2>1, <2>2
<1>2. \A r \in Start, p \in SPC :
         /\ [supervisor EXCEPT ![r].pc = p] \in [Start -> SupervisorState]
         /\ [supervisor EXCEPT ![r].pc = p, ![r].killed = TRUE] \in [Start -> SupervisorState]
         /\ Signalled(r) \in [Start -> SupervisorState]
  <2> SUFFICES ASSUME NEW r \in Start, NEW p \in SPC
               PROVE  /\ [supervisor EXCEPT ![r].pc = p] \in [Start -> SupervisorState]
                      /\ [supervisor EXCEPT ![r].pc = p, ![r].killed = TRUE]
                            \in [Start -> SupervisorState]
    BY SignalledEffect
  <2>1. supervisor \in [Start -> SupervisorState]
    BY DEF TypeOK
  <2>2. /\ [supervisor[r] EXCEPT !.pc = p] \in SupervisorState
        /\ [supervisor[r] EXCEPT !.pc = p, !.killed = TRUE] \in SupervisorState
    BY <2>1 DEF SupervisorState
  <2> HIDE DEF SPC
  <2>3. QED
    BY <2>1, <2>2
<1>3. \A s \in Stop, t \in {"nothing", "stopped", "not_running", "failed"} :
         [stopper EXCEPT ![s].pc = "done", ![s].told = t] \in [Stop -> StopperState]
  BY ZenonT(30) DEF TypeOK, StopperState
<1>4. \A s \in Stop, r \in Start :
         [stopper EXCEPT ![s].pc = "wait", ![s].run = r] \in [Stop -> StopperState]
  BY ZenonT(30) DEF TypeOK, StopperState
<1>5. /\ NoFile \in File
      /\ \A r \in Start, p \in {"starting", "supervising", "running"} :
            [run |-> r, phase |-> p] \in File
  BY DEF File
<1>6. file # NoFile => file.run \in Start
  BY DEF TypeOK, File
<1>7. /\ {"check", "prepare", "rollback", "reserve", "spawn", "wait", "terminating",
          "remove", "foreground", "done", "dead"} \subseteq LPC
      /\ {"gone", "spawned", "claimed", "launching", "ready", "running",
          "reap", "unlink", "closing"} \subseteq SPC
  BY DEF Launching, Watching, Starting, Active, Cleaning
<1>8. ASSUME Fault PROVE faults' \in 0..MaxFaults
  BY <1>8, HostAssumption DEF Fault, TypeOK
<1> HIDE DEF LPC, SPC
<1>9. ASSUME NEW l \in Start, LauncherStep(l) PROVE TypeOK'
  <2>1. CASE Lock(l)
    BY <1>1, <1>7, <2>1 DEF TypeOK, Lock
  <2>2. CASE CheckActive(l)
    <3>1. faults' \in 0..MaxFaults /\ blind' \in BOOLEAN
      BY <2>2, <1>8 DEF TypeOK, CheckActive, Probe
    <3>2. launcher' \in [Start -> LauncherState]
      <4>1. CASE launcher' = [launcher EXCEPT ![l].pc = "done", ![l].told = "already"]
        BY <4>1, <1>1, <1>7
      <4>2. CASE launcher' = [launcher EXCEPT ![l].pc = "prepare", ![l].before = service]
        BY <4>2, <1>1, <1>7
      <4>3. QED
        BY <2>2, <4>1, <4>2 DEF CheckActive, Finish
    <3>3. file' \in File /\ lock' \in Start \union {"none"}
      BY <2>2, <1>5 DEF TypeOK, CheckActive
    <3>4. QED
      BY <2>2, <3>1, <3>2, <3>3 DEF TypeOK, CheckActive
  <2>3. CASE PreflightFails(l)
    BY <1>1, <1>7, <2>3 DEF TypeOK, PreflightFails, Finish
  <2>4. CASE Prepare(l)
    <3>1. launcher' \in [Start -> LauncherState]
      <4>1. PICK p \in LPC : launcher' = [launcher EXCEPT ![l].pc = p]
        BY <1>7, <2>4 DEF Prepare
      <4>2. QED
        BY <1>1, <4>1
    <3>2. service' \in SUBSET Service
      BY <2>4, ServicesOfEnv DEF TypeOK, Prepare
    <3>3. QED
      BY <2>4, <3>1, <3>2 DEF TypeOK, Prepare
  <2>5. CASE RollBack(l)
    BY <1>1, <1>7, <2>5 DEF TypeOK, RollBack, Finish
  <2>6. CASE WriteReservation(l)
    BY <1>1, <1>5, <1>7, <2>6 DEF TypeOK, WriteReservation
  <2>7. CASE SpawnSupervisor(l)
    BY <1>1, <1>2, <1>7, <2>7 DEF TypeOK, SpawnSupervisor
  <2>8. CASE SpawnFails(l)
    BY <1>1, <1>5, <1>7, <2>8 DEF TypeOK, SpawnFails, Finish
  <2>9. CASE SeeRunning(l)
    <3>1. launcher' \in [Start -> LauncherState]
      <4>1. PICK p \in LPC : launcher' = [launcher EXCEPT ![l].pc = p, ![l].told = "started"]
        BY <1>7, <2>9 DEF SeeRunning, Finish
      <4>2. QED
        BY <1>1, <4>1
    <3>2. QED
      BY <2>9, <3>1 DEF TypeOK, SeeRunning
  <2>10. CASE SeeExit(l)
    <3>1. launcher' \in [Start -> LauncherState]
      <4>1. CASE launcher' = [launcher EXCEPT ![l].pc = "remove"]
        BY <4>1, <1>1, <1>7
      <4>2. CASE launcher' = [launcher EXCEPT ![l].pc = "done", ![l].told = "started"]
        BY <4>2, <1>1, <1>7
      <4>3. QED
        BY <2>10, <4>1, <4>2 DEF SeeExit, Finish
    <3>2. QED
      BY <2>10, <3>1 DEF TypeOK, SeeExit
  <2>11. CASE StartTimesOut(l)
    BY <1>1, <1>2, <1>7, <2>11 DEF TypeOK, StartTimesOut
  <2>12. CASE KillSupervisor(l)
    BY <1>1, <1>2, <1>7, <2>12 DEF TypeOK, KillSupervisor
  <2>13. CASE RemoveState(l)
    BY <1>1, <1>5, <1>7, <2>13 DEF TypeOK, RemoveState, Finish
  <2>14. CASE InitializeFails(l)
    BY <1>1, <1>7, <2>14 DEF TypeOK, InitializeFails, Finish
  <2>15. QED
    BY <1>9, <2>1, <2>2, <2>3, <2>4, <2>5, <2>6, <2>7, <2>8, <2>9, <2>10, <2>11, <2>12,
       <2>13, <2>14 DEF LauncherStep
<1>10. ASSUME NEW r \in Start, SupervisorStep(r) PROVE TypeOK'
  <2>1. CASE ClaimReservation(r)
    <3>1. file = [run |-> r, phase |-> "starting"] =>
             [file EXCEPT !.phase = "supervising"] = [run |-> r, phase |-> "supervising"]
      OBVIOUS
    <3>2. file' \in File
      BY ZenonT(30), <1>5, <2>1, <3>1 DEF TypeOK, ClaimReservation
    <3>3. supervisor' \in [Start -> SupervisorState]
      <4>1. PICK p \in SPC : supervisor' = [supervisor EXCEPT ![r].pc = p]
        BY <1>7, <2>1 DEF ClaimReservation, Enter
      <4>2. QED
        BY <1>2, <4>1
    <3>4. QED
      BY <2>1, <3>2, <3>3 DEF TypeOK, ClaimReservation
  <2>2. CASE \E c \in Component : SpawnComponent(r, c)
    BY <2>2 DEF TypeOK, SpawnComponent
  <2>3. CASE WriteState(r)
    BY <1>2, <1>5, <1>7, <2>3 DEF TypeOK, WriteState, Enter
  <2>4. CASE Reap(r)
    BY <1>2, <1>7, <2>4 DEF TypeOK, Reap, Enter
  <2>5. CASE Unlink(r)
    BY <1>2, <1>5, <1>7, <2>5 DEF TypeOK, Unlink, Enter
  <2>6. CASE InstallHandlers(r) \/ ListenersReady(r) \/ StartupFails(r) \/ Watch(r)
             \/ SupervisorExits(r)
    <3>1. supervisor' \in [Start -> SupervisorState]
      <4>1. PICK p \in SPC : supervisor' = [supervisor EXCEPT ![r].pc = p]
        BY <1>7, <2>6
           DEF InstallHandlers, ListenersReady, StartupFails, Watch, SupervisorExits, Enter
      <4>2. QED
        BY <1>2, <4>1
    <3>2. QED
      BY <2>6, <3>1
         DEF TypeOK, InstallHandlers, ListenersReady, StartupFails, Watch, SupervisorExits
  <2>7. QED
    BY <1>10, <2>1, <2>2, <2>3, <2>4, <2>5, <2>6 DEF SupervisorStep
<1>11. ASSUME NEW r \in Start, Environment(r) PROVE TypeOK'
  <2>1. CASE ForwardSignal(r)
    <3>1. Signalled(r) \in [Start -> SupervisorState]
      BY SignalledEffect
    <3>2. QED
      BY <2>1, <3>1 DEF TypeOK, ForwardSignal
  <2>2. CASE LauncherDies(r)
    BY <1>1, <1>7, <1>8, <2>2 DEF TypeOK, LauncherDies
  <2>3. CASE SupervisorDies(r)
    BY <1>2, <1>7, <1>8, <2>3 DEF TypeOK, SupervisorDies
  <2>4. CASE \E c \in Component : ChildExits(r, c)
    BY <2>4 DEF TypeOK, ChildExits
  <2>5. QED
    BY <1>11, <2>1, <2>2, <2>3, <2>4 DEF Environment
<1>12. ASSUME NEW s \in Stop, StopperStep(s) PROVE TypeOK'
  <2>1. CASE FindSupervisor(s)
    <3>1. faults' \in 0..MaxFaults /\ blind' \in BOOLEAN
      BY <2>1, <1>8 DEF TypeOK, FindSupervisor, Probe
    <3>2. LiveState => file.run \in Start
      BY <1>6 DEF LiveState
    <3>3. supervisor' \in [Start -> SupervisorState]
      <4>1. supervisor \in [Start -> SupervisorState]
        BY DEF TypeOK
      <4>2. \/ supervisor' = supervisor
            \/ file.run \in Start /\ supervisor' = Signalled(file.run)
        BY <2>1, <3>2 DEF FindSupervisor, Probe
      <4>3. QED
        BY <4>1, <4>2, SignalledEffect
    <3>4. stopper' \in [Stop -> StopperState]
      <4>1. CASE \E t \in {"not_running", "failed"} :
                   stopper' = [stopper EXCEPT ![s].pc = "done", ![s].told = t]
        <5>1. PICK t \in {"not_running", "failed"} :
                  stopper' = [stopper EXCEPT ![s].pc = "done", ![s].told = t]
          BY <4>1
        <5>2. QED
          BY <5>1, <1>3
      <4>2. CASE /\ file.run \in Start
                 /\ stopper' = [stopper EXCEPT ![s].pc = "wait", ![s].run = file.run]
        BY <4>2, <1>4
      <4>3. QED
        BY <2>1, <3>2, <4>1, <4>2 DEF FindSupervisor, FinishStop, Probe
    <3>5. QED
      BY <2>1, <3>1, <3>3, <3>4 DEF TypeOK, FindSupervisor
  <2>2. CASE StopSucceeds(s) \/ StopTimesOut(s)
    BY <1>3, <2>2 DEF TypeOK, StopSucceeds, StopTimesOut, FinishStop
  <2>3. QED
    BY <1>12, <2>1, <2>2 DEF StopperStep
<1>13. CASE UNCHANGED vars
  BY <1>13 DEF TypeOK, vars
<1>14. QED
  BY <1>9, <1>10, <1>11, <1>12, <1>13 DEF Next

--------------------------------------------------------------------------------
(* Steps *)

\* A start takes the lock.
LEMMA LockKeeps ==
  ASSUME IInv, NEW l \in Start, Lock(l)
  PROVE  Lifecycle'
<1>1. KilledIsGone' /\ ChildrenOwned' /\ RecordOfOwner' /\ StopsKnow'
  BY DEF IInv, Lifecycle, KilledIsGone, ChildrenOwned, RecordOfOwner, StopsKnow, Active,
      Owner, Lock
<1>2. LockHeld'
  BY HostAssumption DEF IInv, Lifecycle, TypeOK, LauncherState, LockHeld, Launching,
      Lock
<1>3. BeforeSpawn'
  BY DEF IInv, Lifecycle, TypeOK, LauncherState, BeforeSpawn, Launching, Lock
<1>4. Reserved'
  BY HostAssumption DEF IInv, Lifecycle, TypeOK, LauncherState, Reserved, NoFile, Lock
<1>5. NamedWhenReserved'
  BY HostAssumption DEF IInv, Lifecycle, TypeOK, LauncherState, NamedWhenReserved,
      NoFile, Lock
<1>6. RemovesGone'
  BY DEF IInv, Lifecycle, TypeOK, LauncherState, RemovesGone, Lock
<1>7. FailedIsDone'
  BY HostAssumption DEF IInv, Lifecycle, TypeOK, LauncherState, FailedIsDone,
      SupervisorAlive, NoFile, Lock
<1>8. BeforeStays'
  BY DEF IInv, Lifecycle, TypeOK, LauncherState, BeforeStays, Lock
<1>9. QED
  BY <1>1, <1>2, <1>3, <1>4, <1>5, <1>6, <1>7, <1>8 DEF Lifecycle

\* A start looks for a live runtime.
LEMMA CheckActiveKeeps ==
  ASSUME IInv, NEW l \in Start, CheckActive(l)
  PROVE  Lifecycle'
<1>1. KilledIsGone' /\ ChildrenOwned' /\ StopsKnow'
  BY DEF IInv, Lifecycle, KilledIsGone, ChildrenOwned, StopsKnow, Active, CheckActive
<1>2. LockHeld'
  BY HostAssumption DEF IInv, Lifecycle, TypeOK, LauncherState, LockHeld, Launching,
      CheckActive, Probe, LiveState, Fault, Finish
<1>3. BeforeSpawn'
  BY DEF IInv, Lifecycle, TypeOK, LauncherState, BeforeSpawn, Launching, CheckActive,
      Probe, LiveState, Fault, Finish
<1>4. RecordOfOwner'
  BY DEF IInv, Lifecycle, TypeOK, File, RecordOfOwner, SupervisorAlive, Starting, Owner,
      Active, CheckActive, Probe, LiveState, Fault, Finish
<1>5. Reserved'
  BY HostAssumption DEF IInv, Lifecycle, TypeOK, LauncherState, File, Reserved,
      LockHeld, NoFile, Launching, CheckActive, Probe, LiveState, Fault, Finish
<1>6. NamedWhenReserved'
  BY HostAssumption DEF IInv, Lifecycle, TypeOK, LauncherState, File, NamedWhenReserved,
      NoFile, CheckActive, Probe, LiveState, Fault, Finish
<1>7. RemovesGone'
  BY DEF IInv, Lifecycle, TypeOK, LauncherState, RemovesGone, CheckActive, Probe,
      LiveState, Fault, Finish
<1>8. FailedIsDone'
  <2>1. /\ launcher \in [Start -> LauncherState] /\ FailedIsDone
        /\ launcher[l].pc = "check" /\ supervisor' = supervisor
    BY DEF IInv, TypeOK, Lifecycle, CheckActive
  <2>2. launcher[l].told # "failed"
    BY <2>1 DEF FailedIsDone
  <2>3. \A k \in Start : launcher'[k].told = "failed" => launcher'[k] = launcher[k]
    <3>1. CASE launcher' = [launcher EXCEPT ![l].pc = "done", ![l].told = "already"]
      BY <2>1, <3>1 DEF LauncherState
    <3>2. CASE launcher' = [launcher EXCEPT ![l].pc = "prepare", ![l].before = service]
      BY <2>1, <2>2, <3>2 DEF LauncherState
    <3>3. QED
      BY <3>1, <3>2 DEF CheckActive, Finish
  <2>4. file' = file \/ file' = NoFile
    BY DEF CheckActive
  <2>5. \A k \in Start : file.run # k => file'.run # k
    BY <2>4, HostAssumption DEF NoFile
  <2>6. QED
    BY <2>1, <2>3, <2>5 DEF FailedIsDone, SupervisorAlive
<1>9. BeforeStays'
  <2>1. launcher \in [Start -> LauncherState] /\ BeforeStays /\ service' = service
    BY DEF IInv, TypeOK, Lifecycle, CheckActive
  <2>2. CASE launcher' = [launcher EXCEPT ![l].pc = "done", ![l].told = "already"]
    BY <2>1, <2>2 DEF BeforeStays, LauncherState
  <2>3. CASE launcher' = [launcher EXCEPT ![l].pc = "prepare", ![l].before = service]
    <3>1. \A k \in Start : k # l => launcher[k].pc \notin {"prepare", "rollback"}
      BY DEF IInv, Lifecycle, LockHeld, Launching, CheckActive
    <3>2. /\ launcher'[l].before = service
          /\ \A k \in Start : k # l => launcher'[k] = launcher[k]
      BY <2>1, <2>3 DEF LauncherState
    <3>3. QED
      BY <2>1, <3>1, <3>2 DEF BeforeStays
  <2>4. QED
    BY <2>2, <2>3 DEF CheckActive, Finish
<1>10. QED
  BY <1>1, <1>2, <1>3, <1>4, <1>5, <1>6, <1>7, <1>8, <1>9 DEF Lifecycle

\* The first start cannot generate its configuration.
LEMMA InitializeFailsKeeps ==
  ASSUME IInv, NEW l \in Start, InitializeFails(l)
  PROVE  Lifecycle'
<1>1. KilledIsGone' /\ ChildrenOwned' /\ RecordOfOwner' /\ StopsKnow'
  BY DEF IInv, Lifecycle, KilledIsGone, ChildrenOwned, RecordOfOwner, StopsKnow, Active,
      Owner, InitializeFails
<1>2. LockHeld'
  BY HostAssumption DEF IInv, Lifecycle, TypeOK, LauncherState, LockHeld, Launching,
      InitializeFails, Finish
<1>3. BeforeSpawn'
  BY DEF IInv, Lifecycle, TypeOK, LauncherState, BeforeSpawn, Launching, InitializeFails,
      Finish
<1>4. Reserved'
  BY HostAssumption DEF IInv, Lifecycle, TypeOK, LauncherState, Reserved, NoFile,
      InitializeFails, Finish
<1>5. NamedWhenReserved'
  BY HostAssumption DEF IInv, Lifecycle, TypeOK, LauncherState, NamedWhenReserved,
      NoFile, InitializeFails, Finish
<1>6. RemovesGone'
  BY DEF IInv, Lifecycle, TypeOK, LauncherState, RemovesGone, InitializeFails, Finish
<1>7. FailedIsDone'
  BY HostAssumption DEF IInv, Lifecycle, TypeOK, LauncherState, FailedIsDone,
      SupervisorAlive, NoFile, InitializeFails, Finish
<1>8. BeforeStays'
  BY DEF IInv, Lifecycle, TypeOK, LauncherState, BeforeStays, InitializeFails, Finish
<1>9. QED
  BY <1>1, <1>2, <1>3, <1>4, <1>5, <1>6, <1>7, <1>8 DEF Lifecycle

\* A static check fails.
LEMMA PreflightFailsKeeps ==
  ASSUME IInv, NEW l \in Start, PreflightFails(l)
  PROVE  Lifecycle'
<1>1. KilledIsGone' /\ ChildrenOwned' /\ RecordOfOwner' /\ StopsKnow'
  BY DEF IInv, Lifecycle, KilledIsGone, ChildrenOwned, RecordOfOwner, StopsKnow, Active,
      Owner, PreflightFails
<1>2. LockHeld'
  BY HostAssumption DEF IInv, Lifecycle, TypeOK, LauncherState, LockHeld, Launching,
      PreflightFails, Finish
<1>3. BeforeSpawn'
  BY DEF IInv, Lifecycle, TypeOK, LauncherState, BeforeSpawn, Launching, PreflightFails,
      Finish
<1>4. Reserved'
  BY HostAssumption DEF IInv, Lifecycle, TypeOK, LauncherState, Reserved, NoFile,
      PreflightFails, Finish
<1>5. NamedWhenReserved'
  BY HostAssumption DEF IInv, Lifecycle, TypeOK, LauncherState, NamedWhenReserved,
      NoFile, PreflightFails, Finish
<1>6. RemovesGone'
  BY DEF IInv, Lifecycle, TypeOK, LauncherState, RemovesGone, PreflightFails, Finish
<1>7. FailedIsDone'
  BY HostAssumption DEF IInv, Lifecycle, TypeOK, LauncherState, FailedIsDone,
      SupervisorAlive, NoFile, PreflightFails, Finish
<1>8. BeforeStays'
  BY DEF IInv, Lifecycle, TypeOK, LauncherState, BeforeStays, PreflightFails, Finish
<1>9. QED
  BY <1>1, <1>2, <1>3, <1>4, <1>5, <1>6, <1>7, <1>8 DEF Lifecycle

\* Services come up.
LEMMA PrepareKeeps ==
  ASSUME IInv, NEW l \in Start, Prepare(l)
  PROVE  Lifecycle'
<1>1. KilledIsGone' /\ ChildrenOwned' /\ RecordOfOwner' /\ StopsKnow'
  BY DEF IInv, Lifecycle, KilledIsGone, ChildrenOwned, RecordOfOwner, StopsKnow, Active,
      Owner, Prepare
<1>2. LockHeld'
  BY HostAssumption DEF IInv, Lifecycle, TypeOK, LauncherState, LockHeld, Launching,
      Prepare
<1>3. BeforeSpawn'
  BY DEF IInv, Lifecycle, TypeOK, LauncherState, BeforeSpawn, Launching, Prepare
<1>4. Reserved'
  BY HostAssumption DEF IInv, Lifecycle, TypeOK, LauncherState, Reserved, NoFile,
      Prepare
<1>5. NamedWhenReserved'
  BY HostAssumption DEF IInv, Lifecycle, TypeOK, LauncherState, NamedWhenReserved,
      NoFile, Prepare
<1>6. RemovesGone'
  BY DEF IInv, Lifecycle, TypeOK, LauncherState, RemovesGone, Prepare
<1>7. FailedIsDone'
  BY HostAssumption DEF IInv, Lifecycle, TypeOK, LauncherState, FailedIsDone,
      SupervisorAlive, NoFile, Prepare
<1>8. BeforeStays'
  <2>1. launcher \in [Start -> LauncherState] /\ BeforeStays
    BY DEF IInv, TypeOK, Lifecycle
  <2>2. service \subseteq service'
    BY DEF IInv, TypeOK, Prepare
  <2>3. \A k \in Start :
           /\ launcher'[k].before = launcher[k].before
           /\ launcher'[k].pc \in {"prepare", "rollback"} =>
                  launcher[k].pc \in {"prepare", "rollback"}
    BY <2>1 DEF Prepare, LauncherState
  <2>4. QED
    BY <2>1, <2>2, <2>3 DEF BeforeStays
<1>9. QED
  BY <1>1, <1>2, <1>3, <1>4, <1>5, <1>6, <1>7, <1>8 DEF Lifecycle

\* A failed start stops what it brought up.
LEMMA RollBackKeeps ==
  ASSUME IInv, NEW l \in Start, RollBack(l)
  PROVE  Lifecycle'
<1>1. KilledIsGone' /\ ChildrenOwned' /\ RecordOfOwner' /\ StopsKnow'
  BY DEF IInv, Lifecycle, KilledIsGone, ChildrenOwned, RecordOfOwner, StopsKnow, Active,
      Owner, RollBack
<1>2. LockHeld'
  BY HostAssumption DEF IInv, Lifecycle, TypeOK, LauncherState, LockHeld, Launching,
      RollBack, Finish
<1>3. BeforeSpawn'
  BY DEF IInv, Lifecycle, TypeOK, LauncherState, BeforeSpawn, Launching, RollBack,
      Finish
<1>4. Reserved'
  BY HostAssumption DEF IInv, Lifecycle, TypeOK, LauncherState, Reserved, NoFile,
      RollBack, Finish
<1>5. NamedWhenReserved'
  BY HostAssumption DEF IInv, Lifecycle, TypeOK, LauncherState, NamedWhenReserved,
      NoFile, RollBack, Finish
<1>6. RemovesGone'
  BY DEF IInv, Lifecycle, TypeOK, LauncherState, RemovesGone, RollBack, Finish
<1>7. FailedIsDone'
  BY HostAssumption DEF IInv, Lifecycle, TypeOK, LauncherState, FailedIsDone,
      SupervisorAlive, NoFile, RollBack, Finish
<1>8. BeforeStays'
  BY DEF IInv, Lifecycle, TypeOK, LauncherState, BeforeStays, RollBack, Finish
<1>9. QED
  BY <1>1, <1>2, <1>3, <1>4, <1>5, <1>6, <1>7, <1>8 DEF Lifecycle

\* A start reserves the file.
LEMMA WriteReservationKeeps ==
  ASSUME IInv, NEW l \in Start, WriteReservation(l)
  PROVE  Lifecycle'
<1>1. KilledIsGone' /\ ChildrenOwned' /\ StopsKnow'
  BY DEF IInv, Lifecycle, KilledIsGone, ChildrenOwned, StopsKnow, Active,
      WriteReservation
<1>2. LockHeld'
  BY HostAssumption DEF IInv, Lifecycle, TypeOK, LauncherState, LockHeld, Launching,
      WriteReservation
<1>3. BeforeSpawn'
  BY DEF IInv, Lifecycle, TypeOK, LauncherState, BeforeSpawn, Launching,
      WriteReservation
<1>4. RecordOfOwner'
  BY DEF IInv, Lifecycle, TypeOK, LauncherState, File, RecordOfOwner, Reserved, Owner,
      Active, NoFile, WriteReservation
<1>5. Reserved'
  BY HostAssumption DEF IInv, Lifecycle, TypeOK, LauncherState, File, Reserved,
      LockHeld, NoFile, Launching, WriteReservation
<1>6. NamedWhenReserved'
  BY HostAssumption DEF IInv, Lifecycle, TypeOK, LauncherState, File, NamedWhenReserved,
      NoFile, WriteReservation
<1>7. RemovesGone'
  BY DEF IInv, Lifecycle, TypeOK, LauncherState, RemovesGone, WriteReservation
<1>8. FailedIsDone'
  BY HostAssumption DEF IInv, Lifecycle, TypeOK, LauncherState, File, FailedIsDone,
      SupervisorAlive, NoFile, WriteReservation
<1>9. BeforeStays'
  BY DEF IInv, Lifecycle, TypeOK, LauncherState, BeforeStays, WriteReservation
<1>10. QED
  BY <1>1, <1>2, <1>3, <1>4, <1>5, <1>6, <1>7, <1>8, <1>9 DEF Lifecycle

\* A supervisor is spawned.
LEMMA SpawnSupervisorKeeps ==
  ASSUME IInv, NEW l \in Start, SpawnSupervisor(l)
  PROVE  Lifecycle'
<1>1. LockHeld'
  BY HostAssumption DEF IInv, Lifecycle, TypeOK, LauncherState, LockHeld, Launching,
      SpawnSupervisor
<1>2. BeforeSpawn'
  BY DEF IInv, Lifecycle, TypeOK, LauncherState, SupervisorState, BeforeSpawn,
      Launching, SpawnSupervisor
<1>3. KilledIsGone'
  BY DEF IInv, Lifecycle, TypeOK, LauncherState, SupervisorState, KilledIsGone,
      BeforeSpawn, Launching, SpawnSupervisor
<1>4. ChildrenOwned'
  BY DEF IInv, Lifecycle, TypeOK, LauncherState, SupervisorState, ChildrenOwned,
      BeforeSpawn, KilledIsGone, Active, Launching, SpawnSupervisor
<1>5. RecordOfOwner'
  BY DEF IInv, Lifecycle, TypeOK, SupervisorState, RecordOfOwner, Owner, Active,
      SpawnSupervisor
<1>6. Reserved'
  BY HostAssumption DEF IInv, Lifecycle, TypeOK, LauncherState, Reserved, NoFile,
      SpawnSupervisor
<1>7. NamedWhenReserved'
  BY HostAssumption DEF IInv, Lifecycle, TypeOK, LauncherState, NamedWhenReserved,
      NoFile, SpawnSupervisor
<1>8. RemovesGone'
  BY DEF IInv, Lifecycle, TypeOK, LauncherState, SupervisorState, RemovesGone,
      SpawnSupervisor
<1>9. FailedIsDone'
  BY HostAssumption DEF IInv, Lifecycle, TypeOK, LauncherState, SupervisorState,
      FailedIsDone, SupervisorAlive, NoFile, SpawnSupervisor
<1>10. StopsKnow'
  BY DEF IInv, Lifecycle, TypeOK, LauncherState, SupervisorState, StopsKnow,
      BeforeSpawn, Launching, SpawnSupervisor
<1>11. BeforeStays'
  BY DEF IInv, Lifecycle, TypeOK, LauncherState, BeforeStays, SpawnSupervisor
<1>12. QED
  BY <1>1, <1>2, <1>3, <1>4, <1>5, <1>6, <1>7, <1>8, <1>9, <1>10, <1>11 DEF Lifecycle

\* A supervisor is not spawned.
LEMMA SpawnFailsKeeps ==
  ASSUME IInv, NEW l \in Start, SpawnFails(l)
  PROVE  Lifecycle'
<1>1. KilledIsGone' /\ ChildrenOwned' /\ StopsKnow'
  BY DEF IInv, Lifecycle, KilledIsGone, ChildrenOwned, StopsKnow, Active, SpawnFails
<1>2. LockHeld'
  BY HostAssumption DEF IInv, Lifecycle, TypeOK, LauncherState, LockHeld, Launching,
      SpawnFails, Finish
<1>3. BeforeSpawn'
  BY DEF IInv, Lifecycle, TypeOK, LauncherState, BeforeSpawn, Launching, SpawnFails,
      Finish
<1>4. RecordOfOwner'
  BY DEF IInv, Lifecycle, TypeOK, LauncherState, File, RecordOfOwner, Reserved, Owner,
      Active, NoFile, SpawnFails, Finish
<1>5. Reserved'
  BY HostAssumption DEF IInv, Lifecycle, TypeOK, LauncherState, File, Reserved, NoFile,
      SpawnFails, Finish
<1>6. NamedWhenReserved'
  BY HostAssumption DEF IInv, Lifecycle, TypeOK, LauncherState, File, NamedWhenReserved,
      NoFile, SpawnFails, Finish
<1>7. RemovesGone'
  BY DEF IInv, Lifecycle, TypeOK, LauncherState, RemovesGone, SpawnFails, Finish
<1>8. FailedIsDone'
  BY HostAssumption DEF IInv, Lifecycle, TypeOK, LauncherState, File, FailedIsDone,
      SupervisorAlive, NoFile, SpawnFails, Finish
<1>9. BeforeStays'
  BY DEF IInv, Lifecycle, TypeOK, LauncherState, BeforeStays, SpawnFails, Finish
<1>10. QED
  BY <1>1, <1>2, <1>3, <1>4, <1>5, <1>6, <1>7, <1>8, <1>9 DEF Lifecycle

\* A launcher that only watches may stop doing so without a failure.
LEMMA WatcherMoves ==
  ASSUME IInv, NEW l \in Start,
         launcher[l].pc \in Watching,
         launcher'[l].pc \in {"remove", "foreground", "done"},
         launcher'[l].pc = "remove" => supervisor[l].pc = "gone",
         launcher'[l].told # "failed", launcher'[l].before = launcher[l].before,
         \A k \in Start : k # l => launcher'[k] = launcher[k],
         UNCHANGED <<lock, file, supervisor, child, stopper, service, faults, blind>>
  PROVE  Lifecycle'
<1>1. KilledIsGone' /\ ChildrenOwned' /\ RecordOfOwner' /\ StopsKnow'
  BY DEF IInv, Lifecycle, KilledIsGone, ChildrenOwned, RecordOfOwner, StopsKnow, Owner, Active
<1>2. LockHeld' /\ BeforeSpawn'
  BY DEF IInv, Lifecycle, LockHeld, BeforeSpawn, Launching, Watching
<1>3. Reserved'
  BY DEF IInv, Lifecycle, Reserved, NoFile
<1>4. NamedWhenReserved' /\ RemovesGone' /\ FailedIsDone'
  BY DEF IInv, Lifecycle, NamedWhenReserved, RemovesGone, FailedIsDone, SupervisorAlive
<1>5. BeforeStays'
  BY DEF IInv, Lifecycle, BeforeStays
<1>6. QED
  BY <1>1, <1>2, <1>3, <1>4, <1>5 DEF Lifecycle

\* A start sees its run running.
LEMMA SeeRunningKeeps ==
  ASSUME IInv, NEW l \in Start, SeeRunning(l)
  PROVE  Lifecycle'
<1>1. launcher \in [Start -> LauncherState]
  BY DEF IInv, TypeOK
<1>2. /\ launcher'[l].pc \in {"foreground", "done"}
      /\ launcher'[l].told = "started" /\ launcher'[l].before = launcher[l].before
      /\ \A k \in Start : k # l => launcher'[k] = launcher[k]
  <2>1. CASE l \in Attached
    BY <1>1, <2>1 DEF SeeRunning, LauncherState
  <2>2. CASE l \notin Attached
    BY <1>1, <2>2 DEF SeeRunning, Finish, LauncherState
  <2>3. QED
    BY <2>1, <2>2
<1>3. QED
  BY <1>2, WatcherMoves DEF SeeRunning, Watching

\* A start sees its supervisor exit.
LEMMA SeeExitKeeps ==
  ASSUME IInv, NEW l \in Start, SeeExit(l)
  PROVE  Lifecycle'
<1>1. launcher \in [Start -> LauncherState]
  BY DEF IInv, TypeOK
<1>2. launcher[l].pc \in Watching /\ launcher[l].told # "failed"
  BY DEF SeeExit, Watching, IInv, Lifecycle, FailedIsDone
<1>3. /\ launcher'[l].pc \in {"remove", "done"}
      /\ launcher'[l].told # "failed" /\ launcher'[l].before = launcher[l].before
      /\ \A k \in Start : k # l => launcher'[k] = launcher[k]
  BY <1>1, <1>2 DEF SeeExit, Finish, LauncherState
<1>4. QED
  BY <1>2, <1>3, WatcherMoves DEF SeeExit

\* A signal reaches a supervisor, and whoever sent it waits for its end.
LEMMA SignalMoves ==
  ASSUME IInv,
         \A q \in Start :
             /\ supervisor'[q].killed = supervisor[q].killed
             /\ \/ supervisor'[q].pc = supervisor[q].pc
                \/ supervisor[q].pc \in Starting /\ supervisor'[q].pc = "gone",
         \A l \in Start :
             /\ launcher'[l].told = launcher[l].told
             /\ launcher'[l].before = launcher[l].before
             /\ \/ launcher'[l].pc = launcher[l].pc
                \/ launcher[l].pc = "wait" /\ launcher'[l].pc = "terminating",
         UNCHANGED <<lock, file, child, service>>, blind => blind'
  PROVE  /\ LockHeld' /\ BeforeSpawn' /\ KilledIsGone' /\ ChildrenOwned'
         /\ RecordOfOwner' /\ Reserved' /\ NamedWhenReserved'
         /\ RemovesGone' /\ FailedIsDone' /\ BeforeStays'
<1>1. LockHeld' /\ BeforeSpawn'
  BY DEF IInv, Lifecycle, LockHeld, BeforeSpawn, Launching, Starting
<1>2. KilledIsGone' /\ ChildrenOwned'
  BY DEF IInv, Lifecycle, KilledIsGone, ChildrenOwned, Active, Starting
<1>3. RecordOfOwner'
  BY DEF IInv, Lifecycle, RecordOfOwner, Owner, Active
<1>4. Reserved' /\ NamedWhenReserved' /\ BeforeStays'
  BY DEF IInv, Lifecycle, Reserved, NamedWhenReserved, BeforeStays, NoFile
<1>5. RemovesGone' /\ FailedIsDone'
  BY DEF IInv, Lifecycle, RemovesGone, FailedIsDone, SupervisorAlive, Starting
<1>6. QED
  BY <1>1, <1>2, <1>3, <1>4, <1>5

\* A stop command that goes on waiting knows a supervisor a signal may end.
LEMMA StopsKnowSignals ==
  ASSUME StopsKnow, UNCHANGED stopper,
         \A q \in Start :
             \/ supervisor'[q].pc = supervisor[q].pc
             \/ supervisor[q].pc \in Starting /\ supervisor'[q].pc = "gone"
  PROVE  StopsKnow'
  BY DEF StopsKnow, Starting

\* A start gives up.
LEMMA StartTimesOutKeeps ==
  ASSUME IInv, NEW l \in Start, StartTimesOut(l)
  PROVE  Lifecycle'
<1>1. \A q \in Start :
         /\ supervisor'[q].killed = supervisor[q].killed
         /\ \/ supervisor'[q].pc = supervisor[q].pc
            \/ supervisor[q].pc \in Starting /\ supervisor'[q].pc = "gone"
  BY SignalledEffect DEF IInv, StartTimesOut
<1>2. \A k \in Start :
         /\ launcher'[k].told = launcher[k].told
         /\ launcher'[k].before = launcher[k].before
         /\ \/ launcher'[k].pc = launcher[k].pc
            \/ launcher[k].pc = "wait" /\ launcher'[k].pc = "terminating"
  BY DEF IInv, TypeOK, LauncherState, StartTimesOut
<1>3. UNCHANGED <<lock, file, child, stopper, service, blind>>
  BY DEF StartTimesOut
<1>4. StopsKnow'
  BY <1>1, <1>3, StopsKnowSignals DEF IInv, Lifecycle
<1>5. QED
  BY <1>1, <1>2, <1>3, <1>4, SignalMoves DEF Lifecycle

\* A supervisor that does not stop is killed.
LEMMA KillSupervisorKeeps ==
  ASSUME IInv, NEW l \in Start, KillSupervisor(l)
  PROVE  Lifecycle'
<1>1. LockHeld'
  BY HostAssumption DEF IInv, Lifecycle, TypeOK, LauncherState, LockHeld, Launching,
      KillSupervisor
<1>2. BeforeSpawn'
  BY DEF IInv, Lifecycle, TypeOK, LauncherState, SupervisorState, BeforeSpawn,
      Launching, KillSupervisor
<1>3. KilledIsGone'
  BY DEF IInv, Lifecycle, TypeOK, SupervisorState, KilledIsGone, KillSupervisor
<1>4. ChildrenOwned'
  BY DEF IInv, Lifecycle, TypeOK, SupervisorState, ChildrenOwned, Active, KillSupervisor
<1>5. RecordOfOwner'
  BY DEF IInv, Lifecycle, TypeOK, SupervisorState, RecordOfOwner, Owner, Active,
      KillSupervisor
<1>6. Reserved'
  BY HostAssumption DEF IInv, Lifecycle, TypeOK, LauncherState, Reserved, NoFile,
      KillSupervisor
<1>7. NamedWhenReserved'
  BY HostAssumption DEF IInv, Lifecycle, TypeOK, LauncherState, NamedWhenReserved,
      NoFile, KillSupervisor
<1>8. RemovesGone'
  BY DEF IInv, Lifecycle, TypeOK, LauncherState, SupervisorState, RemovesGone,
      KillSupervisor
<1>9. FailedIsDone'
  BY HostAssumption DEF IInv, Lifecycle, TypeOK, LauncherState, SupervisorState,
      FailedIsDone, SupervisorAlive, NoFile, KillSupervisor
<1>10. StopsKnow'
  BY DEF IInv, Lifecycle, TypeOK, SupervisorState, StopsKnow, KillSupervisor
<1>11. BeforeStays'
  BY DEF IInv, Lifecycle, TypeOK, LauncherState, BeforeStays, KillSupervisor
<1>12. QED
  BY <1>1, <1>2, <1>3, <1>4, <1>5, <1>6, <1>7, <1>8, <1>9, <1>10, <1>11 DEF Lifecycle

\* A failed start removes its record.
LEMMA RemoveStateKeeps ==
  ASSUME IInv, NEW l \in Start, RemoveState(l)
  PROVE  Lifecycle'
<1>1. KilledIsGone' /\ ChildrenOwned' /\ StopsKnow'
  BY DEF IInv, Lifecycle, KilledIsGone, ChildrenOwned, StopsKnow, Active, RemoveState
<1>2. LockHeld'
  BY HostAssumption DEF IInv, Lifecycle, TypeOK, LauncherState, LockHeld, Launching,
      RemoveState, Finish
<1>3. BeforeSpawn'
  BY DEF IInv, Lifecycle, TypeOK, LauncherState, BeforeSpawn, Launching, RemoveState,
      Finish
<1>4. RecordOfOwner'
  BY DEF IInv, Lifecycle, TypeOK, LauncherState, File, RecordOfOwner, RemovesGone,
      Owner, Active, RemoveState, Finish
<1>5. Reserved'
  BY HostAssumption DEF IInv, Lifecycle, TypeOK, LauncherState, File, Reserved, NoFile,
      RemoveState, Finish
<1>6. NamedWhenReserved'
  BY HostAssumption DEF IInv, Lifecycle, TypeOK, LauncherState, File, NamedWhenReserved,
      NoFile, RemoveState, Finish
<1>7. RemovesGone'
  BY DEF IInv, Lifecycle, TypeOK, LauncherState, RemovesGone, RemoveState, Finish
<1>8. FailedIsDone'
  BY HostAssumption DEF IInv, Lifecycle, TypeOK, LauncherState, File, FailedIsDone,
      SupervisorAlive, NoFile, RemoveState, Finish
<1>9. BeforeStays'
  BY DEF IInv, Lifecycle, TypeOK, LauncherState, BeforeStays, RemoveState, Finish
<1>10. QED
  BY <1>1, <1>2, <1>3, <1>4, <1>5, <1>6, <1>7, <1>8, <1>9 DEF Lifecycle

\* A foreground start passes a signal on.
LEMMA ForwardSignalKeeps ==
  ASSUME IInv, NEW l \in Start, ForwardSignal(l)
  PROVE  Lifecycle'
<1>1. \A q \in Start :
         /\ supervisor'[q].killed = supervisor[q].killed
         /\ \/ supervisor'[q].pc = supervisor[q].pc
            \/ supervisor[q].pc \in Starting /\ supervisor'[q].pc = "gone"
  BY SignalledEffect DEF IInv, ForwardSignal
<1>2. UNCHANGED <<lock, file, launcher, child, stopper, service, blind>>
  BY DEF ForwardSignal
<1>3. StopsKnow'
  BY <1>1, <1>2, StopsKnowSignals DEF IInv, Lifecycle
<1>4. QED
  BY <1>1, <1>2, <1>3, SignalMoves DEF Lifecycle

\* A launcher dies.
LEMMA LauncherDiesKeeps ==
  ASSUME IInv, NEW l \in Start, LauncherDies(l)
  PROVE  Lifecycle'
<1>1. KilledIsGone' /\ ChildrenOwned' /\ RecordOfOwner' /\ StopsKnow'
  BY DEF IInv, Lifecycle, KilledIsGone, ChildrenOwned, RecordOfOwner, StopsKnow, Active,
      Owner, LauncherDies
<1>2. LockHeld'
  BY HostAssumption DEF IInv, Lifecycle, TypeOK, LauncherState, LockHeld, Launching,
      LauncherDies, Fault, LauncherAlive
<1>3. BeforeSpawn'
  BY DEF IInv, Lifecycle, TypeOK, LauncherState, BeforeSpawn, Launching, LauncherDies,
      Fault, LauncherAlive
<1>4. Reserved'
  BY HostAssumption DEF IInv, Lifecycle, TypeOK, LauncherState, Reserved, NoFile,
      LauncherDies, Fault, LauncherAlive
<1>5. NamedWhenReserved'
  BY HostAssumption DEF IInv, Lifecycle, TypeOK, LauncherState, NamedWhenReserved,
      NoFile, LauncherDies, Fault, LauncherAlive
<1>6. RemovesGone'
  BY DEF IInv, Lifecycle, TypeOK, LauncherState, RemovesGone, LauncherDies, Fault,
      LauncherAlive
<1>7. FailedIsDone'
  BY HostAssumption DEF IInv, Lifecycle, TypeOK, LauncherState, FailedIsDone,
      SupervisorAlive, NoFile, LauncherDies, Fault, LauncherAlive
<1>8. BeforeStays'
  BY DEF IInv, Lifecycle, TypeOK, LauncherState, BeforeStays, LauncherDies, Fault,
      LauncherAlive
<1>9. QED
  BY <1>1, <1>2, <1>3, <1>4, <1>5, <1>6, <1>7, <1>8 DEF Lifecycle

\* A supervisor claims its reservation, or gives up.
LEMMA ClaimReservationKeeps ==
  ASSUME IInv, NEW r \in Start, ClaimReservation(r)
  PROVE  Lifecycle'
<1>1. LockHeld' /\ BeforeStays'
  BY DEF IInv, Lifecycle, LockHeld, BeforeStays, Launching, ClaimReservation
<1>2. BeforeSpawn'
  BY DEF IInv, Lifecycle, TypeOK, SupervisorState, BeforeSpawn, Launching,
      ClaimReservation, Enter, LauncherAlive
<1>3. KilledIsGone'
  BY DEF IInv, Lifecycle, TypeOK, SupervisorState, KilledIsGone, ClaimReservation,
      Enter, LauncherAlive
<1>4. ChildrenOwned'
  BY DEF IInv, Lifecycle, TypeOK, SupervisorState, ChildrenOwned, Active,
      ClaimReservation, Enter, LauncherAlive
<1>5. RecordOfOwner'
  BY SMTT(30)
  DEF IInv, Lifecycle, TypeOK, SupervisorState, File, RecordOfOwner, Owner, Active,
      ClaimReservation, Enter, LauncherAlive
<1>6. Reserved'
  BY HostAssumption DEF IInv, Lifecycle, TypeOK, File, Reserved, LockHeld, NoFile,
      Launching, ClaimReservation, Enter, LauncherAlive
<1>7. NamedWhenReserved'
  BY HostAssumption DEF IInv, Lifecycle, TypeOK, File, NamedWhenReserved, NoFile,
      ClaimReservation, Enter, LauncherAlive
<1>8. RemovesGone'
  BY DEF IInv, Lifecycle, TypeOK, SupervisorState, RemovesGone, ClaimReservation, Enter,
      LauncherAlive
<1>9. FailedIsDone'
  BY HostAssumption DEF IInv, Lifecycle, TypeOK, SupervisorState, File, FailedIsDone,
      SupervisorAlive, NoFile, ClaimReservation, Enter, LauncherAlive
<1>10. StopsKnow'
  BY SMTT(30)
  DEF IInv, Lifecycle, TypeOK, SupervisorState, StopsKnow, ClaimReservation, Enter,
      LauncherAlive
<1>11. QED
  BY <1>1, <1>2, <1>3, <1>4, <1>5, <1>6, <1>7, <1>8, <1>9, <1>10 DEF Lifecycle

\* Signals are handled from here.
LEMMA InstallHandlersKeeps ==
  ASSUME IInv, NEW r \in Start, InstallHandlers(r)
  PROVE  Lifecycle'
<1>1. LockHeld' /\ Reserved' /\ NamedWhenReserved' /\ BeforeStays'
  BY DEF IInv, Lifecycle, LockHeld, Reserved, NamedWhenReserved, BeforeStays, Launching,
      InstallHandlers
<1>2. BeforeSpawn'
  BY DEF IInv, Lifecycle, TypeOK, SupervisorState, BeforeSpawn, Launching,
      InstallHandlers, Enter
<1>3. KilledIsGone'
  BY DEF IInv, Lifecycle, TypeOK, SupervisorState, KilledIsGone, InstallHandlers, Enter
<1>4. ChildrenOwned'
  BY DEF IInv, Lifecycle, TypeOK, SupervisorState, ChildrenOwned, Active,
      InstallHandlers, Enter
<1>5. RecordOfOwner'
  BY DEF IInv, Lifecycle, TypeOK, SupervisorState, RecordOfOwner, Owner, Active,
      InstallHandlers, Enter
<1>6. RemovesGone'
  BY DEF IInv, Lifecycle, TypeOK, SupervisorState, RemovesGone, InstallHandlers, Enter
<1>7. FailedIsDone'
  BY HostAssumption DEF IInv, Lifecycle, TypeOK, SupervisorState, FailedIsDone,
      SupervisorAlive, NoFile, InstallHandlers, Enter
<1>8. StopsKnow'
  BY DEF IInv, Lifecycle, TypeOK, SupervisorState, StopsKnow, InstallHandlers, Enter
<1>9. QED
  BY <1>1, <1>2, <1>3, <1>4, <1>5, <1>6, <1>7, <1>8 DEF Lifecycle

\* A child starts.
LEMMA SpawnComponentKeeps ==
  ASSUME IInv, NEW r \in Start, NEW c \in Component, SpawnComponent(r, c)
  PROVE  Lifecycle'
<1>1. /\ LockHeld' /\ BeforeSpawn' /\ KilledIsGone' /\ RecordOfOwner' /\ Reserved'
      /\ NamedWhenReserved' /\ RemovesGone' /\ FailedIsDone' /\ StopsKnow' /\ BeforeStays'
  BY DEF IInv, Lifecycle, LockHeld, BeforeSpawn, KilledIsGone, RecordOfOwner, Reserved,
      NamedWhenReserved, RemovesGone, FailedIsDone, StopsKnow, BeforeStays, Launching,
      Owner, Active, SupervisorAlive, NoFile, SpawnComponent
<1>2. ChildrenOwned'
  BY DEF IInv, Lifecycle, TypeOK, ChildrenOwned, Active, SpawnComponent
<1>3. QED
  BY <1>1, <1>2 DEF Lifecycle

\* Every listener answers.
LEMMA ListenersReadyKeeps ==
  ASSUME IInv, NEW r \in Start, ListenersReady(r)
  PROVE  Lifecycle'
<1>1. LockHeld' /\ Reserved' /\ NamedWhenReserved' /\ BeforeStays'
  BY DEF IInv, Lifecycle, LockHeld, Reserved, NamedWhenReserved, BeforeStays, Launching,
      ListenersReady
<1>2. BeforeSpawn'
  BY DEF IInv, Lifecycle, TypeOK, SupervisorState, BeforeSpawn, Launching,
      ListenersReady, Enter
<1>3. KilledIsGone'
  BY DEF IInv, Lifecycle, TypeOK, SupervisorState, KilledIsGone, ListenersReady, Enter
<1>4. ChildrenOwned'
  BY DEF IInv, Lifecycle, TypeOK, SupervisorState, ChildrenOwned, Active,
      ListenersReady, Enter
<1>5. RecordOfOwner'
  BY DEF IInv, Lifecycle, TypeOK, SupervisorState, RecordOfOwner, Owner, Active,
      ListenersReady, Enter
<1>6. RemovesGone'
  BY DEF IInv, Lifecycle, TypeOK, SupervisorState, RemovesGone, ListenersReady, Enter
<1>7. FailedIsDone'
  BY HostAssumption DEF IInv, Lifecycle, TypeOK, SupervisorState, FailedIsDone,
      SupervisorAlive, NoFile, ListenersReady, Enter
<1>8. StopsKnow'
  BY DEF IInv, Lifecycle, TypeOK, SupervisorState, StopsKnow, ListenersReady, Enter
<1>9. QED
  BY <1>1, <1>2, <1>3, <1>4, <1>5, <1>6, <1>7, <1>8 DEF Lifecycle

\* The launch fails.
LEMMA StartupFailsKeeps ==
  ASSUME IInv, NEW r \in Start, StartupFails(r)
  PROVE  Lifecycle'
<1>1. LockHeld' /\ Reserved' /\ NamedWhenReserved' /\ BeforeStays'
  BY DEF IInv, Lifecycle, LockHeld, Reserved, NamedWhenReserved, BeforeStays, Launching,
      StartupFails
<1>2. BeforeSpawn'
  BY DEF IInv, Lifecycle, TypeOK, SupervisorState, BeforeSpawn, Launching, StartupFails,
      Enter
<1>3. KilledIsGone'
  BY DEF IInv, Lifecycle, TypeOK, SupervisorState, KilledIsGone, StartupFails, Enter
<1>4. ChildrenOwned'
  BY DEF IInv, Lifecycle, TypeOK, SupervisorState, ChildrenOwned, Active, StartupFails,
      Enter
<1>5. RecordOfOwner'
  BY DEF IInv, Lifecycle, TypeOK, SupervisorState, RecordOfOwner, Owner, Active,
      StartupFails, Enter
<1>6. RemovesGone'
  BY DEF IInv, Lifecycle, TypeOK, SupervisorState, RemovesGone, StartupFails, Enter
<1>7. FailedIsDone'
  BY HostAssumption DEF IInv, Lifecycle, TypeOK, SupervisorState, FailedIsDone,
      SupervisorAlive, NoFile, StartupFails, Enter
<1>8. StopsKnow'
  BY DEF IInv, Lifecycle, TypeOK, SupervisorState, StopsKnow, StartupFails, Enter
<1>9. QED
  BY <1>1, <1>2, <1>3, <1>4, <1>5, <1>6, <1>7, <1>8 DEF Lifecycle

\* The run is recorded as running.
LEMMA WriteStateKeeps ==
  ASSUME IInv, NEW r \in Start, WriteState(r)
  PROVE  Lifecycle'
<1>1. LockHeld' /\ BeforeStays'
  BY DEF IInv, Lifecycle, LockHeld, BeforeStays, Launching, WriteState
<1>2. BeforeSpawn'
  BY DEF IInv, Lifecycle, TypeOK, SupervisorState, BeforeSpawn, Launching, WriteState,
      Enter
<1>3. KilledIsGone'
  BY DEF IInv, Lifecycle, TypeOK, SupervisorState, KilledIsGone, WriteState, Enter
<1>4. ChildrenOwned'
  BY DEF IInv, Lifecycle, TypeOK, SupervisorState, ChildrenOwned, Active, WriteState,
      Enter
<1>5. RecordOfOwner'
  BY DEF IInv, Lifecycle, TypeOK, SupervisorState, File, RecordOfOwner, Owner, Active,
      WriteState, Enter
<1>6. Reserved'
  BY HostAssumption DEF IInv, Lifecycle, TypeOK, SupervisorState, File, Reserved,
      RecordOfOwner, NoFile, Owner, Active, WriteState, Enter
<1>7. NamedWhenReserved'
  BY HostAssumption DEF IInv, Lifecycle, TypeOK, SupervisorState, File,
      NamedWhenReserved, BeforeSpawn, NoFile, Launching, WriteState, Enter
<1>8. RemovesGone'
  BY DEF IInv, Lifecycle, TypeOK, SupervisorState, RemovesGone, WriteState, Enter
<1>9. FailedIsDone'
  BY HostAssumption DEF IInv, Lifecycle, TypeOK, SupervisorState, File, FailedIsDone,
      SupervisorAlive, NoFile, WriteState, Enter
<1>10. StopsKnow'
  BY DEF IInv, Lifecycle, TypeOK, SupervisorState, StopsKnow, WriteState, Enter
<1>11. QED
  BY <1>1, <1>2, <1>3, <1>4, <1>5, <1>6, <1>7, <1>8, <1>9, <1>10 DEF Lifecycle

\* A supervisor begins to stop.
LEMMA WatchKeeps ==
  ASSUME IInv, NEW r \in Start, Watch(r)
  PROVE  Lifecycle'
<1>1. LockHeld' /\ Reserved' /\ NamedWhenReserved' /\ BeforeStays'
  BY DEF IInv, Lifecycle, LockHeld, Reserved, NamedWhenReserved, BeforeStays, Launching,
      Watch
<1>2. BeforeSpawn'
  BY DEF IInv, Lifecycle, TypeOK, SupervisorState, BeforeSpawn, Launching, Watch, Enter
<1>3. KilledIsGone'
  BY DEF IInv, Lifecycle, TypeOK, SupervisorState, KilledIsGone, Watch, Enter
<1>4. ChildrenOwned'
  BY DEF IInv, Lifecycle, TypeOK, SupervisorState, ChildrenOwned, Active, Watch, Enter
<1>5. RecordOfOwner'
  BY DEF IInv, Lifecycle, TypeOK, SupervisorState, RecordOfOwner, Owner, Active, Watch,
      Enter
<1>6. RemovesGone'
  BY DEF IInv, Lifecycle, TypeOK, SupervisorState, RemovesGone, Watch, Enter
<1>7. FailedIsDone'
  BY HostAssumption DEF IInv, Lifecycle, TypeOK, SupervisorState, FailedIsDone,
      SupervisorAlive, NoFile, Watch, Enter
<1>8. StopsKnow'
  BY DEF IInv, Lifecycle, TypeOK, SupervisorState, StopsKnow, Watch, Enter
<1>9. QED
  BY <1>1, <1>2, <1>3, <1>4, <1>5, <1>6, <1>7, <1>8 DEF Lifecycle

\* The children are stopped.
LEMMA ReapKeeps ==
  ASSUME IInv, NEW r \in Start, Reap(r)
  PROVE  Lifecycle'
<1>1. LockHeld' /\ Reserved' /\ NamedWhenReserved' /\ BeforeStays'
  BY DEF IInv, Lifecycle, LockHeld, Reserved, NamedWhenReserved, BeforeStays, Launching,
      Reap
<1>2. BeforeSpawn'
  BY DEF IInv, Lifecycle, TypeOK, SupervisorState, BeforeSpawn, Launching, Reap, Enter
<1>3. KilledIsGone'
  BY DEF IInv, Lifecycle, TypeOK, SupervisorState, KilledIsGone, Reap, Enter
<1>4. ChildrenOwned'
  BY DEF IInv, Lifecycle, TypeOK, SupervisorState, ChildrenOwned, Active, Reap, Enter
<1>5. RecordOfOwner'
  BY DEF IInv, Lifecycle, TypeOK, SupervisorState, RecordOfOwner, Owner, Active, Reap,
      Enter
<1>6. RemovesGone'
  BY DEF IInv, Lifecycle, TypeOK, SupervisorState, RemovesGone, Reap, Enter
<1>7. FailedIsDone'
  BY HostAssumption DEF IInv, Lifecycle, TypeOK, SupervisorState, FailedIsDone,
      SupervisorAlive, NoFile, Reap, Enter
<1>8. StopsKnow'
  BY DEF IInv, Lifecycle, TypeOK, SupervisorState, StopsKnow, Reap, Enter
<1>9. QED
  BY <1>1, <1>2, <1>3, <1>4, <1>5, <1>6, <1>7, <1>8 DEF Lifecycle

\* A supervisor removes its record.
LEMMA UnlinkKeeps ==
  ASSUME IInv, NEW r \in Start, Unlink(r)
  PROVE  Lifecycle'
<1>1. LockHeld' /\ BeforeStays'
  BY DEF IInv, Lifecycle, LockHeld, BeforeStays, Launching, Unlink
<1>2. BeforeSpawn'
  BY DEF IInv, Lifecycle, TypeOK, SupervisorState, BeforeSpawn, Launching, Unlink, Enter
<1>3. KilledIsGone'
  BY DEF IInv, Lifecycle, TypeOK, SupervisorState, KilledIsGone, Unlink, Enter
<1>4. ChildrenOwned'
  BY DEF IInv, Lifecycle, TypeOK, SupervisorState, ChildrenOwned, Active, Unlink, Enter
<1>5. RecordOfOwner'
  BY DEF IInv, Lifecycle, TypeOK, SupervisorState, File, RecordOfOwner, Owner, Active,
      Unlink, Enter
<1>6. Reserved'
  BY HostAssumption DEF IInv, Lifecycle, TypeOK, SupervisorState, File, Reserved,
      RecordOfOwner, NoFile, Owner, Active, Unlink, Enter
<1>7. NamedWhenReserved'
  BY HostAssumption DEF IInv, Lifecycle, TypeOK, File, NamedWhenReserved, NoFile,
      Unlink, Enter
<1>8. RemovesGone'
  BY DEF IInv, Lifecycle, TypeOK, SupervisorState, RemovesGone, Unlink, Enter
<1>9. FailedIsDone'
  BY HostAssumption DEF IInv, Lifecycle, TypeOK, SupervisorState, File, FailedIsDone,
      SupervisorAlive, NoFile, Unlink, Enter
<1>10. StopsKnow'
  BY DEF IInv, Lifecycle, TypeOK, SupervisorState, StopsKnow, Unlink, Enter
<1>11. QED
  BY <1>1, <1>2, <1>3, <1>4, <1>5, <1>6, <1>7, <1>8, <1>9, <1>10 DEF Lifecycle

\* A supervisor exits.
LEMMA SupervisorExitsKeeps ==
  ASSUME IInv, NEW r \in Start, SupervisorExits(r)
  PROVE  Lifecycle'
<1>1. LockHeld' /\ Reserved' /\ NamedWhenReserved' /\ BeforeStays'
  BY DEF IInv, Lifecycle, LockHeld, Reserved, NamedWhenReserved, BeforeStays, Launching,
      SupervisorExits
<1>2. BeforeSpawn'
  BY DEF IInv, Lifecycle, TypeOK, SupervisorState, BeforeSpawn, Launching,
      SupervisorExits, Enter
<1>3. KilledIsGone'
  BY DEF IInv, Lifecycle, TypeOK, SupervisorState, KilledIsGone, SupervisorExits, Enter
<1>4. ChildrenOwned'
  BY DEF IInv, Lifecycle, TypeOK, SupervisorState, ChildrenOwned, Active,
      SupervisorExits, Enter
<1>5. RecordOfOwner'
  BY DEF IInv, Lifecycle, TypeOK, SupervisorState, RecordOfOwner, Owner, Active,
      SupervisorExits, Enter
<1>6. RemovesGone'
  BY DEF IInv, Lifecycle, TypeOK, SupervisorState, RemovesGone, SupervisorExits, Enter
<1>7. FailedIsDone'
  BY HostAssumption DEF IInv, Lifecycle, TypeOK, SupervisorState, FailedIsDone,
      SupervisorAlive, NoFile, SupervisorExits, Enter
<1>8. StopsKnow'
  BY DEF IInv, Lifecycle, TypeOK, SupervisorState, StopsKnow, SupervisorExits, Enter
<1>9. QED
  BY <1>1, <1>2, <1>3, <1>4, <1>5, <1>6, <1>7, <1>8 DEF Lifecycle

\* A supervisor is killed.
LEMMA SupervisorDiesKeeps ==
  ASSUME IInv, NEW r \in Start, SupervisorDies(r)
  PROVE  Lifecycle'
<1>1. LockHeld' /\ Reserved' /\ NamedWhenReserved' /\ BeforeStays'
  BY DEF IInv, Lifecycle, LockHeld, Reserved, NamedWhenReserved, BeforeStays, Launching,
      SupervisorDies
<1>2. BeforeSpawn'
  BY DEF IInv, Lifecycle, TypeOK, SupervisorState, BeforeSpawn, SupervisorAlive,
      Launching, SupervisorDies, Fault
<1>3. KilledIsGone'
  BY DEF IInv, Lifecycle, TypeOK, SupervisorState, KilledIsGone, SupervisorDies, Fault
<1>4. ChildrenOwned'
  BY DEF IInv, Lifecycle, TypeOK, SupervisorState, ChildrenOwned, SupervisorAlive,
      Active, SupervisorDies, Fault
<1>5. RecordOfOwner'
  BY DEF IInv, Lifecycle, TypeOK, SupervisorState, RecordOfOwner, Owner, Active,
      SupervisorDies, Fault
<1>6. RemovesGone'
  BY DEF IInv, Lifecycle, TypeOK, SupervisorState, RemovesGone, SupervisorDies, Fault
<1>7. FailedIsDone'
  BY HostAssumption DEF IInv, Lifecycle, TypeOK, SupervisorState, FailedIsDone,
      SupervisorAlive, NoFile, SupervisorDies, Fault
<1>8. StopsKnow'
  BY DEF IInv, Lifecycle, TypeOK, SupervisorState, StopsKnow, SupervisorDies, Fault
<1>9. QED
  BY <1>1, <1>2, <1>3, <1>4, <1>5, <1>6, <1>7, <1>8 DEF Lifecycle

\* A child exits.
LEMMA ChildExitsKeeps ==
  ASSUME IInv, NEW r \in Start, NEW c \in Component, ChildExits(r, c)
  PROVE  Lifecycle'
<1>1. /\ LockHeld' /\ BeforeSpawn' /\ KilledIsGone' /\ RecordOfOwner' /\ Reserved'
      /\ NamedWhenReserved' /\ RemovesGone' /\ FailedIsDone' /\ StopsKnow' /\ BeforeStays'
  BY DEF IInv, Lifecycle, LockHeld, BeforeSpawn, KilledIsGone, RecordOfOwner, Reserved,
      NamedWhenReserved, RemovesGone, FailedIsDone, StopsKnow, BeforeStays, Launching,
      Owner, Active, SupervisorAlive, NoFile, ChildExits
<1>2. ChildrenOwned'
  BY DEF IInv, Lifecycle, TypeOK, ChildrenOwned, Active, ChildExits
<1>3. QED
  BY <1>1, <1>2 DEF Lifecycle

\* A stop command looks for the runtime.
LEMMA FindSupervisorKeeps ==
  ASSUME IInv, NEW s \in Stop, FindSupervisor(s)
  PROVE  Lifecycle'
<1>1. Probe(TRUE) /\ file.phase # "starting" =>
         file.run \in Start /\ supervisor[file.run].pc \notin {"none", "gone"}
  BY DEF IInv, TypeOK, File, Probe, LiveState, SupervisorAlive
<1>2. \A q \in Start :
         /\ supervisor'[q].killed = supervisor[q].killed
         /\ \/ supervisor'[q].pc = supervisor[q].pc
            \/ supervisor[q].pc \in Starting /\ supervisor'[q].pc = "gone"
  <2>1. CASE supervisor' = supervisor
    BY <2>1
  <2>2. CASE file.run \in Start /\ supervisor' = Signalled(file.run)
    BY <2>2, SignalledEffect DEF IInv
  <2>3. QED
    BY <1>1, <2>1, <2>2 DEF FindSupervisor
<1>3. UNCHANGED <<lock, file, launcher, child, service>> /\ (blind => blind')
  BY DEF FindSupervisor, Probe
<1>4. StopsKnow'
  <2>1. stopper \in [Stop -> StopperState] /\ StopsKnow /\ stopper[s].pc = "new"
    BY DEF IInv, TypeOK, Lifecycle, FindSupervisor
  <2>2. CASE \E t \in {"not_running", "failed"} :
               stopper' = [stopper EXCEPT ![s].pc = "done", ![s].told = t]
    BY <1>2, <2>1, <2>2 DEF StopsKnow, StopperState, Starting
  <2>3. CASE /\ Probe(TRUE) /\ file.phase # "starting"
             /\ stopper' = [stopper EXCEPT ![s].pc = "wait", ![s].run = file.run]
    <3>1. /\ stopper'[s].run = file.run /\ stopper'[s].told = stopper[s].told
          /\ \A t \in Stop : t # s => stopper'[t] = stopper[t]
      BY <2>1, <2>3 DEF StopperState
    <3>2. file.run \in Start /\ supervisor'[file.run].pc # "none"
      BY <1>1, <1>2, <2>3 DEF Starting
    <3>3. stopper[s].told # "stopped"
      BY <2>1 DEF StopsKnow
    <3>4. ASSUME NEW t \in Stop, t # s
          PROVE  /\ stopper'[t].told = "stopped" => stopper'[t].pc = "done"
                 /\ stopper'[t].pc = "wait" \/ stopper'[t].told = "stopped" =>
                        /\ stopper'[t].run \in Start
                        /\ supervisor'[stopper'[t].run].pc # "none"
                 /\ stopper'[t].told = "stopped" => supervisor'[stopper'[t].run].pc = "gone"
      BY <1>2, <2>1, <3>1, <3>4 DEF StopsKnow, Starting
    <3>5. QED
      BY <3>1, <3>2, <3>3, <3>4 DEF StopsKnow
  <2>4. QED
    BY <2>2, <2>3 DEF FindSupervisor, FinishStop
<1>5. QED
  BY <1>2, <1>3, <1>4, SignalMoves, HostAssumption DEF Lifecycle

\* A stop command saw the runtime go.
LEMMA StopSucceedsKeeps ==
  ASSUME IInv, NEW s \in Stop, StopSucceeds(s)
  PROVE  Lifecycle'
<1>1. /\ LockHeld' /\ BeforeSpawn' /\ KilledIsGone' /\ ChildrenOwned' /\ RecordOfOwner'
      /\ Reserved' /\ NamedWhenReserved' /\ RemovesGone' /\ FailedIsDone' /\ BeforeStays'
  BY DEF IInv, Lifecycle, LockHeld, BeforeSpawn, KilledIsGone, ChildrenOwned,
      RecordOfOwner, Reserved, NamedWhenReserved, RemovesGone, FailedIsDone,
      BeforeStays, Launching, Active, Owner, SupervisorAlive, NoFile, StopSucceeds
<1>2. StopsKnow'
  BY DEF IInv, Lifecycle, TypeOK, StopperState, StopsKnow, StopSucceeds, FinishStop
<1>3. QED
  BY <1>1, <1>2 DEF Lifecycle

\* A stop command gives up.
LEMMA StopTimesOutKeeps ==
  ASSUME IInv, NEW s \in Stop, StopTimesOut(s)
  PROVE  Lifecycle'
<1>1. /\ LockHeld' /\ BeforeSpawn' /\ KilledIsGone' /\ ChildrenOwned' /\ RecordOfOwner'
      /\ Reserved' /\ NamedWhenReserved' /\ RemovesGone' /\ FailedIsDone' /\ BeforeStays'
  BY DEF IInv, Lifecycle, LockHeld, BeforeSpawn, KilledIsGone, ChildrenOwned,
      RecordOfOwner, Reserved, NamedWhenReserved, RemovesGone, FailedIsDone,
      BeforeStays, Launching, Active, Owner, SupervisorAlive, NoFile, StopTimesOut
<1>2. StopsKnow'
  BY DEF IInv, Lifecycle, TypeOK, StopperState, StopsKnow, StopTimesOut, FinishStop
<1>3. QED
  BY <1>1, <1>2 DEF Lifecycle

\* Every step keeps the invariant.
LEMMA NextInv == IInv /\ [Next]_vars => IInv'
<1> SUFFICES ASSUME IInv, [Next]_vars PROVE IInv'
  OBVIOUS
<1>1. TypeOK'
  BY TypesKept DEF IInv
<1>2. ASSUME NEW l \in Start, LauncherStep(l) PROVE Lifecycle'
  BY <1>2, LockKeeps, CheckActiveKeeps, InitializeFailsKeeps, PreflightFailsKeeps,
     PrepareKeeps, RollBackKeeps, WriteReservationKeeps, SpawnSupervisorKeeps, SpawnFailsKeeps, SeeRunningKeeps,
     SeeExitKeeps, StartTimesOutKeeps, KillSupervisorKeeps, RemoveStateKeeps
     DEF LauncherStep
<1>3. ASSUME NEW r \in Start, SupervisorStep(r) PROVE Lifecycle'
  BY <1>3, ClaimReservationKeeps, InstallHandlersKeeps, SpawnComponentKeeps,
     ListenersReadyKeeps, StartupFailsKeeps, WriteStateKeeps, WatchKeeps, ReapKeeps,
     UnlinkKeeps, SupervisorExitsKeeps
     DEF SupervisorStep
<1>4. ASSUME NEW r \in Start, Environment(r) PROVE Lifecycle'
  BY <1>4, ForwardSignalKeeps, LauncherDiesKeeps, SupervisorDiesKeeps, ChildExitsKeeps
     DEF Environment
<1>5. ASSUME NEW s \in Stop, StopperStep(s) PROVE Lifecycle'
  BY <1>5, FindSupervisorKeeps, StopSucceedsKeeps, StopTimesOutKeeps DEF StopperStep
<1>6. CASE UNCHANGED vars
  <2>1. LockHeld' /\ BeforeSpawn' /\ KilledIsGone' /\ ChildrenOwned' /\ RecordOfOwner'
    BY <1>6 DEF vars, IInv, Lifecycle, LockHeld, BeforeSpawn, KilledIsGone, ChildrenOwned,
       RecordOfOwner, Owner
  <2>2. Reserved' /\ NamedWhenReserved' /\ RemovesGone' /\ FailedIsDone'
    BY <1>6 DEF vars, IInv, Lifecycle, Reserved, NamedWhenReserved, RemovesGone,
       FailedIsDone, SupervisorAlive
  <2>3. StopsKnow' /\ BeforeStays'
    BY <1>6 DEF vars, IInv, Lifecycle, StopsKnow, BeforeStays
  <2>4. QED
    BY <1>1, <2>1, <2>2, <2>3 DEF IInv, Lifecycle
<1>7. QED
  BY <1>1, <1>2, <1>3, <1>4, <1>5, <1>6 DEF Next, IInv

\* The invariant holds of every behaviour.
THEOREM DeploymentInvariance == Spec => []IInv
<1>1. QED
  BY InitInv, NextInv, PTL DEF Spec

\* Commands, supervisors and the state file keep their shape, whoever dies when.
THEOREM DeploymentTypes == Spec => []TypeOK
<1>1. IInv => TypeOK
  BY DEF IInv
<1>2. QED
  BY <1>1, DeploymentInvariance, PTL

--------------------------------------------------------------------------------
(* One runtime *)

\* The invariant allows one supervisor past its claim, and children of it only.
LEMMA OneOwner == IInv => OneRuntime
<1> SUFFICES ASSUME IInv, ~blind, \A r \in Start : ~supervisor[r].killed,
                    NEW q \in Start, NEW r \in Start,
                    Owner(q) \/ child[q] # {}, Owner(r) \/ child[r] # {}
             PROVE  q = r
  BY DEF OneRuntime
<1>1. \A k \in Start : child[k] # {} => Owner(k)
  BY DEF IInv, Lifecycle, ChildrenOwned, Owner
<1>2. Owner(q) /\ Owner(r)
  BY <1>1
<1>3. QED
  BY <1>2 DEF IInv, Lifecycle, RecordOfOwner

\* A command changes the record of a live runtime only if it cannot identify its process.
LEMMA LaunchersSpareRecord ==
  ASSUME IInv, NEW l \in Start, LauncherStep(l), ~blind, ~blind', LiveState,
         file.phase \in {"supervising", "running"}
  PROVE  file' = file
<1>1. launcher[l].pc \notin {"prepare", "rollback", "reserve", "spawn"}
  BY DEF IInv, Lifecycle, Reserved, LiveState, NoFile
<1>2. CASE CheckActive(l)
  BY <1>2 DEF CheckActive, Probe
<1>3. CASE RemoveState(l)
  <2>1. supervisor[l].pc = "gone"
    BY <1>3 DEF RemoveState, IInv, Lifecycle, RemovesGone
  <2>2. file.run # l
    BY <2>1 DEF LiveState, SupervisorAlive
  <2>3. QED
    BY <1>3, <2>2 DEF RemoveState
<1>4. CASE Lock(l) \/ SeeRunning(l) \/ SeeExit(l) \/ StartTimesOut(l) \/ KillSupervisor(l)
  BY <1>4 DEF Lock, SeeRunning, SeeExit, StartTimesOut, KillSupervisor
<1>5. QED
  BY <1>1, <1>2, <1>3, <1>4
     DEF LauncherStep, InitializeFails, PreflightFails, Prepare, RollBack, WriteReservation,
         SpawnSupervisor,
         SpawnFails

\* A supervisor that changes the record of a live runtime is that of the runtime,
\* and moves on as it does.
LEMMA SupervisorsSpareRecord ==
  ASSUME IInv, NEW r \in Start, SupervisorStep(r), ~blind, file' # file,
         file.phase \in {"supervising", "running"}
  PROVE  file.run = r /\ supervisor'[r] # supervisor[r]
<1>1. supervisor \in [Start -> SupervisorState]
  BY DEF IInv, TypeOK
<1>2. CASE WriteState(r)
  <2>1. file.run = r
    BY <1>2 DEF WriteState, IInv, Lifecycle, RecordOfOwner, Owner, Active
  <2>2. supervisor'[r].pc # supervisor[r].pc
    BY <1>1, <1>2 DEF WriteState, Enter, SupervisorState
  <2>3. QED
    BY <2>1, <2>2
<1>3. CASE Unlink(r)
  <2>1. file.run = r
    BY <1>3 DEF Unlink
  <2>2. supervisor'[r].pc # supervisor[r].pc
    BY <1>1, <1>3 DEF Unlink, Enter, SupervisorState
  <2>3. QED
    BY <2>1, <2>2
<1>4. CASE ClaimReservation(r)
  BY <1>4 DEF ClaimReservation
<1>5. QED
  BY <1>2, <1>3, <1>4
     DEF SupervisorStep, InstallHandlers, SpawnComponent, ListenersReady, StartupFails,
         Watch, Reap, SupervisorExits

\* Whoever changes the record of a live runtime is its supervisor.
LEMMA RecordSteps == IInv /\ [Next]_vars => LiveRecordKept
<1> SUFFICES ASSUME IInv, [Next]_vars, ~blind', SupervisorAlive(file.run), file' # file,
                    file.phase \in {"supervising", "running"}
             PROVE  supervisor'[file.run] # supervisor[file.run]
  BY DEF LiveRecordKept
<1>1. LiveState
  BY DEF LiveState, NoFile
<1>2. ~blind
  <2>1. blind => blind'
    BY ZenonT(30) DEF Next, LauncherStep, SupervisorStep, Environment, StopperStep, vars,
       Lock, CheckActive, InitializeFails, PreflightFails, Prepare, RollBack,
       WriteReservation,
       SpawnSupervisor, SpawnFails, SeeRunning, SeeExit, StartTimesOut, KillSupervisor,
       RemoveState, ClaimReservation, InstallHandlers, SpawnComponent, ListenersReady,
       StartupFails, WriteState, Watch, Reap, Unlink, SupervisorExits, ForwardSignal,
       LauncherDies, SupervisorDies, ChildExits, FindSupervisor, StopSucceeds,
       StopTimesOut, Probe
  <2>2. QED
    BY <2>1
<1>3. CASE \E l \in Start : LauncherStep(l)
  BY <1>1, <1>2, <1>3, LaunchersSpareRecord
<1>4. CASE \E r \in Start : SupervisorStep(r)
  BY <1>2, <1>4, SupervisorsSpareRecord
<1>5. CASE \E r \in Start : Environment(r)
  BY <1>5 DEF Environment, ForwardSignal, LauncherDies, SupervisorDies, ChildExits
<1>6. CASE \E s \in Stop : StopperStep(s)
  BY <1>6 DEF StopperStep, FindSupervisor, StopSucceeds, StopTimesOut
<1>7. CASE UNCHANGED vars
  BY <1>7 DEF vars
<1>8. QED
  BY <1>3, <1>4, <1>5, <1>6, <1>7 DEF Next

\* There is one runtime, and its record stays until its own supervisor changes it.
THEOREM OneRuntimeStays == Spec => RuntimeStaysOne
<1>1. QED
  BY OneOwner, RecordSteps, DeploymentInvariance, PTL DEF Spec, RuntimeStaysOne

--------------------------------------------------------------------------------
(* What is over is over *)

\* What a start or a stop reports is over is over, and what ran before still runs.
THEOREM NothingIsLeft == Spec => []NothingLeftBehind
<1>1. IInv => NothingLeftBehind
  <2> SUFFICES ASSUME IInv PROVE NothingLeftBehind
    OBVIOUS
  <2>1. FailedStartIsOver
    BY DEF FailedStartIsOver, IInv, Lifecycle, FailedIsDone
  <2>2. StoppedIsOver
    BY DEF StoppedIsOver, IInv, Lifecycle, StopsKnow, ChildrenOwned, Active
  <2>3. ServicesKept
    BY DEF ServicesKept, IInv, Lifecycle, BeforeStays
  <2>4. QED
    BY <2>1, <2>2, <2>3 DEF NothingLeftBehind
<1>2. QED
  BY <1>1, DeploymentInvariance, PTL

================================================================================
