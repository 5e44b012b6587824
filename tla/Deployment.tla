------------------------------- MODULE Deployment -------------------------------
(******************************************************************************)
(* The deployment lifecycle of one host. A start command takes the lifecycle  *)
(* lock, prepares the infrastructure, reserves the state file for a fresh run *)
(* and launches a supervisor, which claims the reservation, starts the        *)
(* application children, records that it runs and stops them again. Stop      *)
(* commands find the supervisor in the state file. The supervisor writes and  *)
(* removes the file without the lock.                                         *)
(*                                                                            *)
(* A command is a process of its own: it runs once. A run is named by the     *)
(* start command that reserves it, as its fresh run id does.                  *)
(******************************************************************************)
EXTENDS Configuration, FiniteSets

CONSTANTS
    Start,        \* start commands
    Attached,     \* the start commands that stay in the foreground
    Stop,         \* stop commands
    Env,          \* the environment each start command loads
    MaxFaults     \* bound: killed processes and failed identity probes in all

\* What the constants must satisfy.
ASSUME HostAssumption ==
    /\ Start \intersect Stop = {} /\ Attached \subseteq Start
    /\ "none" \notin Start \union Stop
    /\ Env \in [Start -> HostEnv]
    /\ MaxFaults \in Nat

VARIABLES
    lock,         \* who holds lifecycle.lock
    file,         \* runtime.json
    launcher,     \* the start commands
    supervisor,   \* the supervisor of each run
    child,        \* the children of each run that are alive
    stopper,      \* the stop commands
    service,      \* the Compose services that are running
    faults,       \* faults so far
    blind         \* history: an identity probe failed for a live process

vars == <<lock, file, launcher, supervisor, child, stopper, service, faults, blind>>

--------------------------------------------------------------------------------
(* Process and file states *)

NoFile == [run |-> "none", phase |-> "none"]

File == {NoFile} \union
        [run : Start, phase : {"starting", "supervising", "running"}]

Launching == {"check", "prepare", "rollback", "reserve", "spawn"}   \* under the lock
Watching  == {"wait", "terminating", "remove", "foreground"}

LauncherState ==
    [pc : {"new", "lock", "done", "dead"} \union Launching \union Watching,
     before   : SUBSET Service,     \* what ran before it prepared
     told     : {"nothing", "started", "already", "failed"}]

Starting == {"spawned", "claimed"}            \* no signal handler yet
Active   == {"launching", "ready", "running"}
Cleaning == {"reap", "unlink", "closing"}

SupervisorState ==
    [pc : {"none", "gone"} \union Starting \union Active \union Cleaning,
     stopping : BOOLEAN,      \* a signal asked it to stop
     killed   : BOOLEAN]      \* it died without cleaning up

StopperState ==
    [pc : {"new", "wait", "done"}, run : Start \union {"none"},
     told : {"nothing", "stopped", "not_running", "failed"}]

Init ==
    /\ lock = "none" /\ file = NoFile
    /\ launcher = [l \in Start |-> [pc |-> "new", before |-> {}, told |-> "nothing"]]
    /\ supervisor = [r \in Start |-> [pc |-> "none", stopping |-> FALSE,
                                      killed |-> FALSE]]
    /\ child = [r \in Start |-> {}]
    /\ stopper = [s \in Stop |-> [pc |-> "new", run |-> "none", told |-> "nothing"]]
    /\ service = {}
    /\ faults = 0 /\ blind = FALSE

LauncherAlive(l)   == launcher[l].pc \notin {"new", "done", "dead"}
SupervisorAlive(r) == supervisor[r].pc \notin {"none", "gone"}

\* The recorded process exists and is the one recorded.
LiveState ==
    /\ file # NoFile
    /\ IF file.phase = "starting" THEN LauncherAlive(file.run)
                                  ELSE SupervisorAlive(file.run)

Fault == faults < MaxFaults /\ faults' = faults + 1

\* The probe answers no when the process list cannot be read in time.
Probe(answer) ==
    \/ answer = LiveState /\ UNCHANGED <<faults, blind>>
    \/ answer = FALSE /\ LiveState /\ Fault /\ blind' = TRUE

--------------------------------------------------------------------------------
(* The start command *)

Lock(l) ==
    /\ launcher[l].pc = "new" /\ lock = "none"
    /\ lock' = l
    /\ launcher' = [launcher EXCEPT ![l].pc = "check"]
    /\ UNCHANGED <<file, supervisor, child, stopper, service, faults, blind>>

\* The command has told its result. The lock is left at the end of its block.
Finish(l, told) ==
    launcher' = [launcher EXCEPT ![l].pc = "done", ![l].told = told]

\* Somebody is starting or running already, or the file is left over.
CheckActive(l) ==
    /\ launcher[l].pc = "check"
    /\ \/ /\ Probe(TRUE)
          /\ Finish(l, "already") /\ lock' = "none"
          /\ UNCHANGED file
       \/ /\ Probe(FALSE)
          /\ file' = NoFile
          /\ launcher' = [launcher EXCEPT ![l].pc = "prepare", ![l].before = service]
          /\ UNCHANGED lock
    /\ UNCHANGED <<supervisor, child, stopper, service>>

\* Without a managed configuration the first start generates one: it fails when what
\* is missing cannot be asked for, or is not answered.
InitializeFails(l) ==
    /\ launcher[l].pc = "new"
    /\ Finish(l, "failed")
    /\ UNCHANGED <<lock, file, supervisor, child, stopper, service, faults, blind>>

\* A static check refuses the environment, or cannot be run in time, before anything
\* was touched.
PreflightFails(l) ==
    /\ launcher[l].pc = "prepare"
    /\ Finish(l, "failed") /\ lock' = "none"
    /\ UNCHANGED <<file, supervisor, child, stopper, service, faults, blind>>

\* Services come up, the migrations run and the bucket is there; any of it may fail.
Prepare(l) ==
    /\ launcher[l].pc = "prepare" /\ ~Refused(Env[l])
    /\ \/ /\ service' = service \union Services(Env[l])
          /\ launcher' = [launcher EXCEPT ![l].pc = "reserve"]
       \/ \E started \in SUBSET Services(Env[l]) :
              /\ service' = service \union started
              /\ launcher' = [launcher EXCEPT ![l].pc = "rollback"]
    /\ UNCHANGED <<lock, file, supervisor, child, stopper, faults, blind>>

\* Only what this start brought up is stopped again; stopping it may fail as well.
RollBack(l) ==
    /\ launcher[l].pc = "rollback"
    /\ service' \in {service, service \intersect launcher[l].before}
    /\ Finish(l, "failed") /\ lock' = "none"
    /\ UNCHANGED <<file, supervisor, child, stopper, faults, blind>>

WriteReservation(l) ==
    /\ launcher[l].pc = "reserve"
    /\ file' = [run |-> l, phase |-> "starting"]
    /\ launcher' = [launcher EXCEPT ![l].pc = "spawn"]
    /\ UNCHANGED <<lock, supervisor, child, stopper, service, faults, blind>>

SpawnSupervisor(l) ==
    /\ launcher[l].pc = "spawn"
    /\ supervisor' = [supervisor EXCEPT ![l].pc = "spawned"]
    /\ launcher' = [launcher EXCEPT ![l].pc = "wait"]
    /\ lock' = "none"
    /\ UNCHANGED <<file, child, stopper, service, faults, blind>>

SpawnFails(l) ==
    /\ launcher[l].pc = "spawn"
    /\ file' = NoFile
    /\ Finish(l, "failed") /\ lock' = "none"
    /\ UNCHANGED <<supervisor, child, stopper, service, faults, blind>>

\* The state file is polled without the lock.
SeeRunning(l) ==
    /\ launcher[l].pc = "wait"
    /\ file = [run |-> l, phase |-> "running"] /\ LiveState
    /\ IF l \in Attached
       THEN launcher' = [launcher EXCEPT ![l].pc = "foreground", ![l].told = "started"]
       ELSE Finish(l, "started")
    /\ UNCHANGED <<lock, file, supervisor, child, stopper, service, faults, blind>>

SeeExit(l) ==
    /\ supervisor[l].pc = "gone"
    /\ \/ /\ launcher[l].pc \in {"wait", "terminating"}
          /\ launcher' = [launcher EXCEPT ![l].pc = "remove"]
       \/ launcher[l].pc = "foreground" /\ Finish(l, "started")
    /\ UNCHANGED <<lock, file, supervisor, child, stopper, service, faults, blind>>

\* Without handlers a signal ends the process; afterwards it asks for a stop.
Signalled(r) ==
    CASE supervisor[r].pc \in Starting ->
             [supervisor EXCEPT ![r].pc = "gone"]
      [] supervisor[r].pc \in {"none", "gone"} -> supervisor
      [] OTHER -> [supervisor EXCEPT ![r].stopping = TRUE]

StartTimesOut(l) ==
    /\ launcher[l].pc = "wait"
    /\ supervisor' = Signalled(l)
    /\ launcher' = [launcher EXCEPT ![l].pc = "terminating"]
    /\ UNCHANGED <<lock, file, child, stopper, service, faults, blind>>

\* Variant of KillSupervisor that gives up without killing it.
KillNobody(l) ==
    /\ launcher[l].pc = "terminating" /\ SupervisorAlive(l)
    /\ launcher' = [launcher EXCEPT ![l].pc = "remove"]
    /\ UNCHANGED <<lock, file, supervisor, child, stopper, service, faults, blind>>

\* It waits five seconds; the supervisor may need ten to stop its children.
KillSupervisor(l) ==
    /\ launcher[l].pc = "terminating" /\ SupervisorAlive(l)
    /\ supervisor' = [supervisor EXCEPT ![l].pc = "gone", ![l].killed = TRUE]
    /\ launcher' = [launcher EXCEPT ![l].pc = "remove"]
    /\ UNCHANGED <<lock, file, child, stopper, service, faults, blind>>

RemoveState(l) ==
    /\ launcher[l].pc = "remove" /\ lock = "none"
    /\ file' = IF file.run = l THEN NoFile ELSE file
    /\ Finish(l, "failed")
    /\ UNCHANGED <<lock, supervisor, child, stopper, service, faults, blind>>

\* A start in the foreground passes the signals it gets on to its supervisor.
ForwardSignal(l) ==
    /\ l \in Attached /\ launcher[l].pc \in Watching
    /\ SupervisorAlive(l) /\ ~supervisor[l].stopping
    /\ supervisor' = Signalled(l)
    /\ UNCHANGED <<lock, file, launcher, child, stopper, service, faults, blind>>

\* The command is interrupted or killed; the system releases its lock.
LauncherDies(l) ==
    /\ LauncherAlive(l)
    /\ Fault
    /\ launcher' = [launcher EXCEPT ![l].pc = "dead"]
    /\ lock' = IF lock = l THEN "none" ELSE lock
    /\ UNCHANGED <<file, supervisor, child, stopper, service, blind>>

--------------------------------------------------------------------------------
(* The supervisor *)

Enter(r, pc) == supervisor' = [supervisor EXCEPT ![r].pc = pc]

\* Variant of ClaimReservation that starts without a reservation.
ClaimNothing(r) ==
    /\ supervisor[r].pc = "spawned" /\ lock = "none"
    /\ file' = [run |-> r, phase |-> "supervising"]
    /\ Enter(r, "claimed")
    /\ UNCHANGED <<lock, launcher, child, stopper, service, faults, blind>>

\* Only a reservation of this run, unclaimed, whose launcher still waits.
ClaimReservation(r) ==
    /\ supervisor[r].pc = "spawned" /\ lock = "none"
    /\ IF file = [run |-> r, phase |-> "starting"] /\ LauncherAlive(r)
       THEN file' = [file EXCEPT !.phase = "supervising"] /\ Enter(r, "claimed")
       ELSE UNCHANGED file /\ Enter(r, "gone")
    /\ UNCHANGED <<lock, launcher, child, stopper, service, faults, blind>>

InstallHandlers(r) ==
    /\ supervisor[r].pc = "claimed"
    /\ Enter(r, "launching")
    /\ UNCHANGED <<lock, file, launcher, child, stopper, service, faults, blind>>

\* The children that were started may have exited since.
SpawnComponent(r, c) ==
    /\ supervisor[r].pc = "launching" /\ c \in Components(Env[r]) \ child[r]
    /\ child' = [child EXCEPT ![r] = @ \union {c}]
    /\ UNCHANGED <<lock, file, launcher, supervisor, stopper, service, faults, blind>>

\* Every child lives and every listener answers.
ListenersReady(r) ==
    /\ supervisor[r].pc = "launching"
    /\ child[r] = Components(Env[r]) /\ ~supervisor[r].stopping
    /\ \A c \in child[r] : Opens(Env[r], c)
    /\ Enter(r, "ready")
    /\ UNCHANGED <<lock, file, launcher, child, stopper, service, faults, blind>>

\* A launch that fails, a child that exits, a stop or the listener timeout.
StartupFails(r) ==
    /\ supervisor[r].pc = "launching"
    /\ Enter(r, "reap")
    /\ UNCHANGED <<lock, file, launcher, child, stopper, service, faults, blind>>

\* Written without the lock and whatever the file says by now.
WriteState(r) ==
    /\ supervisor[r].pc = "ready"
    /\ file' = [run |-> r, phase |-> "running"]
    /\ Enter(r, "running")
    /\ UNCHANGED <<lock, launcher, child, stopper, service, faults, blind>>

\* Variant of Watch that waits for a stop only.
WatchStopOnly(r) ==
    /\ supervisor[r].pc = "running" /\ supervisor[r].stopping
    /\ Enter(r, "reap")
    /\ UNCHANGED <<lock, file, launcher, child, stopper, service, faults, blind>>

\* A stop was asked for, or a child has exited.
Watch(r) ==
    /\ supervisor[r].pc = "running"
    /\ supervisor[r].stopping \/ child[r] # Components(Env[r])
    /\ Enter(r, "reap")
    /\ UNCHANGED <<lock, file, launcher, child, stopper, service, faults, blind>>

\* The children had ten seconds to go; those left are killed with their groups.
Reap(r) ==
    /\ supervisor[r].pc = "reap"
    /\ child' = [child EXCEPT ![r] = {}]
    /\ Enter(r, "unlink")
    /\ UNCHANGED <<lock, file, launcher, stopper, service, faults, blind>>

Unlink(r) ==
    /\ supervisor[r].pc = "unlink"
    /\ file' = IF file.run = r THEN NoFile ELSE file
    /\ Enter(r, "closing")
    /\ UNCHANGED <<lock, launcher, child, stopper, service, faults, blind>>

SupervisorExits(r) ==
    /\ supervisor[r].pc = "closing"
    /\ Enter(r, "gone")
    /\ UNCHANGED <<lock, file, launcher, child, stopper, service, faults, blind>>

\* Killed from outside: its children live in sessions of their own and stay.
SupervisorDies(r) ==
    /\ SupervisorAlive(r)
    /\ Fault
    /\ supervisor' = [supervisor EXCEPT ![r].pc = "gone", ![r].killed = TRUE]
    /\ UNCHANGED <<lock, file, launcher, child, stopper, service, blind>>

\* A child exits by itself or on the signal of its supervisor.
ChildExits(r, c) ==
    /\ c \in child[r]
    /\ child' = [child EXCEPT ![r] = @ \ {c}]
    /\ UNCHANGED <<lock, file, launcher, supervisor, stopper, service, faults, blind>>

--------------------------------------------------------------------------------
(* The stop command *)

FinishStop(s, told) ==
    stopper' = [stopper EXCEPT ![s].pc = "done", ![s].told = told]

\* Asks again, while a reservation is not claimed yet, for five seconds.
FindSupervisor(s) ==
    /\ stopper[s].pc = "new" /\ lock = "none"
    /\ \/ /\ Probe(FALSE)
          /\ FinishStop(s, "not_running")
          /\ UNCHANGED supervisor
       \/ /\ Probe(TRUE) /\ file.phase # "starting"
          /\ supervisor' = Signalled(file.run)
          /\ stopper' = [stopper EXCEPT ![s].pc = "wait", ![s].run = file.run]
       \/ /\ Probe(TRUE) /\ file.phase = "starting"
          /\ FinishStop(s, "failed")
          /\ UNCHANGED supervisor
    /\ UNCHANGED <<lock, file, launcher, child, service>>

StopSucceeds(s) ==
    /\ stopper[s].pc = "wait" /\ ~SupervisorAlive(stopper[s].run)
    /\ FinishStop(s, "stopped")
    /\ UNCHANGED <<lock, file, launcher, supervisor, child, service, faults, blind>>

StopTimesOut(s) ==
    /\ stopper[s].pc = "wait" /\ SupervisorAlive(stopper[s].run)
    /\ FinishStop(s, "failed")
    /\ UNCHANGED <<lock, file, launcher, supervisor, child, service, faults, blind>>

--------------------------------------------------------------------------------

LauncherStep(l) ==
    \/ Lock(l) \/ CheckActive(l) \/ InitializeFails(l) \/ PreflightFails(l)
    \/ Prepare(l) \/ RollBack(l)
    \/ WriteReservation(l) \/ SpawnSupervisor(l) \/ SpawnFails(l)
    \/ SeeRunning(l) \/ SeeExit(l) \/ StartTimesOut(l) \/ KillSupervisor(l)
    \/ RemoveState(l)

SupervisorStep(r) ==
    \/ ClaimReservation(r) \/ InstallHandlers(r)
    \/ \E c \in Component : SpawnComponent(r, c)
    \/ ListenersReady(r) \/ StartupFails(r) \/ WriteState(r) \/ Watch(r)
    \/ Reap(r) \/ Unlink(r) \/ SupervisorExits(r)

StopperStep(s) == FindSupervisor(s) \/ StopSucceeds(s) \/ StopTimesOut(s)

Environment(r) ==
    \/ ForwardSignal(r) \/ LauncherDies(r) \/ SupervisorDies(r)
    \/ \E c \in Component : ChildExits(r, c)

Next ==
    \/ \E r \in Start : LauncherStep(r) \/ SupervisorStep(r) \/ Environment(r)
    \/ \E s \in Stop : StopperStep(s)

Spec == Init /\ [][Next]_vars

\* Every process runs on: its loops are bounded by its time budgets.
FairSpec ==
    /\ Spec
    /\ \A r \in Start : WF_vars(LauncherStep(r)) /\ WF_vars(SupervisorStep(r))

--------------------------------------------------------------------------------
(* Properties *)

TypeOK ==
    /\ lock \in Start \union {"none"}
    /\ file \in File
    /\ launcher \in [Start -> LauncherState]
    /\ supervisor \in [Start -> SupervisorState]
    /\ child \in [Start -> SUBSET Component]
    /\ stopper \in [Stop -> StopperState]
    /\ service \in SUBSET Service
    /\ faults \in 0..MaxFaults /\ blind \in BOOLEAN

Owner(r) == supervisor[r].pc \in Active \union {"claimed", "reap", "unlink"}

\* At most one supervisor is past its claim, and nobody else has children, unless a
\* supervisor was killed or a live process could not be identified: the reservation and
\* the run id keep two runtimes apart (deployment.py 645-700).
OneRuntime ==
    blind \/ (\E r \in Start : supervisor[r].killed)
    \/ \A q, r \in Start :
           (Owner(q) \/ child[q] # {}) /\ (Owner(r) \/ child[r] # {}) => q = r

\* A start that reports a failure leaves no supervisor of its run behind, and no state
\* that says so: nothing starts after the operator was told it did not
\* (deployment.py 792-807).
FailedStartIsOver ==
    \A l \in Start : launcher[l].told = "failed" =>
        ~SupervisorAlive(l) /\ file.run # l

\* When stop says so, the runtime is gone with all of its children, unless its
\* supervisor was killed meanwhile (deployment.py 1180-1205).
StoppedIsOver ==
    \A s \in Stop : stopper[s].told = "stopped" =>
        \/ supervisor[stopper[s].run].killed
        \/ child[stopper[s].run] = {}

\* The record of a live runtime is replaced or removed by its supervisor alone, even
\* though the supervisors write it without the lock (deployment.py 849-851 and 1171-1173),
\* as long as its process can be identified.
LiveRecordKept ==
    ~blind' /\ file.phase \in {"supervising", "running"} /\ SupervisorAlive(file.run)
        /\ file' # file
    => supervisor'[file.run] # supervisor[file.run]

\* What ran before a failing start still runs after it: only services this start
\* brought up are stopped again (deployment.py 534-573).
ServicesKept ==
    \A l \in Start : launcher[l].told = "failed" => launcher[l].before \subseteq service

\* One child that exits takes the whole runtime down (deployment.py 1148-1170), unless
\* the supervisor that would notice is killed.
ExitStopsSiblings ==
    \A r \in Start :
        supervisor[r].pc = "running" /\ child[r] # Components(Env[r]) ~>
            child[r] = {} \/ supervisor[r].killed

\* There is one runtime, and its record stays until its own supervisor changes it
\* (deployment.py 645-700, 849-851, 1171-1173).
RuntimeStaysOne == [][OneRuntime' /\ LiveRecordKept]_vars

\* What a start or a stop reports is over is over, and what ran before still runs
\* (deployment.py 534-573, 792-807, 1180-1205).
NothingLeftBehind == FailedStartIsOver /\ StoppedIsOver /\ ServicesKept

================================================================================
