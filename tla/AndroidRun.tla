----------------------------- MODULE AndroidRun -----------------------------
(***************************************************************************)
(* Starting and stopping on Android.  The app's isolate (updateStatus()    *)
(* and the update tasks), the run state that the app, the quick settings   *)
(* tile and the VPN plugin share in one process, the bound VpnService and  *)
(* the device in the core (TunHandler has the inside of that).             *)
(*                                                                         *)
(* Every Kotlin handler runs on the main thread, where the reentrant       *)
(* runLock never waits: what is interleaved are the steps between.         *)
(***************************************************************************)
EXTENDS Naturals, FiniteSets

CONSTANTS
  Ops,            \* calls of updateStatus() that may be under way at once
  MaxPresses      \* presses of any button, opening and leaving the app

ASSUME AndroidRunAssumption == IsFiniteSet(Ops) /\ Ops # {} /\ MaxPresses \in Nat

VARIABLES
  \* the app's isolate
  at, kind,       \* per call: its step, "start" or "stop"
  startTime,      \* globalState.startTime # null
  timer,          \* globalState.timer: "null", "active" or "fired"
  timers,         \* active timers, those no longer referred to included
  executing,      \* runs of executorUpdateTask() under way
  \* Kotlin
  runState, sync, \* the shared state; a status under way to it
  permitted, asking,       \* VPN permission; its dialog is shown
  bound, binding, \* flClashService # null; bindService() was called
  engine,         \* the service engine: "none", "boot" (quick start) or "up"
  \* the core
  configured, listening, tun,
  \* the process
  app,            \* the activity and its isolate exist
  presses,
  crossed         \* history: calls overlapped, or one failed

dart    == << at, kind, startTime, timer, timers, executing >>
kotlin  == << runState, sync, permitted, asking, bound, binding, engine >>
core    == << configured, listening, tun >>
process == << app, presses, crossed >>
vars    == << dart, kotlin, core, process >>

TypeOK ==
  /\ at \in [Ops -> {"none", "config", "listen", "vpn", "tasks"}]
  /\ kind \in [Ops -> {"start", "stop"}]
  /\ startTime \in BOOLEAN /\ timer \in {"null", "active", "fired"}
  /\ timers \in Nat /\ executing \in Nat
  /\ runState \in {"STOP", "PENDING", "START"} /\ sync \in {"none", "running", "stopped"}
  /\ permitted \in BOOLEAN /\ asking \in BOOLEAN /\ bound \in BOOLEAN /\ binding \in BOOLEAN
  /\ engine \in {"none", "boot", "up"}
  /\ configured \in BOOLEAN /\ listening \in BOOLEAN /\ tun \in BOOLEAN
  /\ app \in BOOLEAN /\ crossed \in BOOLEAN /\ presses \in 0 .. MaxPresses

Init ==
  /\ at = [o \in Ops |-> "none"] /\ kind = [o \in Ops |-> "start"]
  /\ startTime = FALSE /\ timer = "null" /\ timers = 0 /\ executing = 0
  /\ runState = "STOP" /\ sync = "none" /\ permitted \in BOOLEAN /\ asking = FALSE
  /\ bound = FALSE /\ binding = FALSE /\ engine = "none"
  /\ configured = FALSE /\ listening = FALSE /\ tun = FALSE
  /\ app = FALSE /\ presses = 0 /\ crossed = FALSE

Idle == \A o \in Ops : at[o] = "none"
Goto(o, l) == at' = [at EXCEPT ![o] = l]
Press == presses < MaxPresses /\ presses' = presses + 1

-----------------------------------------------------------------------------
(* updateStatus(): a press in the app, the tile's message to it, or the app *)
(* that opens                                                               *)

\* a start applies the profile first, so that there is a configuration
ListenFirst == "listen"                        \* mutant: as it was once
StartsWith == "config"

Begin(k) ==
  \E o \in Ops :
    /\ at[o] = "none"
    /\ kind' = [kind EXCEPT ![o] = k]
    /\ Goto(o, IF k = "start" THEN StartsWith ELSE "listen")

UpdateStatus(k) ==
  /\ crossed' = (crossed \/ ~Idle)
  /\ Begin(k)
  /\ startTime' = (startTime /\ k = "start")
  /\ UNCHANGED << timer, timers, executing >>

PressButton ==
  /\ app /\ Press
  /\ \E k \in {"start", "stop"} : UpdateStatus(k)
  /\ UNCHANGED << kotlin, core, app >>

\* profile.checkAndUpdate() and _applyProfile(), then globalState.handleStart()
ApplyProfile(o, ok) ==
  /\ at[o] = "config"
  /\ Goto(o, IF ok THEN "listen" ELSE "none")
  /\ configured' = (configured \/ ok) /\ startTime' = (startTime \/ ok)
  /\ crossed' = (crossed \/ (~ok /\ startTime))
  /\ UNCHANGED << kind, timer, timers, executing, kotlin, listening, tun, app, presses >>

Listen(o) ==
  /\ at[o] = "listen" /\ Goto(o, "vpn")
  /\ listening' = (kind[o] = "start")
  /\ UNCHANGED << kind, startTime, timer, timers, executing, kotlin, configured, tun, process >>

\* startUpdateTasks() does nothing while its timer is active
NotNull(t) == t # "null"                       \* mutant: a timer that fired counts
HasTimer(t) == t = "active"

StartUpdateTasks(t) == executing' = IF HasTimer(t) THEN executing ELSE executing + 1

\* stopUpdateTasks() cancels the active timer; it does nothing while the tasks
\* are executed, which then arm another
Tasks(o) ==
  /\ at[o] = "tasks" /\ Goto(o, "none")
  /\ \/ kind[o] = "start" /\ StartUpdateTasks(timer) /\ UNCHANGED << timer, timers >>
     \/ kind[o] = "stop" /\ timer = "active"
        /\ timer' = "null" /\ timers' = timers - 1 /\ UNCHANGED executing
     \/ kind[o] = "stop" /\ timer # "active" /\ UNCHANGED << timer, timers, executing >>
  /\ UNCHANGED << kind, startTime, kotlin, core, process >>

\* the tasks are done: a timer is armed, whichever was armed meanwhile
TasksDone ==
  /\ executing > 0 /\ executing' = executing - 1
  /\ timer' = "active" /\ timers' = timers + 1
  /\ UNCHANGED << at, kind, startTime, kotlin, core, process >>

\* the timer fires, or one that is no longer referred to
TimerFires ==
  /\ timers > 0 /\ timers' = timers - 1
  /\ \/ timer = "active" /\ timer' = "fired"
     \/ timers > (IF timer = "active" THEN 1 ELSE 0) /\ timer' = timer
  /\ StartUpdateTasks(timer')
  /\ UNCHANGED << at, kind, startTime, kotlin, core, process >>

-----------------------------------------------------------------------------
(* VpnPlugin *)

Racing == asking \/ binding \/ sync # "none"

\* the process ends: by exit(0), by an exception on the main thread, by the system
Exit ==
  /\ at' = [o \in Ops |-> "none"] /\ UNCHANGED kind
  /\ startTime' = FALSE /\ timer' = "null" /\ timers' = 0 /\ executing' = 0
  /\ runState' = "STOP" /\ sync' = "none" /\ asking' = FALSE
  /\ bound' = FALSE /\ binding' = FALSE /\ engine' = "none"
  /\ configured' = FALSE /\ listening' = FALSE /\ tun' = FALSE
  /\ app' = FALSE /\ crossed' = FALSE

\* handleStartService() once the service is bound; establish() may be refused,
\* which throws with the state already START
Established == runState' = "START" /\ tun' = TRUE
Refused == runState # "START" /\ runState' = "START" /\ tun' = tun

StartService ==
  IF runState = "START" THEN UNCHANGED << runState, tun >> ELSE Established

\* the method call "startVpn": permission, then binding, then the start
CallStart(o) ==
  /\ at[o] = "vpn" /\ kind[o] = "start"
  /\ \/ ~permitted /\ asking' = TRUE /\ Goto(o, "tasks") /\ crossed' = crossed
        /\ UNCHANGED << runState, binding, tun >>
     \/ permitted /\ ~bound /\ binding' = TRUE /\ Goto(o, "tasks") /\ crossed' = crossed
        /\ UNCHANGED << runState, asking, tun >>
     \/ permitted /\ bound /\ StartService /\ Goto(o, "tasks")
        /\ crossed' = (crossed \/ Racing) /\ UNCHANGED << asking, binding >>
     \/ permitted /\ bound /\ Refused /\ Goto(o, "none")
        /\ crossed' = TRUE /\ UNCHANGED << asking, binding >>
  /\ UNCHANGED << kind, startTime, timer, timers, executing, sync, permitted, bound, engine >>
  /\ UNCHANGED << configured, listening, app, presses >>

\* the dialog is answered; it is gone with the activity
Answer(granted) ==
  /\ asking /\ asking' = FALSE
  /\ permitted' = granted
  /\ \/ ~granted /\ crossed' = TRUE /\ UNCHANGED << runState, binding, tun >>
     \/ granted /\ ~bound /\ binding' = TRUE /\ UNCHANGED << runState, tun, crossed >>
     \/ granted /\ bound /\ StartService /\ crossed' = (crossed \/ sync # "none") /\ UNCHANGED binding
  /\ UNCHANGED << dart, sync, bound, engine, configured, listening, app, presses >>

\* onServiceConnected(): a refusal here is an uncaught exception
Connected ==
  /\ binding /\ binding' = FALSE /\ bound' = TRUE
  /\ StartService
  /\ crossed' = (crossed \/ sync # "none")
  /\ UNCHANGED << dart, sync, permitted, asking, engine, configured, listening, app, presses >>

\* the method call "stopVpn"
NotStarted == runState # "START"               \* mutant: PENDING is not stopped
Stopped == runState = "STOP"

CallStop(o) ==
  /\ at[o] = "vpn" /\ kind[o] = "stop" /\ Goto(o, "tasks")
  /\ IF Stopped THEN UNCHANGED << runState, tun >> ELSE runState' = "STOP" /\ tun' = FALSE
  /\ crossed' = (crossed \/ Racing)
  /\ UNCHANGED << kind, startTime, timer, timers, executing, configured, listening, app, presses >>
  /\ UNCHANGED << sync, permitted, asking, bound, binding, engine >>

-----------------------------------------------------------------------------
(* GlobalState: the tile, and the status it asks the service isolate for    *)

\* handleToggle(): to the app's isolate if there is one; else a stop ends the
\* process, a start is only heard by an engine made for it
Toggle ==
  /\ Press
  /\ \/ app /\ runState = "STOP" /\ runState' = "PENDING" /\ UpdateStatus("start")
        /\ UNCHANGED << sync, permitted, asking, bound, binding, engine, core, app >>
     \/ app /\ runState = "START" /\ runState' = "PENDING" /\ UpdateStatus("stop")
        /\ UNCHANGED << sync, permitted, asking, bound, binding, engine, core, app >>
     \/ ~app /\ runState = "STOP" /\ runState' = "PENDING"
        /\ engine' = (IF engine = "none" THEN "boot" ELSE engine)
        /\ UNCHANGED << dart, sync, permitted, asking, bound, binding, core, app, crossed >>
     \/ ~app /\ runState = "START" /\ Exit /\ UNCHANGED permitted

\* _service() with "quick": quickStart(), then vpn.start() and the listeners;
\* nothing without a profile; what cannot be set up ends the process
QuickStart ==
  /\ engine = "boot" /\ engine' = "up"
  /\ \/ UNCHANGED << runState, binding, core >>
     \/ /\ configured' = TRUE /\ listening' = TRUE
        /\ \/ ~permitted /\ UNCHANGED << runState, binding, tun >>
           \/ permitted /\ ~bound /\ binding' = TRUE /\ UNCHANGED << runState, tun >>
           \/ permitted /\ bound /\ StartService /\ UNCHANGED binding
  /\ UNCHANGED << dart, sync, permitted, asking, bound, process >>

\* syncStatus(): getStatus() is answered by the service isolate
Running == engine # "none" /\ tun
Status == IF Running THEN "running" ELSE "stopped"

SyncAsk ==
  /\ sync = "none" /\ sync' = Status
  /\ UNCHANGED << dart, runState, permitted, asking, bound, binding, engine, core, process >>

SyncApply ==
  /\ sync # "none" /\ sync' = "none"
  /\ runState' = IF sync = "running" THEN "START" ELSE "STOP"
  /\ crossed' = (crossed \/ ~Idle \/ asking \/ binding)
  /\ UNCHANGED << dart, permitted, asking, bound, binding, engine, core, app, presses >>

-----------------------------------------------------------------------------
(* The activity comes and goes, the process may end *)

\* a new service engine replaces the old one; updateStartTime(), then
\* _initStatus() starts again if the device runs, else as autoRun says
Open ==
  /\ ~app /\ app' = TRUE /\ Press
  /\ engine' = "up"
  /\ startTime' = tun /\ crossed' = (crossed \/ sync # "none" \/ binding)
  /\ \E k \in {"start", "stop"} : (tun => k = "start") /\ Begin(k)
  /\ UNCHANGED << timer, timers, executing, core >>
  /\ UNCHANGED << runState, sync, permitted, asking, bound, binding >>

\* MainActivity.onDestroy(): the state becomes STOP whatever runs
Leave ==
  /\ app /\ app' = FALSE /\ Press
  /\ runState' = "STOP" /\ asking' = FALSE
  /\ at' = [o \in Ops |-> "none"] /\ startTime' = FALSE
  /\ timer' = "null" /\ timers' = 0 /\ executing' = 0
  /\ UNCHANGED << kind, sync, permitted, bound, binding, engine, core, crossed >>

Killed == Exit /\ UNCHANGED << permitted, presses >>

Next ==
  \/ PressButton \/ Toggle \/ Open \/ Leave \/ Killed
  \/ \E o \in Ops : \/ \E ok \in BOOLEAN : ApplyProfile(o, ok)
                    \/ Listen(o) \/ CallStart(o) \/ CallStop(o) \/ Tasks(o)
  \/ TasksDone \/ TimerFires
  \/ \E g \in BOOLEAN : Answer(g)
  \/ Connected \/ QuickStart \/ SyncAsk \/ SyncApply

Spec == Init /\ [][Next]_vars

-----------------------------------------------------------------------------
(* Properties *)

Quiet == Idle /\ ~asking /\ ~binding /\ engine # "boot"

\* In a quiet app whose calls did not cross each other, the app shows a start
\* exactly while the device is open, and the tile shows the same: through the
\* tile's PENDING, through a state that leaving the app reset while the device
\* ran, through permission and binding.
AppAgrees ==
  app /\ Quiet /\ ~crossed =>
    (startTime <=> tun) /\ (runState = "START" <=> tun)

\* The device is never open, and the listeners never run, before a
\* configuration was set up: the core would use a nil one.
NeverWithoutConfig == tun \/ listening => configured

\* A started app whose calls did not cross keeps its update loop alive.
LoopAlive == app /\ Quiet /\ startTime /\ ~crossed => executing + timers > 0

=============================================================================
