----------------------------- MODULE DesktopTun -----------------------------
(***************************************************************************)
(* Turning TUN on and off on the desktop: AppController in                 *)
(* lib/controller.dart.  TUN needs a core with administrator rights, so    *)
(* the first enabling asks for them and restarts the core in the middle    *)
(* of the operation that wanted it; realTunEnable is what the app believes *)
(* of the core.                                                            *)
(*                                                                         *)
(* An operation is a flow of steps separated by its awaits; the setup that *)
(* a restart runs inside another operation is a flow with a parent.  The   *)
(* core applies what it is sent at once and a restart is one step: CoreHub *)
(* and CoreLauncher look into these.                                       *)
(***************************************************************************)
EXTENDS Naturals

CONSTANTS
  Flows,     \* operations; a finite supply bounds the model
  Ports,     \* a setting that has nothing to do with TUN
  Nil,       \* no configuration, snapshot or parent
  Kinds      \* the operations in play

ASSUME TunAssumption ==
  /\ Nil \notin Flows /\ Nil \notin Ports
  /\ Nil \notin [tun : BOOLEAN, port : Ports \cup {Nil}]
  /\ Kinds \subseteq {"update", "apply", "start", "stop"}

VARIABLES
  want,       \* patchClashConfig: the settings of the user
  overlapped, \* history: something happened while an operation was under way
  timer,      \* the debounce timer of updateClashConfig is running
  real,       \* realTunEnable
  admin,      \* checkIsAdmin(): the core file or the helper has the rights
  startTime,  \* the app was started
  runTime,    \* runTimeProvider shows it as started
  tunCore,    \* the core: its configuration, whether it listens and as root
  op, at, parent,     \* per flow: operation, step, flow that waits for it
  snap, prev  \* its snapshots: the settings, and realTunEnable

userVars == << want, overlapped, timer >>
runVars  == << startTime, runTime >>
frames   == << op, parent, snap, prev >>
tunVars == << userVars, real, admin, runVars, tunCore, at, frames >>

Settings == [tun : BOOLEAN, port : Ports]
Configs  == [tun : BOOLEAN, port : Ports \cup {Nil}]
Places == {"new", "fetch", "check", "recheck", "dialog", "restart", "init", "nested",
           "relisten", "granted", "refused", "params", "applied", "tasks", "stopping", "done"}

TunTypeOK ==
  /\ want \in Settings /\ overlapped \in BOOLEAN /\ timer \in BOOLEAN
  /\ real \in BOOLEAN /\ admin \in BOOLEAN
  /\ startTime \in BOOLEAN /\ runTime \in BOOLEAN
  /\ tunCore \in [cfg : Configs \cup {Nil}, run : BOOLEAN, root : BOOLEAN]
  /\ op \in [Flows -> {"update", "apply", "start", "stop"}]
  /\ at \in [Flows -> Places]
  /\ parent \in [Flows -> Flows \cup {Nil}]
  /\ snap \in [Flows -> Settings \cup {Nil}] /\ prev \in [Flows -> BOOLEAN]

\* a core was started with the rights of its file; if TUN is off, it may have
\* been set up
TunInit ==
  /\ want \in Settings /\ overlapped = FALSE /\ timer = FALSE /\ real = FALSE
  /\ admin \in BOOLEAN /\ startTime = FALSE /\ runTime = FALSE
  /\ tunCore \in [cfg : IF want.tun THEN {Nil} ELSE {Nil, want}, run : {FALSE}, root : {admin}]
  /\ op = [f \in Flows |-> "update"] /\ at = [f \in Flows |-> "new"]
  /\ parent = [f \in Flows |-> Nil]
  /\ snap = [f \in Flows |-> Nil] /\ prev = [f \in Flows |-> FALSE]

-----------------------------------------------------------------------------

Idle == \A f \in Flows : at[f] \in {"new", "done"}

\* the answer of _requestAdmin() is a completed future: what follows it runs
\* before the next event
Answered == \E f \in Flows : at[f] \in {"granted", "refused"}

\* flow f was suspended at l and its await is over
Resumes(f, l) == at[f] = l /\ ~Answered

GoesTo(f, l) == at' = [at EXCEPT ![f] = l]

\* a flow of kind k is created at step l, called by flow p or by nobody
Begin(f, k, p) ==
  /\ at[f] = "new"
  /\ op' = [op EXCEPT ![f] = k] /\ parent' = [parent EXCEPT ![f] = p]

TopLevel(f, k) ==
  k \in Kinds /\ ~Answered /\ overlapped' = (overlapped \/ ~Idle) /\ Begin(f, k, Nil)

\* the user changes settings; the listener of updateParamsProvider (re)starts
\* the timer
ChangeSettings ==
  /\ ~Answered /\ overlapped' = (overlapped \/ ~Idle)
  /\ want' \in Settings \ {want}
  /\ timer' = TRUE
  /\ UNCHANGED << real, admin, runVars, tunCore, at, frames >>

-----------------------------------------------------------------------------
(* _requestAdmin(): up to its first await *)

KeepReal == UNCHANGED real                               \* mutant: still believed on
SwitchOff == real' = FALSE

Ask(f, s) ==
  \/ ~s.tun /\ SwitchOff /\ GoesTo(f, "granted")
  \/ s.tun /\ real /\ GoesTo(f, "granted") /\ UNCHANGED real
  \/ s.tun /\ ~real /\ GoesTo(f, "check") /\ UNCHANGED real

HasRights == admin

CheckIsAdmin(f) ==
  /\ Resumes(f, "check")
  /\ \/ HasRights /\ real' = TRUE /\ GoesTo(f, "granted")
     \/ ~HasRights /\ GoesTo(f, "recheck") /\ UNCHANGED real
  /\ UNCHANGED << userVars, admin, runVars, tunCore, frames >>

\* authorizeCore() asks again, and answers `none` if the rights are there now
AuthorizeCore(f) ==
  /\ Resumes(f, "recheck")
  /\ \/ HasRights /\ real' = FALSE /\ GoesTo(f, "granted")
     \/ ~HasRights /\ GoesTo(f, "dialog") /\ UNCHANGED real
  /\ UNCHANGED << userVars, admin, runVars, tunCore, frames >>

Authorized(f) ==
  /\ Resumes(f, "dialog")
  /\ admin' = TRUE /\ real' = TRUE
  /\ GoesTo(f, "restart")
  /\ UNCHANGED << userVars, runVars, tunCore, frames >>

RealAnyway == real' = TRUE                               \* mutant: on all the same
RealOff == real' = FALSE

Unauthorized(f) ==
  /\ Resumes(f, "dialog")
  /\ RealOff
  /\ GoesTo(f, "refused")
  /\ UNCHANGED << userVars, admin, runVars, tunCore, frames >>

-----------------------------------------------------------------------------
(* restartCore(), inside _requestAdmin() *)

Restart(f) ==
  /\ Resumes(f, "restart")
  /\ tunCore' = [cfg |-> Nil, run |-> FALSE, root |-> admin]
  /\ GoesTo(f, "init")
  /\ UNCHANGED << userVars, real, admin, runVars, frames >>

\* _initCore() awaits a setup of its own
InitCore(f, g) ==
  /\ Resumes(f, "init") /\ Begin(g, "apply", f)
  /\ at' = [at EXCEPT ![f] = "nested", ![g] = "fetch"]
  /\ UNCHANGED << userVars, real, admin, runVars, tunCore, snap, prev >>

\* the listeners are started again when the app shows itself as started
StaysDown == UNCHANGED << startTime, tunCore >>          \* mutant: not started again
StartAgain ==
  IF runTime THEN startTime' = TRUE /\ tunCore' = [tunCore EXCEPT !.run = TRUE]
             ELSE UNCHANGED << startTime, tunCore >>

Relisten(f) ==
  /\ Resumes(f, "relisten")
  /\ StartAgain
  /\ GoesTo(f, "granted")
  /\ UNCHANGED << userVars, real, admin, runTime, frames >>

\* a flow ends, well or not; _initCore() swallows what its setup throws
EndFlow(f) ==
  LET p == parent[f] IN
  at' = IF p = Nil THEN [at EXCEPT ![f] = "done"]
                   ELSE [at EXCEPT ![f] = "done", ![p] = "relisten"]

-----------------------------------------------------------------------------
(* _updateClashConfig(), fired by the timer *)

Fire(f) ==
  /\ timer /\ TopLevel(f, "update") /\ timer' = FALSE
  /\ snap' = [snap EXCEPT ![f] = want] /\ prev' = [prev EXCEPT ![f] = real]
  /\ Ask(f, want)
  /\ UNCHANGED << want, admin, runVars, tunCore >>

Refused(f) ==
  /\ at[f] = "refused" /\ EndFlow(f)
  /\ UNCHANGED << userVars, real, admin, runVars, tunCore, frames >>

\* the first enabling is left to the setup after the restart
FirstEnable(f) == snap[f].tun /\ ~prev[f]

SkipUpdate(f) ==
  /\ op[f] = "update" /\ at[f] = "granted" /\ FirstEnable(f) /\ EndFlow(f)
  /\ UNCHANGED << userVars, real, admin, runVars, tunCore, frames >>

\* updateConfig() of a core without configuration does nothing
SendUpdate(f) ==
  /\ op[f] = "update" /\ at[f] = "granted" /\ ~FirstEnable(f) /\ EndFlow(f)
  /\ tunCore' = IF tunCore.cfg = Nil THEN tunCore
                ELSE [tunCore EXCEPT !.cfg = [tun |-> real, port |-> snap[f].port]]
  /\ UNCHANGED << userVars, real, admin, runVars, frames >>

-----------------------------------------------------------------------------
(* _applyProfile() and _setupClashConfig() *)

Apply(f) ==
  /\ \E k \in {"apply", "start"} : TopLevel(f, k)
  /\ GoesTo(f, "fetch")
  /\ UNCHANGED << want, timer, real, admin, runVars, tunCore, snap, prev >>

\* the profile is fetched, then the settings are read
Fetched(f) ==
  /\ Resumes(f, "fetch")
  /\ snap' = [snap EXCEPT ![f] = want]
  /\ Ask(f, want)
  /\ UNCHANGED << userVars, admin, runVars, tunCore, op, parent, prev >>

\* realTunEnable as it is now completes the settings as they were
ReadReal(f) ==
  /\ op[f] \in {"apply", "start"} /\ at[f] = "granted"
  /\ prev' = [prev EXCEPT ![f] = real]
  /\ GoesTo(f, "params")
  /\ UNCHANGED << userVars, real, admin, runVars, tunCore, op, parent, snap >>

SendSetup(f) ==
  /\ Resumes(f, "params") /\ GoesTo(f, "applied")
  /\ tunCore' = [tunCore EXCEPT !.cfg = [tun |-> prev[f], port |-> snap[f].port]]
  /\ UNCHANGED << userVars, real, admin, runVars, frames >>

\* the profile cannot be fetched or assembled, or the core cannot parse it
\* and takes its default configuration
SetupFails(f) ==
  /\ \/ (Resumes(f, "fetch") \/ Resumes(f, "params")) /\ UNCHANGED tunCore
     \/ Resumes(f, "params") /\ tunCore' = [tunCore EXCEPT !.cfg = [tun |-> FALSE, port |-> Nil]]
  /\ EndFlow(f)
  /\ UNCHANGED << userVars, real, admin, runVars, frames >>

Applied(f) ==
  /\ op[f] = "apply" /\ Resumes(f, "applied") /\ EndFlow(f)
  /\ UNCHANGED << userVars, real, admin, runVars, tunCore, frames >>

-----------------------------------------------------------------------------
(* updateStatus() *)

HandleStart(f) ==
  /\ op[f] = "start" /\ Resumes(f, "applied") /\ GoesTo(f, "tasks")
  /\ startTime' = TRUE /\ tunCore' = [tunCore EXCEPT !.run = TRUE]
  /\ UNCHANGED << userVars, real, admin, runTime, frames >>

\* the first of the update tasks is updateRunTime()
UpdateRunTime(f) ==
  /\ Resumes(f, "tasks") /\ EndFlow(f)
  /\ runTime' = startTime
  /\ UNCHANGED << userVars, real, admin, startTime, tunCore, frames >>

HandleStop(f) ==
  /\ TopLevel(f, "stop") /\ GoesTo(f, "stopping")
  /\ startTime' = FALSE /\ tunCore' = [tunCore EXCEPT !.run = FALSE]
  /\ UNCHANGED << want, timer, real, admin, runTime, snap, prev >>

StatusStopped(f) ==
  /\ Resumes(f, "stopping") /\ EndFlow(f)
  /\ runTime' = FALSE
  /\ UNCHANGED << userVars, real, admin, startTime, tunCore, frames >>

-----------------------------------------------------------------------------

Step(f) ==
  \/ Fire(f) \/ Apply(f) \/ HandleStop(f)
  \/ CheckIsAdmin(f) \/ AuthorizeCore(f) \/ Authorized(f) \/ Unauthorized(f)
  \/ Restart(f) \/ (\E g \in Flows : InitCore(f, g)) \/ Relisten(f)
  \/ Refused(f) \/ SkipUpdate(f) \/ SendUpdate(f)
  \/ Fetched(f) \/ ReadReal(f) \/ SendSetup(f) \/ SetupFails(f) \/ Applied(f)
  \/ HandleStart(f) \/ UpdateRunTime(f) \/ StatusStopped(f)

TunNext == ChangeSettings \/ \E f \in Flows : Step(f)

TunSpec == TunInit /\ [][TunNext]_tunVars

-----------------------------------------------------------------------------
(* Properties *)

Settled == Idle /\ ~timer

HasTun == tunCore.cfg # Nil /\ tunCore.cfg.tun

\* The app believes in TUN, and asks the core for it, only once the rights
\* are there: however the operations interleave with the dialog.
TunNeedsRights == real \/ HasTun => admin

\* Unless operations overlapped, switching TUN off reaches the
\* core and the app's belief, whatever failed or was refused before.
OffReachesCore == ~overlapped /\ Settled /\ ~want.tun => ~real /\ ~HasTun

\* A core that was restarted under a started app listens again, and a core
\* under a stopped app does not.
RestartKeepsServing == ~overlapped /\ Settled => tunCore.run = startTime
=============================================================================
