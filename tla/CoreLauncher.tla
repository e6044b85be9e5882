---------------------------- MODULE CoreLauncher ----------------------------
(***************************************************************************)
(* How the desktop app starts, replaces and stops its core process, and    *)
(* how the process's connection becomes the control channel.               *)
(*                                                                         *)
(* lib/clash/service.dart runs on one Dart isolate: an actor here is an    *)
(* async call chain, which can be interrupted only at its awaits, so every *)
(* action is the code between two awaits.  The actors are the callers of   *)
(* reStart(), the one caller of shutdown()+destroy() at exit ("exit"), and *)
(* the accept loop of _initServer() ("loop").  All three run the shared    *)
(* _destroySocket().  The other parties are the core processes (core/      *)
(* server.go), the kernel's listen queue and, on Windows, the helper       *)
(* service (services/helper/src/service/hub.rs).                           *)
(*                                                                         *)
(* A kill is immediate: a killed process neither dials nor reads again.    *)
(***************************************************************************)
EXTENDS Naturals, Sequences, FiniteSets

CONSTANTS
  Callers,      \* concurrent callers of reStart()
  Cores,        \* process identities, each used by at most one core process
  NoCore,       \* null
  Windows,      \* TRUE: the helper service is in play
  MaxRestarts   \* bound: how often reStart() gets past its guard

ASSUME LauncherAssumption ==
  /\ {"exit", "loop"} \cap Callers = {}
  /\ NoCore \notin Cores
  /\ Windows \in BOOLEAN
  /\ MaxRestarts \in Nat

VARIABLES
  completers,   \* every socketCompleter made so far: its socket, or NoCore
  isStarting, restarts,
  pc, closing,  \* per actor: where it awaits, and the socket it is closing
  process,      \* ClashService.process
  child,        \* per caller: the process Process.start is about to return
  server,       \* serverCompleter's socket: "binding", "open" or "closed"
  backlog,      \* connections the kernel holds for the accept loop
  incoming,     \* the connection the accept loop is handling
  core, link,   \* per core: the process, and the app's end of its socket
  broken,       \* sockets on which a write has failed
  helper,       \* hub.rs PROCESS
  asked,        \* per actor: how far the helper is with the call it awaits
  late,         \* calls the app gave up on and the helper may still serve
  helperFailed  \* history: the helper was once unavailable, slow or failing

dartVars   == << completers, isStarting, restarts, pc, closing, process, child >>
socketVars == << server, backlog, incoming >>
coreVars   == << core, link, broken >>
helperVars == << helper, asked, late, helperFailed >>
vars       == << dartVars, socketVars, coreVars, helperVars >>

Actors  == Callers \cup {"exit", "loop"}
MaybeCore == Cores \cup {NoCore}
Abandoned == {"stop", "start", "mid"}   \* mid: a start between its halves

Labels  == {"idle", "stopHelper", "stopWait", "destroy", "closing", "kill",
            "bind", "admin", "startWait", "spawn", "assign",
            "closeServer", "bye", "exited", "complete", "dead"}

TypeOK ==
  /\ completers \in Seq(MaybeCore) /\ completers # << >>
  /\ isStarting \in BOOLEAN /\ restarts \in Nat
  /\ pc \in [Actors -> Labels] /\ closing \in [Actors -> MaybeCore]
  /\ process \in MaybeCore /\ child \in [Callers -> MaybeCore]
  /\ server \in {"binding", "open", "closed"}
  /\ backlog \in Seq(Cores) /\ incoming \in MaybeCore
  /\ core \in [Cores -> {"unborn", "starting", "up", "dead"}]
  /\ link \in [Cores -> {"none", "open", "closed"}]
  /\ broken \subseteq Cores
  /\ helper \in MaybeCore
  /\ asked \in [Actors -> {"none", "sent", "mid", "ok", "fail"}]
  /\ late \in [Abandoned -> Nat] /\ helperFailed \in BOOLEAN

Init ==
  /\ completers = << NoCore >>
  /\ isStarting = FALSE /\ restarts = 0
  /\ pc = [a \in Actors |-> "idle"] /\ closing = [a \in Actors |-> NoCore]
  /\ process = NoCore /\ child = [a \in Callers |-> NoCore]
  /\ server = "binding" /\ backlog = << >> /\ incoming = NoCore
  /\ core = [c \in Cores |-> "unborn"] /\ link = [c \in Cores |-> "none"]
  /\ broken = {}
  /\ helper = NoCore
  /\ asked = [a \in Actors |-> "none"] /\ late = [k \in Abandoned |-> 0]
  /\ helperFailed = FALSE

-----------------------------------------------------------------------------

sock     == completers[Len(completers)]
Alive(c) == core[c] \in {"starting", "up"}
AppUp    == pc["exit"] # "exited"

Goto(a, l)     == pc' = [pc EXCEPT ![a] = l]
Move(a, l, m)  == AppUp /\ pc[a] = l /\ Goto(a, m)
KeepCompleter  == UNCHANGED completers              \* mutant: no reset
NewCompleter   == completers' = Append(completers, NoCore)

\* the processes after c was killed
NotStopped(c) == core                               \* mutant: no kill
Stopped(c)    == [d \in Cores |-> IF d = c /\ Alive(d) THEN "dead" ELSE core[d]]

\* shutdown() asks the helper first, on Windows only
ShutdownStart == IF Windows THEN "stopHelper" ELSE "destroy"

\* what follows _destroySocket(): shutdown() kills, the accept loop completes
AfterDestroyIdle(a) ==                              \* mutant: no complete()
  IF a = "loop" THEN "idle" ELSE "kill"
AfterDestroy(a) == IF a = "loop" THEN "complete" ELSE "kill"

\* reStart() left through its finally block
FinishStarting(a) == Goto(a, "idle") /\ UNCHANGED isStarting   \* mutant
Finish(a) == Goto(a, "idle") /\ isStarting' = FALSE

-----------------------------------------------------------------------------
(* reStart() *)

MayRestartAlways == TRUE                            \* mutant: no guard
MayRestart       == ~isStarting

RestartBegin(a) ==
  /\ AppUp /\ pc[a] = "idle" /\ MayRestart
  /\ restarts < MaxRestarts /\ restarts' = restarts + 1
  /\ isStarting' = TRUE
  /\ NewCompleter
  /\ Goto(a, IF process # NoCore THEN ShutdownStart ELSE "bind")
  /\ UNCHANGED << closing, process, child, socketVars, coreVars, helperVars >>

\* await serverCompleter.future
Bind(a) ==
  /\ server # "binding"
  /\ Move(a, "bind", IF Windows THEN "admin" ELSE "spawn")
  /\ UNCHANGED << completers, isStarting, restarts, closing, process, child,
                  socketVars, coreVars, helperVars >>

\* Process.start forks the core; the call returns later (Assign)
Spawn(a) ==
  /\ Move(a, "spawn", "assign")
  /\ \E c \in Cores :
       /\ core[c] = "unborn"
       /\ core' = [core EXCEPT ![c] = "starting"]
       /\ child' = [child EXCEPT ![a] = c]
  /\ UNCHANGED << completers, isStarting, restarts, closing, process,
                  socketVars, link, broken, helperVars >>

\* the core file is missing, or Process.start throws
SpawnFails(a) ==
  /\ AppUp /\ pc[a] = "spawn"
  /\ Finish(a)
  /\ UNCHANGED << completers, restarts, closing, process, child,
                  socketVars, coreVars, helperVars >>

Assign(a) ==
  /\ AppUp /\ pc[a] = "assign"
  /\ process' = child[a]
  /\ Finish(a)
  /\ UNCHANGED << completers, restarts, closing, child,
                  socketVars, coreVars, helperVars >>

-----------------------------------------------------------------------------
(* shutdown(), called by reStart() and at exit *)

ExitBegin ==
  /\ Move("exit", "idle", ShutdownStart)
  /\ UNCHANGED << completers, isStarting, restarts, closing, process, child,
                  socketVars, coreVars, helperVars >>

Kill(a) ==
  /\ Move(a, "kill", IF a = "exit" THEN "closeServer" ELSE "bind")
  /\ core' = Stopped(process)
  /\ process' = NoCore
  /\ UNCHANGED << completers, isStarting, restarts, closing, child,
                  socketVars, link, broken, helperVars >>

-----------------------------------------------------------------------------
(* _destroySocket(): a new completer only if the current one is completed *)

DestroyBegin(a) ==
  /\ IF sock = NoCore
     THEN Move(a, "destroy", AfterDestroy(a)) /\ UNCHANGED << closing, link >>
     ELSE /\ Move(a, "destroy", "closing")
          /\ closing' = [closing EXCEPT ![a] = sock]
          /\ link' = [link EXCEPT ![sock] = "closed"]
  /\ UNCHANGED << completers, isStarting, restarts, process, child,
                  socketVars, core, broken, helperVars >>

DestroyEnd(a) ==
  /\ Move(a, "closing", AfterDestroy(a))
  /\ closing' = [closing EXCEPT ![a] = NoCore]
  /\ NewCompleter
  /\ UNCHANGED << isStarting, restarts, process, child,
                  socketVars, coreVars, helperVars >>

\* close() rethrows the failure of an earlier write: reStart() catches it,
\* handleExit() goes to its finally block, the accept loop is left for good
DestroyThrows(a) ==
  /\ AppUp /\ pc[a] = "closing" /\ closing[a] \in broken
  /\ closing' = [closing EXCEPT ![a] = NoCore]
  /\ IF a \in Callers THEN Finish(a)
     ELSE Goto(a, IF a = "exit" THEN "bye" ELSE "dead") /\ UNCHANGED isStarting
  /\ UNCHANGED << completers, restarts, process, child,
                  socketVars, coreVars, helperVars >>

-----------------------------------------------------------------------------
(* the server socket: _initServer(), destroy() and the end of the app *)

ServerBind ==
  /\ AppUp /\ server = "binding" /\ server' = "open"
  /\ UNCHANGED << dartVars, backlog, incoming, coreVars, helperVars >>

Accept ==
  /\ backlog # << >>
  /\ Move("loop", "idle", "destroy")
  /\ incoming' = Head(backlog) /\ backlog' = Tail(backlog)
  /\ UNCHANGED << completers, isStarting, restarts, closing, process, child,
                  server, coreVars, helperVars >>

\* socketCompleter.complete(socket) throws when it is already completed
Complete ==
  /\ incoming' = NoCore
  /\ IF sock = NoCore
     THEN /\ Move("loop", "complete", "idle")
          /\ completers' = [completers EXCEPT ![Len(completers)] = incoming]
          /\ link' = [link EXCEPT ![incoming] = "open"]
     ELSE /\ Move("loop", "complete", "dead")
          /\ UNCHANGED << completers, link >>
  /\ UNCHANGED << isStarting, restarts, closing, process, child,
                  server, backlog, core, broken, helperVars >>

\* destroy(): the kernel resets the connections nobody accepted
CloseServer ==
  /\ server # "binding"
  /\ Move("exit", "closeServer", "bye")
  /\ server' = "closed" /\ backlog' = << >>
  /\ link' = [c \in Cores |->
                IF \E i \in DOMAIN backlog : backlog[i] = c THEN "closed" ELSE link[c]]
  /\ UNCHANGED << completers, isStarting, restarts, closing, process, child,
                  incoming, core, broken, helperVars >>

\* system.exit(): the kernel closes every socket of the app
Exit ==
  /\ Move("exit", "bye", "exited")
  /\ server' = "closed" /\ backlog' = << >> /\ incoming' = NoCore
  /\ link' = [c \in Cores |-> IF core[c] = "up" THEN "closed" ELSE link[c]]
  /\ UNCHANGED << completers, isStarting, restarts, closing, process, child,
                  core, broken, helperVars >>

-----------------------------------------------------------------------------
(* a core process: startServer() of core/server.go *)

\* net.Dial fails: panic
DialRetried(c) == UNCHANGED core                    \* mutant: dial again
DialFailed(c)  == core' = [core EXCEPT ![c] = "dead"]

Connect(c) ==
  /\ core[c] = "starting"
  /\ IF server = "open"
     THEN /\ core' = [core EXCEPT ![c] = "up"]
          /\ backlog' = Append(backlog, c)
     ELSE DialFailed(c) /\ UNCHANGED backlog
  /\ UNCHANGED << dartVars, server, incoming, link, broken, helperVars >>

\* the read loop ends with the connection, and main with it
EndOfStream(c) ==
  /\ core[c] = "up" /\ link[c] = "closed"
  /\ core' = [core EXCEPT ![c] = "dead"]
  /\ UNCHANGED << dartVars, socketVars, link, broken, helperVars >>

\* a panic in a handler, a line that is not JSON, or a signal
Crash(c) ==
  /\ Alive(c)
  /\ core' = [core EXCEPT ![c] = "dead"]
  /\ UNCHANGED << dartVars, socketVars, link, broken, helperVars >>

\* a line the app wrote after the core died
WriteFails(c) ==
  /\ AppUp /\ link[c] = "open" /\ core[c] = "dead"
  /\ broken' = broken \cup {c}
  /\ UNCHANGED << dartVars, socketVars, core, link, helperVars >>

-----------------------------------------------------------------------------
(* the helper service and its two-second client, Windows only *)

\* what the call an actor awaits still asks of the helper
Stage(a) ==
  IF asked[a] = "sent" THEN IF pc[a] = "stopWait" THEN "stop" ELSE "start"
  ELSE asked[a]

\* checkIsAdmin() said no: the app runs the core itself
NotAdmin(a) ==
  /\ Move(a, "admin", "spawn")
  /\ helperFailed' = TRUE
  /\ UNCHANGED << completers, isStarting, restarts, closing, process, child,
                  socketVars, coreVars, helper, asked, late >>

CallHelper(a) ==
  /\ Move(a, "stopHelper", "stopWait") \/ Move(a, "admin", "startWait")
  /\ asked' = [asked EXCEPT ![a] = "sent"]
  /\ UNCHANGED << completers, isStarting, restarts, closing, process, child,
                  socketVars, coreVars, helper, late, helperFailed >>

\* startCoreByHelper() / stopCoreByHelper() return the helper's answer
HelperReply(a) ==
  /\ AppUp /\ asked[a] \in {"ok", "fail"}
  /\ \/ pc[a] = "stopWait" /\ Goto(a, "destroy") /\ UNCHANGED isStarting
     \/ pc[a] = "startWait" /\ asked[a] = "ok" /\ Finish(a)
     \/ pc[a] = "startWait" /\ asked[a] = "fail"
        /\ Goto(a, "spawn") /\ UNCHANGED isStarting
  /\ asked' = [asked EXCEPT ![a] = "none"]
  /\ UNCHANGED << completers, restarts, closing, process, child,
                  socketVars, coreVars, helper, late, helperFailed >>

\* .timeout(2000 ms): the request is abandoned, the helper still serves it
HelperTimeout(a) ==
  /\ \/ Move(a, "stopWait", "destroy")
     \/ Move(a, "startWait", "spawn")
  /\ late' = [k \in Abandoned |-> IF k = Stage(a) THEN late[k] + 1 ELSE late[k]]
  /\ helperFailed' = TRUE
  /\ asked' = [asked EXCEPT ![a] = "none"]
  /\ UNCHANGED << completers, isStarting, restarts, closing, process, child,
                  socketVars, coreVars, helper >>

\* stop(), under the lock: kill and wait
KillHelperCore == core' = Stopped(helper) /\ helper' = NoCore

SpawnHelperCore ==
  \E c \in Cores :
    /\ core[c] = "unborn"
    /\ core' = [core EXCEPT ![c] = "starting"]
    /\ helper' = c

\* start() calls stop(), which gives the lock back before start() takes it
\* again to spawn: the two halves of a start are two steps
HelperStop(a) ==
  /\ Stage(a) \in {"stop", "start"} /\ KillHelperCore
  /\ asked' = [asked EXCEPT ![a] = IF Stage(a) = "stop" THEN "ok" ELSE "mid"]
  /\ UNCHANGED << dartVars, socketVars, link, broken, late, helperFailed >>

HelperSpawn(a) ==
  /\ Stage(a) = "mid" /\ SpawnHelperCore
  /\ asked' = [asked EXCEPT ![a] = "ok"]
  /\ UNCHANGED << dartVars, socketVars, link, broken, late, helperFailed >>

\* no service, a core whose SHA-256 is not the token, or spawn() fails
HelperFails(a) ==
  /\ Stage(a) \in Abandoned
  /\ asked' = [asked EXCEPT ![a] = "fail"]
  /\ helperFailed' = TRUE
  /\ UNCHANGED << dartVars, socketVars, coreVars, helper, late >>

LateStop(k) ==
  /\ k \in {"stop", "start"} /\ late[k] > 0 /\ KillHelperCore
  /\ late' = [j \in Abandoned |-> IF j = k THEN late[j] - 1
                                  ELSE IF k = "start" /\ j = "mid" THEN late[j] + 1
                                  ELSE late[j]]
  /\ UNCHANGED << dartVars, socketVars, link, broken, asked, helperFailed >>

LateSpawn ==
  /\ late["mid"] > 0 /\ SpawnHelperCore
  /\ late' = [late EXCEPT !["mid"] = @ - 1]
  /\ UNCHANGED << dartVars, socketVars, link, broken, asked, helperFailed >>

LateFails(k) ==
  /\ late[k] > 0
  /\ late' = [late EXCEPT ![k] = @ - 1]
  /\ UNCHANGED << dartVars, socketVars, coreVars, helper, asked, helperFailed >>

-----------------------------------------------------------------------------

DestroyStep(a) == DestroyBegin(a) \/ DestroyEnd(a) \/ DestroyThrows(a)

HelperClient(a) ==
  NotAdmin(a) \/ CallHelper(a) \/ HelperReply(a) \/ HelperTimeout(a)

CallerStep(a) ==
  \/ Bind(a) \/ Spawn(a) \/ SpawnFails(a) \/ Assign(a)
  \/ Kill(a) \/ DestroyStep(a) \/ HelperClient(a)

ExitStep == Kill("exit") \/ DestroyStep("exit") \/ HelperClient("exit")
            \/ CloseServer \/ Exit

LoopStep == Accept \/ DestroyStep("loop") \/ Complete

HelperStep ==
  \/ \E a \in Actors : HelperStop(a) \/ HelperSpawn(a) \/ HelperFails(a)
  \/ \E k \in Abandoned : LateStop(k) \/ LateFails(k)
  \/ LateSpawn

CoreStep(c) == Connect(c) \/ EndOfStream(c) \/ Crash(c) \/ WriteFails(c)

Next ==
  \/ \E a \in Callers : RestartBegin(a) \/ CallerStep(a)
  \/ ExitBegin \/ ExitStep
  \/ ServerBind \/ LoopStep
  \/ \E c \in Cores : CoreStep(c)
  \/ HelperStep

(***************************************************************************)
(* Fairness: the event loop resumes every chain whose await is over, the   *)
(* kernel binds the socket, a process it forked gets to dial, and a closed *)
(* connection is read as such.  The helper owes nothing: its client has a  *)
(* timeout.  Nothing makes a core crash or a user restart or quit.         *)
(***************************************************************************)
Fairness ==
  /\ \A a \in Callers : WF_vars(CallerStep(a))
  /\ WF_vars(ExitStep) /\ WF_vars(ServerBind) /\ WF_vars(LoopStep)
  /\ \A c \in Cores : WF_vars(Connect(c)) /\ WF_vars(EndOfStream(c))

Spec == Init /\ [][Next]_vars /\ Fairness

-----------------------------------------------------------------------------
(* Properties *)

\* At most one core process is alive: reStart() never starts a core next to a
\* running or starting one, whoever else calls it or quits meanwhile, and on
\* Windows so long as the helper did everything it was asked in time.
OneLiveCore ==
  ~helperFailed => \A c, d \in Cores : Alive(c) /\ Alive(d) => c = d

\* The accept loop never completes a completer twice (a StateError that
\* would end the loop): whatever restarts and exits did since it accepted,
\* the completer is blank when it gets to complete it.
CompleteOnce == pc["loop"] = "complete" => sock = NoCore

\* With nobody restarting, quitting or being accepted, the core the app runs
\* is the one the current completer leads to, once it was accepted.
Quiet == ~isStarting /\ pc["loop"] = "idle" /\ pc["exit"] = "idle"

ChannelLeadsToCore ==
  Quiet /\ process # NoCore /\ ~Windows =>
    (core[process] = "up" /\ link[process] # "none" => sock = process)

\* Every reStart() that got past its guard leaves it open again, whichever
\* of its exits it takes; otherwise no later restart could ever run.
RestartFinishes == isStarting ~> (~isStarting \/ ~AppUp)

\* A core does not outlive the app: the closed connection ends a core that
\* is connected, the missing server one that is not.
CoresDieWithApp ==
  \A c \in Cores : (~AppUp /\ Alive(c)) ~> ~Alive(c)

\* A running core that the app started becomes the control channel, unless
\* it dies, is replaced, the app quits or the accept loop is gone.
CoreGetsChannel ==
  \A c \in Cores :
    (process = c /\ Alive(c)) ~>
      (sock = c \/ ~Alive(c) \/ process # c \/ isStarting
        \/ pc["loop"] = "dead" \/ pc["exit"] # "idle")
=============================================================================
