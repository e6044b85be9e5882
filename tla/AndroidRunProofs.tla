-------------------------- MODULE AndroidRunProofs --------------------------
(***************************************************************************)
(* Proofs about AndroidRun, for any number of overlapping calls and of     *)
(* presses: its types, that nothing of the core runs unconfigured, that    *)
(* the app, the tile and the device agree at rest, and that the update     *)
(* loop of a started app lives.                                            *)
(*                                                                         *)
(* NeverWithoutConfig is not inductive: a start is under way for long      *)
(* before the device is open, through a dialog and a binding that outlive  *)
(* the call that asked for them.                                           *)
(***************************************************************************)
EXTENDS AndroidRun, TLAPS

\* The timer that is referred to is one of those that are active.
TimerCounts == timer = "active" => timers > 0

\* Whatever may still open the device or the listeners comes after a setup.
Coming ==
  \/ tun \/ listening \/ asking \/ binding
  \/ \E o \in Ops : at[o] \in {"listen", "vpn"} /\ kind[o] = "start"

ConfiguredFirst == Coming => configured

RunInv == TypeOK /\ TimerCounts /\ ConfiguredFirst

LEMMA InitInv == Init => RunInv
<1> SUFFICES ASSUME Init PROVE RunInv
  OBVIOUS
<1> USE AndroidRunAssumption DEF AndroidRunAssumption, Init
<1>1. TypeOK
  <2>1. presses \in 0 .. MaxPresses
    OBVIOUS
  <2>2. at \in [Ops -> {"none", "config", "listen", "vpn", "tasks"}] /\ kind \in [Ops -> {"start", "stop"}]
    OBVIOUS
  <2> QED  BY <2>1, <2>2 DEF TypeOK
<1>2. TimerCounts /\ ConfiguredFirst
  BY DEF TimerCounts, ConfiguredFirst, Coming
<1> QED  BY <1>1, <1>2 DEF RunInv

LEMMA NextCases ==
  ASSUME Next
  PROVE  \/ PressButton \/ Toggle \/ Open \/ Leave \/ Killed
         \/ \E o \in Ops : \/ \E ok \in BOOLEAN : ApplyProfile(o, ok)
                           \/ Listen(o) \/ CallStart(o) \/ CallStop(o) \/ Tasks(o)
         \/ TasksDone \/ TimerFires
         \/ \E g \in BOOLEAN : Answer(g)
         \/ Connected \/ QuickStart \/ SyncAsk \/ SyncApply
BY DEF Next

\* The end of the process leaves nothing that could still come.
LEMMA Exits ==
  ASSUME Exit, TypeOK, permitted' \in BOOLEAN, presses' \in 0 .. MaxPresses
  PROVE  RunInv'
BY DEF Exit, RunInv, TypeOK, TimerCounts, ConfiguredFirst, Coming

\* A call that begins starts before its setup, or is a stop.
LEMMA Begins ==
  ASSUME TypeOK, NEW k \in {"start", "stop"}, Begin(k)
  PROVE  /\ at' \in [Ops -> {"none", "config", "listen", "vpn", "tasks"}]
         /\ kind' \in [Ops -> {"start", "stop"}]
         /\ \A o \in Ops : at'[o] \in {"listen", "vpn"} /\ kind'[o] = "start"
                             => at[o] \in {"listen", "vpn"} /\ kind[o] = "start"
<1>1. PICK o \in Ops :
        /\ at[o] = "none"
        /\ kind' = [kind EXCEPT ![o] = k]
        /\ at' = [at EXCEPT ![o] = IF k = "start" THEN "config" ELSE "listen"]
  BY DEF Begin, Goto, StartsWith
<1>2. \A p \in Ops : at'[p] \in {"listen", "vpn"} /\ kind'[p] = "start"
                       => at[p] \in {"listen", "vpn"} /\ kind[p] = "start"
  BY <1>1 DEF TypeOK
<1>3. /\ at' \in [Ops -> {"none", "config", "listen", "vpn", "tasks"}]
      /\ kind' \in [Ops -> {"start", "stop"}]
  BY <1>1 DEF TypeOK
<1> QED  BY <1>2, <1>3

LEMMA Calls ==
  ASSUME TypeOK, NEW k \in {"start", "stop"}, UpdateStatus(k)
  PROVE  /\ at' \in [Ops -> {"none", "config", "listen", "vpn", "tasks"}]
         /\ kind' \in [Ops -> {"start", "stop"}]
         /\ startTime' \in BOOLEAN /\ crossed' \in BOOLEAN
         /\ UNCHANGED << timer, timers, executing >>
         /\ \A o \in Ops : at'[o] \in {"listen", "vpn"} /\ kind'[o] = "start"
                             => at[o] \in {"listen", "vpn"} /\ kind[o] = "start"
<1>1. startTime' \in BOOLEAN /\ crossed' \in BOOLEAN /\ UNCHANGED << timer, timers, executing >>
  BY DEF UpdateStatus
<1>2. Begin(k)
  BY DEF UpdateStatus
<1> QED  BY <1>1, <1>2, Begins

LEMMA UserSteps ==
  ASSUME RunInv, PressButton \/ Toggle \/ Open \/ Leave \/ Killed
  PROVE  RunInv'
<1> USE AndroidRunAssumption
    DEF AndroidRunAssumption, dart, kotlin, core, process, RunInv
<1>1. CASE PressButton
  <2>1. PICK k \in {"start", "stop"} : UpdateStatus(k)
    BY <1>1 DEF PressButton
  <2>2. presses' \in 0 .. MaxPresses /\ UNCHANGED << kotlin, core, app >>
    BY <1>1 DEF PressButton, Press, TypeOK
  <2> QED  BY <2>1, <2>2, Calls DEF TypeOK, TimerCounts, ConfiguredFirst, Coming
<1>2. CASE Toggle
  <2>0. presses' \in 0 .. MaxPresses
    BY <1>2 DEF Toggle, Press, TypeOK
  <2>1. ASSUME NEW k \in {"start", "stop"}, UpdateStatus(k), runState' = "PENDING",
               UNCHANGED << sync, permitted, asking, bound, binding, engine, core, app >>
        PROVE  RunInv'
    BY <2>0, <2>1, Calls DEF TypeOK, TimerCounts, ConfiguredFirst, Coming
  <2>2. ASSUME runState' = "PENDING", engine' = (IF engine = "none" THEN "boot" ELSE engine),
               UNCHANGED << dart, sync, permitted, asking, bound, binding, core, app, crossed >>
        PROVE  RunInv'
    BY <2>0, <2>2 DEF TypeOK, TimerCounts, ConfiguredFirst, Coming
  <2>3. ASSUME Exit, UNCHANGED permitted PROVE RunInv'
    BY <2>0, <2>3, Exits DEF TypeOK
  <2> QED  BY <1>2, <2>1, <2>2, <2>3 DEF Toggle
<1>3. CASE Open
  <2>1. /\ app' = TRUE /\ engine' = "up" /\ startTime' = tun
        /\ crossed' \in BOOLEAN /\ presses' \in 0 .. MaxPresses
        /\ UNCHANGED << timer, timers, executing, core >>
        /\ UNCHANGED << runState, sync, permitted, asking, bound, binding >>
    BY <1>3 DEF Open, Press, TypeOK
  <2>2. PICK k \in {"start", "stop"} : Begin(k)
    BY <1>3 DEF Open
  <2> QED  BY <2>1, <2>2, Begins DEF TypeOK, TimerCounts, ConfiguredFirst, Coming
<1>4. CASE Leave
  <2>1. presses' \in 0 .. MaxPresses
    BY <1>4 DEF Leave, Press, TypeOK
  <2> QED  BY <1>4, <2>1 DEF Leave, TypeOK, TimerCounts, ConfiguredFirst, Coming
<1>5. CASE Killed
  BY <1>5, Exits DEF Killed, TypeOK
<1> QED  BY <1>1, <1>2, <1>3, <1>4, <1>5

\* The service starts the device, or finds it started.
LEMMA Starting ==
  ASSUME StartService, TypeOK
  PROVE  runState' \in {"STOP", "PENDING", "START"} /\ tun' \in BOOLEAN
BY DEF StartService, Established, TypeOK

\* The steps of a call in the app's isolate.
LEMMA CallSteps ==
  ASSUME RunInv, NEW o \in Ops,
         \/ \E ok \in BOOLEAN : ApplyProfile(o, ok)
         \/ Listen(o) \/ CallStart(o) \/ CallStop(o) \/ Tasks(o)
  PROVE  RunInv'
<1> USE DEF dart, kotlin, core, process, RunInv, Goto
<1>1. ASSUME NEW ok \in BOOLEAN, ApplyProfile(o, ok) PROVE RunInv'
  <2>1. TypeOK' /\ TimerCounts'
    BY <1>1 DEF ApplyProfile, TypeOK, TimerCounts
  <2>2. CASE ok
    BY <1>1, <2>1, <2>2 DEF ApplyProfile, ConfiguredFirst
  <2>3. CASE ~ok
    BY <1>1, <2>1, <2>3 DEF ApplyProfile, ConfiguredFirst, Coming, TypeOK
  <2> QED  BY <2>2, <2>3
<1>2. CASE Listen(o)
  <2>1. TypeOK' /\ TimerCounts'
    BY <1>2 DEF Listen, TypeOK, TimerCounts
  <2>2. ConfiguredFirst'
    BY <1>2 DEF Listen, ConfiguredFirst, Coming, TypeOK
  <2> QED  BY <2>1, <2>2
<1>3. CASE CallStart(o)
  <2>1. configured
    BY <1>3 DEF CallStart, ConfiguredFirst, Coming
  <2>2. configured'
    BY <1>3, <2>1 DEF CallStart
  <2>3. /\ at' \in [Ops -> {"none", "config", "listen", "vpn", "tasks"}]
        /\ UNCHANGED << kind, startTime, timer, timers, executing, sync, permitted, bound, engine >>
        /\ UNCHANGED << configured, listening, app, presses >>
    BY <1>3 DEF CallStart, TypeOK
  <2>4. crossed' \in BOOLEAN
    BY <1>3 DEF CallStart, TypeOK
  <2>5. asking' \in BOOLEAN /\ binding' \in BOOLEAN
    BY <1>3 DEF CallStart, TypeOK
  <2>6. runState' \in {"STOP", "PENDING", "START"} /\ tun' \in BOOLEAN
    BY <1>3, Starting DEF CallStart, Refused, TypeOK
  <2>7. TypeOK' /\ TimerCounts'
    BY <2>3, <2>4, <2>5, <2>6 DEF TypeOK, TimerCounts
  <2> QED  BY <2>2, <2>7 DEF ConfiguredFirst
<1>4. CASE CallStop(o)
  <2>1. TypeOK' /\ TimerCounts'
    <3>1. runState' \in {"STOP", "PENDING", "START"} /\ tun' \in BOOLEAN
      BY <1>4 DEF CallStop, TypeOK
    <3>2. crossed' \in BOOLEAN
      BY <1>4 DEF CallStop
    <3> QED  BY <1>4, <3>1, <3>2 DEF CallStop, TypeOK, TimerCounts
  <2>2. ConfiguredFirst'
    BY <1>4 DEF CallStop, ConfiguredFirst, Coming, TypeOK
  <2> QED  BY <2>1, <2>2
<1>5. CASE Tasks(o)
  <2>1. TypeOK' /\ TimerCounts'
    BY <1>5 DEF Tasks, StartUpdateTasks, TypeOK, TimerCounts
  <2>2. ConfiguredFirst'
    BY <1>5 DEF Tasks, ConfiguredFirst, Coming, TypeOK
  <2> QED  BY <2>1, <2>2
<1> QED  BY <1>1, <1>2, <1>3, <1>4, <1>5

LEMMA LoopSteps ==
  ASSUME RunInv, TasksDone \/ TimerFires
  PROVE  RunInv'
<1> USE DEF dart, kotlin, core, process, RunInv
<1>1. CASE TasksDone
  BY <1>1 DEF TasksDone, TypeOK, TimerCounts, ConfiguredFirst, Coming
<1>2. CASE TimerFires
  <2>1. TypeOK' /\ TimerCounts'
    BY <1>2 DEF TimerFires, StartUpdateTasks, TypeOK, TimerCounts
  <2>2. ConfiguredFirst'
    BY <1>2 DEF TimerFires, ConfiguredFirst, Coming
  <2> QED  BY <2>1, <2>2
<1> QED  BY <1>1, <1>2

LEMMA SystemSteps ==
  ASSUME RunInv,
         \/ \E g \in BOOLEAN : Answer(g)
         \/ Connected \/ QuickStart \/ SyncAsk \/ SyncApply
  PROVE  RunInv'
<1> USE DEF dart, kotlin, core, process, RunInv
<1>1. ASSUME NEW g \in BOOLEAN, Answer(g) PROVE RunInv'
  <2>1. /\ asking' \in BOOLEAN /\ permitted' \in BOOLEAN
        /\ UNCHANGED << at, kind, startTime, timer, timers, executing >>
        /\ UNCHANGED << sync, bound, engine, configured, listening, app, presses >>
    BY <1>1 DEF Answer
  <2>2. crossed' \in BOOLEAN /\ binding' \in BOOLEAN
    BY <1>1 DEF Answer, TypeOK
  <2>3. runState' \in {"STOP", "PENDING", "START"} /\ tun' \in BOOLEAN
    BY <1>1, Starting DEF Answer, TypeOK
  <2>4. TypeOK' /\ TimerCounts'
    <3>1. TypeOK'
      BY <2>1, <2>2, <2>3 DEF TypeOK
    <3>2. TimerCounts'
      BY <2>1 DEF TimerCounts
    <3> QED  BY <3>1, <3>2
  <2>5. configured'
    BY <1>1 DEF Answer, ConfiguredFirst, Coming
  <2> QED  BY <2>4, <2>5 DEF ConfiguredFirst
<1>2. CASE Connected
  <2>1. /\ binding' \in BOOLEAN /\ bound' \in BOOLEAN /\ crossed' \in BOOLEAN
        /\ UNCHANGED << at, kind, startTime, timer, timers, executing >>
        /\ UNCHANGED << sync, permitted, asking, engine, configured, listening, app, presses >>
    BY <1>2 DEF Connected
  <2>2. runState' \in {"STOP", "PENDING", "START"} /\ tun' \in BOOLEAN
    BY <1>2, Starting DEF Connected
  <2>3. TypeOK'
    BY <2>1, <2>2 DEF TypeOK
  <2>5. TimerCounts'
    BY <2>1 DEF TimerCounts
  <2>4. configured'
    BY <1>2 DEF Connected, ConfiguredFirst, Coming
  <2> QED  BY <2>3, <2>4, <2>5 DEF ConfiguredFirst
<1>3. CASE QuickStart
  <2>1. engine' = "up" /\ UNCHANGED << dart, sync, permitted, asking, bound, process >>
    BY <1>3 DEF QuickStart
  <2>2. CASE UNCHANGED << runState, binding, core >>
    BY <2>1, <2>2 DEF TypeOK, TimerCounts, ConfiguredFirst, Coming
  <2>3. CASE ~ UNCHANGED << runState, binding, core >>
    <3>1. configured' = TRUE /\ listening' = TRUE
      BY <1>3, <2>3 DEF QuickStart
    <3>2. binding' \in BOOLEAN
      BY <1>3, <2>3 DEF QuickStart, TypeOK
    <3>3. runState' \in {"STOP", "PENDING", "START"} /\ tun' \in BOOLEAN
      BY <1>3, <2>3, Starting DEF QuickStart, TypeOK
    <3> QED  BY <2>1, <3>1, <3>2, <3>3 DEF TypeOK, TimerCounts, ConfiguredFirst
  <2> QED  BY <2>2, <2>3
<1>4. CASE SyncAsk
  BY <1>4 DEF SyncAsk, Status, TypeOK, TimerCounts, ConfiguredFirst, Coming
<1>5. CASE SyncApply
  BY <1>5 DEF SyncApply, TypeOK, TimerCounts, ConfiguredFirst, Coming
<1> QED  BY <1>1, <1>2, <1>3, <1>4, <1>5

LEMMA Inductive == Spec => []RunInv
<1>1. RunInv /\ Next => RunInv'
  BY NextCases, UserSteps, CallSteps, LoopSteps, SystemSteps
<1>2. RunInv /\ UNCHANGED vars => RunInv'
  BY DEF RunInv, vars, dart, kotlin, core, process, TypeOK, TimerCounts, ConfiguredFirst, Coming
<1> QED  BY InitInv, <1>1, <1>2, PTL DEF Spec

\* The run state keeps its types: no stop cancels more timers than there are.
THEOREM RunTyping == Spec => []TypeOK
<1>1. RunInv => TypeOK
  BY DEF RunInv
<1> QED  BY Inductive, <1>1, PTL

\* Neither the device nor the listeners are ever there before a setup, whatever
\* dialogs, bindings, restarts of the activity and quick starts cross each other.
THEOREM NothingRunsUnconfigured == Spec => []NeverWithoutConfig
<1>1. RunInv => NeverWithoutConfig
  BY DEF RunInv, ConfiguredFirst, Coming, NeverWithoutConfig
<1> QED  BY Inductive, <1>1, PTL

-----------------------------------------------------------------------------
(***************************************************************************)
(* The app, the tile and the device agree.  AppAgrees and LoopAlive speak  *)
(* of the quiet app; AgreeInv follows a start and a stop, through the      *)
(* dialog, the binding and a status on its way, until it is quiet again.   *)
(***************************************************************************)

\* What the calls under way have still to do.
Calling(k, places) == \E o \in Ops : kind[o] = k /\ at[o] \in places

Begun    == Calling("start", {"config", "listen", "vpn", "tasks"})
Opening  == Calling("start", {"config", "listen", "vpn"})
SetUp    == Calling("start", {"listen", "vpn"})
Ended    == Calling("stop", {"config", "listen", "vpn", "tasks"})
Stopping == Calling("stop", {"listen", "vpn"})

Promised == asking \/ binding

\* Calls that never overlapped are under way one at a time.
OneCall == \A o, p \in Ops : at[o] # "none" /\ at[p] # "none" => o = p

\* Whatever the service has or will have, an engine asked for; one that boots
\* for the tile found neither app nor service.  Without an app nothing of its
\* isolate is left.
EngineInv ==
  /\ tun \/ bound \/ Promised \/ app => engine = "up"
  /\ ~app => ~asking /\ Idle

\* A status on its way still holds, and a state of START is true.
StatusInv ==
  /\ sync = "running" => tun
  /\ sync = "stopped" => ~tun
  /\ runState = "START" => tun

\* The app shows a start that is there or promised, and no other; the tile
\* follows the device; a started app has its update tasks, or a call that
\* will begin them.
ShownInv ==
  /\ Ended => ~startTime
  /\ SetUp => startTime
  /\ (tun \/ Promised) /\ ~Stopping => startTime
  /\ startTime => tun \/ Promised \/ Opening
  /\ tun => runState = "START" \/ Promised \/ Opening \/ (Stopping /\ runState = "PENDING")
  /\ startTime => executing + timers > 0 \/ Begun

AgreeInv ==
  /\ EngineInv
  /\ ~crossed => StatusInv /\ OneCall /\ (app => ShownInv)

\* Only a start applies the profile.
StartsApply == \A o \in Ops : at[o] = "config" => kind[o] = "start"

LEMMA AppliesInit == Init => StartsApply
BY DEF Init, StartsApply

LEMMA AppliesStep == TypeOK /\ StartsApply /\ [Next]_vars => StartsApply'
<1> SUFFICES ASSUME TypeOK, StartsApply, [Next]_vars PROVE StartsApply'
  OBVIOUS
<1> USE DEF dart, kotlin, core, process
<1>1. ASSUME UNCHANGED << at, kind >> PROVE StartsApply'
  BY <1>1 DEF StartsApply
<1>2. ASSUME NEW o \in Ops, NEW l, l # "config", at' = [at EXCEPT ![o] = l], kind' = kind
      PROVE  StartsApply'
  BY <1>2 DEF StartsApply, TypeOK
<1>3. ASSUME NEW k \in {"start", "stop"}, Begin(k) PROVE StartsApply'
  BY <1>3 DEF Begin, Goto, StartsWith, StartsApply, TypeOK
<1>4. CASE PressButton
  BY <1>3, <1>4 DEF PressButton, UpdateStatus
<1>5. CASE Toggle
  <2>1. (\E k \in {"start", "stop"} : Begin(k)) \/ UNCHANGED << at, kind >> \/ Exit
    BY <1>5 DEF Toggle, UpdateStatus
  <2>2. ASSUME Exit PROVE StartsApply'
    BY <2>2 DEF Exit, StartsApply
  <2> QED  BY <1>1, <1>3, <2>1, <2>2
<1>6. CASE Open \/ Leave \/ Killed
  BY <1>3, <1>6 DEF Open, Leave, Killed, Exit, StartsApply
<1>7. ASSUME NEW o \in Ops, NEW ok \in BOOLEAN, ApplyProfile(o, ok) PROVE StartsApply'
  BY <1>2, <1>7 DEF ApplyProfile, Goto
<1>8. ASSUME NEW o \in Ops, Listen(o) \/ CallStart(o) \/ CallStop(o) \/ Tasks(o) PROVE StartsApply'
  BY <1>2, <1>8 DEF Listen, CallStart, CallStop, Tasks, Goto
<1>9. CASE TasksDone \/ TimerFires \/ Connected \/ QuickStart \/ SyncAsk \/ SyncApply
           \/ \E g \in BOOLEAN : Answer(g)
  BY <1>1, <1>9 DEF TasksDone, TimerFires, Answer, Connected, QuickStart, SyncAsk, SyncApply
<1>10. CASE UNCHANGED vars
  BY <1>1, <1>10 DEF vars
<1> QED  BY <1>4, <1>5, <1>6, <1>7, <1>8, <1>9, <1>10, NextCases

LEMMA AgreeInit == Init => AgreeInv
BY DEF Init, AgreeInv, EngineInv, StatusInv, OneCall, Idle, Promised

\* Where the calls are is all that matters of them.
LEMMA CallsStay ==
  ASSUME UNCHANGED << at, kind >>
  PROVE  /\ OneCall' = OneCall /\ Idle' = Idle
         /\ Begun' = Begun /\ Opening' = Opening /\ SetUp' = SetUp
         /\ Ended' = Ended /\ Stopping' = Stopping
BY DEF OneCall, Idle, Calling, Begun, Opening, SetUp, Ended, Stopping

LEMMA NoCalls ==
  ASSUME Idle
  PROVE  OneCall /\ ~Begun /\ ~Opening /\ ~SetUp /\ ~Ended /\ ~Stopping
BY DEF OneCall, Idle, Calling, Begun, Opening, SetUp, Ended, Stopping

\* A call that is the only one is where it is, and nobody is elsewhere.
LEMMA TheCall ==
  ASSUME NEW o \in Ops, kind[o] \in {"start", "stop"},
         at[o] \in {"none", "config", "listen", "vpn", "tasks"},
         \A p \in Ops \ {o} : at[p] = "none"
  PROVE  /\ OneCall
         /\ Begun    <=> kind[o] = "start" /\ at[o] # "none"
         /\ Opening  <=> kind[o] = "start" /\ at[o] \in {"config", "listen", "vpn"}
         /\ SetUp    <=> kind[o] = "start" /\ at[o] \in {"listen", "vpn"}
         /\ Ended    <=> kind[o] = "stop" /\ at[o] # "none"
         /\ Stopping <=> kind[o] = "stop" /\ at[o] \in {"listen", "vpn"}
BY DEF OneCall, Calling, Begun, Opening, SetUp, Ended, Stopping

\* The same of the place it goes to.
LEMMA TheCallMoves ==
  ASSUME TypeOK, OneCall, NEW o \in Ops, at[o] # "none",
         NEW l \in {"none", "config", "listen", "vpn", "tasks"},
         at' = [at EXCEPT ![o] = l], kind' = kind
  PROVE  /\ kind[o] \in {"start", "stop"} /\ OneCall'
         /\ Begun    <=> kind[o] = "start"
         /\ Opening  <=> kind[o] = "start" /\ at[o] \in {"config", "listen", "vpn"}
         /\ SetUp    <=> kind[o] = "start" /\ at[o] \in {"listen", "vpn"}
         /\ Ended    <=> kind[o] = "stop"
         /\ Stopping <=> kind[o] = "stop" /\ at[o] \in {"listen", "vpn"}
         /\ Begun'    <=> kind[o] = "start" /\ l # "none"
         /\ Opening'  <=> kind[o] = "start" /\ l \in {"config", "listen", "vpn"}
         /\ SetUp'    <=> kind[o] = "start" /\ l \in {"listen", "vpn"}
         /\ Ended'    <=> kind[o] = "stop" /\ l # "none"
         /\ Stopping' <=> kind[o] = "stop" /\ l \in {"listen", "vpn"}
<1>1. /\ kind[o] \in {"start", "stop"} /\ kind'[o] = kind[o]
      /\ at[o] \in {"none", "config", "listen", "vpn", "tasks"} /\ at'[o] = l
  BY DEF TypeOK
<1>2. \A p \in Ops \ {o} : at[p] = "none" /\ at'[p] = "none"
  BY DEF OneCall, TypeOK
<1>3. /\ Begun    <=> kind[o] = "start"
      /\ Opening  <=> kind[o] = "start" /\ at[o] \in {"config", "listen", "vpn"}
      /\ SetUp    <=> kind[o] = "start" /\ at[o] \in {"listen", "vpn"}
      /\ Ended    <=> kind[o] = "stop"
      /\ Stopping <=> kind[o] = "stop" /\ at[o] \in {"listen", "vpn"}
  BY <1>1, <1>2, TheCall
<1>4. /\ OneCall'
      /\ Begun'    <=> kind[o] = "start" /\ l # "none"
      /\ Opening'  <=> kind[o] = "start" /\ l \in {"config", "listen", "vpn"}
      /\ SetUp'    <=> kind[o] = "start" /\ l \in {"listen", "vpn"}
      /\ Ended'    <=> kind[o] = "stop" /\ l # "none"
      /\ Stopping' <=> kind[o] = "stop" /\ l \in {"listen", "vpn"}
  BY <1>1, <1>2 DEF OneCall, Calling, Begun, Opening, SetUp, Ended, Stopping
<1> QED  BY <1>1, <1>3, <1>4

\* A call that begins when none was under way is at its first step.
LEMMA TheCallIs ==
  ASSUME TypeOK, NEW k \in {"start", "stop"}, Begin(k), Idle
  PROVE  /\ OneCall' /\ ~SetUp'
         /\ (Begun' <=> k = "start") /\ (Opening' <=> k = "start")
         /\ (Ended' <=> k = "stop") /\ (Stopping' <=> k = "stop")
<1>1. PICK o \in Ops :
        /\ kind' = [kind EXCEPT ![o] = k]
        /\ at' = [at EXCEPT ![o] = IF k = "start" THEN "config" ELSE "listen"]
  BY DEF Begin, Goto, StartsWith
<1>2. /\ kind'[o] = k /\ at'[o] = IF k = "start" THEN "config" ELSE "listen"
      /\ \A p \in Ops \ {o} : at'[p] = "none"
  BY <1>1 DEF TypeOK, Idle
<1> QED  BY <1>2 DEF OneCall, Calling, Begun, Opening, SetUp, Ended, Stopping

\* A press that crosses no other call.
LEMMA TheCallBegins ==
  ASSUME TypeOK, NEW k \in {"start", "stop"}, UpdateStatus(k), ~crossed'
  PROVE  /\ ~crossed /\ Idle /\ OneCall'
         /\ Begun' <=> k = "start"
         /\ Opening' <=> k = "start"
         /\ ~SetUp'
         /\ Ended' <=> k = "stop"
         /\ Stopping' <=> k = "stop"
         /\ startTime' <=> startTime /\ k = "start"
         /\ UNCHANGED << timers, executing >>
<1>1. ~crossed /\ Idle /\ UNCHANGED << timers, executing >> /\ (startTime' <=> startTime /\ k = "start")
  BY DEF UpdateStatus
<1>2. Begin(k)
  BY DEF UpdateStatus
<1> QED  BY <1>1, <1>2, TheCallIs

\* The service starts the device, whatever the state was.
LEMMA StartsDevice ==
  ASSUME StartService, runState = "START" => tun
  PROVE  runState' = "START" /\ tun'
BY DEF StartService, Established

LEMMA AgreeUser ==
  ASSUME TypeOK, AgreeInv, PressButton \/ Toggle \/ Open \/ Leave \/ Killed
  PROVE  AgreeInv'
<1> USE DEF dart, kotlin, core, process
<1>1. ASSUME Exit PROVE AgreeInv'
  BY <1>1 DEF Exit, AgreeInv, EngineInv, StatusInv, OneCall, Idle, Promised
<1>2. ASSUME NEW k \in {"start", "stop"}, app, UpdateStatus(k),
             runState' = runState \/ (runState' = "PENDING" /\ (runState = "STOP" <=> k = "start")),
             UNCHANGED << sync, asking, bound, binding, engine, core, app >>
      PROVE  AgreeInv'
  <2>1. EngineInv'
    BY <1>2 DEF AgreeInv, EngineInv, Promised
  <2>2. ASSUME ~crossed' PROVE StatusInv' /\ OneCall' /\ ShownInv'
    <3>1. /\ ~crossed /\ OneCall'
          /\ Begun' <=> k = "start"
          /\ Opening' <=> k = "start"
          /\ ~SetUp'
          /\ Ended' <=> k = "stop"
          /\ Stopping' <=> k = "stop"
          /\ startTime' <=> startTime /\ k = "start"
          /\ ~Begun /\ ~Opening /\ ~SetUp /\ ~Ended /\ ~Stopping
      BY <1>2, <2>2, TheCallBegins, NoCalls
    <3>2. StatusInv /\ ShownInv
      BY <1>2, <3>1 DEF AgreeInv
    <3>3. StatusInv'
      BY <1>2, <3>2 DEF StatusInv
    <3>4. ShownInv'
      BY <1>2, <3>1, <3>2 DEF ShownInv, Promised
    <3> QED  BY <3>1, <3>3, <3>4
  <2> QED  BY <2>1, <2>2 DEF AgreeInv
<1>3. CASE PressButton
  BY <1>2, <1>3 DEF PressButton
<1>4. CASE Toggle
  <2>1. CASE ~app /\ engine' = (IF engine = "none" THEN "boot" ELSE engine) /\ runState' = "PENDING"
             /\ UNCHANGED << dart, sync, permitted, asking, bound, binding, core, app, crossed >>
    <3>1. EngineInv' /\ (StatusInv => StatusInv')
      BY <2>1 DEF AgreeInv, EngineInv, StatusInv, Promised, Idle
    <3> QED  BY <2>1, <3>1, CallsStay DEF AgreeInv
  <2>2. CASE app /\ \E k \in {"start", "stop"} :
               /\ UpdateStatus(k) /\ runState' = "PENDING" /\ (runState = "STOP" <=> k = "start")
               /\ UNCHANGED << sync, permitted, asking, bound, binding, engine, core, app >>
    BY <1>2, <2>2
  <2> QED  BY <1>1, <1>4, <2>1, <2>2 DEF Toggle
<1>5. CASE Open
  <2>1. /\ ~app /\ app' = TRUE /\ engine' = "up" /\ startTime' = tun
        /\ UNCHANGED << tun, executing, timers, runState, sync, asking, bound, binding >>
        /\ crossed' = (crossed \/ sync # "none" \/ binding)
    BY <1>5 DEF Open
  <2>2. EngineInv'
    BY <2>1 DEF EngineInv
  <2>3. ASSUME ~crossed' PROVE StatusInv' /\ OneCall' /\ ShownInv'
    <3>1. ~crossed /\ ~Promised /\ ~Promised' /\ StatusInv
      BY <2>1, <2>3 DEF AgreeInv, EngineInv, Promised
    <3>2. StatusInv'
      BY <2>1, <3>1 DEF StatusInv
    <3>3. PICK k \in {"start", "stop"} : Begin(k) /\ (tun => k = "start")
      BY <1>5 DEF Open
    <3>4. Idle
      BY <2>1 DEF AgreeInv, EngineInv
    <3>5. /\ OneCall' /\ ~SetUp' /\ ~(Ended' /\ tun) /\ ~(Stopping' /\ tun)
          /\ (tun => Begun' /\ Opening')
      BY <3>3, <3>4, TheCallIs
    <3>6. ShownInv'
      BY <2>1, <3>1, <3>5 DEF ShownInv
    <3> QED  BY <3>2, <3>5, <3>6
  <2> QED  BY <2>2, <2>3 DEF AgreeInv
<1>6. CASE Leave
  <2>1. /\ app' = FALSE /\ asking' = FALSE /\ runState' = "STOP" /\ Idle'
        /\ UNCHANGED << sync, bound, binding, engine, tun, crossed >>
    BY <1>6 DEF Leave, Idle
  <2>2. EngineInv' /\ (StatusInv => StatusInv')
    BY <2>1 DEF AgreeInv, EngineInv, StatusInv, Promised
  <2>3. OneCall'
    BY <2>1 DEF Idle, OneCall
  <2> QED  BY <2>1, <2>2, <2>3 DEF AgreeInv
<1>7. CASE Killed
  BY <1>1, <1>7 DEF Killed
<1> QED  BY <1>3, <1>4, <1>5, <1>6, <1>7

LEMMA AgreeCall ==
  ASSUME TypeOK, TimerCounts, StartsApply, AgreeInv, NEW o \in Ops,
         \/ \E ok \in BOOLEAN : ApplyProfile(o, ok)
         \/ Listen(o) \/ CallStart(o) \/ CallStop(o) \/ Tasks(o)
  PROVE  AgreeInv'
<1> USE DEF dart, kotlin, core, process
<1>0. /\ at[o] # "none" /\ app /\ engine = "up" /\ kind' = kind
      /\ app' = app /\ engine' = engine /\ bound' = bound /\ sync' = sync
  BY DEF ApplyProfile, Listen, CallStart, CallStop, Tasks, AgreeInv, EngineInv, Idle
<1>1. EngineInv'
  BY <1>0 DEF EngineInv
<1>2. SUFFICES ASSUME ~crossed' PROVE StatusInv' /\ OneCall' /\ ShownInv'
  BY <1>1 DEF AgreeInv
<1>3. ~crossed
  BY <1>2 DEF ApplyProfile, Listen, CallStart, CallStop, Tasks
<1>4. StatusInv /\ OneCall /\ ShownInv
  BY <1>0, <1>3 DEF AgreeInv
<1>5. ASSUME NEW l \in {"none", "config", "listen", "vpn", "tasks"},
             at' = [at EXCEPT ![o] = l]
      PROVE  /\ kind[o] \in {"start", "stop"} /\ OneCall'
             /\ Begun    <=> kind[o] = "start"
             /\ Opening  <=> kind[o] = "start" /\ at[o] \in {"config", "listen", "vpn"}
             /\ SetUp    <=> kind[o] = "start" /\ at[o] \in {"listen", "vpn"}
             /\ Ended    <=> kind[o] = "stop"
             /\ Stopping <=> kind[o] = "stop" /\ at[o] \in {"listen", "vpn"}
             /\ Begun'    <=> kind[o] = "start" /\ l # "none"
             /\ Opening'  <=> kind[o] = "start" /\ l \in {"config", "listen", "vpn"}
             /\ SetUp'    <=> kind[o] = "start" /\ l \in {"listen", "vpn"}
             /\ Ended'    <=> kind[o] = "stop" /\ l # "none"
             /\ Stopping' <=> kind[o] = "stop" /\ l \in {"listen", "vpn"}
  BY <1>0, <1>4, <1>5, TheCallMoves
<1>6. ASSUME NEW ok \in BOOLEAN, ApplyProfile(o, ok) PROVE StatusInv' /\ OneCall' /\ ShownInv'
  <2>1. /\ at' = [at EXCEPT ![o] = IF ok THEN "listen" ELSE "none"] /\ at[o] = "config"
        /\ kind[o] = "start" /\ startTime' = (startTime \/ ok) /\ (ok \/ ~startTime)
        /\ UNCHANGED << tun, asking, binding, runState, executing, timers >>
    BY <1>2, <1>6 DEF ApplyProfile, Goto, StartsApply
  <2>2. StatusInv'
    BY <1>0, <1>4, <2>1 DEF StatusInv
  <2>3. CASE ok
    BY <1>4, <1>5, <2>1, <2>2, <2>3 DEF ShownInv, Promised
  <2>4. CASE ~ok
    BY <1>4, <1>5, <2>1, <2>2, <2>4 DEF ShownInv, Promised
  <2> QED  BY <2>3, <2>4
<1>7. CASE Listen(o)
  <2>1. /\ at' = [at EXCEPT ![o] = "vpn"] /\ at[o] = "listen"
        /\ UNCHANGED << startTime, tun, asking, binding, runState, executing, timers >>
    BY <1>7 DEF Listen, Goto
  <2>2. StatusInv'
    BY <1>0, <1>4, <2>1 DEF StatusInv
  <2> QED  BY <1>4, <1>5, <2>1, <2>2 DEF ShownInv, Promised
<1>8. CASE CallStart(o)
  <2>1. /\ at' = [at EXCEPT ![o] = "tasks"] /\ at[o] = "vpn" /\ kind[o] = "start"
        /\ UNCHANGED << startTime, executing, timers >>
    BY <1>2, <1>8 DEF CallStart, Goto
  <2>2. \/ asking' /\ UNCHANGED << runState, binding, tun >>
        \/ binding' /\ UNCHANGED << runState, asking, tun >>
        \/ StartService /\ sync = "none" /\ ~Promised /\ UNCHANGED << asking, binding >>
    BY <1>2, <1>8 DEF CallStart, Racing, Promised
  <2>3. StatusInv' /\ (Promised' \/ (tun' /\ runState' = "START"))
    BY <1>0, <1>4, <2>2, StartsDevice DEF StatusInv, Promised
  <2> QED  BY <1>4, <1>5, <2>1, <2>3 DEF ShownInv
<1>9. CASE CallStop(o)
  <2>1. /\ at' = [at EXCEPT ![o] = "tasks"] /\ at[o] = "vpn" /\ kind[o] = "stop"
        /\ sync = "none" /\ ~Promised /\ ~Promised'
        /\ UNCHANGED << startTime, executing, timers >>
    BY <1>2, <1>9 DEF CallStop, Racing, Promised, Goto
  <2>2. ~tun' /\ runState' # "START"
    BY <1>9, <1>4, <1>5, <2>1 DEF CallStop, Stopped, StatusInv, ShownInv
  <2>3. StatusInv'
    BY <1>0, <2>1, <2>2 DEF StatusInv
  <2> QED  BY <1>4, <1>5, <2>1, <2>2, <2>3 DEF ShownInv
<1>10. CASE Tasks(o)
  <2>1. /\ at' = [at EXCEPT ![o] = "none"] /\ at[o] = "tasks"
        /\ UNCHANGED << startTime, tun, asking, binding, runState >>
    BY <1>10 DEF Tasks, Goto
  <2>2. StatusInv'
    BY <1>0, <1>4, <2>1 DEF StatusInv
  <2>3. kind[o] = "start" => executing' + timers' > 0
    BY <1>10 DEF Tasks, StartUpdateTasks, HasTimer, TimerCounts, TypeOK
  <2> QED  BY <1>4, <1>5, <2>1, <2>2, <2>3 DEF ShownInv, Promised
<1> QED  BY <1>6, <1>7, <1>8, <1>9, <1>10

LEMMA AgreeLoop ==
  ASSUME TypeOK, AgreeInv, TasksDone \/ TimerFires
  PROVE  AgreeInv'
<1> USE DEF dart, kotlin, core, process
<1>1. /\ UNCHANGED << at, kind, startTime, runState, sync, asking, bound, binding, engine >>
      /\ UNCHANGED << tun, app, crossed >>
  BY DEF TasksDone, TimerFires
<1>2. executing' + timers' > 0
  BY DEF TasksDone, TimerFires, StartUpdateTasks, HasTimer, TypeOK
<1>3. EngineInv' /\ (StatusInv => StatusInv') /\ (OneCall => OneCall')
  BY <1>1, CallsStay DEF AgreeInv, EngineInv, StatusInv, Promised
<1>4. ShownInv => ShownInv'
  BY <1>1, <1>2, CallsStay DEF ShownInv, Promised
<1> QED  BY <1>1, <1>3, <1>4 DEF AgreeInv

LEMMA AgreeSystem ==
  ASSUME TypeOK, AgreeInv,
         \/ \E g \in BOOLEAN : Answer(g)
         \/ Connected \/ QuickStart \/ SyncAsk \/ SyncApply
  PROVE  AgreeInv'
<1> USE DEF dart, kotlin, core, process
<1>0. UNCHANGED << at, kind, startTime, timers, executing, app >>
  BY DEF Answer, Connected, QuickStart, SyncAsk, SyncApply
<1>1. EngineInv'
  <2>1. CASE QuickStart
    BY <1>0, <2>1, CallsStay DEF QuickStart, AgreeInv, EngineInv
  <2>2. CASE Connected \/ \E g \in BOOLEAN : Answer(g)
    BY <1>0, <2>2, CallsStay DEF Answer, Connected, AgreeInv, EngineInv, Promised
  <2>3. CASE SyncAsk \/ SyncApply
    BY <1>0, <2>3, CallsStay DEF SyncAsk, SyncApply, AgreeInv, EngineInv, Promised
  <2> QED  BY <2>1, <2>2, <2>3
<1>2. SUFFICES ASSUME ~crossed' PROVE StatusInv' /\ OneCall' /\ (app => ShownInv')
  BY <1>0, <1>1 DEF AgreeInv
<1>3. ~crossed
  BY <1>2 DEF Answer, Connected, QuickStart, SyncAsk, SyncApply
<1>4. StatusInv /\ OneCall /\ OneCall' /\ (app => ShownInv)
  BY <1>0, <1>3, CallsStay DEF AgreeInv
<1>5. ASSUME NEW g \in BOOLEAN, Answer(g) PROVE StatusInv' /\ (app => ShownInv')
  <2>1. sync' = sync
    BY <1>5 DEF Answer
  <2>2. \/ binding' /\ UNCHANGED << runState, tun >>
        \/ StartService /\ sync = "none" /\ UNCHANGED binding
    BY <1>2, <1>5 DEF Answer
  <2>3. StatusInv' /\ (Promised' \/ (tun' /\ runState' = "START"))
    BY <1>4, <2>1, <2>2, StartsDevice DEF StatusInv, Promised
  <2>4. asking /\ (Promised' => Promised)
    BY <1>5 DEF Answer, Promised
  <2>5. app => ShownInv'
    BY <1>0, <1>4, <2>3, <2>4, CallsStay DEF ShownInv, Promised
  <2> QED  BY <2>3, <2>5
<1>6. CASE Connected
  <2>1. binding /\ sync = "none" /\ sync' = "none" /\ StartService
    BY <1>2, <1>6 DEF Connected
  <2>2. StatusInv' /\ tun' /\ runState' = "START"
    BY <1>4, <2>1, StartsDevice DEF StatusInv
  <2>3. app => ShownInv'
    BY <1>0, <1>4, <2>1, <2>2, CallsStay DEF ShownInv, Promised
  <2> QED  BY <1>4, <2>2, <2>3
<1>7. CASE QuickStart
  <2>1. ~app /\ ~bound
    BY <1>7 DEF QuickStart, AgreeInv, EngineInv
  <2>2. UNCHANGED << runState, tun, sync >>
    BY <1>7, <2>1 DEF QuickStart
  <2> QED  BY <1>4, <2>1, <2>2 DEF StatusInv
<1>8. CASE SyncAsk
  <2>1. /\ UNCHANGED << runState, tun, asking, binding >>
        /\ sync' = IF tun THEN "running" ELSE "stopped"
    BY <1>8 DEF SyncAsk, Status, Running, AgreeInv, EngineInv
  <2> QED  BY <1>0, <1>4, <2>1, CallsStay DEF StatusInv, ShownInv, Promised
<1>9. CASE SyncApply
  <2>1. /\ sync' = "none" /\ UNCHANGED << tun, asking, binding >>
        /\ runState' = IF tun THEN "START" ELSE "STOP"
    BY <1>4, <1>9 DEF SyncApply, StatusInv, TypeOK
  <2> QED  BY <1>0, <1>4, <2>1, CallsStay DEF StatusInv, ShownInv, Promised
<1> QED  BY <1>4, <1>5, <1>6, <1>7, <1>8, <1>9

LEMMA Agreeing == Spec => []AgreeInv
<1>0. RunInv => TypeOK
  BY DEF RunInv
<1>1. RunInv /\ StartsApply /\ AgreeInv /\ Next => AgreeInv'
  BY NextCases, AgreeUser, AgreeCall, AgreeLoop, AgreeSystem DEF RunInv
<1>2. AgreeInv /\ UNCHANGED vars => AgreeInv'
  <2> SUFFICES ASSUME AgreeInv, UNCHANGED vars PROVE AgreeInv'
    OBVIOUS
  <2>1. EngineInv' /\ (StatusInv => StatusInv') /\ (OneCall => OneCall') /\ (ShownInv => ShownInv')
    BY CallsStay
    DEF AgreeInv, vars, dart, kotlin, core, process, EngineInv, StatusInv, ShownInv, Promised
  <2> QED  BY <2>1 DEF AgreeInv, vars, process
<1> QED  BY Inductive, AppliesInit, AppliesStep, AgreeInit, <1>0, <1>1, <1>2, PTL DEF Spec

\* In a quiet app whose calls did not cross, the app shows a start exactly while
\* the device is open, and the tile shows the same.
THEOREM AppAndTileAgree == Spec => []AppAgrees
<1>1. TypeOK /\ AgreeInv => AppAgrees
  <2> SUFFICES ASSUME TypeOK, AgreeInv, app, Quiet, ~crossed
               PROVE  (startTime <=> tun) /\ (runState = "START" <=> tun)
    BY DEF AppAgrees
  <2>1. StatusInv /\ ShownInv /\ ~Promised /\ ~Opening /\ ~Stopping
    BY NoCalls DEF Quiet, AgreeInv, Promised
  <2> QED  BY <2>1 DEF StatusInv, ShownInv, TypeOK
<1>2. RunInv => TypeOK
  BY DEF RunInv
<1> QED  BY Inductive, Agreeing, <1>1, <1>2, PTL

\* A started app whose calls did not cross keeps its update loop alive.
THEOREM LoopStaysAlive == Spec => []LoopAlive
<1>1. AgreeInv => LoopAlive
  BY NoCalls DEF LoopAlive, Quiet, AgreeInv, ShownInv
<1> QED  BY Agreeing, <1>1, PTL
=============================================================================
