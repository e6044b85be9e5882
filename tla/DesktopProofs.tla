-------------------------- MODULE DesktopProofs --------------------------
(***************************************************************************)
(* Proofs about the desktop application, in two parts that share nothing.  *)
(*                                                                         *)
(* The core's process and the channel to it, for any set of callers and    *)
(* cores, any number of restarts and requests, with and without the helper *)
(* service: types, that the accept loop never completes a completer twice, *)
(* that there is never more than one live core, that the channel leads to  *)
(* it, and that ControlChannel implements RequestReply.                    *)
(*                                                                         *)
(* The TUN switch of DesktopTun, for any number of operations: types, that *)
(* nothing is asked of TUN before the rights are there, and that switching *)
(* off and restarting reach the core when operations wait for each other.  *)
(***************************************************************************)
EXTENDS ControlChannel, DesktopTun, TLAPS

\* What it takes to be a step of some actor, as a list to split proofs on.
LEMMA NextCases ==
  ASSUME Next
  PROVE  \/ \E a \in Callers : RestartBegin(a)
         \/ \E a \in Callers :
              Bind(a) \/ Spawn(a) \/ SpawnFails(a) \/ Assign(a)
         \/ \E a \in Callers \cup {"exit"} : Kill(a) \/ HelperClient(a)
         \/ \E a \in Actors : DestroyStep(a)
         \/ ExitBegin \/ CloseServer \/ Exit \/ ServerBind
         \/ Accept \/ Complete
         \/ \E c \in Cores : CoreStep(c)
         \/ HelperStep
BY DEF Next, CallerStep, ExitStep, LoopStep, Actors

\* Completing a completer leaves the sequence of completers one.
LEMMA ExceptSeq ==
  ASSUME NEW S, NEW s \in Seq(S), NEW e \in S, s # << >>
  PROVE  /\ [s EXCEPT ![Len(s)] = e] \in Seq(S)
         /\ [s EXCEPT ![Len(s)] = e] # << >>
         /\ Len([s EXCEPT ![Len(s)] = e]) = Len(s)
<1> DEFINE t == [s EXCEPT ![Len(s)] = e]
<1>1. Len(s) \in Nat /\ DOMAIN s = 1..Len(s) /\ \A i \in 1..Len(s) : s[i] \in S
  OBVIOUS
<1>2. t \in [1..Len(s) -> S]
  BY <1>1
<1>3. t \in Seq(S) /\ Len(t) = Len(s)
  BY <1>1, <1>2
<1>4. Len(s) # 0
  OBVIOUS
<1> HIDE DEF t
<1> QED BY <1>3, <1>4 DEF t

\* The state keeps its types.
LEMMA TypeInit == Init => TypeOK
<1> SUFFICES ASSUME Init PROVE TypeOK
  OBVIOUS
<1>1. completers \in Seq(MaybeCore) /\ completers # << >>
  BY DEF Init, MaybeCore
<1>2. backlog \in Seq(Cores)
  BY DEF Init
<1> QED
  BY <1>1, <1>2 DEF Init, TypeOK, MaybeCore, Labels, Abandoned

LEMMA TypeStep == TypeOK /\ [Next]_vars => TypeOK'
<1> SUFFICES ASSUME TypeOK, [Next]_vars PROVE TypeOK'
  OBVIOUS
<1> USE LauncherAssumption DEF LauncherAssumption, TypeOK, Actors, MaybeCore, Labels
<1>1. ASSUME NEW a \in Callers, RestartBegin(a) PROVE TypeOK'
  BY <1>1 DEF RestartBegin, NewCompleter, Goto, ShutdownStart, socketVars, coreVars, helperVars
<1>2. ASSUME NEW a \in Callers,
             Bind(a) \/ Spawn(a) \/ SpawnFails(a) \/ Assign(a)
      PROVE TypeOK'
  <2>1. CASE Bind(a)
    BY <2>1 DEF Bind, Move, Goto, socketVars, coreVars, helperVars
  <2>2. CASE Spawn(a)
    BY <2>2 DEF Spawn, Move, Goto, socketVars, helperVars
  <2>3. CASE SpawnFails(a)
    BY <2>3 DEF SpawnFails, Finish, Goto, socketVars, coreVars, helperVars
  <2>4. CASE Assign(a)
    BY <2>4 DEF Assign, Finish, Goto, socketVars, coreVars, helperVars
  <2> QED BY <1>2, <2>1, <2>2, <2>3, <2>4
<1>3. ASSUME NEW a \in Callers \cup {"exit"}, Kill(a) \/ HelperClient(a)
      PROVE TypeOK'
  <2>1. CASE Kill(a)
    BY <2>1 DEF Kill, Stopped, Alive, Move, Goto, socketVars, helperVars
  <2>2. CASE NotAdmin(a)
    BY <2>2 DEF NotAdmin, Move, Goto, socketVars, coreVars
  <2>3. CASE CallHelper(a)
    BY <2>3 DEF CallHelper, Move, Goto, socketVars, coreVars
  <2>4. CASE HelperReply(a)
    <3>1. \/ Goto(a, "destroy") /\ UNCHANGED isStarting
          \/ Finish(a)
          \/ Goto(a, "spawn") /\ UNCHANGED isStarting
      BY <2>4 DEF HelperReply
    <3>2. pc' \in [Actors -> Labels] /\ isStarting' \in BOOLEAN
      BY <3>1 DEF Finish, Goto
    <3>3. asked' \in [Actors -> {"none", "sent", "mid", "ok", "fail"}]
      BY <2>4 DEF HelperReply
    <3> QED
      BY <2>4, <3>2, <3>3 DEF HelperReply, socketVars, coreVars
  <2>5. CASE HelperTimeout(a)
    BY <2>5 DEF HelperTimeout, Stage, Abandoned, Move, Goto, socketVars, coreVars
  <2> QED BY <1>3, <2>1, <2>2, <2>3, <2>4, <2>5 DEF HelperClient
<1>4. ASSUME NEW a \in Actors, DestroyStep(a) PROVE TypeOK'
  <2>1. CASE DestroyBegin(a)
    <3>1. pc' \in [Actors -> Labels]
      BY <2>1 DEF DestroyBegin, AfterDestroy, Move, Goto
    <3>2. sock \in MaybeCore
      BY DEF sock
    <3>3. closing' \in [Actors -> MaybeCore] /\ link' \in [Cores -> {"none", "open", "closed"}]
      <4>1. \/ closing' = closing /\ link' = link
            \/ closing' = [closing EXCEPT ![a] = sock]
               /\ link' = [link EXCEPT ![sock] = "closed"]
        BY <2>1 DEF DestroyBegin
      <4> QED BY <3>2, <4>1
    <3> QED BY <2>1, <3>1, <3>3 DEF DestroyBegin, socketVars, helperVars
  <2>2. CASE DestroyEnd(a)
    BY <2>2 DEF DestroyEnd, AfterDestroy, NewCompleter, Move, Goto, socketVars, coreVars, helperVars
  <2>3. CASE DestroyThrows(a)
    <3>1. pc' \in [Actors -> Labels] /\ isStarting' \in BOOLEAN
      BY <2>3 DEF DestroyThrows, Finish, Goto
    <3>2. closing' \in [Actors -> MaybeCore]
      BY <2>3 DEF DestroyThrows
    <3> QED  BY <2>3, <3>1, <3>2 DEF DestroyThrows, socketVars, coreVars, helperVars
  <2> QED BY <1>4, <2>1, <2>2, <2>3 DEF DestroyStep
<1>5. CASE ExitBegin
  BY <1>5 DEF ExitBegin, ShutdownStart, Move, Goto, socketVars, coreVars, helperVars
<1>6. CASE CloseServer
  BY <1>6 DEF CloseServer, Move, Goto, helperVars
<1>7. CASE Exit
  BY <1>7 DEF Exit, Move, Goto, helperVars
<1>8. CASE ServerBind
  BY <1>8 DEF ServerBind, dartVars, coreVars, helperVars
<1>9. CASE Accept
  BY <1>9 DEF Accept, Move, Goto, coreVars, helperVars
<1>10. CASE Complete
  <2>1. completers' \in Seq(MaybeCore) /\ completers' # << >>
    <3>1. CASE sock = NoCore
      <4>1. completers' = [completers EXCEPT ![Len(completers)] = incoming]
        BY <1>10, <3>1 DEF Complete
      <4> QED BY <4>1, ExceptSeq
    <3>2. CASE sock # NoCore
      BY <1>10, <3>2 DEF Complete
    <3> QED BY <3>1, <3>2
  <2>2. pc' \in [Actors -> Labels]
    BY <1>10 DEF Complete, Move, Goto
  <2>3. link' \in [Cores -> {"none", "open", "closed"}]
    BY <1>10 DEF Complete
  <2> QED BY <1>10, <2>1, <2>2, <2>3 DEF Complete, helperVars
<1>11. ASSUME NEW c \in Cores, CoreStep(c) PROVE TypeOK'
  <2>1. CASE Connect(c)
    <3>1. backlog' = Append(backlog, c) \/ backlog' = backlog
      BY <2>1 DEF Connect
    <3>2. backlog' \in Seq(Cores)
      <4> HIDE DEF TypeOK
      <4>1. backlog \in Seq(Cores) BY DEF TypeOK
      <4> QED BY <3>1, <4>1
    <3>3. core' \in [Cores -> {"unborn", "starting", "up", "dead"}]
      <4>1. \E d \in {"up", "dead"} : core' = [core EXCEPT ![c] = d]
        BY <2>1 DEF Connect, DialFailed
      <4> QED BY <4>1
    <3> QED BY <2>1, <3>2, <3>3 DEF Connect, dartVars, helperVars
  <2>2. CASE EndOfStream(c) \/ Crash(c) \/ WriteFails(c)
    BY <2>2 DEF EndOfStream, Crash, WriteFails, dartVars, socketVars, helperVars
  <2> QED BY <1>11, <2>1, <2>2 DEF CoreStep
<1>12. CASE HelperStep
  <2>1. ASSUME NEW a \in Actors, HelperStop(a) \/ HelperSpawn(a) \/ HelperFails(a)
        PROVE TypeOK'
    <3>1. CASE HelperStop(a)
      BY <3>1 DEF HelperStop, KillHelperCore, Stopped, Alive, dartVars, socketVars
    <3>2. CASE HelperSpawn(a)
      BY <3>2 DEF HelperSpawn, SpawnHelperCore, dartVars, socketVars
    <3>3. CASE HelperFails(a)
      BY <3>3 DEF HelperFails, dartVars, socketVars, coreVars
    <3> QED BY <2>1, <3>1, <3>2, <3>3
  <2>2. ASSUME NEW k \in Abandoned, LateStop(k) \/ LateFails(k) PROVE TypeOK'
    <3>1. CASE LateStop(k)
      <4>1. late' \in [Abandoned -> Nat]
        BY <2>2, <3>1 DEF LateStop, Abandoned
      <4> QED
        BY <3>1, <4>1 DEF LateStop, KillHelperCore, Stopped, Alive, dartVars, socketVars
    <3>2. CASE LateFails(k)
      <4>1. late' \in [Abandoned -> Nat]
        BY <2>2, <3>2 DEF LateFails
      <4> QED BY <3>2, <4>1 DEF LateFails, dartVars, socketVars, coreVars
    <3> QED BY <2>2, <3>1, <3>2
  <2>3. CASE LateSpawn
    <3>1. late' \in [Abandoned -> Nat]
      BY <2>3 DEF LateSpawn, Abandoned
    <3> QED BY <2>3, <3>1 DEF LateSpawn, SpawnHelperCore, dartVars, socketVars
  <2> QED BY <1>12, <2>1, <2>2, <2>3 DEF HelperStep
<1>13. CASE UNCHANGED vars
  BY <1>13 DEF vars, dartVars, socketVars, coreVars, helperVars
<1> QED
  BY <1>1, <1>2, <1>3, <1>4, <1>5, <1>6, <1>7, <1>8, <1>9, <1>10, <1>11, <1>12, <1>13, NextCases

THEOREM Typing == Spec => []TypeOK
BY TypeInit, TypeStep, PTL DEF Spec

-----------------------------------------------------------------------------
(***************************************************************************)
(* The accept loop reaches complete() only from _destroySocket(), which    *)
(* leaves a blank completer behind, and nobody but the loop completes one. *)
(***************************************************************************)

LEMMA CompleteInit == Init => CompleteOnce
BY DEF Init, CompleteOnce, Actors

LEMMA CompleteStep == TypeOK /\ CompleteOnce /\ [Next]_vars => CompleteOnce'
<1> SUFFICES ASSUME TypeOK, CompleteOnce, [Next]_vars, pc'["loop"] = "complete"
             PROVE  sock' = NoCore
  BY DEF CompleteOnce
<1> USE LauncherAssumption DEF LauncherAssumption, TypeOK, Actors
<1>1. CASE NewCompleter
  BY <1>1 DEF NewCompleter, sock
<1>2. CASE UNCHANGED << completers, pc >>
  BY <1>2 DEF CompleteOnce, sock
<1>3. ASSUME UNCHANGED completers, NEW a \in Actors \ {"loop"},
             NEW l, pc' = [pc EXCEPT ![a] = l]
      PROVE  sock' = NoCore
  BY <1>3 DEF CompleteOnce, sock
<1>4. ASSUME NEW a \in Callers, RestartBegin(a) PROVE sock' = NoCore
  BY <1>1, <1>4 DEF RestartBegin
<1>5. ASSUME NEW a \in Callers, Bind(a) \/ Spawn(a) \/ SpawnFails(a) \/ Assign(a)
      PROVE sock' = NoCore
  <2>1. UNCHANGED completers /\ \E l : pc' = [pc EXCEPT ![a] = l]
    BY <1>5 DEF Bind, Spawn, SpawnFails, Assign, Finish, Move, Goto
  <2> QED BY <1>3, <2>1
<1>6. ASSUME NEW a \in Callers \cup {"exit"}, Kill(a) \/ HelperClient(a)
      PROVE sock' = NoCore
  <2>1. CASE Kill(a) \/ NotAdmin(a)
    <3>1. UNCHANGED completers /\ \E l : pc' = [pc EXCEPT ![a] = l]
      BY <2>1 DEF Kill, NotAdmin, Move, Goto
    <3> QED BY <1>3, <3>1
  <2>2. CASE CallHelper(a) \/ HelperTimeout(a)
    <3>1. UNCHANGED completers /\ \E l : pc' = [pc EXCEPT ![a] = l]
      BY <2>2 DEF CallHelper, HelperTimeout, Move, Goto
    <3> QED BY <1>3, <3>1
  <2>3. CASE HelperReply(a)
    <3>1. UNCHANGED completers /\ \E l : pc' = [pc EXCEPT ![a] = l]
      BY <2>3 DEF HelperReply, Finish, Goto
    <3> QED BY <1>3, <3>1
  <2> QED BY <1>6, <2>1, <2>2, <2>3 DEF HelperClient
<1>7. ASSUME NEW a \in Actors, DestroyStep(a) PROVE sock' = NoCore
  <2>1. CASE DestroyBegin(a)
    <3>1. CASE a = "loop" /\ sock # NoCore
      BY <2>1, <3>1 DEF DestroyBegin, Move, Goto
    <3>2. CASE a = "loop" /\ sock = NoCore
      BY <2>1, <3>2 DEF DestroyBegin, sock
    <3>3. CASE a # "loop"
      BY <1>3, <2>1, <3>3 DEF DestroyBegin, Move, Goto
    <3> QED BY <3>1, <3>2, <3>3
  <2>2. CASE DestroyEnd(a)
    BY <1>1, <2>2 DEF DestroyEnd
  <2>3. CASE DestroyThrows(a)
    BY <1>3, <2>3 DEF DestroyThrows, Finish, Goto
  <2> QED BY <1>7, <2>1, <2>2, <2>3 DEF DestroyStep
<1>8. CASE ExitBegin \/ CloseServer \/ Exit
  BY <1>3, <1>8 DEF ExitBegin, CloseServer, Exit, Move, Goto
<1>9. CASE Accept \/ Complete
  BY <1>9 DEF Accept, Complete, Move, Goto
<1>10. CASE ServerBind \/ HelperStep \/ \E c \in Cores : CoreStep(c)
  BY <1>2, <1>10 DEF ServerBind, HelperStep, HelperStop, HelperSpawn, HelperFails,
     LateStop, LateFails, LateSpawn, CoreStep, Connect, EndOfStream, Crash,
     WriteFails, dartVars
<1>11. CASE UNCHANGED vars
  BY <1>2, <1>11 DEF vars, dartVars
<1> QED
  BY <1>4, <1>5, <1>6, <1>7, <1>8, <1>9, <1>10, <1>11, NextCases

\* No socketCompleter is ever completed twice: the accept loop of
\* _initServer() cannot be ended by a StateError of complete().
THEOREM Completed == Spec => []CompleteOnce
BY TypeInit, TypeStep, CompleteInit, CompleteStep, PTL DEF Spec

-----------------------------------------------------------------------------
(***************************************************************************)
(* At most one live core.  OneLiveCore is not inductive: it says nothing   *)
(* of a caller about to spawn while an old core lives.  OwnerInv adds who  *)
(* may be under way, that a start begins with no process of its own, and   *)
(* that every live core is somebody's.                                     *)
(***************************************************************************)

\* isStarting is held by the one caller that is under way.
OneStarter ==
  /\ \A a \in Callers : pc[a] # "idle" => isStarting
  /\ \A a, b \in Callers : pc[a] # "idle" /\ pc[b] # "idle" => a = b

\* A start is only under way once shutdown() has given up the old process.
Starting == {"bind", "admin", "startWait", "spawn", "assign"}
StartsFromNothing == \A a \in Callers : pc[a] \in Starting => process = NoCore

\* Who can be waiting for the helper, and for what.
HelperShape ==
  /\ \A a \in Actors : asked[a] # "none" => pc[a] \in {"stopWait", "startWait"}
  /\ \A a \in Actors : asked[a] = "mid" => a \in Callers /\ pc[a] = "startWait"
  /\ pc["exit"] \notin Starting
  /\ pc["loop"] \in {"idle", "destroy", "closing", "complete", "dead"}

\* Without Windows the helper plays no part.
HelperUnused ==
  ~Windows =>
    /\ helper = NoCore /\ \A k \in Abandoned : late[k] = 0
    /\ \A a \in Actors :
         pc[a] \notin {"stopHelper", "stopWait", "admin", "startWait"}

\* A helper that did all it was asked runs every core there is, and none
\* between the two halves of a start.
HelperRules ==
  ~helperFailed =>
    /\ \A k \in Abandoned : late[k] = 0
    /\ \A a \in Actors : asked[a] # "fail" /\ (asked[a] = "mid" => helper = NoCore)
    /\ Windows =>
         process = NoCore /\ \A a \in Callers : pc[a] \notin {"spawn", "assign"}

\* Every live core is the app's, the helper's, or about to be the app's.
LiveIsOwned ==
  ~helperFailed => \A c \in Cores : Alive(c) =>
    \/ c = process \/ c = helper
    \/ \E a \in Callers : pc[a] = "assign" /\ c = child[a]

OwnerInv == /\ OneStarter /\ StartsFromNothing /\ HelperShape
            /\ HelperUnused /\ HelperRules /\ LiveIsOwned

LEMMA OwnerInit == Init => OwnerInv
BY LauncherAssumption DEF LauncherAssumption, Init, OwnerInv, OneStarter, StartsFromNothing, Starting,
   HelperShape, HelperUnused, HelperRules, LiveIsOwned, Alive, Actors, Abandoned

LEMMA OwnerIsSafe == TypeOK /\ OwnerInv => OneLiveCore
<1> SUFFICES ASSUME TypeOK, OwnerInv, ~helperFailed, NEW c \in Cores, NEW d \in Cores,
                    Alive(c), Alive(d)
             PROVE  c = d
  BY DEF OneLiveCore
<1> USE LauncherAssumption DEF LauncherAssumption, OwnerInv
<1>1. CASE Windows
  <2>1. process = NoCore /\ \A a \in Callers : pc[a] # "assign"
    BY <1>1 DEF HelperRules
  <2> QED BY <2>1 DEF LiveIsOwned
<1>2. CASE ~Windows
  <2>1. helper = NoCore
    BY <1>2 DEF HelperUnused
  <2>2. \A a \in Callers : pc[a] = "assign" => process = NoCore
    BY DEF StartsFromNothing, Starting
  <2>3. \A a, b \in Callers : pc[a] = "assign" /\ pc[b] = "assign" => a = b
    BY DEF OneStarter
  <2> QED BY <2>1, <2>2, <2>3 DEF LiveIsOwned
<1> QED BY <1>1, <1>2

LEMMA OwnerStep == TypeOK /\ OwnerInv /\ [Next]_vars => OwnerInv'
<1> SUFFICES ASSUME TypeOK, OwnerInv, [Next]_vars PROVE OwnerInv'
  OBVIOUS
<1> USE LauncherAssumption DEF LauncherAssumption, OwnerInv, OneStarter, StartsFromNothing, Starting,
      HelperShape, HelperUnused, HelperRules, LiveIsOwned, Alive, Actors, TypeOK
<1>1. ASSUME NEW a \in Callers, RestartBegin(a) PROVE OwnerInv'
  BY <1>1 DEF RestartBegin, MayRestart, Goto, ShutdownStart, coreVars, helperVars
<1>2. ASSUME NEW a \in Callers,
             Bind(a) \/ Spawn(a) \/ SpawnFails(a) \/ Assign(a)
      PROVE OwnerInv'
  <2>1. CASE Bind(a)
    BY <2>1 DEF Bind, Move, Goto, coreVars, helperVars
  <2>2. CASE Spawn(a)
    BY <2>2 DEF Spawn, Move, Goto, helperVars
  <2>3. CASE SpawnFails(a)
    BY <2>3 DEF SpawnFails, Finish, Goto, coreVars, helperVars
  <2>4. CASE Assign(a)
    BY <2>4 DEF Assign, Finish, Goto, coreVars, helperVars
  <2> QED BY <1>2, <2>1, <2>2, <2>3, <2>4
<1>3. ASSUME NEW a \in Callers \cup {"exit"}, Kill(a) \/ HelperClient(a)
      PROVE OwnerInv'
  <2>1. CASE Kill(a)
    BY <2>1 DEF Kill, Stopped, Move, Goto, helperVars
  <2>2. CASE NotAdmin(a)
    BY <2>2 DEF NotAdmin, Move, Goto, coreVars
  <2>3. CASE CallHelper(a)
    <3>1. PICK l \in {"stopWait", "startWait"} :
            /\ pc' = [pc EXCEPT ![a] = l]
            /\ pc[a] = IF l = "stopWait" THEN "stopHelper" ELSE "admin"
      BY <2>3 DEF CallHelper, Move, Goto
    <3>2. asked' = [asked EXCEPT ![a] = "sent"]
          /\ UNCHANGED << core, process, child, isStarting, helper, late, helperFailed >>
      BY <2>3 DEF CallHelper, coreVars
    <3> QED BY <3>1, <3>2
  <2>4. CASE HelperReply(a)
    <3>1. CASE pc[a] = "stopWait" /\ Goto(a, "destroy") /\ UNCHANGED isStarting
      BY <2>4, <3>1 DEF HelperReply, Goto, coreVars
    <3>2. CASE pc[a] = "startWait" /\ asked[a] = "ok" /\ Finish(a)
      BY <2>4, <3>2 DEF HelperReply, Finish, Goto, coreVars
    <3>3. CASE pc[a] = "startWait" /\ asked[a] = "fail"
               /\ Goto(a, "spawn") /\ UNCHANGED isStarting
      BY <2>4, <3>3 DEF HelperReply, Goto, coreVars
    <3> QED BY <2>4, <3>1, <3>2, <3>3 DEF HelperReply
  <2>5. CASE HelperTimeout(a)
    <3>1. PICK l \in {"destroy", "spawn"} :
            /\ pc' = [pc EXCEPT ![a] = l]
            /\ pc[a] = IF l = "destroy" THEN "stopWait" ELSE "startWait"
      BY <2>5 DEF HelperTimeout, Move, Goto
    <3>2. /\ asked' = [asked EXCEPT ![a] = "none"] /\ helperFailed'
          /\ UNCHANGED << core, process, child, isStarting, helper >>
      BY <2>5 DEF HelperTimeout, coreVars
    <3> QED BY <3>1, <3>2
  <2> QED BY <1>3, <2>1, <2>2, <2>3, <2>4, <2>5 DEF HelperClient
<1>4. ASSUME NEW a \in Actors, DestroyStep(a) PROVE OwnerInv'
  <2>1. CASE DestroyBegin(a)
    <3>1. PICK l \in {"closing", "complete", "kill"} :
            /\ pc' = [pc EXCEPT ![a] = l] /\ pc[a] = "destroy"
            /\ l = "kill" => a # "loop"
            /\ l = "complete" => a = "loop"
      BY <2>1 DEF DestroyBegin, AfterDestroy, Move, Goto
    <3> QED BY <2>1, <3>1 DEF DestroyBegin, helperVars
  <2>2. CASE DestroyEnd(a)
    BY <2>2 DEF DestroyEnd, AfterDestroy, Move, Goto, helperVars, coreVars
  <2>3. CASE DestroyThrows(a)
    <3>1. CASE a \in Callers
      <4>1. /\ pc' = [pc EXCEPT ![a] = "idle"] /\ isStarting' = FALSE
            /\ pc[a] = "closing"
            /\ UNCHANGED << core, process, child, helper, asked, late, helperFailed >>
        BY <2>3, <3>1 DEF DestroyThrows, Finish, Goto, helperVars, coreVars
      <4>2. \A b \in Callers : pc'[b] = "idle"
        BY <3>1, <4>1
      <4> QED BY <3>1, <4>1, <4>2
    <3>2. CASE a = "exit"
      BY <2>3, <3>2 DEF DestroyThrows, Goto, helperVars, coreVars
    <3>3. CASE a = "loop"
      BY <2>3, <3>3 DEF DestroyThrows, Goto, helperVars, coreVars
    <3> QED BY <3>1, <3>2, <3>3
  <2> QED BY <1>4, <2>1, <2>2, <2>3 DEF DestroyStep
<1>5. CASE ExitBegin \/ CloseServer \/ Exit
  BY <1>5 DEF ExitBegin, CloseServer, Exit, ShutdownStart, Move, Goto, coreVars, helperVars
<1>6. CASE Accept \/ Complete
  BY <1>6 DEF Accept, Complete, Move, Goto, coreVars, helperVars
<1>7. CASE ServerBind \/ UNCHANGED vars
  BY <1>7 DEF ServerBind, vars, dartVars, coreVars, helperVars
<1>8. ASSUME NEW c \in Cores, CoreStep(c) PROVE OwnerInv'
  <2>1. CASE Connect(c)
    BY <2>1 DEF Connect, DialFailed, dartVars, helperVars
  <2>2. CASE EndOfStream(c) \/ Crash(c) \/ WriteFails(c)
    BY <2>2 DEF EndOfStream, Crash, WriteFails, dartVars, helperVars
  <2> QED BY <1>8, <2>1, <2>2 DEF CoreStep
<1>9. CASE HelperStep
  <2>1. ASSUME NEW a \in Actors, HelperStop(a) PROVE OwnerInv'
    BY <2>1 DEF HelperStop, KillHelperCore, Stopped, Stage, dartVars
  <2>2. ASSUME NEW a \in Actors, HelperSpawn(a) PROVE OwnerInv'
    <3>1. asked[a] = "mid" /\ a \in Callers /\ pc[a] = "startWait" /\ Windows
      BY <2>2 DEF HelperSpawn, Stage
    <3>2. ~helperFailed => \A c \in Cores : ~Alive(c)
      BY <3>1
    <3>3. \A b \in Actors : asked[b] = "mid" => b = a
      BY <3>1
    <3>4. OneStarter' /\ StartsFromNothing' /\ HelperShape' /\ HelperUnused'
      BY <2>2, <3>1 DEF HelperSpawn, dartVars
    <3>5. HelperRules'
      BY <2>2, <3>1, <3>3 DEF HelperSpawn, dartVars
    <3>6. LiveIsOwned'
      BY <2>2, <3>2 DEF HelperSpawn, SpawnHelperCore, dartVars
    <3> QED BY <3>4, <3>5, <3>6
  <2>3. ASSUME NEW a \in Actors, HelperFails(a) PROVE OwnerInv'
    BY <2>3 DEF HelperFails, Stage, Abandoned, dartVars, coreVars
  <2>4. ASSUME NEW k \in Abandoned, LateStop(k) \/ LateFails(k) PROVE OwnerInv'
    BY <2>4 DEF LateStop, LateFails, dartVars, coreVars
  <2>5. CASE LateSpawn
    BY <2>5 DEF LateSpawn, Abandoned, dartVars
  <2> QED BY <1>9, <2>1, <2>2, <2>3, <2>4, <2>5 DEF HelperStep
<1> QED
  BY <1>1, <1>2, <1>3, <1>4, <1>5, <1>6, <1>7, <1>8, <1>9, NextCases

\* reStart() never leaves two core processes alive, whoever calls it, quits
\* or crashes meanwhile, unless the helper let it down.
THEOREM AtMostOneCore == Spec => []OneLiveCore
<1>1. TypeOK /\ OwnerInv /\ [Next]_vars => (TypeOK /\ OwnerInv)'
  BY TypeStep, OwnerStep
<1>2. Init => TypeOK /\ OwnerInv
  BY TypeInit, OwnerInit
<1> QED BY <1>1, <1>2, OwnerIsSafe, PTL DEF Spec
-----------------------------------------------------------------------------
(***************************************************************************)
(* The channel leads to the core, where the app runs its cores itself.     *)
(* The kernel hands connections over in the order they came.  A core dials *)
(* only after its predecessor was killed, so a live core is the last that  *)
(* waits for the accept loop: nothing is accepted after it that could take *)
(* the completer from it.  Only a restart makes a new completer then, and  *)
(* that restart kills the core before it leaves isStarting open.           *)
(***************************************************************************)

\* c waits at the end of the queue, and only there.
EndsWith(q, c) == q # << >> /\ q[Len(q)] = c /\ \A i \in 1 .. Len(q) - 1 : q[i] # c

\* Where the connection of a core is before the loop completes with it.
Queued ==
  \A c \in Cores :
    /\ core[c] \in {"unborn", "starting"} =>
         link[c] = "none" /\ incoming # c /\ \A i \in DOMAIN backlog : backlog[i] # c
    /\ core[c] = "up" /\ link[c] = "none" =>
         IF backlog = << >> THEN incoming = c ELSE EndsWith(backlog, c) /\ incoming # c
    /\ core[c] = "up" /\ link[c] # "none" => backlog = << >> /\ incoming = NoCore

LoopHolds ==
  /\ pc["loop"] \in {"destroy", "closing", "complete"} => incoming # NoCore
  /\ sock # NoCore => link[sock] # "none"

\* A connected core has the completer, until a restart that will kill it.
Connected ==
  pc["loop"] = "idle" => \A c \in Cores : core[c] = "up" /\ link[c] # "none" =>
    \/ sock = c
    \/ sock = NoCore /\ \E a \in Callers : pc[a] = "destroy"
    \/ \E a \in Callers : pc[a] = "kill"

LeadsInv ==
  ~Windows /\ pc["exit"] = "idle" => ~helperFailed /\ Queued /\ LoopHolds /\ Connected

LEMMA EmptyQueue ==
  ASSUME NEW q \in Seq(Cores)
  PROVE  q = << >> <=> Len(q) = 0
OBVIOUS

LEMMA AppendEnds ==
  ASSUME NEW q \in Seq(Cores), NEW c \in Cores, \A i \in DOMAIN q : q[i] # c
  PROVE  /\ Append(q, c) # << >> /\ EndsWith(Append(q, c), c)
         /\ \A d \in Cores \ {c} : (\A i \in DOMAIN q : q[i] # d) =>
              \A i \in DOMAIN Append(q, c) : Append(q, c)[i] # d
<1>1. Append(q, c) \in Seq(Cores) /\ Len(Append(q, c)) = Len(q) + 1
  OBVIOUS
<1>2. \A i \in 1 .. Len(q) : Append(q, c)[i] = q[i]
  OBVIOUS
<1>3. Append(q, c)[Len(q) + 1] = c
  OBVIOUS
<1>4. DOMAIN q = 1 .. Len(q) /\ DOMAIN Append(q, c) = 1 .. Len(q) + 1 /\ Len(q) \in Nat
  OBVIOUS
<1>5. Append(q, c) # << >>
  BY <1>1, <1>4, EmptyQueue
<1> DEFINE r == Append(q, c)
<1> HIDE DEF r
<1> QED  BY <1>1, <1>2, <1>3, <1>4, <1>5 DEF EndsWith, r

LEMMA TailEnds ==
  ASSUME NEW q \in Seq(Cores), NEW c \in Cores, EndsWith(q, c)
  PROVE  \/ Tail(q) = << >> /\ Head(q) = c
         \/ Tail(q) # << >> /\ Head(q) # c /\ EndsWith(Tail(q), c)
<1> DEFINE t == Tail(q)
           n == Len(q)
<1>1. q # << >> /\ q[n] = c /\ \A i \in 1 .. n - 1 : q[i] # c
  BY DEF EndsWith
<1>2. n \in Nat /\ n >= 1 /\ Head(q) = q[1]
  BY <1>1
<1>3. t \in Seq(Cores) /\ Len(t) = n - 1
  BY <1>1
<1>4. \A i \in 1 .. n - 1 : t[i] = q[i + 1]
  BY <1>1
<1> HIDE DEF t, n
<1>5. t = << >> <=> n = 1
  BY <1>2, <1>3, EmptyQueue
<1>6. CASE n = 1
  BY <1>1, <1>2, <1>5, <1>6 DEF t
<1>7. CASE n > 1
  <2>1. t # << >> /\ Head(q) # c
    BY <1>1, <1>2, <1>5, <1>7
  <2>2. t[Len(t)] = c
    BY <1>1, <1>2, <1>3, <1>4, <1>7
  <2>3. \A i \in 1 .. Len(t) - 1 : t[i] # c
    BY <1>1, <1>2, <1>3, <1>4, <1>7
  <2> QED  BY <2>1, <2>2, <2>3 DEF EndsWith, t
<1> QED  BY <1>2, <1>6, <1>7

\* Who is in a queue that lost its head.
LEMMA TailOf ==
  ASSUME NEW q \in Seq(Cores), q # << >>, NEW c, \A i \in DOMAIN q : q[i] # c
  PROVE  /\ Head(q) # c /\ Head(q) \in Cores
         /\ \A i \in DOMAIN Tail(q) : Tail(q)[i] # c
<1>1. Len(q) \in Nat /\ Len(q) >= 1 /\ DOMAIN q = 1 .. Len(q) /\ Head(q) = q[1]
  OBVIOUS
<1>2. DOMAIN Tail(q) = 1 .. Len(q) - 1 /\ \A i \in 1 .. Len(q) - 1 : Tail(q)[i] = q[i + 1]
  OBVIOUS
<1> QED  BY <1>1, <1>2

\* The steps there are without the helper, while nobody quits.
LEMMA PlainSteps ==
  ASSUME TypeOK, OwnerInv, [Next]_vars, ~Windows, pc'["exit"] = "idle"
  PROVE  /\ pc["exit"] = "idle"
         /\ \/ \E a \in Callers : \/ RestartBegin(a) \/ Bind(a) \/ Spawn(a)
                                  \/ SpawnFails(a) \/ Assign(a) \/ Kill(a)
            \/ \E a \in Callers \cup {"loop"} : DestroyStep(a)
            \/ ServerBind \/ Accept \/ Complete
            \/ \E c \in Cores : CoreStep(c)
            \/ UNCHANGED vars
<1> USE LauncherAssumption DEF LauncherAssumption, Actors
<1>0. pc \in [Actors -> Labels]
  BY DEF TypeOK
<1>1. /\ \A a \in Actors : asked[a] = "none"
      /\ \A a \in Actors : pc[a] \notin {"stopHelper", "stopWait", "admin", "startWait"}
      /\ \A k \in Abandoned : late[k] = 0
  BY DEF OwnerInv, HelperShape, HelperUnused
<1>2. ASSUME NEW a \in Callers \cup {"exit"} PROVE ~HelperClient(a)
  BY <1>1 DEF HelperClient, NotAdmin, CallHelper, HelperReply, HelperTimeout, Move
<1>3. ~HelperStep
  <2>1. \A a \in Actors : Stage(a) = "none"
    BY <1>1 DEF Stage
  <2>2. \A k \in Abandoned : ~(late[k] > 0)
    BY <1>1
  <2> QED  BY <2>1, <2>2 DEF HelperStep, HelperStop, HelperSpawn, HelperFails, LateStop, LateFails,
              LateSpawn, Abandoned
<1>4. ASSUME NEW l \in Labels \ {"idle"}, pc' = [pc EXCEPT !["exit"] = l] PROVE FALSE
  BY <1>0, <1>4
<1>5. ~Kill("exit")
  BY <1>4 DEF Kill, Move, Goto, Labels
<1>6. ~DestroyStep("exit")
  BY <1>4 DEF DestroyStep, DestroyBegin, DestroyEnd, DestroyThrows, AfterDestroy, Move, Goto, Labels
<1>7. ~(ExitBegin \/ CloseServer \/ Exit)
  BY <1>4 DEF ExitBegin, ShutdownStart, CloseServer, Exit, Move, Goto, Labels
<1>8. \/ \E a \in Callers : \/ RestartBegin(a) \/ Bind(a) \/ Spawn(a)
                            \/ SpawnFails(a) \/ Assign(a) \/ Kill(a)
      \/ \E a \in Callers \cup {"loop"} : DestroyStep(a)
      \/ ServerBind \/ Accept \/ Complete
      \/ \E c \in Cores : CoreStep(c)
      \/ UNCHANGED vars
  BY <1>2, <1>3, <1>5, <1>6, <1>7, NextCases
<1>9. ASSUME NEW a \in Actors \ {"exit"}, NEW l, pc' = [pc EXCEPT ![a] = l] PROVE pc'["exit"] = pc["exit"]
  BY <1>0, <1>9
<1>10. ASSUME NEW a \in Callers, \/ RestartBegin(a) \/ Bind(a) \/ Spawn(a)
                                 \/ SpawnFails(a) \/ Assign(a) \/ Kill(a)
       PROVE  pc'["exit"] = pc["exit"]
  <2>1. \E l : pc' = [pc EXCEPT ![a] = l]
    BY <1>10 DEF RestartBegin, Bind, Spawn, SpawnFails, Assign, Kill, Finish, Move, Goto
  <2> QED  BY <1>9, <2>1
<1>11. ASSUME NEW a \in Callers \cup {"loop"}, DestroyStep(a) PROVE pc'["exit"] = pc["exit"]
  <2>1. \E l : pc' = [pc EXCEPT ![a] = l]
    BY <1>11 DEF DestroyStep, DestroyBegin, DestroyEnd, DestroyThrows, Finish, Move, Goto
  <2> QED  BY <1>9, <2>1
<1>12. ASSUME Accept \/ Complete PROVE pc'["exit"] = pc["exit"]
  <2>1. \E l : pc' = [pc EXCEPT !["loop"] = l]
    BY <1>12 DEF Accept, Complete, Move, Goto
  <2> QED  BY <1>9, <2>1
<1>13. ASSUME ServerBind \/ UNCHANGED vars \/ \E c \in Cores : CoreStep(c) PROVE pc'["exit"] = pc["exit"]
  BY <1>13 DEF ServerBind, vars, dartVars, CoreStep, Connect, EndOfStream, Crash, WriteFails
<1> QED  BY <1>8, <1>10, <1>11, <1>12, <1>13

\* Without the helper a live core is the app's, or about to be.
LEMMA PlainOwner ==
  ASSUME TypeOK, OwnerInv, ~Windows, ~helperFailed
  PROVE  /\ \A c \in Cores : Alive(c) =>
              c = process \/ \E a \in Callers : pc[a] = "assign" /\ c = child[a]
         /\ \A c, d \in Cores : Alive(c) /\ Alive(d) => c = d
<1>1. helper = NoCore
  BY DEF OwnerInv, HelperUnused
<1>2. OneLiveCore
  BY OwnerIsSafe
<1> QED  BY <1>1, <1>2, LauncherAssumption DEF LauncherAssumption, OwnerInv, LiveIsOwned, OneLiveCore

LEMMA QueuedStep ==
  ASSUME TypeOK, OwnerInv, CompleteOnce, LeadsInv, [Next]_vars, ~Windows, pc'["exit"] = "idle"
  PROVE  ~helperFailed' /\ Queued' /\ LoopHolds'
<1> USE LauncherAssumption DEF LauncherAssumption, Actors
<1>0. /\ ~helperFailed /\ Queued /\ LoopHolds
      /\ pc \in [Actors -> Labels] /\ core \in [Cores -> {"unborn", "starting", "up", "dead"}]
      /\ link \in [Cores -> {"none", "open", "closed"}] /\ backlog \in Seq(Cores)
      /\ incoming \in MaybeCore
  BY PlainSteps DEF LeadsInv, TypeOK
<1>1. ASSUME UNCHANGED << link, backlog, incoming, helperFailed >>,
             sock' \in {sock, NoCore}, pc'["loop"] = pc["loop"],
             \A d \in Cores : \/ core'[d] = core[d] \/ core'[d] = "dead"
                              \/ core[d] = "unborn" /\ core'[d] = "starting"
      PROVE  ~helperFailed' /\ Queued' /\ LoopHolds'
  <2>1. Queued'
    BY <1>0, <1>1 DEF Queued, EndsWith
  <2> QED  BY <1>0, <1>1, <2>1 DEF LoopHolds
<1>2. ASSUME NEW a \in Callers, NEW l, pc' = [pc EXCEPT ![a] = l] PROVE pc'["loop"] = pc["loop"]
  BY <1>0, <1>2
<1>3. ASSUME NEW a \in Callers, RestartBegin(a) PROVE ~helperFailed' /\ Queued' /\ LoopHolds'
  <2>1. completers' = Append(completers, NoCore)
    BY <1>3 DEF RestartBegin, NewCompleter
  <2>2. sock' = NoCore
    BY <2>1 DEF sock, TypeOK
  <2>3. pc'["loop"] = pc["loop"]
    BY <1>2, <1>3 DEF RestartBegin, Goto
  <2> QED  BY <1>1, <1>3, <2>2, <2>3 DEF RestartBegin, socketVars, coreVars, helperVars
<1>4. ASSUME NEW a \in Callers, Bind(a) \/ SpawnFails(a) \/ Assign(a)
      PROVE  ~helperFailed' /\ Queued' /\ LoopHolds'
  <2>1. pc'["loop"] = pc["loop"]
    BY <1>2, <1>4 DEF Bind, SpawnFails, Assign, Finish, Move, Goto
  <2>2. UNCHANGED << completers, core, link, backlog, incoming, helperFailed >>
    BY <1>4 DEF Bind, SpawnFails, Assign, socketVars, coreVars, helperVars
  <2> QED  BY <1>1, <2>1, <2>2 DEF sock
<1>5. ASSUME NEW a \in Callers, Spawn(a) \/ Kill(a) PROVE ~helperFailed' /\ Queued' /\ LoopHolds'
  <2>1. pc'["loop"] = pc["loop"]
    BY <1>2, <1>5 DEF Spawn, Kill, Move, Goto
  <2>2. UNCHANGED << completers, link, backlog, incoming, helperFailed >>
    BY <1>5 DEF Spawn, Kill, socketVars, helperVars
  <2>3. \A d \in Cores : \/ core'[d] = core[d] \/ core'[d] = "dead"
                         \/ core[d] = "unborn" /\ core'[d] = "starting"
    BY <1>0, <1>5 DEF Spawn, Kill, Stopped
  <2> QED  BY <1>1, <2>1, <2>2, <2>3 DEF sock
<1>6. ASSUME NEW a \in Callers \cup {"loop"}, DestroyStep(a) PROVE ~helperFailed' /\ Queued' /\ LoopHolds'
  <2>0. UNCHANGED << core, backlog, incoming, helperFailed >>
    BY <1>6 DEF DestroyStep, DestroyBegin, DestroyEnd, DestroyThrows, socketVars, coreVars, helperVars
  <2>1. /\ pc'["loop"] \in {"destroy", "closing", "complete"} =>
             pc["loop"] \in {"destroy", "closing", "complete"}
    <3>1. CASE a = "loop"
      <4>1. pc[a] \in {"destroy", "closing"}
        BY <1>6 DEF DestroyStep, DestroyBegin, DestroyEnd, DestroyThrows, Move
      <4> QED  BY <3>1, <4>1
    <3>2. CASE a # "loop"
      <4>1. \E l : pc' = [pc EXCEPT ![a] = l]
        BY <1>6 DEF DestroyStep, DestroyBegin, DestroyEnd, DestroyThrows, Finish, Move, Goto
      <4> QED  BY <1>2, <3>2, <4>1
    <3> QED  BY <3>1, <3>2
  <2>2. CASE DestroyBegin(a)
    <3>1. completers' = completers
      BY <2>2 DEF DestroyBegin
    <3>2. \A d \in Cores : link'[d] = "none" <=> link[d] = "none"
      BY <1>0, <2>2 DEF DestroyBegin, LoopHolds
    <3>3. sock = NoCore \/ sock \in Cores
      BY DEF sock, TypeOK, MaybeCore
    <3>4. sock' = sock
      BY <3>1 DEF sock
    <3>5. Queued'
      BY <1>0, <2>0, <3>2 DEF Queued, EndsWith
    <3> QED  BY <1>0, <2>0, <2>1, <3>2, <3>3, <3>4, <3>5 DEF LoopHolds
  <2>3. CASE DestroyEnd(a) \/ DestroyThrows(a)
    <3>1. completers' \in {completers, Append(completers, NoCore)} /\ link' = link
      BY <2>3 DEF DestroyEnd, DestroyThrows, NewCompleter, coreVars
    <3>2. sock' \in {sock, NoCore}
      BY <3>1 DEF sock, TypeOK
    <3>3. Queued'
      BY <1>0, <2>0, <3>1 DEF Queued, EndsWith
    <3> QED  BY <1>0, <2>0, <2>1, <3>1, <3>2, <3>3 DEF LoopHolds
  <2> QED  BY <1>6, <2>2, <2>3 DEF DestroyStep
<1>7. CASE ServerBind \/ UNCHANGED vars
  <2>1. UNCHANGED << completers, pc, core, link, backlog, incoming, helperFailed >>
    BY <1>7 DEF ServerBind, vars, dartVars, socketVars, coreVars, helperVars
  <2> QED  BY <1>1, <2>1 DEF sock
<1>8. CASE Accept
  <2>1. /\ backlog # << >> /\ incoming' = Head(backlog) /\ backlog' = Tail(backlog)
        /\ UNCHANGED << completers, core, link, helperFailed >>
    BY <1>8 DEF Accept, coreVars, helperVars
  <2>2. Head(backlog) \in Cores
    BY <1>0, <2>1
  <2>3. ASSUME NEW c \in Cores, core[c] \in {"unborn", "starting"}
        PROVE  link[c] = "none" /\ incoming' # c /\ \A i \in DOMAIN backlog' : backlog'[i] # c
    BY <1>0, <2>1, <2>3, TailOf DEF Queued
  <2>4. ASSUME NEW c \in Cores, core[c] = "up", link[c] = "none"
        PROVE  IF backlog' = << >> THEN incoming' = c ELSE EndsWith(backlog', c) /\ incoming' # c
    <3>1. EndsWith(backlog, c)
      BY <1>0, <2>1, <2>4 DEF Queued
    <3> QED  BY <1>0, <2>1, <3>1, TailEnds
  <2>5. Queued'
    BY <1>0, <2>1, <2>3, <2>4 DEF Queued
  <2>6. sock' = sock
    BY <2>1 DEF sock
  <2> QED  BY <1>0, <2>1, <2>2, <2>5, <2>6 DEF LoopHolds
<1>9. CASE Complete
  <2>1. pc["loop"] = "complete"
    BY <1>9 DEF Complete, Move
  <2>2. sock = NoCore /\ incoming \in Cores
    BY <1>0, <2>1 DEF CompleteOnce, LoopHolds, MaybeCore
  <2>3. /\ completers' = [completers EXCEPT ![Len(completers)] = incoming]
        /\ link' = [link EXCEPT ![incoming] = "open"] /\ incoming' = NoCore
        /\ pc'["loop"] = "idle" /\ UNCHANGED << core, backlog, helperFailed >>
    BY <1>0, <1>9, <2>2 DEF Complete, Move, Goto, helperVars
  <2>4. sock' = incoming
    <3>1. Len(completers) \in DOMAIN completers /\ Len(completers') = Len(completers)
      BY <2>3, ExceptSeq DEF TypeOK, MaybeCore
    <3> QED  BY <2>3, <3>1 DEF sock
  <2>5. ASSUME NEW c \in Cores, core[c] = "up", c = incoming PROVE backlog = << >>
    BY <1>0, <2>2, <2>5 DEF Queued
  <2>6. Queued'
    BY <1>0, <2>2, <2>3, <2>5 DEF Queued, EndsWith
  <2> QED  BY <1>0, <2>2, <2>3, <2>4, <2>6 DEF LoopHolds
<1>10. ASSUME NEW c \in Cores, CoreStep(c) PROVE ~helperFailed' /\ Queued' /\ LoopHolds'
  <2>1. UNCHANGED << completers, pc, link, incoming, helperFailed >> /\ sock' = sock
    BY <1>10 DEF CoreStep, Connect, EndOfStream, Crash, WriteFails, dartVars, socketVars, helperVars, sock
  <2>2. CASE EndOfStream(c) \/ Crash(c) \/ WriteFails(c)
    <3>1. backlog' = backlog
      BY <2>2 DEF EndOfStream, Crash, WriteFails, socketVars
    <3>2. \A d \in Cores : core'[d] = core[d] \/ core'[d] = "dead"
      BY <1>0, <2>2 DEF EndOfStream, Crash, WriteFails
    <3> QED  BY <1>1, <2>1, <3>1, <3>2
  <2>3. CASE Connect(c) /\ server # "open"
    <3>1. backlog' = backlog
      BY <2>3 DEF Connect
    <3>2. \A d \in Cores : core'[d] = core[d] \/ core'[d] = "dead"
      BY <1>0, <2>3 DEF Connect, DialFailed
    <3> QED  BY <1>1, <2>1, <3>1, <3>2
  <2>4. CASE Connect(c) /\ server = "open"
    <3>1. /\ core[c] = "starting" /\ core' = [core EXCEPT ![c] = "up"]
          /\ backlog' = Append(backlog, c)
      BY <2>4 DEF Connect
    <3>2. link[c] = "none" /\ incoming # c /\ \A i \in DOMAIN backlog : backlog[i] # c
      BY <1>0, <3>1 DEF Queued
    <3>3. \A d \in Cores \ {c} : core[d] # "up"
      BY <1>0, <3>1, PlainOwner DEF Alive
    <3>4. /\ backlog' # << >> /\ EndsWith(backlog', c)
          /\ \A d \in Cores \ {c} : (\A i \in DOMAIN backlog : backlog[i] # d) =>
               \A i \in DOMAIN backlog' : backlog'[i] # d
      BY <1>0, <3>1, <3>2, AppendEnds
    <3>5. Queued'
      BY <1>0, <2>1, <3>1, <3>2, <3>3, <3>4 DEF Queued
    <3> QED  BY <1>0, <2>1, <3>5 DEF LoopHolds
  <2> QED  BY <1>10, <2>2, <2>3, <2>4 DEF CoreStep
<1> QED  BY <1>3, <1>4, <1>5, <1>6, <1>7, <1>8, <1>9, <1>10, PlainSteps

LEMMA ConnectedStep ==
  ASSUME TypeOK, OwnerInv, CompleteOnce, LeadsInv, [Next]_vars, ~Windows, pc'["exit"] = "idle"
  PROVE  Connected'
<1> USE LauncherAssumption DEF LauncherAssumption, Actors
<1>0. /\ ~helperFailed /\ Queued /\ LoopHolds /\ Connected
      /\ pc \in [Actors -> Labels] /\ core \in [Cores -> {"unborn", "starting", "up", "dead"}]
      /\ link \in [Cores -> {"none", "open", "closed"}]
  BY PlainSteps DEF LeadsInv, TypeOK
<1> SUFFICES ASSUME pc'["loop"] = "idle", NEW c \in Cores, core'[c] = "up", link'[c] # "none"
             PROVE  \/ sock' = c
                    \/ sock' = NoCore /\ \E a \in Callers : pc'[a] = "destroy"
                    \/ \E a \in Callers : pc'[a] = "kill"
  BY DEF Connected
<1> DEFINE Leads == \/ sock = c
                    \/ sock = NoCore /\ \E a \in Callers : pc[a] = "destroy"
                    \/ \E a \in Callers : pc[a] = "kill"
           Led == \/ sock' = c
                  \/ sock' = NoCore /\ \E a \in Callers : pc'[a] = "destroy"
                  \/ \E a \in Callers : pc'[a] = "kill"
<1>1. ASSUME pc["loop"] = "idle", core[c] = "up", link[c] # "none" PROVE Leads
  BY <1>0, <1>1 DEF Connected
<1>2. ASSUME NEW a \in Callers, NEW l, pc' = [pc EXCEPT ![a] = l]
      PROVE  pc["loop"] = "idle" /\ pc'[a] = l /\ \A b \in Actors \ {a} : pc'[b] = pc[b]
  BY <1>0, <1>2
<1>3. ASSUME NEW a \in Callers, RestartBegin(a) PROVE Led
  <2>1. completers' = Append(completers, NoCore)
    BY <1>3 DEF RestartBegin, NewCompleter
  <2>2. sock' = NoCore
    BY <2>1 DEF sock, TypeOK
  <2>3. core[c] = "up" /\ \A b \in Callers : pc[b] = "idle"
    BY <1>3 DEF RestartBegin, MayRestart, coreVars, OwnerInv, OneStarter
  <2>4. process = c
    BY <1>0, <2>3, PlainOwner DEF Alive
  <2>5. pc'[a] = "destroy"
    BY <1>2, <1>3, <2>4 DEF RestartBegin, ShutdownStart, Goto
  <2> QED  BY <2>2, <2>5
<1>4. ASSUME NEW a \in Callers, Bind(a) \/ Spawn(a) \/ SpawnFails(a) \/ Assign(a) PROVE Led
  <2>1. pc[a] \in {"bind", "spawn", "assign"} /\ \E l : pc' = [pc EXCEPT ![a] = l]
    BY <1>4 DEF Bind, Spawn, SpawnFails, Assign, Finish, Move, Goto
  <2>2. sock' = sock /\ link' = link
    BY <1>4 DEF Bind, Spawn, SpawnFails, Assign, coreVars, sock
  <2>3. core[c] = "up"
    BY <1>0, <1>4 DEF Bind, Spawn, SpawnFails, Assign, coreVars
  <2> QED  BY <1>1, <1>2, <2>1, <2>2, <2>3
<1>5. ASSUME NEW a \in Callers, Kill(a) PROVE FALSE
  <2>1. pc[a] = "kill" /\ core' = Stopped(process)
    BY <1>5 DEF Kill, Move
  <2>2. \A b \in Callers : pc[b] # "assign"
    BY <2>1 DEF OwnerInv, OneStarter
  <2>3. core[c] = "up"
    BY <1>0, <2>1 DEF Stopped
  <2>4. c = process
    BY <1>0, <2>2, <2>3, PlainOwner DEF Alive
  <2> QED  BY <2>1, <2>3, <2>4 DEF Stopped, Alive
<1>6. ASSUME NEW a \in Callers, DestroyStep(a) PROVE Led
  <2>1. \E l : pc' = [pc EXCEPT ![a] = l]
    BY <1>6 DEF DestroyStep, DestroyBegin, DestroyEnd, DestroyThrows, Finish, Move, Goto
  <2>2. core[c] = "up" /\ link[c] # "none"
    BY <1>0, <1>6 DEF DestroyStep, DestroyBegin, DestroyEnd, DestroyThrows, LoopHolds, coreVars
  <2>3. Leads
    BY <1>1, <1>2, <2>1, <2>2
  <2>4. CASE DestroyBegin(a) /\ sock = NoCore
    <3>1. pc'[a] = "kill"
      BY <1>2, <2>4 DEF DestroyBegin, AfterDestroy, Move, Goto
    <3> QED  BY <3>1
  <2>5. CASE DestroyBegin(a) /\ sock # NoCore
    <3>1. sock' = sock /\ pc[a] = "destroy"
      BY <2>5 DEF DestroyBegin, Move, sock
    <3> QED  BY <1>2, <2>1, <2>3, <2>5, <3>1
  <2>6. CASE DestroyEnd(a)
    <3>1. pc'[a] = "kill"
      BY <1>2, <2>6 DEF DestroyEnd, AfterDestroy, Move, Goto
    <3> QED  BY <3>1
  <2>7. CASE DestroyThrows(a)
    <3>1. sock' = sock /\ pc[a] = "closing"
      BY <2>7 DEF DestroyThrows, sock
    <3> QED  BY <1>2, <2>1, <2>3, <3>1
  <2> QED  BY <1>6, <2>4, <2>5, <2>6, <2>7 DEF DestroyStep
<1>7. ASSUME DestroyStep("loop") PROVE FALSE
  <2>1. \E l \in {"closing", "complete", "dead"} : pc' = [pc EXCEPT !["loop"] = l]
    BY <1>7 DEF DestroyStep, DestroyBegin, DestroyEnd, DestroyThrows, AfterDestroy, Move, Goto
  <2> QED  BY <1>0, <2>1
<1>8. CASE ServerBind \/ UNCHANGED vars
  BY <1>1, <1>8 DEF ServerBind, vars, dartVars, socketVars, coreVars, helperVars, sock
<1>9. CASE Accept
  BY <1>0, <1>9 DEF Accept, Move, Goto
<1>10. CASE Complete
  <2>1. pc["loop"] = "complete"
    BY <1>10 DEF Complete, Move
  <2>2. sock = NoCore /\ incoming # NoCore
    BY <1>0, <2>1 DEF CompleteOnce, LoopHolds
  <2>3. /\ completers' = [completers EXCEPT ![Len(completers)] = incoming]
        /\ link' = [link EXCEPT ![incoming] = "open"] /\ core' = core
    BY <1>10, <2>2 DEF Complete
  <2>4. sock' = incoming
    <3>1. Len(completers) \in DOMAIN completers /\ Len(completers') = Len(completers)
      BY <2>3, ExceptSeq DEF TypeOK, MaybeCore
    <3> QED  BY <2>3, <3>1 DEF sock
  <2>5. c = incoming
    BY <1>0, <2>2, <2>3 DEF Queued
  <2> QED  BY <2>4, <2>5
<1>11. ASSUME NEW d \in Cores, CoreStep(d) PROVE Led
  <2>1. UNCHANGED << completers, pc, link >> /\ sock' = sock
    BY <1>11 DEF CoreStep, Connect, EndOfStream, Crash, WriteFails, dartVars, socketVars, helperVars, sock
  <2>2. core[c] = "up"
    <3>1. CASE Connect(d)
      BY <1>0, <2>1, <3>1 DEF Connect, DialFailed, Queued
    <3>2. CASE EndOfStream(d) \/ Crash(d) \/ WriteFails(d)
      BY <1>0, <3>2 DEF EndOfStream, Crash, WriteFails
    <3> QED  BY <1>11, <3>1, <3>2 DEF CoreStep
  <2> QED  BY <1>1, <2>1, <2>2
<1> QED  BY <1>3, <1>4, <1>5, <1>6, <1>7, <1>8, <1>9, <1>10, <1>11, PlainSteps

\* Where the app runs its cores itself, and nobody restarts, quits or is being
\* accepted, the core it runs is the one whose socket the requests go to, once
\* it was accepted: whatever restarts crossed whatever connections before.
THEOREM ChannelReachesCore == Spec => []ChannelLeadsToCore
<1> DEFINE I == TypeOK /\ CompleteOnce /\ OwnerInv /\ LeadsInv
<1>1. Init => I
  <2> SUFFICES ASSUME Init PROVE LeadsInv
    BY TypeInit, CompleteInit, OwnerInit
  <2> QED  BY LauncherAssumption DEF LauncherAssumption, Init, LeadsInv, Queued, LoopHolds, Connected, Actors, sock
<1>2. I /\ [Next]_vars => I'
  <2> SUFFICES ASSUME I, [Next]_vars PROVE LeadsInv'
    BY TypeStep, CompleteStep, OwnerStep
  <2> QED  BY QueuedStep, ConnectedStep DEF LeadsInv
<1>3. I => ChannelLeadsToCore
  <2> SUFFICES ASSUME I, Quiet, process # NoCore, ~Windows, core[process] = "up", link[process] # "none"
               PROVE  sock = process
    BY DEF ChannelLeadsToCore
  <2>1. process \in Cores /\ \A a \in Callers : pc[a] = "idle"
    BY DEF TypeOK, MaybeCore, OwnerInv, OneStarter, Quiet
  <2> QED  BY <2>1 DEF Quiet, LeadsInv, Connected
<1> QED
  <2> HIDE DEF I
  <2> QED  BY <1>1, <1>2, <1>3, PTL DEF Spec
-----------------------------------------------------------------------------
(***************************************************************************)
(* Requests over the channel (ControlChannel).  Whatever restarts, kills   *)
(* and closed sockets do to the completer a request waits for or to the    *)
(* core it was written to, the caller is served as RequestReply says.      *)
(***************************************************************************)

\* Completers are only added: the one a request awaits is never lost.
LEMMA CompletersStay ==
  ASSUME TypeOK, [Next]_vars
  PROVE  DOMAIN completers \subseteq DOMAIN completers'
<1>0. completers \in Seq(MaybeCore) /\ completers # << >> /\ incoming \in MaybeCore
  BY DEF TypeOK
<1>1. CASE UNCHANGED completers
  BY <1>1
<1>2. CASE NewCompleter
  <2>1. Len(completers') = Len(completers) + 1 /\ completers' \in Seq(MaybeCore)
    BY <1>0, <1>2 DEF NewCompleter, MaybeCore
  <2>2. DOMAIN completers = 1 .. Len(completers) /\ DOMAIN completers' = 1 .. Len(completers')
    BY <1>0, <2>1
  <2> QED  BY <1>0, <2>1, <2>2
<1>3. CASE completers' = [completers EXCEPT ![Len(completers)] = incoming]
  BY <1>3
<1>4. CASE \E a \in Callers : RestartBegin(a)
  BY <1>2, <1>4 DEF RestartBegin
<1>5. CASE \E a \in Callers : Bind(a) \/ Spawn(a) \/ SpawnFails(a) \/ Assign(a)
  BY <1>1, <1>5 DEF Bind, Spawn, SpawnFails, Assign
<1>6. CASE \E a \in Callers \cup {"exit"} : Kill(a) \/ HelperClient(a)
  BY <1>1, <1>6 DEF Kill, HelperClient, NotAdmin, CallHelper, HelperReply, HelperTimeout
<1>7. CASE \E a \in Actors : DestroyStep(a)
  BY <1>1, <1>2, <1>7 DEF DestroyStep, DestroyBegin, DestroyEnd, DestroyThrows
<1>8. CASE ExitBegin \/ CloseServer \/ Exit \/ ServerBind \/ Accept
  BY <1>1, <1>8 DEF ExitBegin, CloseServer, Exit, ServerBind, Accept, dartVars
<1>9. CASE Complete
  BY <1>1, <1>3, <1>9 DEF Complete
<1>10. CASE HelperStep \/ \E c \in Cores : CoreStep(c)
  BY <1>1, <1>10 DEF HelperStep, HelperStop, HelperSpawn, HelperFails, LateStop, LateFails,
     LateSpawn, CoreStep, Connect, EndOfStream, Crash, WriteFails, dartVars
<1> QED  BY <1>1, <1>4, <1>5, <1>6, <1>7, <1>8, <1>9, <1>10, NextCases DEF vars, dartVars

\* A request was sent on its way by invoke() and by nothing else.
Issued == \A id \in Ids : phase[id] = "new" <=> call[id] = "new"

RequestInv == TypeOK /\ ChannelTypeOK /\ Issued

LEMMA RequestInit == ChannelInit => RequestInv
<1> SUFFICES ASSUME ChannelInit PROVE RequestInv
  OBVIOUS
<1>1. TypeOK
  BY TypeInit DEF ChannelInit
<1>2. ChannelTypeOK /\ Issued
  BY DEF ChannelInit, ChannelTypeOK, Phases, MaybeCore, Issued
<1> QED  BY <1>1, <1>2 DEF RequestInv

LEMMA RequestInvStep == RequestInv /\ [ChannelNext]_channelVars => RequestInv'
<1> SUFFICES ASSUME RequestInv, [ChannelNext]_channelVars PROVE RequestInv'
  OBVIOUS
<1>1. [Next]_vars
  BY DEF ChannelNext, RequestStep, Invoke, Send, Deliver, Timeout, Forget, Read, Answer, channelVars
<1>2. TypeOK'
  BY <1>1, TypeStep DEF RequestInv
<1>3. CASE UNCHANGED requestVars
  BY <1>1, <1>2, <1>3, CompletersStay
     DEF RequestInv, ChannelTypeOK, Issued, requestVars
<1>4. ASSUME NEW id \in Ids, RequestStep(id) PROVE ChannelTypeOK' /\ Issued'
  <2> USE DEF RequestInv, ChannelTypeOK, Issued, Enter, Phases
  <2>0. completers' = completers
    BY <1>4 DEF RequestStep, Invoke, Send, Deliver, Timeout, Forget, Read, Answer, vars, dartVars
  <2>1. CASE Invoke(id)
    <3>1. Awaited \in DOMAIN completers /\ Awaited \in Nat
      BY DEF Awaited, TypeOK
    <3> QED  BY <2>0, <2>1, <3>1 DEF Invoke
  <2>2. CASE Send(id)
    <3>1. completers[on[id]] \in MaybeCore
      BY <2>2 DEF Send, TypeOK
    <3>2. \E p \in {"toCore", "lost"} : phase' = [phase EXCEPT ![id] = p]
      BY <2>2 DEF Send
    <3>3. /\ phase[id] = "waiting" /\ via' = [via EXCEPT ![id] = completers[on[id]]]
          /\ UNCHANGED << call, entries, due, on >>
      BY <2>2 DEF Send
    <3> QED  BY <2>0, <3>1, <3>2, <3>3
  <2>3. CASE Deliver(id)
    <3>1. call' \in {call, [call EXCEPT ![id] = "answered"]}
      BY <2>3 DEF Deliver
    <3> QED  BY <2>0, <2>3, <3>1 DEF Deliver
  <2>4. CASE Timeout(id) \/ Forget(id)
    BY <2>0, <2>4 DEF Timeout, Defaulted, Forget
  <2>5. CASE Read(id) \/ Answer(id)
    BY <2>0, <2>5 DEF Read, Answer
  <2> QED  BY <1>4, <2>1, <2>2, <2>3, <2>4, <2>5 DEF RequestStep
<1> QED  BY <1>2, <1>3, <1>4 DEF RequestInv, ChannelNext, channelVars

LEMMA RequestsInvariant == ChannelSpec => []RequestInv
BY RequestInit, RequestInvStep, PTL DEF ChannelSpec

\* The requests keep their types next to the launcher's: a request always
\* awaits a completer there is.
THEOREM ChannelTyping == ChannelSpec => []ChannelTypeOK
<1>1. RequestInv => ChannelTypeOK
  BY DEF RequestInv
<1> QED  BY RequestsInvariant, <1>1, PTL

\* A step of a request is a step of RequestReply, or changes nothing there.
LEMMA RequestRefines ==
  ASSUME RequestInv, [ChannelNext]_channelVars
  PROVE  Abstract!Next \/ UNCHANGED Abstract!vars
<1> DEFINE Entered == {"running", "toApp", "done"}
           executed == {id \in Ids : phase[id] \in Entered}
<1> USE DEF Abstract!vars
<1>0. phase \in [Ids -> Phases] /\ call \in [Ids -> {"new", "pending", "answered", "defaulted"}]
  BY DEF RequestInv, ChannelTypeOK
<1>1. CASE UNCHANGED requestVars
  BY <1>1 DEF requestVars
<1>2. ASSUME NEW id \in Ids, NEW p \in Phases, Enter(id, p), phase[id] \in Entered <=> p \in Entered
      PROVE  executed' = executed
  BY <1>0, <1>2 DEF Enter
<1>3. ASSUME NEW id \in Ids, RequestStep(id) PROVE Abstract!Next \/ UNCHANGED Abstract!vars
  <2>1. CASE Invoke(id)
    <3>1. phase[id] = "new"
      BY <2>1 DEF Invoke, RequestInv, Issued
    <3>2. executed' = executed
      BY <1>2, <2>1, <3>1 DEF Invoke, Phases
    <3> QED  BY <2>1, <3>2 DEF Invoke, Abstract!Next, Abstract!Issue
  <2>2. CASE Send(id)
    <3>1. phase[id] = "waiting" /\ call' = call /\ \E p \in {"toCore", "lost"} : Enter(id, p)
      BY <2>2 DEF Send
    <3>2. executed' = executed
      BY <1>2, <3>1 DEF Phases
    <3> QED  BY <3>1, <3>2
  <2>3. CASE Deliver(id)
    <3>1. phase[id] = "toApp" /\ Enter(id, "done") /\ id \in executed
      BY <2>3 DEF Deliver
    <3>2. executed' = executed
      BY <1>2, <3>1 DEF Phases
    <3>3. CASE Takes(id)
      BY <2>3, <3>1, <3>2, <3>3 DEF Deliver, Takes, Abstract!Next, Abstract!Return
    <3>4. CASE ~Takes(id)
      BY <2>3, <3>2, <3>4 DEF Deliver
    <3> QED  BY <3>3, <3>4
  <2>4. CASE Timeout(id)
    <3>1. CASE call[id] = "pending"
      BY <2>4, <3>1 DEF Timeout, Defaulted, Abstract!Next, Abstract!Default
    <3>2. CASE call[id] # "pending"
      BY <2>4, <3>2 DEF Timeout, Defaulted
    <3> QED  BY <3>1, <3>2
  <2>5. CASE Forget(id)
    BY <2>5 DEF Forget
  <2>6. CASE Read(id)
    <3>1. phase[id] = "toCore" /\ phase' = [phase EXCEPT ![id] = "running"] /\ call' = call
      BY <2>6 DEF Read, Enter
    <3>2. executed' = executed \cup {id} /\ id \notin executed
      BY <1>0, <3>1
    <3>3. call[id] # "new"
      BY <3>1 DEF RequestInv, Issued
    <3> QED  BY <3>1, <3>2, <3>3 DEF Abstract!Next, Abstract!Execute
  <2>7. CASE Answer(id)
    <3>1. phase[id] = "running" /\ Enter(id, "toApp") /\ call' = call
      BY <2>7 DEF Answer
    <3>2. executed' = executed
      BY <1>2, <3>1 DEF Phases
    <3> QED  BY <3>1, <3>2
  <2> QED  BY <1>3, <2>1, <2>2, <2>3, <2>4, <2>5, <2>6, <2>7 DEF RequestStep
<1> QED  BY <1>1, <1>3 DEF ChannelNext, channelVars

\* The channel implements RequestReply: the core executes a request at most
\* once, its caller gets at most one result, and an answer only of a request
\* that was executed, across every restart and crash of the core.
THEOREM ChannelImplements == ChannelSpec => ImplementsRequestReply
<1>1. ChannelInit => Abstract!Init
  BY DEF ChannelInit, Abstract!Init
<1>2. RequestInv /\ [ChannelNext]_channelVars => [Abstract!Next]_Abstract!vars
  BY RequestRefines
<1> QED  BY RequestsInvariant, <1>1, <1>2, PTL DEF ChannelSpec, ImplementsRequestReply, Abstract!Spec

-----------------------------------------------------------------------------
(*                                                                         *)
(* The TUN switch (DesktopTun).  That rights come first needs no more than *)
(* the types and what was read (FlowsInv).  The other two properties hold  *)
(* while operations wait for each other: InTurn is that, and UpToDate is   *)
(* what an operation then still knows after its dialog.                    *)

\* A flow between its first and its last step.
Active(f) == at[f] \notin {"new", "done"}

\* A core was restarted and does not listen again yet.
Restarted == {"init", "nested", "relisten"}

\* Rights are asked for, or were.
Prompted == {"check", "recheck", "dialog", "refused", "restart"} \cup Restarted

\* A flow that waits for a setup waits for the one that says so.
Waits ==
  \A f \in Flows : Active(f) /\ parent[f] # Nil =>
    /\ parent[f] \in Flows /\ at[parent[f]] = "nested"
    /\ \A g \in Flows : Active(g) /\ parent[g] = parent[f] => g = f

\* Settings are read before anything is asked of the core.
ReadFirst == \A f \in Flows : at[f] \in Prompted \cup {"granted", "params"} => snap[f] \in Settings

FlowsInv == TunTypeOK /\ Waits /\ ReadFirst

\* Whatever may turn TUN on later was read with the rights there.
RightsInv == TunNeedsRights /\ \A f \in Flows : prev[f] => admin

\* Operations wait for each other, and a restart for its setup.
InTurn ==
  /\ \A f, g \in Flows : Active(f) /\ Active(g) /\ (parent[f] = Nil <=> parent[g] = Nil) => f = g
  /\ \A f \in Flows : Active(f) /\ parent[f] # Nil =>
       /\ op[f] = "apply" /\ at[f] \in {"fetch", "granted", "params", "applied"}
       /\ parent[f] \in Flows /\ at[parent[f]] = "nested"

\* What an operation has read still holds.
UpToDate ==
  \A f \in Flows :
    /\ at[f] \in Prompted => want.tun
    /\ at[f] \in Restarted \cup {"restart"} => real
    /\ op[f] = "update" /\ Active(f) => snap[f] = want
    /\ ~want.tun => (at[f] = "granted" => ~real) /\ (at[f] = "params" => ~prev[f])

\* Once the timer has fired, TUN that is unwanted is on no longer than it takes
\* to send the update.
SwitchedOff ==
  ~timer /\ ~want.tun =>
    ~real /\ (HasTun => \E f \in Flows : op[f] = "update" /\ at[f] = "granted")

\* What the app shows, and what the core does, is what was asked last.
RunTimeShown ==
  /\ (\A f \in Flows : at[f] \notin {"tasks", "stopping"}) => runTime = startTime
  /\ \A f \in Flows : at[f] = "stopping" => ~startTime
CoreListens ==
  /\ (\A f \in Flows : at[f] \notin Restarted) => tunCore.run = startTime
  /\ \A f \in Flows : at[f] \in Restarted => ~tunCore.run

TurnInv == InTurn /\ UpToDate /\ SwitchedOff /\ RunTimeShown /\ CoreListens

InTurnInv == ~overlapped => TurnInv

LEMMA SwitchInit == TunInit => FlowsInv /\ RightsInv /\ InTurnInv
<1> SUFFICES ASSUME TunInit PROVE FlowsInv /\ RightsInv /\ InTurnInv
  OBVIOUS
<1>1. TunTypeOK
  <2>1. tunCore \in [cfg : Configs \cup {Nil}, run : BOOLEAN, root : BOOLEAN]
    BY DEF TunInit, Configs, Settings
  <2> QED  BY <2>1 DEF TunInit, TunTypeOK, Places
<1>2. Waits /\ ReadFirst /\ InTurn /\ UpToDate
  BY DEF TunInit, Waits, ReadFirst, InTurn, UpToDate, Active, Restarted, Prompted
<1>3. ~HasTun /\ ~real
  BY DEF TunInit, HasTun
<1>4. RightsInv /\ SwitchedOff
  BY <1>3 DEF TunInit, RightsInv, TunNeedsRights, SwitchedOff
<1>5. RunTimeShown /\ CoreListens
  BY DEF TunInit, RunTimeShown, CoreListens, Restarted
<1> QED  BY <1>1, <1>2, <1>4, <1>5 DEF FlowsInv, InTurnInv, TurnInv

-----------------------------------------------------------------------------
(* The flows *)

\* A flow goes on.
Moves(f, l) ==
  /\ Active(f) /\ at[f] # "nested"
  /\ at' = [at EXCEPT ![f] = l] /\ UNCHANGED << op, parent >>

\* A flow ends, and the one that waits for it goes on.
Ends(f) == Active(f) /\ at[f] # "nested" /\ EndFlow(f) /\ UNCHANGED << op, parent >>

\* A flow that nobody waits for begins.
Begins(f, l) ==
  /\ at[f] = "new" /\ at' = [at EXCEPT ![f] = l]
  /\ parent' = [parent EXCEPT ![f] = Nil]

LEMMA Moving ==
  ASSUME TunTypeOK, Waits, NEW f \in Flows, NEW l \in Places, Moves(f, l)
  PROVE  at' \in [Flows -> Places] /\ Waits'
<1>1. at' \in [Flows -> Places] /\ at'[f] = l /\ \A g \in Flows \ {f} : at'[g] = at[g]
  BY DEF Moves, TunTypeOK
<1>2. \A g \in Flows : Active(g)' => Active(g)
  BY <1>1 DEF Moves, Active
<1> QED  BY <1>1, <1>2 DEF Moves, Waits

LEMMA Ending ==
  ASSUME TunTypeOK, Waits, NEW f \in Flows, Ends(f)
  PROVE  /\ at' \in [Flows -> Places] /\ at'[f] = "done" /\ Waits'
         /\ \A g \in Flows \ {f} :
              at'[g] = IF g = parent[f] THEN "relisten" ELSE at[g]
         /\ parent[f] # Nil => parent[f] \in Flows \ {f} /\ at[parent[f]] = "nested"
<1> USE TunAssumption DEF TunAssumption
<1>0. at \in [Flows -> Places] /\ Active(f) /\ at[f] # "nested" /\ parent' = parent
  BY DEF Ends, TunTypeOK
<1>1. parent[f] # Nil => parent[f] \in Flows \ {f} /\ at[parent[f]] = "nested"
  BY <1>0 DEF Waits
<1>2. at' = IF parent[f] = Nil THEN [at EXCEPT ![f] = "done"]
                               ELSE [at EXCEPT ![f] = "done", ![parent[f]] = "relisten"]
  BY DEF Ends, EndFlow
<1>3. /\ at' \in [Flows -> Places] /\ at'[f] = "done"
      /\ \A g \in Flows \ {f} :
           at'[g] = IF g = parent[f] THEN "relisten" ELSE at[g]
  BY <1>0, <1>1, <1>2 DEF Places
<1>4. \A g \in Flows : Active(g)' => Active(g) /\ g # f
  BY <1>1, <1>3 DEF Active
<1>5. ASSUME NEW g \in Flows, Active(g)', parent[g] # Nil PROVE at'[parent[g]] = "nested"
  <2>1. Active(g) /\ g # f /\ at[parent[g]] = "nested" /\ parent[g] \in Flows
    BY <1>4, <1>5 DEF Waits
  <2>2. parent[g] # f /\ parent[g] # parent[f]
    BY <1>0, <1>5, <2>1 DEF Waits
  <2> QED  BY <1>3, <2>1, <2>2
<1> QED  BY <1>0, <1>1, <1>3, <1>4, <1>5 DEF Waits

LEMMA Beginning ==
  ASSUME TunTypeOK, Waits, NEW f \in Flows, NEW l \in Places, Begins(f, l)
  PROVE  at' \in [Flows -> Places] /\ Waits'
<1>1. at' \in [Flows -> Places] /\ at'[f] = l /\ \A g \in Flows \ {f} : at'[g] = at[g]
  BY DEF Begins, TunTypeOK
<1>2. parent'[f] = Nil /\ \A g \in Flows \ {f} : parent'[g] = parent[g]
  BY DEF Begins, TunTypeOK
<1>3. \A g \in Flows \ {f} : Active(g)' => Active(g)
  BY <1>1 DEF Active
<1>4. ASSUME NEW g \in Flows, Active(g)', parent'[g] # Nil
      PROVE  g # f /\ Active(g) /\ parent[g] \in Flows \ {f} /\ at[parent[g]] = "nested"
  BY <1>2, <1>3, <1>4 DEF Waits, Begins
<1> QED  BY <1>1, <1>2, <1>3, <1>4 DEF Waits

\* A setup inside a restart.
LEMMA Nesting ==
  ASSUME TunTypeOK, Waits, NEW f \in Flows, NEW g \in Flows, InitCore(f, g)
  PROVE  /\ at' \in [Flows -> Places] /\ f # g /\ at[f] = "init" /\ at[g] = "new"
         /\ at'[f] = "nested" /\ at'[g] = "fetch" /\ \A h \in Flows \ {f, g} : at'[h] = at[h]
         /\ parent'[g] = f /\ op'[g] = "apply"
         /\ \A h \in Flows \ {g} : parent'[h] = parent[h] /\ op'[h] = op[h]
         /\ parent' \in [Flows -> Flows \cup {Nil}] /\ op' \in [Flows -> {"update", "apply", "start", "stop"}]
         /\ Waits'
<1> USE TunAssumption DEF TunAssumption
<1>1. at[f] = "init" /\ at[g] = "new" /\ at' = [at EXCEPT ![f] = "nested", ![g] = "fetch"]
  BY DEF InitCore, Resumes, Begin
<1>2. /\ op' = [op EXCEPT ![g] = "apply"] /\ parent' = [parent EXCEPT ![g] = f]
  BY DEF InitCore, Begin
<1>3. /\ at' \in [Flows -> Places] /\ f # g
      /\ at'[f] = "nested" /\ at'[g] = "fetch" /\ \A h \in Flows \ {f, g} : at'[h] = at[h]
  BY <1>1 DEF TunTypeOK, Places
<1>4. /\ parent'[g] = f /\ op'[g] = "apply"
      /\ \A h \in Flows \ {g} : parent'[h] = parent[h] /\ op'[h] = op[h]
      /\ parent' \in [Flows -> Flows \cup {Nil}] /\ op' \in [Flows -> {"update", "apply", "start", "stop"}]
  BY <1>2 DEF TunTypeOK
<1>5. \A h \in Flows \ {g} : Active(h)' => Active(h)
  BY <1>1, <1>3 DEF Active
<1>6. ASSUME NEW h \in Flows \ {g}, Active(h)', parent[h] # Nil
      PROVE  parent[h] \in Flows \ {f, g} /\ at[parent[h]] = "nested"
  BY <1>1, <1>5, <1>6 DEF Waits
<1>7. ASSUME NEW h \in Flows, Active(h)', parent'[h] # Nil
      PROVE  /\ parent'[h] \in Flows /\ at'[parent'[h]] = "nested"
             /\ \A k \in Flows : Active(k)' /\ parent'[k] = parent'[h] => k = h
  <2>1. CASE h = g
    BY <1>3, <1>4, <1>6, <2>1
  <2>2. CASE h # g
    BY <1>3, <1>4, <1>5, <1>6, <1>7, <2>2 DEF Waits
  <2> QED  BY <2>1, <2>2
<1> QED  BY <1>1, <1>3, <1>4, <1>7 DEF Waits

\* Every step is of one of these shapes.
LEMMA Shapes ==
  ASSUME TunTypeOK, NEW f \in Flows, Step(f)
  PROVE  \/ \E g \in Flows : InitCore(f, g)
         \/ Fire(f) \/ Apply(f) \/ HandleStop(f)
         \/ Ends(f) /\ \/ Refused(f) \/ SkipUpdate(f) \/ SendUpdate(f) \/ SetupFails(f)
                       \/ Applied(f) \/ UpdateRunTime(f) \/ StatusStopped(f)
         \/ /\ \E l \in Places \ {"new", "done", "nested"} : Moves(f, l)
            /\ \/ CheckIsAdmin(f) \/ AuthorizeCore(f) \/ Authorized(f) \/ Unauthorized(f)
               \/ Restart(f) \/ Relisten(f) \/ Fetched(f) \/ ReadReal(f) \/ SendSetup(f)
               \/ HandleStart(f)
<1> USE DEF frames, Active, Resumes
<1>1. ASSUME \/ Refused(f) \/ SkipUpdate(f) \/ SendUpdate(f) \/ SetupFails(f)
             \/ Applied(f) \/ UpdateRunTime(f) \/ StatusStopped(f)
      PROVE  Ends(f)
  BY <1>1 DEF Ends, Refused, SkipUpdate, SendUpdate, SetupFails, Applied, UpdateRunTime, StatusStopped
<1>2. ASSUME CheckIsAdmin(f) \/ AuthorizeCore(f) \/ Authorized(f) \/ Unauthorized(f)
      PROVE  \E l \in Places \ {"new", "done", "nested"} : Moves(f, l)
  BY <1>2 DEF Moves, CheckIsAdmin, AuthorizeCore, Authorized, Unauthorized, GoesTo, Places
<1>3. ASSUME Restart(f) \/ Relisten(f) \/ ReadReal(f) \/ SendSetup(f) \/ HandleStart(f)
      PROVE  \E l \in Places \ {"new", "done", "nested"} : Moves(f, l)
  BY <1>3 DEF Moves, Restart, Relisten, ReadReal, SendSetup, HandleStart, GoesTo, Places
<1>4. ASSUME Fetched(f) PROVE \E l \in Places \ {"new", "done", "nested"} : Moves(f, l)
  <2>1. \E l \in {"granted", "check"} : GoesTo(f, l)
    BY <1>4 DEF Fetched, Ask
  <2> QED  BY <1>4, <2>1 DEF Moves, Fetched, GoesTo, Places
<1> QED  BY <1>1, <1>2, <1>3, <1>4 DEF Step

\* The beginnings of Fire, Apply and HandleStop.
LEMMA Openings ==
  ASSUME NEW f \in Flows, Fire(f) \/ Apply(f) \/ HandleStop(f)
  PROVE  /\ \E l \in {"granted", "check", "fetch", "stopping"} : Begins(f, l)
         /\ \E k \in {"update", "apply", "start", "stop"} : op' = [op EXCEPT ![f] = k]
         /\ overlapped' = (overlapped \/ ~Idle)
<1>1. \E l \in {"granted", "check", "fetch", "stopping"} : GoesTo(f, l)
  BY DEF Fire, Apply, HandleStop, Ask
<1> QED  BY <1>1 DEF Fire, Apply, HandleStop, TopLevel, Begin, Begins, GoesTo

-----------------------------------------------------------------------------
(* Types, and settings that are read before they are sent *)

LEMMA NilIsNoSetting == Nil \notin Settings /\ Nil \notin Configs /\ Nil \notin Flows
<1>1. Settings \subseteq [tun : BOOLEAN, port : Ports \cup {Nil}]
  BY DEF Settings
<1> QED  BY <1>1, TunAssumption DEF TunAssumption, Configs

LEMMA FlowsStep == FlowsInv /\ [TunNext]_tunVars => FlowsInv'
<1> SUFFICES ASSUME FlowsInv, [TunNext]_tunVars PROVE FlowsInv'
  OBVIOUS
<1> USE DEF userVars, runVars, frames
<1>0. TunTypeOK /\ Waits /\ ReadFirst
  BY DEF FlowsInv
<1>1. CASE ChangeSettings \/ UNCHANGED tunVars
  <2>1. UNCHANGED << real, admin, runVars, tunCore, at, frames >>
    BY <1>1 DEF ChangeSettings, tunVars
  <2>2. TunTypeOK'
    BY <1>0, <1>1, <2>1 DEF TunTypeOK, ChangeSettings, tunVars, Idle
  <2> QED  BY <1>0, <2>1, <2>2 DEF FlowsInv, Waits, ReadFirst, Active
<1>2. ASSUME NEW f \in Flows, NEW g \in Flows, InitCore(f, g) PROVE FlowsInv'
  <2>1. UNCHANGED << userVars, real, admin, runVars, tunCore, snap, prev >>
    BY <1>2 DEF InitCore
  <2>2. TunTypeOK' /\ Waits'
    BY <1>0, <1>2, <2>1, Nesting DEF TunTypeOK
  <2>3. ReadFirst'
    BY <1>0, <1>2, <2>1, Nesting DEF ReadFirst, Prompted, Restarted
  <2> QED  BY <2>2, <2>3 DEF FlowsInv
<1>3. ASSUME NEW f \in Flows, Fire(f) \/ Apply(f) \/ HandleStop(f) PROVE FlowsInv'
  <2>1. PICK l \in {"granted", "check", "fetch", "stopping"} : Begins(f, l)
    BY <1>3, Openings
  <2>2. at' \in [Flows -> Places] /\ Waits'
    BY <1>0, <2>1, Beginning DEF Places
  <2>3. /\ op' \in [Flows -> {"update", "apply", "start", "stop"}]
        /\ parent' \in [Flows -> Flows \cup {Nil}] /\ overlapped' \in BOOLEAN
    <3>1. PICK k \in {"update", "apply", "start", "stop"} : op' = [op EXCEPT ![f] = k]
      BY <1>3, Openings
    <3>2. overlapped' = (overlapped \/ ~Idle)
      BY <1>3, Openings
    <3>3. overlapped' \in BOOLEAN
      BY <3>2
    <3> QED  BY <1>0, <2>1, <3>1, <3>3 DEF TunTypeOK, Begins
  <2>4. real' \in BOOLEAN /\ tunCore' \in [cfg : Configs \cup {Nil}, run : BOOLEAN, root : BOOLEAN]
    BY <1>0, <1>3 DEF Fire, Ask, SwitchOff, Apply, HandleStop, TunTypeOK
  <2>5. /\ timer' \in BOOLEAN /\ startTime' \in BOOLEAN
        /\ snap' \in [Flows -> Settings \cup {Nil}] /\ prev' \in [Flows -> BOOLEAN]
        /\ UNCHANGED << want, admin, runTime >>
    <3>1. CASE Fire(f)
      BY <1>0, <3>1 DEF Fire, TunTypeOK
    <3>2. CASE Apply(f)
      BY <1>0, <3>2 DEF Apply, TunTypeOK
    <3>3. CASE HandleStop(f)
      BY <1>0, <3>3 DEF HandleStop, TunTypeOK
    <3> QED  BY <1>3, <3>1, <3>2, <3>3
  <2>6. TunTypeOK'
    BY <1>0, <2>2, <2>3, <2>4, <2>5 DEF TunTypeOK
  <2>7. ReadFirst'
    <3>1. at'[f] = l /\ \A g \in Flows \ {f} : at'[g] = at[g]
      BY <1>0, <2>1 DEF Begins, TunTypeOK
    <3>2. \A g \in Flows \ {f} : snap'[g] = snap[g]
      BY <1>0, <1>3 DEF Fire, Apply, HandleStop, TunTypeOK
    <3>3. l \in {"granted", "check"} => snap'[f] \in Settings
      <4>1. CASE Fire(f)
        BY <1>0, <4>1 DEF Fire, TunTypeOK
      <4>2. CASE Apply(f) \/ HandleStop(f)
        BY <1>0, <3>1, <4>2 DEF Apply, HandleStop, GoesTo, TunTypeOK
      <4> QED  BY <1>3, <4>1, <4>2
    <3> QED  BY <1>0, <3>1, <3>2, <3>3 DEF ReadFirst, Prompted, Restarted
  <2> QED  BY <2>2, <2>6, <2>7 DEF FlowsInv
<1>4. ASSUME NEW f \in Flows, Ends(f),
             \/ Refused(f) \/ SkipUpdate(f) \/ SendUpdate(f) \/ SetupFails(f)
             \/ Applied(f) \/ UpdateRunTime(f) \/ StatusStopped(f)
      PROVE  FlowsInv'
  <2>1. tunCore' \in [cfg : Configs \cup {Nil}, run : BOOLEAN, root : BOOLEAN]
    <3>1. CASE SendUpdate(f)
      <4>1. at[f] = "granted" /\ snap[f] \in Settings
        BY <1>0, <3>1 DEF SendUpdate, ReadFirst
      <4>2. [tun |-> real, port |-> snap[f].port] \in Configs
        BY <1>0, <4>1 DEF TunTypeOK, Settings, Configs
      <4> QED  BY <1>0, <3>1, <4>2 DEF SendUpdate, TunTypeOK
    <3>2. CASE SetupFails(f)
      <4>1. [tun |-> FALSE, port |-> Nil] \in Configs
        BY DEF Configs
      <4> QED  BY <1>0, <3>2, <4>1 DEF SetupFails, TunTypeOK
    <3>3. CASE Refused(f) \/ SkipUpdate(f) \/ Applied(f) \/ UpdateRunTime(f) \/ StatusStopped(f)
      BY <1>0, <3>3 DEF Refused, SkipUpdate, Applied, UpdateRunTime, StatusStopped, TunTypeOK
    <3> QED  BY <1>4, <3>1, <3>2, <3>3
  <2>2. /\ runTime' \in BOOLEAN
        /\ UNCHANGED << userVars, real, admin, startTime, frames >>
    BY <1>0, <1>4 DEF Refused, SkipUpdate, SendUpdate, SetupFails, Applied, UpdateRunTime, StatusStopped, TunTypeOK
  <2>3. TunTypeOK' /\ Waits'
    BY <1>0, <1>4, <2>1, <2>2, Ending DEF TunTypeOK
  <2>4. ReadFirst'
    <3>1. at'[f] = "done" /\ \A g \in Flows \ {f} : at'[g] # at[g] => at[g] = "nested"
      BY <1>0, <1>4, Ending, NilIsNoSetting
    <3> QED  BY <1>0, <2>2, <3>1 DEF ReadFirst, Prompted, Restarted
  <2> QED  BY <2>3, <2>4 DEF FlowsInv
<1>5. ASSUME NEW f \in Flows, NEW l \in Places \ {"new", "done", "nested"}, Moves(f, l),
             \/ CheckIsAdmin(f) \/ AuthorizeCore(f) \/ Authorized(f) \/ Unauthorized(f)
             \/ Restart(f) \/ Relisten(f) \/ Fetched(f) \/ ReadReal(f) \/ SendSetup(f)
             \/ HandleStart(f)
      PROVE  FlowsInv'
  <2>1. /\ at' \in [Flows -> Places] /\ Waits'
        /\ at'[f] = l /\ \A g \in Flows \ {f} : at'[g] = at[g]
    BY <1>0, <1>5, Moving DEF Moves, TunTypeOK
  <2>2. CASE CheckIsAdmin(f) \/ AuthorizeCore(f) \/ Authorized(f) \/ Unauthorized(f)
    <3>1. /\ real' \in BOOLEAN /\ admin' \in BOOLEAN
          /\ UNCHANGED << userVars, runVars, tunCore, frames >>
      BY <1>0, <2>2 DEF CheckIsAdmin, AuthorizeCore, Authorized, Unauthorized, RealOff, TunTypeOK
    <3>2. at[f] \in {"check", "recheck", "dialog"}
      BY <2>2 DEF CheckIsAdmin, AuthorizeCore, Authorized, Unauthorized, Resumes
    <3> QED  BY <1>0, <2>1, <3>1, <3>2 DEF FlowsInv, TunTypeOK, ReadFirst, Prompted
  <2>3. CASE Restart(f) \/ Relisten(f)
    <3>1. tunCore' \in [cfg : Configs \cup {Nil}, run : BOOLEAN, root : BOOLEAN] /\ startTime' \in BOOLEAN
      <4>1. CASE Restart(f)
        BY <1>0, <4>1 DEF Restart, TunTypeOK
      <4>2. CASE Relisten(f)
        BY <1>0, <4>2 DEF Relisten, StartAgain, TunTypeOK
      <4> QED  BY <2>3, <4>1, <4>2
    <3>2. UNCHANGED << userVars, real, admin, runTime, frames >> /\ at[f] \in {"restart", "relisten"}
      BY <2>3 DEF Restart, Relisten, Resumes
    <3> QED  BY <1>0, <2>1, <3>1, <3>2 DEF FlowsInv, TunTypeOK, ReadFirst, Prompted, Restarted
  <2>4. CASE Fetched(f)
    <3>1. /\ snap' = [snap EXCEPT ![f] = want] /\ real' \in BOOLEAN
          /\ UNCHANGED << userVars, admin, runVars, tunCore, op, parent, prev >>
      BY <1>0, <2>4 DEF Fetched, Ask, SwitchOff, TunTypeOK
    <3>2. snap' \in [Flows -> Settings \cup {Nil}] /\ snap'[f] \in Settings
          /\ \A g \in Flows \ {f} : snap'[g] = snap[g]
      BY <1>0, <3>1 DEF TunTypeOK
    <3> QED  BY <1>0, <2>1, <3>1, <3>2 DEF FlowsInv, TunTypeOK, ReadFirst
  <2>5. CASE ReadReal(f)
    <3>1. /\ prev' \in [Flows -> BOOLEAN] /\ at[f] = "granted"
          /\ UNCHANGED << userVars, real, admin, runVars, tunCore, op, parent, snap >>
      BY <1>0, <2>5 DEF ReadReal, TunTypeOK
    <3> QED  BY <1>0, <2>1, <3>1 DEF FlowsInv, TunTypeOK, ReadFirst
  <2>6. CASE SendSetup(f)
    <3>1. at[f] = "params" /\ l = "applied" /\ UNCHANGED << userVars, real, admin, runVars, frames >>
      BY <1>0, <2>1, <2>6 DEF SendSetup, Resumes, GoesTo, TunTypeOK
    <3>2. [tun |-> prev[f], port |-> snap[f].port] \in Configs
      <4>1. snap[f] \in Settings
        BY <1>0, <3>1 DEF ReadFirst
      <4> QED  BY <1>0, <4>1 DEF TunTypeOK, Settings, Configs
    <3>3. tunCore' \in [cfg : Configs \cup {Nil}, run : BOOLEAN, root : BOOLEAN]
      BY <1>0, <2>6, <3>2 DEF SendSetup, TunTypeOK
    <3> QED  BY <1>0, <2>1, <3>1, <3>3 DEF FlowsInv, TunTypeOK, ReadFirst, Prompted, Restarted
  <2>7. CASE HandleStart(f)
    <3>1. /\ l = "tasks" /\ startTime' \in BOOLEAN
          /\ tunCore' \in [cfg : Configs \cup {Nil}, run : BOOLEAN, root : BOOLEAN]
          /\ UNCHANGED << userVars, real, admin, runTime, frames >>
      BY <1>0, <2>1, <2>7 DEF HandleStart, GoesTo, TunTypeOK
    <3> QED  BY <1>0, <2>1, <3>1 DEF FlowsInv, TunTypeOK, ReadFirst, Prompted, Restarted
  <2> QED  BY <1>5, <2>2, <2>3, <2>4, <2>5, <2>6, <2>7
<1> QED  BY <1>0, <1>1, <1>2, <1>3, <1>4, <1>5, Shapes DEF TunNext

-----------------------------------------------------------------------------
(* The rights *)

LEMMA RightsStep == FlowsInv /\ RightsInv /\ [TunNext]_tunVars => RightsInv'
<1> SUFFICES ASSUME FlowsInv, RightsInv, [TunNext]_tunVars PROVE RightsInv'
  OBVIOUS
<1> USE DEF userVars, runVars, frames, RightsInv, TunNeedsRights, HasTun
<1>0. /\ real \in BOOLEAN /\ admin \in BOOLEAN /\ prev \in [Flows -> BOOLEAN]
      /\ tunCore \in [cfg : Configs \cup {Nil}, run : BOOLEAN, root : BOOLEAN]
  BY DEF FlowsInv, TunTypeOK
<1>1. ASSUME admin' = admin, real' => real \/ admin, tunCore'.cfg = tunCore.cfg, prev' = prev PROVE RightsInv'
  BY <1>1
<1>2. CASE ChangeSettings \/ UNCHANGED tunVars
  BY <1>1, <1>2 DEF ChangeSettings, tunVars
<1>3. ASSUME NEW f \in Flows, Fire(f) PROVE RightsInv'
  BY <1>0, <1>3 DEF Fire, Ask, SwitchOff
<1>4. ASSUME NEW f \in Flows, Apply(f) \/ HandleStop(f) PROVE RightsInv'
  <2>1. tunCore'.cfg = tunCore.cfg /\ real' = real
    BY <1>0, <1>4 DEF Apply, HandleStop
  <2> QED  BY <1>1, <1>4, <2>1 DEF Apply, HandleStop
<1>5. ASSUME NEW f \in Flows,
             CheckIsAdmin(f) \/ AuthorizeCore(f) \/ Authorized(f) \/ Unauthorized(f)
      PROVE  RightsInv'
  BY <1>0, <1>5 DEF CheckIsAdmin, AuthorizeCore, Authorized, Unauthorized, RealOff, HasRights
<1>6. ASSUME NEW f \in Flows, Restart(f) \/ Relisten(f) PROVE RightsInv'
  <2>1. tunCore'.cfg \in {Nil, tunCore.cfg}
    <3>1. CASE Restart(f)
      BY <3>1 DEF Restart
    <3>2. CASE Relisten(f)
      BY <1>0, <3>2 DEF Relisten, StartAgain
    <3> QED  BY <1>6, <3>1, <3>2
  <2> QED  BY <1>6, <2>1 DEF Restart, Relisten
<1>7. ASSUME NEW f \in Flows, NEW g \in Flows, InitCore(f, g) PROVE RightsInv'
  BY <1>1, <1>7 DEF InitCore
<1>8. ASSUME NEW f \in Flows,
             Refused(f) \/ SkipUpdate(f) \/ Applied(f) \/ UpdateRunTime(f) \/ StatusStopped(f)
      PROVE  RightsInv'
  BY <1>1, <1>8 DEF Refused, SkipUpdate, Applied, UpdateRunTime, StatusStopped
<1>9. ASSUME NEW f \in Flows, SendUpdate(f) \/ SendSetup(f) \/ SetupFails(f) PROVE RightsInv'
  <2>1. UNCHANGED << real, admin, prev >>
    BY <1>9 DEF SendUpdate, SendSetup, SetupFails
  <2>2. CASE tunCore'.cfg = tunCore.cfg
    BY <1>1, <2>1, <2>2
  <2>3. CASE tunCore'.cfg.tun \in {real, prev[f], FALSE}
    BY <1>0, <2>1, <2>3
  <2>4. \/ tunCore'.cfg = tunCore.cfg
        \/ tunCore'.cfg.tun = real \/ tunCore'.cfg.tun = prev[f] \/ tunCore'.cfg.tun = FALSE
    <3>1. CASE SendUpdate(f)
      BY <1>0, <3>1 DEF SendUpdate
    <3>2. CASE SendSetup(f)
      BY <1>0, <3>2 DEF SendSetup
    <3>3. CASE SetupFails(f)
      BY <1>0, <3>3 DEF SetupFails
    <3> QED  BY <1>9, <3>1, <3>2, <3>3
  <2> QED  BY <2>2, <2>3, <2>4
<1>10. ASSUME NEW f \in Flows, Fetched(f) PROVE RightsInv'
  BY <1>10 DEF Fetched, Ask, SwitchOff
<1>11. ASSUME NEW f \in Flows, ReadReal(f) PROVE RightsInv'
  BY <1>0, <1>11 DEF ReadReal
<1>12. ASSUME NEW f \in Flows, HandleStart(f) PROVE RightsInv'
  <2>1. tunCore'.cfg = tunCore.cfg
    BY <1>0, <1>12 DEF HandleStart
  <2> QED  BY <1>1, <1>12, <2>1 DEF HandleStart
<1> QED  BY <1>2, <1>3, <1>4, <1>5, <1>6, <1>7, <1>8, <1>9, <1>10, <1>11, <1>12 DEF TunNext, Step

-----------------------------------------------------------------------------
(* Operations in turn *)

\* Whoever asks for rights, restarts, starts or stops is nobody's setup, and no
\* two do at once.
LEMMA OneInTurn ==
  ASSUME InTurn, NEW f \in Flows, NEW g \in Flows, Active(f), parent[f] = Nil,
         Active(g), at[g] \notin {"fetch", "granted", "params", "applied"}
  PROVE  f = g
BY DEF InTurn

LEMMA TurnOpens ==
  ASSUME FlowsInv, TurnInv, Idle, NEW f \in Flows, Fire(f) \/ Apply(f) \/ HandleStop(f)
  PROVE  TurnInv'
<1> USE DEF userVars, runVars, frames
<1>0. TunTypeOK /\ \A g \in Flows : ~Active(g)
  BY DEF FlowsInv, Idle, Active
<1>1. PICK l \in {"granted", "check", "fetch", "stopping"} : Begins(f, l)
  BY Openings
<1>2. at'[f] = l /\ \A g \in Flows \ {f} : at'[g] = at[g]
  BY <1>0, <1>1 DEF Begins, TunTypeOK
<1>3. \A g \in Flows : Active(g)' => g = f
  BY <1>0, <1>2 DEF Active
<1>4. parent'[f] = Nil
  BY <1>0, <1>1 DEF Begins, TunTypeOK
<1>5. InTurn'
  BY <1>3, <1>4 DEF InTurn
<1>6. runTime = startTime /\ tunCore.run = startTime
  BY <1>0 DEF TurnInv, RunTimeShown, CoreListens, Active, Restarted
<1>7. \A g \in Flows \ {f} : at'[g] \in {"new", "done"}
  BY <1>3 DEF Active
<1>8. CASE Fire(f)
  <2>1. /\ snap'[f] = want /\ want' = want /\ timer' = FALSE /\ op'[f] = "update"
        /\ startTime' = startTime /\ runTime' = runTime /\ tunCore' = tunCore
    BY <1>0, <1>8 DEF Fire, TopLevel, Begin, TunTypeOK
  <2>2. \/ ~want.tun /\ ~real' /\ at'[f] = "granted"
        \/ want.tun /\ real /\ at'[f] = "granted"
        \/ want.tun /\ ~real /\ at'[f] = "check"
    BY <1>0, <1>8 DEF Fire, Ask, SwitchOff, GoesTo, TunTypeOK
  <2>3. UpToDate'
    BY <1>7, <2>1, <2>2 DEF UpToDate, Active, Prompted, Restarted
  <2>4. SwitchedOff'
    BY <2>1, <2>2 DEF SwitchedOff
  <2>5. \A g \in Flows : at'[g] \notin {"tasks", "stopping"} \cup Restarted
    BY <1>7, <2>2 DEF Restarted
  <2>6. RunTimeShown' /\ CoreListens'
    BY <1>6, <2>1, <2>5 DEF RunTimeShown, CoreListens
  <2> QED  BY <1>5, <2>3, <2>4, <2>6 DEF TurnInv
<1>9. CASE Apply(f)
  <2>1. /\ at'[f] = "fetch" /\ op'[f] # "update"
        /\ UNCHANGED << want, timer, real, runVars, tunCore >>
    BY <1>0, <1>9 DEF Apply, TopLevel, Begin, GoesTo, TunTypeOK
  <2>2. UpToDate'
    BY <1>7, <2>1 DEF UpToDate, Active, Prompted, Restarted
  <2>3. SwitchedOff'
    BY <1>0, <2>1 DEF TurnInv, SwitchedOff, HasTun, Active
  <2>4. RunTimeShown' /\ CoreListens'
    BY <1>6, <1>7, <2>1 DEF RunTimeShown, CoreListens, Restarted
  <2> QED  BY <1>5, <2>2, <2>3, <2>4 DEF TurnInv
<1>10. CASE HandleStop(f)
  <2>1. /\ at'[f] = "stopping" /\ op'[f] # "update" /\ ~startTime'
        /\ UNCHANGED << want, timer, real, runTime >>
    BY <1>0, <1>10 DEF HandleStop, TopLevel, Begin, GoesTo, TunTypeOK
  <2>2. ~tunCore'.run /\ tunCore'.cfg = tunCore.cfg
    BY <1>0, <1>10 DEF HandleStop, TunTypeOK
  <2>3. UpToDate'
    BY <1>7, <2>1 DEF UpToDate, Active, Prompted, Restarted
  <2>4. SwitchedOff'
    BY <1>0, <2>1, <2>2 DEF TurnInv, SwitchedOff, HasTun, Active
  <2>5. RunTimeShown'
    BY <2>1 DEF RunTimeShown
  <2>6. CoreListens'
    <3>1. \A g \in Flows : at'[g] \notin Restarted
      BY <1>7, <2>1 DEF Restarted
    <3>2. tunCore'.run = startTime'
      BY <1>0, <1>10, <2>1 DEF HandleStop, TunTypeOK
    <3> QED  BY <3>1, <3>2 DEF CoreListens
  <2> QED  BY <1>5, <2>3, <2>4, <2>5, <2>6 DEF TurnInv
<1> QED  BY <1>8, <1>9, <1>10

LEMMA TurnNests ==
  ASSUME FlowsInv, TurnInv, NEW f \in Flows, NEW g \in Flows, InitCore(f, g)
  PROVE  TurnInv'
<1> USE DEF userVars, runVars, frames
<1>0. /\ f # g /\ at[f] = "init" /\ at[g] = "new"
      /\ at'[f] = "nested" /\ at'[g] = "fetch" /\ \A h \in Flows \ {f, g} : at'[h] = at[h]
      /\ parent'[g] = f /\ op'[g] = "apply"
      /\ \A h \in Flows \ {g} : parent'[h] = parent[h] /\ op'[h] = op[h]
  BY Nesting DEF FlowsInv
<1>1. UNCHANGED << userVars, real, admin, runVars, tunCore, snap, prev >>
  BY DEF InitCore
<1>2. Active(f) /\ parent[f] = Nil
  BY <1>0 DEF TurnInv, InTurn, Active
<1>3. \A h \in Flows : Active(h) => parent[h] = Nil
  <2> SUFFICES ASSUME NEW h \in Flows, Active(h), parent[h] # Nil PROVE FALSE
    OBVIOUS
  <2>1. parent[h] \in Flows /\ at[parent[h]] = "nested"
    BY DEF TurnInv, InTurn
  <2>2. parent[h] = f
    BY <1>2, <2>1, OneInTurn DEF TurnInv, Active
  <2> QED  BY <1>0, <2>1, <2>2
<1>4. InTurn'
  <2>1. \A h \in Flows \ {g} : Active(h)' => Active(h)
    BY <1>0 DEF Active
  <2>2. \A h \in Flows \ {g} : Active(h)' => h = f
    BY <1>0, <1>2, <1>3, <2>1 DEF TurnInv, InTurn
  <2> QED  BY <1>0, <1>2, <2>2, NilIsNoSetting DEF InTurn
<1>5. UpToDate'
  BY <1>0, <1>1 DEF TurnInv, UpToDate, Active, Prompted, Restarted
<1>6. SwitchedOff'
  BY <1>0, <1>1 DEF TurnInv, UpToDate, SwitchedOff, Prompted, Restarted
<1>7. RunTimeShown' /\ CoreListens'
  BY <1>0, <1>1 DEF TurnInv, RunTimeShown, CoreListens, Restarted
<1> QED  BY <1>4, <1>5, <1>6, <1>7 DEF TurnInv

LEMMA TurnEnds ==
  ASSUME FlowsInv, TurnInv, NEW f \in Flows, Ends(f),
         \/ Refused(f) \/ SkipUpdate(f) \/ SendUpdate(f) \/ SetupFails(f)
         \/ Applied(f) \/ UpdateRunTime(f) \/ StatusStopped(f)
  PROVE  TurnInv'
<1> USE DEF userVars, runVars, frames
<1>0. /\ at'[f] = "done"
      /\ \A g \in Flows \ {f} : at'[g] = IF g = parent[f] THEN "relisten" ELSE at[g]
      /\ parent[f] # Nil => parent[f] \in Flows \ {f} /\ at[parent[f]] = "nested"
  BY Ending DEF FlowsInv
<1>1. UNCHANGED << want, timer, real, startTime, op, parent, snap, prev >>
  BY DEF Refused, SkipUpdate, SendUpdate, SetupFails, Applied, UpdateRunTime, StatusStopped
<1>2. \A g \in Flows \ {f} : at'[g] # at[g] => at[g] = "nested" /\ at'[g] = "relisten" /\ g = parent[f]
  BY <1>0, NilIsNoSetting
<1>3. \A g \in Flows : Active(g)' => Active(g) /\ g # f
  BY <1>0, <1>2 DEF Active
<1>4. Active(f) /\ at[f] \in {"refused", "granted", "fetch", "params", "applied", "tasks", "stopping"}
  BY DEF Ends, Refused, SkipUpdate, SendUpdate, SetupFails, Applied, UpdateRunTime, StatusStopped, Resumes
<1>5. InTurn'
  <2>1. \A g \in Flows : at[g] = "nested" => parent[g] = Nil
    BY DEF TurnInv, InTurn, Active
  <2>2. ASSUME NEW g \in Flows, Active(g)', parent[g] # Nil
        PROVE  /\ op[g] = "apply" /\ at'[g] \in {"fetch", "granted", "params", "applied"}
               /\ parent[g] \in Flows /\ at'[parent[g]] = "nested"
    <3>1. Active(g) /\ g # f /\ at[parent[g]] = "nested" /\ parent[g] \in Flows \ {f}
      BY <1>3, <1>4, <2>2 DEF TurnInv, InTurn
    <3>2. parent[g] # parent[f]
      BY <1>4, <2>2, <3>1 DEF FlowsInv, Waits
    <3>3. at'[g] = at[g]
      BY <1>2, <2>1, <2>2, <3>1
    <3> QED  BY <1>0, <2>2, <3>1, <3>2, <3>3 DEF TurnInv, InTurn
  <2> QED  BY <1>1, <1>3, <2>2 DEF TurnInv, InTurn
<1>6. UpToDate'
  <2>1. ASSUME NEW g \in Flows, at'[g] \in Prompted PROVE at[g] \in Prompted
    BY <1>0, <1>2, <2>1 DEF Prompted, Restarted
  <2>2. ASSUME NEW g \in Flows, at'[g] \in Restarted \cup {"restart"} PROVE at[g] \in Restarted \cup {"restart"}
    BY <1>0, <1>2, <2>2 DEF Restarted
  <2>3. ASSUME NEW g \in Flows, at'[g] \in {"granted", "params"} PROVE at[g] = at'[g]
    BY <1>0, <1>2, <2>3
  <2> QED  BY <1>1, <1>3, <2>1, <2>2, <2>3 DEF TurnInv, UpToDate
<1>7. SwitchedOff'
  <2> SUFFICES ASSUME ~timer, ~want.tun
               PROVE  ~real' /\ (HasTun' => \E g \in Flows : op'[g] = "update" /\ at'[g] = "granted")
    BY <1>1 DEF SwitchedOff
  <2>1. ~real /\ (HasTun => \E g \in Flows : op[g] = "update" /\ at[g] = "granted")
    BY DEF TurnInv, SwitchedOff
  <2>2. real = FALSE /\ ~real'
    BY <1>1, <2>1 DEF FlowsInv, TunTypeOK
  <2>3. CASE SendUpdate(f)
    <3>1. tunCore'.cfg = Nil \/ tunCore'.cfg.tun = FALSE
      BY <2>2, <2>3 DEF SendUpdate, FlowsInv, TunTypeOK
    <3> QED  BY <2>2, <3>1 DEF HasTun
  <2>4. CASE SetupFails(f) /\ tunCore' # tunCore
    <3>1. tunCore'.cfg.tun = FALSE
      BY <2>4 DEF SetupFails, FlowsInv, TunTypeOK
    <3> QED  BY <2>2, <3>1 DEF HasTun
  <2>5. CASE tunCore' = tunCore /\ ~(op[f] = "update" /\ at[f] = "granted")
    <3>1. HasTun' => HasTun
      BY <2>5 DEF HasTun
    <3>2. ASSUME NEW g \in Flows, op[g] = "update", at[g] = "granted"
          PROVE  op'[g] = "update" /\ at'[g] = "granted"
      BY <1>1, <1>2, <2>5, <3>2
    <3> QED  BY <2>1, <2>2, <3>1, <3>2
  <2>6. SetupFails(f) /\ tunCore' = tunCore => at[f] # "granted"
    BY DEF SetupFails, Resumes
  <2>7. ~SkipUpdate(f)
    BY <1>4 DEF SkipUpdate, FirstEnable, TurnInv, UpToDate
  <2>8. Refused(f) \/ Applied(f) \/ UpdateRunTime(f) \/ StatusStopped(f) =>
          tunCore' = tunCore /\ at[f] # "granted"
    BY DEF Refused, Applied, UpdateRunTime, StatusStopped, Resumes
  <2> QED  BY <2>3, <2>4, <2>5, <2>6, <2>7, <2>8
<1>8. RunTimeShown'
  <2>1. \A g \in Flows : at'[g] = "stopping" => ~startTime
    BY <1>0, <1>2 DEF TurnInv, RunTimeShown
  <2>2. CASE UpdateRunTime(f)
    BY <1>1, <2>1, <2>2 DEF UpdateRunTime, RunTimeShown
  <2>3. CASE StatusStopped(f)
    <3>1. at[f] = "stopping"
      BY <2>3 DEF StatusStopped, Resumes
    <3>2. ~startTime /\ runTime' = FALSE /\ startTime \in BOOLEAN
      BY <2>3, <3>1 DEF StatusStopped, TurnInv, RunTimeShown, FlowsInv, TunTypeOK
    <3> QED  BY <1>1, <2>1, <3>2 DEF RunTimeShown
  <2>4. CASE Refused(f) \/ SkipUpdate(f) \/ SendUpdate(f) \/ SetupFails(f) \/ Applied(f)
    <3>1. at[f] \notin {"tasks", "stopping"} /\ runTime' = runTime
      BY <2>4 DEF Refused, SkipUpdate, SendUpdate, SetupFails, Applied, Resumes
    <3> QED  BY <1>1, <1>2, <2>1, <3>1 DEF TurnInv, RunTimeShown
  <2> QED  BY <2>2, <2>3, <2>4
<1>9. CoreListens'
  <2>1. tunCore'.run = tunCore.run
    BY DEF Refused, SkipUpdate, SendUpdate, SetupFails, Applied, UpdateRunTime, StatusStopped, FlowsInv, TunTypeOK
  <2>2. \A g \in Flows : at'[g] \in Restarted <=> at[g] \in Restarted
    BY <1>0, <1>2, <1>4 DEF Restarted
  <2> QED  BY <1>1, <2>1, <2>2 DEF TurnInv, CoreListens
<1> QED  BY <1>5, <1>6, <1>7, <1>8, <1>9 DEF TurnInv

LEMMA TurnMoves ==
  ASSUME FlowsInv, TurnInv, NEW f \in Flows,
         NEW l \in Places \ {"new", "done", "nested"}, Moves(f, l),
         \/ CheckIsAdmin(f) \/ AuthorizeCore(f) \/ Authorized(f) \/ Unauthorized(f)
         \/ Restart(f) \/ Relisten(f) \/ Fetched(f) \/ ReadReal(f) \/ SendSetup(f)
         \/ HandleStart(f)
  PROVE  TurnInv'
<1> USE DEF userVars, runVars, frames
<1> DEFINE Asking == CheckIsAdmin(f) \/ AuthorizeCore(f) \/ Authorized(f) \/ Unauthorized(f)
           Restarting == Restart(f) \/ Relisten(f)
           Setting == Fetched(f) \/ ReadReal(f) \/ SendSetup(f)
<1>0. /\ TunTypeOK /\ Active(f) /\ at[f] # "nested"
      /\ at'[f] = l /\ (\A g \in Flows \ {f} : at'[g] = at[g])
      /\ op' = op /\ parent' = parent
  BY DEF FlowsInv, Moves, TunTypeOK
<1>1. /\ \A g \in Flows : Active(g)' <=> Active(g)
      /\ \A g \in Flows : at'[g] = "nested" <=> at[g] = "nested"
  BY <1>0 DEF Active
<1>2. want' = want /\ timer' = timer /\ runTime' = runTime
  BY DEF CheckIsAdmin, AuthorizeCore, Authorized, Unauthorized, Restart, Relisten,
         Fetched, ReadReal, SendSetup, HandleStart
<1>3. /\ Asking => at[f] \in {"check", "recheck", "dialog"}
      /\ Restarting => at[f] \in {"restart", "relisten"}
      /\ Setting => at[f] \in {"fetch", "granted", "params"}
      /\ HandleStart(f) => op[f] = "start" /\ at[f] = "applied"
  BY DEF CheckIsAdmin, AuthorizeCore, Authorized, Unauthorized, Restart, Relisten,
         Fetched, ReadReal, SendSetup, HandleStart, Resumes
\* only a setup has company
<1>4. ~Setting =>
        /\ parent[f] = Nil
        /\ \A g \in Flows \ {f} : at[g] \notin Prompted \cup {"tasks", "stopping"}
  <2> SUFFICES ASSUME ~Setting
               PROVE  /\ parent[f] = Nil
                      /\ \A g \in Flows \ {f} : at[g] \notin Prompted \cup {"tasks", "stopping"}
    OBVIOUS
  <2>1. parent[f] = Nil
    BY <1>0, <1>3 DEF TurnInv, InTurn
  <2>2. ASSUME NEW g \in Flows, at[g] \in Prompted \cup {"tasks", "stopping"} PROVE g = f
    <3>1. Active(g) /\ at[g] \notin {"fetch", "granted", "params", "applied"}
      BY <2>2 DEF Active, Prompted, Restarted
    <3> QED  BY <1>0, <2>1, <3>1, OneInTurn DEF TurnInv
  <2> QED  BY <2>1, <2>2
\* and it asks for no rights while a restart waits for it
<1>5. Fetched(f) =>
        \/ ~want.tun /\ l = "granted" /\ ~real'
        \/ want.tun /\ l = "granted" /\ real /\ real'
        \/ want.tun /\ ~real /\ l = "check" /\ real' = real
  BY <1>0 DEF Fetched, Ask, SwitchOff, GoesTo, TunTypeOK
<1>6. /\ ReadReal(f) => l = "params" /\ at[f] = "granted" /\ real' = real /\ prev' = [prev EXCEPT ![f] = real]
      /\ SendSetup(f) => l = "applied" /\ at[f] = "params" /\ real' = real
      /\ HandleStart(f) => l = "tasks" /\ real' = real
  BY <1>0 DEF ReadReal, SendSetup, HandleStart, GoesTo, TunTypeOK, Resumes
<1>7. parent[f] # Nil => op[f] = "apply" /\ l \in {"granted", "params", "applied"}
  <2> SUFFICES ASSUME parent[f] # Nil PROVE op[f] = "apply" /\ l \in {"granted", "params", "applied"}
    OBVIOUS
  <2>1. Setting /\ op[f] = "apply" /\ parent[f] \in Flows /\ at[parent[f]] = "nested"
    BY <1>0, <1>4 DEF TurnInv, InTurn
  <2>2. want.tun /\ real
    BY <2>1 DEF TurnInv, UpToDate, Prompted, Restarted
  <2> QED  BY <1>5, <1>6, <2>1, <2>2
<1>8. InTurn'
  <2>1. ASSUME NEW g \in Flows, Active(g), parent[g] # Nil
        PROVE  /\ op[g] = "apply" /\ at'[g] \in {"fetch", "granted", "params", "applied"}
               /\ parent[g] \in Flows /\ at'[parent[g]] = "nested"
    BY <1>0, <1>1, <1>7, <2>1 DEF TurnInv, InTurn
  <2> QED  BY <1>0, <1>1, <2>1 DEF TurnInv, InTurn
<1>9. ~want.tun => ~Asking /\ ~Restarting
  BY <1>3 DEF TurnInv, UpToDate, Prompted, Restarted
<1>10. UpToDate'
  <2>1. ASSUME NEW g \in Flows, at'[g] \in Prompted PROVE want.tun
    <3>1. CASE g # f \/ at[f] \in Prompted
      BY <1>0, <2>1, <3>1 DEF TurnInv, UpToDate
    <3>2. CASE g = f /\ at[f] \notin Prompted
      <4>1. Setting \/ HandleStart(f)
        BY <1>3, <3>2 DEF Prompted, Restarted
      <4> QED  BY <1>0, <1>5, <1>6, <2>1, <3>2, <4>1 DEF Prompted, Restarted
    <3> QED  BY <3>1, <3>2
  <2>2. ASSUME NEW g \in Flows, at'[g] \in Restarted \cup {"restart"} PROVE real'
    <3>1. CASE Asking
      <4>1. g = f
        BY <1>0, <1>4, <1>3, <2>2, <3>1 DEF Prompted
      <4> QED  BY <1>0, <2>2, <3>1, <4>1
               DEF CheckIsAdmin, AuthorizeCore, Authorized, Unauthorized, GoesTo, Restarted, TunTypeOK
    <3>2. CASE Restarting
      <4>1. real' = real /\ real
        BY <1>3, <3>2 DEF Restart, Relisten, TurnInv, UpToDate, Restarted
      <4> QED  BY <4>1
    <3>3. CASE Setting \/ HandleStart(f)
      <4>1. g # f
        BY <1>0, <1>5, <1>6, <2>2, <3>3 DEF Restarted
      <4>2. real /\ want.tun
        BY <1>0, <2>2, <4>1 DEF TurnInv, UpToDate, Prompted
      <4> QED  BY <1>5, <1>6, <3>3, <4>2
    <3> QED  BY <3>1, <3>2, <3>3
  <2>3. ASSUME NEW g \in Flows, op[g] = "update", Active(g) PROVE snap'[g] = want
    <3>1. snap[g] = want
      BY <2>3 DEF TurnInv, UpToDate
    <3>2. snap' = snap \/ snap' = [snap EXCEPT ![f] = want]
      BY DEF CheckIsAdmin, AuthorizeCore, Authorized, Unauthorized, Restart, Relisten,
             Fetched, ReadReal, SendSetup, HandleStart
    <3> QED  BY <1>0, <3>1, <3>2 DEF TunTypeOK
  <2>4. ASSUME NEW g \in Flows, ~want.tun, at'[g] = "granted" PROVE ~real'
    <3>1. Setting \/ HandleStart(f)
      BY <1>9, <2>4
    <3>2. CASE Fetched(f)
      BY <1>5, <2>4, <3>2
    <3>3. CASE ~Fetched(f)
      <4>1. g # f /\ real' = real
        BY <1>0, <1>6, <2>4, <3>1, <3>3
      <4>2. ~real
        BY <1>0, <2>4, <4>1 DEF TurnInv, UpToDate
      <4> QED  BY <4>1, <4>2
    <3> QED  BY <3>2, <3>3
  <2>5. ASSUME NEW g \in Flows, ~want.tun, at'[g] = "params" PROVE ~prev'[g]
    <3>1. Setting \/ HandleStart(f)
      BY <1>9, <2>5
    <3>2. CASE ReadReal(f)
      <4>1. ~real /\ prev' = [prev EXCEPT ![f] = real]
        BY <1>6, <2>5, <3>2 DEF TurnInv, UpToDate
      <4>2. g = f \/ ~prev[g]
        BY <1>0, <2>5 DEF TurnInv, UpToDate
      <4> QED  BY <1>0, <4>1, <4>2 DEF TunTypeOK
    <3>3. CASE ~ReadReal(f)
      <4>1. g # f /\ prev' = prev
        BY <1>0, <1>5, <1>6, <2>5, <3>1, <3>3 DEF Fetched, SendSetup, HandleStart
      <4>2. ~prev[g]
        BY <1>0, <2>5, <4>1 DEF TurnInv, UpToDate
      <4> QED  BY <4>1, <4>2
    <3> QED  BY <3>2, <3>3
  <2> QED  BY <1>0, <1>1, <1>2, <2>1, <2>2, <2>3, <2>4, <2>5 DEF UpToDate
<1>11. SwitchedOff'
  <2> SUFFICES ASSUME ~timer, ~want.tun
               PROVE  ~real' /\ (HasTun' => \E g \in Flows : op[g] = "update" /\ at'[g] = "granted")
    BY <1>0, <1>2 DEF SwitchedOff
  <2>1. ~real /\ (HasTun => \E g \in Flows : op[g] = "update" /\ at[g] = "granted")
    BY DEF TurnInv, SwitchedOff
  <2>2. Setting \/ HandleStart(f)
    BY <1>9
  <2>3. ~real'
    BY <1>5, <1>6, <2>1, <2>2
  <2>4. ~(op[f] = "update" /\ at[f] = "granted")
    BY <1>3, <2>2 DEF Fetched, ReadReal, SendSetup, Resumes
  <2>5. \A g \in Flows : op[g] = "update" /\ at[g] = "granted" => at'[g] = "granted"
    BY <1>0, <2>4
  <2>6. CASE SendSetup(f)
    <3>1. ~prev[f] /\ tunCore'.cfg.tun = prev[f]
      BY <1>0, <1>6, <2>6 DEF SendSetup, TurnInv, UpToDate, TunTypeOK
    <3>2. ~HasTun'
      BY <1>0, <3>1 DEF HasTun, TunTypeOK
    <3> QED  BY <2>3, <3>2
  <2>7. CASE ~SendSetup(f)
    <3>1. tunCore'.cfg = tunCore.cfg
      BY <1>0, <2>2, <2>7 DEF Fetched, ReadReal, HandleStart, TunTypeOK
    <3>2. HasTun' => HasTun
      BY <3>1 DEF HasTun
    <3> QED  BY <2>1, <2>3, <2>5, <3>2
  <2> QED  BY <2>6, <2>7
<1>12. CASE Asking \/ Setting
  <2>1. startTime' = startTime /\ tunCore'.run = tunCore.run
    BY <1>0, <1>12 DEF CheckIsAdmin, AuthorizeCore, Authorized, Unauthorized, Fetched, ReadReal, SendSetup, TunTypeOK
  <2>2. l \notin Restarted \cup {"tasks", "stopping"}
    <3>1. Asking => l \in {"granted", "recheck", "dialog", "restart", "refused"}
      BY <1>0 DEF CheckIsAdmin, AuthorizeCore, Authorized, Unauthorized, GoesTo, TunTypeOK
    <3> QED  BY <1>5, <1>6, <1>12, <3>1 DEF Restarted
  <2>3. at[f] \notin Restarted \cup {"tasks", "stopping"}
    BY <1>3, <1>12 DEF Restarted
  <2>4. \A g \in Flows : \A s \in Restarted \cup {"tasks", "stopping"} : at'[g] = s <=> at[g] = s
    BY <1>0, <2>2, <2>3
  <2>5. RunTimeShown'
    BY <1>2, <2>1, <2>4 DEF TurnInv, RunTimeShown
  <2>6. CoreListens'
    BY <2>1, <2>4 DEF TurnInv, CoreListens
  <2> QED  BY <1>8, <1>10, <1>11, <2>5, <2>6 DEF TurnInv
<1>13. CASE Restart(f)
  <2>1. l = "init" /\ at[f] = "restart" /\ startTime' = startTime /\ ~tunCore'.run
    BY <1>0, <1>13 DEF Restart, GoesTo, Resumes, TunTypeOK
  <2>2. RunTimeShown'
    BY <1>0, <1>2, <2>1 DEF TurnInv, RunTimeShown
  <2>3. CoreListens'
    BY <1>0, <2>1 DEF CoreListens, Restarted
  <2> QED  BY <1>8, <1>10, <1>11, <2>2, <2>3 DEF TurnInv
<1>14. CASE Relisten(f)
  <2>1. l = "granted" /\ at[f] = "relisten"
    BY <1>0, <1>14 DEF Relisten, GoesTo, Resumes, TunTypeOK
  <2>2. \A g \in Flows : at'[g] \notin Restarted \cup {"tasks", "stopping"}
    BY <1>0, <1>3, <1>4, <2>1 DEF Prompted, Restarted
  <2>3. \A g \in Flows : at[g] \notin {"tasks", "stopping"}
    BY <1>0, <2>1, <2>2
  <2>4. runTime = startTime /\ ~tunCore.run
    BY <2>1, <2>3 DEF TurnInv, RunTimeShown, CoreListens, Restarted
  <2>5. startTime' = runTime /\ tunCore'.run = runTime
    <3>1. CASE runTime
      BY <1>0, <1>14, <3>1 DEF Relisten, StartAgain, TunTypeOK
    <3>2. CASE ~runTime
      BY <1>0, <1>14, <2>4, <3>2 DEF Relisten, StartAgain, TunTypeOK
    <3> QED  BY <3>1, <3>2
  <2> QED  BY <1>2, <1>8, <1>10, <1>11, <2>2, <2>5 DEF TurnInv, RunTimeShown, CoreListens
<1>15. CASE HandleStart(f)
  <2>1. /\ l = "tasks" /\ startTime' = TRUE /\ tunCore'.run = TRUE
    BY <1>0, <1>6, <1>15 DEF HandleStart, TunTypeOK
  <2>2. \A g \in Flows : at'[g] \notin Restarted \cup {"stopping"}
    BY <1>0, <1>3, <1>4, <1>15, <2>1 DEF Prompted, Restarted
  <2>3. RunTimeShown'
    BY <1>0, <2>1, <2>2 DEF RunTimeShown
  <2>4. CoreListens'
    BY <2>1, <2>2 DEF CoreListens
  <2> QED  BY <1>8, <1>10, <1>11, <2>3, <2>4 DEF TurnInv
<1> QED  BY <1>12, <1>13, <1>14, <1>15

LEMMA InTurnStep == FlowsInv /\ InTurnInv /\ [TunNext]_tunVars => InTurnInv'
<1> SUFFICES ASSUME FlowsInv, InTurnInv, [TunNext]_tunVars, ~overlapped' PROVE TurnInv'
  BY DEF InTurnInv
<1> USE DEF userVars, runVars, frames
<1>1. ASSUME ~overlapped PROVE TurnInv
  BY <1>1 DEF InTurnInv
<1>2. CASE UNCHANGED tunVars
  <2>1. TurnInv
    BY <1>1, <1>2 DEF tunVars
  <2>2. InTurn' /\ UpToDate'
    BY <1>2, <2>1 DEF tunVars, TurnInv, InTurn, UpToDate, Active
  <2>3. SwitchedOff'
    BY <1>2, <2>1 DEF tunVars, TurnInv, SwitchedOff, HasTun
  <2>4. RunTimeShown' /\ CoreListens'
    BY <1>2, <2>1 DEF tunVars, TurnInv, RunTimeShown, CoreListens
  <2> QED  BY <2>2, <2>3, <2>4 DEF TurnInv
\* the settings change while nothing is under way
<1>3. CASE ChangeSettings
  <2>1. TurnInv /\ Idle /\ timer'
    BY <1>1, <1>3 DEF ChangeSettings
  <2>2. UNCHANGED << at, op, parent, snap, prev >> /\ UNCHANGED << startTime, runTime, tunCore >>
    BY <1>3 DEF ChangeSettings
  <2>3. InTurn'
    BY <2>1, <2>2 DEF TurnInv, InTurn, Active
  <2>4. UpToDate'
    BY <2>1, <2>2 DEF Idle, UpToDate, Active, Prompted, Restarted
  <2>5. SwitchedOff'
    BY <2>1 DEF SwitchedOff
  <2>6. RunTimeShown' /\ CoreListens'
    BY <2>1, <2>2 DEF TurnInv, RunTimeShown, CoreListens
  <2> QED  BY <2>3, <2>4, <2>5, <2>6 DEF TurnInv
<1>4. ASSUME NEW f \in Flows, Step(f) PROVE TurnInv'
  <2>1. CASE Fire(f) \/ Apply(f) \/ HandleStop(f)
    <3>1. ~overlapped /\ Idle
      BY <2>1, Openings
    <3> QED  BY <1>1, <2>1, <3>1, TurnOpens
  <2>2. CASE ~(Fire(f) \/ Apply(f) \/ HandleStop(f))
    <3>1. overlapped' = overlapped
      BY <1>4, <2>2 DEF Step, CheckIsAdmin, AuthorizeCore, Authorized, Unauthorized, Restart,
           InitCore, Relisten, Refused, SkipUpdate, SendUpdate, Fetched, ReadReal, SendSetup,
           SetupFails, Applied, HandleStart, UpdateRunTime, StatusStopped
    <3>2. TurnInv /\ TunTypeOK
      BY <1>1, <3>1 DEF FlowsInv
    <3> QED  BY <1>4, <2>2, <3>2, Shapes, TurnNests, TurnEnds, TurnMoves
  <2> QED  BY <2>1, <2>2
<1> QED  BY <1>2, <1>3, <1>4 DEF TunNext

-----------------------------------------------------------------------------
(* The theorems *)

\* Every variable has its type in every reachable state.
THEOREM SwitchTyping == TunSpec => []TunTypeOK
<1>1. FlowsInv => TunTypeOK
  BY DEF FlowsInv
<1> QED  BY <1>1, SwitchInit, FlowsStep, PTL DEF TunSpec

\* The app believes in TUN, and asks the core for it, only once the rights
\* are there: _requestAdmin() and the settings that an operation has read before
\* its dialog keep to that, however the operations interleave.
THEOREM RightsFirst == TunSpec => []TunNeedsRights
<1>1. RightsInv => TunNeedsRights
  BY DEF RightsInv
<1> QED  BY <1>1, SwitchInit, FlowsStep, RightsStep, PTL DEF TunSpec

\* When the operations did not overlap and none is under way, TUN that was
\* switched off is off in the core and in realTunEnable, whatever was refused or
\* failed before.
THEOREM OffArrives == TunSpec => []OffReachesCore
<1>1. InTurnInv => OffReachesCore
  BY DEF InTurnInv, TurnInv, SwitchedOff, OffReachesCore, Settled, Idle
<1> QED  BY <1>1, SwitchInit, FlowsStep, InTurnStep, PTL DEF TunSpec

\* And the core listens exactly when the app is started, restarts by
\* _requestAdmin() included.
THEOREM RestartServes == TunSpec => []RestartKeepsServing
<1>1. InTurnInv => RestartKeepsServing
  BY DEF InTurnInv, TurnInv, CoreListens, Restarted, RestartKeepsServing, Settled, Idle
<1> QED  BY <1>1, SwitchInit, FlowsStep, InTurnStep, PTL DEF TunSpec
=============================================================================
