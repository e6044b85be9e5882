--------------------------- MODULE CoreHubProofs ---------------------------
(***************************************************************************)
(* Proofs about CoreHub for any set of requests, ports and allow-lan       *)
(* values, with every method in play or only some.                         *)
(***************************************************************************)
EXTENDS CoreHub, TLAPS

\* What a request carries is what its method needs.
ArgsMatch ==
  \A r \in Requests : /\ kind[r] = "update" => arg[r] \in Settings
                      /\ kind[r] = "setup" => arg[r] \in Setups

\* A handler is inside only with the lock, and it is refreshing the listeners
\* only of a running core that has a configuration.
Refreshing == {"inbound", "mixed", "tun"}

LockHeld ==
  \A r \in Requests : /\ at[r] \in Refreshing \cup {"locked"} => runLock = r
                      /\ at[r] \in Refreshing => isRunning /\ currentConfig # Nil

\* A stopped core has no mixed port and no TUN open, also while a handler is inside.
StoppedIsShut == ~isRunning => tcp = Nil /\ udp = Nil /\ ~tun

\* Once updateListeners() is past ReCreateMixed(), the mixed listener is right.
MixedServed == tcp = Addr(currentConfig) /\ udp = Addr(currentConfig) /\ ~dead

MixedDone == \A r \in Requests : at[r] = "tun" /\ ~failed => MixedServed

\* Past PatchInboundListeners(), so is the profile's own listener, if none ever
\* failed to open; until then it is at least open when it has an entry.
InboundRight == inbound = currentConfig.inbound

InboundDone ==
  ~everFailed => /\ open <=> inbound # Nil
                 /\ \A r \in Requests : at[r] \in {"mixed", "tun"} => InboundRight

\* The inductive invariant, in the order its parts depend on one another.
TypeInv == TypeOK /\ ArgsMatch /\ LockHeld

LEMMA NextCases ==
  ASSUME Next
  PROVE  \E r \in Requests :
           \/ Toggle(r) \/ ChangeSettings(r) \/ Setup(r)
           \/ TakeLock(r)
           \/ StartListener(r) \/ StopListener(r)
           \/ UpdateConfig(r) \/ IgnoreUpdate(r) \/ SetupConfig(r)
           \/ PatchInboundListeners(r) \/ ReCreateMixed(r) \/ ReCreateTun(r)
BY DEF Next, Handle

LEMMA InitTypes == Init => TypeInv
BY HubAssumption DEF Init, TypeInv, TypeOK, ArgsMatch, LockHeld, Refreshing, HubAssumption

\* A request that is sent disturbs nothing but the app side and its own place.
LEMMA Issuing ==
  ASSUME NEW r \in Requests, Toggle(r) \/ ChangeSettings(r) \/ Setup(r), TypeOK
  PROVE  /\ at[r] = "new" /\ at' = [at EXCEPT ![r] = "sent"]
         /\ UNCHANGED << hubVars, bindVars >>
         /\ want' \in Settings /\ overlapped' \in BOOLEAN
         /\ \E k \in {"start", "stop", "update", "setup"}, x \in Settings \cup Setups \cup {Nil} :
              /\ kind' = [kind EXCEPT ![r] = k] /\ arg' = [arg EXCEPT ![r] = x]
              /\ k = "update" => x \in Settings
              /\ k = "setup" => x \in Setups
<1>1. CASE Toggle(r)
  BY <1>1 DEF Toggle, Issue, TypeOK
<1>2. CASE ChangeSettings(r)
  BY <1>2 DEF ChangeSettings, Issue, TypeOK
<1>3. CASE Setup(r)
  <2>1. PICK i \in Ports \cup {Nil}, v \in BOOLEAN :
          /\ Issue(r, "setup", [settings |-> want, inbound |-> i, valid |-> v])
          /\ UNCHANGED want
    BY <1>3 DEF Setup
  <2>2. [settings |-> want, inbound |-> i, valid |-> v] \in Setups
    BY DEF TypeOK, Setups
  <2> QED BY <2>1, <2>2 DEF Issue, TypeOK
<1> QED BY <1>1, <1>2, <1>3

\* Whatever a handler leaves as the configuration is one.
LEMMA Configured ==
  ASSUME NEW r \in Requests, TypeInv
  PROVE  /\ at[r] = "locked" /\ kind[r] = "update" /\ currentConfig # Nil
              => Merge(arg[r]) \in Configs
         /\ kind[r] = "setup" => Parse(arg[r]) \in Configs
<1>1. ASSUME kind[r] = "update", currentConfig # Nil PROVE Merge(arg[r]) \in Configs
  BY <1>1 DEF TypeInv, TypeOK, ArgsMatch, Settings, Configs, Merge
<1>2. ASSUME kind[r] = "setup" PROVE Parse(arg[r]) \in Configs
  BY <1>2, HubAssumption
  DEF TypeInv, TypeOK, ArgsMatch, Settings, Setups, Configs, Parse, DefaultConfig, HubAssumption
<1> QED BY <1>1, <1>2

\* A step that leaves the app side alone leaves the requests as they were.
LEMMA ArgsKept == ArgsMatch /\ UNCHANGED << want, overlapped, kind, arg >> => ArgsMatch'
BY DEF ArgsMatch

\* The two outcomes of updateListeners()'s early return.
LEMMA RefreshCases ==
  ASSUME NEW r \in Requests, Refresh(r)
  PROVE  \/ /\ isRunning' /\ currentConfig' # Nil
            /\ at' = [at EXCEPT ![r] = "inbound"] /\ failed' = FALSE /\ runLock' = runLock
         \/ /\ ~isRunning' \/ currentConfig' = Nil
            /\ at' = [at EXCEPT ![r] = "done"] /\ runLock' = Nil /\ failed' = failed
BY DEF Refresh, Return, Goto

\* Either way the handler's place, the lock and the flag keep their types.
LEMMA RefreshTypes ==
  ASSUME NEW r \in Requests, Refresh(r), TypeOK
  PROVE  /\ at' \in [Requests -> {"new", "sent", "locked", "inbound", "mixed", "tun", "done"}]
         /\ runLock' \in Requests \cup {Nil}
         /\ failed' \in BOOLEAN
<1>1. CASE at' = [at EXCEPT ![r] = "inbound"] /\ failed' = FALSE /\ runLock' = runLock
  BY <1>1 DEF TypeOK
<1>2. CASE at' = [at EXCEPT ![r] = "done"] /\ runLock' = Nil /\ failed' = failed
  BY <1>2 DEF TypeOK
<1> QED BY <1>1, <1>2, RefreshCases

\* A handler that goes on with the lock, or returns it, leaves it to nobody else.
LEMMA LockMoves ==
  ASSUME TypeOK, LockHeld,
         NEW r \in Requests, at[r] \in Refreshing \cup {"locked"},
         \/ /\ at' = [at EXCEPT ![r] = "done"]
         \/ /\ \E l \in Refreshing : at' = [at EXCEPT ![r] = l]
            /\ runLock' = runLock
            /\ isRunning' /\ currentConfig' # Nil
  PROVE  LockHeld'
<1>1. ASSUME NEW q \in Requests, q # r
      PROVE  at'[q] = at[q] /\ at[q] \notin Refreshing \cup {"locked"}
  BY <1>1 DEF LockHeld, TypeOK
<1>2. \/ at'[r] = "done"
      \/ at'[r] \in Refreshing /\ runLock' = r /\ isRunning' /\ currentConfig' # Nil
  BY DEF LockHeld, TypeOK
<1>3. ASSUME NEW q \in Requests
      PROVE  /\ at'[q] \in Refreshing \cup {"locked"} => runLock' = q
             /\ at'[q] \in Refreshing => isRunning' /\ currentConfig' # Nil
  <2>1. CASE q = r
    BY <1>2, <2>1 DEF Refreshing
  <2>2. CASE q # r
    BY <1>1, <2>2
  <2> QED BY <2>1, <2>2
<1> QED BY <1>3 DEF LockHeld, Refreshing

LEMMA StepTypes == TypeInv /\ [Next]_vars => TypeInv'
<1> SUFFICES ASSUME TypeInv, [Next]_vars PROVE TypeInv'
  OBVIOUS
<1> USE HubAssumption DEF HubAssumption
<1>1. CASE UNCHANGED vars
  BY <1>1 DEF TypeInv, TypeOK, ArgsMatch, LockHeld, vars, appVars, hubVars, bindVars
<1>2. CASE Next
  <2>1. PICK r \in Requests :
           \/ Toggle(r) \/ ChangeSettings(r) \/ Setup(r)
           \/ TakeLock(r)
           \/ StartListener(r) \/ StopListener(r)
           \/ UpdateConfig(r) \/ IgnoreUpdate(r) \/ SetupConfig(r)
           \/ PatchInboundListeners(r) \/ ReCreateMixed(r) \/ ReCreateTun(r)
    BY <1>2, NextCases
  <2>2. CASE Toggle(r) \/ ChangeSettings(r) \/ Setup(r)
    <3>1. /\ at[r] = "new" /\ at' = [at EXCEPT ![r] = "sent"]
          /\ UNCHANGED << hubVars, bindVars >>
          /\ want' \in Settings /\ overlapped' \in BOOLEAN
      BY <2>2, Issuing DEF TypeInv
    <3>2. PICK k \in {"start", "stop", "update", "setup"}, x \in Settings \cup Setups \cup {Nil} :
            /\ kind' = [kind EXCEPT ![r] = k] /\ arg' = [arg EXCEPT ![r] = x]
            /\ k = "update" => x \in Settings
            /\ k = "setup" => x \in Setups
      BY <2>2, Issuing DEF TypeInv
    <3>3. TypeOK'
      BY <3>1, <3>2 DEF TypeInv, TypeOK, hubVars, bindVars
    <3>4. ArgsMatch'
      BY <3>1, <3>2 DEF TypeInv, TypeOK, ArgsMatch
    <3>5. LockHeld'
      BY <3>1 DEF TypeInv, TypeOK, LockHeld, Refreshing, hubVars
    <3> QED BY <3>3, <3>4, <3>5 DEF TypeInv
  <2>3. CASE TakeLock(r)
    BY <2>3 DEF TakeLock, Lock, Goto, TypeInv, TypeOK, ArgsMatch, LockHeld, Refreshing, appVars, bindVars
  <2>4. CASE StartListener(r)
    <3>1. TypeOK'
      <4>1. currentConfig' \in Configs \cup {Nil} /\ isRunning' \in BOOLEAN
        BY <2>4 DEF StartListener, TypeInv, TypeOK
      <4>2. Refresh(r)
        BY <2>4 DEF StartListener
      <4>3. /\ at' \in [Requests -> {"new", "sent", "locked", "inbound", "mixed", "tun", "done"}]
            /\ runLock' \in Requests \cup {Nil}
            /\ failed' \in BOOLEAN
        BY <4>2, RefreshTypes DEF TypeInv
      <4> QED BY <2>4, <4>1, <4>3 DEF StartListener, TypeInv, TypeOK, appVars
    <3>2. LockHeld'
      BY <2>4, RefreshCases, LockMoves DEF StartListener, TypeInv, LockHeld, Refreshing
    <3> QED BY <2>4, <3>1, <3>2, ArgsKept DEF StartListener, TypeInv, appVars
  <2>5. CASE StopListener(r)
    BY <2>5 DEF StopListener, CloseMixed, Return, Goto, TypeInv, TypeOK, ArgsMatch, LockHeld, Refreshing, appVars
  <2>6. CASE UpdateConfig(r)
    <3>1. TypeOK'
      <4>1. currentConfig' \in Configs /\ isRunning' \in BOOLEAN
        BY <2>6, Configured DEF UpdateConfig, TypeInv, TypeOK
      <4>2. Refresh(r)
        BY <2>6 DEF UpdateConfig
      <4>3. /\ at' \in [Requests -> {"new", "sent", "locked", "inbound", "mixed", "tun", "done"}]
            /\ runLock' \in Requests \cup {Nil}
            /\ failed' \in BOOLEAN
        BY <4>2, RefreshTypes DEF TypeInv
      <4> QED BY <2>6, <4>1, <4>3 DEF UpdateConfig, TypeInv, TypeOK, appVars
    <3>2. LockHeld'
      BY <2>6, RefreshCases, LockMoves DEF UpdateConfig, TypeInv, LockHeld, Refreshing
    <3> QED BY <2>6, <3>1, <3>2, ArgsKept DEF UpdateConfig, TypeInv, appVars
  <2>7. CASE IgnoreUpdate(r)
    BY <2>7 DEF IgnoreUpdate, Return, Goto, TypeInv, TypeOK, ArgsMatch, LockHeld, Refreshing, appVars, bindVars
  <2>8. CASE SetupConfig(r)
    <3>1. TypeOK'
      <4>1. currentConfig' \in Configs /\ isRunning' \in BOOLEAN
        BY <2>8, Configured DEF SetupConfig, TypeInv, TypeOK
      <4>2. Refresh(r)
        BY <2>8 DEF SetupConfig
      <4>3. /\ at' \in [Requests -> {"new", "sent", "locked", "inbound", "mixed", "tun", "done"}]
            /\ runLock' \in Requests \cup {Nil}
            /\ failed' \in BOOLEAN
        BY <4>2, RefreshTypes DEF TypeInv
      <4> QED BY <2>8, <4>1, <4>3 DEF SetupConfig, TypeInv, TypeOK, appVars
    <3>2. LockHeld'
      BY <2>8, RefreshCases, LockMoves DEF SetupConfig, TypeInv, LockHeld, Refreshing
    <3> QED BY <2>8, <3>1, <3>2, ArgsKept DEF SetupConfig, TypeInv, appVars
  <2>9. CASE PatchInboundListeners(r)
    <3>1. TypeOK'
      <4>1. currentConfig.inbound \in Ports \cup {Nil}
        BY <2>9 DEF PatchInboundListeners, TypeInv, TypeOK, LockHeld, Refreshing, Configs
      <4>2. inbound' \in Ports \cup {Nil} /\ open' \in BOOLEAN
        BY <2>9, <4>1 DEF PatchInboundListeners, TypeInv, TypeOK
      <4>3. failed' \in BOOLEAN /\ everFailed' \in BOOLEAN
        BY <2>9 DEF PatchInboundListeners, Fail, Fine, TypeInv, TypeOK
      <4>4. at' = [at EXCEPT ![r] = "mixed"]
        BY <2>9 DEF PatchInboundListeners, Goto
      <4> QED
        BY <2>9, <4>2, <4>3, <4>4 DEF PatchInboundListeners, TypeInv, TypeOK, appVars, hubVars
    <3>2. LockHeld'
      BY <2>9, LockMoves DEF PatchInboundListeners, Goto, hubVars, TypeInv, LockHeld, Refreshing
    <3> QED BY <2>9, <3>1, <3>2, ArgsKept DEF PatchInboundListeners, TypeInv, appVars
  <2>10. CASE ReCreateMixed(r)
    <3>1. TypeOK'
      <4>1. Addr(currentConfig) \in Address \cup {Nil}
        BY <2>10 DEF ReCreateMixed, Addr, TypeInv, TypeOK, LockHeld, Refreshing, Configs, Address
      <4>2. tcp' \in Address \cup {Nil} /\ udp' \in Address \cup {Nil} /\ dead' \in BOOLEAN
        BY <2>10, <4>1 DEF ReCreateMixed, CloseHalf, TypeInv, TypeOK
      <4>3. failed' \in BOOLEAN /\ everFailed' \in BOOLEAN
        BY <2>10 DEF ReCreateMixed, Fail, Fine, TypeInv, TypeOK
      <4>4. at' = [at EXCEPT ![r] = "tun"]
        BY <2>10 DEF ReCreateMixed, Goto
      <4> QED
        BY <2>10, <4>2, <4>3, <4>4 DEF ReCreateMixed, TypeInv, TypeOK, appVars, hubVars
    <3>2. LockHeld'
      BY <2>10, LockMoves DEF ReCreateMixed, Goto, hubVars, TypeInv, LockHeld, Refreshing
    <3> QED BY <2>10, <3>1, <3>2, ArgsKept DEF ReCreateMixed, TypeInv, appVars
  <2>11. CASE ReCreateTun(r)
    <3>1. TypeOK'
      <4>1. currentConfig.tun \in BOOLEAN
        BY <2>11 DEF ReCreateTun, TypeInv, TypeOK, LockHeld, Refreshing, Configs
      <4>2. tun' \in BOOLEAN /\ failed' \in BOOLEAN /\ everFailed' \in BOOLEAN
        BY <2>11, <4>1 DEF ReCreateTun, Fail, Fine, TypeInv, TypeOK
      <4>3. at' = [at EXCEPT ![r] = "done"] /\ runLock' = Nil
        BY <2>11 DEF ReCreateTun, Return, Goto
      <4> QED
        BY <2>11, <4>2, <4>3 DEF ReCreateTun, TypeInv, TypeOK, appVars
    <3>2. LockHeld'
      BY <2>11, LockMoves DEF ReCreateTun, Return, Goto, TypeInv, LockHeld, Refreshing
    <3> QED BY <2>11, <3>1, <3>2, ArgsKept DEF ReCreateTun, TypeInv, appVars
  <2> QED BY <2>1, <2>2, <2>3, <2>4, <2>5, <2>6, <2>7, <2>8, <2>9, <2>10, <2>11
<1> QED BY <1>1, <1>2

\* The hub keeps its types.
THEOREM HubTyping == Spec => []TypeOK
<1>1. TypeInv => TypeOK
  BY DEF TypeInv
<1> QED BY <1>1, InitTypes, StepTypes, PTL DEF Spec

-----------------------------------------------------------------------------
(* What is open, and when *)

\* While one handler is inside, no other is.
LEMMA Alone ==
  ASSUME TypeInv, NEW r \in Requests, at[r] \in Refreshing \cup {"locked"},
         NEW q \in Requests, q # r
  PROVE  at[q] \notin Refreshing \cup {"locked"}
BY DEF TypeInv, LockHeld

\* Only two handlers touch the mixed listener.
LEMMA MixedFrame ==
  ASSUME Next
  PROVE  \/ UNCHANGED << tcp, dead, udp >>
         \/ \E r \in Requests : StopListener(r) \/ ReCreateMixed(r)
<1>1. PICK r \in Requests :
         \/ Toggle(r) \/ ChangeSettings(r) \/ Setup(r)
         \/ TakeLock(r)
         \/ StartListener(r) \/ StopListener(r)
         \/ UpdateConfig(r) \/ IgnoreUpdate(r) \/ SetupConfig(r)
         \/ PatchInboundListeners(r) \/ ReCreateMixed(r) \/ ReCreateTun(r)
  BY NextCases
<1>2. CASE Toggle(r) \/ ChangeSettings(r) \/ Setup(r)
  BY <1>2 DEF Toggle, ChangeSettings, Setup, Issue, bindVars
<1>3. CASE TakeLock(r) \/ IgnoreUpdate(r)
  BY <1>3 DEF TakeLock, IgnoreUpdate, bindVars
<1>4. CASE StartListener(r) \/ UpdateConfig(r) \/ SetupConfig(r)
  BY <1>4 DEF StartListener, UpdateConfig, SetupConfig
<1>5. CASE PatchInboundListeners(r) \/ ReCreateTun(r)
  BY <1>5 DEF PatchInboundListeners, ReCreateTun
<1> QED BY <1>1, <1>2, <1>3, <1>4, <1>5

\* The two halves of the mixed listener stay paired: when one of them has the
\* right address and is open, so is the other, and ReCreateMixed() keeps both.
LEMMA PairedStep == MixedPaired /\ [Next]_vars => MixedPaired'
<1> SUFFICES ASSUME MixedPaired, [Next]_vars PROVE MixedPaired'
  OBVIOUS
<1>1. CASE UNCHANGED << tcp, dead, udp >>
  BY <1>1 DEF MixedPaired
<1>2. ASSUME NEW r \in Requests, StopListener(r) PROVE MixedPaired'
  BY <1>2 DEF StopListener, CloseMixed, MixedPaired
<1>3. ASSUME NEW r \in Requests, ReCreateMixed(r) PROVE MixedPaired'
  BY <1>3 DEF ReCreateMixed, CloseHalf, Kept, SameAddress, MixedPaired
<1> QED BY <1>1, <1>2, <1>3, MixedFrame DEF vars, bindVars

\* A stopped core stays shut: nothing is opened but by a handler that is
\* refreshing, and that only happens in a running core.
LEMMA ShutStep == TypeInv /\ StoppedIsShut /\ [Next]_vars => StoppedIsShut'
<1> SUFFICES ASSUME TypeInv, StoppedIsShut, [Next]_vars PROVE StoppedIsShut'
  OBVIOUS
<1>1. CASE UNCHANGED vars
  BY <1>1 DEF StoppedIsShut, vars, hubVars, bindVars
<1>2. ASSUME NEW r \in Requests, Toggle(r) \/ ChangeSettings(r) \/ Setup(r)
      PROVE  StoppedIsShut'
  BY <1>2 DEF Toggle, ChangeSettings, Setup, Issue, StoppedIsShut, hubVars, bindVars
<1>3. ASSUME NEW r \in Requests, TakeLock(r) \/ IgnoreUpdate(r) PROVE StoppedIsShut'
  BY <1>3 DEF TakeLock, IgnoreUpdate, StoppedIsShut, bindVars
<1>4. ASSUME NEW r \in Requests, StartListener(r) \/ StopListener(r) PROVE StoppedIsShut'
  BY <1>4 DEF StartListener, StopListener, CloseMixed, StoppedIsShut
<1>5. ASSUME NEW r \in Requests, UpdateConfig(r) \/ SetupConfig(r) PROVE StoppedIsShut'
  BY <1>5 DEF UpdateConfig, SetupConfig, StoppedIsShut
<1>6. ASSUME NEW r \in Requests,
             PatchInboundListeners(r) \/ ReCreateMixed(r) \/ ReCreateTun(r)
      PROVE  StoppedIsShut'
  <2>1. at[r] \in Refreshing /\ isRunning' = isRunning
    BY <1>6 DEF PatchInboundListeners, ReCreateMixed, ReCreateTun, Refreshing, hubVars
  <2> QED BY <2>1 DEF TypeInv, LockHeld, StoppedIsShut
<1> QED BY <1>1, <1>2, <1>3, <1>4, <1>5, <1>6, NextCases

\* ... and its handlers leave the profile's own listener alone.
LEMMA ShutFrame == TypeInv /\ [Next]_vars => [~isRunning => UNCHANGED << inbound, open >>]_vars
<1> SUFFICES ASSUME TypeInv, Next, ~isRunning PROVE UNCHANGED << inbound, open >>
  OBVIOUS
<1>1. ASSUME NEW r \in Requests, PatchInboundListeners(r) PROVE FALSE
  <2>1. at[r] \in Refreshing
    BY <1>1 DEF PatchInboundListeners, Refreshing
  <2> QED BY <2>1 DEF TypeInv, LockHeld
<1>2. ASSUME NEW r \in Requests, Toggle(r) \/ ChangeSettings(r) \/ Setup(r)
      PROVE  UNCHANGED << inbound, open >>
  BY <1>2 DEF Toggle, ChangeSettings, Setup, Issue, bindVars
<1>3. ASSUME NEW r \in Requests, TakeLock(r) \/ IgnoreUpdate(r)
      PROVE  UNCHANGED << inbound, open >>
  BY <1>3 DEF TakeLock, IgnoreUpdate, bindVars
<1>4. ASSUME NEW r \in Requests,
             \/ StartListener(r) \/ StopListener(r) \/ UpdateConfig(r) \/ SetupConfig(r)
             \/ ReCreateMixed(r) \/ ReCreateTun(r)
      PROVE  UNCHANGED << inbound, open >>
  BY <1>4 DEF StartListener, StopListener, UpdateConfig, SetupConfig, ReCreateMixed, ReCreateTun
<1> QED BY <1>1, <1>2, <1>3, <1>4, NextCases

\* A core is served right once its refresh is past the mixed listener, and so
\* when the lock is free.  Every handler that changes the configuration or the
\* running state refreshes, or leaves a core that is stopped or unconfigured.
ServedInv == MixedDone /\ ServesConfig

LEMMA ServedStep ==
  TypeInv /\ TypeInv' /\ MixedPaired /\ ServedInv /\ [Next]_vars => ServedInv'
<1> SUFFICES ASSUME TypeInv, TypeInv', MixedPaired, ServedInv, [Next]_vars PROVE ServedInv'
  OBVIOUS
<1> USE HubAssumption DEF HubAssumption, ServedInv
<1>1. CASE UNCHANGED vars
  BY <1>1 DEF MixedDone, MixedServed, Addr, ServesConfig, Idle, vars, hubVars, bindVars
<1>2. ASSUME NEW r \in Requests, Toggle(r) \/ ChangeSettings(r) \/ Setup(r)
      PROVE  ServedInv'
  <2>1. at' = [at EXCEPT ![r] = "sent"] /\ UNCHANGED << hubVars, bindVars >>
    BY <1>2, Issuing DEF TypeInv
  <2>2. \A q \in Requests : at'[q] = "tun" => at[q] = "tun"
    BY <2>1 DEF TypeInv, TypeOK
  <2> QED BY <2>1, <2>2 DEF MixedDone, MixedServed, Addr, ServesConfig, Idle, hubVars, bindVars
<1>3. ASSUME NEW r \in Requests, TakeLock(r) PROVE ServedInv'
  <2>1. at' = [at EXCEPT ![r] = "locked"] /\ runLock' = r /\ r # Nil
        /\ UNCHANGED << isRunning, currentConfig, bindVars >>
    BY <1>3 DEF TakeLock, Lock, Goto
  <2>2. \A q \in Requests : at'[q] = "tun" => at[q] = "tun"
    BY <2>1 DEF TypeInv, TypeOK
  <2> QED BY <2>1, <2>2 DEF MixedDone, MixedServed, Addr, ServesConfig, Idle, bindVars
<1>4. ASSUME NEW r \in Requests,
             \/ StartListener(r) \/ UpdateConfig(r) \/ SetupConfig(r)
             \/ StopListener(r) \/ IgnoreUpdate(r)
      PROVE  ServedInv'
  <2>1. /\ at[r] = "locked"
        /\ \/ at' = [at EXCEPT ![r] = "inbound"] /\ runLock' = runLock
           \/ at' = [at EXCEPT ![r] = "done"] /\ (~isRunning' \/ currentConfig' = Nil)
    <3>1. CASE StartListener(r) \/ UpdateConfig(r) \/ SetupConfig(r)
      BY <3>1, RefreshCases DEF StartListener, UpdateConfig, SetupConfig
    <3>2. CASE StopListener(r) \/ IgnoreUpdate(r)
      BY <3>2 DEF StopListener, IgnoreUpdate, Return, Goto
    <3> QED BY <1>4, <3>1, <3>2
  <2>2. \A q \in Requests : at'[q] # "tun"
    BY <2>1, Alone DEF TypeInv, TypeOK, Refreshing
  <2>3. ServesConfig'
    <3>1. CASE runLock' = runLock /\ at' = [at EXCEPT ![r] = "inbound"]
      <4>1. runLock' = r /\ r # Nil
        BY <2>1, <3>1 DEF TypeInv, LockHeld
      <4> QED BY <4>1 DEF ServesConfig, Idle
    <3>2. CASE ~isRunning' \/ currentConfig' = Nil
      BY <3>2 DEF ServesConfig
    <3> QED BY <2>1, <3>1, <3>2
  <2> QED BY <2>2, <2>3 DEF MixedDone
<1>5. ASSUME NEW r \in Requests, PatchInboundListeners(r) PROVE ServedInv'
  <2>1. at[r] = "inbound" /\ at' = [at EXCEPT ![r] = "mixed"] /\ runLock' = runLock
    BY <1>5 DEF PatchInboundListeners, Goto, hubVars
  <2>2. \A q \in Requests : at'[q] # "tun"
    BY <2>1, Alone DEF TypeInv, TypeOK, Refreshing
  <2>3. runLock' = r /\ r # Nil
    BY <2>1 DEF TypeInv, LockHeld, Refreshing
  <2> QED BY <2>2, <2>3 DEF MixedDone, ServesConfig, Idle
<1>6. ASSUME NEW r \in Requests, ReCreateMixed(r) PROVE ServedInv'
  <2>1. /\ at[r] = "mixed" /\ at' = [at EXCEPT ![r] = "tun"]
        /\ runLock' = runLock /\ currentConfig' = currentConfig
    BY <1>6 DEF ReCreateMixed, Goto, hubVars
  <2>2. \A q \in Requests : at'[q] = "tun" => q = r
    BY <2>1, Alone DEF TypeInv, TypeOK, Refreshing
  <2>3. runLock' = r /\ r # Nil
    BY <2>1 DEF TypeInv, LockHeld, Refreshing
  <2>4. ~failed' => MixedServed'
    <3> DEFINE addr == Addr(currentConfig)
    <3>1. ~failed' => tcp' = addr /\ udp' = addr /\ ~dead'
      BY <1>6 DEF ReCreateMixed, Fail, Fine, Kept, SameAddress, MixedPaired
    <3>2. addr = Addr(currentConfig)'
      BY <2>1 DEF Addr
    <3> QED BY <3>1, <3>2 DEF MixedServed
  <2> QED BY <2>2, <2>3, <2>4 DEF MixedDone, ServesConfig, Idle
<1>7. ASSUME NEW r \in Requests, ReCreateTun(r) PROVE ServedInv'
  <2>1. /\ at[r] = "tun" /\ at' = [at EXCEPT ![r] = "done"]
        /\ UNCHANGED << isRunning, currentConfig, tcp, dead, udp >>
    BY <1>7 DEF ReCreateTun, Return, Goto
  <2>2. \A q \in Requests : at'[q] # "tun"
    BY <2>1, Alone DEF TypeInv, TypeOK, Refreshing
  <2>3. ~failed' => ~failed /\ tun' = currentConfig.tun
    BY <1>7 DEF ReCreateTun, Fail, Fine
  <2>4. ~failed' => MixedServed
    BY <2>1, <2>3 DEF MixedDone
  <2> QED BY <2>1, <2>2, <2>3, <2>4 DEF MixedDone, MixedServed, Addr, ServesConfig
<1> QED BY <1>1, <1>2, <1>3, <1>4, <1>5, <1>6, <1>7, NextCases

\* So long as no listener ever failed to open, the profile's own listener is
\* the configured one past PatchInboundListeners(), and when the lock is free.
InboundInv == InboundDone /\ InboundServed

LEMMA InboundStep == TypeInv /\ TypeInv' /\ InboundInv /\ [Next]_vars => InboundInv'
<1> SUFFICES ASSUME TypeInv, TypeInv', InboundInv, [Next]_vars PROVE InboundInv'
  OBVIOUS
<1> USE HubAssumption DEF HubAssumption, InboundInv
<1>1. CASE UNCHANGED vars
  BY <1>1 DEF InboundDone, InboundRight, InboundServed, Idle, vars, hubVars, bindVars
<1>2. ASSUME NEW r \in Requests, Toggle(r) \/ ChangeSettings(r) \/ Setup(r)
      PROVE  InboundInv'
  <2>1. at' = [at EXCEPT ![r] = "sent"] /\ UNCHANGED << hubVars, bindVars >>
    BY <1>2, Issuing DEF TypeInv
  <2>2. \A q \in Requests : at'[q] \in {"mixed", "tun"} => at[q] \in {"mixed", "tun"}
    BY <2>1 DEF TypeInv, TypeOK
  <2> QED BY <2>1, <2>2 DEF InboundDone, InboundRight, InboundServed, Idle, hubVars, bindVars
<1>3. ASSUME NEW r \in Requests, TakeLock(r) PROVE InboundInv'
  <2>1. at' = [at EXCEPT ![r] = "locked"] /\ runLock' = r /\ r # Nil
        /\ UNCHANGED << isRunning, currentConfig, bindVars >>
    BY <1>3 DEF TakeLock, Lock, Goto
  <2>2. \A q \in Requests : at'[q] \in {"mixed", "tun"} => at[q] \in {"mixed", "tun"}
    BY <2>1 DEF TypeInv, TypeOK
  <2> QED BY <2>1, <2>2 DEF InboundDone, InboundRight, InboundServed, Idle, bindVars
<1>4. ASSUME NEW r \in Requests,
             \/ StartListener(r) \/ UpdateConfig(r) \/ SetupConfig(r)
             \/ StopListener(r) \/ IgnoreUpdate(r)
      PROVE  InboundInv'
  <2>1. /\ at[r] = "locked"
        /\ \/ at' = [at EXCEPT ![r] = "inbound"] /\ runLock' = runLock
           \/ at' = [at EXCEPT ![r] = "done"] /\ (~isRunning' \/ currentConfig' = Nil)
    <3>1. CASE StartListener(r) \/ UpdateConfig(r) \/ SetupConfig(r)
      BY <3>1, RefreshCases DEF StartListener, UpdateConfig, SetupConfig
    <3>2. CASE StopListener(r) \/ IgnoreUpdate(r)
      BY <3>2 DEF StopListener, IgnoreUpdate, Return, Goto
    <3> QED BY <1>4, <3>1, <3>2
  <2>2. \A q \in Requests : at'[q] \notin {"mixed", "tun"}
    BY <2>1, Alone DEF TypeInv, TypeOK, Refreshing
  <2>3. UNCHANGED << inbound, open, everFailed >>
    BY <1>4 DEF StartListener, UpdateConfig, SetupConfig, StopListener, IgnoreUpdate, bindVars
  <2>4. InboundServed'
    <3>1. CASE runLock' = runLock
      <4>1. runLock' = r /\ r # Nil
        BY <2>1, <3>1 DEF TypeInv, LockHeld
      <4> QED BY <4>1 DEF InboundServed, Idle
    <3>2. CASE ~isRunning' \/ currentConfig' = Nil
      BY <3>2 DEF InboundServed
    <3> QED BY <2>1, <3>1, <3>2
  <2> QED BY <2>2, <2>3, <2>4 DEF InboundDone
<1>5. ASSUME NEW r \in Requests, PatchInboundListeners(r) PROVE InboundInv'
  <2>1. /\ at[r] = "inbound" /\ at' = [at EXCEPT ![r] = "mixed"]
        /\ runLock' = runLock /\ currentConfig' = currentConfig
    BY <1>5 DEF PatchInboundListeners, Goto, hubVars
  <2>2. runLock' = r /\ r # Nil
    BY <2>1 DEF TypeInv, LockHeld, Refreshing
  <2>3. ~everFailed' => ~everFailed /\ inbound' = currentConfig.inbound /\ (open' <=> inbound' # Nil)
    BY <1>5 DEF PatchInboundListeners, Fail, Fine, InboundDone
  <2> QED BY <2>1, <2>2, <2>3 DEF InboundDone, InboundRight, InboundServed, Idle
<1>6. ASSUME NEW r \in Requests, ReCreateMixed(r) PROVE InboundInv'
  <2>1. /\ at[r] = "mixed" /\ at' = [at EXCEPT ![r] = "tun"]
        /\ UNCHANGED << runLock, currentConfig, inbound, open >>
    BY <1>6 DEF ReCreateMixed, Goto, hubVars
  <2>2. runLock' = r /\ r # Nil
    BY <2>1 DEF TypeInv, LockHeld, Refreshing
  <2>3. ~everFailed' => ~everFailed
    BY <1>6 DEF ReCreateMixed, Fail, Fine
  <2>4. \A q \in Requests : at'[q] \in {"mixed", "tun"} => at[q] \in {"mixed", "tun"}
    BY <2>1 DEF TypeInv, TypeOK
  <2> QED BY <2>1, <2>2, <2>3, <2>4 DEF InboundDone, InboundRight, InboundServed, Idle
<1>7. ASSUME NEW r \in Requests, ReCreateTun(r) PROVE InboundInv'
  <2>1. /\ at[r] = "tun" /\ at' = [at EXCEPT ![r] = "done"]
        /\ UNCHANGED << currentConfig, inbound, open >>
    BY <1>7 DEF ReCreateTun, Return, Goto
  <2>2. ~everFailed' => ~everFailed
    BY <1>7 DEF ReCreateTun, Fail, Fine
  <2>3. ~everFailed => InboundRight /\ (open <=> inbound # Nil)
    BY <2>1 DEF InboundDone
  <2>4. \A q \in Requests : at'[q] \in {"mixed", "tun"} => at[q] \in {"mixed", "tun"}
    BY <2>1 DEF TypeInv, TypeOK
  <2> QED BY <2>1, <2>2, <2>3, <2>4 DEF InboundDone, InboundRight, InboundServed
<1> QED BY <1>1, <1>2, <1>3, <1>4, <1>5, <1>6, <1>7, NextCases

\* All of it together.
HubInv == TypeInv /\ MixedPaired /\ StoppedIsShut /\ ServedInv /\ InboundInv

LEMMA HubInvariant == Spec => []HubInv
<1>1. Init => HubInv
  <2>1. ASSUME Init PROVE MixedPaired /\ StoppedIsShut /\ ServedInv /\ InboundInv
    BY <2>1 DEF Init, MixedPaired, StoppedIsShut, ServedInv, MixedDone, ServesConfig,
                InboundInv, InboundDone, InboundServed
  <2> QED BY <2>1, InitTypes DEF HubInv
<1>2. HubInv /\ [Next]_vars => HubInv'
  BY StepTypes, PairedStep, ShutStep, ServedStep, InboundStep DEF HubInv
<1> QED BY <1>1, <1>2, PTL DEF Spec

\* Neither half of the mixed listener outlives the other: a UDP half is never
\* left without its TCP half, nor an open TCP half without UDP.
THEOREM MixedStaysPaired == Spec => []MixedPaired
<1>1. HubInv => MixedPaired
  BY DEF HubInv
<1> QED BY <1>1, HubInvariant, PTL

\* A stopped core has no mixed port and no TUN device open, and whatever arrives
\* opens nothing: the profile's own listener stays as the stop left it.
THEOREM StoppedStaysShut == Spec => StoppedOpensNothing
<1>1. HubInv => (Idle /\ ~isRunning => tcp = Nil /\ udp = Nil /\ ~tun)
  BY DEF HubInv, StoppedIsShut
<1>2. HubInv /\ [Next]_vars => [~isRunning => UNCHANGED << inbound, open >>]_vars
  BY ShutFrame DEF HubInv
<1> QED BY <1>1, <1>2, HubInvariant, PTL DEF Spec, StoppedOpensNothing

\* Between two handlers a running core serves its configuration, in whatever
\* order starts, stops, updates and setups got the lock.
THEOREM CoreServesConfig == Spec => []ServesConfig
<1>1. HubInv => ServesConfig
  BY DEF HubInv, ServedInv
<1> QED BY <1>1, HubInvariant, PTL

\* ... and the listener of the profile, so long as none ever failed to open.
THEOREM CoreServesInbound == Spec => []InboundServed
<1>1. HubInv => InboundServed
  BY DEF HubInv, InboundInv
<1> QED BY <1>1, HubInvariant, PTL

-----------------------------------------------------------------------------
(***************************************************************************)
(* The last settings arrive.  SettingsApplied speaks of the time between   *)
(* requests; SettingsInv adds that a request under way carries the         *)
(* settings the app has now, and that an update is all that may be         *)
(* missing.                                                                *)
(***************************************************************************)

UnderWay(r)  == at[r] \notin {"new", "done"}
Unapplied(r) == at[r] \in {"sent", "locked"}

\* Requests that never overlapped are under way one at a time.
OneRequest == \A r, q \in Requests : UnderWay(r) /\ UnderWay(q) => r = q

Carried(r) ==
  Unapplied(r) => /\ kind[r] = "update" => arg[r] = want
                  /\ kind[r] = "setup" => arg[r].settings = want

Settled ==
  currentConfig \notin {Nil, DefaultConfig} =>
    currentConfig.port = want.port /\ currentConfig.tun = want.tun

SettingsInv ==
  ~overlapped =>
    /\ OneRequest
    /\ \A r \in Requests : Carried(r)
    /\ Settled \/ \E r \in Requests : Unapplied(r) /\ kind[r] = "update"

LEMMA SettingsInit == Init => SettingsInv
BY DEF Init, SettingsInv, OneRequest, UnderWay, Unapplied, Carried, Settled

\* A request that is sent while none is under way.
LEMMA SettingsSent ==
  ASSUME TypeOK, SettingsInv, NEW r \in Requests, Toggle(r) \/ ChangeSettings(r) \/ Setup(r)
  PROVE  SettingsInv'
<1> SUFFICES ASSUME ~overlapped' PROVE SettingsInv'
  BY DEF SettingsInv
<1>1. /\ ~overlapped /\ Quiet /\ at[r] = "new" /\ currentConfig' = currentConfig
      /\ at' = [at EXCEPT ![r] = "sent"]
  BY DEF Toggle, ChangeSettings, Setup, Issue, hubVars
<1>2. /\ at'[r] = "sent"
      /\ \A q \in Requests \ {r} : at'[q] \in {"new", "done"}
  BY <1>1 DEF Quiet, TypeOK
<1>3. OneRequest' /\ \A q \in Requests \ {r} : ~Unapplied(q)'
  BY <1>2 DEF OneRequest, UnderWay, Unapplied
<1>4. Settled
  BY <1>1 DEF Quiet, SettingsInv, Unapplied
<1>5. CASE Toggle(r)
  <2>1. kind'[r] \in {"start", "stop"} /\ want' = want
    BY <1>5 DEF Toggle, Issue, TypeOK
  <2> QED  BY <1>1, <1>3, <1>4, <2>1 DEF SettingsInv, Carried, Settled
<1>6. CASE ChangeSettings(r)
  <2>1. kind'[r] = "update" /\ arg'[r] = want'
    BY <1>6 DEF ChangeSettings, Issue, TypeOK
  <2> QED  BY <1>2, <1>3, <2>1 DEF SettingsInv, Carried, Unapplied
<1>7. CASE Setup(r)
  <2>1. kind'[r] = "setup" /\ arg'[r].settings = want /\ want' = want
    BY <1>7 DEF Setup, Issue, TypeOK
  <2> QED  BY <1>1, <1>3, <1>4, <2>1 DEF SettingsInv, Carried, Settled
<1> QED  BY <1>5, <1>6, <1>7

\* A handler of the only request there is.
LEMMA SettingsHandled ==
  ASSUME TypeInv, SettingsInv, NEW r \in Requests, Handle(r)
  PROVE  SettingsInv'
<1>0. UNCHANGED << want, overlapped, kind, arg >>
  BY DEF Handle, TakeLock, StartListener, StopListener, UpdateConfig, IgnoreUpdate, SetupConfig,
         PatchInboundListeners, ReCreateMixed, ReCreateTun, appVars
<1> SUFFICES ASSUME ~overlapped PROVE SettingsInv'
  BY <1>0 DEF SettingsInv
<1>1. ASSUME NEW l \in {"locked", "inbound", "mixed", "tun", "done"}, UnderWay(r),
             at' = [at EXCEPT ![r] = l],
             \/ l = "locked" /\ Unapplied(r) /\ currentConfig' = currentConfig
             \/ l # "locked" /\ Settled'
      PROVE  SettingsInv'
  <2>1. /\ at'[r] = l
        /\ \A q \in Requests \ {r} : at'[q] = at[q] /\ at[q] \in {"new", "done"}
    BY <1>1 DEF SettingsInv, OneRequest, UnderWay, TypeInv, TypeOK
  <2>2. OneRequest' /\ \A q \in Requests \ {r} : ~Unapplied(q) /\ ~Unapplied(q)'
    BY <2>1 DEF OneRequest, UnderWay, Unapplied
  <2>3. CASE l = "locked" /\ Unapplied(r) /\ currentConfig' = currentConfig
    <3>1. Carried(r)' /\ Unapplied(r)'
      BY <1>0, <2>1, <2>3 DEF SettingsInv, Carried, Unapplied
    <3>2. Settled' \/ kind'[r] = "update"
      BY <1>0, <2>2, <2>3 DEF SettingsInv, Settled
    <3> QED  BY <2>2, <3>1, <3>2 DEF SettingsInv, Carried
  <2>4. CASE l # "locked" /\ Settled'
    <3>1. ~Unapplied(r)'
      BY <2>1, <2>4 DEF Unapplied
    <3> QED  BY <2>2, <2>4, <3>1 DEF SettingsInv, Carried
  <2> QED  BY <1>1, <2>3, <2>4
<1>2. ASSUME UnderWay(r), ~(Unapplied(r) /\ kind[r] = "update") PROVE Settled
  BY <1>2 DEF SettingsInv, OneRequest, UnderWay, Unapplied
<1>9. ASSUME NEW l \in {"inbound", "mixed", "tun", "done"}, at' = [at EXCEPT ![r] = l],
             at[r] \in Refreshing \cup {"locked"}, Settled'
      PROVE  SettingsInv'
  BY <1>1, <1>9 DEF UnderWay, Refreshing
<1>3. CASE TakeLock(r)
  <2>1. at[r] = "sent" /\ at' = [at EXCEPT ![r] = "locked"] /\ currentConfig' = currentConfig
    BY <1>3 DEF TakeLock, Lock, Goto
  <2>2. UnderWay(r) /\ Unapplied(r)
    BY <2>1 DEF UnderWay, Unapplied
  <2> QED  BY <1>1, <2>1, <2>2
<1>4. CASE StartListener(r)
  <2>1. at[r] = "locked" /\ Settled /\ currentConfig' = currentConfig /\ Refresh(r)
    BY <1>2, <1>4 DEF StartListener, UnderWay
  <2>2. Settled'
    BY <1>0, <2>1 DEF Settled
  <2> QED  BY <1>9, <2>1, <2>2, RefreshCases
<1>5. CASE StopListener(r) \/ IgnoreUpdate(r)
  <2>1. at[r] = "locked" /\ at' = [at EXCEPT ![r] = "done"] /\ currentConfig' = currentConfig
    BY <1>5 DEF StopListener, IgnoreUpdate, Return, Goto
  <2>2. Settled
    BY <1>2, <1>5 DEF StopListener, IgnoreUpdate, UnderWay, Settled
  <2>3. Settled'
    BY <1>0, <2>1, <2>2 DEF Settled
  <2> QED  BY <1>9, <2>1, <2>3
<1>6. CASE UpdateConfig(r)
  <2>1. at[r] = "locked" /\ arg[r] = want /\ currentConfig' = Merge(want) /\ Refresh(r)
    BY <1>6 DEF UpdateConfig, SettingsInv, Carried, Unapplied
  <2>2. currentConfig'.port = want.port /\ currentConfig'.tun = want.tun
    BY <1>6, <2>1 DEF UpdateConfig, Merge, TypeInv, TypeOK, Configs
  <2>3. Settled'
    BY <1>0, <2>2 DEF Settled
  <2> QED  BY <1>9, <2>1, <2>3, RefreshCases
<1>7. CASE SetupConfig(r)
  <2>1. /\ at[r] = "locked" /\ arg[r].settings = want
        /\ currentConfig' = Parse(arg[r]) /\ Refresh(r)
    BY <1>7 DEF SetupConfig, SettingsInv, Carried, Unapplied
  <2>2. \/ currentConfig' = DefaultConfig
        \/ currentConfig'.port = want.port /\ currentConfig'.tun = want.tun
    BY <2>1 DEF Parse
  <2>3. Settled'
    BY <1>0, <2>2 DEF Settled, DefaultConfig
  <2> QED  BY <1>9, <2>1, <2>3, RefreshCases
<1>8. CASE PatchInboundListeners(r) \/ ReCreateMixed(r) \/ ReCreateTun(r)
  <2>1. /\ at[r] \in Refreshing /\ currentConfig' = currentConfig
        /\ \E l \in {"mixed", "tun", "done"} : at' = [at EXCEPT ![r] = l]
    BY <1>8 DEF PatchInboundListeners, ReCreateMixed, ReCreateTun, Return, Goto, Refreshing, hubVars
  <2>2. Settled
    BY <1>2, <2>1 DEF Refreshing, UnderWay, Unapplied
  <2>3. Settled'
    BY <1>0, <2>1, <2>2 DEF Settled
  <2> QED  BY <1>9, <2>1, <2>3 DEF Refreshing
<1> QED  BY <1>3, <1>4, <1>5, <1>6, <1>7, <1>8 DEF Handle

\* When no two requests overlap, the settings the app sent last are those of the
\* core's configuration, if it has a valid one.
THEOREM SettingsArrive == Spec => []SettingsApplied
<1>1. TypeInv /\ SettingsInv /\ [Next]_vars => SettingsInv'
  <2> SUFFICES ASSUME TypeInv, SettingsInv, [Next]_vars PROVE SettingsInv'
    OBVIOUS
  <2>1. CASE UNCHANGED vars
    BY <2>1 DEF vars, appVars, hubVars, SettingsInv, OneRequest, UnderWay, Unapplied, Carried, Settled
  <2>2. CASE Next
    BY <2>2, SettingsSent, SettingsHandled DEF Next, TypeInv
  <2> QED  BY <2>1, <2>2
<1>2. SettingsInv => SettingsApplied
  BY DEF SettingsInv, SettingsApplied, Quiet, Settled, Unapplied
<1>3. HubInv => TypeInv
  BY DEF HubInv
<1> QED  BY HubInvariant, SettingsInit, <1>1, <1>2, <1>3, PTL DEF Spec
=============================================================================
