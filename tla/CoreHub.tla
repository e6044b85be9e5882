------------------------------ MODULE CoreHub ------------------------------
(***************************************************************************)
(* The configuration and the listeners of the Go core: core/hub.go and     *)
(* core/common.go, with the listeners of core/Clash.Meta/listener that     *)
(* they drive.  Every request runs in a goroutine of its own (server.go,   *)
(* lib.go), so requests take runLock in any order, whatever the order in   *)
(* which the app sent them.                                                *)
(*                                                                         *)
(* The app side is what the requests carry: a snapshot of the settings     *)
(* `want` taken when the request was built.  ClashManager sends the new    *)
(* settings whenever they change.                                          *)
(*                                                                         *)
(* One custom listener of the profile stands for all of Config.Listeners,  *)
(* the mixed proxy for the eight listeners that are recreated alike.       *)
(***************************************************************************)
EXTENDS Naturals, FiniteSets

CONSTANTS
  Requests,    \* request identities; a finite supply bounds the model
  Ports,       \* TCP ports
  Nil,         \* no port, address, configuration or request
  Kinds,       \* the methods in play
  Lans         \* the allow-lan values in play

ASSUME HubAssumption ==
  /\ Nil \notin Requests /\ Nil \notin Ports
  /\ Nil \notin [port : Ports, lan : BOOLEAN]
  /\ Nil \notin [port : Ports \cup {Nil}, lan : BOOLEAN, tun : BOOLEAN, inbound : Ports \cup {Nil}]
  /\ Kinds \subseteq {"start", "stop", "update", "setup"}
  /\ Lans \subseteq BOOLEAN

VARIABLES
  want,           \* the app's settings
  overlapped,     \* history: a request was sent before another was answered
  kind, arg, at,  \* per request: method, parameters, and how far it is
  runLock, isRunning, currentConfig,
  inbound, open,  \* inboundListeners' entry, and whether its socket is open
  tcp, dead, udp, \* mixedListener, whether it is closed, and mixedUDPLister
  tun,            \* tunLister is up
  failed,         \* a listener failed to open in the last updateListeners()
  everFailed      \* history: or in any

appVars  == << want, overlapped, kind, arg >>
hubVars  == << runLock, isRunning, currentConfig >>
bindVars == << inbound, open, tcp, dead, udp, tun, failed, everFailed >>
vars     == << appVars, at, hubVars, bindVars >>

Settings == [port : Ports, lan : Lans, tun : BOOLEAN]
Setups   == [settings : Settings, inbound : Ports \cup {Nil}, valid : BOOLEAN]
Address  == [port : Ports, lan : BOOLEAN]
Configs  == [port : Ports \cup {Nil}, lan : BOOLEAN, tun : BOOLEAN, inbound : Ports \cup {Nil}]

TypeOK ==
  /\ want \in Settings /\ overlapped \in BOOLEAN
  /\ kind \in [Requests -> {"start", "stop", "update", "setup"}]
  /\ arg \in [Requests -> Settings \cup Setups \cup {Nil}]
  /\ at \in [Requests -> {"new", "sent", "locked", "inbound", "mixed", "tun", "done"}]
  /\ runLock \in Requests \cup {Nil} /\ isRunning \in BOOLEAN
  /\ currentConfig \in Configs \cup {Nil}
  /\ inbound \in Ports \cup {Nil} /\ open \in BOOLEAN
  /\ tcp \in Address \cup {Nil} /\ udp \in Address \cup {Nil} /\ dead \in BOOLEAN
  /\ tun \in BOOLEAN /\ failed \in BOOLEAN /\ everFailed \in BOOLEAN

Init ==
  /\ want \in Settings /\ overlapped = FALSE
  /\ kind = [r \in Requests |-> "start"] /\ arg = [r \in Requests |-> Nil]
  /\ at = [r \in Requests |-> "new"]
  /\ runLock = Nil /\ isRunning = FALSE /\ currentConfig = Nil
  /\ inbound = Nil /\ open = FALSE
  /\ tcp = Nil /\ dead = FALSE /\ udp = Nil /\ tun = FALSE
  /\ failed = FALSE /\ everFailed = FALSE

-----------------------------------------------------------------------------
(* the app *)

Quiet == \A r \in Requests : at[r] \in {"new", "done"}

\* a fresh id: which one does not matter
Fresh == CHOOSE r \in Requests : at[r] = "new"

Issue(r, k, x) ==
  /\ k \in Kinds /\ at[r] = "new" /\ r = Fresh
  /\ overlapped' = (overlapped \/ ~Quiet)
  /\ kind' = [kind EXCEPT ![r] = k]
  /\ arg' = [arg EXCEPT ![r] = x]
  /\ at' = [at EXCEPT ![r] = "sent"]
  /\ UNCHANGED << hubVars, bindVars >>

\* handleStart() and handleStop()
Toggle(r) == \E k \in {"start", "stop"} : Issue(r, k, Nil) /\ UNCHANGED want

\* a setting changes, and the listener of updateParamsProvider sends it
ChangeSettings(r) ==
  \E s \in Settings \ {want} : want' = s /\ Issue(r, "update", s)

\* _setupClashConfig(): the profile brings its listener, or does not parse
Setup(r) ==
  \E i \in Ports \cup {Nil}, v \in BOOLEAN :
    /\ Issue(r, "setup", [settings |-> want, inbound |-> i, valid |-> v])
    /\ UNCHANGED want

-----------------------------------------------------------------------------
(* the handlers *)

Goto(r, l) == at' = [at EXCEPT ![r] = l]

\* a goroutine takes runLock when nobody has it
LockAny(r) == /\ at[r] = "sent" /\ Goto(r, "locked")        \* mutant: no lock
              /\ runLock' = r
Lock(r) == at[r] = "sent" /\ runLock = Nil /\ runLock' = r /\ Goto(r, "locked")

TakeLock(r) == Lock(r) /\ UNCHANGED << appVars, isRunning, currentConfig, bindVars >>

\* the answer, and the deferred unlock
Return(r) == Goto(r, "done") /\ runLock' = Nil

\* updateListeners() does nothing when stopped or without a configuration
Refresh(r) ==
  IF isRunning' /\ currentConfig' # Nil
  THEN Goto(r, "inbound") /\ failed' = FALSE /\ UNCHANGED runLock
  ELSE Return(r) /\ UNCHANGED failed

StartListener(r) ==
  /\ at[r] = "locked" /\ kind[r] = "start"
  /\ isRunning' = TRUE
  /\ UNCHANGED currentConfig
  /\ Refresh(r)
  /\ UNCHANGED << appVars, inbound, open, tcp, dead, udp, tun, everFailed >>

\* listener.StopListener() closes all but the custom listeners
CloseMixed == tcp' = Nil /\ dead' = FALSE /\ udp' = Nil

StopListener(r) ==
  /\ at[r] = "locked" /\ kind[r] = "stop"
  /\ isRunning' = FALSE
  /\ CloseMixed /\ tun' = FALSE
  /\ Return(r)
  /\ UNCHANGED << appVars, currentConfig, inbound, open, failed, everFailed >>

\* updateConfig(): allow-lan is not among the parameters it applies
MergePort(s) == [currentConfig EXCEPT !.port = s.port]        \* mutant: tun not applied
Merge(s) == [currentConfig EXCEPT !.port = s.port, !.tun = s.tun]

UpdateConfig(r) ==
  /\ at[r] = "locked" /\ kind[r] = "update" /\ currentConfig # Nil
  /\ currentConfig' = Merge(arg[r])
  /\ UNCHANGED isRunning
  /\ Refresh(r)
  /\ UNCHANGED << appVars, inbound, open, tcp, dead, udp, tun, everFailed >>

\* without a configuration updateConfig() returns at once
IgnoreUpdate(r) ==
  /\ at[r] = "locked" /\ kind[r] = "update" /\ currentConfig = Nil
  /\ Return(r)
  /\ UNCHANGED << appVars, isRunning, currentConfig, bindVars >>

\* a configuration that does not decode or parse is replaced by the default
DefaultConfig == [port |-> Nil, lan |-> FALSE, tun |-> FALSE, inbound |-> Nil]

Parse(x) ==
  IF x.valid
  THEN [port |-> x.settings.port, lan |-> x.settings.lan, tun |-> x.settings.tun,
        inbound |-> x.inbound]
  ELSE DefaultConfig

SetupConfig(r) ==
  /\ at[r] = "locked" /\ kind[r] = "setup"
  /\ currentConfig' = Parse(arg[r])
  /\ UNCHANGED isRunning
  /\ Refresh(r)
  /\ UNCHANGED << appVars, inbound, open, tcp, dead, udp, tun, everFailed >>

-----------------------------------------------------------------------------
(* updateListeners(), in its order *)

MixedHolds(p)   == ~dead /\ tcp # Nil /\ tcp.port = p
InboundHolds(p) == open /\ inbound = p

Fail == failed' = TRUE /\ everFailed' = TRUE
Fine == UNCHANGED << failed, everFailed >>

\* PatchInboundListeners(): an entry whose replacement does not open stays in
\* the map, closed
PatchInboundListeners(r) ==
  LET new == currentConfig.inbound IN
  /\ at[r] = "inbound" /\ Goto(r, "mixed")
  /\ \/ new = inbound /\ UNCHANGED << inbound, open >> /\ Fine
     \/ new = Nil /\ inbound # Nil /\ inbound' = Nil /\ open' = FALSE /\ Fine
     \/ /\ new \notin {Nil, inbound}
        /\ ~MixedHolds(new)
        /\ inbound' = new /\ open' = TRUE /\ Fine
     \/ new \notin {Nil, inbound} /\ open' = FALSE /\ UNCHANGED inbound /\ Fail
  /\ UNCHANGED << appVars, hubVars, tcp, dead, udp, tun >>

\* genAddr(), with the bind address every configuration here has
Addr(c) == IF c.port = Nil THEN Nil ELSE [port |-> c.port, lan |-> c.lan]

\* ReCreateMixed(): a listener whose address is still right is kept
AnyAddress(x, addr) == TRUE                                  \* mutant: never reopened
SameAddress(x, addr) == x = addr
Kept(x, addr) == x # Nil /\ SameAddress(x, addr)

\* the UDP half did not open: the TCP half is closed, and stays in its variable
KeepHalf  == dead' = FALSE                                   \* mutant: not closed
CloseHalf == dead' = TRUE

ReCreateMixed(r) ==
  LET addr == Addr(currentConfig) IN
  /\ at[r] = "mixed" /\ Goto(r, "tun")
  /\ \/ Kept(tcp, addr) /\ Kept(udp, addr) /\ UNCHANGED << tcp, dead, udp >> /\ Fine
     \/ addr = Nil /\ tcp' = Nil /\ udp' = Nil /\ dead' = FALSE /\ Fine
     \/ /\ addr # Nil /\ ~(Kept(tcp, addr) /\ Kept(udp, addr))
        /\ \/ ~InboundHolds(addr.port)
              /\ tcp' = addr /\ udp' = addr /\ dead' = FALSE /\ Fine
           \/ tcp' = Nil /\ dead' = FALSE /\ Fail
              /\ udp' = IF Kept(udp, addr) THEN udp ELSE Nil
           \/ ~InboundHolds(addr.port)
              /\ tcp' = addr /\ CloseHalf /\ udp' = Nil /\ Fail
  /\ UNCHANGED << appVars, hubVars, inbound, open, tun >>

\* ReCreateTun(), and the end of the handler.  The parameters of the TUN are
\* left out: a running one may have to be reopened, and then may not open
ReCreateTun(r) ==
  /\ at[r] = "tun"
  /\ \/ tun' = currentConfig.tun /\ Fine
     \/ currentConfig.tun /\ tun' = FALSE /\ Fail
  /\ Return(r)
  /\ UNCHANGED << appVars, isRunning, currentConfig, inbound, open, tcp, dead, udp >>

-----------------------------------------------------------------------------

Handle(r) ==
  \/ TakeLock(r)
  \/ StartListener(r) \/ StopListener(r)
  \/ UpdateConfig(r) \/ IgnoreUpdate(r) \/ SetupConfig(r)
  \/ PatchInboundListeners(r) \/ ReCreateMixed(r) \/ ReCreateTun(r)

Next == \E r \in Requests : Toggle(r) \/ ChangeSettings(r) \/ Setup(r) \/ Handle(r)

Spec == Init /\ [][Next]_vars

-----------------------------------------------------------------------------
(* Properties *)

Idle == runLock = Nil

\* Between two handlers a running core serves exactly its configuration,
\* unless the last refresh could not open a listener: whatever the order in
\* which starts, stops, updates and setups got the lock.
ServesConfig ==
  Idle /\ isRunning /\ currentConfig # Nil /\ ~failed =>
    /\ tcp = Addr(currentConfig) /\ udp = Addr(currentConfig) /\ ~dead
    /\ tun = currentConfig.tun

\* Once a stop has been handled the mixed port and the TUN device are closed,
\* and nothing opens until the next start, also when updates and setups arrive
\* meanwhile.  The profile's own listener stays as StopListener() left it: it
\* is neither closed nor replaced.
StoppedOpensNothing ==
  /\ [](Idle /\ ~isRunning => tcp = Nil /\ udp = Nil /\ ~tun)
  /\ [][~isRunning => UNCHANGED << inbound, open >>]_vars

\* The two halves of the mixed listener live and die together, whichever bind
\* fails: a UDP half without its TCP half would be kept as if it served, and
\* an open TCP half without UDP would hold the port against every later bind.
MixedPaired == udp = IF dead THEN Nil ELSE tcp

\* The profile's own listener is the one configured, so long as no listener
\* ever failed to open (a failed one is not retried for the same settings).
InboundServed ==
  Idle /\ isRunning /\ currentConfig # Nil /\ ~everFailed =>
    inbound = currentConfig.inbound /\ (open <=> inbound # Nil)

\* When no two requests overlap, the settings it last sent to a core that
\* has a valid configuration are the settings of that configuration.
SettingsApplied ==
  ~overlapped /\ Quiet /\ currentConfig \notin {Nil, DefaultConfig} =>
    currentConfig.port = want.port /\ currentConfig.tun = want.tun

\* lib/l10n/intl/messages_en.dart:148, of the allow-lan switch: "Allow access
\* proxy through the LAN".  With no two requests at once, a running core
\* listens on the LAN exactly when the switch is on.
LanFollowsSwitch ==
  ~overlapped /\ Quiet /\ tcp # Nil /\ ~failed => tcp.lan = want.lan
=============================================================================
