# A TLA+ model of YaXboard (Flutter client, mihomo core)

The repository is a desktop and Android proxy client. A Flutter application
(`lib/`) owns the settings, the subscription and the user interface. A Go core
(`core/`), built around the mihomo engine vendored in `core/Clash.Meta`, does
the proxying. On the desktop the core is a process of its own that dials back to
a socket of the app; on Windows a small Rust service (`services/helper`) can run
it with administrator rights. On Android the core is a library in the app's
process, driven by a second isolate and a VPN service.

What is modelled is the machinery between the two halves: how a core process is
started, replaced and killed, how its connection becomes the control channel, how
requests get through it, what the core's handlers do to its configuration and its
listeners, how it streams its log, how it fetches the lists of its proxy providers and
chooses from them, how the mobile core opens and closes its TUN device, how Android
starts and stops the whole, how the desktop app obtains the rights for TUN in the
middle of an operation, and how a subscription is replaced under a running proxy.

## Running it

    tlc -config Hub.cfg MCCoreHub        # a run: every run is in PROJECT.json
    tlapm DesktopProofs.tla              # a proof module

A run of kind *violation* is expected to end with a counterexample: it checks
something a comment or a text of the repository says, and the code does not do.

## Inventory

The parts, the state each keeps, what it does and with whom, what is hard about it
and what makes it correct. The last column names the module, if there is one.

| part | state | operations | talks to | hard | correct when | module |
|---|---|---|---|---|---|---|
| Desktop core launcher, `lib/clash/service.dart` | server socket, `socketCompleter`, `isStarting`, `process` | `reStart`, `shutdown`, `destroy`, `_destroySocket`, the accept loop | core process, helper | async callers interleave at every await; cores crash; closes throw; the helper is late | one live core; a completer is completed once; the channel leads to the core the app runs; restarts end; no core outlives the app | `CoreLauncher` |
| Helper service, `services/helper/.../hub.rs` | `PROCESS` | `/start`, `/stop` | core process | start is not atomic; requests are served after their client gave up | as above | `CoreLauncher` |
| Core process, `core/server.go` | the connection | dial, read loop, a goroutine per request | app socket | dies with the connection, panics when the dial fails | as above | `CoreLauncher`, `ControlChannel` |
| Control channel, `lib/clash/interface.dart`, `lib/common/future.dart` | `callbackCompleterMap` | `invoke`, `handleResult`, timeout, clean-up timer | the read loop of the core | answer races timeout; the completer is replaced while a request waits on it; answers out of order | at most one execution and one result; every call returns; a request reaches the core the app runs; no entry leaks | `ControlChannel` |
| Core hub, `core/hub.go`, `core/common.go` | `currentConfig`, `isRunning`, `runLock` | start, stop, update, setup | listeners | requests take the lock in any order | a running core serves its configuration, a stopped one opens nothing | `CoreHub` |
| Listeners, `core/Clash.Meta/listener` | mixed TCP/UDP, TUN, inbound map | recreate, patch, close | the kernel | each bind can fail, half a listener stays | the halves are paired | `CoreHub` |
| Log streaming, `core/hub.go`, `common/observable` | `logSubscriber`, listener map, buffers | start, stop, pump, consumer | everything that logs | unlocked global; a full buffer stops the pump, which holds the mutex | no send on a closed channel; no forgotten subscription; log calls return | `LogHub` |
| TUN device of the mobile core, `core/lib_android.go` | `tunHandler`, `tunLock`, semaphore, hooks | start, stop, close, protect, resolve | VPN service, every dial | the lock is released between stop and start; dials race close | no callback used after release; one device; calls end | `TunHandler` |
| Desktop TUN switch, `lib/controller.dart` | `realTunEnable`, settings, start and run time | update, apply, start, stop, request rights, restart | launcher, hub, system dialog | settings read before an await and sent after it; a restart in the middle of an operation | TUN only with rights; off arrives; a restarted core serves again | `DesktopTun` |
| Update task loop, `lib/state.dart` | timer, task list | `startUpdateTasks`, `stopUpdateTasks` | controller | a stop does nothing while the tasks run, which arm the next timer | the loop of a started app lives | `AndroidRun` |
| Provider fetching, `component/resource/fetcher.go`, `vehicle.go` | hash, file, ETag, list | `Initial`, the pull loop, update, side load | HTTP server, disk | all run beside each other and beside a crash; an ETag outlives the list it came with | the hash is that of the list in use; the list ends up as the server's | `ProviderFetch` |
| Groups and selection, `adapter/provider`, `adapter/outboundgroup`, `core/hub.go` | list and version, group cache, shared decision, selection | install, read, decide, set, test | connections, provider, app | stores and reads without a lock; a selection before the lists; tests that swallow each other | no choice from an old list; no decision older than the selection; a selected node that works is used; the list in use gets tested | `ProviderGroup` |
| Mobile channel, `lib/clash/lib.dart`, `lib/main.dart` | port completers | handshake of two isolates, restart of the service | service isolate | messages before the port is known | every request reaches the isolate once | not modelled |
| Android run state, `GlobalState.kt`, `VpnPlugin.kt`, `MainActivity.kt`, `lib/main.dart` | `runState`, the bound service, the service engine | start, stop, toggle, bind, permission, sync, open, leave | mobile core, tile, system | system callbacks interleave with the user; the process dies | app, tile and device agree; nothing runs without a configuration | `AndroidRun` |
| App exit and recovery, `lib/controller.dart`, `app_recovery_service.dart` | timers, the exit flag | exit, recover | launcher | exit during a restart | as launcher | exit in `CoreLauncher`; rest not modelled |
| Subscription import, `profile_import_service.dart`, `subscription_downloader.dart` | `_isImporting`, profiles, the remembered choice | delete, download, race over proxies, validate, add, apply | controller, core, servers | the old goes before the new is there; a start under way; a download that stalls | one subscription; the choice survives; what runs is the current profile; an import ends | `SubscriptionImport` |
| Domain racing, automatic latency tests, remote task socket, all under `lib/xboard` | one coordinator each | races, timers, reconnects | HTTP servers | first answer wins; stale results; retries | the winner is used once; no stale result is applied | not modelled |
| Configuration assembly, subscription compatibility parser | none | pure conversions | | text handling | | not modelled: no state, covered by unit tests |
| Preferences, profiles, accounts, payment, support chat, system proxy, tray, window, widgets, localisation, native bridge, build scripts, vendored proxy engine | values and presentation | | | | | not modelled, see the end |

`PROJECT.json` lists under `hazards` every place where one of these can go wrong
unnoticed, with the line and the property that watches it.

## The modules

`MC*` modules only give TLC names for the model values. Every module names, in its
header, the source it is translated from, and definitions keep the source's names.
Lines marked `\* mutant` are deliberately wrong variants of the definition that
follows them; no specification uses them. They are there to test the properties:
replacing a definition by its variant must make the property fail.

### CoreLauncher

An actor is an async call chain of the Dart isolate: the callers of `reStart()`,
the one chain `shutdown()`; `destroy()`; `exit()` of the exit (`"exit"`), and the
accept loop (`"loop"`). An action is the code between two awaits; `pc[a]` names the
await. The list `completers` holds every `socketCompleter` ever made, so that
something that waits for an old one can be told from something that waits for the
present one (`sock`). A core process is `unborn`, `starting` (forked, not yet
connected), `up` or `dead`; `link` is the app's end of its socket; `backlog` is the
kernel's queue of connections not yet accepted.

- `RestartBegin` .. `Assign` are `reStart()` (`isStarting` is set, a completer is
  made, the old process is shut down, the socket awaited, the core spawned);
  `Finish` is its `finally`.
- `DestroyBegin`, `DestroyEnd`, `DestroyThrows` are `_destroySocket()`, shared by
  all three kinds of actor. `close()` of a socket on which a write failed throws
  (`broken`, `WriteFails`).
- `Accept`, `Complete` are the `await for` loop of `_initServer()`.
- `Connect`, `EndOfStream`, `Crash` are `startServer()` of `core/server.go`.
- The helper serves a call in stages (`asked`); a call whose two-second client gave
  up moves to `late` and may be served at any later time, or never.

### ControlChannel and RequestReply

`ControlChannel` EXTENDS `CoreLauncher` and adds the requests; every launcher step
is a step of it, so restarts and crashes happen between any two steps of a request.
`RequestReply` is the promise: a request is executed at most once, its caller gets
one result, and an answer only if it was executed. `ImplementsRequestReply` is the
refinement, with `executed` mapped to the requests whose handler was entered.
The timers of a call are two: at `realTimeout` it gets its default result if it has none
(`Defaulted`), and `commonDuration` later the entry goes (`Forget`), answered or not, as
nothing cancels either. `due` holds the calls whose first timer fired; that the second
one fires after it is the event loop's order of deadlines, the only thing assumed of
time. A request waits for the completer of the moment it was issued (`on`), which the
accept loop completes or a restart replaces.

### CoreHub

Handlers of `start`, `stop`, `update` and `setup` requests. Each takes `runLock`
(`TakeLock`), changes state, and, if the core is running and configured, goes through
`updateListeners()` in its three steps, each of which may fail to open something.
`want` is the app's settings; a request carries the settings of the moment it was
built. One mixed listener stands for the eight listeners recreated alike, one custom
listener for those of the profile. `Fresh` picks the next request identity: the
identity has no meaning, so the choice loses nothing. `StopListener()` closes the eight
listeners and the TUN device but not those of the profile, and so does the model: they
stay open in a stopped core, until the next refresh. `ReCreateTun` closes a device whose
parameters changed before it opens the new one, and either may be what fails.

### LogHub

`handleStartLog()` and `handleStopLog()` without a lock, step by step: the check, the
second read of the global, the mutex of `UnSubscribe()`, the assignment. The spawned
goroutine reads the global when it first runs (`Born`), not when it is spawned. The
pump takes the mutex with each event and waits, with the mutex, when a buffer is full.

### TunHandler

Starts and stops run in goroutines under `tunLock`, which a start releases between
its stop and its own part. `held` is the weight taken from each handler's semaphore;
`close()` takes all of it. A connection takes the hook, then a permit, then uses the
callback if the listener is there.

### DesktopTun

A flow is one operation of `AppController`, with its step and the settings it has
read (`snap`, `prev`). `_requestAdmin()` runs inside updates and setups; after the
dialog it restarts the core, and the setup of that restart is a flow of its own with
a parent that waits for it. The core is one record here: launcher and hub are looked
into by their own modules.

### ProviderFetch

One fetcher. `Pull` is the goroutine that `setupConfig()` starts and nobody waits for:
`Initial()` (`ReadFile`, `LoadFile`), then the pull loop. Updates of the app and side
loads are goroutines of their own. A request is two steps, `Ask` (which ETag goes along)
and `Answer` (304 or a body), so that an answer can be late; `loadBuf()` is `LoadBuf`,
`WriteFile`, `Install`, under its mutex (`Inside`). A write truncates first, so a failure
or a crash in it leaves a file that does not parse (`Bad`; a truncated list that happens
to parse would be one more content, told from the server's by its hash). `Initial()` reads
the file in one step, though a side load may write it then: what it would see is again a
torn file. `Crash` forgets everything but the disk; the server changes whenever it likes.
A hash is written as the content. `pulls` says whether the provider has an interval:
without one there is no pull loop, and `Converges` claims nothing; a run has both kinds.

### ProviderGroup

What happens to an installed list. `setProxies()` makes two plain stores, `StoreList` and
`StoreVersion`, without a lock towards the readers; a connection reads the version
(`ReadVersion`) and decides over the group's cache (`Decide`), which is keyed by it. A
url-test group shares the decision (`Join`, `Return`, `ResultExpires`:
`common/singledo`; to take a result that is there changes nothing), a selector does not:
`kind` is chosen once. A url-test group skips a selected node that a test found dead and
takes another: `alive` is what the tests say of the selected node, and `Probe` changes it
at any time, which covers a new list (parsed anew, its nodes pass for alive), a new
selection, and nodes of a replaced list. `DialFails` is the group's own health check after
failed dials, with the resets around it. `PatchSelectGroup` and `ChangeProxy` set the
selection under `runLock`, `Reset` is the end of `URLTest.ForceSet()`. `Set()` reads version
and list in one step, where connections take two: what it caches is then one of the lists
that they may cache, and the proofs do not depend on who does. `HasInterval` says whether
the health check has an interval; without one there is no ticker and a new list is not
tested, so `ListIsTested` claims nothing. `seen`, `published`, `tested` and `wanted` are
history.
The stores are taken in program order, as amd64 shows them; the Go memory model promises
less, and on arm64, which Android builds use, the order of `StoreList` and
`StoreVersion` could be seen the other way round. The mutant of `ReadIsCurrent` is that
order, and it is caught.

### AndroidRun

The app's isolate (calls of `updateStatus()`, the update tasks), the Kotlin side (run
state, tile, plugin, binding, permission) and the core, reduced to `configured`,
`listening` and `tun`. Kotlin handlers run on the main thread, where the reentrant
`runLock` never waits, so a handler is one action; what interleaves are the method calls,
the dialog, `onServiceConnected()`, the status asked of the service isolate (`SyncAsk`,
`SyncApply`), and the process, which may be killed at any moment (`Killed`). `crossed` is
this module's `overlapped`: calls crossed each other, a dialog, a binding or a status, or
one failed. `Open` includes the call of `updateStatus()` that `_initStatus()` makes: a
start if the device runs, else a start or a stop as `autoRun` says.

### SubscriptionImport

One record per caller is the import it waits for: its step, the proxies it still waits
for, which downloads stalled. `Clean` is `_cleanOldUrlProfiles()` with the deletion of
every subscription and, when the current one goes, the stop that nobody awaits.
`ProxyAnswers` is `_waitForFirstSuccess()`. A start of the user is in two halves
(`StartBuild`, `StartSetup`), since its setup is built from the profile of that moment
and sent after further awaits.

### The history variable `overlapped`

Some things hold only while requests (calls, operations) do not overlap: nothing in the
code serialises them, and nothing says what overlapping ones should do. Instead of a
second model that forbids overlap, `CoreHub`, `LogHub`, `TunHandler` and `DesktopTun`
record in `overlapped` that one began before another ended (`AndroidRun` and
`SubscriptionImport` in `crossed`, with more that counts). The properties that need
it say `~overlapped /\ ...`; all others hold in every interleaving, in the same run.
`helperFailed`, `everFailed` and `lost` are history variables of the same kind.

## The runs

| run | bounds | shows |
|---|---|---|
| `launcher_posix` | 2 callers, 2 cores, 3 restarts | on macOS and Linux: `OneLiveCore`, `CompleteOnce`, `ChannelLeadsToCore`; and that every restart ends (`RestartFinishes`), no core survives the app (`CoresDieWithApp`), a started core becomes the channel (`CoreGetsChannel`) |
| `launcher_windows` | 1 caller and the exit, 2 cores, 1 restart | `RestartFinishes` and `CoresDieWithApp` even if the helper is absent, silent or late |
| `channel` | 1 request, 1 caller, 2 cores, 2 restarts | the refinement of `RequestReply`; that a call returns (`EveryCallReturns`), its entry goes (`NoEntryLeaks`), and a request that waits for the channel reaches the core the app runs (`CallReachesCore`) |
| `hub` | 3 requests of 4 kinds, 2 ports | `ServesConfig`, `StoppedOpensNothing`, `MixedPaired`, `InboundServed`; `SettingsApplied` without overlap |
| `hub_lan` | 3 requests, `allow-lan` on and off | a violation of `LanFollowsSwitch`, see the finding |
| `log` | 3 requests, buffers of 2 | `NoSendOnClosed` always; `SubscriptionIsConsumed`, `LogCallsReturn` without overlap |
| `tun_handler` | 3 calls, 2 connections, 2 permits | `NoUseAfterRelease`, `EveryCallEnds` always; `OneDevice` without overlap |
| `tun` | 3 flows, 1 port | `TunNeedsRights` always; `OffReachesCore`, `RestartKeepsServing` without overlap |
| `provider_fetch` | 2 lists, an update, a side load, 2 changes, 1 crash, with and without an interval | `HashIsInstalled`, `FileServes`; `Converges` with an interval |
| `provider_group` | 2 nodes, 2 lists, 2 connections, 2 installs, 1 choice, with an interval | `ReadIsCurrent`, `SharedDecisionIsCurrent`, `SelectionIsUsed`, `ListIsTested` |
| `android` | 2 calls at once, 6 presses | `NeverWithoutConfig` always; `AppAgrees`, `LoopAlive` when nothing crossed |
| `import` | 2 callers, 2 proxies, 2 nodes, 2 imports, 3 presses | `OneSubscription` always; `SelectionKept`, `ServesCurrent`, `ImportEnds` with the exceptions they name |

Why the bounds are enough for the cases that matter. Two cores and two restarts give
an old and a new process, a stale connection accepted after the completer of its
successor, and a late helper start next to a spawn of the app; a third restart, with
no core left, takes the path on which the core cannot be started. Two callers of
`reStart()` are what `isStarting` has to keep apart, the exit is a third. One request
meets every socket and completer of its time; requests share nothing but the map,
whose keys are fresh. Three hub requests give a setup, a change and a stop or start in
any order; two ports let the profile's listener and the mixed one collide. Three log
requests are needed for a stop that meets two starts. Buffers hold 200 events in the
code: 2 is the smallest size that can be neither empty nor full. The semaphore's weight
is 4 in the code; with two connections, 2 lets both be inside, and lets them block
`close()`. Three flows leave one for the setup nested in a restart, next to two of the
user; when no flow is left for the nested setup that behaviour ends there, in no claimed
state. Two lists are a list and its successor: a third adds no new relation between
hash, ETag, file and server. An update, a side load and the pull loop are the three ways
into `loadBuf()`. Two installs after the empty list give a cache that is one version
behind, and one that would be two; two connections are one that decides and one that
joins. Two calls of `updateStatus()` can cross; six presses are enough to start, leave,
stop from the tile, open again, start and stop. Two imports are one that deletes what the
other added; with three presses a choice, a start and a stop meet them.

Supplies (`Requests`, `Handlers`, `Calls`, `Dials`, `Flows`, `Ids`, `Cores`,
`MaxRestarts`, `MaxImports`, `MaxPresses`) are finite and used up, so most cfgs say
`CHECK_DEADLOCK FALSE` with the reason; that nothing hangs is checked as liveness
instead. A provider without an interval comes to such an end too; a group in use does not,
and its run checks deadlock.

## Fairness

- Launcher: weak fairness of every call chain (the event loop resumes a chain whose
  await is over), of the bind, of a spawned core's dial and of reading the end of a
  closed connection. None for the helper: its client has a timeout instead. None for
  crashes, users or exits.
- Channel: the launcher's, and timers fire, a completed future resumes its waiters, a live
  core reads. No handler has to answer: `EveryCallReturns` rests on the timeout alone.
  `CallReachesCore` needs the launcher's part: the core dials and the loop accepts.
- TUN device and log handlers: strong fairness of a goroutine's steps, since Go's
  `sync.Mutex` hands the lock over to a waiter that starves, and the semaphore queues
  its waiters. Log pump and consumers: weak fairness. No log event has to happen.
- Provider: goroutines run (weak). The pull loop asks for ever (its ticker), so that its
  requests are answered and its writes succeed time and again (strong) is what
  "the server and the disk work again" means; nothing is assumed of updates and side
  loads but that what they began inside `loadBuf()` goes on. Health-check ticks, the
  expiry of a shared decision and new connections are timers and traffic (weak): the
  claims `SelectionIsUsed` and `ListIsTested` are about a group that is in use, which is
  also the condition of a lazy provider's tick.
- Import: weak fairness of each import's own steps, none for a server that stalls, for
  the user, starts or stops.
- `CoreHub`, `DesktopTun`, `AndroidRun` have no liveness: safety between requests is
  what they claim, and the user may leave a dialog open.

## What the proofs show

Every safety property that a run checks and expects to hold is a theorem, for every
value of the constants: any number of actors, requests, operations, flows and presses,
any buffer, any bound. Besides these, each component has its type invariant, and
`ControlChannel` its refinement. A component's proofs are in a module of their own; the
three desktop modules share one. A property that is stated without overlap is proved from
an invariant of the form `~overlapped => ...`: an operation that begins while another is
under way makes it empty, so that its steps start either from rest or inside the one
operation there is.

`DesktopProofs`, about `CoreLauncher`:

- `Typing`: `TypeOK`, inductive as it stands.
- `Completed`: `CompleteOnce`. Inductive together with the types: only the loop
  completes, and between its `_destroySocket()` and its `complete()` others can only
  append blank completers.
- `AtMostOneCore`: `OneLiveCore`, which is far from inductive. `OwnerInv` says who may
  own a live core: at most one caller is past the guard and `isStarting` is its flag
  (`OneStarter`); past its shutdown there is no `process` (`StartsFromNothing`); who
  waits for the helper, and for what (`HelperShape`, `HelperUnused`); a helper that
  has not failed runs what it was asked and nothing is late (`HelperRules`); and so
  each live core is `process`, the `child` about to be assigned, or the helper's, and
  only one of these (`LiveIsOwned`).
- `ChannelReachesCore`: `ChannelLeadsToCore`, from `LeadsInv` on top of `OwnerInv`. The
  danger is a stale connection that the loop accepts late and that takes the completer.
  `Queued` excludes it: connections are accepted in order, and a core dials only after
  its predecessor was killed, so a live core is always last in the queue, and once it is
  accepted nothing is behind it. `Connected` says when it has lost the completer all the
  same: to a restart that made a new one, and that will kill it before `isStarting` is
  reset. The queue is a sequence of any length; the lemmas `AppendEnds` and `TailEnds`
  carry the order.

`DesktopProofs`, about `ControlChannel`:

- `ChannelTyping`, from `RequestInv`: launcher and request types, and that a request is on its way only once it was issued.
- `ChannelImplements`: `ChannelSpec => ImplementsRequestReply`, the refinement.
  `RequestRefines` takes every step of a request to a step of `RequestReply` or a stutter;
  launcher steps are stutters.

`DesktopProofs`, about `DesktopTun`:

- `SwitchTyping`: types, which need `Waits` (a flow that waits for a nested setup waits
  for exactly one) and `ReadFirst` (settings are read before they are sent).
- `RightsFirst`: `TunNeedsRights`, in every interleaving. `RightsInv` adds the values of
  `realTunEnable` that operations have read and will send later.
- `OffArrives`, `RestartServes`: `OffReachesCore`, `RestartKeepsServing`, from `TurnInv`:
  the only flows under way at once are an operation and its nested setup (`InTurn`); what
  it has read is still so after dialog and restart (`UpToDate`); unwanted TUN is on no
  longer than until the update is sent (`SwitchedOff`); run time, start time and
  listeners agree outside the steps that change them (`RunTimeShown`, `CoreListens`).

`CoreHubProofs`:

- `HubTyping`: the types, with `ArgsMatch` (a request carries what its method reads)
  and `LockHeld` (a handler inside has the lock; one that refreshes has a running,
  configured core), which the types depend on: `updateListeners()` reads fields of
  `currentConfig`.
- `MixedStaysPaired`: `MixedPaired`, both ways: no UDP half without a TCP half that
  serves, which `ReCreateMixed()` would keep by its address alone, and no TCP half left
  open when the bind of the UDP half failed. Inductive as it stands.
- `StoppedStaysShut`: `StoppedOpensNothing`, its first part from `StoppedIsShut`, the same
  without the condition that the lock is free, its second a step property: the profile's
  listener of a stopped core is left alone (`ShutFrame`).
- `CoreServesConfig`: `ServesConfig`, from `MixedDone`: past `ReCreateMixed()` the
  mixed listener is right unless the refresh failed. A handler that returns without a
  refresh leaves a core that is stopped or has no configuration.
- `CoreServesInbound`: `InboundServed`, from `InboundDone` in the same way.
- `SettingsArrive`: `SettingsApplied`, from `SettingsInv`: with one request at a time
  (`OneRequest`) each carries the settings of now or is of a method that leaves them alone
  (`Carried`), and between requests the configuration has them (`Settled`).

`TunHandlerProofs`: `TunTyping` and `NeverUsedAfterRelease` (`NoUseAfterRelease`). The
argument is the semaphore's: `PermitsCounted` says that a handler's permits taken are as
many as the connections that hold one, except while `close()` has them all and no
connection has any. With `LockHeld` (steps inside `tunLock`), `HandlerIsThere` and
`OpenHasCallback` (an open listener has its callback) it is inductive; the counting uses
the library's facts on cardinalities. `OneDeviceOpen` (`OneDevice`), from `DeviceInv`:
what is open, hooked and current at each step of the one call there is (`DeviceOf`).

`LogHubProofs`: `NeverSendsOnClosed` (`NoSendOnClosed`), from `PumpHasMutex` and `Made`
(a subscription is in the map, or closed, or neither, never both, and numbers are not
used twice). It needs nothing of the unlocked handlers, which is why it holds in spite of
them. `SubscriptionsAreConsumed` (`SubscriptionIsConsumed`) does need them:
`ConsumedInv` follows the one request there is through its unlocked reads (`PlaceOf`),
and a consumer that was spawned and has not run yet counts (`Born` may come after the
next request).

`ProviderFetchProofs`: `FetchTyping`, `HashStaysInstalled` (`HashIsInstalled`). While the
list is being installed the hash is ahead of it, so the invariant says whose list that is
(`Holds`) and that nobody else is inside (`Lock`).

`ProviderGroupProofs`: `GroupTyping`; `ReadsAreCurrent` (`ReadIsCurrent`, an action
property), from `Installing` (where the two stores are), `CacheFits` (the cache is never
of a version to come) and `Seen`; `SharedDecisionsAreCurrent`
(`SharedDecisionIsCurrent`), from `CallIsCurrent`: who decides for others decided with
the selection of now, or is disowned.

`AndroidRunProofs`: `RunTyping`, `NothingRunsUnconfigured` (`NeverWithoutConfig`), from
`ConfiguredFirst`: whatever may still open the device or the listeners, a dialog or a
binding that outlives its call included, comes after a setup. `AppAndTileAgree`
(`AppAgrees`) and `LoopStaysAlive` (`LoopAlive`), from `AgreeInv`: the engine is up
whenever something depends on it, in every interleaving (`EngineInv`); and, unless things
crossed, a status on its way still holds (`StatusInv`), one call is under way, and what
the app shows is what is there or promised (`ShownInv`).

`SubscriptionImportProofs`: `ImportTyping`; `OneSubscriptionStays` (`OneSubscription`),
from `Exclusive` (the guard) and `EmptyUntilAdded`; `SelectionStaysKept`
(`SelectionKept`), with the choice remembered between deletion and addition;
`CurrentIsServed` (`ServesCurrent`), from `ServesInv`: a setup under way was built from the
current profile (`BuiltOfCurrent`), and the stop that nobody awaits and the setup of an
import arrive before the app is at rest (`StopArrives`, `ApplyArrives`).

The assumptions are the `ASSUME`s of the modules alone: null values are none of the
others, supplies are disjoint, and finite or not empty where that is needed, bounds are
numbers. The bounds of the runs are constants of the theorems, so these hold for any of
them.

Only model-checked: the liveness properties, `RestartFinishes`, `CoresDieWithApp`,
`CoreGetsChannel`, `EveryCallReturns`, `NoEntryLeaks`, `CallReachesCore`, `LogCallsReturn`, `EveryCallEnds`,
`ImportEnds`, `Converges`, `FileServes`, `SelectionIsUsed`, `ListIsTested`. They rest on
fairness, and thus on `ENABLED`, for which the prover used here has no rules. No module
declares a recursive operator, and no theorem needs induction over data.

## Finding

`hub_lan`: `updateConfig()` (`core/common.go:205`) applies every update parameter but
`allow-lan`, which is declared in `core/constant.go` and sent by the app. Switching it
does nothing to a configured core until the next full setup.

## Seen in the models, with no run of their own

Each is a behaviour of the model that a property had to except, or a path of the code
met while translating it. The first five disagree with a comment.

- With the rights already there, `_requestAdmin()` (`lib/controller.dart:353`) only sets
  `realTunEnable`; the update is then skipped as "already delivered by the restart",
  though there was none. TUN is on in the app and off in the core, the half-open state
  the comment at line 335 wants to avoid.
- The comment at `lib/controller.dart:966` says that switching TUN while stopped does not
  restart the core; the listener at `lib/manager/clash_manager.dart:45` sends the update
  all the same, and that asks for rights and restarts.
- The comment at `core/common.go:193` counts on a later setup to make up for an update
  that was ignored. The setup may have been built before the settings changed and handled
  after the update, and the core keeps the older settings.
- `_cleanOldUrlProfiles()` (`profile_import_service.dart:110`) remembers the choice of
  nodes to restore it; after a failed import the retry finds no subscription, forgets the
  choice at line 118 and restores nothing (`lost`).
- The comment at `profile_import_service.dart:154` takes the timeouts of the downloader
  for complete; `subscription_downloader.dart:421` reads the body without one, and a
  server that stalls there keeps `_isImporting` set (`Stuck`).
- Overlapping `startLog` requests leave a subscription nobody empties, which in the end
  stops all logging and whoever logs; overlapping `startTUN` calls leave a device no stop
  closes.
- A setup that read the settings before a restart can undo a TUN switch made during it; a
  second operation that asks for rights while the first obtains them is answered `none`,
  which `lib/controller.dart:367` takes for a refusal (a refusal is `error`,
  `lib/common/system.dart:64`).
- A broken socket makes `close()` throw inside the accept loop and ends it for good
  (`pc["loop"] = "dead"`, excepted by `CoreGetsChannel`); a late helper start gives a
  second live core (`OneLiveCore` is stated while `~helperFailed`); a custom listener that
  once failed to open is not retried for the same settings (`InboundServed` is stated
  while `~everFailed`).
- Android: a stop pressed while the permission dialog is open or the service is being
  bound finds the state `STOP` and does nothing, and the device comes up after it; a
  permission denied leaves the app showing a start; a refused device leaves the state
  `START`; a status asked for before a start or stop is applied over it; an update loop
  survives a stop pressed while its tasks run.
- Subscription: a start that had its setup built when the subscription was deleted runs
  on without a profile.

## Abstractions worth knowing

- A kill is immediate. Paths, hashes and the permission bits of the core file are left
  out.
- Ports are the only addresses; the bind address is the default one everywhere.
- Settings are a port, `allow-lan` and TUN: three parameters of different fates in
  `updateConfig()` stand for the twenty.
- A setup that does not parse is one flag; the parser is not modelled.
- `CoreHub` takes requests straight from the app; that they may be lost is the business
  of `ControlChannel`, that the core may die of `CoreLauncher`. `DesktopTun` treats a
  request and a restart as one step each.

- `ProviderFetch` has one proxy provider with an HTTP vehicle; `ProviderGroup` one
  provider per group, and the delays behind a url-test choice are "any node", once the
  selected one is out.
- `AndroidRun` takes the service engine as a whole: its isolate answers or is not there.
- `SubscriptionImport` sends setups to the core in order, which is `CoreHub`'s subject.

## What the plan has left

1. `MobileChannel`: the handshake of the two isolates (`lib/clash/lib.dart`,
   `lib/main.dart`), against `RequestReply`.
2. Composition of `AndroidRun` with `TunHandler`: the nil configuration that
   `core/lib_android.go:113` reads without `runLock`.
3. The coordinators under `lib/xboard` that are left: domain racing, latency tests.

## Not modelled

- The vendored mihomo engine beyond listeners, log, providers and groups: DNS, rules,
  transports, sniffing and congestion control are third-party code, and by far the
  largest part of the tree. The map therefore covers a small share of the repository's
  lines, and most of what the two halves of this program own where they meet.
- The subscription compatibility parser and configuration assembly: pure conversions over
  text and maps, with tests.
- The encrypted subscription service, `importSubscriptionWithRetry()` (no caller), what
  the downloaded text is parsed into.
- Domain racing, automatic latency tests, the remote task socket: coordinators over
  servers outside the repository; the one race in `SubscriptionImport` has their shape.
- The mobile control channel: `AndroidRun` starts behind it.
- `handleShutdown()` (the hub is not modelled past its own end) and the look-up of
  `externalProviders` without the lock: a data race on a Go map crashes or returns any
  entry, so no state can be compared with it.
- On Android the proxy-only service, network callbacks, the notification, a service the
  system disconnects.
- The native bridges (no state), preferences and profile stores (values), accounts,
  payment and support screens (HTTP calls to a server outside the repository), system
  proxy, tray, windows and hotkeys (platform calls), widgets and localisation, and the
  build, packaging and release scripts.
