----------------------------- MODULE TunHandler -----------------------------
(***************************************************************************)
(* The TUN device of the mobile core: core/lib_android.go.  Starting and   *)
(* stopping run in goroutines under tunLock; the connections the core      *)
(* dials in the meantime ask the app to protect their sockets, through a   *)
(* Java object that close() gives back.  A weighted semaphore keeps close()*)
(* and those calls apart.                                                  *)
(*                                                                         *)
(* A handler is named by the start that made it.                           *)
(***************************************************************************)
EXTENDS Naturals, FiniteSets

CONSTANTS
  Calls,      \* startTUN() and stopTun() calls; a finite supply
  Dials,      \* connections
  Permits,    \* weight of the semaphore (4 in the code)
  Nil

ASSUME TunHandlerAssumption ==
  /\ Permits \in Nat \ {0} /\ IsFiniteSet(Dials)
  /\ Nil \notin Calls \cup Dials

VARIABLES
  kind, at,         \* per call: start or stop, and its step
  overlapped,       \* history: a call was made before another ended
  tunLock,          \* holder
  running,          \* runTime # nil
  tunHandler,       \* the global: the handler last made
  hook,             \* the dialer's hooks are set
  opened,           \* handlers whose listener is open
  callback,         \* handlers whose callback is not yet given back
  held,             \* permits taken from each handler's semaphore
  dial, on          \* per connection: its step, and the handler it uses

vars == << kind, overlapped, at, tunLock, running, tunHandler, hook, opened, callback, held, dial, on >>

TypeOK ==
  /\ kind \in [Calls -> {"start", "stop"}]
  /\ at \in [Calls -> {"new", "lock", "close", "acquired", "unlocked", "make", "open", "done"}]
  /\ tunLock \in Calls \cup {Nil}
  /\ overlapped \in BOOLEAN /\ running \in BOOLEAN /\ hook \in BOOLEAN
  /\ tunHandler \in Calls \cup {Nil}
  /\ opened \subseteq Calls /\ callback \subseteq Calls
  /\ held \in [Calls -> 0 .. Permits]
  /\ dial \in [Dials -> {"new", "hooked", "holds", "protects", "done"}]
  /\ on \in [Dials -> Calls \cup {Nil}]

Init ==
  /\ kind = [c \in Calls |-> "start"] /\ at = [c \in Calls |-> "new"]
  /\ overlapped = FALSE /\ tunLock = Nil /\ running = FALSE /\ tunHandler = Nil /\ hook = FALSE
  /\ opened = {} /\ callback = {}
  /\ held = [c \in Calls |-> 0]
  /\ dial = [d \in Dials |-> "new"] /\ on = [d \in Dials |-> Nil]

-----------------------------------------------------------------------------
(* handleStopTun(), also the first thing handleStartTun() does *)

Goto(c, l) == at' = [at EXCEPT ![c] = l]

Idle == \A c \in Calls : at[c] \in {"new", "done"}

Call(c) ==
  /\ at[c] = "new"
  /\ overlapped' = (overlapped \/ ~Idle)
  /\ \E k \in {"start", "stop"} : kind' = [kind EXCEPT ![c] = k]
  /\ Goto(c, "lock")
  /\ UNCHANGED << tunLock, running, tunHandler, hook, opened, callback, held, dial, on >>

StopTun(c) ==
  /\ at[c] = "lock" /\ tunLock = Nil /\ tunLock' = c
  /\ running' = FALSE
  /\ Goto(c, IF tunHandler = Nil THEN "unlocked" ELSE "close")
  /\ UNCHANGED << kind, overlapped, tunHandler, hook, opened, callback, held, dial, on >>

\* close() waits until nobody holds a permit
AllFree(h) == held[h] = 0

Acquire(c) ==
  /\ at[c] = "close" /\ AllFree(tunHandler)
  /\ held' = [held EXCEPT ![tunHandler] = Permits]
  /\ Goto(c, "acquired")
  /\ UNCHANGED << kind, overlapped, tunLock, running, tunHandler, hook, opened, callback, dial, on >>

ListenerClosed == opened' = opened \ {tunHandler}

\* the hooks are removed, the listener closed, the callback given back
CloseHandler(c) ==
  /\ at[c] = "acquired"
  /\ hook' = FALSE
  /\ ListenerClosed
  /\ callback' = callback \ {tunHandler}
  /\ held' = [held EXCEPT ![tunHandler] = 0]
  /\ Goto(c, "unlocked")
  /\ UNCHANGED << kind, overlapped, tunLock, running, tunHandler, dial, on >>

Unlock(c) ==
  /\ at[c] = "unlocked"
  /\ tunLock' = Nil
  /\ Goto(c, IF kind[c] = "start" THEN "make" ELSE "done")
  /\ UNCHANGED << kind, overlapped, running, tunHandler, hook, opened, callback, held, dial, on >>

-----------------------------------------------------------------------------
(* handleStartTun() *)

\* without a device (fd 0) only the run time is set
MakeHandler(c) ==
  /\ at[c] = "make" /\ tunLock = Nil
  /\ running' = TRUE
  /\ \/ /\ tunHandler' = c /\ callback' = callback \cup {c} /\ hook' = TRUE
        /\ tunLock' = c /\ Goto(c, "open")
     \/ UNCHANGED << tunHandler, callback, hook, tunLock >> /\ Goto(c, "done")
  /\ UNCHANGED << kind, overlapped, opened, held, dial, on >>

HookStays == UNCHANGED hook                    \* mutant: a hook without a device
HookRemoved == hook' = FALSE

\* the device is opened after the hooks are set; without it they are removed
OpenTun(c) ==
  /\ at[c] = "open"
  /\ \/ opened' = opened \cup {c} /\ UNCHANGED hook
     \/ HookRemoved /\ UNCHANGED opened
  /\ tunLock' = Nil /\ Goto(c, "done")
  /\ UNCHANGED << kind, overlapped, running, tunHandler, callback, held, dial, on >>

-----------------------------------------------------------------------------
(* a connection: the hook, then handleProtect() or handleResolveProcess() *)

DialHook(d) ==
  /\ dial[d] = "new"
  /\ dial' = [dial EXCEPT ![d] = IF hook THEN "hooked" ELSE "done"]
  /\ on' = [on EXCEPT ![d] = IF hook THEN tunHandler ELSE Nil]
  /\ UNCHANGED << kind, overlapped, at, tunLock, running, tunHandler, hook, opened, callback, held >>

TakePermit(d) ==
  /\ dial[d] = "hooked" /\ held[on[d]] < Permits
  /\ held' = [held EXCEPT ![on[d]] = @ + 1]
  /\ dial' = [dial EXCEPT ![d] = "holds"]
  /\ UNCHANGED << kind, overlapped, at, tunLock, running, tunHandler, hook, opened, callback, on >>

\* the callback is used only while the listener is there
AlwaysUsed(d) == TRUE                          \* mutant: no look at the listener
HasListener(d) == on[d] \in opened

Protect(d) ==
  /\ dial[d] = "holds" /\ HasListener(d)
  /\ dial' = [dial EXCEPT ![d] = "protects"]
  /\ UNCHANGED << kind, overlapped, at, tunLock, running, tunHandler, hook, opened, callback, held, on >>

PermitKept(h) == held[h]                       \* mutant: an early return keeps it
Given(h) == held[h] - 1

GivePermit(d) ==
  /\ dial[d] = "protects" \/ (dial[d] = "holds" /\ ~HasListener(d))
  /\ held' = [held EXCEPT ![on[d]] = Given(on[d])]
  /\ dial' = [dial EXCEPT ![d] = "done"]
  /\ UNCHANGED << kind, overlapped, at, tunLock, running, tunHandler, hook, opened, callback, on >>

-----------------------------------------------------------------------------

CallStep(c) ==
  StopTun(c) \/ Acquire(c) \/ CloseHandler(c) \/ Unlock(c) \/ MakeHandler(c) \/ OpenTun(c)

Connection(d) == DialHook(d) \/ TakePermit(d) \/ Protect(d) \/ GivePermit(d)

Next == (\E c \in Calls : Call(c) \/ CallStep(c)) \/ \E d \in Dials : Connection(d)

\* goroutines run; the mutex and the semaphore serve everyone who waits
Fairness ==
  /\ \A c \in Calls : SF_vars(CallStep(c))
  /\ \A d \in Dials : SF_vars(Connection(d))

Spec == Init /\ [][Next]_vars /\ Fairness

-----------------------------------------------------------------------------
(* Properties *)

\* A callback is never used after it was given back, however starts, stops and
\* connections interleave: the Java object would be gone.
NoUseAfterRelease == \A d \in Dials : dial[d] = "protects" => on[d] \in callback

\* Unless calls overlapped, the only device open is the one of the current
\* handler, none once stopped, and sockets are protected exactly while it is
\* open: a hook without the device blocks, a device without the hook loops the
\* core's own traffic.
OneDevice ==
  ~overlapped /\ Idle =>
    /\ opened \subseteq {tunHandler} /\ (~running => opened = {})
    /\ hook <=> tunHandler \in opened

\* Every start and stop ends: close() gets its permits, nobody keeps tunLock.
EveryCallEnds == \A c \in Calls : at[c] = "lock" ~> at[c] = "done"
=============================================================================
