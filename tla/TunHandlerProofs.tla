--------------------------- MODULE TunHandlerProofs ---------------------------
(***************************************************************************)
(* Proofs about TunHandler, for any number of starts, stops, connections   *)
(* and permits: no connection uses a callback that was given back, and     *)
(* calls that wait for each other leave one device open, or none.          *)
(*                                                                         *)
(* The argument is the semaphore's: outside of close(), the permits taken  *)
(* are as many as the connections that hold one; close() takes them all,   *)
(* so that nobody holds any while the callback goes.                       *)
(***************************************************************************)
EXTENDS TunHandler, FiniteSetTheorems, TLAPS

\* Inside tunLock.
LockHeld == \A c \in Calls : at[c] \in {"close", "acquired", "unlocked", "open"} => tunLock = c

\* Who closes has something to close, and so has who is hooked.
HandlerIsThere ==
  /\ \A c \in Calls : at[c] \in {"close", "acquired"} => tunHandler # Nil
  /\ hook => tunHandler # Nil
  /\ \A d \in Dials : dial[d] \in {"hooked", "holds", "protects"} => on[d] \in Calls

Holders(h) == {d \in Dials : dial[d] \in {"holds", "protects"} /\ on[d] = h}
Closing(h) == tunHandler = h /\ \E c \in Calls : at[c] = "acquired"

\* The permits of a handler, and who has them.
PermitsCounted ==
  \A h \in Calls :
    /\ ~Closing(h) => held[h] = Cardinality(Holders(h))
    /\ Closing(h) => held[h] = Permits /\ Holders(h) = {}

\* An open listener has its callback.
OpenHasCallback ==
  /\ opened \subseteq callback
  /\ \A c \in Calls : at[c] = "open" => c \in callback

Base == TypeOK /\ LockHeld /\ HandlerIsThere
TunInv == Base /\ PermitsCounted /\ OpenHasCallback /\ NoUseAfterRelease

LEMMA InitInv == Init => TunInv
<1> SUFFICES ASSUME Init PROVE TunInv
  OBVIOUS
<1> USE TunHandlerAssumption DEF TunHandlerAssumption, Init
<1>1. TypeOK
  <2>1. 0 \in 0 .. Permits
    OBVIOUS
  <2>2. /\ kind \in [Calls -> {"start", "stop"}]
        /\ at \in [Calls -> {"new", "lock", "close", "acquired", "unlocked", "make", "open", "done"}]
    OBVIOUS
  <2>3. held \in [Calls -> 0 .. Permits]
    BY <2>1
  <2>4. /\ dial \in [Dials -> {"new", "hooked", "holds", "protects", "done"}]
        /\ on \in [Dials -> Calls \cup {Nil}]
    OBVIOUS
  <2>5. /\ tunLock \in Calls \cup {Nil} /\ tunHandler \in Calls \cup {Nil}
        /\ overlapped \in BOOLEAN /\ running \in BOOLEAN /\ hook \in BOOLEAN
        /\ opened \subseteq Calls /\ callback \subseteq Calls
    OBVIOUS
  <2> QED  BY <2>2, <2>3, <2>4, <2>5 DEF TypeOK
<1>2. LockHeld /\ HandlerIsThere /\ OpenHasCallback /\ NoUseAfterRelease
  BY DEF LockHeld, HandlerIsThere, OpenHasCallback, NoUseAfterRelease
<1>3. ASSUME NEW h \in Calls PROVE ~Closing(h) /\ held[h] = Cardinality(Holders(h))
  <2>1. Holders(h) = {} /\ ~Closing(h)
    BY DEF Holders, Closing
  <2> QED  BY <2>1, FS_EmptySet
<1> QED  BY <1>1, <1>2, <1>3 DEF TunInv, Base, PermitsCounted

LEMMA HoldersFinite ==
  ASSUME NEW h
  PROVE  IsFiniteSet(Holders(h)) /\ Cardinality(Holders(h)) \in Nat
BY TunHandlerAssumption, FS_Subset, FS_CardinalityType DEF TunHandlerAssumption, Holders

-----------------------------------------------------------------------------
(* Starts and stops *)

\* A step that neither moves a permit nor ends or begins a close().
LEMMA PermitsStay ==
  ASSUME PermitsCounted, UNCHANGED << held, dial, on >>,
         \A c \in Calls : at'[c] = "acquired" <=> at[c] = "acquired",
         tunHandler' = tunHandler \/ \A c \in Calls : at[c] # "acquired"
  PROVE  PermitsCounted'
<1>1. ASSUME NEW h \in Calls PROVE Holders(h)' = Holders(h) /\ (Closing(h)' <=> Closing(h))
  BY DEF Holders, Closing
<1> QED  BY <1>1 DEF PermitsCounted

LEMMA CallSteps ==
  ASSUME TunInv, NEW c \in Calls, Call(c) \/ StopTun(c) \/ Unlock(c)
  PROVE  TunInv'
<1> USE DEF TunInv, Base, Goto
<1>1. /\ TypeOK'
      /\ \A e \in Calls : at'[e] = "acquired" <=> at[e] = "acquired"
  <2>1. CASE Call(c)
    <3>1. overlapped' \in BOOLEAN
      BY <2>1 DEF Call
    <3>2. PICK k \in {"start", "stop"} : kind' = [kind EXCEPT ![c] = k]
      BY <2>1 DEF Call
    <3> QED  BY <2>1, <3>1, <3>2 DEF Call, TypeOK
  <2>2. CASE StopTun(c)
    BY <2>2 DEF StopTun, TypeOK
  <2>3. CASE Unlock(c)
    BY <2>3 DEF Unlock, TypeOK
  <2> QED  BY <2>1, <2>2, <2>3
<1>2. LockHeld' /\ HandlerIsThere'
  BY TunHandlerAssumption
  DEF TunHandlerAssumption, Call, StopTun, Unlock, TypeOK, LockHeld, HandlerIsThere
<1>3. UNCHANGED << tunHandler, held, dial, on, opened, callback >>
  BY DEF Call, StopTun, Unlock
<1>4. OpenHasCallback' /\ NoUseAfterRelease'
  BY <1>3 DEF Call, StopTun, Unlock, TypeOK, OpenHasCallback, NoUseAfterRelease
<1> QED  BY <1>1, <1>2, <1>3, <1>4, PermitsStay

LEMMA MakeSteps ==
  ASSUME TunInv, NEW c \in Calls, MakeHandler(c) \/ OpenTun(c)
  PROVE  TunInv'
<1> USE DEF TunInv, Base, Goto
<1>0. Nil \notin Calls
  BY TunHandlerAssumption DEF TunHandlerAssumption
<1>1. CASE MakeHandler(c)
  <2>1. TypeOK'
    BY <1>0, <1>1 DEF MakeHandler, TypeOK
  <2>2. \A e \in Calls : at[e] \notin {"close", "acquired", "unlocked", "open"}
    BY <1>0, <1>1 DEF MakeHandler, LockHeld, TypeOK
  <2>3. LockHeld' /\ HandlerIsThere' /\ \A e \in Calls : at'[e] # "acquired"
    BY <1>0, <1>1, <2>2 DEF MakeHandler, LockHeld, HandlerIsThere, TypeOK
  <2>4. OpenHasCallback' /\ NoUseAfterRelease'
    BY <1>1, <2>2 DEF MakeHandler, OpenHasCallback, NoUseAfterRelease, TypeOK
  <2>5. PermitsCounted'
    BY <1>1, <2>2, <2>3, PermitsStay DEF MakeHandler
  <2> QED  BY <2>1, <2>3, <2>4, <2>5
<1>2. CASE OpenTun(c)
  <2>1. TypeOK'
    BY <1>2 DEF OpenTun, HookRemoved, TypeOK
  <2>2. LockHeld' /\ HandlerIsThere'
    BY <1>0, <1>2 DEF OpenTun, HookRemoved, LockHeld, HandlerIsThere, TypeOK
  <2>3. OpenHasCallback' /\ NoUseAfterRelease'
    BY <1>2 DEF OpenTun, OpenHasCallback, NoUseAfterRelease, TypeOK
  <2>4. \A e \in Calls : at'[e] = "acquired" <=> at[e] = "acquired"
    BY <1>2 DEF OpenTun, TypeOK
  <2>5. PermitsCounted'
    BY <1>2, <2>4, PermitsStay DEF OpenTun
  <2> QED  BY <2>1, <2>2, <2>3, <2>5
<1> QED  BY <1>1, <1>2

\* close() gets all permits only when nobody holds one, and gives them back.
LEMMA CloseSteps ==
  ASSUME TunInv, NEW c \in Calls, Acquire(c) \/ CloseHandler(c)
  PROVE  TunInv'
<1> USE DEF TunInv, Base, Goto
<1>0. /\ Nil \notin Calls /\ Permits \in Nat \ {0}
      /\ tunHandler \in Calls
      /\ \A e \in Calls \ {c} : at[e] # "acquired"
  BY TunHandlerAssumption
  DEF TunHandlerAssumption, Acquire, CloseHandler, HandlerIsThere, LockHeld, TypeOK
<1>1. CASE Acquire(c)
  <2>1. /\ held' = [held EXCEPT ![tunHandler] = Permits] /\ at' = [at EXCEPT ![c] = "acquired"]
        /\ at[c] = "close" /\ held[tunHandler] = 0
        /\ UNCHANGED << kind, overlapped, tunLock, running, tunHandler, hook, opened, callback, dial, on >>
    BY <1>1 DEF Acquire, AllFree
  <2>2. TypeOK' /\ LockHeld' /\ HandlerIsThere'
    BY <1>0, <2>1 DEF TypeOK, LockHeld, HandlerIsThere
  <2>3. OpenHasCallback' /\ NoUseAfterRelease'
    BY <2>1 DEF OpenHasCallback, NoUseAfterRelease, TypeOK
  <2>4. \A h \in Calls : ~Closing(h)
    BY <1>0, <2>1 DEF Closing
  <2>5. Holders(tunHandler) = {}
    <3>1. Cardinality(Holders(tunHandler)) = 0
      BY <1>0, <2>1, <2>4 DEF PermitsCounted
    <3> QED  BY <3>1, HoldersFinite, FS_EmptySet
  <2>6. \A h \in Calls : Holders(h)' = Holders(h) /\ (Closing(h)' <=> h = tunHandler)
    BY <2>1 DEF Holders, Closing, TypeOK
  <2>7. PermitsCounted'
    <3> SUFFICES ASSUME NEW h \in Calls
                 PROVE  /\ ~Closing(h)' => held'[h] = Cardinality(Holders(h)')
                        /\ Closing(h)' => held'[h] = Permits /\ Holders(h)' = {}
      BY DEF PermitsCounted
    <3>1. held'[h] = IF h = tunHandler THEN Permits ELSE held[h]
      BY <2>1 DEF TypeOK
    <3>2. held[h] = Cardinality(Holders(h))
      BY <2>4 DEF PermitsCounted
    <3> QED  BY <2>5, <2>6, <3>1, <3>2
  <2> QED  BY <2>2, <2>3, <2>7
<1>2. CASE CloseHandler(c)
  <2>1. /\ hook' = FALSE /\ opened' = opened \ {tunHandler} /\ callback' = callback \ {tunHandler}
        /\ held' = [held EXCEPT ![tunHandler] = 0] /\ at' = [at EXCEPT ![c] = "unlocked"]
        /\ at[c] = "acquired"
        /\ UNCHANGED << kind, overlapped, tunLock, running, tunHandler, dial, on >>
    BY <1>2 DEF CloseHandler, ListenerClosed
  <2>2. TypeOK'
    <3>1. 0 \in 0 .. Permits
      BY <1>0
    <3>2. held' \in [Calls -> 0 .. Permits] /\ hook' \in BOOLEAN
      BY <2>1, <3>1 DEF TypeOK
    <3>3. at' \in [Calls -> {"new", "lock", "close", "acquired", "unlocked", "make", "open", "done"}]
      BY <2>1 DEF TypeOK
    <3>4. opened' \subseteq Calls /\ callback' \subseteq Calls
      BY <2>1 DEF TypeOK
    <3> QED  BY <2>1, <3>2, <3>3, <3>4 DEF TypeOK
  <2>3. LockHeld' /\ HandlerIsThere'
    BY <2>1 DEF LockHeld, HandlerIsThere, TypeOK
  <2>4. Closing(tunHandler) /\ Holders(tunHandler) = {}
    BY <1>0, <2>1 DEF Closing, PermitsCounted
  <2>5. OpenHasCallback'
    BY <1>0, <2>1 DEF OpenHasCallback, LockHeld, TypeOK
  <2>6. NoUseAfterRelease'
    BY <2>1, <2>4 DEF NoUseAfterRelease, Holders
  <2>7. \A h \in Calls : Holders(h)' = Holders(h) /\ ~Closing(h)' /\ (Closing(h) <=> h = tunHandler)
    BY <1>0, <2>1 DEF Holders, Closing, TypeOK
  <2>8. PermitsCounted'
    <3> SUFFICES ASSUME NEW h \in Calls PROVE held'[h] = Cardinality(Holders(h)')
      BY <2>7 DEF PermitsCounted
    <3>1. held'[h] = IF h = tunHandler THEN 0 ELSE held[h]
      BY <2>1 DEF TypeOK
    <3>2. h # tunHandler => held[h] = Cardinality(Holders(h))
      BY <2>7 DEF PermitsCounted
    <3> QED  BY <2>4, <2>7, <3>1, <3>2, FS_EmptySet
  <2> QED  BY <2>2, <2>3, <2>5, <2>6, <2>8
<1> QED  BY <1>1, <1>2

-----------------------------------------------------------------------------
(* Connections *)

LEMMA ConnectionSteps ==
  ASSUME TunInv, NEW d \in Dials, Connection(d)
  PROVE  TunInv'
<1> USE DEF TunInv, Base
<1>0. /\ Nil \notin Calls /\ Permits \in Nat \ {0}
      /\ UNCHANGED << kind, overlapped, at, tunLock, running, tunHandler, hook, opened, callback >>
  BY TunHandlerAssumption
  DEF TunHandlerAssumption, Connection, DialHook, TakePermit, Protect, GivePermit
<1>1. LockHeld' /\ OpenHasCallback' /\ \A h \in Calls : Closing(h)' <=> Closing(h)
  BY <1>0 DEF LockHeld, OpenHasCallback, Closing
<1>2. CASE DialHook(d) \/ Protect(d)
  <2>1. TypeOK' /\ HandlerIsThere'
    BY <1>0, <1>2 DEF DialHook, Protect, TypeOK, HandlerIsThere
  <2>2. NoUseAfterRelease'
    BY <1>0, <1>2 DEF DialHook, Protect, HasListener, NoUseAfterRelease, OpenHasCallback, TypeOK
  <2>3. held' = held /\ \A h \in Calls : Holders(h)' = Holders(h)
    BY <1>2 DEF DialHook, Protect, Holders, TypeOK
  <2> QED  BY <1>1, <2>1, <2>2, <2>3 DEF PermitsCounted
<1>3. CASE TakePermit(d)
  <2>1. /\ on[d] \in Calls /\ held[on[d]] < Permits /\ dial[d] = "hooked"
        /\ held' = [held EXCEPT ![on[d]] = held[on[d]] + 1]
        /\ dial' = [dial EXCEPT ![d] = "holds"] /\ on' = on
    BY <1>3 DEF TakePermit, HandlerIsThere
  <2>2. held'[on[d]] \in 0 .. Permits
    BY <1>0, <2>1 DEF TypeOK
  <2>3. TypeOK' /\ HandlerIsThere' /\ NoUseAfterRelease'
    BY <1>0, <2>1, <2>2 DEF TypeOK, HandlerIsThere, NoUseAfterRelease
  <2>4. ~Closing(on[d])
    BY <1>0, <2>1 DEF PermitsCounted
  <2>5. /\ Holders(on[d])' = Holders(on[d]) \cup {d} /\ d \notin Holders(on[d])
        /\ \A h \in Calls \ {on[d]} : Holders(h)' = Holders(h) /\ held'[h] = held[h]
    BY <2>1 DEF Holders, TypeOK
  <2>6. held'[on[d]] = Cardinality(Holders(on[d])')
    <3>1. held[on[d]] = Cardinality(Holders(on[d]))
      BY <2>1, <2>4 DEF PermitsCounted
    <3>2. held'[on[d]] = held[on[d]] + 1
      BY <2>1 DEF TypeOK
    <3>3. Cardinality(Holders(on[d]) \cup {d}) = Cardinality(Holders(on[d])) + 1
      BY <2>5, HoldersFinite, FS_AddElement
    <3> QED  BY <2>5, <3>1, <3>2, <3>3
  <2>7. PermitsCounted'
    BY <1>1, <2>1, <2>4, <2>5, <2>6 DEF PermitsCounted
  <2> QED  BY <1>1, <2>3, <2>7
<1>4. CASE GivePermit(d)
  <2>1. /\ on[d] \in Calls /\ dial[d] \in {"holds", "protects"}
        /\ held' = [held EXCEPT ![on[d]] = held[on[d]] - 1]
        /\ dial' = [dial EXCEPT ![d] = "done"] /\ on' = on
    BY <1>4 DEF GivePermit, Given, HandlerIsThere
  <2>2. d \in Holders(on[d]) /\ ~Closing(on[d])
    BY <2>1 DEF Holders, PermitsCounted
  <2>3. /\ Holders(on[d])' = Holders(on[d]) \ {d}
        /\ \A h \in Calls \ {on[d]} : Holders(h)' = Holders(h) /\ held'[h] = held[h]
    BY <2>1 DEF Holders, TypeOK
  <2>4. held'[on[d]] = Cardinality(Holders(on[d])') /\ held'[on[d]] \in 0 .. Permits
    <3>1. held[on[d]] = Cardinality(Holders(on[d])) /\ held[on[d]] \in 0 .. Permits
      BY <2>1, <2>2 DEF PermitsCounted, TypeOK
    <3>2. held'[on[d]] = held[on[d]] - 1
      BY <2>1 DEF TypeOK
    <3>3. /\ IsFiniteSet(Holders(on[d])')
          /\ Cardinality(Holders(on[d])') = Cardinality(Holders(on[d])) - 1
      BY <2>2, <2>3, HoldersFinite, FS_RemoveElement
    <3>4. Cardinality(Holders(on[d])') \in Nat
      BY <3>3, FS_CardinalityType
    <3> QED  BY <1>0, <3>1, <3>2, <3>3, <3>4
  <2>5. TypeOK' /\ HandlerIsThere' /\ NoUseAfterRelease'
    BY <1>0, <2>1, <2>4 DEF TypeOK, HandlerIsThere, NoUseAfterRelease
  <2>6. PermitsCounted'
    <3> SUFFICES ASSUME NEW h \in Calls
                 PROVE  /\ ~Closing(h)' => held'[h] = Cardinality(Holders(h)')
                        /\ Closing(h)' => held'[h] = Permits /\ Holders(h)' = {}
      BY DEF PermitsCounted
    <3>1. CASE h = on[d]
      <4>1. Holders(h)' = Holders(on[d])' /\ ~Closing(h)'
        BY <1>1, <2>1, <2>2, <3>1 DEF Holders
      <4>2. held'[h] = Cardinality(Holders(on[d])')
        BY <2>4, <3>1
      <4> QED  BY <4>1, <4>2
    <3>2. CASE h # on[d]
      BY <1>1, <2>3, <3>2 DEF PermitsCounted
    <3> QED  BY <3>1, <3>2
  <2> QED  BY <1>1, <2>5, <2>6
<1> QED  BY <1>2, <1>3, <1>4 DEF Connection

LEMMA Inductive == Spec => []TunInv
<1>1. TunInv /\ Next => TunInv'
  BY CallSteps, MakeSteps, CloseSteps, ConnectionSteps DEF Next, CallStep
<1>2. TunInv /\ UNCHANGED vars => TunInv'
  <2> SUFFICES ASSUME TunInv, UNCHANGED vars PROVE TunInv'
    OBVIOUS
  <2>1. TypeOK'
    BY DEF TunInv, Base, vars, TypeOK
  <2>2. LockHeld' /\ HandlerIsThere' /\ OpenHasCallback' /\ NoUseAfterRelease'
    BY DEF TunInv, Base, vars, LockHeld, HandlerIsThere, OpenHasCallback, NoUseAfterRelease
  <2>3. PermitsCounted'
    BY PermitsStay DEF TunInv, vars
  <2> QED  BY <2>1, <2>2, <2>3 DEF TunInv, Base
<1> QED  BY InitInv, <1>1, <1>2, PTL DEF Spec

\* The handlers keep their types: in particular no semaphore gives out more
\* permits than it has, or gets back more than it gave.
THEOREM TunTyping == Spec => []TypeOK
<1>1. TunInv => TypeOK
  BY DEF TunInv, Base
<1> QED  BY Inductive, <1>1, PTL

\* A callback is never used after it was given back, however starts, stops and
\* any number of connections interleave.
THEOREM NeverUsedAfterRelease == Spec => []NoUseAfterRelease
<1>1. TunInv => NoUseAfterRelease
  BY DEF TunInv
<1> QED  BY Inductive, <1>1, PTL

-----------------------------------------------------------------------------
(***************************************************************************)
(* One device.  OneDevice speaks of the time between calls; DeviceInv adds *)
(* what a single call, from its first step to its last, has done to the    *)
(* old device and hook and not yet to the new ones.                        *)
(***************************************************************************)

Active(c) == at[c] \notin {"new", "done"}

\* Calls that never overlapped are under way one at a time.
OneCall == \A c, e \in Calls : Active(c) /\ Active(e) => c = e

\* Who closes has ended the run time; the old device is gone before a new
\* handler is made, and a handler that opens its device has the hooks set.
DeviceOf(c) ==
  /\ at[c] \in {"close", "acquired"} => ~running
  /\ at[c] \in {"unlocked", "make"} => opened = {} /\ ~hook /\ ~running
  /\ at[c] = "open" => opened = {} /\ hook /\ running /\ tunHandler = c

DeviceInv ==
  ~overlapped =>
    /\ OneCall
    /\ opened \subseteq {tunHandler}
    /\ ~running => opened = {} \/ \E c \in Calls : at[c] \in {"close", "acquired"}
    /\ (hook <=> tunHandler \in opened) \/ \E c \in Calls : at[c] = "open"
    /\ \A c \in Calls : DeviceOf(c)

LEMMA DeviceInit == Init => DeviceInv
BY TunHandlerAssumption
DEF TunHandlerAssumption, Init, DeviceInv, OneCall, Active, DeviceOf

\* With nobody else under way, a step concerns nobody else.
LEMMA Alone ==
  ASSUME TypeOK, DeviceInv, ~overlapped, NEW c \in Calls, Active(c), NEW l,
         at' = [at EXCEPT ![c] = l]
  PROVE  /\ OneCall' /\ at'[c] = l
         /\ \A e \in Calls \ {c} : at'[e] = at[e] /\ at[e] \in {"new", "done"}
<1>1. \A e \in Calls \ {c} : at'[e] = at[e] /\ at[e] \in {"new", "done"}
  BY DEF DeviceInv, OneCall, Active, TypeOK
<1>2. at'[c] = l
  BY DEF TypeOK
<1>3. OneCall'
  BY <1>1 DEF OneCall, Active
<1> QED  BY <1>1, <1>2, <1>3

LEMMA DeviceSteps ==
  ASSUME TypeOK, HandlerIsThere, DeviceInv, NEW c \in Calls, Call(c) \/ CallStep(c)
  PROVE  DeviceInv'
<1> SUFFICES ASSUME ~overlapped' PROVE DeviceInv'
  BY DEF DeviceInv
<1>0. ~overlapped /\ Nil \notin Calls
  <2>1. Call(c) => ~overlapped
    BY DEF Call
  <2>2. CallStep(c) => overlapped' = overlapped
    BY DEF CallStep, StopTun, Acquire, CloseHandler, Unlock, MakeHandler, OpenTun
  <2> QED  BY <2>1, <2>2, TunHandlerAssumption DEF TunHandlerAssumption
<1>1. CASE Call(c)
  <2>1. \A e \in Calls : at[e] \in {"new", "done"}
    BY <1>1 DEF Call, Idle
  <2>2. at' = [at EXCEPT ![c] = "lock"]
    BY <1>1 DEF Call, Goto
  <2>3. /\ at'[c] = "lock"
        /\ \A e \in Calls \ {c} : at'[e] \in {"new", "done"}
    BY <2>1, <2>2 DEF TypeOK
  <2>4. opened \subseteq {tunHandler} /\ (~running => opened = {}) /\ (hook <=> tunHandler \in opened)
    BY <1>0, <2>1 DEF DeviceInv
  <2>5. OneCall' /\ \A e \in Calls : DeviceOf(e)'
    BY <2>3 DEF OneCall, Active, DeviceOf
  <2> QED  BY <1>1, <2>4, <2>5 DEF Call, DeviceInv
<1>2. CASE CallStep(c)
  <2>0. Active(c)
    BY <1>2 DEF CallStep, StopTun, Acquire, CloseHandler, Unlock, MakeHandler, OpenTun, Active
  <2>1. ASSUME NEW l, at' = [at EXCEPT ![c] = l],
               opened' \subseteq {tunHandler'},
               ~running' => opened' = {} \/ l \in {"close", "acquired"},
               (hook' <=> tunHandler' \in opened') \/ l = "open",
               l \in {"close", "acquired"} => ~running',
               l \in {"unlocked", "make"} => opened' = {} /\ ~hook' /\ ~running',
               l = "open" => opened' = {} /\ hook' /\ running' /\ tunHandler' = c
        PROVE  DeviceInv'
    <3>1. /\ OneCall' /\ at'[c] = l
          /\ \A e \in Calls \ {c} : at'[e] \in {"new", "done"}
      BY <1>0, <2>0, <2>1, Alone
    <3>2. \A e \in Calls : DeviceOf(e)'
      BY <2>1, <3>1 DEF DeviceOf
    <3> QED  BY <2>1, <3>1, <3>2 DEF DeviceInv
  <2>2. /\ opened \subseteq {tunHandler} /\ opened \subseteq Calls
        /\ ~running /\ at[c] \notin {"close", "acquired"} => opened = {}
        /\ at[c] # "open" => (hook <=> tunHandler \in opened)
        /\ DeviceOf(c)
    BY <1>0, <2>0 DEF DeviceInv, OneCall, Active, TypeOK
  <2>3. CASE StopTun(c)
    BY <1>0, <2>1, <2>2, <2>3 DEF StopTun, Goto
  <2>4. CASE Acquire(c)
    BY <2>1, <2>2, <2>4 DEF Acquire, Goto, DeviceOf
  <2>5. CASE CloseHandler(c)
    <3>1. ~running
      BY <2>2, <2>5 DEF CloseHandler, DeviceOf
    <3> QED  BY <2>1, <2>2, <2>5, <3>1 DEF CloseHandler, ListenerClosed, Goto
  <2>6. CASE Unlock(c)
    BY <2>1, <2>2, <2>6 DEF Unlock, Goto, DeviceOf
  <2>7. CASE MakeHandler(c)
    BY <2>1, <2>2, <2>7 DEF MakeHandler, Goto, DeviceOf
  <2>8. CASE OpenTun(c)
    BY <2>1, <2>2, <2>8 DEF OpenTun, HookRemoved, Goto, DeviceOf
  <2> QED  BY <1>2, <2>3, <2>4, <2>5, <2>6, <2>7, <2>8 DEF CallStep
<1> QED  BY <1>1, <1>2

\* Unless calls overlapped, the only device open is the current handler's, none
\* once stopped, and sockets are protected exactly while it is open.
THEOREM OneDeviceOpen == Spec => []OneDevice
<1>1. TunInv /\ DeviceInv /\ [Next]_vars => DeviceInv'
  <2> SUFFICES ASSUME TunInv, DeviceInv, [Next]_vars PROVE DeviceInv'
    OBVIOUS
  <2>1. ASSUME NEW c \in Calls, Call(c) \/ CallStep(c) PROVE DeviceInv'
    BY <2>1, DeviceSteps DEF TunInv, Base
  <2>2. ASSUME UNCHANGED << at, overlapped, running, tunHandler, hook, opened >> PROVE DeviceInv'
    BY <2>2 DEF DeviceInv, OneCall, Active, DeviceOf
  <2>3. ASSUME NEW d \in Dials, Connection(d) PROVE DeviceInv'
    BY <2>2, <2>3 DEF Connection, DialHook, TakePermit, Protect, GivePermit
  <2>4. CASE UNCHANGED vars
    BY <2>2, <2>4 DEF vars
  <2> QED  BY <2>1, <2>3, <2>4 DEF Next
<1>2. DeviceInv => OneDevice
  BY DEF DeviceInv, OneDevice, Idle
<1> QED  BY Inductive, DeviceInit, <1>1, <1>2, PTL DEF Spec
=============================================================================
