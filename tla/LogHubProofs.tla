----------------------------- MODULE LogHubProofs -----------------------------
(***************************************************************************)
(* Proofs about LogHub, for any number of requests and any capacity: the   *)
(* pump never sends on a closed channel, and what is subscribed is emptied.*)
(*                                                                         *)
(* The handlers do not know of the pump; what helps is that UnSubscribe()  *)
(* takes the mutex that the pump holds while it emits, and that a closed   *)
(* subscription has left the map and its number is not used again.         *)
(***************************************************************************)
EXTENDS LogHub, TLAPS

\* Only the pump has anything to emit to, and only with the mutex.
PumpHasMutex == mux # "pump" => todo = {}

\* What is subscribed or closed was once made, and is not both.
Made ==
  /\ subs \in Nat
  /\ listener \subseteq 1 .. subs /\ closed \subseteq 1 .. subs
  /\ listener \cap closed = {}

LogInv == PumpHasMutex /\ Made /\ NoSendOnClosed

LEMMA InitInv == Init => LogInv
BY DEF Init, LogInv, PumpHasMutex, Made, NoSendOnClosed

LEMMA HandlerSteps ==
  ASSUME LogInv, NEW h \in Handlers, Request(h) \/ Handle(h) \/ Consumer(h)
  PROVE  LogInv'
<1> USE DEF LogInv, obsVars, hVars, conVars
<1>1. ASSUME UNCHANGED << subs, listener, closed, mux, todo >> PROVE LogInv'
  BY <1>1 DEF PumpHasMutex, Made, NoSendOnClosed
<1>2. CASE Delete(h)
  <2>1. todo = {}
    BY <1>2, LogAssumption DEF LogAssumption, Delete, Free, PumpHasMutex
  <2> QED  BY <1>2, <2>1 DEF Delete, PumpHasMutex, Made, NoSendOnClosed
<1>3. CASE Subscribe(h)
  <2>1. /\ subs' = subs + 1 /\ listener' = listener \cup {subs + 1}
        /\ UNCHANGED << closed, mux, todo >>
    BY <1>3 DEF Subscribe
  <2>2. subs + 1 \notin closed
    BY DEF Made
  <2> QED  BY <2>1, <2>2 DEF PumpHasMutex, Made, NoSendOnClosed
<1>4. CASE Request(h) \/ Check(h) \/ Unsubscribe(h) \/ Clear(h) \/ Assign(h)
  BY <1>1, <1>4 DEF Request, Check, Unsubscribe, Clear, Assign
<1>5. CASE Consumer(h)
  BY <1>1, <1>5 DEF Consumer, Born, Consume, EndOfRange
<1> QED  BY <1>2, <1>3, <1>4, <1>5 DEF Handle

LEMMA PumpSteps ==
  ASSUME LogInv, Take \/ Pump
  PROVE  LogInv'
<1> USE DEF LogInv, obsVars, hVars, conVars
<1>1. CASE Take
  BY <1>1 DEF Take, PumpHasMutex, Made, NoSendOnClosed
<1>2. ASSUME NEW s \in Subs, Emit(s) PROVE LogInv'
  BY <1>2 DEF Emit, PumpHasMutex, Made, NoSendOnClosed
<1>3. CASE Emitted
  BY <1>3 DEF Emitted, ReleasedMux, PumpHasMutex, Made, NoSendOnClosed
<1> QED  BY <1>1, <1>2, <1>3 DEF Pump

LEMMA LogStep == LogInv /\ [Next]_vars => LogInv'
<1>1. LogInv /\ Next => LogInv'
  BY HandlerSteps, PumpSteps DEF Next
<1>2. LogInv /\ UNCHANGED vars => LogInv'
  BY DEF LogInv, vars, obsVars, PumpHasMutex, Made, NoSendOnClosed
<1> QED  BY <1>1, <1>2

\* The pump never sends on a closed channel, which would kill the core: not
\* even when starts and stops of the log overlap and share one variable.
THEOREM NeverSendsOnClosed == Spec => []NoSendOnClosed
<1>1. LogInv => NoSendOnClosed
  BY DEF LogInv
<1> QED  BY InitInv, LogStep, <1>1, PTL DEF Spec

-----------------------------------------------------------------------------
(***************************************************************************)
(* What is subscribed is emptied.  SubscriptionIsConsumed speaks of the    *)
(* time between requests; ConsumedInv adds how far a single request is     *)
(* with the old subscription and with the new one.                         *)
(***************************************************************************)

\* The handlers' variables keep their shape.
Shape ==
  /\ kind \in [Handlers -> {"start", "stop"}]
  /\ at \in [Handlers -> {"new", "check", "unsubscribe", "delete", "clear", "subscribe",
                         "assign", "done"}]
  /\ sub \in [Handlers -> Nat] /\ over \in [Handlers -> Nat]
  /\ consumer \in [Handlers -> {"none", "spawned", "ranging"}]
  /\ logSubscriber \in Nat

Active(h) == at[h] \notin {"new", "done"}

\* Requests that never overlapped are under way one at a time.
OneRequest == \A h, i \in Handlers : Active(h) /\ Active(i) => h = i

Consumed ==
  /\ listener = {logSubscriber} \ {0}
  /\ Subscribed => \E h \in Handlers : consumer[h] = "spawned" \/ Ranges(h, logSubscriber)

\* How far a handler is: Clear() has still to forget a subscription that is
\* gone, Assign() to name one that is there.
Between == {"clear", "subscribe", "assign"}

PlaceOf(h) ==
  /\ at[h] \in {"unsubscribe", "delete"} => Subscribed
  /\ at[h] = "delete" => sub[h] = logSubscriber
  /\ at[h] = "clear" => listener = {}
  /\ at[h] = "subscribe" => listener = {} /\ logSubscriber = 0
  /\ at[h] = "assign" => listener = {sub[h]} /\ sub[h] # 0

ConsumedInv ==
  ~overlapped =>
    /\ OneRequest
    /\ Consumed \/ \E h \in Handlers : at[h] \in Between
    /\ \A h \in Handlers : PlaceOf(h)

LEMMA ConsumedInit == Init => Shape /\ ConsumedInv
BY DEF Init, Shape, ConsumedInv, OneRequest, Active, Consumed, Subscribed, PlaceOf

LEMMA ShapeStep == LogInv /\ Shape /\ [Next]_vars => Shape'
<1> SUFFICES ASSUME LogInv, Shape, [Next]_vars PROVE Shape'
  OBVIOUS
<1> USE DEF obsVars, hVars, conVars
<1>1. ASSUME UNCHANGED << logSubscriber, kind, at, sub, over, consumer >> PROVE Shape'
  BY <1>1 DEF Shape
<1>2. ASSUME NEW h \in Handlers, Request(h) PROVE Shape'
  <2>1. PICK k \in {"start", "stop"} : kind' = [kind EXCEPT ![h] = k]
    BY <1>2 DEF Request
  <2> QED  BY <1>2, <2>1 DEF Request, Goto, Shape
<1>3. ASSUME NEW h \in Handlers, Check(h) \/ Unsubscribe(h) \/ Delete(h) \/ Clear(h) PROVE Shape'
  BY <1>3 DEF Check, Unsubscribe, Delete, Clear, After, Goto, Shape
<1>4. ASSUME NEW h \in Handlers, Subscribe(h) PROVE Shape'
  <2>1. subs + 1 \in Nat
    BY DEF LogInv, Made
  <2> QED  BY <1>4, <2>1 DEF Subscribe, Goto, Shape
<1>5. ASSUME NEW h \in Handlers, Assign(h) PROVE Shape'
  BY <1>5 DEF Assign, Spawn, Goto, Shape
<1>6. ASSUME NEW h \in Handlers, Consumer(h) PROVE Shape'
  BY <1>6 DEF Consumer, Born, Consume, EndOfRange, Shape
<1>7. CASE Take \/ Pump
  BY <1>1, <1>7 DEF Take, Pump, Emit, Emitted
<1> QED  BY <1>1, <1>2, <1>3, <1>4, <1>5, <1>6, <1>7 DEF Next, Handle, vars

\* The goroutine that empties the current subscription is never told to end.
LEMMA ConsumerKeepsOn ==
  ASSUME LogInv, Shape, ConsumedInv, NEW h \in Handlers, Consumer(h)
  PROVE  ConsumedInv'
<1> USE DEF obsVars, hVars, conVars
<1>1. UNCHANGED << overlapped, logSubscriber, listener, closed, sub, at >>
  BY DEF Consumer, Born, Consume, EndOfRange
<1>2. ASSUME Consumed PROVE Consumed'
  <2> SUFFICES ASSUME Subscribed
               PROVE  \E i \in Handlers : consumer'[i] = "spawned" \/ Ranges(i, logSubscriber)'
    BY <1>1, <1>2 DEF Consumed, Subscribed
  <2>1. PICK i \in Handlers : consumer[i] = "spawned" \/ Ranges(i, logSubscriber)
    BY <1>2 DEF Consumed
  <2>2. logSubscriber \notin closed
    BY <1>2 DEF Consumed, Subscribed, LogInv, Made
  <2>3. CASE Born(h)
    <3>1. Ranges(h, logSubscriber)'
      BY <1>1, <2>3 DEF Born, Ranges, Shape
    <3> QED  BY <3>1
  <2>4. CASE Consume(h)
    BY <1>1, <2>1, <2>4 DEF Consume, Ranges
  <2>5. CASE EndOfRange(h)
    <3>1. i # h
      BY <2>1, <2>2, <2>5 DEF EndOfRange, Ranges
    <3>2. consumer'[i] = consumer[i] /\ over'[i] = over[i]
      BY <2>5, <3>1 DEF EndOfRange, Shape
    <3> QED  BY <1>1, <2>1, <3>2 DEF Ranges
  <2> QED  BY <2>3, <2>4, <2>5 DEF Consumer
<1> QED  BY <1>1, <1>2 DEF ConsumedInv, OneRequest, Active, PlaceOf, Subscribed

LEMMA ConsumedRequest ==
  ASSUME Shape, ConsumedInv, NEW h \in Handlers, Request(h)
  PROVE  ConsumedInv'
<1> SUFFICES ASSUME ~overlapped' PROVE ConsumedInv'
  BY DEF ConsumedInv
<1>1. /\ ~overlapped /\ Idle /\ at' = [at EXCEPT ![h] = "check"]
      /\ UNCHANGED << logSubscriber, listener, consumer, over >>
  BY DEF Request, Goto, obsVars, conVars
<1>2. Consumed
  BY <1>1 DEF ConsumedInv, Idle, Between
<1>3. Consumed'
  BY <1>1, <1>2 DEF Consumed, Subscribed, Ranges
<1>4. at'[h] = "check" /\ \A i \in Handlers \ {h} : at'[i] \in {"new", "done"}
  BY <1>1 DEF Shape, Idle
<1>5. OneRequest' /\ \A i \in Handlers : PlaceOf(i)'
  BY <1>4 DEF OneRequest, Active, PlaceOf
<1> QED  BY <1>3, <1>5 DEF ConsumedInv

LEMMA ConsumedHandle ==
  ASSUME LogInv, Shape, ConsumedInv, NEW h \in Handlers, Handle(h)
  PROVE  ConsumedInv'
<1> USE DEF obsVars, hVars, conVars
<1>0. overlapped' = overlapped
  BY DEF Handle, Check, Unsubscribe, Delete, Clear, Subscribe, Assign
<1> SUFFICES ASSUME ~overlapped PROVE ConsumedInv'
  BY <1>0 DEF ConsumedInv
<1>1. Active(h) /\ PlaceOf(h) /\ (at[h] \notin Between => Consumed)
  BY DEF Handle, Check, Unsubscribe, Delete, Clear, Subscribe, Assign, ConsumedInv, OneRequest,
         Active, Between
<1>2. ASSUME NEW l, at' = [at EXCEPT ![h] = l],
             Consumed' \/ l \in Between,
             l \in {"unsubscribe", "delete"} => Subscribed',
             l = "delete" => sub'[h] = logSubscriber',
             l = "clear" => listener' = {},
             l = "subscribe" => listener' = {} /\ logSubscriber' = 0,
             l = "assign" => listener' = {sub'[h]} /\ sub'[h] # 0
      PROVE  ConsumedInv'
  <2>1. at'[h] = l /\ \A i \in Handlers \ {h} : at'[i] \in {"new", "done"}
    BY <1>1, <1>2 DEF ConsumedInv, OneRequest, Active, Shape
  <2>2. OneRequest' /\ \A i \in Handlers : PlaceOf(i)'
    BY <1>2, <2>1 DEF OneRequest, Active, PlaceOf
  <2> QED  BY <1>2, <2>1, <2>2 DEF ConsumedInv
<1>3. ASSUME UNCHANGED << logSubscriber, listener, consumer, over >>
      PROVE  Consumed' = Consumed /\ Subscribed' = Subscribed
  BY <1>3 DEF Consumed, Subscribed, Ranges
<1>4. After(h) \in {"subscribe", "done"}
  BY DEF After
<1>5. CASE Check(h)
  <2>1. /\ at' = [at EXCEPT ![h] = IF Subscribed THEN "unsubscribe" ELSE After(h)]
        /\ UNCHANGED << logSubscriber, listener, consumer, over >> /\ Consumed
    BY <1>1, <1>5 DEF Check, Goto, Between
  <2>2. Consumed' /\ Subscribed' = Subscribed
    BY <1>3, <2>1
  <2>3. CASE Subscribed
    BY <1>2, <2>1, <2>2, <2>3
  <2>4. CASE ~Subscribed
    <3>1. logSubscriber' = 0 /\ listener' = {}
      BY <2>1, <2>4 DEF Consumed, Subscribed
    <3> QED  BY <1>2, <1>4, <2>1, <2>2, <2>4, <3>1
  <2> QED  BY <2>3, <2>4
<1>6. CASE Unsubscribe(h)
  <2>1. /\ at' = [at EXCEPT ![h] = "delete"] /\ sub'[h] = logSubscriber
        /\ UNCHANGED << logSubscriber, listener, consumer, over >> /\ Consumed /\ Subscribed
    BY <1>1, <1>6 DEF Unsubscribe, Goto, Between, PlaceOf, Shape
  <2> QED  BY <1>2, <1>3, <2>1
<1>7. CASE Delete(h)
  <2>1. at' = [at EXCEPT ![h] = "clear"] /\ Consumed /\ Subscribed /\ sub[h] = logSubscriber
    BY <1>1, <1>7 DEF Delete, Goto, Between, PlaceOf
  <2>2. listener' = {}
    BY <1>7, <2>1 DEF Delete, Consumed, Subscribed
  <2> QED  BY <1>2, <2>1, <2>2 DEF Between
<1>8. CASE Clear(h)
  <2>1. /\ at' = [at EXCEPT ![h] = After(h)] /\ logSubscriber' = 0 /\ listener' = {}
    BY <1>1, <1>8 DEF Clear, Goto, PlaceOf
  <2>2. Consumed'
    BY <2>1 DEF Consumed, Subscribed
  <2> QED  BY <1>2, <1>4, <2>1, <2>2
<1>9. CASE Subscribe(h)
  <2>1. /\ at' = [at EXCEPT ![h] = "assign"] /\ listener' = {subs + 1}
        /\ sub'[h] = subs + 1
    BY <1>1, <1>9 DEF Subscribe, Goto, PlaceOf, Shape
  <2>2. subs + 1 # 0
    BY DEF LogInv, Made
  <2> QED  BY <1>2, <2>1, <2>2 DEF Between
<1>10. CASE Assign(h)
  <2>1. /\ at' = [at EXCEPT ![h] = "done"] /\ logSubscriber' = sub[h] /\ sub[h] # 0
        /\ listener' = {sub[h]} /\ consumer'[h] = "spawned"
    BY <1>1, <1>10 DEF Assign, Spawn, Goto, PlaceOf, Shape
  <2>2. Consumed'
    BY <2>1 DEF Consumed
  <2> QED  BY <1>2, <2>1, <2>2
<1> QED  BY <1>5, <1>6, <1>7, <1>8, <1>9, <1>10 DEF Handle

LEMMA Inductive == Spec => [](LogInv /\ Shape /\ ConsumedInv)
<1>1. LogInv /\ Shape /\ ConsumedInv /\ [Next]_vars => ConsumedInv'
  <2> SUFFICES ASSUME LogInv, Shape, ConsumedInv, [Next]_vars PROVE ConsumedInv'
    OBVIOUS
  <2>1. ASSUME UNCHANGED << overlapped, logSubscriber, listener, sub, at, conVars >> PROVE ConsumedInv'
    BY <2>1
    DEF ConsumedInv, OneRequest, Active, Consumed, Subscribed, Ranges, PlaceOf, conVars
  <2>2. CASE Take \/ Pump \/ UNCHANGED vars
    BY <2>1, <2>2 DEF Take, Pump, Emit, Emitted, vars, obsVars, hVars
  <2> QED  BY <2>2, ConsumerKeepsOn, ConsumedRequest, ConsumedHandle DEF Next
<1> QED  BY InitInv, ConsumedInit, LogStep, ShapeStep, <1>1, PTL DEF Spec

\* Unless requests overlapped, nothing stays subscribed but what logSubscriber
\* names, and that has, or will have, a goroutine that empties it.
THEOREM SubscriptionsAreConsumed == Spec => []SubscriptionIsConsumed
<1>1. ConsumedInv => SubscriptionIsConsumed
  BY DEF ConsumedInv, Between, Consumed, SubscriptionIsConsumed, Idle
<1> QED  BY Inductive, <1>1, PTL
=============================================================================
