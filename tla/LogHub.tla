------------------------------- MODULE LogHub -------------------------------
(***************************************************************************)
(* Log streaming to the app: handleStartLog() and handleStopLog() in       *)
(* core/hub.go, over the observable of core/Clash.Meta/common/observable.  *)
(*                                                                         *)
(* Every log call of the core hands its event to one pump over an          *)
(* unbuffered channel; the pump emits it to the buffer of every            *)
(* subscription, holding the observable's mutex.  A buffer that nobody     *)
(* empties stops the pump, and with it every goroutine that logs.          *)
(*                                                                         *)
(* The handlers run in goroutines and share logSubscriber without a lock.  *)
(* Subscriptions are counted, and named by their number.                   *)
(***************************************************************************)
EXTENDS Naturals, FiniteSets

CONSTANTS
  Handlers,   \* requests; a finite supply bounds the model
  Cap,        \* capacity of a subscription's buffer (200 in the code)
  Nil         \* no handler; as a subscription, Go's nil channel is 0

ASSUME LogAssumption ==
  /\ Cap \in Nat \ {0} /\ IsFiniteSet(Handlers)
  /\ Nil \notin Handlers /\ Nil # "pump"

VARIABLES
  logSubscriber,       \* the global of hub.go
  overlapped,          \* history: a request came before another was answered
  subs,                \* subscriptions made so far
  listener, closed,    \* those in the observable's map, those closed
  buf,                 \* events in each subscription's buffer
  mux,                 \* holder of the observable's mutex
  todo,                \* subscriptions the pump still has to emit to
  kind, at, sub,       \* per handler: method, step, subscription in hand
  consumer, over       \* the goroutine its start spawned, and what it ranges over

obsVars  == << subs, listener, closed, buf >>
hVars    == << kind, sub >>
conVars  == << consumer, over >>
vars == << logSubscriber, overlapped, obsVars, mux, todo, hVars, at, conVars >>

Numbers == 0 .. Cardinality(Handlers)
Subs    == Numbers \ {0}

TypeOK ==
  /\ overlapped \in BOOLEAN /\ logSubscriber \in Numbers /\ subs \in Numbers
  /\ listener \subseteq Subs /\ closed \subseteq Subs
  /\ buf \in [Subs -> 0 .. Cap]
  /\ mux \in Handlers \cup {"pump", Nil} /\ todo \subseteq Subs
  /\ kind \in [Handlers -> {"start", "stop"}]
  /\ at \in [Handlers -> {"new", "check", "unsubscribe", "delete", "clear", "subscribe",
                         "assign", "done"}]
  /\ sub \in [Handlers -> Numbers]
  /\ consumer \in [Handlers -> {"none", "spawned", "ranging"}]
  /\ over \in [Handlers -> Numbers]

Init ==
  /\ overlapped = FALSE /\ logSubscriber = 0 /\ subs = 0 /\ listener = {} /\ closed = {}
  /\ buf = [s \in Subs |-> 0]
  /\ mux = Nil /\ todo = {}
  /\ kind = [h \in Handlers |-> "start"] /\ at = [h \in Handlers |-> "new"]
  /\ sub = [h \in Handlers |-> 0]
  /\ consumer = [h \in Handlers |-> "none"] /\ over = [h \in Handlers |-> 0]

-----------------------------------------------------------------------------
(* the handlers *)

Goto(h, l) == at' = [at EXCEPT ![h] = l]

Idle == \A h \in Handlers : at[h] \in {"new", "done"}

Request(h) ==
  /\ at[h] = "new"
  /\ overlapped' = (overlapped \/ ~Idle)
  /\ \E k \in {"start", "stop"} : kind' = [kind EXCEPT ![h] = k]
  /\ Goto(h, "check")
  /\ UNCHANGED << logSubscriber, obsVars, mux, todo, sub, conVars >>

NeverSubscribed == FALSE                     \* mutant: the old one is not dropped
\* if logSubscriber != nil
Subscribed == logSubscriber # 0

After(h) == IF kind[h] = "start" THEN "subscribe" ELSE "done"

Check(h) ==
  /\ at[h] = "check"
  /\ Goto(h, IF Subscribed THEN "unsubscribe" ELSE After(h))
  /\ UNCHANGED << overlapped, logSubscriber, obsVars, mux, todo, hVars, conVars >>

\* the argument of UnSubscribe() is read again, then it waits for the mutex
Unsubscribe(h) ==
  /\ at[h] = "unsubscribe" /\ Goto(h, "delete")
  /\ sub' = [sub EXCEPT ![h] = logSubscriber]
  /\ UNCHANGED << overlapped, logSubscriber, obsVars, mux, todo, kind, conVars >>

\* nothing happens to a subscription that is not in the map
Unlocked == TRUE                             \* mutant: no mutex
Free == mux = Nil

Delete(h) ==
  /\ at[h] = "delete" /\ Free /\ Goto(h, "clear")
  /\ IF sub[h] \in listener
     THEN listener' = listener \ {sub[h]} /\ closed' = closed \cup {sub[h]}
     ELSE UNCHANGED << listener, closed >>
  /\ UNCHANGED << overlapped, logSubscriber, subs, buf, mux, todo, hVars, conVars >>

Clear(h) ==
  /\ at[h] = "clear" /\ Goto(h, After(h))
  /\ logSubscriber' = 0
  /\ UNCHANGED << overlapped, obsVars, mux, todo, hVars, conVars >>

Subscribe(h) ==
  /\ at[h] = "subscribe" /\ mux = Nil /\ Goto(h, "assign")
  /\ subs' = subs + 1 /\ listener' = listener \cup {subs + 1}
  /\ sub' = [sub EXCEPT ![h] = subs + 1]
  /\ UNCHANGED << overlapped, logSubscriber, closed, buf, mux, todo, kind, conVars >>

Spawn(h) == consumer' = [consumer EXCEPT ![h] = "spawned"]

\* the goroutine exists from here on, but has not looked at the variable yet
Assign(h) ==
  /\ at[h] = "assign" /\ Goto(h, "done")
  /\ logSubscriber' = sub[h]
  /\ Spawn(h)
  /\ UNCHANGED << overlapped, obsVars, mux, todo, hVars, over >>

-----------------------------------------------------------------------------
(* the goroutines that range over logSubscriber *)

Ranges(h, s) == consumer[h] = "ranging" /\ over[h] = s

\* range evaluates the variable once, when the goroutine first runs
Born(h) ==
  /\ consumer[h] = "spawned"
  /\ consumer' = [consumer EXCEPT ![h] = "ranging"] /\ over' = [over EXCEPT ![h] = logSubscriber]
  /\ UNCHANGED << overlapped, logSubscriber, obsVars, mux, todo, hVars, at >>

Consume(h) ==
  /\ \E s \in Subs : Ranges(h, s) /\ buf[s] > 0 /\ buf' = [buf EXCEPT ![s] = @ - 1]
  /\ UNCHANGED << overlapped, logSubscriber, subs, listener, closed, mux, todo, hVars, at, conVars >>

\* the range ends with the closed channel; over nil it never does
EndOfRange(h) ==
  /\ \E s \in closed : Ranges(h, s) /\ buf[s] = 0
  /\ consumer' = [consumer EXCEPT ![h] = "none"]
  /\ UNCHANGED << overlapped, logSubscriber, obsVars, mux, todo, hVars, at, over >>

-----------------------------------------------------------------------------
(* the pump: process() *)

\* some log call hands over its event, and the mutex is taken
Take ==
  /\ mux = Nil
  /\ mux' = "pump" /\ todo' = listener
  /\ UNCHANGED << overlapped, logSubscriber, obsVars, hVars, at, conVars >>

Room(s) == buf[s] < Cap

\* a full buffer makes the pump wait, with the mutex
Emit(s) ==
  /\ s \in todo /\ Room(s)
  /\ buf' = [buf EXCEPT ![s] = @ + 1]
  /\ todo' = todo \ {s}
  /\ UNCHANGED << overlapped, logSubscriber, subs, listener, closed, mux, hVars, at, conVars >>

KeptMux == "pump"                            \* mutant: not unlocked without listeners
ReleasedMux == Nil

Emitted ==
  /\ mux = "pump" /\ todo = {}
  /\ mux' = ReleasedMux
  /\ UNCHANGED << overlapped, logSubscriber, obsVars, todo, hVars, at, conVars >>

-----------------------------------------------------------------------------

Handle(h) == Check(h) \/ Unsubscribe(h) \/ Delete(h) \/ Clear(h) \/ Subscribe(h) \/ Assign(h)
Consumer(h) == Born(h) \/ Consume(h) \/ EndOfRange(h)
Pump == (\E s \in Subs : Emit(s)) \/ Emitted

Next == Take \/ Pump \/ \E h \in Handlers : Request(h) \/ Handle(h) \/ Consumer(h)

\* goroutines run; a mutex is given to everyone who waits; log calls are made
\* only as the core likes, so none is assumed
Fairness ==
  /\ WF_vars(Pump)
  /\ \A h \in Handlers : SF_vars(Handle(h)) /\ WF_vars(Consumer(h))

Spec == Init /\ [][Next]_vars /\ Fairness

-----------------------------------------------------------------------------
(* Properties *)

\* The pump never sends on a closed channel, which would kill the core,
\* however requests to start and stop the log overlap.
NoSendOnClosed == todo \cap closed = {}

\* Unless requests overlapped, nothing stays subscribed but what logSubscriber
\* names, and that has, or will have, a goroutine that empties it (the one of
\* its own start may not have run yet): a subscription that is forgotten or not
\* emptied would fill up and stop all logging.
SubscriptionIsConsumed ==
  ~overlapped /\ Idle =>
    /\ listener = {logSubscriber} \ {0}
    /\ Subscribed => \E h \in Handlers : consumer[h] = "spawned" \/ Ranges(h, logSubscriber)

\* Unless requests overlap, every log call gets through, since the pump comes
\* back to the channel, and every request to start or stop the log is answered.
LogCallsReturn ==
  []~overlapped =>
    []<>(mux # "pump") /\ \A h \in Handlers : at[h] = "check" ~> at[h] = "done"
=============================================================================
