--------------------------- MODULE ControlChannel ---------------------------
(***************************************************************************)
(* The requests the desktop app sends over the channel of CoreLauncher:    *)
(* invoke(), handleResult() and safeFuture() of lib/clash/interface.dart   *)
(* and lib/common/future.dart, sendMessage() of lib/clash/service.dart,    *)
(* and the read loop, handler goroutines and send() of core/server.go.     *)
(*                                                                         *)
(* Requests on one socket are read in order but handled by a goroutine     *)
(* each, and answers come back in any order, so a socket's content is the  *)
(* set of requests in a phase, not a queue.  A request is written to the   *)
(* socket of the completer that was current when invoke() ran, even when   *)
(* that completer has been replaced since.                                 *)
(*                                                                         *)
(* invoke() arms two timers at once, one for realTimeout and one for       *)
(* realTimeout + commonDuration.  Time is the set "due" of the calls whose *)
(* realTimeout has passed: a timer of the event loop never runs before one *)
(* that was due earlier, so the second may run only after the first.       *)
(***************************************************************************)
EXTENDS CoreLauncher

CONSTANT Ids   \* requests; utils.id makes every id fresh

VARIABLES
  call,      \* the caller's future: "new", "pending", "answered", "defaulted"
  entries,   \* callbackCompleterMap
  due,       \* calls whose realTimeout has passed
  phase,     \* where the request is
  on,        \* the completer its sendMessage() awaits
  via        \* the core it was written to

requestVars == << call, entries, due, phase, on, via >>
channelVars == << vars, requestVars >>

Phases == {"new", "waiting", "toCore", "running", "toApp", "done", "lost"}

ChannelTypeOK ==
  /\ call \in [Ids -> {"new", "pending", "answered", "defaulted"}]
  /\ entries \subseteq Ids /\ due \subseteq Ids
  /\ phase \in [Ids -> Phases]
  /\ on \in [Ids -> Nat] /\ via \in [Ids -> MaybeCore]
  /\ \A id \in Ids : phase[id] # "new" => on[id] \in DOMAIN completers

ChannelInit ==
  /\ Init
  /\ call = [id \in Ids |-> "new"] /\ entries = {} /\ due = {}
  /\ phase = [id \in Ids |-> "new"]
  /\ on = [id \in Ids |-> 0] /\ via = [id \in Ids |-> NoCore]

Enter(id, p) == phase' = [phase EXCEPT ![id] = p]

-----------------------------------------------------------------------------
(* the app *)

Awaited == Len(completers)

\* invoke(): the map entry and both timers are made before anything is sent
Invoke(id) ==
  /\ AppUp /\ call[id] = "new"
  /\ call' = [call EXCEPT ![id] = "pending"]
  /\ entries' = entries \cup {id}
  /\ Enter(id, "waiting")
  /\ on' = [on EXCEPT ![id] = Awaited]
  /\ UNCHANGED << vars, due, via >>

\* sendMessage(): resumes once its own completer is completed; a line for a
\* closed socket or a dead core is lost
SendNow(id) ==                              \* mutant: no await
  LET c == completers[on[id]] IN
  /\ AppUp /\ phase[id] = "waiting"
  /\ Enter(id, IF c # NoCore /\ link[c] = "open" /\ core[c] = "up"
               THEN "toCore" ELSE "lost")
  /\ via' = [via EXCEPT ![id] = c]
  /\ UNCHANGED << vars, call, entries, due, on >>

Send(id) ==
  LET c == completers[on[id]] IN
  /\ AppUp /\ phase[id] = "waiting" /\ c # NoCore
  /\ Enter(id, IF link[c] = "open" /\ core[c] = "up" THEN "toCore" ELSE "lost")
  /\ via' = [via EXCEPT ![id] = c]
  /\ UNCHANGED << vars, call, entries, due, on >>

\* handleResult() finds the entry's completer not completed
TakesAlways(id) == TRUE                     \* mutant: no isCompleted check
Takes(id) == id \in entries /\ call[id] = "pending"

\* handleResult(): the app reads on after it closed its sending side; an
\* answer without an entry, or to a completed completer, changes nothing
Deliver(id) ==
  /\ AppUp /\ phase[id] = "toApp"
  /\ Enter(id, "done")
  /\ call' = IF Takes(id)
             THEN [call EXCEPT ![id] = "answered"] ELSE call
  /\ UNCHANGED << vars, entries, due, on, via >>

\* realTimeout passes: withTimeout() gives a caller that still waits the
\* default value; the answer of another has cancelled its timer
Defaulted(id) == IF call[id] = "pending"
                 THEN [call EXCEPT ![id] = "defaulted"] ELSE call

TimeoutOfSent(id) ==                        \* mutant: armed by the write
  /\ AppUp /\ call[id] # "new" /\ id \notin due /\ phase[id] # "waiting"
  /\ due' = due \cup {id}
  /\ call' = Defaulted(id)
  /\ UNCHANGED << vars, entries, phase, on, via >>

Timeout(id) ==
  /\ AppUp /\ call[id] # "new" /\ id \notin due
  /\ due' = due \cup {id}
  /\ call' = Defaulted(id)
  /\ UNCHANGED << vars, entries, phase, on, via >>

\* onLast, commonDuration later, whatever became of the call
MayForgetAnswered(id) == id \in due /\ call[id] = "answered"   \* mutant
MayForget(id) == id \in due

Forget(id) ==
  /\ AppUp /\ id \in entries /\ MayForget(id)
  /\ entries' = entries \ {id}
  /\ UNCHANGED << vars, call, due, phase, on, via >>

-----------------------------------------------------------------------------
(* the core *)

\* startServer() reads a line and starts its handler
Read(id) ==
  /\ phase[id] = "toCore" /\ core[via[id]] = "up"
  /\ Enter(id, "running")
  /\ UNCHANGED << vars, call, entries, due, on, via >>

\* the handler calls result.success() or result.error(); it may also never
Answer(id) ==
  /\ phase[id] = "running" /\ core[via[id]] = "up"
  /\ Enter(id, "toApp")
  /\ UNCHANGED << vars, call, entries, due, on, via >>

-----------------------------------------------------------------------------

RequestStep(id) ==
  \/ Invoke(id) \/ Send(id) \/ Deliver(id) \/ Timeout(id) \/ Forget(id)
  \/ Read(id) \/ Answer(id)

ChannelNext ==
  \/ Next /\ UNCHANGED requestVars
  \/ \E id \in Ids : RequestStep(id)

\* next to the launcher's: timers fire, a completed future resumes its waiters,
\* and a core that is up reads its socket; no handler has to answer
ChannelFairness ==
  /\ Fairness
  /\ \A id \in Ids :
       /\ WF_channelVars(Timeout(id)) /\ WF_channelVars(Forget(id))
       /\ WF_channelVars(Send(id)) /\ WF_channelVars(Read(id))

ChannelSpec == ChannelInit /\ [][ChannelNext]_channelVars /\ ChannelFairness

-----------------------------------------------------------------------------
(* Properties *)

\* Every invoke() comes back, also when its completer was replaced under it or
\* its core died.
EveryCallReturns ==
  \A id \in Ids : call[id] = "pending" ~> (call[id] # "pending" \/ ~AppUp)

\* No request leaves its entry in the callback map for good, answered or not.
NoEntryLeaks ==
  \A id \in Ids : id \in entries ~> (id \notin entries \/ ~AppUp)

\* A request made while the core is still connecting is held back and reaches
\* that core's handler: the accept loop completes the very completer it waits
\* for.  Excepted are a connection of an earlier core that the loop would
\* accept first, and what ends a core or its channel: its death, a restart,
\* the exit, and the end of the loop.
OnlyFrom(c) ==
  /\ sock \in {NoCore, c} /\ incoming \in {NoCore, c}
  /\ \A i \in DOMAIN backlog : backlog[i] = c

CallReachesCore ==
  \A id \in Ids, c \in Cores :
    (/\ phase[id] = "waiting" /\ on[id] = Len(completers)
     /\ process = c /\ Alive(c) /\ OnlyFrom(c)) ~>
       (phase[id] \in {"running", "toApp", "done"}
         \/ ~Alive(c) \/ isStarting
         \/ pc["loop"] = "dead" \/ pc["exit"] # "idle")

\* The channel implements the at-most-once request of RequestReply.
Abstract == INSTANCE RequestReply WITH
  executed <- {id \in Ids : phase[id] \in {"running", "toApp", "done"}}

ImplementsRequestReply == Abstract!Spec
=============================================================================
