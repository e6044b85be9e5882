------------------------ MODULE SubscriptionImport ------------------------
(***************************************************************************)
(* Importing a subscription: sign-in, a refresh and the retry button all   *)
(* call importSubscription(), which deletes the subscriptions there are,   *)
(* downloads the new one (directly, else by whichever proxy is first),     *)
(* has the core validate it, and makes it the current profile; meanwhile   *)
(* the user chooses nodes, starts and stops.                               *)
(*                                                                         *)
(* Dart runs the steps between two awaits at once.  The core takes setups  *)
(* in the order they are sent (CoreHub has the other orders).              *)
(***************************************************************************)
EXTENDS Integers, FiniteSets

CONSTANTS
  Callers,        \* of importSubscription()
  Proxies,        \* XBoardConfig.allProxyUrls
  Nodes,          \* what the user may choose in a profile
  MaxImports,     \* imports that get past the guard
  MaxPresses      \* starts, stops and choices of the user

File == -1        \* the profile of a file, and no profile
Null == -2
Old == {0, 1}     \* subscriptions left from earlier runs of the app
Ids == Old \cup 2 .. MaxImports + 1
NoMap == "null"
Automatic == "auto"    \* an empty selectedMap

ASSUME ImportAssumption ==
  /\ IsFiniteSet(Proxies) /\ IsFiniteSet(Callers) /\ NoMap \notin Nodes
  /\ MaxImports \in Nat /\ MaxPresses \in Nat

VARIABLES
  imp,            \* per caller, the import it waits for
  importing,      \* _isImporting
  lastSel,        \* _lastUrlSelectedMap
  urls, file,     \* profilesProvider: the subscriptions, and whether a file
  sel,            \* per profile, its selectedMap
  current,        \* currentProfileId
  start,          \* the updateStatus(true) under way, and its profile
  stops,          \* updateStatus(false) calls under way
  started, applied,   \* the core: its listeners, the profile it was set up with
  imports, presses,   \* bounds
  want,           \* history: the choice to be kept
  lost,           \* history: an import found no subscription to keep one of
  crossed         \* history: a start crossed a change of profile, or a setup failed

profiles == << lastSel, urls, file, sel, current >>
running  == << start, stops, started, applied >>
history  == << want, lost >>
vars     == << imp, importing, profiles, running, history, crossed, imports, presses >>

NoImport == [step |-> "none", id |-> Null, pool |-> {}, pending |-> {}, failed |-> 0, stalled |-> {}]
NoStart  == [step |-> "none", of |-> Null]

Steps == {"none", "direct", "proxies", "upgrade", "validate", "add", "apply"}

Imports == [step : Steps, id : Ids \cup {Null}, pool : SUBSET Proxies,
            pending : SUBSET Proxies, failed : Nat, stalled : SUBSET (Proxies \cup {"self"})]
Starts  == [step : {"none", "check", "built", "tail"}, of : Ids \cup {File, Null}]

TypeOK ==
  /\ imp \in [Callers -> Imports]
  /\ importing \in BOOLEAN /\ lastSel \in Nodes \cup {NoMap, Automatic}
  /\ urls \subseteq Ids /\ file \in BOOLEAN /\ current \in Ids \cup {File, Null}
  /\ sel \in [Ids \cup {File} -> Nodes \cup {Automatic}]
  /\ start \in Starts
  /\ stops \in Nat /\ started \in BOOLEAN /\ applied \in Ids \cup {File, Null}
  /\ imports \in 0 .. MaxImports /\ presses \in 0 .. MaxPresses
  /\ want \in Nodes \cup {Automatic} /\ lost \in BOOLEAN /\ crossed \in BOOLEAN

Init ==
  /\ imp = [c \in Callers |-> NoImport] /\ importing = FALSE
  /\ lastSel = NoMap /\ sel = [p \in Ids \cup {File} |-> Automatic]
  /\ urls \in SUBSET Old /\ file \in BOOLEAN
  /\ current \in urls \cup (IF file THEN {File} ELSE {}) \cup {Null}
  /\ current = Null <=> (urls = {} /\ ~file)
  /\ start = NoStart /\ stops = 0 /\ started = FALSE /\ applied = current
  /\ imports = 0 /\ presses = 0
  /\ want = Automatic /\ lost = FALSE /\ crossed = FALSE

Becomes(c, i) == imp' = [imp EXCEPT ![c] = i]
Goto(c, s) == Becomes(c, [imp[c] EXCEPT !.step = s, !.stalled = {}])

-----------------------------------------------------------------------------
(* importSubscription() *)

MayAlways == TRUE                              \* mutant: no guard
MayImport == ~importing

\* _cleanOldUrlProfiles(): the choice is remembered, then all subscriptions go
RememberAfter == NoMap                         \* mutant: read after the deletion
Remember == IF current \in urls THEN sel[current] ELSE NoMap

\* _clearProfileEffect(): the first profile that is left, or a stop nobody awaits
Remaining == IF file THEN File ELSE Null
StopsProxy == current \in urls /\ ~file

Clean ==
  /\ lastSel' = Remember
  /\ urls' = {}
  /\ current' = IF current \in urls THEN Remaining ELSE current
  /\ stops' = IF StopsProxy THEN stops + 1 ELSE stops
  /\ lost' = (lost \/ current \notin urls)
  /\ crossed' = (crossed \/ start.step \in {"built", "tail"})
  /\ UNCHANGED << file, sel, start, started, applied, want >>

\* no proxy is tried for a domain that is always reached directly
Begin(c) ==
  /\ imp[c].step = "none" /\ MayImport /\ imports < MaxImports
  /\ importing' = TRUE /\ imports' = imports + 1
  /\ \E pool \in {{}, Proxies} :
       Becomes(c, [NoImport EXCEPT !.step = "direct", !.id = imports + 2, !.pool = pool])
  /\ Clean
  /\ UNCHANGED presses

\* catch and finally
Fail(c) ==
  /\ Becomes(c, NoImport) /\ importing' = FALSE /\ lost' = TRUE
  /\ UNCHANGED << profiles, running, want, crossed, imports, presses >>

Steady == UNCHANGED << importing, profiles, running, history, crossed, imports, presses >>

\* connecting and the answer have timeouts, reading the body has none
Stall(c) ==
  /\ imp[c].step \in {"direct", "upgrade"}
  /\ Becomes(c, [imp[c] EXCEPT !.stalled = {"self"}]) /\ Steady

Direct(c) ==
  /\ imp[c].step = "direct" /\ imp[c].stalled = {}
  /\ \/ Goto(c, "upgrade") /\ Steady
     \/ imp[c].pool = {} /\ Fail(c)
     \/ imp[c].pool # {} /\ Steady
        /\ Becomes(c, [imp[c] EXCEPT !.step = "proxies", !.pending = imp[c].pool])

\* _waitForFirstSuccess(): the first that succeeds, an error once all failed
OverAll(n, pool) == n > Cardinality(pool)      \* mutant: off by one
AllFailed(n, pool) == n = Cardinality(pool)

ProxyStalls(c, p) ==
  /\ imp[c].step = "proxies" /\ p \in imp[c].pending
  /\ Becomes(c, [imp[c] EXCEPT !.stalled = @ \cup {p}]) /\ Steady

ProxyAnswers(c, p) ==
  /\ imp[c].step = "proxies" /\ p \in imp[c].pending \ imp[c].stalled
  /\ LET n == imp[c].failed + 1 IN
     \/ Goto(c, "upgrade") /\ Steady
     \/ AllFailed(n, imp[c].pool) /\ Fail(c)
     \/ ~AllFailed(n, imp[c].pool) /\ Steady
        /\ Becomes(c, [imp[c] EXCEPT !.pending = @ \ {p}, !.failed = n])

\* _maybeUpgradeToV2RayNSubscription() and _backfillXBoardMetadata() download
\* again, and do without when that fails
Upgrade(c) == imp[c].step = "upgrade" /\ imp[c].stalled = {} /\ Goto(c, "validate") /\ Steady

\* validateConfig(), and writing the file
Validate(c) ==
  /\ imp[c].step = "validate"
  /\ \/ Goto(c, "add") /\ Steady
     \/ Fail(c)

\* _addProfile(): the remembered choice, unless there was none
Add(c) ==
  /\ imp[c].step = "add" /\ Goto(c, "apply")
  /\ LET id == imp[c].id
         chosen == IF lastSel = NoMap THEN Automatic ELSE lastSel
     IN /\ urls' = urls \cup {id} /\ current' = id
        /\ sel' = [sel EXCEPT ![id] = chosen]
        /\ want' = (IF lost THEN chosen ELSE want) /\ lost' = FALSE
  /\ crossed' = (crossed \/ start.step = "built")
  /\ UNCHANGED << importing, lastSel, file, running, imports, presses >>

\* applyProfile(silence: true), whose failure is only logged
Apply(c) ==
  /\ imp[c].step = "apply"
  /\ Becomes(c, NoImport) /\ importing' = FALSE
  /\ \/ applied' = current /\ crossed' = crossed
     \/ applied' = applied /\ crossed' = TRUE
  /\ UNCHANGED << profiles, start, stops, started, history, imports, presses >>

-----------------------------------------------------------------------------
(* The user: updateCurrentSelectedMap() and updateStatus() *)

Press == presses < MaxPresses /\ presses' = presses + 1

Select(n) ==
  /\ Press /\ current # Null
  /\ sel' = [sel EXCEPT ![current] = n]
  /\ want' = IF current \in urls THEN n ELSE want
  /\ UNCHANGED << imp, importing, lastSel, urls, file, current, running, lost, crossed, imports >>

Start ==
  /\ Press /\ start.step = "none" /\ current # Null
  /\ start' = [step |-> "check", of |-> current]
  /\ UNCHANGED << imp, importing, profiles, stops, started, applied, history, crossed, imports >>

\* the setup is built from the profile that is current by then
SetupOfAsked == start.of                       \* mutant: of the press
SetupOf == current

\* checkAndUpdate() of the profile of the press; without a profile, or when
\* something fails, the start is given up
StartBuild ==
  /\ start.step = "check"
  /\ \/ start' = NoStart
     \/ current # Null /\ start' = [step |-> "built", of |-> SetupOf]
  /\ UNCHANGED << imp, importing, profiles, stops, started, applied, history, crossed, imports, presses >>

StartSetup ==
  /\ start.step = "built"
  /\ \/ start' = [start EXCEPT !.step = "tail"] /\ applied' = start.of /\ crossed' = crossed
     \/ start' = NoStart /\ applied' = applied /\ crossed' = TRUE
  /\ UNCHANGED << imp, importing, profiles, stops, started, history, imports, presses >>

StartListen ==
  /\ start.step = "tail" /\ start' = NoStart /\ started' = TRUE
  /\ UNCHANGED << imp, importing, profiles, stops, applied, history, crossed, imports, presses >>

Stop ==
  /\ Press /\ stops' = stops + 1
  /\ UNCHANGED << imp, importing, profiles, start, started, applied, history, crossed, imports >>

StopListen ==
  /\ stops > 0 /\ stops' = stops - 1 /\ started' = FALSE
  /\ UNCHANGED << imp, importing, profiles, start, applied, history, crossed, imports, presses >>

-----------------------------------------------------------------------------
\* a step that is not left to a server
Progress(c) ==
  \/ Direct(c) \/ Upgrade(c) \/ Validate(c) \/ Add(c) \/ Apply(c)
  \/ \E p \in Proxies : ProxyAnswers(c, p)

Next ==
  \/ \E c \in Callers : \/ Begin(c) \/ Stall(c) \/ Progress(c)
                        \/ \E p \in Proxies : ProxyStalls(c, p)
  \/ \E n \in Nodes : Select(n)
  \/ Start \/ StartBuild \/ StartSetup \/ StartListen \/ Stop \/ StopListen

Spec == Init /\ [][Next]_vars /\ \A c \in Callers : WF_vars(Progress(c))

-----------------------------------------------------------------------------
(* Properties *)

Quiet == ~importing /\ start.step = "none" /\ stops = 0

\* However many callers import at once, there is never more than one
\* subscription, and it is the current profile, once an import added one.
OneSubscription == imports > 0 /\ urls # {} => urls = {current}

\* An import keeps the choice the user made in the subscription that was
\* current, unless an import failed in between.
SelectionKept == current \in urls /\ ~lost => sel[current] = want

\* A proxy that runs, serves the current subscription, and never without a
\* profile: the stop that nobody awaits arrives.  Unless a setup failed, or the
\* current profile changed after a start had built its setup.
ServesCurrent ==
  Quiet /\ started /\ ~crossed =>
    current # Null /\ (current \in urls => applied = current)

\* An import ends, unless a body is never finished where it waits for it alone:
\* in the direct download, or in every proxy download that did not fail.
Stuck(c) ==
  \/ "self" \in imp[c].stalled
  \/ /\ imp[c].step = "proxies" /\ imp[c].pending # {}
     /\ imp[c].pending \subseteq imp[c].stalled
ImportEnds == \A c \in Callers : imp[c].step # "none" ~> (imp[c].step = "none" \/ Stuck(c))
=============================================================================
