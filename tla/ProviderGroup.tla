--------------------------- MODULE ProviderGroup ---------------------------
(***************************************************************************)
(* What becomes of the lists a provider installs (see ProviderFetch): the  *)
(* group that takes its nodes from the provider caches them by version, a  *)
(* url-test group also shares its decision for a while, and the provider   *)
(* tests them.  None of this is under the lock that setupConfig() and      *)
(* handleChangeProxy() hold, under which the selection is set.             *)
(***************************************************************************)
EXTENDS Naturals, FiniteSets

CONSTANTS
  Nodes, Lists,   \* nodes; the lists that may be installed, sets of nodes
  Saved,          \* the node the saved selection names
  Conns,          \* connections through the group, again and again
  HasInterval,    \* the health check has an interval
  Nil,
  MaxInstalls, MaxChoices

ASSUME ProviderGroupAssumption ==
  /\ Lists \subseteq SUBSET Nodes /\ {} \notin Lists
  /\ Saved \in Nodes /\ Nil \notin Nodes \cup Conns /\ Nil \notin Nat
  /\ HasInterval \in BOOLEAN /\ MaxInstalls \in Nat /\ MaxChoices \in Nat

VARIABLES
  kind,                    \* "select" or "urltest"
  installs, step, new,     \* setProxies(): count, step, its list
  proxies, version,        \* of the provider
  published,               \* history: the list the version stands for
  checked, checking,       \* health check: its list, and the one in test
  tested,                  \* history: the provider's list was tested
  alive,                   \* the selected node passes for alive
  at, got, seen, pick, with, on, \* per connection: step, version read, history
                           \* (lists since), its node, with which selection, call joined
  cachedVersion, cached,   \* the group's list
  call, result, decidedWith, \* singledo: who decides, the result, its selection
  selected, setting,       \* the group's selection, Reset() still to come
  setup, choices,          \* patchSelectGroup() is done; handleChangeProxy() calls
  wanted                   \* history: what the app asked for

install == << installs, step, new, proxies, version, published >>
check   == << checked, checking, tested >>
conn    == << at, got, pick, with, on >>
cache   == << cachedVersion, cached >>
do      == << call, result, decidedWith >>
choice  == << selected, setting, setup, choices, wanted >>
vars    == << kind, install, alive, check, conn, seen, cache, do, choice >>

Named == Nodes \cup {Nil}

TypeOK ==
  /\ kind \in {"select", "urltest"} /\ alive \in BOOLEAN
  /\ installs \in 0 .. MaxInstalls /\ step \in {"idle", "store", "bump", "health"}
  /\ {new, proxies, published, checked, checking, cached} \subseteq Lists \cup {{}}
  /\ version \in 0 .. MaxInstalls /\ cachedVersion \in 0 .. MaxInstalls \cup {Nil}
  /\ tested \in BOOLEAN /\ setting \in BOOLEAN /\ setup \in BOOLEAN /\ choices \in 0 .. MaxChoices
  /\ at \in [Conns -> {"new", "got", "decided", "joined"}]
  /\ got \in [Conns -> 0 .. MaxInstalls] /\ seen \in [Conns -> SUBSET (Lists \cup {{}})]
  /\ pick \in [Conns -> Named] /\ with \in [Conns -> Named] /\ on \in [Conns -> Conns \cup {Nil}]
  /\ call \in Conns \cup {Nil}
  /\ {result, decidedWith, selected, wanted} \subseteq Named

Init ==
  /\ kind \in {"select", "urltest"} /\ alive = TRUE
  /\ installs = 0 /\ step = "idle" /\ new = {} /\ proxies = {} /\ version = 0 /\ published = {}
  /\ checked = {} /\ checking = {} /\ tested = FALSE
  /\ at = [c \in Conns |-> "new"] /\ got = [c \in Conns |-> 0] /\ seen = [c \in Conns |-> {}]
  /\ pick = [c \in Conns |-> Nil] /\ with = [c \in Conns |-> Nil] /\ on = [c \in Conns |-> Nil]
  /\ cachedVersion = Nil /\ cached = {} /\ call = Nil /\ result = Nil /\ decidedWith = Nil
  /\ selected = Nil /\ setting = FALSE /\ setup = FALSE /\ choices = 0
  /\ wanted = Nil

-----------------------------------------------------------------------------
(* setProxies(), under the fetcher's mutex: two plain stores, taken in      *)
(* program order as amd64 shows them, then the health check                 *)

Install(l) ==
  /\ step = "idle" /\ installs < MaxInstalls
  /\ l # proxies
  /\ installs' = installs + 1 /\ new' = l /\ step' = "store"
  /\ UNCHANGED << kind, proxies, version, published, alive, check, conn, seen, cache, do, choice >>

\* which of the two stores comes first
VersionFirst == FALSE                     \* mutant: the version comes first
ListFirst == TRUE
Goes(first) == step = IF first THEN "store" ELSE "bump"

StoreList ==
  /\ Goes(ListFirst)
  /\ proxies' = new /\ tested' = FALSE
  /\ seen' = [c \in Conns |-> IF at[c] = "got" THEN seen[c] \cup {new} ELSE seen[c]]
  /\ step' = IF ListFirst THEN "bump" ELSE "health"
  /\ UNCHANGED << kind, alive, installs, new, version, published, checked, checking, conn, cache, do, choice >>

StoreVersion ==
  /\ Goes(~ListFirst)
  /\ version' = version + 1 /\ published' = new
  /\ step' = IF ListFirst THEN "health" ELSE "bump"
  /\ UNCHANGED << kind, installs, new, proxies, alive, check, conn, seen, cache, do, choice >>

\* check(): one made while one runs, or within a second of its end, has that
\* one's result
Check(l) == checking' \in {checking} \cup IF checking = {} THEN {l} ELSE {}

\* healthCheck.setProxies() and, with an interval, go check()
TestNew ==
  /\ step = "health" /\ step' = "idle"
  /\ checked' = new
  /\ IF HasInterval THEN Check(new) ELSE UNCHANGED checking
  /\ UNCHANGED << kind, installs, new, proxies, version, published, alive >>
  /\ UNCHANGED << tested, conn, seen, cache, do, choice >>

\* the ticker of process(), with an interval only; a lazy provider skips it while
\* nobody uses it
TestedOnce == FALSE                       \* mutant: no ticker
Ticks == TRUE

Tick ==
  /\ Ticks /\ HasInterval /\ checking = {} /\ checked # {} /\ checking' = checked
  /\ UNCHANGED << kind, install, alive, checked, tested, conn, seen, cache, do, choice >>

EndCheck ==
  /\ checking # {} /\ checking' = {}
  /\ tested' = (tested \/ checking = proxies)
  /\ UNCHANGED << kind, install, alive, checked, conn, seen, cache, do, choice >>

\* a test, of a check() or of the app's, may find the selected node dead or alive
\* at any time, and so may the node of a new list or selection be; only a url-test
\* group asks for it
Probe ==
  /\ kind = "urltest" /\ alive' = ~alive
  /\ UNCHANGED << kind, install, check, conn, seen, cache, do, choice >>

-----------------------------------------------------------------------------
(* A connection: URLTest.fast() or Selector.selectedProxy(), over           *)
(* GetProxies()                                                             *)

Goto(c, l) == at' = [at EXCEPT ![c] = l]

\* fastSingle.Do(): a result not 10 s old is used as it is; else someone may be
\* deciding already
Join(c) ==
  /\ at[c] = "new" /\ result = Nil /\ call # Nil
  /\ on' = [on EXCEPT ![c] = call]
  /\ Goto(c, "joined")
  /\ UNCHANGED << kind, install, alive, check, got, pick, with, seen, cache, do, choice >>

\* ... or it decides itself, as every connection of a selector does
ReadVersion(c) ==
  /\ at[c] = "new" /\ result = Nil /\ call = Nil
  /\ call' = IF kind = "urltest" THEN c ELSE Nil
  /\ got' = [got EXCEPT ![c] = version]
  /\ seen' = [seen EXCEPT ![c] = {proxies, published}]
  /\ Goto(c, "got")
  /\ UNCHANGED << kind, install, alive, check, pick, with, on, cache, result, decidedWith, choice >>

List(v) == IF v = cachedVersion THEN cached ELSE proxies

\* an empty list is not cached
Cache(v) ==
  IF List(v) = {} THEN UNCHANGED cache ELSE cachedVersion' = v /\ cached' = List(v)

\* the selected node, unless a url-test group skips it as dead; else, by their
\* delays, the fastest or the one before: any
Choices(l) ==
  IF l = {} THEN {Nil} ELSE IF selected \in l /\ alive THEN {selected} ELSE l

Decide(c) ==
  /\ at[c] = "got"
  /\ Cache(got[c])
  /\ \E n \in Choices(List(got[c])) : pick' = [pick EXCEPT ![c] = n]
  /\ with' = [with EXCEPT ![c] = selected]
  /\ Goto(c, "decided")
  /\ seen' = [seen EXCEPT ![c] = {}] /\ got' = [got EXCEPT ![c] = 0]
  /\ UNCHANGED << kind, install, alive, check, on, do, choice >>

\* the node is used; Do() keeps it as the result unless it was Reset() meanwhile
AnyCall(c) == TRUE                        \* mutant: kept after a Reset() as well
MyCall(c) == call = c

Return(c) ==
  /\ at[c] = "decided"
  /\ IF MyCall(c) THEN call' = Nil /\ result' = pick[c] /\ decidedWith' = with[c]
                  ELSE UNCHANGED do
  /\ at' = [d \in Conns |-> IF d = c \/ (at[d] = "joined" /\ on[d] = c) THEN "new" ELSE at[d]]
  /\ on' = [d \in Conns |-> IF on[d] = c THEN Nil ELSE on[d]]
  /\ pick' = [pick EXCEPT ![c] = Nil] /\ with' = [with EXCEPT ![c] = Nil]
  /\ UNCHANGED << kind, install, alive, check, got, seen, cache, choice >>

ResultExpires ==
  /\ result # Nil /\ result' = Nil /\ decidedWith' = Nil
  /\ UNCHANGED << kind, install, alive, check, conn, seen, cache, call, choice >>

\* URLTest.healthCheck(), after dials that failed: Reset(), check(), Reset()
DialFails ==
  /\ kind = "urltest"
  /\ call' = Nil /\ result' = Nil /\ decidedWith' = Nil
  /\ Check(checked)
  /\ UNCHANGED << kind, install, alive, checked, tested, conn, seen, cache, choice >>

-----------------------------------------------------------------------------
(* The selection, under runLock *)

OnlyIfListed(n) == IF n \in List(version) THEN n ELSE selected \* mutant: Set()
Forced(n) == n

\* setupConfig(): patchSelectGroup() does not wait for the providers' lists
PatchSelectGroup ==
  /\ ~setup /\ setup' = TRUE
  /\ wanted' = Saved /\ selected' = Forced(Saved)
  /\ setting' = (kind = "urltest")
  /\ UNCHANGED << kind, install, alive, check, conn, seen, cache, do, choices >>

\* handleChangeProxy(): ForceSet() of no node, Set() of one that must be listed
ChangeProxy(n) ==
  /\ setup /\ ~setting /\ choices < MaxChoices /\ choices' = choices + 1
  /\ IF n = Nil THEN UNCHANGED cache ELSE Cache(version)
  /\ IF n = Nil \/ n \in List(version)
       THEN selected' = n /\ wanted' = n /\ setting' = (kind = "urltest")
       ELSE UNCHANGED << selected, wanted, setting >>
  /\ UNCHANGED << kind, install, alive, check, conn, seen, do, setup >>

\* URLTest.ForceSet() ends with fastSingle.Reset()
Reset ==
  /\ setting /\ setting' = FALSE
  /\ call' = Nil /\ result' = Nil /\ decidedWith' = Nil
  /\ UNCHANGED << kind, install, alive, check, conn, seen, cache, selected, setup, choices, wanted >>

Next ==
  \/ \E l \in Lists : Install(l)
  \/ StoreList \/ StoreVersion \/ TestNew
  \/ Tick \/ EndCheck
  \/ \E c \in Conns : Join(c) \/ ReadVersion(c) \/ Decide(c) \/ Return(c)
  \/ ResultExpires \/ Probe \/ DialFails
  \/ PatchSelectGroup \/ Reset \/ \E n \in Named : ChangeProxy(n)

\* goroutines and timers run; connections keep coming
Fairness ==
  /\ WF_vars(StoreList \/ StoreVersion \/ TestNew) /\ WF_vars(Tick \/ EndCheck)
  /\ \A c \in Conns : WF_vars(ReadVersion(c) \/ Decide(c) \/ Return(c))
  /\ WF_vars(ResultExpires)
  /\ WF_vars(PatchSelectGroup \/ Reset)

Spec == Init /\ [][Next]_vars /\ Fairness

-----------------------------------------------------------------------------
(* Properties *)

\* The list a connection chooses from was the provider's at some moment between
\* the version read of GetProxies() and its return: the group's cache is never
\* behind, though versions are read before the mutex and lists stored after.
ReadIsCurrent ==
  [][\A c \in Conns : Decide(c) => List(got[c]) \in seen[c]]_vars

\* The decision that a url-test group shares was made with the selection of
\* now: one that was under way while the selection changed is not kept.
SharedDecisionIsCurrent == result # Nil /\ ~setting => decidedWith = selected

\* A node the app asked for, the saved one before the lists are there or one
\* the user picked, is in the end the only one that connections choose and
\* share if the list has it; in a url-test group, if the tests settle on it
\* being alive as well.
SelectionIsUsed ==
  <>[](wanted \in proxies /\ alive) =>
  <>[](/\ result \in {Nil, wanted}
       /\ \A c \in Conns : at[c] = "decided" => pick[c] = wanted)

\* A list in use is tested in the end, even if the test that its installation
\* asks for is swallowed by one that runs on the list before it, provided the
\* health check has an interval.
ListIsTested == []<>(HasInterval => proxies = {} \/ tested)
=============================================================================
