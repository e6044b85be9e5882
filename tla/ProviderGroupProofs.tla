------------------------- MODULE ProviderGroupProofs -------------------------
(***************************************************************************)
(* Proofs about ProviderGroup, for any nodes, lists and connections and    *)
(* any number of installed lists: a connection never chooses from an old   *)
(* list, and a shared decision never outlives its selection.               *)
(***************************************************************************)
EXTENDS ProviderGroup, TLAPS

ListOrNone == Lists \cup {{}}

\* Where setProxies() is, between its list and its version.
Installing ==
  /\ step \in {"store", "bump"} => installs = version + 1
  /\ step \in {"idle", "health"} => installs = version
  /\ step # "bump" => published = proxies
  /\ step = "bump" => proxies = new

\* The group's cache is never of a version to come, and what it holds for the
\* version of now is the list of that version or already the next.
CacheFits ==
  /\ cachedVersion # Nil => cachedVersion <= version
  /\ cachedVersion = version => cached \in {proxies, published}

\* A connection that has read the version has seen all that it may choose from.
Seen ==
  \A c \in Conns : at[c] = "got" =>
    /\ got[c] <= version
    /\ proxies \in seen[c]
    /\ got[c] = cachedVersion => cached \in seen[c]

\* Only a url-test group shares decisions.
SelectorAlone ==
  kind = "select" => call = Nil /\ result = Nil

\* Who decides for the others has decided with the selection of now, unless
\* the selection is changing, which ends with a Reset().
CallIsCurrent ==
  ~setting => \A c \in Conns : call = c /\ at[c] = "decided" => with[c] = selected

GroupInv == TypeOK /\ Installing /\ CacheFits /\ Seen

DecisionInv == TypeOK /\ SelectorAlone /\ CallIsCurrent /\ SharedDecisionIsCurrent

LEMMA InitInv == Init => GroupInv /\ DecisionInv
<1> SUFFICES ASSUME Init PROVE GroupInv /\ DecisionInv
  OBVIOUS
<1> USE ProviderGroupAssumption DEF ProviderGroupAssumption, Init
<1>1. TypeOK
  <2>1. seen \in [Conns -> SUBSET (Lists \cup {{}})]
    OBVIOUS
  <2>2. 0 \in 0 .. MaxInstalls /\ 0 \in 0 .. MaxChoices
    OBVIOUS
  <2>3. {new, proxies, published, checked, checking, cached} \subseteq Lists \cup {{}}
    OBVIOUS
  <2> QED  BY <2>1, <2>2, <2>3 DEF TypeOK, Named
<1>2. Installing /\ CacheFits /\ Seen
  BY DEF Installing, CacheFits, Seen
<1>3. SelectorAlone /\ CallIsCurrent /\ SharedDecisionIsCurrent
  BY DEF SelectorAlone, CallIsCurrent, SharedDecisionIsCurrent
<1> QED  BY <1>1, <1>2, <1>3 DEF GroupInv, DecisionInv

LEMMA NextCases ==
  ASSUME Next
  PROVE  \/ \E l \in Lists : Install(l)
         \/ StoreList \/ StoreVersion \/ TestNew \/ Tick \/ EndCheck
         \/ \E c \in Conns : Join(c) \/ ReadVersion(c) \/ Decide(c) \/ Return(c)
         \/ ResultExpires \/ Probe \/ DialFails \/ PatchSelectGroup \/ Reset
         \/ \E n \in Named : ChangeProxy(n)
BY DEF Next

LEMMA Listed ==
  ASSUME TypeOK, NEW v
  PROVE  List(v) \in Lists \cup {{}}
BY DEF List, TypeOK

\* Whatever is chosen from a list is a node, or none.
LEMMA Chosen ==
  ASSUME TypeOK, NEW l \in Lists \cup {{}}
  PROVE  Choices(l) \subseteq Named
BY ProviderGroupAssumption DEF ProviderGroupAssumption, Choices, Named

\* The cache keeps its types and fills only from the provider or itself.
LEMMA Caching ==
  ASSUME TypeOK, NEW v \in 0 .. MaxInstalls, Cache(v)
  PROVE  /\ cachedVersion' \in 0 .. MaxInstalls \cup {Nil} /\ cached' \in Lists \cup {{}}
         /\ \/ UNCHANGED cache
            \/ cachedVersion' = v /\ cached' = proxies /\ v # cachedVersion
BY DEF Cache, List, TypeOK, cache

LEMMA Types ==
  ASSUME GroupInv, Next
  PROVE  TypeOK'
<1> USE DEF TypeOK, install, check, conn, cache, do, choice
<1>0. TypeOK /\ Installing
  BY DEF GroupInv
<1>1. ASSUME NEW l \in Lists, Install(l) PROVE TypeOK'
  BY <1>0, <1>1, ProviderGroupAssumption DEF Install, ProviderGroupAssumption
<1>2. CASE StoreList
  <2>1. seen' \in [Conns -> SUBSET (Lists \cup {{}})]
    BY <1>0, <1>2 DEF StoreList
  <2> QED  BY <1>0, <1>2, <2>1 DEF StoreList
<1>3. CASE StoreVersion
  <2>1. step \in {"store", "bump"}
    BY <1>3 DEF StoreVersion, Goes
  <2>2. version' \in 0 .. MaxInstalls
    BY <1>0, <1>3, <2>1, ProviderGroupAssumption DEF StoreVersion, Installing, ProviderGroupAssumption
  <2> QED  BY <1>0, <1>3, <2>2 DEF StoreVersion
<1>4. CASE TestNew
  BY <1>0, <1>4 DEF TestNew, Check
<1>5. CASE Tick \/ EndCheck
  BY <1>0, <1>5 DEF Tick, EndCheck
<1>6. CASE Probe \/ DialFails
  <2>1. CASE Probe
    BY <1>0, <2>1 DEF Probe
  <2>2. CASE DialFails
    <3>1. checking' \in Lists \cup {{}}
      BY <1>0, <2>2 DEF DialFails, Check
    <3> QED  BY <1>0, <2>2, <3>1 DEF DialFails, Named
  <2> QED  BY <1>6, <2>1, <2>2
<1>7. ASSUME NEW c \in Conns, Join(c) PROVE TypeOK'
  BY <1>0, <1>7 DEF Join, Goto
<1>8. ASSUME NEW c \in Conns, ReadVersion(c) PROVE TypeOK'
  BY <1>0, <1>8 DEF ReadVersion, Goto
<1>9. ASSUME NEW c \in Conns, Decide(c) PROVE TypeOK'
  <2>1. List(got[c]) \in Lists \cup {{}}
    BY <1>0, Listed
  <2>2. PICK n \in Choices(List(got[c])) : pick' = [pick EXCEPT ![c] = n]
    BY <1>9 DEF Decide
  <2>3. n \in Named
    BY <1>0, <2>1, <2>2, Chosen
  <2>4. Cache(got[c]) /\ got[c] \in 0 .. MaxInstalls
    BY <1>0, <1>9 DEF Decide
  <2>5. cachedVersion' \in 0 .. MaxInstalls \cup {Nil} /\ cached' \in Lists \cup {{}}
    BY <1>0, <2>4, Caching
  <2>6. /\ at' \in [Conns -> {"new", "got", "decided", "joined"}]
        /\ pick' \in [Conns -> Named] /\ with' \in [Conns -> Named]
    BY <1>0, <1>9, <2>2, <2>3 DEF Decide, Goto
  <2>7. seen' \in [Conns -> SUBSET (Lists \cup {{}})] /\ got' \in [Conns -> 0 .. MaxInstalls]
    BY <1>0, <1>9, ProviderGroupAssumption DEF Decide, ProviderGroupAssumption
  <2> QED  BY <1>0, <1>9, <2>5, <2>6, <2>7 DEF Decide
<1>10. ASSUME NEW c \in Conns, Return(c) PROVE TypeOK'
  BY <1>0, <1>10 DEF Return, MyCall, Named
<1>11. CASE ResultExpires \/ Reset
  BY <1>0, <1>11 DEF ResultExpires, Reset, Named
<1>12. CASE PatchSelectGroup
  BY <1>0, <1>12, ProviderGroupAssumption DEF PatchSelectGroup, Forced, Named, ProviderGroupAssumption
<1>13. ASSUME NEW n \in Named, ChangeProxy(n) PROVE TypeOK'
  <2>1. cachedVersion' \in 0 .. MaxInstalls \cup {Nil} /\ cached' \in Lists \cup {{}}
    BY <1>0, <1>13, Caching DEF ChangeProxy
  <2>2. choices' \in 0 .. MaxChoices
    BY <1>0, <1>13, ProviderGroupAssumption DEF ChangeProxy, ProviderGroupAssumption
  <2>3. setting' \in BOOLEAN
    BY <1>0, <1>13 DEF ChangeProxy
  <2>4. selected' \in Named /\ wanted' \in Named
    BY <1>0, <1>13 DEF ChangeProxy
  <2> QED  BY <1>0, <1>13, <2>1, <2>2, <2>3, <2>4 DEF ChangeProxy
<1> QED  BY NextCases, <1>1, <1>2, <1>3, <1>4, <1>5, <1>6, <1>7, <1>8, <1>9, <1>10, <1>11, <1>12, <1>13

-----------------------------------------------------------------------------
(* The list a connection chooses from *)

\* The list and the version move one after the other.
LEMMA Installs ==
  ASSUME TypeOK, Installing, Next
  PROVE  /\ Installing' /\ version <= version'
         /\ proxies' # proxies => StoreList
         /\ version' # version => StoreVersion
<1> USE DEF TypeOK, install, check, conn, cache, do, choice, Installing
<1>1. ASSUME NEW l \in Lists, Install(l) PROVE Installing' /\ UNCHANGED << proxies, version >>
  BY <1>1 DEF Install
<1>2. CASE StoreList
  BY <1>2 DEF StoreList, Goes, ListFirst
<1>3. CASE StoreVersion
  BY <1>3 DEF StoreVersion, Goes, ListFirst
<1>4. CASE TestNew
  BY <1>4 DEF TestNew
<1>5. CASE UNCHANGED install
  BY <1>5
<1>6. ASSUME NEW c \in Conns, Join(c) \/ ReadVersion(c) \/ Decide(c) \/ Return(c)
      PROVE  UNCHANGED install
  BY <1>6 DEF Join, ReadVersion, Decide, Return
<1>7. ASSUME NEW n \in Named, ChangeProxy(n) PROVE UNCHANGED install
  BY <1>7 DEF ChangeProxy
<1>8. CASE Tick \/ EndCheck \/ ResultExpires \/ Probe \/ DialFails \/ PatchSelectGroup \/ Reset
  BY <1>5, <1>8 DEF Tick, EndCheck, ResultExpires, Probe, DialFails, PatchSelectGroup, Reset
<1> QED  BY NextCases, <1>1, <1>2, <1>3, <1>4, <1>5, <1>6, <1>7, <1>8

LEMMA Reads ==
  ASSUME GroupInv, Next
  PROVE  CacheFits' /\ Seen'
<1> USE ProviderGroupAssumption
    DEF ProviderGroupAssumption, install, check, conn, cache, do, choice
<1>0. TypeOK /\ Installing /\ CacheFits /\ Seen
  BY DEF GroupInv
<1>1. ASSUME UNCHANGED << proxies, version, published, cache >>,
             \A c \in Conns : at'[c] = "got" => at[c] = "got" /\ got'[c] = got[c] /\ seen'[c] = seen[c]
      PROVE  CacheFits' /\ Seen'
  BY <1>0, <1>1 DEF CacheFits, Seen
<1>2. CASE StoreList
  <2>1. /\ step = "store" /\ proxies' = new /\ published = proxies
        /\ UNCHANGED << version, published, cache, at, got >>
    BY <1>0, <1>2 DEF StoreList, Goes, ListFirst, Installing
  <2>2. \A c \in Conns : at'[c] = "got" => seen'[c] = seen[c] \cup {new}
    BY <1>0, <1>2 DEF StoreList
  <2>3. CacheFits'
    BY <1>0, <2>1 DEF CacheFits
  <2>4. Seen'
    BY <1>0, <2>1, <2>2 DEF Seen
  <2> QED  BY <2>3, <2>4
<1>3. CASE StoreVersion
  <2>1. /\ version' = version + 1 /\ UNCHANGED << proxies, cache, at, got, seen >>
    BY <1>0, <1>3 DEF StoreVersion, Goes, ListFirst
  <2>2. cachedVersion # version'
    BY <1>0, <2>1 DEF CacheFits, TypeOK
  <2>3. CacheFits'
    BY <1>0, <2>1, <2>2 DEF CacheFits, TypeOK
  <2>4. Seen'
    BY <1>0, <2>1 DEF Seen, TypeOK
  <2> QED  BY <2>3, <2>4
<1>4. ASSUME NEW c \in Conns, ReadVersion(c) PROVE CacheFits' /\ Seen'
  <2>1. /\ got' = [got EXCEPT ![c] = version] /\ seen' = [seen EXCEPT ![c] = {proxies, published}]
        /\ at' = [at EXCEPT ![c] = "got"]
        /\ UNCHANGED << proxies, version, published, cache >>
    BY <1>4 DEF ReadVersion, Goto
  <2>2. CacheFits'
    BY <1>0, <2>1 DEF CacheFits
  <2>3. ASSUME NEW d \in Conns, at'[d] = "got"
        PROVE  /\ got'[d] <= version'
               /\ proxies' \in seen'[d]
               /\ got'[d] = cachedVersion' => cached' \in seen'[d]
    <3>1. CASE d = c
      BY <1>0, <2>1, <3>1 DEF CacheFits, TypeOK
    <3>2. CASE d # c
      BY <1>0, <2>1, <2>3, <3>2 DEF Seen, TypeOK
    <3> QED  BY <3>1, <3>2
  <2> QED  BY <2>2, <2>3 DEF Seen
<1>5. ASSUME NEW v \in 0 .. MaxInstalls, v <= version, Cache(v),
             UNCHANGED << proxies, version, published >>,
             \A c \in Conns : at'[c] = "got" => at[c] = "got" /\ got'[c] = got[c] /\ seen'[c] = seen[c]
      PROVE  CacheFits' /\ Seen'
  <2>1. CASE UNCHANGED cache
    BY <1>1, <1>5, <2>1
  <2>2. CASE cachedVersion' = v /\ cached' = proxies
    BY <1>0, <1>5, <2>2 DEF CacheFits, Seen
  <2> QED  BY <1>0, <1>5, <2>1, <2>2, Caching
<1>6. ASSUME NEW c \in Conns, Decide(c) PROVE CacheFits' /\ Seen'
  <2>1. Cache(got[c]) /\ got[c] \in 0 .. MaxInstalls /\ got[c] <= version
    BY <1>0, <1>6 DEF Decide, Seen, TypeOK
  <2>2. UNCHANGED << proxies, version, published >>
    BY <1>6 DEF Decide
  <2>3. \A d \in Conns : at'[d] = "got" => d # c /\ at[d] = "got"
    BY <1>0, <1>6 DEF Decide, Goto, TypeOK
  <2>4. \A d \in Conns : d # c => got'[d] = got[d] /\ seen'[d] = seen[d]
    BY <1>0, <1>6 DEF Decide, TypeOK
  <2> QED  BY <1>5, <2>1, <2>2, <2>3, <2>4
<1>7. ASSUME NEW c \in Conns, Join(c) \/ Return(c) PROVE CacheFits' /\ Seen'
  BY <1>0, <1>1, <1>7 DEF Join, Return, Goto, TypeOK
<1>8. ASSUME NEW n \in Named, ChangeProxy(n) PROVE CacheFits' /\ Seen'
  BY <1>0, <1>1, <1>5, <1>8 DEF ChangeProxy, TypeOK
<1>9. CASE TestNew \/ Tick \/ EndCheck \/ ResultExpires \/ Probe \/ DialFails \/ PatchSelectGroup \/ Reset
  BY <1>1, <1>9 DEF TestNew, Tick, EndCheck, ResultExpires, Probe, DialFails, PatchSelectGroup, Reset
<1>10. ASSUME NEW l \in Lists, Install(l) PROVE CacheFits' /\ Seen'
  BY <1>1, <1>10 DEF Install
<1> QED  BY NextCases, <1>2, <1>3, <1>4, <1>6, <1>7, <1>8, <1>9, <1>10

LEMMA Inductive == Spec => []GroupInv
<1>1. GroupInv /\ Next => GroupInv'
  BY Types, Installs, Reads DEF GroupInv
<1>2. GroupInv /\ UNCHANGED vars => GroupInv'
  BY DEF GroupInv, vars, TypeOK, Installing, CacheFits, Seen, install, check, conn, cache, do, choice
<1> QED  BY InitInv, <1>1, <1>2, PTL DEF Spec

\* The group keeps its types: what is cached or chosen is of an installed list.
THEOREM GroupTyping == Spec => []TypeOK
<1>1. GroupInv => TypeOK
  BY DEF GroupInv
<1> QED  BY Inductive, <1>1, PTL

\* A connection chooses from a list that was the provider's while it read: the
\* two unlocked stores of setProxies() and the cache keyed by version never
\* show it an older one, however many lists are installed meanwhile.
THEOREM ReadsAreCurrent == Spec => ReadIsCurrent
<1>1. GroupInv => \A c \in Conns : Decide(c) => List(got[c]) \in seen[c]
  BY DEF GroupInv, Seen, Decide, List
<1>2. GroupInv /\ [Next]_vars => [\A c \in Conns : Decide(c) => List(got[c]) \in seen[c]]_vars
  BY <1>1
<1> QED  BY Inductive, <1>2, PTL DEF Spec, ReadIsCurrent

-----------------------------------------------------------------------------
(* The decision a url-test group shares *)

Shared == SelectorAlone /\ CallIsCurrent /\ SharedDecisionIsCurrent

LEMMA Decisions ==
  ASSUME DecisionInv, Next
  PROVE  Shared'
<1> USE ProviderGroupAssumption
    DEF ProviderGroupAssumption, install, check, conn, cache, do, choice
<1>0. TypeOK /\ SelectorAlone /\ CallIsCurrent /\ SharedDecisionIsCurrent
  BY DEF DecisionInv
<1>1. ASSUME UNCHANGED << kind, do, selected, setting, with >>,
             \A c \in Conns : at'[c] = "decided" => at[c] = "decided"
      PROVE  Shared'
  BY <1>0, <1>1 DEF Shared, SelectorAlone, CallIsCurrent, SharedDecisionIsCurrent
<1>2. ASSUME NEW c \in Conns, Join(c) PROVE Shared'
  BY <1>0, <1>1, <1>2 DEF Join, Goto, TypeOK
<1>3. ASSUME NEW c \in Conns, ReadVersion(c) PROVE Shared'
  <2>1. /\ at' = [at EXCEPT ![c] = "got"] /\ call' = (IF kind = "urltest" THEN c ELSE Nil)
        /\ result = Nil /\ UNCHANGED << kind, result, decidedWith, selected, setting, with >>
    BY <1>3 DEF ReadVersion, Goto
  <2> QED  BY <1>0, <2>1 DEF Shared, SelectorAlone, CallIsCurrent, SharedDecisionIsCurrent, TypeOK
<1>4. ASSUME NEW c \in Conns, Decide(c) PROVE Shared'
  <2>1. UNCHANGED << kind, do, selected, setting >>
    BY <1>4 DEF Decide
  <2>2. at' = [at EXCEPT ![c] = "decided"] /\ with' = [with EXCEPT ![c] = selected]
    BY <1>4 DEF Decide, Goto
  <2> QED  BY <1>0, <2>1, <2>2 DEF Shared, SelectorAlone, CallIsCurrent, SharedDecisionIsCurrent, TypeOK
<1>5. ASSUME NEW c \in Conns, Return(c) PROVE Shared'
  <2>1. at[c] = "decided" /\ UNCHANGED << kind, selected, setting >>
    BY <1>5 DEF Return
  <2>2. \A d \in Conns : at'[d] = "decided" => d # c /\ at[d] = "decided" /\ with'[d] = with[d]
    BY <1>0, <1>5 DEF Return, TypeOK
  <2>3. CASE call = c
    <3>1. call' = Nil /\ decidedWith' = with[c] /\ kind # "select"
      BY <1>0, <1>5, <2>3 DEF Return, MyCall, SelectorAlone
    <3> QED  BY <1>0, <2>1, <2>2, <2>3, <3>1
             DEF Shared, SelectorAlone, CallIsCurrent, SharedDecisionIsCurrent
  <2>4. CASE call # c
    <3>1. UNCHANGED do
      BY <1>5, <2>4 DEF Return, MyCall
    <3> QED  BY <1>0, <2>1, <2>2, <3>1
             DEF Shared, SelectorAlone, CallIsCurrent, SharedDecisionIsCurrent
  <2> QED  BY <2>3, <2>4
<1>6. CASE ResultExpires \/ DialFails \/ Reset
  BY <1>0, <1>6 DEF ResultExpires, DialFails, Reset, Shared, SelectorAlone, CallIsCurrent, SharedDecisionIsCurrent
<1>7. ASSUME UNCHANGED << kind, at, with, do >>, setting' = (kind = "urltest")
       PROVE  Shared'
  <2>1. CASE kind = "select"
    <3>1. call' = Nil /\ result' = Nil
      BY <1>0, <1>7, <2>1 DEF SelectorAlone
    <3> QED  BY <3>1 DEF Shared, SelectorAlone, CallIsCurrent, SharedDecisionIsCurrent
  <2>2. CASE kind # "select"
    <3>1. setting' /\ kind' # "select"
      BY <1>0, <1>7, <2>2 DEF TypeOK
    <3> QED  BY <3>1 DEF Shared, SelectorAlone, CallIsCurrent, SharedDecisionIsCurrent
  <2> QED  BY <2>1, <2>2
<1>8. CASE PatchSelectGroup
  BY <1>8, <1>7 DEF PatchSelectGroup
<1>9. ASSUME NEW n \in Named, ChangeProxy(n) PROVE Shared'
  <2>1. UNCHANGED << kind, at, with, do >>
    BY <1>9 DEF ChangeProxy
  <2>2. \/ UNCHANGED << selected, setting >>
        \/ setting' = (kind = "urltest")
    BY <1>9 DEF ChangeProxy
  <2>3. CASE UNCHANGED << selected, setting >>
    BY <1>1, <2>1, <2>3
  <2>4. CASE setting' = (kind = "urltest")
    BY <1>7, <2>1, <2>4
  <2> QED  BY <2>2, <2>3, <2>4
<1>10. CASE StoreList \/ StoreVersion \/ TestNew \/ Tick \/ EndCheck \/ Probe
  BY <1>1, <1>10 DEF StoreList, StoreVersion, TestNew, Tick, EndCheck, Probe
<1>11. ASSUME NEW l \in Lists, Install(l) PROVE Shared'
  BY <1>1, <1>11 DEF Install
<1> QED  BY NextCases, <1>2, <1>3, <1>4, <1>5, <1>6, <1>8, <1>9, <1>10, <1>11

\* A decision that a url-test group shares was made with the selection of now,
\* outside of ForceSet() itself: Reset() also disowns a decision under way.
THEOREM SharedDecisionsAreCurrent == Spec => []SharedDecisionIsCurrent
<1>1. GroupInv /\ DecisionInv /\ Next => DecisionInv'
  BY Types, Decisions DEF DecisionInv, Shared
<1>2. DecisionInv /\ UNCHANGED vars => DecisionInv'
  BY DEF DecisionInv, vars, TypeOK, SelectorAlone, CallIsCurrent, SharedDecisionIsCurrent,
         install, check, conn, cache, do, choice
<1>3. DecisionInv => SharedDecisionIsCurrent
  BY DEF DecisionInv
<1> QED  BY InitInv, Inductive, <1>1, <1>2, <1>3, PTL DEF Spec
=============================================================================
