---------------------- MODULE SubscriptionImportProofs ----------------------
(***************************************************************************)
(* Proofs about SubscriptionImport, for any callers, proxies and nodes and *)
(* any number of imports: its types, that imports never leave two          *)
(* subscriptions behind, that they keep the choice of the user, and that a *)
(* proxy that runs serves the current subscription.                        *)
(*                                                                         *)
(* The guard _isImporting is set before the first await and reset in the   *)
(* finally: it is what keeps the subscriptions empty between the deletion  *)
(* and the addition of one import, though the code in between awaits a     *)
(* server.                                                                 *)
(***************************************************************************)
EXTENDS SubscriptionImport, TLAPS

\* An import has deleted the subscriptions and not added its own yet.
Early == {"direct", "proxies", "upgrade", "validate", "add"}

Exclusive ==
  /\ \A c \in Callers : imp[c].step # "none" => importing
  /\ \A c, d \in Callers : imp[c].step # "none" /\ imp[d].step # "none" => c = d

EmptyUntilAdded == \A c \in Callers : imp[c].step \in Early => urls = {}

\* An import under way has the identity of the subscription it will add.
HasId == \A c \in Callers : imp[c].step # "none" => imp[c].id \in Ids

ImportInv == TypeOK /\ Exclusive /\ EmptyUntilAdded /\ HasId /\ OneSubscription

LEMMA InitInv == Init => ImportInv
<1> SUFFICES ASSUME Init PROVE ImportInv
  OBVIOUS
<1> USE ImportAssumption DEF ImportAssumption, Init
<1>1. imports \in 0 .. MaxImports /\ presses \in 0 .. MaxPresses
  OBVIOUS
<1>2. NoImport \in Imports
  BY DEF NoImport, Imports, Steps
<1>3. imp \in [Callers -> Imports]
  BY <1>2
<1>4. sel \in [Ids \cup {File} -> Nodes \cup {Automatic}]
  OBVIOUS
<1>5. urls \subseteq Ids
  BY DEF Ids
<1>6. current \in Ids \cup {File, Null}
  BY <1>5
<1>7. start \in Starts
  BY DEF NoStart, Starts
<1>8. TypeOK
  BY <1>1, <1>3, <1>4, <1>5, <1>6, <1>7 DEF TypeOK
<1>9. Exclusive /\ EmptyUntilAdded /\ HasId /\ OneSubscription
  BY DEF Exclusive, EmptyUntilAdded, HasId, OneSubscription, NoImport, Early
<1> QED  BY <1>8, <1>9 DEF ImportInv

-----------------------------------------------------------------------------
(* What a step of an import does to its record *)

\* Going on to a step keeps the rest of the record.
LEMMA Going ==
  ASSUME TypeOK, NEW c \in Callers, NEW s \in Steps, Goto(c, s)
  PROVE  /\ imp' \in [Callers -> Imports] /\ imp'[c].step = s /\ imp'[c].id = imp[c].id
         /\ \A d \in Callers \ {c} : imp'[d] = imp[d]
<1> DEFINE i == [imp[c] EXCEPT !.step = s, !.stalled = {}]
<1>1. imp[c] \in Imports
  BY DEF TypeOK
<1>2. i \in Imports
  BY <1>1 DEF Imports
<1>3. i.step = s /\ i.id = imp[c].id
  BY <1>1 DEF Imports
<1>4. imp' = [imp EXCEPT ![c] = i]
  BY DEF Goto, Becomes
<1> HIDE DEF i
<1> QED  BY <1>2, <1>3, <1>4 DEF TypeOK

\* A failed import resets the guard.
LEMMA Failing ==
  ASSUME TypeOK, NEW c \in Callers, Fail(c)
  PROVE  /\ imp' \in [Callers -> Imports] /\ imp'[c].step = "none"
         /\ \A d \in Callers \ {c} : imp'[d] = imp[d]
         /\ importing' = FALSE /\ lost' = TRUE
         /\ UNCHANGED << profiles, running, want, crossed, imports, presses >>
<1>1. NoImport \in Imports /\ NoImport.step = "none"
  BY DEF NoImport, Imports, Steps
<1> QED  BY <1>1 DEF Fail, Becomes, TypeOK

\* An import under way goes on, before its subscription is added.
Waiting(c) ==
  /\ imp' \in [Callers -> Imports]
  /\ imp[c].step \in Early /\ imp'[c].step \in Early /\ imp'[c].id = imp[c].id
  /\ \A d \in Callers \ {c} : imp'[d] = imp[d]
  /\ Steady

\* An import fails.
Failed(c) == imp[c].step \in Early /\ Fail(c)

LEMMA DownloadSteps ==
  ASSUME ImportInv, NEW c \in Callers,
         \/ Stall(c) \/ Direct(c) \/ Upgrade(c) \/ Validate(c)
         \/ \E p \in Proxies : ProxyAnswers(c, p) \/ ProxyStalls(c, p)
  PROVE  Waiting(c) \/ Failed(c)
<1>0. TypeOK /\ imp[c] \in Imports
  BY DEF ImportInv, TypeOK
<1>1. ASSUME NEW i \in Imports, Becomes(c, i), Steady, i.step \in Early, i.id = imp[c].id, imp[c].step \in Early
      PROVE  Waiting(c)
  BY <1>0, <1>1 DEF Becomes, Waiting, TypeOK
<1>2. ASSUME NEW s \in Early, Goto(c, s), Steady, imp[c].step \in Early
      PROVE  Waiting(c)
  <2>1. s \in Steps
    BY <1>2 DEF Early, Steps
  <2> QED  BY <1>0, <1>2, <2>1, Going DEF Waiting
<1>3. CASE Stall(c)
  <2>1. [imp[c] EXCEPT !.stalled = {"self"}] \in Imports
    BY <1>0 DEF Imports
  <2>2. /\ [imp[c] EXCEPT !.stalled = {"self"}].step = imp[c].step
        /\ [imp[c] EXCEPT !.stalled = {"self"}].id = imp[c].id
    BY <1>0 DEF Imports
  <2> QED  BY <1>1, <1>3, <2>1, <2>2 DEF Stall, Early
<1>4. CASE Direct(c)
  <2>1. [imp[c] EXCEPT !.step = "proxies", !.pending = imp[c].pool] \in Imports
    BY <1>0 DEF Imports, Steps
  <2>2. /\ [imp[c] EXCEPT !.step = "proxies", !.pending = imp[c].pool].step = "proxies"
        /\ [imp[c] EXCEPT !.step = "proxies", !.pending = imp[c].pool].id = imp[c].id
    BY <1>0 DEF Imports
  <2> QED  BY <1>1, <1>2, <1>4, <2>1, <2>2 DEF Direct, Early, Failed
<1>5. CASE Upgrade(c)
  BY <1>2, <1>5 DEF Upgrade, Early
<1>6. CASE Validate(c)
  BY <1>2, <1>6 DEF Validate, Early, Failed
<1>7. ASSUME NEW p \in Proxies, ProxyStalls(c, p) PROVE Waiting(c)
  <2>1. [imp[c] EXCEPT !.stalled = @ \cup {p}] \in Imports
    BY <1>0, <1>7 DEF Imports
  <2>2. /\ [imp[c] EXCEPT !.stalled = @ \cup {p}].step = imp[c].step
        /\ [imp[c] EXCEPT !.stalled = @ \cup {p}].id = imp[c].id
    BY <1>0 DEF Imports
  <2> QED  BY <1>1, <1>7, <2>1, <2>2 DEF ProxyStalls, Early
<1>8. ASSUME NEW p \in Proxies, ProxyAnswers(c, p) PROVE Waiting(c) \/ Failed(c)
  <2> DEFINE n == imp[c].failed + 1
             next == [imp[c] EXCEPT !.pending = @ \ {p}, !.failed = n]
  <2>0. n \in Nat
    BY <1>0 DEF Imports
  <2>1. next \in Imports /\ next.step = imp[c].step /\ next.id = imp[c].id
    <3> HIDE DEF n
    <3> QED  BY <1>0, <2>0 DEF Imports
  <2>2. imp[c].step = "proxies"
    BY <1>8 DEF ProxyAnswers
  <2>3. \/ Goto(c, "upgrade") /\ Steady
        \/ Fail(c)
        \/ Steady /\ Becomes(c, next)
    BY <1>8 DEF ProxyAnswers
  <2> HIDE DEF next
  <2> QED  BY <1>1, <1>2, <2>1, <2>2, <2>3 DEF Early, Failed
<1> QED  BY <1>3, <1>4, <1>5, <1>6, <1>7, <1>8

-----------------------------------------------------------------------------
(* The invariant *)

LEMMA UserSteps ==
  ASSUME ImportInv,
         \/ \E n \in Nodes : Select(n)
         \/ Start \/ StartBuild \/ StartSetup \/ StartListen \/ Stop \/ StopListen
  PROVE  ImportInv'
<1> USE ImportAssumption DEF ImportAssumption, profiles, running, history
<1>0. TypeOK
  BY DEF ImportInv
<1>1. ASSUME UNCHANGED << imp, importing, urls, current, imports >>, TypeOK' PROVE ImportInv'
  BY <1>1 DEF ImportInv, Exclusive, EmptyUntilAdded, HasId, OneSubscription
<1>2. ASSUME NEW n \in Nodes, Select(n) PROVE ImportInv'
  <2>1. sel' \in [Ids \cup {File} -> Nodes \cup {Automatic}] /\ want' \in Nodes \cup {Automatic}
    BY <1>0, <1>2 DEF Select, TypeOK
  <2>2. presses' \in 0 .. MaxPresses
    BY <1>0, <1>2 DEF Select, Press, TypeOK
  <2> QED  BY <1>0, <1>1, <1>2, <2>1, <2>2 DEF Select, TypeOK
<1>3. CASE Start
  BY <1>0, <1>1, <1>3 DEF Start, Starts, Press, TypeOK
<1>4. CASE StartBuild
  BY <1>0, <1>1, <1>4 DEF StartBuild, SetupOf, NoStart, Starts, TypeOK
<1>5. CASE StartSetup
  <2>1. start' \in Starts
    BY <1>0, <1>5 DEF StartSetup, NoStart, Starts, TypeOK
  <2>2. applied' \in Ids \cup {File, Null} /\ crossed' \in BOOLEAN
    BY <1>0, <1>5 DEF StartSetup, Starts, TypeOK
  <2> QED  BY <1>0, <1>1, <1>5, <2>1, <2>2 DEF StartSetup, TypeOK
<1>6. CASE StartListen
  BY <1>0, <1>1, <1>6 DEF StartListen, NoStart, Starts, TypeOK
<1>7. CASE Stop
  BY <1>0, <1>1, <1>7 DEF Stop, Press, TypeOK
<1>8. CASE StopListen
  <2>1. stops' \in Nat
    BY <1>0, <1>8 DEF StopListen, TypeOK
  <2>2. TypeOK'
    BY <1>0, <1>8, <2>1 DEF StopListen, TypeOK
  <2> QED  BY <1>1, <1>8, <2>2 DEF StopListen
<1> QED  BY <1>2, <1>3, <1>4, <1>5, <1>6, <1>7, <1>8

LEMMA ImportSteps ==
  ASSUME ImportInv, NEW c \in Callers, Waiting(c) \/ Failed(c)
  PROVE  ImportInv'
<1> USE DEF profiles, running, history
<1>0. TypeOK /\ Exclusive /\ EmptyUntilAdded /\ HasId /\ OneSubscription
  BY DEF ImportInv
<1>1. CASE Waiting(c)
  <2>1. TypeOK'
    BY <1>0, <1>1 DEF Waiting, Steady, TypeOK
  <2>2. \A d \in Callers : imp'[d].step # "none" => imp[d].step # "none"
    BY <1>0, <1>1 DEF Waiting, Early
  <2>3. \A d \in Callers : imp'[d].step \in Early => imp[d].step \in Early
    BY <1>0, <1>1 DEF Waiting
  <2>4. UNCHANGED << importing, urls, current, imports >>
    BY <1>1 DEF Waiting, Steady
  <2>5. \A d \in Callers : imp'[d].id = imp[d].id
    BY <1>1 DEF Waiting
  <2> QED  BY <1>0, <2>1, <2>2, <2>3, <2>4, <2>5 DEF ImportInv, Exclusive, EmptyUntilAdded, HasId, OneSubscription
<1>2. CASE Failed(c)
  <2>1. /\ imp' \in [Callers -> Imports] /\ imp'[c].step = "none"
        /\ \A d \in Callers \ {c} : imp'[d] = imp[d]
        /\ importing' = FALSE /\ lost' = TRUE
        /\ UNCHANGED << profiles, running, want, crossed, imports, presses >>
    BY <1>0, <1>2, Failing DEF Failed
  <2>2. TypeOK'
    BY <1>0, <2>1 DEF TypeOK
  <2>3. \A d \in Callers : imp'[d].step = "none"
    BY <1>0, <1>2, <2>1 DEF Failed, Exclusive, Early
  <2> QED  BY <1>0, <2>1, <2>2, <2>3 DEF ImportInv, Exclusive, EmptyUntilAdded, HasId, OneSubscription, Early
<1> QED  BY <1>1, <1>2

LEMMA BeginStep ==
  ASSUME ImportInv, NEW c \in Callers, Begin(c)
  PROVE  ImportInv'
<1> USE ImportAssumption DEF ImportAssumption
<1>0. TypeOK /\ Exclusive /\ EmptyUntilAdded /\ HasId /\ OneSubscription
  BY DEF ImportInv
<1>1. PICK pool \in {{}, Proxies} :
        Becomes(c, [NoImport EXCEPT !.step = "direct", !.id = imports + 2, !.pool = pool])
  BY DEF Begin
<1> DEFINE i == [NoImport EXCEPT !.step = "direct", !.id = imports + 2, !.pool = pool]
<1>2. i \in Imports /\ i.id \in Ids
  <2>1. imports + 2 \in Ids
    BY <1>0 DEF Ids, TypeOK, Begin
  <2>2. NoImport \in Imports
    BY DEF NoImport, Imports, Steps
  <2> QED  BY <2>1, <2>2 DEF Imports, Steps
<1>3. /\ imp' \in [Callers -> Imports] /\ imp'[c].id \in Ids
      /\ \A d \in Callers \ {c} : imp'[d] = imp[d]
  <2>1. imp' = [imp EXCEPT ![c] = i]
    BY <1>1 DEF Becomes
  <2> HIDE DEF i
  <2> QED  BY <1>0, <1>2, <2>1 DEF TypeOK
<1>4. importing' = TRUE /\ imports' \in 0 .. MaxImports /\ presses' = presses /\ ~importing
  BY <1>0 DEF Begin, MayImport, TypeOK
<1>5. /\ lastSel' \in Nodes \cup {NoMap, Automatic} /\ urls' = {}
      /\ current' \in Ids \cup {File, Null} /\ stops' \in Nat
      /\ lost' \in BOOLEAN /\ crossed' \in BOOLEAN
      /\ UNCHANGED << file, sel, start, started, applied, want >>
  <2>1. Clean
    BY DEF Begin
  <2>2. lastSel' \in Nodes \cup {NoMap, Automatic}
    BY <1>0, <2>1 DEF Clean, Remember, TypeOK
  <2>3. current' \in Ids \cup {File, Null} /\ stops' \in Nat
    BY <1>0, <2>1 DEF Clean, Remaining, TypeOK
  <2> QED  BY <2>1, <2>2, <2>3 DEF Clean
<1>6. TypeOK'
  BY <1>0, <1>3, <1>4, <1>5 DEF TypeOK
<1>7. \A d \in Callers : imp'[d].step # "none" => d = c
  BY <1>0, <1>3, <1>4 DEF Exclusive
<1>8. Exclusive' /\ EmptyUntilAdded' /\ HasId' /\ OneSubscription'
  <2>1. Exclusive'
    BY <1>4, <1>7 DEF Exclusive
  <2>2. HasId'
    BY <1>3, <1>7 DEF HasId
  <2>3. EmptyUntilAdded' /\ OneSubscription'
    BY <1>5 DEF EmptyUntilAdded, OneSubscription
  <2> QED  BY <2>1, <2>2, <2>3
<1> QED  BY <1>6, <1>8 DEF ImportInv

\* The subscription that is added is the only one, and becomes current.
LEMMA AddStep ==
  ASSUME ImportInv, NEW c \in Callers, Add(c)
  PROVE  ImportInv'
<1>0. TypeOK /\ Exclusive /\ EmptyUntilAdded /\ HasId /\ OneSubscription
  BY DEF ImportInv
<1>1. /\ imp' \in [Callers -> Imports] /\ imp'[c].step = "apply" /\ imp'[c].id = imp[c].id
      /\ \A d \in Callers \ {c} : imp'[d] = imp[d]
  BY <1>0, Going DEF Add, Steps
<1>2. imp[c].step = "add" /\ urls = {} /\ imp[c].id \in Ids
  BY <1>0 DEF Add, EmptyUntilAdded, HasId, Early
<1>3. urls' = {imp[c].id} /\ current' = imp[c].id
  BY <1>2 DEF Add
<1>4. sel' \in [Ids \cup {File} -> Nodes \cup {Automatic}] /\ want' \in Nodes \cup {Automatic}
  BY <1>0, <1>2 DEF Add, TypeOK
<1>5. lost' = FALSE /\ crossed' \in BOOLEAN
      /\ UNCHANGED << importing, lastSel, file, running, imports, presses >>
  BY DEF Add
<1>6. TypeOK'
  BY <1>0, <1>1, <1>2, <1>3, <1>4, <1>5 DEF TypeOK, running
<1>7. \A d \in Callers : imp'[d].step # "none" => imp[d].step # "none"
  BY <1>1, <1>2
<1>8. \A d \in Callers : imp'[d].step # "none" => d = c
  BY <1>0, <1>2, <1>7 DEF Exclusive
<1> QED  BY <1>0, <1>1, <1>2, <1>3, <1>5, <1>6, <1>7, <1>8
         DEF ImportInv, Exclusive, EmptyUntilAdded, HasId, OneSubscription, Early

LEMMA ApplyStep ==
  ASSUME ImportInv, NEW c \in Callers, Apply(c)
  PROVE  ImportInv'
<1>0. TypeOK /\ Exclusive /\ EmptyUntilAdded /\ HasId /\ OneSubscription
  BY DEF ImportInv
<1>1. NoImport \in Imports /\ NoImport.step = "none"
  BY DEF NoImport, Imports, Steps
<1>2. /\ imp' \in [Callers -> Imports] /\ imp'[c].step = "none"
      /\ \A d \in Callers \ {c} : imp'[d] = imp[d]
  BY <1>0, <1>1 DEF Apply, Becomes, TypeOK
<1>3. applied' \in Ids \cup {File, Null} /\ crossed' \in BOOLEAN
  BY <1>0 DEF Apply, TypeOK
<1>4. importing' = FALSE
      /\ UNCHANGED << profiles, start, stops, started, history, imports, presses >>
  BY DEF Apply
<1>5. TypeOK'
  BY <1>0, <1>2, <1>3, <1>4 DEF TypeOK, profiles, history
<1>6. \A d \in Callers : imp'[d].step = "none"
  BY <1>0, <1>2 DEF Apply, Exclusive
<1> QED  BY <1>0, <1>4, <1>5, <1>6
         DEF ImportInv, Exclusive, EmptyUntilAdded, HasId, OneSubscription, Early, profiles

LEMMA Inductive == Spec => []ImportInv
<1>1. ImportInv /\ Next => ImportInv'
  <2> SUFFICES ASSUME ImportInv, Next PROVE ImportInv'
    OBVIOUS
  <2>1. ASSUME NEW c \in Callers, Progress(c) PROVE ImportInv'
    BY <2>1, DownloadSteps, ImportSteps, AddStep, ApplyStep DEF Progress
  <2>2. ASSUME NEW c \in Callers, Stall(c) \/ \E p \in Proxies : ProxyStalls(c, p) PROVE ImportInv'
    BY <2>2, DownloadSteps, ImportSteps
  <2> QED  BY <2>1, <2>2, BeginStep, UserSteps DEF Next
<1>2. ImportInv /\ UNCHANGED vars => ImportInv'
  BY DEF ImportInv, vars, profiles, running, history, TypeOK, Exclusive, EmptyUntilAdded, HasId,
         OneSubscription
<1> QED  BY InitInv, <1>1, <1>2, PTL DEF Spec

\* The profiles keep their types: a choice is always made in a profile that
\* there is room for.
THEOREM ImportTyping == Spec => []TypeOK
<1>1. ImportInv => TypeOK
  BY DEF ImportInv
<1> QED  BY Inductive, <1>1, PTL

\* However many callers import at once, there is never more than one
\* subscription, and it is the current profile, once an import added one.
THEOREM OneSubscriptionStays == Spec => []OneSubscription
<1>1. ImportInv => OneSubscription
  BY DEF ImportInv
<1> QED  BY Inductive, <1>1, PTL

-----------------------------------------------------------------------------
(* The choice of the user *)

\* An import under way remembers the choice that is to be kept.
Remembered ==
  \A c \in Callers : imp[c].step \in Early /\ ~lost => lastSel = want /\ lastSel # NoMap

KeptInv == Remembered /\ SelectionKept

LEMMA NoChoiceIsNoMap ==
  ASSUME NEW x \in Nodes \cup {Automatic}
  PROVE  x # NoMap
BY ImportAssumption DEF ImportAssumption, NoMap, Automatic

LEMMA KeptByImports ==
  ASSUME ImportInv, KeptInv, NEW c \in Callers,
         Waiting(c) \/ Failed(c) \/ Begin(c) \/ Add(c) \/ Apply(c)
  PROVE  KeptInv'
<1>0. TypeOK /\ Exclusive /\ EmptyUntilAdded /\ HasId
  BY DEF ImportInv
<1>1. CASE Waiting(c)
  <2>1. \A d \in Callers : imp'[d].step \in Early => imp[d].step \in Early
    BY <1>1 DEF Waiting
  <2> QED  BY <1>1, <2>1 DEF Waiting, Steady, KeptInv, Remembered, SelectionKept, profiles, history
<1>2. CASE Failed(c)
  <2>1. lost' = TRUE
    BY <1>2 DEF Failed, Fail
  <2> QED  BY <2>1 DEF KeptInv, Remembered, SelectionKept
<1>3. CASE Begin(c)
  <2>1. /\ urls' = {} /\ lastSel' = Remember /\ want' = want
        /\ lost' = (lost \/ current \notin urls)
    BY <1>3 DEF Begin, Clean
  <2>2. ASSUME ~lost' PROVE lastSel' = want' /\ lastSel' # NoMap
    <3>1. current \in urls /\ ~lost
      BY <2>1, <2>2
    <3>2. lastSel' = sel[current] /\ sel[current] = want
      BY <2>1, <3>1 DEF Remember, KeptInv, SelectionKept
    <3>3. want \in Nodes \cup {Automatic}
      BY <1>0 DEF TypeOK
    <3> QED  BY <2>1, <3>2, <3>3, NoChoiceIsNoMap
  <2> QED  BY <2>1, <2>2 DEF KeptInv, Remembered, SelectionKept
<1>4. CASE Add(c)
  <2> DEFINE chosen == IF lastSel = NoMap THEN Automatic ELSE lastSel
  <2>1. /\ imp[c].step = "add" /\ imp[c].id \in Ids /\ current' = imp[c].id
        /\ sel' = [sel EXCEPT ![imp[c].id] = chosen]
        /\ want' = (IF lost THEN chosen ELSE want)
    BY <1>0, <1>4 DEF Add, HasId
  <2>2. sel'[current'] = chosen
    BY <1>0, <2>1 DEF TypeOK
  <2>3. ~lost => chosen = want
    BY <2>1 DEF KeptInv, Remembered, Early
  <2>4. want' = chosen
    BY <2>1, <2>3
  <2>5. \A d \in Callers : imp'[d].step \notin Early
    <3>1. /\ imp'[c].step = "apply" /\ \A d \in Callers \ {c} : imp'[d] = imp[d]
      BY <1>0, <1>4, Going DEF Add, Steps
    <3>2. \A d \in Callers \ {c} : imp[d].step = "none"
      BY <1>0, <2>1 DEF Exclusive
    <3> QED  BY <3>1, <3>2 DEF Early
  <2> QED  BY <2>2, <2>4, <2>5 DEF KeptInv, Remembered, SelectionKept
<1>5. CASE Apply(c)
  <2>1. imp[c].step = "apply" /\ imp' = [imp EXCEPT ![c] = NoImport]
        /\ UNCHANGED << profiles, history >>
    BY <1>5 DEF Apply, Becomes
  <2>2. \A d \in Callers : imp'[d].step \in Early => imp[d].step \in Early
    BY <1>0, <2>1 DEF NoImport, Early, TypeOK
  <2> QED  BY <2>1, <2>2 DEF KeptInv, Remembered, SelectionKept, profiles, history
<1> QED  BY <1>1, <1>2, <1>3, <1>4, <1>5

LEMMA KeptByUser ==
  ASSUME ImportInv, KeptInv,
         \/ \E n \in Nodes : Select(n)
         \/ Start \/ StartBuild \/ StartSetup \/ StartListen \/ Stop \/ StopListen
  PROVE  KeptInv'
<1>0. TypeOK /\ EmptyUntilAdded
  BY DEF ImportInv
<1>1. ASSUME NEW n \in Nodes, Select(n) PROVE KeptInv'
  <2>1. /\ current \in Ids \cup {File} /\ sel' = [sel EXCEPT ![current] = n]
        /\ want' = IF current \in urls THEN n ELSE want
        /\ UNCHANGED << imp, lastSel, urls, current, lost >>
    BY <1>0, <1>1 DEF Select, TypeOK
  <2>2. Remembered'
    BY <1>0, <2>1 DEF KeptInv, Remembered, EmptyUntilAdded
  <2>3. SelectionKept'
    BY <1>0, <2>1 DEF SelectionKept, TypeOK
  <2> QED  BY <2>2, <2>3 DEF KeptInv
<1>2. CASE Start \/ StartBuild \/ StartSetup \/ StartListen \/ Stop \/ StopListen
  <2>1. UNCHANGED << imp, profiles, history >>
    BY <1>2 DEF Start, StartBuild, StartSetup, StartListen, Stop, StopListen
  <2> QED  BY <2>1 DEF KeptInv, Remembered, SelectionKept, profiles, history
<1> QED  BY <1>1, <1>2

\* An import keeps the choice the user made in the subscription that was
\* current, unless an import failed in between: the choice is remembered before
\* the deletion, and no choice can be made in a subscription meanwhile.
THEOREM SelectionStaysKept == Spec => []SelectionKept
<1>1. Init => KeptInv
  BY DEF Init, KeptInv, Remembered, SelectionKept, NoImport, Early, Ids, Old
<1>2. ImportInv /\ KeptInv /\ Next => KeptInv'
  <2> SUFFICES ASSUME ImportInv, KeptInv, Next PROVE KeptInv'
    OBVIOUS
  <2>1. ASSUME NEW c \in Callers, Progress(c) PROVE KeptInv'
    BY <2>1, DownloadSteps, KeptByImports DEF Progress
  <2>2. ASSUME NEW c \in Callers, Stall(c) \/ \E p \in Proxies : ProxyStalls(c, p) PROVE KeptInv'
    BY <2>2, DownloadSteps, KeptByImports
  <2> QED  BY <2>1, <2>2, KeptByImports, KeptByUser DEF Next
<1>3. KeptInv /\ UNCHANGED vars => KeptInv'
  BY DEF KeptInv, vars, profiles, running, history, Remembered, SelectionKept
<1>4. KeptInv => SelectionKept
  BY DEF KeptInv
<1> QED  BY Inductive, <1>1, <1>2, <1>3, <1>4, PTL DEF Spec
-----------------------------------------------------------------------------
(* What the core serves *)

\* The setup of a start that is under way is that of the current profile.
BuiltOfCurrent ==
  /\ start.step = "built" => start.of = current
  /\ start.step \in {"built", "tail"} => current # Null

\* Without a profile the proxy stops: the stop of the deletion is under way.
StopArrives == started /\ current = Null => stops > 0

\* A subscription the core was not set up with is about to be applied.
ApplyArrives ==
  current \in urls /\ applied # current => \E c \in Callers : imp[c].step = "apply"

ServesInv == ~crossed => BuiltOfCurrent /\ StopArrives /\ ApplyArrives

LEMMA ServedByImports ==
  ASSUME ImportInv, ServesInv, NEW c \in Callers,
         Waiting(c) \/ Failed(c) \/ Begin(c) \/ Add(c) \/ Apply(c)
  PROVE  ServesInv'
<1> SUFFICES ASSUME ~crossed' PROVE (BuiltOfCurrent /\ StopArrives /\ ApplyArrives)'
  BY DEF ServesInv
<1> USE DEF profiles, running, history
<1>0. TypeOK /\ Exclusive /\ EmptyUntilAdded /\ HasId
  BY DEF ImportInv
<1>1. CASE Waiting(c)
  <2>1. UNCHANGED << urls, current, start, stops, started, applied, crossed >>
    BY <1>1 DEF Waiting, Steady
  <2>2. \A d \in Callers : imp[d].step = "apply" => imp'[d].step = "apply"
    BY <1>1 DEF Waiting, Early
  <2> QED  BY <2>1, <2>2 DEF ServesInv, BuiltOfCurrent, StopArrives, ApplyArrives
<1>2. CASE Failed(c)
  <2>1. UNCHANGED << urls, current, start, stops, started, applied, crossed >>
    BY <1>2 DEF Failed, Fail
  <2>2. urls = {}
    BY <1>0, <1>2 DEF Failed, EmptyUntilAdded
  <2> QED  BY <2>1, <2>2 DEF ServesInv, BuiltOfCurrent, StopArrives, ApplyArrives
<1>3. CASE Begin(c)
  <2>1. Clean
    BY <1>3 DEF Begin
  <2>2. ~crossed /\ start.step \notin {"built", "tail"} /\ UNCHANGED << start, started >> /\ urls' = {}
    BY <2>1 DEF Clean
  <2>3. BuiltOfCurrent' /\ ApplyArrives'
    BY <2>2 DEF BuiltOfCurrent, ApplyArrives
  <2>4. CASE current \in urls
    <3>1. current' = Null => stops' = stops + 1
      BY <2>1, <2>4 DEF Clean, Remaining, StopsProxy, File, Null
    <3> QED  BY <1>0, <2>3, <3>1 DEF StopArrives, TypeOK
  <2>5. CASE current \notin urls
    <3>1. current' = current /\ stops' = stops
      BY <2>1, <2>5 DEF Clean, StopsProxy
    <3> QED  BY <2>2, <2>3, <3>1 DEF ServesInv, StopArrives
  <2> QED  BY <2>4, <2>5
<1>4. CASE Add(c)
  <2>1. ~crossed /\ start.step # "built" /\ UNCHANGED start
    BY <1>4 DEF Add
  <2>2. current' = imp[c].id /\ imp[c].id \in Ids
    BY <1>0, <1>4 DEF Add, HasId
  <2>3. current' # Null
    BY <2>2, ImportAssumption DEF ImportAssumption, Ids, Old, Null
  <2>4. imp'[c].step = "apply"
    BY <1>0, <1>4, Going DEF Add, Steps
  <2> QED  BY <2>1, <2>3, <2>4 DEF BuiltOfCurrent, StopArrives, ApplyArrives
<1>5. CASE Apply(c)
  <2>1. ~crossed /\ applied' = current /\ UNCHANGED << urls, current, start, stops, started >>
    BY <1>5 DEF Apply
  <2> QED  BY <2>1 DEF ServesInv, BuiltOfCurrent, StopArrives, ApplyArrives
<1> QED  BY <1>1, <1>2, <1>3, <1>4, <1>5

LEMMA ServedByUser ==
  ASSUME ImportInv, ServesInv,
         \/ \E n \in Nodes : Select(n)
         \/ Start \/ StartBuild \/ StartSetup \/ StartListen \/ Stop \/ StopListen
  PROVE  ServesInv'
<1> SUFFICES ASSUME ~crossed' PROVE (BuiltOfCurrent /\ StopArrives /\ ApplyArrives)'
  BY DEF ServesInv
<1> USE DEF profiles, running, history
<1>0. TypeOK
  BY DEF ImportInv
<1>1. UNCHANGED << imp, urls, current >>
  BY DEF Select, Start, StartBuild, StartSetup, StartListen, Stop, StopListen
<1>2. ~crossed
  BY DEF Select, Start, StartBuild, StartSetup, StartListen, Stop, StopListen
<1>3. BuiltOfCurrent /\ StopArrives /\ ApplyArrives
  BY <1>2 DEF ServesInv
<1>4. CASE UNCHANGED << start, applied >> /\ (started' => started /\ stops' \in {stops, stops + 1})
  <2>1. StopArrives'
    BY <1>0, <1>1, <1>3, <1>4 DEF StopArrives, TypeOK
  <2> QED  BY <1>1, <1>3, <1>4, <2>1 DEF BuiltOfCurrent, ApplyArrives
<1>5. CASE Start
  BY <1>1, <1>3, <1>5 DEF Start, BuiltOfCurrent, StopArrives, ApplyArrives
<1>6. CASE StartBuild
  BY <1>1, <1>3, <1>6 DEF StartBuild, SetupOf, NoStart, BuiltOfCurrent, StopArrives, ApplyArrives
<1>7. CASE StartSetup
  <2>1. start' = [start EXCEPT !.step = "tail"] /\ applied' = start.of /\ start.step = "built"
    BY <1>2, <1>7 DEF StartSetup
  <2>2. start'.step = "tail" /\ applied' = current /\ current # Null
    BY <1>0, <1>3, <2>1 DEF BuiltOfCurrent, Starts, TypeOK
  <2> QED  BY <1>1, <2>2 DEF BuiltOfCurrent, StopArrives, ApplyArrives
<1>8. CASE StartListen
  BY <1>1, <1>3, <1>8 DEF StartListen, NoStart, BuiltOfCurrent, StopArrives, ApplyArrives
<1>9. CASE StopListen
  BY <1>4, <1>9 DEF StopListen
<1>10. CASE Stop \/ \E n \in Nodes : Select(n)
  BY <1>0, <1>4, <1>10 DEF Stop, Select, TypeOK
<1> QED  BY <1>5, <1>6, <1>7, <1>8, <1>9, <1>10

\* A proxy that runs serves the current subscription, and never without a
\* profile, once every import, start and stop has ended; unless a setup failed
\* or the current profile changed after a start had built its setup.
THEOREM CurrentIsServed == Spec => []ServesCurrent
<1>1. Init => ServesInv
  BY DEF Init, ServesInv, BuiltOfCurrent, StopArrives, ApplyArrives, NoStart
<1>2. ImportInv /\ ServesInv /\ Next => ServesInv'
  <2> SUFFICES ASSUME ImportInv, ServesInv, Next PROVE ServesInv'
    OBVIOUS
  <2>1. ASSUME NEW c \in Callers, Progress(c) PROVE ServesInv'
    BY <2>1, DownloadSteps, ServedByImports DEF Progress
  <2>2. ASSUME NEW c \in Callers, Stall(c) \/ \E p \in Proxies : ProxyStalls(c, p) PROVE ServesInv'
    BY <2>2, DownloadSteps, ServedByImports
  <2> QED  BY <2>1, <2>2, ServedByImports, ServedByUser DEF Next
<1>3. ServesInv /\ UNCHANGED vars => ServesInv'
  BY DEF ServesInv, vars, profiles, running, history, BuiltOfCurrent, StopArrives, ApplyArrives
<1>4. ImportInv /\ ServesInv => ServesCurrent
  BY DEF ImportInv, Exclusive, ServesInv, StopArrives, ApplyArrives, ServesCurrent, Quiet
<1> QED  BY Inductive, <1>1, <1>2, <1>3, <1>4, PTL DEF Spec
=============================================================================
