------------------------- MODULE ProviderFetchProofs -------------------------
(***************************************************************************)
(* Proofs about ProviderFetch, for any lists and any number of updates,    *)
(* side loads, changes and crashes: its types, and that the hash that      *)
(* later answers are compared with is the hash of the list in use.         *)
(*                                                                         *)
(* HashIsInstalled is not inductive: while the list is being installed,    *)
(* the hash is ahead of it.  So the invariant says whose list that is, and *)
(* that nobody else is inside loadBuf() then.                              *)
(***************************************************************************)
EXTENDS ProviderFetch, TLAPS

Lock == \A t, u \in Threads : at[t] \in Inside /\ at[u] \in Inside => t = u

\* what the goroutine inside loadBuf() holds
Holds ==
  \A t \in Threads :
    /\ at[t] = "write" => buf[t] \in Lists /\ hash = proxies
    /\ at[t] = "install" => buf[t] \in Lists /\ hash = buf[t]

FetchInv == TypeOK /\ Lock /\ Holds /\ HashIsInstalled

LEMMA PullIsThread == Pull \in Threads /\ Pull \in Askers /\ Askers \subseteq Threads /\ Sides \subseteq Threads
  BY DEF Threads, Askers

LEMMA InitInv == Init => FetchInv
  BY ProviderFetchAssumption DEF ProviderFetchAssumption, Init, FetchInv, TypeOK, Lock, Holds, HashIsInstalled, Contents, Threads, Inside, Free

\* a step that moves one goroutine, and takes it neither in nor out of loadBuf()
LEMMA OutsideStep ==
  ASSUME FetchInv, NEW t \in Threads, NEW l \in {"initial", "ask", "answer", "load", "wait", "done"},
         at[t] \notin Inside, at' = [at EXCEPT ![t] = l],
         \A u \in Threads \ {t} : buf'[u] = buf[u],
         UNCHANGED << hash, proxies >>
  PROVE  Lock' /\ Holds' /\ HashIsInstalled'
<1>1. \A u \in Threads : at'[u] \in Inside <=> at[u] \in Inside
  BY DEF FetchInv, TypeOK, Inside
<1>2. \A u \in Threads : at'[u] \in Inside => u # t /\ at'[u] = at[u] /\ buf'[u] = buf[u]
  BY DEF FetchInv, TypeOK, Inside
<1>3. Lock'
  BY <1>1 DEF FetchInv, Lock, Inside
<1>4. Holds'
  <2> SUFFICES ASSUME NEW u \in Threads, at'[u] \in Inside
               PROVE  /\ at'[u] = "write" => buf'[u] \in Lists /\ hash' = proxies'
                      /\ at'[u] = "install" => buf'[u] \in Lists /\ hash' = buf'[u]
    BY DEF Holds, Inside
  <2> QED  BY <1>2 DEF FetchInv, Holds
<1>5. HashIsInstalled'
  BY <1>1 DEF FetchInv, HashIsInstalled, Free, Inside
<1> QED  BY <1>3, <1>4, <1>5

LEMMA Types ==
  ASSUME FetchInv, Next
  PROVE  TypeOK'
<1> USE DEF FetchInv, TypeOK, world, disk, Goto, End
<1>1. CASE ReadFile
  BY <1>1, PullIsThread DEF ReadFile
<1>2. CASE LoadFile
  BY <1>2, PullIsThread DEF LoadFile
<1>3. ASSUME NEW t \in Askers, BeginUpdate(t) \/ Ask(t) \/ Answer(t) \/ NoAnswer(t)
      PROVE  TypeOK'
  <2>1. t \in Threads
    BY PullIsThread
  <2>2. CASE BeginUpdate(t)
    BY <2>1, <2>2 DEF BeginUpdate
  <2>3. CASE Ask(t)
    BY <2>1, <2>3 DEF Ask, EtagFits
  <2>4. CASE Answer(t)
    BY <2>1, <2>4 DEF Answer
  <2>5. CASE NoAnswer(t)
    BY <2>1, <2>5 DEF NoAnswer
  <2> QED  BY <1>3, <2>2, <2>3, <2>4, <2>5
<1>4. ASSUME NEW t \in Sides, SideUpdate(t) PROVE TypeOK'
  BY <1>4, PullIsThread DEF SideUpdate
<1>5. ASSUME NEW t \in Threads, LoadBuf(t) PROVE TypeOK'
  BY <1>5 DEF LoadBuf
<1>6. ASSUME NEW t \in Threads, Install(t) PROVE TypeOK'
  BY <1>6 DEF Install, Holds
<1>7. ASSUME NEW t \in Threads, NEW w \in BOOLEAN, WriteFile(t, w) PROVE TypeOK'
  BY <1>7 DEF WriteFile, HashAfter, Holds, Contents
<1>8. CASE ServerChanges
  BY <1>8, ProviderFetchAssumption DEF ServerChanges, ProviderFetchAssumption
<1>9. CASE Crash
  BY <1>9, ProviderFetchAssumption DEF Crash, ProviderFetchAssumption, Contents
<1> QED  BY <1>1, <1>2, <1>3, <1>4, <1>5, <1>6, <1>7, <1>8, <1>9 DEF Next

Rest == Lock /\ Holds /\ HashIsInstalled

\* Only a goroutine that finds the mutex free goes in; only the one inside
\* changes the hash and the list.
LEMMA Locked ==
  ASSUME FetchInv, Next
  PROVE  Rest'
<1>1. CASE ReadFile
  BY <1>1, PullIsThread, OutsideStep DEF Rest, ReadFile, Goto, Inside, FetchInv, TypeOK
<1>2. CASE LoadFile
  <2>1. CASE buf[Pull] \in Lists \ {hash}
    <3>1. \A u \in Threads \ {Pull} : at'[u] = at[u] /\ at[u] \notin Inside
      BY <1>2, <2>1 DEF LoadFile, Goto, Free, FetchInv, TypeOK
    <3>2. at'[Pull] = "install" /\ hash' = buf'[Pull] /\ buf'[Pull] \in Lists
      BY <1>2, <2>1, PullIsThread DEF LoadFile, Goto, FetchInv, TypeOK
    <3> QED  BY <3>1, <3>2, PullIsThread DEF Rest, Lock, Holds, HashIsInstalled, Free, Inside
  <2>2. CASE buf[Pull] \notin Lists \ {hash}
    BY <1>2, <2>2, PullIsThread, OutsideStep DEF Rest, LoadFile, Goto, Inside
  <2> QED  BY <2>1, <2>2
<1>3. ASSUME NEW t \in Askers, BeginUpdate(t) \/ Ask(t) \/ Answer(t) \/ NoAnswer(t)
      PROVE  Rest'
  <2>1. t \in Threads
    BY PullIsThread
  <2>2. CASE BeginUpdate(t)
    BY <2>1, <2>2, OutsideStep DEF Rest, BeginUpdate, Goto, Inside
  <2>3. CASE Ask(t)
    BY <2>1, <2>3, OutsideStep DEF Rest, Ask, Goto, Inside
  <2>4. CASE Answer(t)
    BY <2>1, <2>4, OutsideStep DEF Rest, Answer, Goto, Inside, FetchInv, TypeOK
  <2>5. CASE NoAnswer(t)
    BY <2>1, <2>5, OutsideStep DEF Rest, NoAnswer, End, Goto, Inside
  <2> QED  BY <1>3, <2>2, <2>3, <2>4, <2>5
<1>4. ASSUME NEW t \in Sides, SideUpdate(t) PROVE Rest'
  <2>1. t \in Threads /\ at[t] \notin Inside /\ at' = [at EXCEPT ![t] = "load"]
    BY <1>4, PullIsThread DEF SideUpdate, Goto, Inside
  <2>2. \A u \in Threads \ {t} : buf'[u] = buf[u]
    BY <1>4 DEF SideUpdate, FetchInv, TypeOK
  <2>3. UNCHANGED << hash, proxies >>
    BY <1>4 DEF SideUpdate
  <2> QED  BY <2>1, <2>2, <2>3, OutsideStep DEF Rest
<1>5. ASSUME NEW t \in Threads, LoadBuf(t) PROVE Rest'
  <2>1. CASE Parses(buf[t]) /\ buf[t] # hash
    <3>1. \A u \in Threads \ {t} : at'[u] = at[u] /\ at[u] \notin Inside
      BY <1>5, <2>1 DEF LoadBuf, Goto, Free, FetchInv, TypeOK
    <3>2. at'[t] = "write" /\ buf'[t] \in Lists
      BY <1>5, <2>1 DEF LoadBuf, Parses, Goto, FetchInv, TypeOK
    <3>3. hash' = proxies'
      BY <1>5 DEF LoadBuf, FetchInv, HashIsInstalled
    <3> QED  BY <3>1, <3>2, <3>3 DEF Rest, Lock, Holds, HashIsInstalled, Inside
  <2>2. CASE ~(Parses(buf[t]) /\ buf[t] # hash)
    BY <1>5, <2>2, OutsideStep DEF Rest, LoadBuf, End, Goto, Inside
  <2> QED  BY <2>1, <2>2
<1>6. ASSUME NEW t \in Threads, Install(t) PROVE Rest'
  <2>1. \A u \in Threads : at'[u] \notin Inside
    BY <1>6 DEF Install, End, Goto, Inside, FetchInv, TypeOK, Lock
  <2>2. hash' = proxies'
    BY <1>6 DEF Install, FetchInv, Holds
  <2> QED  BY <2>1, <2>2 DEF Rest, Lock, Holds, HashIsInstalled, Inside
<1>7. ASSUME NEW t \in Threads, NEW w \in BOOLEAN, WriteFile(t, w) PROVE Rest'
  <2>1. \A u \in Threads \ {t} : at'[u] = at[u] /\ at[u] \notin Inside
    BY <1>7 DEF WriteFile, End, Goto, Inside, FetchInv, TypeOK, Lock
  <2>2. CASE w
    <3>1. at'[t] = "install" /\ hash' = buf'[t] /\ buf'[t] \in Lists
      BY <1>7, <2>2 DEF WriteFile, HashAfter, Goto, FetchInv, TypeOK, Holds
    <3> QED  BY <2>1, <3>1 DEF Rest, Lock, Holds, HashIsInstalled, Free, Inside
  <2>3. CASE ~w
    <3>1. at'[t] \notin Inside /\ hash' = proxies'
      BY <1>7, <2>3 DEF WriteFile, HashAfter, End, Goto, Inside, FetchInv, TypeOK, Holds
    <3> QED  BY <2>1, <3>1 DEF Rest, Lock, Holds, HashIsInstalled, Inside
  <2> QED  BY <2>2, <2>3
<1>8. CASE ServerChanges
  BY <1>8 DEF ServerChanges, Rest, FetchInv, Lock, Holds, HashIsInstalled, Free
<1>9. CASE Crash
  BY <1>9 DEF Crash, Rest, Lock, Holds, HashIsInstalled, Free, Inside
<1> QED  BY <1>1, <1>2, <1>3, <1>4, <1>5, <1>6, <1>7, <1>8, <1>9 DEF Next

LEMMA Inductive == Spec => []FetchInv
<1>1. FetchInv /\ Next => FetchInv'
  BY Types, Locked DEF FetchInv, Rest
<1>2. FetchInv /\ UNCHANGED vars => FetchInv'
  BY DEF FetchInv, vars, world, disk, TypeOK, Lock, Holds, HashIsInstalled, Free
<1> QED  BY InitInv, <1>1, <1>2, PTL DEF Spec

\* The fetcher keeps its types: in particular only contents that parse ever
\* become the hash or the list in use.
THEOREM FetchTyping == Spec => []TypeOK
<1>1. FetchInv => TypeOK
  BY DEF FetchInv
<1> QED  BY Inductive, <1>1, PTL

\* Whenever nobody is inside loadBuf(), the hash is that of the list in use:
\* no interleaving of pulls, updates, side loads, failed writes and crashes
\* leaves the hash of a list that was not installed.
THEOREM HashStaysInstalled == Spec => []HashIsInstalled
<1>1. FetchInv => HashIsInstalled
  BY DEF FetchInv
<1> QED  BY Inductive, <1>1, PTL
=============================================================================
