--------------------------- MODULE ProviderFetch ---------------------------
(***************************************************************************)
(* A proxy provider's fetcher: its file, its ETag and the list it installs *)
(* (ProviderGroup has what becomes of an installed list).                  *)
(*                                                                         *)
(* Setting a configuration up starts Initial() in a goroutine and does not *)
(* wait for it; the pull loop, updates the app asks for and side loads all *)
(* run beside it.  Hashes do not collide, so the hash of a content is      *)
(* written as the content.                                                 *)
(***************************************************************************)
EXTENDS Naturals, FiniteSets

CONSTANTS
  Lists,          \* contents that parse
  Bad, Nil,       \* a content that does not (a torn file too); nothing
  Pull,           \* the goroutine of Initial() and then of the pull loop
  Updates, Sides, \* updates and side loads the app asks for
  MaxChanges, MaxCrashes

ASSUME ProviderFetchAssumption ==
  /\ Bad \notin Lists /\ Nil \notin Lists /\ Bad # Nil
  /\ Pull \notin Updates \cup Sides /\ Updates \cap Sides = {}
  /\ MaxChanges \in Nat /\ MaxCrashes \in Nat

Contents == Lists \cup {Bad}
Askers == {Pull} \cup Updates
Threads == Askers \cup Sides

VARIABLES
  pulls,              \* the provider has an interval, so there is a pull loop
  server, changes,    \* what the server has, and how often it changed
  file, etag,         \* on disk: the content, the hash the ETag belongs to
  crashes,
  at, buf, asked,     \* per goroutine: step, content, ETag's hash it sent
  hash, proxies       \* Fetcher.hash, baseProvider.proxies

disk  == << file, etag, crashes >>
world == << server, changes >>
vars  == << pulls, world, disk, at, buf, asked, hash, proxies >>

TypeOK ==
  /\ pulls \in BOOLEAN
  /\ server \in Contents /\ changes \in 0 .. MaxChanges /\ crashes \in 0 .. MaxCrashes
  /\ file \in Contents \cup {Nil} /\ etag \in Contents \cup {Nil}
  /\ at \in [Threads -> {"new", "initial", "ask", "answer", "load", "write", "install", "wait", "done"}]
  /\ buf \in [Threads -> Contents \cup {Nil}] /\ asked \in [Threads -> Contents \cup {Nil}]
  /\ hash \in Lists \cup {Nil} /\ proxies \in Lists \cup {Nil}

Init ==
  /\ pulls \in BOOLEAN
  /\ server \in Lists /\ changes = 0 /\ crashes = 0
  /\ file \in Contents \cup {Nil} /\ etag \in {Nil, file}
  /\ at = [t \in Threads |-> "new"]
  /\ buf = [t \in Threads |-> Nil] /\ asked = [t \in Threads |-> Nil]
  /\ hash = Nil /\ proxies = Nil

-----------------------------------------------------------------------------
Goto(t, l) == at' = [at EXCEPT ![t] = l]
End(t) == Goto(t, IF t = Pull THEN "wait" ELSE "done")

\* loadBufMutex is held from a list that parses until it is installed
Inside == {"write", "install"}
Free == \A t \in Threads : at[t] \notin Inside

FileIgnored == FALSE                           \* mutant: the server alone is asked
FileExists == file # Nil

\* Initial() takes the file if there is one, and asks the server if it is broken
ReadFile ==
  /\ at[Pull] = "new"
  /\ buf' = [buf EXCEPT ![Pull] = file]
  /\ Goto(Pull, IF FileExists THEN "initial" ELSE "ask")
  /\ UNCHANGED << pulls, world, disk, asked, hash, proxies >>

LoadFile ==
  /\ at[Pull] = "initial" /\ Free
  /\ IF buf[Pull] \in Lists \ {hash}
       THEN hash' = buf[Pull] /\ Goto(Pull, "install")
       ELSE hash' = hash /\ Goto(Pull, IF buf[Pull] = Bad THEN "ask" ELSE "wait")
  /\ UNCHANGED << pulls, world, disk, buf, asked, proxies >>

\* the pull loop's timer, or handleUpdateExternalProvider()
BeginUpdate(t) ==
  /\ IF t = Pull THEN at[t] = "wait" /\ pulls ELSE at[t] = "new"
  /\ Goto(t, "ask")
  /\ UNCHANGED << pulls, world, disk, buf, asked, hash, proxies >>

\* HTTPVehicle.Read(): the ETag goes along only if it is that of what we hold
EtagAlways == hash # Nil                       \* mutant: hashes not compared
EtagFits == hash # Nil /\ hash = etag

Ask(t) ==
  /\ at[t] = "ask"
  /\ asked' = [asked EXCEPT ![t] = IF EtagFits THEN etag ELSE Nil]
  /\ Goto(t, "answer")
  /\ UNCHANGED << pulls, world, disk, buf, hash, proxies >>

\* 304 has no body; what else comes is remembered by its ETag, parsed or not
Answer(t) ==
  /\ at[t] = "answer"
  /\ IF asked[t] = server
       THEN buf' = [buf EXCEPT ![t] = Nil] /\ etag' = etag
       ELSE buf' = [buf EXCEPT ![t] = server] /\ etag' = server
  /\ Goto(t, "load")
  /\ UNCHANGED << pulls, world, file, crashes, asked, hash, proxies >>

\* the request fails or times out
NoAnswer(t) ==
  /\ at[t] = "answer" /\ End(t)
  /\ UNCHANGED << pulls, world, disk, buf, asked, hash, proxies >>

\* handleSideLoadExternalProvider(): the app brings the content
SideUpdate(t) ==
  /\ at[t] = "new"
  /\ \E c \in Contents : buf' = [buf EXCEPT ![t] = c]
  /\ Goto(t, "load")
  /\ UNCHANGED << pulls, world, disk, asked, hash, proxies >>

Parses(c) == c \in Lists

\* loadBuf() under its mutex: nothing to do for what is held already, for no
\* body and for what does not parse
LoadBuf(t) ==
  /\ at[t] = "load" /\ Free
  /\ IF Parses(buf[t]) /\ buf[t] # hash THEN Goto(t, "write") ELSE End(t)
  /\ UNCHANGED << pulls, world, disk, buf, asked, hash, proxies >>

\* os.WriteFile() truncates first; the hash is taken only when it succeeded
HashBefore(t, written) == buf[t]               \* mutant: hash set before the write
HashAfter(t, written) == IF written THEN buf[t] ELSE hash

WriteFile(t, written) ==
  /\ at[t] = "write"
  /\ file' = (IF written THEN buf[t] ELSE Bad)
  /\ hash' = HashAfter(t, written)
  /\ IF written THEN Goto(t, "install") ELSE End(t)
  /\ UNCHANGED << pulls, world, etag, crashes, buf, asked, proxies >>

\* onUpdate, which is setProxies()
Install(t) ==
  /\ at[t] = "install"
  /\ proxies' = buf[t]
  /\ End(t)
  /\ UNCHANGED << pulls, world, disk, buf, asked, hash >>

-----------------------------------------------------------------------------
(* The server changes; the core ends at any moment, even in a write, and a  *)
(* new one finds the file and the ETags                                     *)

ServerChanges ==
  /\ changes < MaxChanges /\ changes' = changes + 1
  /\ server' \in Contents \ {server}
  /\ UNCHANGED << pulls, disk, at, buf, asked, hash, proxies >>

Crash ==
  /\ crashes < MaxCrashes /\ crashes' = crashes + 1
  /\ file' \in IF \E t \in Threads : at[t] = "write" THEN {file, Bad} ELSE {file}
  /\ at' = [t \in Threads |-> "new"]
  /\ buf' = [t \in Threads |-> Nil] /\ asked' = [t \in Threads |-> Nil]
  /\ hash' = Nil /\ proxies' = Nil
  /\ UNCHANGED << pulls, world, etag >>

Next ==
  \/ ReadFile \/ LoadFile
  \/ \E t \in Askers : BeginUpdate(t) \/ Ask(t) \/ Answer(t) \/ NoAnswer(t)
  \/ \E t \in Sides : SideUpdate(t)
  \/ \E t \in Threads : LoadBuf(t) \/ Install(t) \/ \E w \in BOOLEAN : WriteFile(t, w)
  \/ ServerChanges \/ Crash

\* The pull loop's requests are answered and its writes succeed time and again;
\* the goroutines run.
Fairness ==
  /\ WF_vars(ReadFile) /\ WF_vars(LoadFile) /\ WF_vars(BeginUpdate(Pull)) /\ WF_vars(Ask(Pull))
  /\ SF_vars(Answer(Pull)) /\ SF_vars(WriteFile(Pull, TRUE))
  /\ \A t \in Threads :
       WF_vars(LoadBuf(t) \/ Install(t) \/ WriteFile(t, TRUE) \/ WriteFile(t, FALSE))

Spec == Init /\ [][Next]_vars /\ Fairness

-----------------------------------------------------------------------------
(* Properties *)

\* Whenever nobody is inside loadBuf(), the hash that later answers are
\* compared with is that of the list in use: a failed write, a parse error or a
\* late answer never leaves the hash of a list that was not installed, which
\* would then never be fetched again.
HashIsInstalled == Free => hash = proxies

\* When the server settles on a content that parses, a provider with an interval
\* ends up with it, whatever side loads, 304 answers, failed writes, torn files
\* and late answers came before.
Converges == pulls /\ <>[](server \in Lists) => <>[](proxies = server)

\* A core that starts with a readable file gets to serve a list even if the
\* server never answers, unless a write tears the file meanwhile.
FileServes == at[Pull] = "new" /\ file \in Lists ~> proxies # Nil \/ file = Bad
=============================================================================
