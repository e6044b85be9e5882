---------------------------- MODULE RequestReply ----------------------------
(***************************************************************************)
(* What ClashHandlerInterface.invoke() promises its callers, whatever      *)
(* happens to sockets and core processes: the core executes a request at   *)
(* most once, the caller gets at most one result, and that result is the   *)
(* core's answer only if the core executed the request.  A request whose   *)
(* caller was given the default value may still be executed later.         *)
(***************************************************************************)
CONSTANT Ids

VARIABLES
  call,      \* what the caller of each invoke() has seen
  executed   \* requests whose handler the core has entered

vars == << call, executed >>

Init == call = [id \in Ids |-> "new"] /\ executed = {}

Issue(id) ==
  /\ call[id] = "new"
  /\ call' = [call EXCEPT ![id] = "pending"]
  /\ UNCHANGED executed

Execute(id) ==
  /\ call[id] # "new" /\ id \notin executed
  /\ executed' = executed \cup {id}
  /\ UNCHANGED call

Return(id) ==
  /\ call[id] = "pending" /\ id \in executed
  /\ call' = [call EXCEPT ![id] = "answered"]
  /\ UNCHANGED executed

Default(id) ==
  /\ call[id] = "pending"
  /\ call' = [call EXCEPT ![id] = "defaulted"]
  /\ UNCHANGED executed

Next == \E id \in Ids : Issue(id) \/ Execute(id) \/ Return(id) \/ Default(id)

Spec == Init /\ [][Next]_vars
=============================================================================
