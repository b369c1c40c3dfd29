------------------------------ MODULE SyncRpc ------------------------------
(***************************************************************************)
(* What a synchronous network import promises to the guest that calls it,  *)
(* whatever carries the request: the guest blocks in one call at a time,   *)
(* and the call hands back either null or the reply to that very request.  *)
(*                                                                         *)
(* Calls are numbered in the order they are issued.  A reply is named by   *)
(* the number of the call it answers, so "the right reply" is "my number". *)
(***************************************************************************)
EXTENDS Naturals

CONSTANT MaxCalls   \* bound on the number of calls of one session

VARIABLES
  call,    \* number of the latest call, 0 before the first
  busy,    \* TRUE while the guest is blocked in that call
  result   \* what the latest call handed back, Null while it has not

rpcVars == <<call, busy, result>>

\* The JavaScript null that every denied, failed or timed-out request gives.
Null == 0

Init ==
  /\ call = 0
  /\ busy = FALSE
  /\ result = Null

Issue ==
  /\ ~busy
  /\ call < MaxCalls
  /\ call' = call + 1
  /\ busy' = TRUE
  /\ result' = Null

\* A request the client refuses before anything is sent.
Refuse ==
  /\ ~busy
  /\ call < MaxCalls
  /\ call' = call + 1
  /\ result' = Null
  /\ UNCHANGED busy

Return ==
  /\ busy
  /\ busy' = FALSE
  /\ result' \in {Null, call}
  /\ UNCHANGED call

Next == Issue \/ Refuse \/ Return

Spec == Init /\ [][Next]_rpcVars /\ WF_rpcVars(Return)
=============================================================================
