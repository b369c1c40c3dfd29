--------------------------- MODULE SabPostBridge ---------------------------
(***************************************************************************)
(* createSabHttpPostBridge (src/http-post-bridge.js): one guest thread and *)
(* one inner worker share two SharedArrayBuffers for the whole session.    *)
(* The guest blocks in requestSync; the worker fetches and answers.  Both  *)
(* sleep on the same word, ctrl[0], with Atomics.wait, and each wakes the  *)
(* other with Atomics.notify.                                              *)
(*                                                                         *)
(* Every Atomics operation on words 0 and 1, and every copy into or out of *)
(* the payload, is a step of its own; words 2..5 are stored together and   *)
(* read together.  Bytes are abstracted to whose they are: the payload     *)
(* holds the request or the reply of some call, words 2..5 the lengths and *)
(* method of some call, word 1 the length of some reply.  The worker reads *)
(* words, then url, then the rest; a request whose parts are not all of    *)
(* one call is Mangled.                                                    *)
(***************************************************************************)
EXTENDS Integers, Sequences

CONSTANT MaxCalls   \* bound on the number of requestSync calls

ASSUME MaxCallsAssumption == MaxCalls \in Nat

VARIABLES
  creation,   \* the promise of createSabHttpPostBridge
  readySent,  \* the worker has posted {kind: 'ready'}
  ctrl,       \* ctrl[0], ctrl[1] and ctrl[2..5], as status, len and words
  payload,    \* whose bytes the payload buffer holds
  callerAt,   \* where the guest thread is in requestSync
  call,       \* number of the latest requestSync
  seen,       \* locals `status` and `n` of requestSync
  result,     \* what the latest requestSync returned
  outcome,    \* history: how the latest requestSync ended
  abandoned,  \* history: some call returned with its request still pending
  workerAt,   \* where the inner worker is in its loop
  seenWord,   \* local `s` of the worker's loop
  request,    \* whose request the worker has read so far
  fetched     \* history: the requests passed to fetch, in order

creationVars == <<creation, readySent>>
bufferVars == <<ctrl, payload>>
callVars == <<call, seen, result, outcome, abandoned>>
workerVars == <<workerAt, seenWord, request, fetched>>
vars == <<creationVars, bufferVars, callerAt, callVars, workerVars>>

\* The four values of ctrl[0].
Idle == 0
Pending == 1
Ok == 2
Err == 3

Null == 0        \* the null of a failed call
Mangled == -1    \* bytes that belong to no single request or reply
ErrLen == -2     \* stands for the -1 stored in ctrl[1] when a fetch fails
NoLen == 0       \* the 0 stored in ctrl[1] with a new request

Req(c) == [kind |-> "request", of |-> c]
Reply(c) == [kind |-> "reply", of |-> c]

Init ==
  /\ creation = "creating"
  /\ readySent = FALSE
  /\ ctrl = [status |-> Idle, len |-> NoLen, words |-> 0]
  /\ payload = Req(0)
  /\ callerAt = "idle"
  /\ call = 0
  /\ seen = [status |-> Idle, len |-> NoLen]
  /\ result = Null
  /\ outcome = "none"
  /\ abandoned = FALSE
  /\ workerAt = "boot"
  /\ seenWord = Idle
  /\ request = 0
  /\ fetched = <<>>

-----------------------------------------------------------------------------
(* Creation and disposal.                                                  *)

Settles(how) == creation = "creating" /\ creation' = how

WorkerBoots ==   \* onmessage posts 'ready' and enters the loop
  /\ workerAt = "boot"
  /\ workerAt' = "top"
  /\ readySent' = TRUE
  /\ UNCHANGED <<creation, bufferVars, callerAt, callVars, seenWord, request, fetched>>

CreationResolves ==
  /\ readySent
  /\ Settles("ready")
  /\ UNCHANGED <<readySent, bufferVars, callerAt, callVars, workerVars>>

CreationTimesOut ==   \* the promise rejects; the worker is not terminated
  /\ Settles("failed")
  /\ UNCHANGED <<readySent, bufferVars, callerAt, callVars, workerVars>>

CreationErrors ==   \* worker.onerror: the script did not start
  /\ workerAt = "boot"
  /\ Settles("failed")
  /\ workerAt' = "dead"
  /\ UNCHANGED <<readySent, bufferVars, callerAt, callVars, seenWord, request, fetched>>

Dispose ==   \* runs on the guest thread, so only between calls
  /\ creation = "ready" /\ callerAt = "idle"
  /\ workerAt # "dead" /\ workerAt' = "dead"
  /\ UNCHANGED <<creationVars, bufferVars, callerAt, callVars, seenWord, request, fetched>>

-----------------------------------------------------------------------------
(* Atomics.wait and Atomics.notify on ctrl[0].                             *)

\* Mutant: the wait does not test the word.
SleepsBlindly(expected) == TRUE

\* Atomics.wait compares and goes to sleep in one indivisible step.
Sleeps(expected) == ctrl.status = expected

\* Atomics.notify wakes whoever sleeps on ctrl[0].
Woken(at) == IF at = "asleep" THEN "awake" ELSE at

-----------------------------------------------------------------------------
(* The guest thread in requestSync.                                        *)

CallBegins ==
  /\ creation = "ready" /\ callerAt = "idle"
  /\ call < MaxCalls
  /\ call' = call + 1
  /\ result' = Null
  /\ UNCHANGED <<creationVars, bufferVars, seen, abandoned, workerVars>>

CallRefused ==   \* the request does not fit the payload buffer
  CallBegins /\ callerAt' = "idle" /\ outcome' = "refused"

CallEnters ==
  CallBegins /\ callerAt' = "waitIdle" /\ outcome' = "none"

CallerMoves(from, to) ==
  /\ callerAt = from /\ callerAt' = to
  /\ UNCHANGED <<creationVars, call, workerVars>>

KeepsCall == UNCHANGED <<seen, result, outcome, abandoned>>

CallerFindsIdle ==   \* the polling loop ends once ctrl[0] is not PENDING
  /\ ctrl.status # Pending
  /\ CallerMoves("waitIdle", "fill")
  /\ KeepsCall /\ UNCHANGED bufferVars

CallerFillsPayload ==
  /\ CallerMoves("fill", "words")
  /\ payload' = Req(call)
  /\ KeepsCall /\ UNCHANGED ctrl

CallerStores(newCtrl) ==
  ctrl' = newCtrl /\ KeepsCall /\ UNCHANGED payload

CallerStoresWords ==
  CallerMoves("words", "clearLen") /\ CallerStores([ctrl EXCEPT !.words = call])

CallerClearsLen ==
  CallerMoves("clearLen", "publish") /\ CallerStores([ctrl EXCEPT !.len = NoLen])

CallerPublishes ==
  CallerMoves("publish", "notify") /\ CallerStores([ctrl EXCEPT !.status = Pending])

CallerNotifies ==
  /\ callerAt = "notify" /\ callerAt' = "wait"
  /\ workerAt' = Woken(workerAt)
  /\ UNCHANGED <<creationVars, bufferVars, callVars, seenWord, request, fetched>>

CallerWaits ==
  /\ CallerMoves("wait", IF Sleeps(Pending) THEN "asleep" ELSE "awake")
  /\ KeepsCall /\ UNCHANGED bufferVars

CallerTimesOut ==
  /\ CallerMoves("asleep", "timedOut")
  /\ KeepsCall /\ UNCHANGED bufferVars

\* requestSync ends with `value`; ctrl[0] was overwritten, so a request whose
\* end the caller did not see is left to the worker.
Returns(value, how) ==
  /\ result' = value
  /\ outcome' = how
  /\ abandoned' = (abandoned \/ how \in {"timeout", "stray"})
  /\ UNCHANGED <<payload, seen>>

\* Mutant: a timeout leaves the request PENDING.
AfterTimeoutPending == Pending

\* What the caller leaves in ctrl[0] when it gives a request up.
AfterTimeout == Idle

CallerGivesUp ==
  /\ CallerMoves("timedOut", "idle")
  /\ ctrl' = [ctrl EXCEPT !.status = AfterTimeout]
  /\ Returns(Null, "timeout")

CallerReadsStatus ==
  /\ CallerMoves("awake", "readLen")
  /\ seen' = [seen EXCEPT !.status = ctrl.status]
  /\ UNCHANGED <<bufferVars, result, outcome, abandoned>>

CallerReadsLen ==
  /\ CallerMoves("readLen", "release")
  /\ seen' = [seen EXCEPT !.len = ctrl.len]
  /\ UNCHANGED <<bufferVars, result, outcome, abandoned>>

\* Mutant: only the length decides, as for a status that need not be tested.
AnsweredByLen == seen.len # ErrLen

Answered == seen.status = Ok /\ seen.len # ErrLen

CallerReleases ==
  /\ ctrl' = [ctrl EXCEPT !.status = Idle]
  /\ \/ /\ Answered
        /\ CallerMoves("release", "slice")
        /\ KeepsCall /\ UNCHANGED payload
     \/ /\ ~Answered   \* the wait is not a loop: it may have woken to PENDING
        /\ CallerMoves("release", "idle")
        /\ Returns(Null, IF seen.status = Pending THEN "stray" ELSE "error")

\* payload.slice(0, n): a whole reply only if bytes and length belong together.
Sliced == IF payload = Reply(seen.len) THEN seen.len ELSE Mangled

CallerSlices ==
  /\ CallerMoves("slice", "idle")
  /\ Returns(Sliced, "reply")
  /\ UNCHANGED ctrl

CallerStep ==
  \/ CallerFindsIdle \/ CallerFillsPayload \/ CallerStoresWords \/ CallerClearsLen
  \/ CallerPublishes \/ CallerNotifies \/ CallerWaits \/ CallerTimesOut
  \/ CallerGivesUp \/ CallerReadsStatus \/ CallerReadsLen \/ CallerReleases
  \/ CallerSlices

-----------------------------------------------------------------------------
(* The inner worker's loop.                                                *)

WorkerMoves(from, to) ==
  /\ workerAt = from /\ workerAt' = to
  /\ UNCHANGED <<creationVars, callVars, seenWord>>

\* Mutants of the loop condition `while (s !== P)`.
AcceptsIdle(word) == word # Ok
AcceptsAnswered(word) == word # Idle

Accepts(word) == word = Pending

WorkerLoads ==   \* s = Atomics.load(ctrl, 0), at the top and after each wait
  /\ workerAt \in {"top", "awake"}
  /\ seenWord' = ctrl.status
  /\ workerAt' = IF Accepts(ctrl.status) THEN "readWords" ELSE "wait"
  /\ UNCHANGED <<creationVars, bufferVars, callerAt, callVars, request, fetched>>

WorkerWaits ==
  /\ WorkerMoves("wait", IF Sleeps(seenWord) THEN "asleep" ELSE "awake")
  /\ UNCHANGED <<bufferVars, callerAt, request, fetched>>

WorkerReadsWords ==
  /\ WorkerMoves("readWords", "readHead")
  /\ request' = ctrl.words
  /\ UNCHANGED <<bufferVars, callerAt, fetched>>

\* The bytes just read belong to the request read so far, or spoil it.
Joined == IF payload = Req(request) THEN request ELSE Mangled

WorkerReadsHead ==
  /\ WorkerMoves("readHead", "readTail")
  /\ request' = Joined
  /\ UNCHANGED <<bufferVars, callerAt, fetched>>

WorkerFetches ==   \* reads the rest of the payload and calls fetch
  /\ WorkerMoves("readTail", "fetching")
  /\ request' = Joined
  /\ fetched' = Append(fetched, Joined)
  /\ UNCHANGED <<bufferVars, callerAt>>

WorkerCopiesReply ==
  /\ WorkerMoves("fetching", "setLen")
  /\ payload' = Reply(request)
  /\ UNCHANGED <<ctrl, callerAt, request, fetched>>

WorkerStores(newCtrl) ==
  ctrl' = newCtrl /\ UNCHANGED <<payload, callerAt, request, fetched>>

WorkerStoresLen ==
  WorkerMoves("setLen", "setOk") /\ WorkerStores([ctrl EXCEPT !.len = request])

WorkerStoresOk ==
  WorkerMoves("setOk", "notify") /\ WorkerStores([ctrl EXCEPT !.status = Ok])

WorkerCatches ==   \* fetch or arrayBuffer rejects
  WorkerMoves("fetching", "setErr") /\ WorkerStores([ctrl EXCEPT !.len = ErrLen])

WorkerStoresErr ==
  WorkerMoves("setErr", "notify") /\ WorkerStores([ctrl EXCEPT !.status = Err])

WorkerNotifies ==
  /\ WorkerMoves("notify", "top")
  /\ callerAt' = Woken(callerAt)
  /\ UNCHANGED <<bufferVars, request, fetched>>

WorkerStep ==
  \/ WorkerLoads \/ WorkerWaits \/ WorkerReadsWords \/ WorkerReadsHead
  \/ WorkerFetches \/ WorkerCopiesReply \/ WorkerStoresLen \/ WorkerStoresOk
  \/ WorkerCatches \/ WorkerStoresErr \/ WorkerNotifies

-----------------------------------------------------------------------------
CreationStep ==
  \/ WorkerBoots \/ CreationResolves \/ CreationTimesOut \/ CreationErrors
  \/ Dispose

Next ==
  \/ CreationStep
  \/ CallRefused
  \/ CallEnters
  \/ CallerStep
  \/ WorkerStep

\* The browser keeps the guest thread running, and Atomics.wait returns when
\* its timeout has passed.  Nothing is assumed of the worker or the network.
Spec == Init /\ [][Next]_vars /\ WF_vars(CallerStep)

-----------------------------------------------------------------------------
(* Properties.                                                             *)

CallerPlaces ==
  {"idle", "waitIdle", "fill", "words", "clearLen", "publish", "notify", "wait",
   "asleep", "timedOut", "awake", "readLen", "release", "slice"}

WorkerPlaces ==
  {"boot", "top", "wait", "asleep", "awake", "readWords", "readHead", "readTail",
   "fetching", "setLen", "setOk", "setErr", "notify", "dead"}

Tags == Nat \cup {Mangled}
Lengths == Tags \cup {ErrLen}
Control == [status : Idle..Err, len : Lengths, words : Nat]

\* The types of every variable; a tag names a call, or is Mangled.  What goes
\* to fetch was written by some call, in whole or in part: the worker never
\* fetches from the buffer as it was created.
TypeOK ==
  /\ creation \in {"creating", "ready", "failed"}
  /\ readySent \in BOOLEAN
  /\ ctrl \in Control
  /\ payload \in [kind : {"request", "reply"}, of : Tags]
  /\ callerAt \in CallerPlaces
  /\ call \in 0..MaxCalls
  /\ seen \in [status : Idle..Err, len : Lengths]
  /\ result \in Tags
  /\ outcome \in {"none", "refused", "timeout", "stray", "error", "reply"}
  /\ abandoned \in BOOLEAN
  /\ workerAt \in WorkerPlaces
  /\ seenWord \in Idle..Err
  /\ request \in Tags
  /\ fetched \in Seq(Tags)
  /\ \A i \in 1..Len(fetched) : fetched[i] \in 1..call \cup {Mangled}

\* A guest asleep on ctrl[0] while the word is no longer PENDING is about to
\* be notified: the answer cannot slip in between the guest's test of the word
\* and its sleep (http-post-bridge.js, Atomics.wait against STATUS_PENDING).
NoLostWakeup ==
  callerAt = "asleep" /\ ctrl.status # Pending => workerAt = "notify"

\* Until some call has been abandoned (timed out, or woken by a notification
\* that was not for it), a call returns null or the reply to that very call.
OwnReplyUntilAbandoned == ~abandoned => result \in {Null, call}

\* Until some call has been abandoned, whatever the worker passes to fetch is
\* a whole request of the guest, and no request is passed to fetch twice.
FetchedAsIssuedOnce ==
  ~abandoned =>
    /\ \A i \in 1..Len(fetched) : fetched[i] \in 1..call
    /\ \A i, j \in 1..Len(fetched) : i < j => fetched[i] < fetched[j]

CallerUsesBuffer == callerAt \in {"fill", "words", "clearLen", "publish", "slice"}
WorkerUsesBuffer == workerAt \in {"readWords", "readHead", "readTail", "fetching",
                                  "setLen", "setOk", "setErr"}

\* Until some call has been abandoned, the two threads are never both inside
\* the part of their code that copies into or out of the shared buffers.
ExclusiveBuffer == ~abandoned => ~(CallerUsesBuffer /\ WorkerUsesBuffer)

\* Abandoned calls or not, the network sees no more requests than the guest
\* made calls: a late or failed answer is never taken for a new request.
NoExtraFetch == Len(fetched) <= call

\* What the worker fetches: until a call is abandoned whole requests, in order,
\* each at most once and never while the guest writes; and even after it never
\* more often than the guest called (lines 66-95 and 149-163).
FetchesSound == FetchedAsIssuedOnce /\ ExclusiveBuffer /\ NoExtraFetch

\* Every requestSync returns, whatever the worker and the network do.
EveryCallReturns == callerAt # "idle" ~> callerAt = "idle"

\* What llm_infer documents of the bridge: it reads back the completion of the
\* prompt it posted ("POSTs the raw prompt bytes to and reads the raw
\* completion text back from", kotoba-wasm-worker-host.js), never the reply to
\* an earlier call.
OwnReplyAlways == result > 0 => result = call
=============================================================================
