------------------------ MODULE SabPostBridge_proofs ------------------------
(***************************************************************************)
(* Proofs about SabPostBridge, for every bound MaxCalls on the number of   *)
(* calls.  The inductive invariant IInv has three layers.                  *)
(*   Ranges      where the words and the request of a call are set;        *)
(*   Budget      how many fetches the calls made so far still allow;       *)
(*   Hygiene     until a call is abandoned: who owns the buffer, and whose *)
(*               bytes are in it at each place of the two threads.         *)
(* The first two and NoLostWakeup also hold after a call was abandoned.    *)
(***************************************************************************)
EXTENDS SabPostBridge, TLAPS

(* The places of the guest thread by what it has done for its call.        *)
Preparing == {"waitIdle", "fill", "words", "clearLen", "publish"}
Published == {"notify", "wait", "asleep", "timedOut", "awake", "readLen", "release"}
WordsStored == {"clearLen", "publish", "slice"} \cup Published

(* The places of the worker by what it has done for the request.           *)
Seeking == {"boot", "top", "wait", "asleep", "awake", "notify"}
Reading == {"readWords", "readHead", "readTail"}
Answering == {"fetching", "setLen", "setOk", "setErr"}
HasRequest == {"readHead", "readTail"} \cup Answering

Ranges ==
  /\ callerAt # "idle" => call > 0
  /\ ctrl.words <= call
  /\ ctrl.status # Idle \/ callerAt \in WordsStored \/ workerAt \in Reading \cup Answering =>
       ctrl.words > 0
  /\ workerAt \in HasRequest => request \in 1..call \cup {Mangled}

(* Outside the part of requestSync that publishes and waits, ctrl[0] is    *)
(* not PENDING.                                                            *)
NotPending == callerAt \notin Published => ctrl.status # Pending

(* The fetches the latest call may still cause: one while it is being      *)
(* prepared, and one while a PENDING request is there to be taken or has   *)
(* been taken.                                                             *)
CallDue == IF callerAt \in Preparing THEN 1 ELSE 0
FetchDue ==
  IF workerAt \in Reading \/ (workerAt \in Seeking /\ ctrl.status = Pending) THEN 1 ELSE 0

Budget == Len(fetched) + CallDue + FetchDue <= call

(* The worker is at work on the request only while it is PENDING, so never *)
(* while the guest prepares a call or copies a reply.                      *)
Ownership ==
  /\ callerAt \notin Published => ~WorkerUsesBuffer
  /\ WorkerUsesBuffer => ctrl.status = Pending

(* Whose bytes the buffers hold once a call is published.                  *)
Contents ==
  /\ callerAt \in {"clearLen", "publish"} \cup Published => ctrl.words = call
  /\ callerAt \in {"words", "clearLen", "publish"} => payload = Req(call)
  /\ callerAt \in Published =>
       /\ ctrl.status # Idle
       /\ ctrl.status = Pending /\ workerAt \notin {"setLen", "setOk"} => payload = Req(call)
       /\ ctrl.status = Ok => payload = Reply(call) /\ ctrl.len = call
  /\ workerAt \in HasRequest => request = call
  /\ workerAt \in {"setLen", "setOk"} => payload = Reply(call)
  /\ workerAt = "setOk" => ctrl.len = call

(* What the guest has read of the answer is still what the buffers hold.   *)
Answer ==
  /\ callerAt \in {"readLen", "release"} =>
       /\ seen.status # Idle
       /\ seen.status # Pending => ctrl.status = seen.status
  /\ callerAt = "release" /\ seen.status = Ok => seen.len = call
  /\ callerAt = "slice" => payload = Reply(call) /\ seen.len = call
  /\ callerAt # "idle" => result = Null
  /\ result \in {Null, call}

(* The requests fetched so far are those of earlier calls while the latest *)
(* one is not fetched yet.                                                 *)
Unfetched ==
  callerAt \in Preparing \/ (ctrl.status = Pending /\ workerAt \notin Answering)

History ==
  /\ \A i \in 1..Len(fetched) : fetched[i] \in 1..call
  /\ \A i, j \in 1..Len(fetched) : i < j => fetched[i] < fetched[j]
  /\ Unfetched => \A i \in 1..Len(fetched) : fetched[i] < call

Hygiene == ~abandoned => Ownership /\ Contents /\ Answer /\ History

(* The inductive invariant.                                                *)
IInv == TypeOK /\ Ranges /\ NotPending /\ NoLostWakeup /\ Budget /\ Hygiene

-----------------------------------------------------------------------------
(* Each part of the invariant is kept by every step.                       *)

(* Every step keeps the types.                                             *)
LEMMA TypeOKStep ==
  TypeOK /\ Ranges /\ [Next]_vars => TypeOK'
<1> SUFFICES ASSUME TypeOK, Ranges, [Next]_vars PROVE TypeOK'
  OBVIOUS
<1> USE DEF TypeOK, CallerPlaces, WorkerPlaces, Tags, Lengths, Control, Idle, Pending, Ok, Err,
  Null, Mangled, ErrLen, NoLen, Req, Reply,
  Ranges, Reading, HasRequest, Answering,
  vars, creationVars, bufferVars, callVars, workerVars
<1>1. CASE WorkerBoots
  BY <1>1 DEF WorkerBoots
<1>2. CASE CreationResolves
  BY <1>2 DEF CreationResolves, Settles
<1>3. CASE CreationTimesOut
  BY <1>3 DEF CreationTimesOut, Settles
<1>4. CASE CreationErrors
  BY <1>4 DEF CreationErrors, Settles
<1>5. CASE Dispose
  BY <1>5 DEF Dispose
<1>6. CASE CallRefused
  BY <1>6, MaxCallsAssumption DEF CallRefused, CallBegins
<1>7. CASE CallEnters
  BY <1>7, MaxCallsAssumption DEF CallEnters, CallBegins
<1>8. CASE CallerFindsIdle
  BY <1>8 DEF CallerFindsIdle, CallerMoves, KeepsCall
<1>9. CASE CallerFillsPayload
  BY <1>9 DEF CallerFillsPayload, CallerMoves, KeepsCall
<1>10. CASE CallerStoresWords
  <2>1. ctrl' \in Control
    BY <1>10 DEF CallerStoresWords, CallerMoves, CallerStores, KeepsCall
  <2>2. QED
    BY <1>10, <2>1 DEF CallerStoresWords, CallerMoves, CallerStores, KeepsCall
<1>11. CASE CallerClearsLen
  <2>1. ctrl' \in Control
    BY <1>11 DEF CallerClearsLen, CallerMoves, CallerStores, KeepsCall
  <2>2. QED
    BY <1>11, <2>1 DEF CallerClearsLen, CallerMoves, CallerStores, KeepsCall
<1>12. CASE CallerPublishes
  <2>1. ctrl' \in Control
    BY <1>12 DEF CallerPublishes, CallerMoves, CallerStores, KeepsCall
  <2>2. QED
    BY <1>12, <2>1 DEF CallerPublishes, CallerMoves, CallerStores, KeepsCall
<1>13. CASE CallerNotifies
  BY <1>13 DEF CallerNotifies, Woken
<1>14. CASE CallerWaits
  BY <1>14 DEF CallerWaits, CallerMoves, KeepsCall, Sleeps
<1>15. CASE CallerTimesOut
  BY <1>15 DEF CallerTimesOut, CallerMoves, KeepsCall
<1>16. CASE CallerGivesUp
  <2>1. ctrl' \in Control
    BY <1>16 DEF CallerGivesUp, CallerMoves, Returns, AfterTimeout
  <2>2. QED
    BY <1>16, <2>1 DEF CallerGivesUp, CallerMoves, Returns, AfterTimeout
<1>17. CASE CallerReadsStatus
  BY <1>17 DEF CallerReadsStatus, CallerMoves
<1>18. CASE CallerReadsLen
  BY <1>18 DEF CallerReadsLen, CallerMoves
<1>19. CASE CallerReleases
  <2>1. CASE Answered
    <3>1. ctrl' \in Control
      BY <1>19 DEF CallerReleases
    <3>2. QED
      BY <1>19, <2>1, <3>1 DEF CallerReleases, CallerMoves, KeepsCall
  <2>2. CASE ~Answered
    <3>1. ctrl' \in Control
      BY <1>19 DEF CallerReleases
    <3>2. outcome' = IF seen.status = Pending THEN "stray" ELSE "error"
      BY <1>19, <2>2 DEF CallerReleases, Returns
    <3>3. outcome' \in {"stray", "error"}
      BY <3>2
    <3>4. result' = Null /\ seen' = seen /\ payload' = payload /\ callerAt' = "idle"
      BY <1>19, <2>2 DEF CallerReleases, CallerMoves, Returns
    <3>5. abandoned' \in BOOLEAN
      BY <1>19, <2>2, Zenon DEF CallerReleases, Returns
    <3>6. QED
      BY <1>19, <3>1, <3>3, <3>4, <3>5 DEF CallerReleases, CallerMoves
  <2>3. QED
    BY <2>1, <2>2
<1>20. CASE CallerSlices
  BY <1>20 DEF CallerSlices, CallerMoves, Returns, Sliced
<1>21. CASE WorkerLoads
  BY <1>21 DEF WorkerLoads, Accepts
<1>22. CASE WorkerWaits
  BY <1>22 DEF WorkerWaits, WorkerMoves, Sleeps
<1>23. CASE WorkerReadsWords
  BY <1>23 DEF WorkerReadsWords, WorkerMoves
<1>24. CASE WorkerReadsHead
  BY <1>24 DEF WorkerReadsHead, WorkerMoves, Joined
<1>25. CASE WorkerFetches
  BY <1>25 DEF WorkerFetches, WorkerMoves, Joined
<1>26. CASE WorkerCopiesReply
  BY <1>26 DEF WorkerCopiesReply, WorkerMoves
<1>27. CASE WorkerStoresLen
  <2>1. ctrl' \in Control
    BY <1>27 DEF WorkerStoresLen, WorkerMoves, WorkerStores
  <2>2. QED
    BY <1>27, <2>1 DEF WorkerStoresLen, WorkerMoves, WorkerStores
<1>28. CASE WorkerStoresOk
  <2>1. ctrl' \in Control
    BY <1>28 DEF WorkerStoresOk, WorkerMoves, WorkerStores
  <2>2. QED
    BY <1>28, <2>1 DEF WorkerStoresOk, WorkerMoves, WorkerStores
<1>29. CASE WorkerCatches
  <2>1. ctrl' \in Control
    BY <1>29 DEF WorkerCatches, WorkerMoves, WorkerStores
  <2>2. QED
    BY <1>29, <2>1 DEF WorkerCatches, WorkerMoves, WorkerStores
<1>30. CASE WorkerStoresErr
  <2>1. ctrl' \in Control
    BY <1>30 DEF WorkerStoresErr, WorkerMoves, WorkerStores
  <2>2. QED
    BY <1>30, <2>1 DEF WorkerStoresErr, WorkerMoves, WorkerStores
<1>31. CASE WorkerNotifies
  BY <1>31 DEF WorkerNotifies, WorkerMoves, Woken
<1>32. CASE UNCHANGED vars
  BY <1>32
<1>33. QED
  BY <1>1, <1>2, <1>3, <1>4, <1>5, <1>6, <1>7, <1>8, <1>9, <1>10, <1>11, <1>12, <1>13, <1>14, <1>15, <1>16, <1>17, <1>18, <1>19, <1>20, <1>21, <1>22, <1>23, <1>24, <1>25, <1>26, <1>27, <1>28, <1>29, <1>30, <1>31, <1>32
  DEF Next, CreationStep, CallerStep, WorkerStep

(* Every step keeps the ranges: words and request name a call once they    *)
(* have been stored or read.                                               *)
LEMMA RangesStep ==
  TypeOK /\ Ranges /\ [Next]_vars => Ranges'
<1> SUFFICES ASSUME TypeOK, Ranges, [Next]_vars PROVE Ranges'
  OBVIOUS
<1> USE DEF TypeOK, CallerPlaces, WorkerPlaces, Tags, Lengths, Control, Idle, Pending, Ok, Err,
  Null, Mangled, ErrLen, NoLen, Req, Reply,
  Ranges, WordsStored, Published, Preparing, Reading, HasRequest, Answering,
  vars, creationVars, bufferVars, callVars, workerVars
<1>1. CASE WorkerBoots
  BY <1>1 DEF WorkerBoots
<1>2. CASE CreationResolves
  BY <1>2 DEF CreationResolves, Settles
<1>3. CASE CreationTimesOut
  BY <1>3 DEF CreationTimesOut, Settles
<1>4. CASE CreationErrors
  BY <1>4 DEF CreationErrors, Settles
<1>5. CASE Dispose
  BY <1>5 DEF Dispose
<1>6. CASE CallRefused
  BY <1>6, MaxCallsAssumption DEF CallRefused, CallBegins
<1>7. CASE CallEnters
  BY <1>7, MaxCallsAssumption DEF CallEnters, CallBegins
<1>8. CASE CallerFindsIdle
  BY <1>8 DEF CallerFindsIdle, CallerMoves, KeepsCall
<1>9. CASE CallerFillsPayload
  BY <1>9 DEF CallerFillsPayload, CallerMoves, KeepsCall
<1>10. CASE CallerStoresWords
  BY <1>10 DEF CallerStoresWords, CallerMoves, CallerStores, KeepsCall
<1>11. CASE CallerClearsLen
  BY <1>11 DEF CallerClearsLen, CallerMoves, CallerStores, KeepsCall
<1>12. CASE CallerPublishes
  BY <1>12 DEF CallerPublishes, CallerMoves, CallerStores, KeepsCall
<1>13. CASE CallerNotifies
  BY <1>13 DEF CallerNotifies, Woken
<1>14. CASE CallerWaits
  BY <1>14 DEF CallerWaits, CallerMoves, KeepsCall, Sleeps
<1>15. CASE CallerTimesOut
  BY <1>15 DEF CallerTimesOut, CallerMoves, KeepsCall
<1>16. CASE CallerGivesUp
  BY <1>16 DEF CallerGivesUp, CallerMoves, Returns, AfterTimeout
<1>17. CASE CallerReadsStatus
  BY <1>17 DEF CallerReadsStatus, CallerMoves
<1>18. CASE CallerReadsLen
  BY <1>18 DEF CallerReadsLen, CallerMoves
<1>19. CASE CallerReleases
  <2>1. CASE Answered
    BY <1>19, <2>1 DEF CallerReleases, CallerMoves, KeepsCall, Returns, Answered
  <2>2. CASE ~Answered
    BY <1>19, <2>2 DEF CallerReleases, CallerMoves, KeepsCall, Returns, Answered
  <2>3. QED
    BY <2>1, <2>2
<1>20. CASE CallerSlices
  BY <1>20 DEF CallerSlices, CallerMoves, Returns, Sliced
<1>21. CASE WorkerLoads
  BY <1>21 DEF WorkerLoads, Accepts
<1>22. CASE WorkerWaits
  BY <1>22 DEF WorkerWaits, WorkerMoves, Sleeps
<1>23. CASE WorkerReadsWords
  BY <1>23 DEF WorkerReadsWords, WorkerMoves
<1>24. CASE WorkerReadsHead
  BY <1>24 DEF WorkerReadsHead, WorkerMoves, Joined
<1>25. CASE WorkerFetches
  BY <1>25 DEF WorkerFetches, WorkerMoves, Joined
<1>26. CASE WorkerCopiesReply
  BY <1>26 DEF WorkerCopiesReply, WorkerMoves
<1>27. CASE WorkerStoresLen
  BY <1>27 DEF WorkerStoresLen, WorkerMoves, WorkerStores
<1>28. CASE WorkerStoresOk
  BY <1>28 DEF WorkerStoresOk, WorkerMoves, WorkerStores
<1>29. CASE WorkerCatches
  BY <1>29 DEF WorkerCatches, WorkerMoves, WorkerStores
<1>30. CASE WorkerStoresErr
  BY <1>30 DEF WorkerStoresErr, WorkerMoves, WorkerStores
<1>31. CASE WorkerNotifies
  BY <1>31 DEF WorkerNotifies, WorkerMoves, Woken
<1>32. CASE UNCHANGED vars
  BY <1>32
<1>33. QED
  BY <1>1, <1>2, <1>3, <1>4, <1>5, <1>6, <1>7, <1>8, <1>9, <1>10, <1>11, <1>12, <1>13, <1>14, <1>15, <1>16, <1>17, <1>18, <1>19, <1>20, <1>21, <1>22, <1>23, <1>24, <1>25, <1>26, <1>27, <1>28, <1>29, <1>30, <1>31, <1>32
  DEF Next, CreationStep, CallerStep, WorkerStep

(* Every step keeps NotPending: only CallerPublishes stores PENDING, and the *)
(* call it publishes for stores something else before it ends.              *)
LEMMA NotPendingStep ==
  TypeOK /\ NotPending /\ [Next]_vars => NotPending'
<1> SUFFICES ASSUME TypeOK, NotPending, [Next]_vars PROVE NotPending'
  OBVIOUS
<1> USE DEF TypeOK, Control, NotPending, Published, Idle, Pending, Ok, Err, 
  vars, creationVars, bufferVars, callVars, workerVars
<1>1. CASE WorkerBoots
  BY <1>1 DEF WorkerBoots
<1>2. CASE CreationResolves
  BY <1>2 DEF CreationResolves, Settles
<1>3. CASE CreationTimesOut
  BY <1>3 DEF CreationTimesOut, Settles
<1>4. CASE CreationErrors
  BY <1>4 DEF CreationErrors, Settles
<1>5. CASE Dispose
  BY <1>5 DEF Dispose
<1>6. CASE CallRefused
  BY <1>6, MaxCallsAssumption DEF CallRefused, CallBegins
<1>7. CASE CallEnters
  BY <1>7, MaxCallsAssumption DEF CallEnters, CallBegins
<1>8. CASE CallerFindsIdle
  BY <1>8 DEF CallerFindsIdle, CallerMoves, KeepsCall
<1>9. CASE CallerFillsPayload
  BY <1>9 DEF CallerFillsPayload, CallerMoves, KeepsCall
<1>10. CASE CallerStoresWords
  BY <1>10 DEF CallerStoresWords, CallerMoves, CallerStores, KeepsCall
<1>11. CASE CallerClearsLen
  BY <1>11 DEF CallerClearsLen, CallerMoves, CallerStores, KeepsCall
<1>12. CASE CallerPublishes
  BY <1>12 DEF CallerPublishes, CallerMoves, CallerStores, KeepsCall
<1>13. CASE CallerNotifies
  BY <1>13 DEF CallerNotifies, Woken
<1>14. CASE CallerWaits
  BY <1>14 DEF CallerWaits, CallerMoves, KeepsCall, Sleeps
<1>15. CASE CallerTimesOut
  BY <1>15 DEF CallerTimesOut, CallerMoves, KeepsCall
<1>16. CASE CallerGivesUp
  BY <1>16 DEF CallerGivesUp, CallerMoves, Returns, AfterTimeout
<1>17. CASE CallerReadsStatus
  BY <1>17 DEF CallerReadsStatus, CallerMoves
<1>18. CASE CallerReadsLen
  BY <1>18 DEF CallerReadsLen, CallerMoves
<1>19. CASE CallerReleases
  <2>1. CASE Answered
    BY <1>19, <2>1 DEF CallerReleases, CallerMoves, KeepsCall, Returns, Answered
  <2>2. CASE ~Answered
    BY <1>19, <2>2 DEF CallerReleases, CallerMoves, KeepsCall, Returns, Answered
  <2>3. QED
    BY <2>1, <2>2
<1>20. CASE CallerSlices
  BY <1>20 DEF CallerSlices, CallerMoves, Returns, Sliced
<1>21. CASE WorkerLoads
  BY <1>21 DEF WorkerLoads, Accepts
<1>22. CASE WorkerWaits
  BY <1>22 DEF WorkerWaits, WorkerMoves, Sleeps
<1>23. CASE WorkerReadsWords
  BY <1>23 DEF WorkerReadsWords, WorkerMoves
<1>24. CASE WorkerReadsHead
  BY <1>24 DEF WorkerReadsHead, WorkerMoves, Joined
<1>25. CASE WorkerFetches
  BY <1>25 DEF WorkerFetches, WorkerMoves, Joined
<1>26. CASE WorkerCopiesReply
  BY <1>26 DEF WorkerCopiesReply, WorkerMoves
<1>27. CASE WorkerStoresLen
  BY <1>27 DEF WorkerStoresLen, WorkerMoves, WorkerStores
<1>28. CASE WorkerStoresOk
  BY <1>28 DEF WorkerStoresOk, WorkerMoves, WorkerStores
<1>29. CASE WorkerCatches
  BY <1>29 DEF WorkerCatches, WorkerMoves, WorkerStores
<1>30. CASE WorkerStoresErr
  BY <1>30 DEF WorkerStoresErr, WorkerMoves, WorkerStores
<1>31. CASE WorkerNotifies
  BY <1>31 DEF WorkerNotifies, WorkerMoves, Woken
<1>32. CASE UNCHANGED vars
  BY <1>32
<1>33. QED
  BY <1>1, <1>2, <1>3, <1>4, <1>5, <1>6, <1>7, <1>8, <1>9, <1>10, <1>11, <1>12, <1>13, <1>14, <1>15, <1>16, <1>17, <1>18, <1>19, <1>20, <1>21, <1>22, <1>23, <1>24, <1>25, <1>26, <1>27, <1>28, <1>29, <1>30, <1>31, <1>32
  DEF Next, CreationStep, CallerStep, WorkerStep

(* Every step keeps NoLostWakeup: the worker's stores to ctrl[0] are each   *)
(* followed by its notify.                                                  *)
LEMMA WakeupStep ==
  TypeOK /\ NoLostWakeup /\ [Next]_vars => NoLostWakeup'
<1> SUFFICES ASSUME TypeOK, NoLostWakeup, [Next]_vars PROVE NoLostWakeup'
  OBVIOUS
<1> USE DEF TypeOK, Control, NoLostWakeup, Idle, Pending, Ok, Err,
  vars, creationVars, bufferVars, callVars, workerVars
<1>1. CASE WorkerBoots
  BY <1>1 DEF WorkerBoots
<1>2. CASE CreationResolves
  BY <1>2 DEF CreationResolves, Settles
<1>3. CASE CreationTimesOut
  BY <1>3 DEF CreationTimesOut, Settles
<1>4. CASE CreationErrors
  BY <1>4 DEF CreationErrors, Settles
<1>5. CASE Dispose
  BY <1>5 DEF Dispose
<1>6. CASE CallRefused
  BY <1>6, MaxCallsAssumption DEF CallRefused, CallBegins
<1>7. CASE CallEnters
  BY <1>7, MaxCallsAssumption DEF CallEnters, CallBegins
<1>8. CASE CallerFindsIdle
  BY <1>8 DEF CallerFindsIdle, CallerMoves, KeepsCall
<1>9. CASE CallerFillsPayload
  BY <1>9 DEF CallerFillsPayload, CallerMoves, KeepsCall
<1>10. CASE CallerStoresWords
  BY <1>10 DEF CallerStoresWords, CallerMoves, CallerStores, KeepsCall
<1>11. CASE CallerClearsLen
  BY <1>11 DEF CallerClearsLen, CallerMoves, CallerStores, KeepsCall
<1>12. CASE CallerPublishes
  BY <1>12 DEF CallerPublishes, CallerMoves, CallerStores, KeepsCall
<1>13. CASE CallerNotifies
  BY <1>13 DEF CallerNotifies, Woken
<1>14. CASE CallerWaits
  BY <1>14 DEF CallerWaits, CallerMoves, KeepsCall, Sleeps
<1>15. CASE CallerTimesOut
  BY <1>15 DEF CallerTimesOut, CallerMoves, KeepsCall
<1>16. CASE CallerGivesUp
  BY <1>16 DEF CallerGivesUp, CallerMoves, Returns, AfterTimeout
<1>17. CASE CallerReadsStatus
  BY <1>17 DEF CallerReadsStatus, CallerMoves
<1>18. CASE CallerReadsLen
  BY <1>18 DEF CallerReadsLen, CallerMoves
<1>19. CASE CallerReleases
  <2>1. CASE Answered
    BY <1>19, <2>1 DEF CallerReleases, CallerMoves, KeepsCall, Returns, Answered
  <2>2. CASE ~Answered
    BY <1>19, <2>2 DEF CallerReleases, CallerMoves, KeepsCall, Returns, Answered
  <2>3. QED
    BY <2>1, <2>2
<1>20. CASE CallerSlices
  BY <1>20 DEF CallerSlices, CallerMoves, Returns, Sliced
<1>21. CASE WorkerLoads
  BY <1>21 DEF WorkerLoads, Accepts
<1>22. CASE WorkerWaits
  BY <1>22 DEF WorkerWaits, WorkerMoves, Sleeps
<1>23. CASE WorkerReadsWords
  BY <1>23 DEF WorkerReadsWords, WorkerMoves
<1>24. CASE WorkerReadsHead
  BY <1>24 DEF WorkerReadsHead, WorkerMoves, Joined
<1>25. CASE WorkerFetches
  BY <1>25 DEF WorkerFetches, WorkerMoves, Joined
<1>26. CASE WorkerCopiesReply
  BY <1>26 DEF WorkerCopiesReply, WorkerMoves
<1>27. CASE WorkerStoresLen
  BY <1>27 DEF WorkerStoresLen, WorkerMoves, WorkerStores
<1>28. CASE WorkerStoresOk
  BY <1>28 DEF WorkerStoresOk, WorkerMoves, WorkerStores
<1>29. CASE WorkerCatches
  BY <1>29 DEF WorkerCatches, WorkerMoves, WorkerStores
<1>30. CASE WorkerStoresErr
  BY <1>30 DEF WorkerStoresErr, WorkerMoves, WorkerStores
<1>31. CASE WorkerNotifies
  BY <1>31 DEF WorkerNotifies, WorkerMoves, Woken
<1>32. CASE UNCHANGED vars
  BY <1>32
<1>33. QED
  BY <1>1, <1>2, <1>3, <1>4, <1>5, <1>6, <1>7, <1>8, <1>9, <1>10, <1>11, <1>12, <1>13, <1>14, <1>15, <1>16, <1>17, <1>18, <1>19, <1>20, <1>21, <1>22, <1>23, <1>24, <1>25, <1>26, <1>27, <1>28, <1>29, <1>30, <1>31, <1>32
  DEF Next, CreationStep, CallerStep, WorkerStep

(* Every step keeps the budget: a fetch is paid for by the call that was    *)
(* published, and a call publishes once.                                    *)
LEMMA BudgetStep ==
  TypeOK /\ Budget /\ [Next]_vars => Budget'
<1> SUFFICES ASSUME TypeOK, Budget, [Next]_vars PROVE Budget'
  OBVIOUS
<1>0. /\ call \in Nat /\ fetched \in Seq(Tags) /\ Len(fetched) \in Nat
      /\ ctrl = [status |-> ctrl.status, len |-> ctrl.len, words |-> ctrl.words]
  BY DEF TypeOK, Control
<1> USE DEF Idle, Pending, Ok, Err,
  Budget, CallDue, FetchDue, Seeking, Reading, Answering, Preparing,
  vars, creationVars, bufferVars, callVars, workerVars
<1>1. CASE WorkerBoots
  BY <1>0, <1>1 DEF WorkerBoots
<1>2. CASE CreationResolves
  BY <1>0, <1>2 DEF CreationResolves, Settles
<1>3. CASE CreationTimesOut
  BY <1>0, <1>3 DEF CreationTimesOut, Settles
<1>4. CASE CreationErrors
  <2>1. CallDue' = 0 \/ CallDue' = CallDue
    BY <1>4 DEF CreationErrors, Settles
  <2>2. FetchDue' = 0 \/ FetchDue' = FetchDue
    BY <1>0, <1>4 DEF CreationErrors, Settles
  <2>3. Len(fetched') = Len(fetched) /\ call' = call
    BY <1>4 DEF CreationErrors, Settles
  <2>4. CallDue \in 0..1 /\ FetchDue \in 0..1
    OBVIOUS
  <2> HIDE DEF CallDue, FetchDue
  <2>5. QED
    BY <1>0, <2>1, <2>2, <2>3, <2>4
<1>5. CASE Dispose
  BY <1>0, <1>5 DEF Dispose
<1>6. CASE CallRefused
  BY <1>0, <1>6, MaxCallsAssumption DEF CallRefused, CallBegins
<1>7. CASE CallEnters
  BY <1>0, <1>7, MaxCallsAssumption DEF CallEnters, CallBegins
<1>8. CASE CallerFindsIdle
  BY <1>0, <1>8 DEF CallerFindsIdle, CallerMoves, KeepsCall
<1>9. CASE CallerFillsPayload
  BY <1>0, <1>9 DEF CallerFillsPayload, CallerMoves, KeepsCall
<1>10. CASE CallerStoresWords
  BY <1>0, <1>10 DEF CallerStoresWords, CallerMoves, CallerStores, KeepsCall
<1>11. CASE CallerClearsLen
  BY <1>0, <1>11 DEF CallerClearsLen, CallerMoves, CallerStores, KeepsCall
<1>12. CASE CallerPublishes
  BY <1>0, <1>12 DEF CallerPublishes, CallerMoves, CallerStores, KeepsCall
<1>13. CASE CallerNotifies
  BY <1>0, <1>13 DEF CallerNotifies, Woken
<1>14. CASE CallerWaits
  BY <1>0, <1>14 DEF CallerWaits, CallerMoves, KeepsCall, Sleeps
<1>15. CASE CallerTimesOut
  BY <1>0, <1>15 DEF CallerTimesOut, CallerMoves, KeepsCall
<1>16. CASE CallerGivesUp
  BY <1>0, <1>16 DEF CallerGivesUp, CallerMoves, Returns, AfterTimeout
<1>17. CASE CallerReadsStatus
  BY <1>0, <1>17 DEF CallerReadsStatus, CallerMoves
<1>18. CASE CallerReadsLen
  BY <1>0, <1>18 DEF CallerReadsLen, CallerMoves
<1>19. CASE CallerReleases
  <2>1. CallDue' = 0 \/ CallDue' = CallDue
    BY <1>19 DEF CallerReleases, CallerMoves, KeepsCall, Returns, Answered
  <2>2. FetchDue' = 0 \/ FetchDue' = FetchDue
    BY <1>0, <1>19 DEF CallerReleases, CallerMoves, KeepsCall, Returns, Answered
  <2>3. Len(fetched') = Len(fetched) /\ call' = call
    BY <1>19 DEF CallerReleases, CallerMoves, KeepsCall, Returns, Answered
  <2>4. CallDue \in 0..1 /\ FetchDue \in 0..1
    OBVIOUS
  <2> HIDE DEF CallDue, FetchDue
  <2>5. QED
    BY <1>0, <2>1, <2>2, <2>3, <2>4
<1>20. CASE CallerSlices
  BY <1>0, <1>20 DEF CallerSlices, CallerMoves, Returns, Sliced
<1>21. CASE WorkerLoads
  BY <1>0, <1>21 DEF WorkerLoads, Accepts
<1>22. CASE WorkerWaits
  BY <1>0, <1>22 DEF WorkerWaits, WorkerMoves, Sleeps
<1>23. CASE WorkerReadsWords
  BY <1>0, <1>23 DEF WorkerReadsWords, WorkerMoves
<1>24. CASE WorkerReadsHead
  BY <1>0, <1>24 DEF WorkerReadsHead, WorkerMoves, Joined
<1>25. CASE WorkerFetches
  BY <1>0, <1>25 DEF WorkerFetches, WorkerMoves, Joined
<1>26. CASE WorkerCopiesReply
  BY <1>0, <1>26 DEF WorkerCopiesReply, WorkerMoves
<1>27. CASE WorkerStoresLen
  BY <1>0, <1>27 DEF WorkerStoresLen, WorkerMoves, WorkerStores
<1>28. CASE WorkerStoresOk
  BY <1>0, <1>28 DEF WorkerStoresOk, WorkerMoves, WorkerStores
<1>29. CASE WorkerCatches
  BY <1>0, <1>29 DEF WorkerCatches, WorkerMoves, WorkerStores
<1>30. CASE WorkerStoresErr
  BY <1>0, <1>30 DEF WorkerStoresErr, WorkerMoves, WorkerStores
<1>31. CASE WorkerNotifies
  BY <1>0, <1>31 DEF WorkerNotifies, WorkerMoves, Woken
<1>32. CASE UNCHANGED vars
  BY <1>0, <1>32
<1>33. QED
  BY <1>1, <1>2, <1>3, <1>4, <1>5, <1>6, <1>7, <1>8, <1>9, <1>10, <1>11, <1>12, <1>13, <1>14, <1>15, <1>16, <1>17, <1>18, <1>19, <1>20, <1>21, <1>22, <1>23, <1>24, <1>25, <1>26, <1>27, <1>28, <1>29, <1>30, <1>31, <1>32
  DEF Next, CreationStep, CallerStep, WorkerStep

(* Every step that abandons no call leaves the buffers with one owner.      *)
LEMMA OwnershipStep ==
  TypeOK /\ NotPending /\ Ownership /\ Answer /\ [Next]_vars => (~abandoned' => Ownership')
<1> SUFFICES ASSUME TypeOK, NotPending, Ownership, Answer, [Next]_vars PROVE (~abandoned' => Ownership')
  OBVIOUS
<1> USE DEF TypeOK, CallerPlaces, WorkerPlaces, Tags, Lengths, Control, Idle, Pending, Ok, Err,
  Null, Mangled, ErrLen, NoLen, Req, Reply,
  Ownership, Answer, Unfetched, WorkerUsesBuffer, NotPending, WordsStored, Published, Preparing, Reading, HasRequest, Answering,
  vars, creationVars, bufferVars, callVars, workerVars
<1>1. CASE WorkerBoots
  BY <1>1 DEF WorkerBoots
<1>2. CASE CreationResolves
  BY <1>2 DEF CreationResolves, Settles
<1>3. CASE CreationTimesOut
  BY <1>3 DEF CreationTimesOut, Settles
<1>4. CASE CreationErrors
  BY <1>4 DEF CreationErrors, Settles
<1>5. CASE Dispose
  BY <1>5 DEF Dispose
<1>6. CASE CallRefused
  BY <1>6, MaxCallsAssumption DEF CallRefused, CallBegins
<1>7. CASE CallEnters
  BY <1>7, MaxCallsAssumption DEF CallEnters, CallBegins
<1>8. CASE CallerFindsIdle
  BY <1>8 DEF CallerFindsIdle, CallerMoves, KeepsCall
<1>9. CASE CallerFillsPayload
  BY <1>9 DEF CallerFillsPayload, CallerMoves, KeepsCall
<1>10. CASE CallerStoresWords
  BY <1>10 DEF CallerStoresWords, CallerMoves, CallerStores, KeepsCall
<1>11. CASE CallerClearsLen
  BY <1>11 DEF CallerClearsLen, CallerMoves, CallerStores, KeepsCall
<1>12. CASE CallerPublishes
  BY <1>12 DEF CallerPublishes, CallerMoves, CallerStores, KeepsCall
<1>13. CASE CallerNotifies
  BY <1>13 DEF CallerNotifies, Woken
<1>14. CASE CallerWaits
  BY <1>14 DEF CallerWaits, CallerMoves, KeepsCall, Sleeps
<1>15. CASE CallerTimesOut
  BY <1>15 DEF CallerTimesOut, CallerMoves, KeepsCall
<1>16. CASE CallerGivesUp
  BY <1>16 DEF CallerGivesUp, CallerMoves, Returns, AfterTimeout
<1>17. CASE CallerReadsStatus
  BY <1>17 DEF CallerReadsStatus, CallerMoves
<1>18. CASE CallerReadsLen
  BY <1>18 DEF CallerReadsLen, CallerMoves
<1>19. CASE CallerReleases
  <2>1. CASE Answered
    BY <1>19, <2>1 DEF CallerReleases, CallerMoves, KeepsCall, Returns, Answered
  <2>2. CASE ~Answered
    BY <1>19, <2>2 DEF CallerReleases, CallerMoves, KeepsCall, Returns, Answered
  <2>3. QED
    BY <2>1, <2>2
<1>20. CASE CallerSlices
  BY <1>20 DEF CallerSlices, CallerMoves, Returns, Sliced
<1>21. CASE WorkerLoads
  BY <1>21 DEF WorkerLoads, Accepts
<1>22. CASE WorkerWaits
  BY <1>22 DEF WorkerWaits, WorkerMoves, Sleeps
<1>23. CASE WorkerReadsWords
  BY <1>23 DEF WorkerReadsWords, WorkerMoves
<1>24. CASE WorkerReadsHead
  BY <1>24 DEF WorkerReadsHead, WorkerMoves, Joined
<1>25. CASE WorkerFetches
  BY <1>25 DEF WorkerFetches, WorkerMoves, Joined
<1>26. CASE WorkerCopiesReply
  BY <1>26 DEF WorkerCopiesReply, WorkerMoves
<1>27. CASE WorkerStoresLen
  BY <1>27 DEF WorkerStoresLen, WorkerMoves, WorkerStores
<1>28. CASE WorkerStoresOk
  BY <1>28 DEF WorkerStoresOk, WorkerMoves, WorkerStores
<1>29. CASE WorkerCatches
  BY <1>29 DEF WorkerCatches, WorkerMoves, WorkerStores
<1>30. CASE WorkerStoresErr
  BY <1>30 DEF WorkerStoresErr, WorkerMoves, WorkerStores
<1>31. CASE WorkerNotifies
  BY <1>31 DEF WorkerNotifies, WorkerMoves, Woken
<1>32. CASE UNCHANGED vars
  BY <1>32
<1>33. QED
  BY <1>1, <1>2, <1>3, <1>4, <1>5, <1>6, <1>7, <1>8, <1>9, <1>10, <1>11, <1>12, <1>13, <1>14, <1>15, <1>16, <1>17, <1>18, <1>19, <1>20, <1>21, <1>22, <1>23, <1>24, <1>25, <1>26, <1>27, <1>28, <1>29, <1>30, <1>31, <1>32
  DEF Next, CreationStep, CallerStep, WorkerStep

(* Every step that abandons no call keeps the bytes in the buffers those of *)
(* the latest call.                                                         *)
LEMMA ContentsStep ==
  TypeOK /\ NotPending /\ Ranges /\ Ownership /\ Contents /\ Answer /\ [Next]_vars => (~abandoned' => Contents')
<1> SUFFICES ASSUME TypeOK, NotPending, Ranges, Ownership, Contents, Answer, [Next]_vars PROVE (~abandoned' => Contents')
  OBVIOUS
<1> USE DEF TypeOK, CallerPlaces, WorkerPlaces, Tags, Lengths, Control, Idle, Pending, Ok, Err,
  Null, Mangled, ErrLen, NoLen, Req, Reply,
  Ranges, Ownership, Contents, Answer, Unfetched, WorkerUsesBuffer, NotPending, WordsStored, Published, Preparing, Reading, HasRequest, Answering,
  vars, creationVars, bufferVars, callVars, workerVars
<1>1. CASE WorkerBoots
  BY <1>1 DEF WorkerBoots
<1>2. CASE CreationResolves
  BY <1>2 DEF CreationResolves, Settles
<1>3. CASE CreationTimesOut
  BY <1>3 DEF CreationTimesOut, Settles
<1>4. CASE CreationErrors
  BY <1>4 DEF CreationErrors, Settles
<1>5. CASE Dispose
  BY <1>5 DEF Dispose
<1>6. CASE CallRefused
  BY <1>6, MaxCallsAssumption DEF CallRefused, CallBegins
<1>7. CASE CallEnters
  BY <1>7, MaxCallsAssumption DEF CallEnters, CallBegins
<1>8. CASE CallerFindsIdle
  BY <1>8 DEF CallerFindsIdle, CallerMoves, KeepsCall
<1>9. CASE CallerFillsPayload
  BY <1>9 DEF CallerFillsPayload, CallerMoves, KeepsCall
<1>10. CASE CallerStoresWords
  BY <1>10 DEF CallerStoresWords, CallerMoves, CallerStores, KeepsCall
<1>11. CASE CallerClearsLen
  BY <1>11 DEF CallerClearsLen, CallerMoves, CallerStores, KeepsCall
<1>12. CASE CallerPublishes
  BY <1>12 DEF CallerPublishes, CallerMoves, CallerStores, KeepsCall
<1>13. CASE CallerNotifies
  BY <1>13 DEF CallerNotifies, Woken
<1>14. CASE CallerWaits
  BY <1>14 DEF CallerWaits, CallerMoves, KeepsCall, Sleeps
<1>15. CASE CallerTimesOut
  BY <1>15 DEF CallerTimesOut, CallerMoves, KeepsCall
<1>16. CASE CallerGivesUp
  BY <1>16 DEF CallerGivesUp, CallerMoves, Returns, AfterTimeout
<1>17. CASE CallerReadsStatus
  BY <1>17 DEF CallerReadsStatus, CallerMoves
<1>18. CASE CallerReadsLen
  BY <1>18 DEF CallerReadsLen, CallerMoves
<1>19. CASE CallerReleases
  <2>1. CASE Answered
    BY <1>19, <2>1 DEF CallerReleases, CallerMoves, KeepsCall, Returns, Answered
  <2>2. CASE ~Answered
    BY <1>19, <2>2 DEF CallerReleases, CallerMoves, KeepsCall, Returns, Answered
  <2>3. QED
    BY <2>1, <2>2
<1>20. CASE CallerSlices
  BY <1>20 DEF CallerSlices, CallerMoves, Returns, Sliced
<1>21. CASE WorkerLoads
  BY <1>21 DEF WorkerLoads, Accepts
<1>22. CASE WorkerWaits
  BY <1>22 DEF WorkerWaits, WorkerMoves, Sleeps
<1>23. CASE WorkerReadsWords
  BY <1>23 DEF WorkerReadsWords, WorkerMoves
<1>24. CASE WorkerReadsHead
  BY <1>24 DEF WorkerReadsHead, WorkerMoves, Joined
<1>25. CASE WorkerFetches
  BY <1>25 DEF WorkerFetches, WorkerMoves, Joined
<1>26. CASE WorkerCopiesReply
  BY <1>26 DEF WorkerCopiesReply, WorkerMoves
<1>27. CASE WorkerStoresLen
  BY <1>27 DEF WorkerStoresLen, WorkerMoves, WorkerStores
<1>28. CASE WorkerStoresOk
  BY <1>28 DEF WorkerStoresOk, WorkerMoves, WorkerStores
<1>29. CASE WorkerCatches
  BY <1>29 DEF WorkerCatches, WorkerMoves, WorkerStores
<1>30. CASE WorkerStoresErr
  BY <1>30 DEF WorkerStoresErr, WorkerMoves, WorkerStores
<1>31. CASE WorkerNotifies
  BY <1>31 DEF WorkerNotifies, WorkerMoves, Woken
<1>32. CASE UNCHANGED vars
  BY <1>32
<1>33. QED
  BY <1>1, <1>2, <1>3, <1>4, <1>5, <1>6, <1>7, <1>8, <1>9, <1>10, <1>11, <1>12, <1>13, <1>14, <1>15, <1>16, <1>17, <1>18, <1>19, <1>20, <1>21, <1>22, <1>23, <1>24, <1>25, <1>26, <1>27, <1>28, <1>29, <1>30, <1>31, <1>32
  DEF Next, CreationStep, CallerStep, WorkerStep

(* Every step that abandons no call keeps what the guest has read current.  *)
LEMMA AnswerStep ==
  TypeOK /\ NotPending /\ Ownership /\ Contents /\ Answer /\ [Next]_vars => (~abandoned' => Answer')
<1> SUFFICES ASSUME TypeOK, NotPending, Ownership, Contents, Answer, [Next]_vars PROVE (~abandoned' => Answer')
  OBVIOUS
<1> USE DEF TypeOK, CallerPlaces, WorkerPlaces, Tags, Lengths, Control, Idle, Pending, Ok, Err,
  Null, Mangled, ErrLen, NoLen, Req, Reply,
  Ownership, Contents, Answer, Unfetched, WorkerUsesBuffer, NotPending, WordsStored, Published, Preparing, Reading, HasRequest, Answering,
  vars, creationVars, bufferVars, callVars, workerVars
<1>1. CASE WorkerBoots
  BY <1>1 DEF WorkerBoots
<1>2. CASE CreationResolves
  BY <1>2 DEF CreationResolves, Settles
<1>3. CASE CreationTimesOut
  BY <1>3 DEF CreationTimesOut, Settles
<1>4. CASE CreationErrors
  BY <1>4 DEF CreationErrors, Settles
<1>5. CASE Dispose
  BY <1>5 DEF Dispose
<1>6. CASE CallRefused
  BY <1>6, MaxCallsAssumption DEF CallRefused, CallBegins
<1>7. CASE CallEnters
  BY <1>7, MaxCallsAssumption DEF CallEnters, CallBegins
<1>8. CASE CallerFindsIdle
  BY <1>8 DEF CallerFindsIdle, CallerMoves, KeepsCall
<1>9. CASE CallerFillsPayload
  BY <1>9 DEF CallerFillsPayload, CallerMoves, KeepsCall
<1>10. CASE CallerStoresWords
  BY <1>10 DEF CallerStoresWords, CallerMoves, CallerStores, KeepsCall
<1>11. CASE CallerClearsLen
  BY <1>11 DEF CallerClearsLen, CallerMoves, CallerStores, KeepsCall
<1>12. CASE CallerPublishes
  BY <1>12 DEF CallerPublishes, CallerMoves, CallerStores, KeepsCall
<1>13. CASE CallerNotifies
  BY <1>13 DEF CallerNotifies, Woken
<1>14. CASE CallerWaits
  BY <1>14 DEF CallerWaits, CallerMoves, KeepsCall, Sleeps
<1>15. CASE CallerTimesOut
  BY <1>15 DEF CallerTimesOut, CallerMoves, KeepsCall
<1>16. CASE CallerGivesUp
  BY <1>16 DEF CallerGivesUp, CallerMoves, Returns, AfterTimeout
<1>17. CASE CallerReadsStatus
  BY <1>17 DEF CallerReadsStatus, CallerMoves
<1>18. CASE CallerReadsLen
  BY <1>18 DEF CallerReadsLen, CallerMoves
<1>19. CASE CallerReleases
  <2>1. CASE Answered
    BY <1>19, <2>1 DEF CallerReleases, CallerMoves, KeepsCall, Returns, Answered
  <2>2. CASE ~Answered
    BY <1>19, <2>2 DEF CallerReleases, CallerMoves, KeepsCall, Returns, Answered
  <2>3. QED
    BY <2>1, <2>2
<1>20. CASE CallerSlices
  BY <1>20 DEF CallerSlices, CallerMoves, Returns, Sliced
<1>21. CASE WorkerLoads
  BY <1>21 DEF WorkerLoads, Accepts
<1>22. CASE WorkerWaits
  BY <1>22 DEF WorkerWaits, WorkerMoves, Sleeps
<1>23. CASE WorkerReadsWords
  BY <1>23 DEF WorkerReadsWords, WorkerMoves
<1>24. CASE WorkerReadsHead
  BY <1>24 DEF WorkerReadsHead, WorkerMoves, Joined
<1>25. CASE WorkerFetches
  BY <1>25 DEF WorkerFetches, WorkerMoves, Joined
<1>26. CASE WorkerCopiesReply
  BY <1>26 DEF WorkerCopiesReply, WorkerMoves
<1>27. CASE WorkerStoresLen
  BY <1>27 DEF WorkerStoresLen, WorkerMoves, WorkerStores
<1>28. CASE WorkerStoresOk
  BY <1>28 DEF WorkerStoresOk, WorkerMoves, WorkerStores
<1>29. CASE WorkerCatches
  BY <1>29 DEF WorkerCatches, WorkerMoves, WorkerStores
<1>30. CASE WorkerStoresErr
  BY <1>30 DEF WorkerStoresErr, WorkerMoves, WorkerStores
<1>31. CASE WorkerNotifies
  BY <1>31 DEF WorkerNotifies, WorkerMoves, Woken
<1>32. CASE UNCHANGED vars
  BY <1>32
<1>33. QED
  BY <1>1, <1>2, <1>3, <1>4, <1>5, <1>6, <1>7, <1>8, <1>9, <1>10, <1>11, <1>12, <1>13, <1>14, <1>15, <1>16, <1>17, <1>18, <1>19, <1>20, <1>21, <1>22, <1>23, <1>24, <1>25, <1>26, <1>27, <1>28, <1>29, <1>30, <1>31, <1>32
  DEF Next, CreationStep, CallerStep, WorkerStep

(* Every step that abandons no call keeps the fetches in the order of the   *)
(* calls, each once.                                                        *)
LEMMA HistoryStep ==
  TypeOK /\ NotPending /\ Ranges /\ Ownership /\ Contents /\ History /\ [Next]_vars => (~abandoned' => History')
<1> SUFFICES ASSUME TypeOK, NotPending, Ranges, Ownership, Contents, History, [Next]_vars PROVE (~abandoned' => History')
  OBVIOUS
<1> USE DEF TypeOK, CallerPlaces, WorkerPlaces, Tags, Lengths, Control, Idle, Pending, Ok, Err,
  Null, Mangled, ErrLen, NoLen, Req, Reply,
  Ranges, Ownership, Contents, History, Unfetched, WorkerUsesBuffer, NotPending, WordsStored, Published, Preparing, Reading, HasRequest, Answering,
  vars, creationVars, bufferVars, callVars, workerVars
<1>1. CASE WorkerBoots
  BY <1>1 DEF WorkerBoots
<1>2. CASE CreationResolves
  BY <1>2 DEF CreationResolves, Settles
<1>3. CASE CreationTimesOut
  BY <1>3 DEF CreationTimesOut, Settles
<1>4. CASE CreationErrors
  BY <1>4 DEF CreationErrors, Settles
<1>5. CASE Dispose
  BY <1>5 DEF Dispose
<1>6. CASE CallRefused
  BY <1>6, MaxCallsAssumption DEF CallRefused, CallBegins
<1>7. CASE CallEnters
  BY <1>7, MaxCallsAssumption DEF CallEnters, CallBegins
<1>8. CASE CallerFindsIdle
  BY <1>8 DEF CallerFindsIdle, CallerMoves, KeepsCall
<1>9. CASE CallerFillsPayload
  BY <1>9 DEF CallerFillsPayload, CallerMoves, KeepsCall
<1>10. CASE CallerStoresWords
  BY <1>10 DEF CallerStoresWords, CallerMoves, CallerStores, KeepsCall
<1>11. CASE CallerClearsLen
  BY <1>11 DEF CallerClearsLen, CallerMoves, CallerStores, KeepsCall
<1>12. CASE CallerPublishes
  BY <1>12 DEF CallerPublishes, CallerMoves, CallerStores, KeepsCall
<1>13. CASE CallerNotifies
  BY <1>13 DEF CallerNotifies, Woken
<1>14. CASE CallerWaits
  BY <1>14 DEF CallerWaits, CallerMoves, KeepsCall, Sleeps
<1>15. CASE CallerTimesOut
  BY <1>15 DEF CallerTimesOut, CallerMoves, KeepsCall
<1>16. CASE CallerGivesUp
  BY <1>16 DEF CallerGivesUp, CallerMoves, Returns, AfterTimeout
<1>17. CASE CallerReadsStatus
  BY <1>17 DEF CallerReadsStatus, CallerMoves
<1>18. CASE CallerReadsLen
  BY <1>18 DEF CallerReadsLen, CallerMoves
<1>19. CASE CallerReleases
  <2>1. CASE Answered
    BY <1>19, <2>1 DEF CallerReleases, CallerMoves, KeepsCall, Returns, Answered
  <2>2. CASE ~Answered
    BY <1>19, <2>2 DEF CallerReleases, CallerMoves, KeepsCall, Returns, Answered
  <2>3. QED
    BY <2>1, <2>2
<1>20. CASE CallerSlices
  BY <1>20 DEF CallerSlices, CallerMoves, Returns, Sliced
<1>21. CASE WorkerLoads
  BY <1>21 DEF WorkerLoads, Accepts
<1>22. CASE WorkerWaits
  BY <1>22 DEF WorkerWaits, WorkerMoves, Sleeps
<1>23. CASE WorkerReadsWords
  BY <1>23 DEF WorkerReadsWords, WorkerMoves
<1>24. CASE WorkerReadsHead
  BY <1>24 DEF WorkerReadsHead, WorkerMoves, Joined
<1>25. CASE WorkerFetches
  BY <1>25 DEF WorkerFetches, WorkerMoves, Joined
<1>26. CASE WorkerCopiesReply
  BY <1>26 DEF WorkerCopiesReply, WorkerMoves
<1>27. CASE WorkerStoresLen
  BY <1>27 DEF WorkerStoresLen, WorkerMoves, WorkerStores
<1>28. CASE WorkerStoresOk
  BY <1>28 DEF WorkerStoresOk, WorkerMoves, WorkerStores
<1>29. CASE WorkerCatches
  BY <1>29 DEF WorkerCatches, WorkerMoves, WorkerStores
<1>30. CASE WorkerStoresErr
  BY <1>30 DEF WorkerStoresErr, WorkerMoves, WorkerStores
<1>31. CASE WorkerNotifies
  BY <1>31 DEF WorkerNotifies, WorkerMoves, Woken
<1>32. CASE UNCHANGED vars
  BY <1>32
<1>33. QED
  BY <1>1, <1>2, <1>3, <1>4, <1>5, <1>6, <1>7, <1>8, <1>9, <1>10, <1>11, <1>12, <1>13, <1>14, <1>15, <1>16, <1>17, <1>18, <1>19, <1>20, <1>21, <1>22, <1>23, <1>24, <1>25, <1>26, <1>27, <1>28, <1>29, <1>30, <1>31, <1>32
  DEF Next, CreationStep, CallerStep, WorkerStep

-----------------------------------------------------------------------------
(* The invariant.                                                          *)

(* Nothing takes back that a call was abandoned.                           *)
LEMMA AbandonedForever == [Next]_vars /\ abandoned => abandoned'
  BY Zenon DEF Next, CreationStep, CallerStep, WorkerStep, vars, creationVars, callVars,
     WorkerBoots, CreationResolves, CreationTimesOut, CreationErrors, Dispose,
     CallRefused, CallEnters, CallBegins, KeepsCall, Returns, CallerStores,
     CallerFindsIdle, CallerFillsPayload, CallerStoresWords, CallerClearsLen,
     CallerPublishes, CallerNotifies, CallerWaits, CallerTimesOut, CallerGivesUp,
     CallerReadsStatus, CallerReadsLen, CallerReleases, CallerSlices, WorkerMoves,
     WorkerLoads, WorkerWaits, WorkerReadsWords, WorkerReadsHead, WorkerFetches,
     WorkerCopiesReply, WorkerStoresLen, WorkerStoresOk, WorkerCatches,
     WorkerStoresErr, WorkerNotifies

(* The invariant holds before the first call.                              *)
LEMMA InitIInv == Init => IInv
<1> SUFFICES ASSUME Init PROVE IInv
  OBVIOUS
<1> USE DEF Init, Idle, Pending, Ok, Err, Null, Mangled, ErrLen, NoLen, Req
<1>1. TypeOK
  <2>1. ctrl \in Control /\ payload \in [kind : {"request", "reply"}, of : Tags]
    BY DEF Control, Tags, Lengths
  <2>2. seen \in [status : Idle..Err, len : Lengths]
    BY DEF Tags, Lengths
  <2>3. fetched \in Seq(Tags) /\ Len(fetched) = 0
    OBVIOUS
  <2>4. call \in 0..MaxCalls /\ result \in Tags /\ request \in Tags /\ seenWord \in Idle..Err
    BY MaxCallsAssumption DEF Tags
  <2>5. readySent \in BOOLEAN /\ abandoned \in BOOLEAN
    OBVIOUS
  <2>6. callerAt \in CallerPlaces /\ workerAt \in WorkerPlaces
    BY DEF CallerPlaces, WorkerPlaces
  <2>7. QED
    BY <2>1, <2>2, <2>3, <2>4, <2>5, <2>6 DEF TypeOK
<1>2. Ranges /\ NotPending /\ NoLostWakeup
  BY DEF Ranges, NotPending, NoLostWakeup, Published, WordsStored, Reading, Answering, HasRequest
<1>3. Budget
  BY DEF Budget, CallDue, FetchDue, Preparing, Reading, Seeking
<1>4. Ownership /\ Contents /\ Answer
  BY DEF Ownership, Contents, Answer, Published, HasRequest, WorkerUsesBuffer
<1>5. History
  BY DEF History, Unfetched, Preparing
<1>6. QED
  BY <1>1, <1>2, <1>3, <1>4, <1>5 DEF IInv, Hygiene

(* The invariant is kept by every step.                                    *)
LEMMA NextIInv == IInv /\ [Next]_vars => IInv'
<1> SUFFICES ASSUME IInv, [Next]_vars PROVE IInv'
  OBVIOUS
<1>1. TypeOK' /\ Ranges' /\ NotPending' /\ NoLostWakeup' /\ Budget'
  BY TypeOKStep, RangesStep, NotPendingStep, WakeupStep, BudgetStep DEF IInv
<1>2. ASSUME ~abandoned' PROVE Ownership' /\ Contents' /\ Answer' /\ History'
  <2>1. ~abandoned
    BY <1>2, AbandonedForever
  <2>2. Ownership /\ Contents /\ Answer /\ History
    BY <2>1 DEF IInv, Hygiene
  <2>3. QED
    BY <1>2, <2>2, OwnershipStep, ContentsStep, AnswerStep, HistoryStep DEF IInv
<1>3. QED
  BY <1>1, <1>2 DEF IInv, Hygiene

(* The invariant holds in every reachable state.                           *)
THEOREM Invariant == Spec => []IInv
<1>1. QED
  BY InitIInv, NextIInv, PTL DEF Spec

-----------------------------------------------------------------------------
(* The properties.                                                         *)

(* The variables keep their types, whatever the number of calls.           *)
THEOREM TypeCorrect == Spec => []TypeOK
<1>1. IInv => TypeOK
  BY DEF IInv
<1>2. QED
  BY <1>1, Invariant, PTL

(* The guest never sleeps on an answer that is there, unless the worker is *)
(* about to notify it.                                                     *)
THEOREM NoLostWakeupHolds == Spec => []NoLostWakeup
<1>1. IInv => NoLostWakeup
  BY DEF IInv
<1>2. QED
  BY <1>1, Invariant, PTL

(* As long as no call was abandoned, requestSync returns null or the reply *)
(* to the call it was made for.                                            *)
THEOREM OwnReply == Spec => []OwnReplyUntilAbandoned
<1>1. IInv => OwnReplyUntilAbandoned
  BY DEF IInv, Hygiene, Answer, OwnReplyUntilAbandoned
<1>2. QED
  BY <1>1, Invariant, PTL

(* As long as no call was abandoned, the worker fetches whole requests of  *)
(* the guest, in the order of the calls and each at most once.             *)
THEOREM FetchedOnce == Spec => []FetchedAsIssuedOnce
<1>1. IInv => FetchedAsIssuedOnce
  BY DEF IInv, Hygiene, History, FetchedAsIssuedOnce
<1>2. QED
  BY <1>1, Invariant, PTL

(* As long as no call was abandoned, the two threads are never both at     *)
(* work on the shared buffers.                                             *)
THEOREM Exclusive == Spec => []ExclusiveBuffer
<1>1. IInv => ExclusiveBuffer
  BY DEF IInv, Hygiene, Ownership, ExclusiveBuffer, CallerUsesBuffer, Published
<1>2. QED
  BY <1>1, Invariant, PTL

(* The worker never fetches more often than the guest called.              *)
THEOREM FetchesBounded == Spec => []NoExtraFetch
<1>1. IInv => NoExtraFetch
  <2>1. CallDue \in Nat /\ FetchDue \in Nat
    BY DEF CallDue, FetchDue
  <2>2. TypeOK => Len(fetched) \in Nat /\ call \in Nat
    BY DEF TypeOK
  <2>3. QED
    BY <2>1, <2>2 DEF IInv, Budget, NoExtraFetch
<1>2. QED
  BY <1>1, Invariant, PTL

(* The worker fetches what the guest asks for, no more and nothing else:   *)
(* the three facts above together.                                         *)
THEOREM FetchesAreSound == Spec => []FetchesSound
<1>1. FetchedAsIssuedOnce /\ ExclusiveBuffer /\ NoExtraFetch => FetchesSound
  BY DEF FetchesSound
<1>2. QED
  BY <1>1, FetchedOnce, Exclusive, FetchesBounded, PTL
=============================================================================
