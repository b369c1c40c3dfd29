-------------------------- MODULE ClientApp_proofs --------------------------
(***************************************************************************)
(* Proofs about Consent and ClientApp, for every finite set of             *)
(* invocations, whatever their number, scopes, bodies and messages.        *)
(*                                                                         *)
(* QuestionAnswerable is inductive with the types and the fact that a      *)
(* dialog is open only for a pending question.  SentAsAgreed is not: it    *)
(* counts what was sent, and a request that was allowed is sent later.     *)
(* Accounted counts the allowed requests too; a click on Allow then adds   *)
(* one request and one click, and to send one adds nothing.  What is       *)
(* captured between the question and the sending must stay the same, which *)
(* Captured says.                                                          *)
(*                                                                         *)
(* Every step of the app and its port is a step of Consent or leaves it    *)
(* alone, so what holds of Consent holds of the whole.  What the port      *)
(* replies rests on Answered, that nothing is sent but what was allowed,   *)
(* and on Started: a message sets off one invocation, once.                *)
(***************************************************************************)
EXTENDS ClientApp, FiniteSetTheorems, SequenceTheorems, TLAPS

(* An invocation past the first check has an eligible operation and a      *)
(* snapshot in its scope, and sends nothing before it is done.             *)
Captured ==
  \A i \in Invocations :
    /\ at[i] \in {"capturing", "asking", "allowed"} =>
         i \in Eligible /\ captured[i] \in Request /\ InScope(i, captured[i])
    /\ sent[i] # None =>
         at[i] = "done" /\ i \in Eligible /\ InScope(i, sent[i])

Committed(request) ==
  {i \in Invocations : sent[i] = request \/ (at[i] = "allowed" /\ captured[i] = request)}
Clicks(request) == {k \in DOMAIN agreed : agreed[k] = request}

Accounted == \A request \in Request : Cardinality(Committed(request)) <= Cardinality(Clicks(request))

OpenForQuestion == open => pending # None

(* The inductive invariant.                                                *)
IInv == TypeOK /\ QuestionAnswerable /\ OpenForQuestion /\ Captured /\ Accounted

Events == Invocations \cup {"allow", "deny", "cancel", "destroy"}
Places == {"app", "capturing", "asking", "allowed", "done"}

-----------------------------------------------------------------------------
(* What the parts of the actions do.                                       *)

\* The pending question is that of an invocation that asks.
LEMMA PendingAsks ==
  ASSUME IInv, pending # None
  PROVE  /\ pending \in Invocations /\ at[pending] = "asking"
         /\ captured[pending] \in Request /\ sent[pending] = None
         /\ display = captured[pending].scope
  BY InvocationsAssumption DEF IInv, TypeOK, QuestionAnswerable, Captured

\* finish resolves the pending question, if there is one, and no other.
LEMMA FinishResolves ==
  ASSUME IInv, NEW approved \in BOOLEAN, NEW event \in Events, NEW queue \in Seq(Invocations),
         Finish(approved, event, queue)
  PROVE  /\ pending' = None /\ open' = FALSE /\ closes' \in Seq(Invocations)
         /\ at' \in [Invocations -> Places]
         /\ answeredBy' \in [Invocations -> Events \cup {None}]
         /\ \A i \in Invocations :
              at'[i] = IF i = pending THEN IF approved THEN "allowed" ELSE "done" ELSE at[i]
<1>1. CASE pending = None
  BY <1>1, InvocationsAssumption DEF IInv, TypeOK, OpenForQuestion, Finish, Places, Events
<1>2. CASE pending # None
  <2>1. pending \in Invocations
    BY <1>2, PendingAsks
  <2>2. Append(queue, pending) \in Seq(Invocations)
    BY <2>1
  <2> QED
    BY <1>2, <2>1, <2>2 DEF IInv, TypeOK, Finish, Places, Events
<1> QED
  BY <1>1, <1>2

\* An invocation that has its snapshot asks, or is done; it asks only when no
\* other question is pending.
LEMMA AsksOrDone ==
  ASSUME IInv, NEW i \in Invocations, NEW request \in Request, Asks(i, request)
  PROVE  /\ UNCHANGED <<closes, destroyed, agreed, answeredBy>>
         /\ display' \in Scopes \cup BrowserActions \cup {None} /\ open' \in BOOLEAN
         /\ \/ /\ pending = None /\ ~destroyed /\ pending' = i /\ open'
               /\ display' = request.scope /\ at' = [at EXCEPT ![i] = "asking"]
            \/ /\ pending' = pending /\ open' = open /\ at' = [at EXCEPT ![i] = "done"]
               /\ pending # None => display' = display
<1>1. request.scope \in Scopes \cup BrowserActions
  BY DEF Request
<1> QED
  BY <1>1 DEF IInv, TypeOK, Asks, Busy, Described, host

\* A question is asked with a snapshot of the invocation's own request, in the
\* scope of its operation.
LEMMA SnapshotAsked ==
  ASSUME IInv, NEW i \in Invocations, InvokesAction(i) \/ CaptureEnds(i)
  PROVE  \E request \in Request :
           /\ at[i] \in {"app", "capturing"} /\ i \in Eligible /\ InScope(i, request)
           /\ captured' = [captured EXCEPT ![i] = request] /\ Asks(i, request)
           /\ UNCHANGED <<payload, sent>>
<1>1. payload[i] \in Payload
  BY DEF IInv, TypeOK
<1>2. CASE InvokesAction(i)
  <2>1. [scope |-> i, body |-> payload[i].body] \in Request
    BY <1>1, <1>2 DEF InvokesAction, Request, Payload
  <2> QED
    BY <1>2, <2>1 DEF InvokesAction, InScope
<1>3. CASE CaptureEnds(i)
  <2>1. captured[i] \in Request /\ i \in Eligible /\ InScope(i, captured[i])
    BY <1>3 DEF CaptureEnds, IInv, Captured
  <2>2. [captured[i] EXCEPT !.body = payload[i].body] \in Request
    BY <1>1, <2>1 DEF Request, Payload
  <2>3. InScope(i, [captured[i] EXCEPT !.body = payload[i].body])
    BY <2>1 DEF InScope, Request
  <2> QED
    BY <1>3, <2>1, <2>2, <2>3 DEF CaptureEnds
<1> QED
  BY <1>2, <1>3

-----------------------------------------------------------------------------
(* Each part of the invariant is kept by every step.                       *)

LEMMA TypeOKStep ==
  IInv /\ [Next]_vars => TypeOK'
<1> SUFFICES ASSUME IInv, [Next]_vars PROVE TypeOK'
  OBVIOUS
<1> USE DEF broker, host
<1>1. TypeOK
  BY DEF IInv
<1>2. ASSUME NEW i \in Invocations, AppChanges(i) PROVE TypeOK'
  BY <1>1, <1>2 DEF AppChanges, TypeOK
<1>3. ASSUME NEW i \in Invocations, InvokeRefused(i) \/ CaptureFails(i) PROVE TypeOK'
  BY <1>1, <1>3 DEF InvokeRefused, CaptureFails, TypeOK
<1>4. ASSUME NEW i \in Invocations, InvokesAction(i) \/ CaptureEnds(i) PROVE TypeOK'
  <2>1. PICK request \in Request :
           /\ captured' = [captured EXCEPT ![i] = request] /\ Asks(i, request)
           /\ UNCHANGED <<payload, sent>>
    BY <1>4, SnapshotAsked
  <2> QED
    BY <1>1, <2>1, AsksOrDone DEF TypeOK
<1>5. ASSUME NEW i \in Invocations, InvokesHttp(i) PROVE TypeOK'
  <2>1. payload[i] \in Request
    BY <1>1 DEF TypeOK, Payload, Request
  <2> QED
    BY <1>1, <1>5, <2>1 DEF InvokesHttp, TypeOK
<1>6. ASSUME NEW i \in Invocations, Sends(i) PROVE TypeOK'
  BY <1>1, <1>6 DEF Sends, Outgoing, TypeOK
<1>7. CASE ClickAllow
  <2>1. pending # None
    BY <1>7 DEF ClickAllow, Visible, IInv, OpenForQuestion
  <2>2. captured[pending] \in Request /\ display = captured[pending].scope
    BY <2>1, PendingAsks
  <2>3. [captured[pending] EXCEPT !.scope = display] \in Request
    BY <2>2 DEF Request
  <2>4. agreed' \in Seq(Request)
    BY <1>1, <1>7, <2>3 DEF ClickAllow, TypeOK
  <2>5. "allow" \in Events /\ closes \in Seq(Invocations) /\ Finish(TRUE, "allow", closes)
    BY <1>1, <1>7 DEF ClickAllow, TypeOK, Events
  <2> QED
    BY <1>1, <1>7, <2>4, <2>5, FinishResolves DEF ClickAllow, TypeOK, Events, Places
<1>8. CASE Dismiss \/ CloseEvent \/ Destroy
  <2>1. \E event \in Events, queue \in Seq(Invocations) : Finish(FALSE, event, queue)
    <3>1. CASE Dismiss \/ Destroy
      BY <1>1, <3>1 DEF Dismiss, Destroy, TypeOK, Events
    <3>2. CASE CloseEvent
      <4>1. Head(closes) \in Invocations /\ Tail(closes) \in Seq(Invocations)
        BY <1>1, <3>2 DEF CloseEvent, TypeOK
      <4> QED
        BY <3>2, <4>1 DEF CloseEvent, CloseListener, Events
    <3> QED
      BY <1>8, <3>1, <3>2
  <2>2. /\ pending' = None /\ open' = FALSE /\ closes' \in Seq(Invocations)
        /\ at' \in [Invocations -> Places]
        /\ answeredBy' \in [Invocations -> Events \cup {None}]
    BY <2>1, FinishResolves
  <2> QED
    BY <1>1, <1>8, <2>2 DEF Dismiss, CloseEvent, Destroy, TypeOK, Events, Places
<1>9. CASE BrowserCloses
  <2>1. pending \in Invocations
    BY <1>9, PendingAsks DEF BrowserCloses, Visible, IInv, OpenForQuestion
  <2>2. closes' \in Seq(Invocations)
    BY <1>1, <1>9, <2>1 DEF BrowserCloses, TypeOK
  <2> QED
    BY <1>1, <1>9, <2>2 DEF BrowserCloses, TypeOK
<1>10. CASE UNCHANGED vars
  BY <1>1, <1>10 DEF vars, TypeOK
<1> QED
  BY <1>2, <1>3, <1>4, <1>5, <1>6, <1>7, <1>8, <1>9, <1>10 DEF Next

\* Every way to resolve a question.
LEMMA ResolvingStep ==
  ASSUME IInv, ClickAllow \/ Dismiss \/ CloseEvent \/ Destroy
  PROVE  /\ pending' = None /\ open' = FALSE
         /\ UNCHANGED <<payload, captured, sent>>
         /\ \A i \in Invocations :
              at'[i] = IF i # pending THEN at[i] ELSE IF ClickAllow THEN "allowed" ELSE "done"
         /\ ~ClickAllow => agreed' = agreed
<1> USE DEF broker, Events
<1>1. closes \in Seq(Invocations)
  BY DEF IInv, TypeOK
<1>2. CASE ClickAllow
  BY <1>1, <1>2, FinishResolves DEF ClickAllow
<1>3. CASE ~ClickAllow
  <2>1. \E event \in Events, queue \in Seq(Invocations) : Finish(FALSE, event, queue)
    <3>1. CASE Dismiss \/ Destroy
      BY <1>1, <3>1 DEF Dismiss, Destroy
    <3>2. CASE CloseEvent
      <4>1. Head(closes) \in Invocations /\ Tail(closes) \in Seq(Invocations)
        BY <1>1, <3>2 DEF CloseEvent
      <4> QED
        BY <3>2, <4>1 DEF CloseEvent, CloseListener
    <3> QED
      BY <1>3, <3>1, <3>2
  <2>2. /\ pending' = None /\ open' = FALSE
        /\ \A i \in Invocations : at'[i] = IF i = pending THEN "done" ELSE at[i]
    BY <2>1, FinishResolves
  <2> QED
    BY <1>3, <2>2 DEF Dismiss, CloseEvent, Destroy
<1> QED
  BY <1>2, <1>3

\* Whoever asks is the one to be resolved, and can be.
LEMMA QuestionStep ==
  IInv /\ [Next]_vars => (QuestionAnswerable /\ OpenForQuestion)'
<1> SUFFICES ASSUME IInv, [Next]_vars PROVE (QuestionAnswerable /\ OpenForQuestion)'
  OBVIOUS
<1> USE InvocationsAssumption DEF host
<1>1. TypeOK /\ QuestionAnswerable /\ OpenForQuestion /\ Captured
  BY DEF IInv
<1>2. ASSUME NEW i \in Invocations, AppChanges(i) PROVE (QuestionAnswerable /\ OpenForQuestion)'
  BY <1>1, <1>2 DEF AppChanges, QuestionAnswerable, OpenForQuestion
<1>3. ASSUME NEW i \in Invocations, InvokeRefused(i) \/ CaptureFails(i) \/ InvokesHttp(i) \/ Sends(i)
      PROVE (QuestionAnswerable /\ OpenForQuestion)'
  <2>1. at[i] # "asking" /\ at'[i] # "asking" /\ i # pending
    BY <1>1, <1>3 DEF InvokeRefused, CaptureFails, InvokesHttp, Sends, TypeOK, QuestionAnswerable
  <2>2. /\ \A j \in Invocations \ {i} : at'[j] = at[j] /\ captured'[j] = captured[j]
        /\ UNCHANGED <<pending, display, open, closes, destroyed>>
    BY <1>1, <1>3 DEF InvokeRefused, CaptureFails, InvokesHttp, Sends, TypeOK, broker
  <2> QED
    BY <1>1, <2>1, <2>2 DEF QuestionAnswerable, OpenForQuestion, TypeOK
<1>4. ASSUME NEW i \in Invocations, InvokesAction(i) \/ CaptureEnds(i)
      PROVE (QuestionAnswerable /\ OpenForQuestion)'
  <2>1. PICK request \in Request :
           /\ at[i] \in {"app", "capturing"}
           /\ captured' = [captured EXCEPT ![i] = request] /\ Asks(i, request)
    BY <1>4, SnapshotAsked
  <2>2. i # pending
    BY <1>1, <2>1 DEF QuestionAnswerable
  <2>3. UNCHANGED <<closes, destroyed>>
    BY <2>1, AsksOrDone
  <2>4. CASE /\ pending = None /\ ~destroyed /\ pending' = i /\ open'
             /\ display' = request.scope /\ at' = [at EXCEPT ![i] = "asking"]
    BY <1>1, <2>1, <2>3, <2>4 DEF QuestionAnswerable, OpenForQuestion, TypeOK
  <2>5. CASE /\ pending' = pending /\ open' = open /\ at' = [at EXCEPT ![i] = "done"]
             /\ pending # None => display' = display
    BY <1>1, <2>1, <2>2, <2>3, <2>5 DEF QuestionAnswerable, OpenForQuestion, TypeOK
  <2> QED
    BY <2>1, <2>4, <2>5, AsksOrDone
<1>5. CASE ClickAllow \/ Dismiss \/ CloseEvent \/ Destroy
  BY <1>1, <1>5, ResolvingStep DEF QuestionAnswerable, OpenForQuestion
<1>6. CASE BrowserCloses
  <2>1. closes' # <<>>
    BY <1>1, <1>6, PendingAsks DEF BrowserCloses, Visible, OpenForQuestion, TypeOK
  <2> QED
    BY <1>1, <1>6, <2>1 DEF BrowserCloses, broker, QuestionAnswerable, OpenForQuestion
<1>7. CASE UNCHANGED vars
  BY <1>1, <1>7 DEF vars, broker, QuestionAnswerable, OpenForQuestion
<1> QED
  BY <1>2, <1>3, <1>4, <1>5, <1>6, <1>7 DEF Next

\* A snapshot stays what it is until it was sent.
LEMMA CapturedStep ==
  IInv /\ [Next]_vars => Captured'
<1> SUFFICES ASSUME IInv, [Next]_vars PROVE Captured'
  OBVIOUS
<1> USE InvocationsAssumption DEF broker
<1>1. TypeOK /\ Captured
  BY DEF IInv
<1>2. ASSUME NEW i \in Invocations, AppChanges(i) PROVE Captured'
  BY <1>1, <1>2 DEF AppChanges, Captured
<1>3. ASSUME NEW i \in Invocations, InvokeRefused(i) \/ CaptureFails(i) PROVE Captured'
  BY <1>1, <1>3 DEF InvokeRefused, CaptureFails, TypeOK, Captured
<1>4. ASSUME NEW i \in Invocations, InvokesAction(i) \/ CaptureEnds(i) PROVE Captured'
  <2>1. PICK request \in Request :
           /\ at[i] \in {"app", "capturing"} /\ i \in Eligible /\ InScope(i, request)
           /\ captured' = [captured EXCEPT ![i] = request] /\ Asks(i, request)
           /\ UNCHANGED <<payload, sent>>
    BY <1>4, SnapshotAsked
  <2>2. at' \in {[at EXCEPT ![i] = "asking"], [at EXCEPT ![i] = "done"]}
    BY <2>1, AsksOrDone
  <2> QED
    BY <1>1, <2>1, <2>2 DEF TypeOK, Captured
<1>5. ASSUME NEW i \in Invocations, InvokesHttp(i) PROVE Captured'
  <2>1. payload[i] \in Request /\ InScope(i, payload[i]) /\ i \in Eligible
    BY <1>1, <1>5 DEF InvokesHttp, TypeOK, Payload, Request, InScope
  <2> QED
    BY <1>1, <1>5, <2>1 DEF InvokesHttp, TypeOK, Captured
<1>6. ASSUME NEW i \in Invocations, Sends(i) PROVE Captured'
  BY <1>1, <1>6 DEF Sends, Outgoing, TypeOK, Captured
<1>7. CASE ClickAllow \/ Dismiss \/ CloseEvent \/ Destroy
  <2>1. \A i \in Invocations :
          /\ captured'[i] = captured[i] /\ sent'[i] = sent[i]
          /\ \/ at'[i] = at[i]
             \/ at[i] = "asking" /\ at'[i] \in {"allowed", "done"}
    BY <1>7, ResolvingStep, PendingAsks
  <2> QED
    BY <1>1, <2>1 DEF Captured
<1>8. CASE BrowserCloses \/ UNCHANGED vars
  BY <1>1, <1>8 DEF BrowserCloses, vars, Captured
<1> QED
  BY <1>2, <1>3, <1>4, <1>5, <1>6, <1>7, <1>8 DEF Next

\* Without a click nothing more is committed to.
LEMMA NothingCommitted ==
  ASSUME IInv, agreed' = agreed, \A request \in Request : Committed(request)' \subseteq Committed(request)
  PROVE  Accounted'
<1> SUFFICES ASSUME NEW request \in Request
             PROVE  Cardinality(Committed(request)') <= Cardinality(Clicks(request)')
  BY DEF Accounted
<1>1. Committed(request) \subseteq Invocations
  BY DEF Committed
<1>2. IsFiniteSet(Committed(request))
  BY <1>1, FS_Subset, InvocationsAssumption
<1>3. /\ Cardinality(Committed(request)') <= Cardinality(Committed(request))
      /\ IsFiniteSet(Committed(request)')
  BY <1>2, FS_Subset
<1>4. IsFiniteSet(Clicks(request))
  <2>1. DOMAIN agreed = 1..Len(agreed) /\ Len(agreed) \in Nat
    BY DEF IInv, TypeOK
  <2>2. IsFiniteSet(DOMAIN agreed)
    BY <2>1, FS_Interval
  <2> QED
    BY <2>2, FS_Subset DEF Clicks
<1>5. Cardinality(Committed(request)') \in Nat /\ Cardinality(Committed(request)) \in Nat
      /\ Cardinality(Clicks(request)) \in Nat
  BY <1>2, <1>3, <1>4, FS_CardinalityType
<1>6. Cardinality(Committed(request)) <= Cardinality(Clicks(request)) /\ Clicks(request)' = Clicks(request)
  BY DEF IInv, Accounted, Clicks
<1> QED
  BY <1>3, <1>5, <1>6

\* A click commits to one more request, the one it agrees to.
LEMMA ClickCommits ==
  ASSUME IInv, ClickAllow
  PROVE  Accounted'
<1> SUFFICES ASSUME NEW request \in Request
             PROVE  Cardinality(Committed(request)') <= Cardinality(Clicks(request)')
  BY DEF Accounted
<1> DEFINE n == Len(agreed) + 1
<1>1. pending # None
  BY DEF ClickAllow, Visible, IInv, OpenForQuestion
<1>2. /\ pending \in Invocations /\ at[pending] = "asking"
      /\ captured[pending] \in Request /\ display = captured[pending].scope
  BY <1>1, PendingAsks
<1>3. [captured[pending] EXCEPT !.scope = display] = captured[pending]
  BY <1>2 DEF Request
<1>4. agreed \in Seq(Request) /\ agreed' = Append(agreed, captured[pending])
  BY <1>3 DEF ClickAllow, IInv, TypeOK
<1>5. Len(agreed) \in Nat /\ DOMAIN agreed = 1..Len(agreed) /\ DOMAIN agreed' = 1..n
  BY <1>2, <1>4
<1>6. /\ \A k \in DOMAIN agreed : agreed'[k] = agreed[k]
      /\ agreed'[n] = captured[pending]
  BY <1>2, <1>4
<1>7. /\ captured' = captured /\ sent' = sent
      /\ \A i \in Invocations : at'[i] = IF i = pending THEN "allowed" ELSE at[i]
  BY ResolvingStep
<1>8. IsFiniteSet(Committed(request)) /\ IsFiniteSet(Clicks(request))
  <2>1. Committed(request) \subseteq Invocations /\ Clicks(request) \subseteq 1..Len(agreed)
    BY <1>5 DEF Committed, Clicks
  <2>2. IsFiniteSet(1..Len(agreed))
    BY <1>5, FS_Interval
  <2> QED
    BY <2>1, <2>2, FS_Subset, InvocationsAssumption
<1>9. Cardinality(Committed(request)) \in Nat /\ Cardinality(Clicks(request)) \in Nat
  BY <1>8, FS_CardinalityType
<1>10. Cardinality(Committed(request)) <= Cardinality(Clicks(request))
  BY DEF IInv, Accounted
<1>11. CASE captured[pending] = request
  <2>1. Committed(request)' = Committed(request) \cup {pending} /\ pending \notin Committed(request)
    BY <1>1, <1>2, <1>7, <1>11, PendingAsks, InvocationsAssumption DEF Committed
  <2>2. Clicks(request)' = Clicks(request) \cup {n} /\ n \notin Clicks(request)
    BY <1>5, <1>6, <1>11 DEF Clicks
  <2>3. Cardinality(Committed(request)') = Cardinality(Committed(request)) + 1
    BY <1>8, <2>1, FS_AddElement
  <2>4. Cardinality(Clicks(request)') = Cardinality(Clicks(request)) + 1
    BY <1>8, <2>2, FS_AddElement
  <2> QED
    BY <1>9, <1>10, <2>3, <2>4
<1>12. CASE captured[pending] # request
  <2>1. Committed(request)' = Committed(request)
    BY <1>2, <1>7, <1>12 DEF Committed
  <2>2. Clicks(request)' = Clicks(request)
    BY <1>5, <1>6, <1>12 DEF Clicks
  <2> QED
    BY <1>10, <2>1, <2>2
<1> QED
  BY <1>11, <1>12

\* What was allowed or sent was clicked for, as often.
LEMMA AccountedStep ==
  IInv /\ [Next]_vars => Accounted'
<1> SUFFICES ASSUME IInv, [Next]_vars PROVE Accounted'
  OBVIOUS
<1>1. CASE ClickAllow
  BY <1>1, ClickCommits
<1>2. CASE ~ClickAllow
  <2>1. agreed' = agreed /\ \A i \in Invocations :
          \/ sent'[i] = sent[i] /\ at'[i] # "allowed"
          \/ sent'[i] = sent[i] /\ at'[i] = at[i] /\ captured'[i] = captured[i]
          \/ at[i] = "allowed" /\ sent'[i] = captured[i] /\ at'[i] = "done"
    <3> USE DEF broker, host
    <3>1. TypeOK
      BY DEF IInv
    <3>2. ASSUME NEW j \in Invocations,
                 AppChanges(j) \/ InvokeRefused(j) \/ InvokesHttp(j) \/ CaptureFails(j) \/ Sends(j)
          PROVE <2>1
      BY <3>1, <3>2 DEF AppChanges, InvokeRefused, InvokesHttp, CaptureFails, Sends, Outgoing, TypeOK
    <3>3. ASSUME NEW j \in Invocations, InvokesAction(j) \/ CaptureEnds(j)
          PROVE <2>1
      <4>1. PICK request \in Request :
               /\ captured' = [captured EXCEPT ![j] = request] /\ Asks(j, request)
               /\ UNCHANGED <<payload, sent>>
        BY <3>3, SnapshotAsked
      <4>2. at' \in {[at EXCEPT ![j] = "asking"], [at EXCEPT ![j] = "done"]} /\ agreed' = agreed
        BY <4>1, AsksOrDone
      <4> QED
        BY <3>1, <4>1, <4>2 DEF TypeOK
    <3>4. CASE Dismiss \/ CloseEvent \/ Destroy
      BY <1>2, <3>4, ResolvingStep
    <3>5. CASE BrowserCloses \/ UNCHANGED vars
      BY <3>5 DEF BrowserCloses, vars
    <3> QED
      BY <1>2, <3>2, <3>3, <3>4, <3>5 DEF Next
  <2>2. \A request \in Request : Committed(request)' \subseteq Committed(request)
    BY <2>1 DEF Committed
  <2> QED
    BY <2>1, <2>2, NothingCommitted
<1> QED
  BY <1>1, <1>2

-----------------------------------------------------------------------------
(* The theorems.                                                           *)

LEMMA InitIsSound == Init => IInv
<1> SUFFICES ASSUME Init PROVE IInv
  OBVIOUS
<1>1. TypeOK
  <2>1. closes \in Seq(Invocations) /\ agreed \in Seq(Request)
    BY DEF Init
  <2>2. at \in [Invocations -> {"app", "capturing", "asking", "allowed", "done"}]
    BY DEF Init
  <2>3. /\ captured \in [Invocations -> Request \cup {None}]
        /\ sent \in [Invocations -> Request \cup {None}]
        /\ answeredBy \in [Invocations -> Invocations \cup {None, "allow", "deny", "cancel", "destroy"}]
    BY DEF Init
  <2> QED
    BY <2>1, <2>2, <2>3 DEF Init, TypeOK
<1>2. QuestionAnswerable /\ OpenForQuestion /\ Captured
  BY InvocationsAssumption DEF Init, QuestionAnswerable, OpenForQuestion, Captured
<1>3. Accounted
  <2> SUFFICES ASSUME NEW request \in Request
               PROVE  Cardinality(Committed(request)) <= Cardinality(Clicks(request))
    BY DEF Accounted
  <2>1. Committed(request) = {} /\ Clicks(request) = {}
    BY InvocationsAssumption DEF Init, Committed, Clicks
  <2> QED
    BY <2>1, FS_EmptySet
<1> QED
  BY <1>1, <1>2, <1>3 DEF IInv

LEMMA NextIsSound == IInv /\ [Next]_vars => IInv'
BY TypeOKStep, QuestionStep, CapturedStep, AccountedStep DEF IInv

THEOREM Invariant == Spec => []IInv
BY InitIsSound, NextIsSound, PTL DEF Spec

\* The variables of the consent host and the broker keep their types.
THEOREM TypeCorrect == Spec => []TypeOK
<1>1. IInv => TypeOK
  BY DEF IInv
<1> QED
  BY <1>1, Invariant, PTL

\* No invocation waits for an answer that cannot come.
THEOREM Answerable == Spec => []QuestionAnswerable
<1>1. IInv => QuestionAnswerable
  BY DEF IInv
<1> QED
  BY <1>1, Invariant, PTL

\* What was committed to covers what was sent.
LEMMA SentIsAgreed == IInv => SentAsAgreed
<1> SUFFICES ASSUME IInv PROVE SentAsAgreed
  OBVIOUS
<1>1. ASSUME NEW request \in Request
      PROVE  Cardinality({i \in Invocations : sent[i] = request}) <= Cardinality(Clicks(request))
  <2> DEFINE Sent == {i \in Invocations : sent[i] = request}
  <2>1. Committed(request) \subseteq Invocations /\ Sent \subseteq Committed(request)
    BY DEF Committed
  <2>2. IsFiniteSet(Committed(request))
    BY <2>1, FS_Subset, InvocationsAssumption
  <2>3. Cardinality(Sent) <= Cardinality(Committed(request)) /\ IsFiniteSet(Sent)
    BY <2>1, <2>2, FS_Subset
  <2>4. IsFiniteSet(Clicks(request))
    <3>1. DOMAIN agreed = 1..Len(agreed) /\ Len(agreed) \in Nat
      BY DEF IInv, TypeOK
    <3>2. IsFiniteSet(DOMAIN agreed)
      BY <3>1, FS_Interval
    <3> QED
      BY <3>2, FS_Subset DEF Clicks
  <2>5. /\ Cardinality(Sent) \in Nat /\ Cardinality(Committed(request)) \in Nat
        /\ Cardinality(Clicks(request)) \in Nat
    BY <2>2, <2>3, <2>4, FS_CardinalityType
  <2>6. Cardinality(Committed(request)) <= Cardinality(Clicks(request))
    BY DEF IInv, Accounted
  <2> QED
    BY <2>3, <2>5, <2>6
<1> QED
  BY <1>1 DEF IInv, Captured, SentAsAgreed, Clicks

\* Each request is sent as often at most as it was agreed to, in the scope of
\* an eligible operation.
THEOREM SentOnlyAsAgreed == Spec => []SentAsAgreed
BY SentIsAgreed, Invariant, PTL

-----------------------------------------------------------------------------
(* The app and its port.                                                   *)

\* An invocation is sent only after Allow.
Answered == \A i \in Invocations : at[i] = "allowed" \/ sent[i] # None => answeredBy[i] = "allow"

\* A message has set off its invocation from the time it is handled.
Started == \A i \in Ported : stage[i] \in {"none", "posted"} <=> at[i] = "app"

\* What is verified is a copy of what was declared, what is mounted is verified.
ArtifactSound ==
  /\ verifying # None => artifact = None /\ verifying.sha256 = pinned
  /\ artifact # None => artifact = pinned
  /\ frame # None => frame = artifact
  /\ mount = "opening" => artifact # None

\* A body is read after a request and from a declared origin, unless a browser
\* handler made it, and there is no reply before the stage says so.
Readable(i) == sent[i] # None /\ (i \notin BrowserActions => from[i] \in DeclaredOrigins)
PortSound ==
  /\ \A i \in Ported : stage[i] = "reading" => Readable(i)
  /\ \A k \in DOMAIN replies : stage[replies[k].invocation] = "replied"

AppInv == IInv /\ Answered /\ AppTypeOK /\ Started /\ ArtifactSound /\ PortSound /\ RepliesTrue

\* A handled invocation leaves the app, and nothing else moves.
LEMMA HandlesOne ==
  ASSUME IInv, NEW i \in Invocations, Handles(i)
  PROVE  /\ Next /\ at[i] = "app" /\ at'[i] # "app" /\ \A j \in Invocations \ {i} : at'[j] = at[j]
         /\ sent' = sent /\ answeredBy' = answeredBy
<1>1. at \in [Invocations -> Places]
  BY DEF IInv, TypeOK, Places
<1>2. Next
  BY Zenon DEF Handles, Next
<1>3. CASE InvokeRefused(i)
  BY <1>1, <1>2, <1>3 DEF InvokeRefused, broker, host
<1>4. CASE InvokesHttp(i)
  BY <1>1, <1>2, <1>4 DEF InvokesHttp, host
<1>5. CASE InvokesAction(i)
  <2>1. PICK request \in Request : Asks(i, request)
    BY <1>5, SnapshotAsked
  <2>2. answeredBy' = answeredBy /\ at' \in {[at EXCEPT ![i] = "asking"], [at EXCEPT ![i] = "done"]}
    BY <2>1, AsksOrDone
  <2>3. at[i] = "app" /\ sent' = sent
    BY <1>5 DEF InvokesAction
  <2> QED
    BY <1>1, <1>2, <2>2, <2>3
<1> QED
  BY <1>3, <1>4, <1>5 DEF Handles

\* No other step of Consent makes an invocation leave the app, or come back.
LEMMA OthersMove ==
  ASSUME IInv,
         \/ \E i \in Invocations : AppChanges(i) \/ CaptureEnds(i) \/ CaptureFails(i) \/ Sends(i)
         \/ ClickAllow \/ Dismiss \/ BrowserCloses \/ CloseEvent \/ Destroy
  PROVE  Next /\ \A j \in Invocations : at[j] = "app" <=> at'[j] = "app"
<1>1. at \in [Invocations -> Places]
  BY DEF IInv, TypeOK, Places
<1>2. Next
  BY Zenon DEF Next
<1>3. ASSUME NEW i \in Invocations, AppChanges(i) \/ CaptureFails(i) \/ Sends(i)
      PROVE \A j \in Invocations : at[j] = "app" <=> at'[j] = "app"
  BY <1>1, <1>3 DEF AppChanges, CaptureFails, Sends
<1>4. ASSUME NEW i \in Invocations, CaptureEnds(i)
      PROVE \A j \in Invocations : at[j] = "app" <=> at'[j] = "app"
  <2>1. PICK request \in Request : Asks(i, request)
    BY <1>4, SnapshotAsked
  <2>2. at' \in {[at EXCEPT ![i] = "asking"], [at EXCEPT ![i] = "done"]}
    BY <2>1, AsksOrDone
  <2>3. at[i] = "capturing"
    BY <1>4 DEF CaptureEnds
  <2> QED
    BY <1>1, <2>2, <2>3
<1>5. CASE ClickAllow \/ Dismiss \/ CloseEvent \/ Destroy
  <2>1. \A j \in Invocations : at'[j] = IF j # pending THEN at[j] ELSE IF ClickAllow THEN "allowed" ELSE "done"
    BY <1>5, ResolvingStep
  <2>2. \A j \in Invocations : j = pending => at[j] = "asking"
    BY PendingAsks, InvocationsAssumption
  <2>3. \A j \in Invocations : at'[j] = at[j] \/ (j = pending /\ at'[j] \in {"allowed", "done"})
    BY <2>1
  <2> QED
    BY <1>2, <2>2, <2>3
<1>6. CASE BrowserCloses
  <2>1. at' = at
    BY <1>6 DEF BrowserCloses
  <2> QED
    BY <1>2, <2>1
<1> QED
  BY <1>2, <1>3, <1>4, <1>5, <1>6

\* Only Allow lets a request out, and what is out stays out.
LEMMA AnsweredStep ==
  ASSUME IInv, Answered, [Next]_vars
  PROVE  Answered' /\ \A i \in Invocations : sent[i] # None => sent'[i] # None
<1>1. /\ at \in [Invocations -> Places] /\ sent \in [Invocations -> Request \cup {None}]
      /\ captured \in [Invocations -> Request \cup {None}]
      /\ answeredBy \in [Invocations -> Events \cup {None}]
  BY DEF IInv, TypeOK, Places, Events
<1>2. ASSUME NEW i \in Invocations, AppChanges(i) \/ InvokeRefused(i) \/ InvokesHttp(i) \/ CaptureFails(i)
      PROVE  Answered' /\ \A j \in Invocations : sent[j] # None => sent'[j] # None
  <2>1. sent' = sent /\ answeredBy' = answeredBy /\ \A j \in Invocations : at'[j] = "allowed" => at[j] = "allowed"
    BY <1>1, <1>2 DEF AppChanges, InvokeRefused, InvokesHttp, CaptureFails, broker, host
  <2> QED
    BY <2>1 DEF Answered
<1>3. ASSUME NEW i \in Invocations, InvokesAction(i) \/ CaptureEnds(i)
      PROVE  Answered' /\ \A j \in Invocations : sent[j] # None => sent'[j] # None
  <2>1. PICK request \in Request : Asks(i, request) /\ UNCHANGED sent
    BY <1>3, SnapshotAsked
  <2>2. answeredBy' = answeredBy /\ at' \in {[at EXCEPT ![i] = "asking"], [at EXCEPT ![i] = "done"]}
    BY <2>1, AsksOrDone
  <2>3. \A j \in Invocations : at'[j] = "allowed" => at[j] = "allowed"
    BY <1>1, <2>2
  <2> QED
    BY <2>1, <2>2, <2>3 DEF Answered
<1>4. ASSUME NEW i \in Invocations, Sends(i)
      PROVE  Answered' /\ \A j \in Invocations : sent[j] # None => sent'[j] # None
  <2>1. captured[i] # None
    BY <1>4, InvocationsAssumption DEF Sends, IInv, Captured
  <2>2. /\ at[i] = "allowed" /\ sent' = [sent EXCEPT ![i] = captured[i]] /\ at' = [at EXCEPT ![i] = "done"]
        /\ answeredBy' = answeredBy
    BY <1>4 DEF Sends, Outgoing, host
  <2> QED
    BY <1>1, <2>1, <2>2 DEF Answered
<1>5. CASE ClickAllow \/ Dismiss \/ CloseEvent \/ Destroy
  <2>1. \A j \in Invocations : at'[j] = IF j # pending THEN at[j] ELSE IF ClickAllow THEN "allowed" ELSE "done"
    BY <1>5, ResolvingStep
  <2>2. sent' = sent
    BY <1>5, ResolvingStep
  <2>3. \A j \in Invocations : j = pending => sent[j] = None
    BY PendingAsks, InvocationsAssumption
  <2>4. \A j \in Invocations : j # pending => answeredBy'[j] = answeredBy[j]
    BY <1>1, <1>5 DEF ClickAllow, Dismiss, CloseEvent, CloseListener, Destroy, Finish
  <2>5. \A j \in Invocations : ClickAllow /\ j = pending => answeredBy'[j] = "allow"
    BY <1>1, InvocationsAssumption DEF ClickAllow, Finish
  <2> QED
    BY <2>1, <2>2, <2>3, <2>4, <2>5 DEF Answered
<1>6. CASE BrowserCloses \/ UNCHANGED vars
  <2>1. sent' = sent /\ at' = at /\ answeredBy' = answeredBy
    BY <1>6 DEF BrowserCloses, vars, broker, host
  <2> QED
    BY <2>1 DEF Answered
<1> QED
  BY <1>2, <1>3, <1>4, <1>5, <1>6 DEF Next

-----------------------------------------------------------------------------
(* The whole.                                                              *)

LEMMA AppInitIsSound == AppInit => AppInv
<1> SUFFICES ASSUME AppInit PROVE AppInv
  OBVIOUS
<1> USE AppAssumption, InvocationsAssumption
<1>1. Init
  BY DEF AppInit
<1>2. IInv /\ TypeOK
  BY <1>1, InitIsSound DEF IInv
<1>3. /\ at = [i \in Invocations |-> "app"] /\ sent = [i \in Invocations |-> None]
  BY <1>1 DEF Init
<1>4. /\ caller = None /\ verifying = None /\ pinned = None /\ artifact = None
      /\ mount = "none" /\ frame = None /\ closed = FALSE
      /\ inbox = <<>> /\ replies = <<>>
      /\ stage = [i \in Ported |-> "none"] /\ from = [i \in Ported |-> None]
  BY DEF AppInit
<1>5. Answered
  BY <1>3 DEF Answered
<1>6. AppTypeOK
  <2>1. inbox \in Seq([invocation : Ported, valid : BOOLEAN])
        /\ replies \in Seq([invocation : Ported, ok : BOOLEAN, content : Contents \cup {None}])
    BY <1>4
  <2> QED
    BY <1>2, <1>3, <1>4, <2>1 DEF AppTypeOK
<1>7. Started /\ ArtifactSound /\ PortSound /\ RepliesTrue
  <2>1. DOMAIN replies = {}
    BY <1>4
  <2> QED
    BY <1>3, <1>4, <2>1 DEF Started, ArtifactSound, PortSound, Readable, RepliesTrue
<1> QED
  BY <1>2, <1>5, <1>6, <1>7 DEF AppInv

\* Steps of Consent on their own, with the app as it was.
LEMMA ConsentSteps ==
  ASSUME AppInv, [Next]_vars, UNCHANGED appVars,
         \A i \in Ported : at[i] = "app" <=> at'[i] = "app"
  PROVE  AppInv'
<1>1. IInv /\ Answered /\ AppTypeOK /\ Started /\ ArtifactSound /\ PortSound /\ RepliesTrue
  BY DEF AppInv
<1>2. IInv' /\ Answered' /\ TypeOK' /\ \A i \in Invocations : sent[i] # None => sent'[i] # None
  BY <1>1, NextIsSound, AnsweredStep DEF IInv
<1>3. /\ caller' = caller /\ verifying' = verifying /\ pinned' = pinned /\ artifact' = artifact
      /\ mount' = mount /\ frame' = frame /\ closed' = closed
      /\ inbox' = inbox /\ stage' = stage /\ from' = from /\ replies' = replies
  BY DEF appVars, artifactVars, frameVars, portVars
<1>4. AppTypeOK'
  BY <1>1, <1>2, <1>3 DEF AppTypeOK
<1>5. Started' /\ ArtifactSound'
  BY <1>1, <1>3 DEF Started, ArtifactSound
<1>6. PortSound'
  BY <1>1, <1>2, <1>3, AppAssumption DEF PortSound, Readable
<1>7. RepliesTrue'
  <2>1. \A k \in DOMAIN replies : replies[k].invocation \in Invocations
    <3>1. replies \in Seq([invocation : Ported, ok : BOOLEAN, content : Contents \cup {None}])
      BY <1>1 DEF AppTypeOK
    <3>2. DOMAIN replies = 1 .. Len(replies)
      BY <3>1
    <3>3. \A k \in DOMAIN replies : replies[k] \in [invocation : Ported, ok : BOOLEAN, content : Contents \cup {None}]
      BY ONLY <3>1, <3>2, ElementOfSeq
    <3> QED
      BY <3>3, AppAssumption
  <2>2. \A k, n \in DOMAIN replies : replies[k].invocation = replies[n].invocation => k = n
    BY <1>1 DEF RepliesTrue
  <2>3. ASSUME NEW k \in DOMAIN replies, replies[k].ok
        PROVE LET i == replies[k].invocation
              IN  /\ answeredBy'[i] = "allow" /\ sent'[i] # None
                  /\ i \notin BrowserActions => from[i] \in DeclaredOrigins
                  /\ i \in Downloads => replies[k].content = Pin[i]
    BY <1>1, <1>2, <2>1, <2>3 DEF RepliesTrue, Answered
  <2> QED
    BY <1>3, <2>2, <2>3 DEF RepliesTrue
<1> QED
  BY <1>2, <1>4, <1>5, <1>6, <1>7 DEF AppInv

\* The artifact and its frame.
LEMMA ArtifactSteps ==
  ASSUME AppInv, CallerChanges \/ VerifyBegins \/ VerifyEnds \/ MountBegins \/ MountEnds \/ FrameLoads \/ Closes
  PROVE  AppInv'
<1>1. IInv /\ Answered /\ AppTypeOK /\ Started /\ ArtifactSound /\ PortSound /\ RepliesTrue /\ TypeOK
  BY DEF AppInv, IInv
<1>2. UNCHANGED vars /\ inbox' = inbox /\ stage' = stage /\ from' = from /\ replies' = replies
  BY DEF CallerChanges, VerifyBegins, VerifyEnds, MountBegins, MountEnds, FrameLoads, Closes, portVars
<1>3. at' = at /\ sent' = sent /\ answeredBy' = answeredBy
  BY <1>2 DEF vars, broker, host
<1>4. IInv' /\ Answered' /\ TypeOK'
  BY <1>1, <1>2, NextIsSound, AnsweredStep DEF IInv
<1>5. Started' /\ PortSound' /\ RepliesTrue'
  BY <1>1, <1>2, <1>3 DEF Started, PortSound, Readable, RepliesTrue
<1>6. /\ caller' \in Declaration \cup {None} /\ verifying' \in Declaration \cup {None}
      /\ {pinned', artifact', frame'} \subseteq Contents \cup {None}
      /\ mount' \in {"none", "opening", "loading", "open", "refused"} /\ closed' \in BOOLEAN
      /\ ArtifactSound'
  <2> USE <1>1, AppAssumption DEF AppTypeOK, ArtifactSound, Declaration, artifactVars, frameVars
  <2>1. CASE CallerChanges
    BY <2>1 DEF CallerChanges
  <2>2. CASE VerifyBegins
    BY <2>2 DEF VerifyBegins
  <2>3. CASE VerifyEnds
    <3>1. verifying \in Declaration /\ verifying.content \in Contents /\ verifying.sha256 = pinned
      BY <2>3 DEF VerifyEnds
    <3> QED
      BY <2>3, <3>1 DEF VerifyEnds, Blob
  <2>4. CASE MountBegins \/ MountEnds
    BY <2>4 DEF MountBegins, MountEnds
  <2>5. CASE FrameLoads \/ Closes
    BY <2>5 DEF FrameLoads, Closes
  <2> QED
    BY <2>1, <2>2, <2>3, <2>4, <2>5
<1>7. AppTypeOK'
  BY <1>1, <1>2, <1>3, <1>4, <1>6 DEF AppTypeOK
<1> QED
  BY <1>4, <1>5, <1>6, <1>7 DEF AppInv

\* Steps of the port that leave Consent, the artifact and the frame alone:
\* messages come and go, stages advance, at most one reply is posted.
PortSteps(i) ==
  AppPosts(i) \/ RepliesRefused(i) \/ HandlerReturns(i) \/ ResponseRefused(i) \/ ResponseArrives(i)
  \/ BodyEnds(i) \/ BodyFails(i)

\* What a reply does.
LEMMA Replying ==
  ASSUME AppInv, NEW i \in Ported, NEW ok \in BOOLEAN, NEW content \in Contents \cup {None},
         stage[i] \in {"invoked", "reading"}, Replies(i, ok, content),
         ok => /\ sent[i] # None
               /\ i \notin BrowserActions => from[i] \in DeclaredOrigins
               /\ i \in Downloads => content = Pin[i]
  PROVE  AppInv'
<1> DEFINE R == [invocation : Ported, ok : BOOLEAN, content : Contents \cup {None}]
           reply == [invocation |-> i, ok |-> ok, content |-> content]
<1>1. IInv /\ Answered /\ AppTypeOK /\ Started /\ ArtifactSound /\ PortSound /\ RepliesTrue /\ TypeOK
  BY DEF AppInv, IInv
<1>2. /\ UNCHANGED vars /\ caller' = caller /\ verifying' = verifying /\ pinned' = pinned /\ artifact' = artifact
      /\ mount' = mount /\ frame' = frame /\ closed' = closed /\ inbox' = inbox /\ from' = from
      /\ stage' = [stage EXCEPT ![i] = "replied"]
      /\ replies' = replies \/ replies' = Append(replies, reply)
  BY DEF Replies, Settled, artifactVars, frameVars
<1>3. at' = at /\ sent' = sent /\ answeredBy' = answeredBy
  BY <1>2 DEF vars, broker, host
<1>4. IInv' /\ Answered' /\ TypeOK'
  BY <1>1, <1>2, NextIsSound, AnsweredStep DEF IInv
<1>5. /\ stage \in [Ported -> {"none", "posted", "invoked", "reading", "replied"}]
      /\ replies \in Seq(R) /\ reply \in R
  BY <1>1 DEF AppTypeOK
<1>6. /\ stage' \in [Ported -> {"none", "posted", "invoked", "reading", "replied"}]
      /\ stage'[i] = "replied" /\ \A j \in Ported : j # i => stage'[j] = stage[j]
  BY <1>2, <1>5
<1>7. Started' /\ ArtifactSound'
  BY <1>1, <1>2, <1>3, <1>6 DEF Started, ArtifactSound
\* The replies so far are to other messages.
<1> DEFINE n == Len(replies) + 1
<1>8. /\ DOMAIN replies = 1 .. Len(replies) /\ Len(replies) \in Nat
      /\ \A k \in DOMAIN replies : replies[k].invocation \in Ported /\ replies[k].invocation # i
  <2>1. DOMAIN replies = 1 .. Len(replies) /\ Len(replies) \in Nat
    BY <1>5
  <2>2. \A k \in DOMAIN replies : replies[k] \in R
    BY ONLY <1>5, <2>1, ElementOfSeq
  <2> QED
    BY <1>1, <2>1, <2>2 DEF PortSound, Readable
<1>9. /\ replies' \in Seq(R)
      /\ \A k \in DOMAIN replies' : \/ k \in DOMAIN replies /\ replies'[k] = replies[k]
                                    \/ k = n /\ replies'[k] = reply
  <2>1. CASE replies' = replies
    BY <1>5, <2>1
  <2>2. CASE replies' = Append(replies, reply)
    <3> HIDE DEF R, reply
    <3>1. /\ replies' \in Seq(R) /\ Len(replies') = n /\ replies'[n] = reply
          /\ \A k \in 1 .. Len(replies) : replies'[k] = replies[k]
      BY <1>5, <2>2, AppendProperties
    <3>2. DOMAIN replies' = 1 .. n
      BY <3>1
    <3> QED
      BY <1>8, <3>1, <3>2
  <2> QED
    BY <1>2, <2>1, <2>2
<1>10. reply.invocation = i /\ reply.ok = ok /\ reply.content = content
  OBVIOUS
<1> HIDE DEF R, reply, n
<1>11. AppTypeOK'
  BY <1>1, <1>2, <1>3, <1>4, <1>6, <1>9 DEF AppTypeOK, R
<1>12. PortSound'
  BY <1>1, <1>2, <1>3, <1>6, <1>8, <1>9, <1>10 DEF PortSound, Readable
<1>13. RepliesTrue'
  <2>1. \A k, m \in DOMAIN replies' : replies'[k].invocation = replies'[m].invocation => k = m
    BY <1>1, <1>8, <1>9, <1>10 DEF RepliesTrue
  <2>2. ASSUME NEW k \in DOMAIN replies', replies'[k].ok
        PROVE LET j == replies'[k].invocation
              IN  /\ answeredBy[j] = "allow" /\ sent[j] # None
                  /\ j \notin BrowserActions => from[j] \in DeclaredOrigins
                  /\ j \in Downloads => replies'[k].content = Pin[j]
    <3>1. CASE k \in DOMAIN replies /\ replies'[k] = replies[k]
      BY <1>1, <2>2, <3>1 DEF RepliesTrue
    <3>2. CASE replies'[k] = reply
      BY <1>1, <1>10, <2>2, <3>2, AppAssumption DEF Answered
    <3> QED
      BY <1>9, <3>1, <3>2
  <2> QED
    BY <1>2, <1>3, <2>1, <2>2 DEF RepliesTrue
<1> QED
  BY <1>4, <1>7, <1>11, <1>12, <1>13 DEF AppInv

LEMMA PortStep ==
  ASSUME AppInv, NEW i \in Ported, PortSteps(i)
  PROVE  AppInv'
<1>1. IInv /\ Answered /\ AppTypeOK /\ Started /\ ArtifactSound /\ PortSound /\ RepliesTrue /\ TypeOK
  BY DEF AppInv, IInv
<1>2. CASE AppPosts(i) \/ ResponseArrives(i)
  <2>1. /\ UNCHANGED vars /\ caller' = caller /\ verifying' = verifying /\ pinned' = pinned /\ artifact' = artifact
        /\ mount' = mount /\ frame' = frame /\ closed' = closed /\ replies' = replies
    BY <1>2 DEF AppPosts, ResponseArrives, artifactVars, frameVars
  <2>2. at' = at /\ sent' = sent /\ answeredBy' = answeredBy
    BY <2>1 DEF vars, broker, host
  <2>3. IInv' /\ Answered' /\ TypeOK'
    BY <1>1, <2>1, NextIsSound, AnsweredStep DEF IInv
  <2>4. /\ stage \in [Ported -> {"none", "posted", "invoked", "reading", "replied"}]
        /\ from \in [Ported -> Origins \cup {None}] /\ inbox \in Seq([invocation : Ported, valid : BOOLEAN])
    BY <1>1 DEF AppTypeOK
  <2>5. \/ /\ stage[i] = "none" /\ stage' = [stage EXCEPT ![i] = "posted"] /\ from' = from
           /\ inbox' \in Seq([invocation : Ported, valid : BOOLEAN])
        \/ /\ stage[i] = "invoked" /\ sent[i] # None /\ inbox' = inbox
           /\ stage' = [stage EXCEPT ![i] = "reading"]
           /\ \/ i \in BrowserActions /\ from' = from
              \/ \E origin \in DeclaredOrigins : from' = [from EXCEPT ![i] = origin]
    <3>1. CASE AppPosts(i)
      <4>1. PICK valid \in BOOLEAN : inbox' = Append(inbox, [invocation |-> i, valid |-> valid])
        BY <3>1 DEF AppPosts
      <4>2. [invocation |-> i, valid |-> valid] \in [invocation : Ported, valid : BOOLEAN]
        OBVIOUS
      <4>3. inbox' \in Seq([invocation : Ported, valid : BOOLEAN])
        BY ONLY <2>4, <4>1, <4>2, AppendProperties
      <4> QED
        BY <3>1, <4>3 DEF AppPosts
    <3>2. CASE ResponseArrives(i)
      BY <3>2 DEF ResponseArrives, DeclaredOrigin
    <3> QED
      BY <1>2, <3>1, <3>2
  <2>6. /\ stage' \in [Ported -> {"none", "posted", "invoked", "reading", "replied"}]
        /\ from' \in [Ported -> Origins \cup {None}] /\ inbox' \in Seq([invocation : Ported, valid : BOOLEAN])
    BY <2>4, <2>5, AppAssumption
  <2>7. AppTypeOK'
    BY <1>1, <2>1, <2>2, <2>3, <2>4, <2>5, <2>6 DEF AppTypeOK
  <2>8. Started' /\ ArtifactSound'
    BY <1>1, <2>1, <2>2, <2>4, <2>5 DEF Started, ArtifactSound
  <2>9. stage[i] # "replied" /\ \A j \in Ported : j # i => stage'[j] = stage[j] /\ from'[j] = from[j]
    BY <2>4, <2>5
  <2>10. /\ DOMAIN replies = 1 .. Len(replies)
         /\ \A k \in DOMAIN replies : replies[k].invocation \in Ported /\ replies[k].invocation # i
    <3>1. replies \in Seq([invocation : Ported, ok : BOOLEAN, content : Contents \cup {None}])
      BY <1>1 DEF AppTypeOK
    <3>2. DOMAIN replies = 1 .. Len(replies)
      BY <3>1
    <3>3. \A k \in DOMAIN replies : replies[k] \in [invocation : Ported, ok : BOOLEAN, content : Contents \cup {None}]
      BY ONLY <3>1, <3>2, ElementOfSeq
    <3> QED
      BY <1>1, <2>9, <3>2, <3>3 DEF PortSound, Readable
  <2>11. stage'[i] = "reading" => sent[i] # None /\ (i \notin BrowserActions => from'[i] \in DeclaredOrigins)
    BY <2>4, <2>5
  <2>12. PortSound'
    BY <1>1, <2>1, <2>2, <2>9, <2>10, <2>11 DEF PortSound, Readable
  <2>13. RepliesTrue'
    BY <1>1, <2>1, <2>2, <2>9, <2>10 DEF RepliesTrue
  <2> QED
    BY <2>3, <2>7, <2>8, <2>12, <2>13 DEF AppInv
<1>3. CASE RepliesRefused(i) \/ ResponseRefused(i) \/ BodyFails(i)
  <2>1. stage[i] \in {"invoked", "reading"} /\ Replies(i, FALSE, None)
    BY <1>3 DEF RepliesRefused, ResponseRefused, BodyFails, Deadline
  <2> QED
    BY <2>1, Replying
<1>4. CASE HandlerReturns(i)
  <2>1. PICK ok \in BOOLEAN : Replies(i, ok, None)
    BY <1>4 DEF HandlerReturns
  <2>2. stage[i] = "invoked" /\ sent[i] # None /\ i \in BrowserActions /\ i \notin Downloads
    BY <1>4, AppAssumption DEF HandlerReturns
  <2> QED
    BY <2>1, <2>2, Replying
<1>5. CASE BodyEnds(i)
  <2>1. stage[i] = "reading" /\ sent[i] # None /\ (i \notin BrowserActions => from[i] \in DeclaredOrigins)
    BY <1>1, <1>5 DEF BodyEnds, PortSound, Readable
  <2>2. PICK content \in Contents : \/ Accepted(i, content) /\ Replies(i, TRUE, content)
                                    \/ Replies(i, FALSE, None)
    BY <1>5 DEF BodyEnds
  <2>3. CASE Replies(i, FALSE, None)
    BY <2>1, <2>3, Replying
  <2>4. CASE Accepted(i, content) /\ Replies(i, TRUE, content)
    <3>1. i \in Downloads => content = Pin[i]
      BY <2>4 DEF Accepted
    <3> QED
      BY <2>1, <2>4, <3>1, Replying
  <2> QED
    BY <2>2, <2>3, <2>4
<1> QED
  BY <1>2, <1>3, <1>4, <1>5 DEF PortSteps

LEMMA MessageStep ==
  ASSUME AppInv, MessageDropped \/ MessageHandled
  PROVE  AppInv'
<1> DEFINE M == [invocation : Ported, valid : BOOLEAN]
<1>1. IInv /\ Answered /\ AppTypeOK /\ Started /\ ArtifactSound /\ PortSound /\ RepliesTrue /\ TypeOK
  BY DEF AppInv, IInv
<1>2. /\ inbox # <<>> /\ inbox' = Tail(inbox)
      /\ caller' = caller /\ verifying' = verifying /\ pinned' = pinned /\ artifact' = artifact
      /\ mount' = mount /\ frame' = frame /\ closed' = closed /\ replies' = replies /\ from' = from
  BY DEF MessageDropped, MessageHandled, artifactVars, frameVars
<1>3. inbox \in Seq(M) /\ Head(inbox) \in M /\ inbox' \in Seq(M)
  <2>1. inbox \in Seq(M)
    BY <1>1 DEF AppTypeOK
  <2> HIDE DEF M
  <2> QED
    BY <1>2, <2>1
<1> DEFINE i == Head(inbox).invocation
<1>4. i \in Ported /\ i \in Invocations
  BY <1>3, AppAssumption
<1> HIDE DEF i, M
<1>5. stage \in [Ported -> {"none", "posted", "invoked", "reading", "replied"}]
  BY <1>1 DEF AppTypeOK
\* The invocation is a step of Consent and its message is new.
<1>6. /\ [Next]_vars
      /\ \/ at' = at /\ stage' = stage /\ UNCHANGED vars
         \/ /\ at[i] = "app" /\ at'[i] # "app" /\ stage' = [stage EXCEPT ![i] = "invoked"]
            /\ \A j \in Invocations \ {i} : at'[j] = at[j]
  <2>1. CASE MessageDropped
    BY <2>1 DEF MessageDropped, vars
  <2>2. CASE MessageHandled
    <3>1. Handles(i) /\ stage' = [stage EXCEPT ![i] = "invoked"]
      BY <2>2 DEF MessageHandled, i
    <3>2. Next /\ at[i] = "app" /\ at'[i] # "app" /\ \A j \in Invocations \ {i} : at'[j] = at[j]
      BY <1>1, <1>4, <3>1, HandlesOne
    <3> QED
      BY <3>1, <3>2
  <2> QED
    BY <2>1, <2>2
<1>7. IInv' /\ Answered' /\ TypeOK' /\ \A j \in Invocations : sent[j] # None => sent'[j] # None
  BY <1>1, <1>6, NextIsSound, AnsweredStep DEF IInv
<1>8. /\ stage' \in [Ported -> {"none", "posted", "invoked", "reading", "replied"}]
      /\ \A j \in Ported : \/ stage'[j] = stage[j] /\ at'[j] = at[j]
                           \/ /\ stage[j] \in {"none", "posted"} /\ stage'[j] = "invoked"
                              /\ at[j] = "app" /\ at'[j] # "app"
  BY <1>1, <1>4, <1>5, <1>6, AppAssumption DEF Started
<1>9. Started' /\ ArtifactSound'
  BY <1>1, <1>2, <1>8 DEF Started, ArtifactSound
<1>10. AppTypeOK'
  BY <1>1, <1>2, <1>3, <1>7, <1>8, <1>9 DEF AppTypeOK, Started, M
<1>11. \A k \in DOMAIN replies : replies[k].invocation \in Ported /\ replies[k].invocation \in Invocations
  <2>1. replies \in Seq([invocation : Ported, ok : BOOLEAN, content : Contents \cup {None}])
    BY <1>1 DEF AppTypeOK
  <2>2. DOMAIN replies = 1 .. Len(replies)
    BY <2>1
  <2>3. \A k \in DOMAIN replies : replies[k] \in [invocation : Ported, ok : BOOLEAN, content : Contents \cup {None}]
    BY ONLY <2>1, <2>2, ElementOfSeq
  <2> QED
    BY <2>3, AppAssumption
<1>12. PortSound'
  BY <1>1, <1>2, <1>7, <1>8, <1>11, AppAssumption DEF PortSound, Readable
<1>13. RepliesTrue'
  <2>1. ASSUME NEW k \in DOMAIN replies, replies[k].ok
        PROVE LET j == replies[k].invocation
              IN  /\ answeredBy'[j] = "allow" /\ sent'[j] # None
                  /\ j \notin BrowserActions => from[j] \in DeclaredOrigins
                  /\ j \in Downloads => replies[k].content = Pin[j]
    BY <1>1, <1>7, <1>11, <2>1 DEF RepliesTrue, Answered
  <2> QED
    BY <1>1, <1>2, <2>1 DEF RepliesTrue
<1> QED
  BY <1>7, <1>9, <1>10, <1>12, <1>13 DEF AppInv

LEMMA AppNextIsSound == AppInv /\ [AppNext]_allVars => AppInv'
<1> SUFFICES ASSUME AppInv, [AppNext]_allVars PROVE AppInv'
  OBVIOUS
<1>0. IInv /\ at \in [Invocations -> Places]
  BY DEF AppInv, IInv, TypeOK, Places
<1>1. CASE ConsentStep
  <2>1. UNCHANGED appVars
    BY <1>1 DEF ConsentStep
  <2>2. ASSUME NEW i \in Invocations \ Ported, Handles(i) PROVE AppInv'
    BY <1>0, <2>1, <2>2, HandlesOne, ConsentSteps, AppAssumption
  <2>3. CASE \/ \E i \in Invocations : AppChanges(i) \/ CaptureEnds(i) \/ CaptureFails(i) \/ Sends(i)
             \/ ClickAllow \/ Dismiss \/ BrowserCloses \/ CloseEvent \/ Destroy
    BY <1>0, <2>1, <2>3, OthersMove, ConsentSteps, AppAssumption
  <2> QED
    BY <1>1, <2>2, <2>3 DEF ConsentStep
<1>2. CASE CallerChanges \/ VerifyBegins \/ VerifyEnds \/ MountBegins \/ MountEnds \/ FrameLoads \/ Closes
  BY <1>2, ArtifactSteps
<1>3. CASE MessageDropped \/ MessageHandled
  BY <1>3, MessageStep
<1>4. ASSUME NEW i \in Ported, PortSteps(i) PROVE AppInv'
  BY <1>4, PortStep
<1>5. CASE UNCHANGED allVars
  <2>1. UNCHANGED vars /\ UNCHANGED appVars
    BY <1>5 DEF allVars
  <2>2. at' = at
    BY <2>1 DEF vars
  <2> QED
    BY <2>1, <2>2, ConsentSteps
<1> QED
  BY <1>1, <1>2, <1>3, <1>4, <1>5 DEF AppNext, PortSteps

LEMMA AppInvariant == AppSpec => []AppInv
BY AppInitIsSound, AppNextIsSound, PTL DEF AppSpec

\* The variables of the whole keep their types; a message has set off nothing
\* before it is handled.
THEOREM AppTypeCorrect == AppSpec => []AppTypeOK
<1>1. AppInv => AppTypeOK
  BY DEF AppInv
<1> QED
  BY <1>1, AppInvariant, PTL

\* With an app beside it the broker asks and sends as it does alone
\* (kotoba-client-runtime.js, lines 645-692 and 820-863).
THEOREM AppSendsAsAgreed == AppSpec => [](QuestionAnswerable /\ SentAsAgreed)
<1>1. AppInv => QuestionAnswerable /\ SentAsAgreed
  BY SentIsAgreed DEF AppInv, IInv
<1> QED
  BY <1>1, AppInvariant, PTL

\* The frame shows what was declared when its verification began (709-734).
THEOREM Mounted == AppSpec => []MountedAsPinned
<1>1. AppInv => MountedAsPinned
  BY DEF AppInv, ArtifactSound, MountedAsPinned
<1> QED
  BY <1>1, AppInvariant, PTL

\* One reply at most to a message, and no success that was not allowed, sent and
\* answered from a declared origin with the artifact declared (737-748, 851-861).
THEOREM RepliesHold == AppSpec => []RepliesTrue
<1>1. AppInv => RepliesTrue
  BY DEF AppInv
<1> QED
  BY <1>1, AppInvariant, PTL

\* The app, its frame and its port leave the broker and the consent host as they
\* are specified: a message is one more way to invoke (lines 737-748, 820-850).
THEOREM AppImplementsConsent == AppSpec => Spec
<1>1. ASSUME AppInv, [AppNext]_allVars PROVE [Next]_vars
  <2>1. IInv
    BY <1>1 DEF AppInv
  <2>2. ASSUME NEW i \in Invocations, Handles(i) PROVE Next
    BY <2>1, <2>2, HandlesOne
  <2>3. CASE ConsentStep
    <3>1. CASE \/ \E i \in Invocations : AppChanges(i) \/ CaptureEnds(i) \/ CaptureFails(i) \/ Sends(i)
               \/ ClickAllow \/ Dismiss \/ BrowserCloses \/ CloseEvent \/ Destroy
      BY <2>1, <3>1, OthersMove
    <3> QED
      BY <2>2, <2>3, <3>1 DEF ConsentStep
  <2>4. CASE MessageHandled
    <3>1. PICK i \in Ported : Handles(i)
      <4> DEFINE M == [invocation : Ported, valid : BOOLEAN]
      <4>1. inbox \in Seq(M) /\ inbox # <<>>
        BY <1>1, <2>4 DEF AppInv, AppTypeOK, MessageHandled
      <4> HIDE DEF M
      <4>2. Head(inbox) \in M
        BY <4>1
      <4> QED
        BY <2>4, <4>2 DEF MessageHandled, M
    <3> QED
      BY <2>2, <3>1, AppAssumption
  <2>5. CASE CallerChanges \/ VerifyBegins \/ VerifyEnds \/ MountBegins \/ MountEnds \/ FrameLoads \/ Closes \/ MessageDropped
    BY <2>5 DEF CallerChanges, VerifyBegins, VerifyEnds, MountBegins, MountEnds, FrameLoads, Closes, MessageDropped
  <2>6. ASSUME NEW i \in Ported, PortSteps(i) PROVE UNCHANGED vars
    BY <2>6 DEF PortSteps, AppPosts, RepliesRefused, HandlerReturns, ResponseRefused, ResponseArrives, BodyEnds, BodyFails, Replies
  <2>7. CASE UNCHANGED allVars
    BY <2>7 DEF allVars
  <2> QED
    BY <1>1, <2>3, <2>4, <2>5, <2>6, <2>7 DEF AppNext, PortSteps
<1>2. AppInit => Init
  BY DEF AppInit
<1> QED
  BY <1>1, <1>2, AppInvariant, PTL DEF AppSpec, Spec
=============================================================================
