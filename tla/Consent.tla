------------------------------ MODULE Consent ------------------------------
(***************************************************************************)
(* The consent host and the operation broker of the client runtime         *)
(* (src/kotoba-client-runtime.js).                                         *)
(*                                                                         *)
(* An app invokes operations; the broker captures each request, asks the   *)
(* user in a dialog of the trusted shell and sends what was allowed.  All  *)
(* of it runs on one thread: a step is what runs between two awaits, or    *)
(* the listener of one event.  The app may change the payload it passed    *)
(* whenever it runs.  dialog.close() queues a close event, which arrives   *)
(* later, after whatever else was going on.                                *)
(*                                                                         *)
(* A request is where it goes, which the dialog displays, and a body.  A   *)
(* browser action names in its descriptor where it goes, and its payload   *)
(* is copied at once; an HTTP request goes where its payload says, and     *)
(* its body is a stream, read until it ends.                               *)
(***************************************************************************)
EXTENDS Integers, FiniteSets, Sequences

CONSTANTS
  Invocations,      \* the invocations an app makes
  Approved, Supported,   \* those whose operation the host approves, and supports
  BrowserActions,   \* those that are browser actions, all others are HTTP
  Scopes, Declared, \* where a request may go, and what the endpoints declare
  Bodies,
  None

Payload == [scope : Scopes, body : Bodies]
Request == [scope : Scopes \cup BrowserActions, body : Bodies]

ASSUME InvocationsAssumption ==
  /\ Approved \cup Supported \cup BrowserActions \subseteq Invocations
  /\ Declared \subseteq Scopes
  /\ IsFiniteSet(Invocations) /\ Scopes \cap Invocations = {}
  /\ None \notin Invocations /\ None \notin Request

VARIABLES
  payload,     \* payload[i]: the app's own object
  at,          \* at[i]: how far invoke has come
  captured,    \* captured[i]: the broker's snapshot
  pending,     \* the invocation the host is to resolve, or None
  display,     \* the text in the dialog
  open,        \* dialog.open
  closes,      \* close events queued, each by the invocation it was closed for
  destroyed,
  agreed,      \* history: what was asked at each click on Allow
  answeredBy,  \* history, by invocation: the event that resolved it
  sent         \* history, by invocation: what was sent

broker == <<payload, captured, sent>>
host == <<pending, display, open, closes, destroyed, agreed, answeredBy>>
vars == <<broker, at, host>>

Eligible == Approved \cap Supported

Init ==
  /\ payload \in [Invocations -> Payload]
  /\ at = [i \in Invocations |-> "app"]
  /\ captured = [i \in Invocations |-> None]
  /\ pending = None
  /\ display = None
  /\ open = FALSE
  /\ closes = <<>>
  /\ destroyed = FALSE
  /\ agreed = <<>>
  /\ answeredBy = [i \in Invocations |-> None]
  /\ sent = [i \in Invocations |-> None]

AppChanges(i) ==
  /\ at[i] \notin {"app", "done"}
  /\ \E value \in Payload : payload' = [payload EXCEPT ![i] = value]
  /\ UNCHANGED <<captured, sent, at, host>>

-----------------------------------------------------------------------------
(* The consent host.                                                       *)

Busy == destroyed \/ pending # None

\* What the dialog says.
Described(request) == request.scope

\* confirm: the dialog is shown, or the question is refused.
Asks(i, request) ==
  \/ /\ ~Busy
     /\ pending' = i /\ display' = Described(request) /\ open' = TRUE
     /\ at' = [at EXCEPT ![i] = "asking"]
     /\ UNCHANGED <<closes, destroyed, agreed, answeredBy>>
  \/ /\ ~Busy   \* showModal throws
     /\ display' = Described(request)
     /\ at' = [at EXCEPT ![i] = "done"]
     /\ UNCHANGED <<pending, open, closes, destroyed, agreed, answeredBy>>
  \/ /\ Busy
     /\ at' = [at EXCEPT ![i] = "done"]
     /\ UNCHANGED host

\* finish, called by the listener of `event` with `queue` as the events left.
Finish(approved, event, queue) ==
  IF pending = None
    THEN closes' = queue /\ UNCHANGED <<pending, open, at, answeredBy>>
    ELSE /\ pending' = None
         /\ open' = FALSE
         /\ closes' = IF open THEN Append(queue, pending) ELSE queue
         /\ at' = [at EXCEPT ![pending] = IF approved THEN "allowed" ELSE "done"]
         /\ answeredBy' = [answeredBy EXCEPT ![pending] = event]

Visible == open /\ ~destroyed

ClickAllow ==
  /\ Visible
  /\ agreed' = Append(agreed, [captured[pending] EXCEPT !.scope = display])
  /\ Finish(TRUE, "allow", closes)
  /\ UNCHANGED <<broker, display, destroyed>>

Dismiss ==   \* a click on Deny, or the cancel event of the Escape key
  /\ Visible
  /\ \E event \in {"deny", "cancel"} : Finish(FALSE, event, closes)
  /\ UNCHANGED <<broker, display, destroyed, agreed>>

BrowserCloses ==   \* without a cancel event
  /\ Visible
  /\ open' = FALSE
  /\ closes' = Append(closes, pending)
  /\ UNCHANGED <<broker, at, pending, display, destroyed, agreed, answeredBy>>

\* Mutant: nobody listens to the close event.
CloseIgnored == closes' = Tail(closes) /\ UNCHANGED <<pending, open, at, answeredBy>>

CloseListener == Finish(FALSE, Head(closes), Tail(closes))

CloseEvent ==
  /\ closes # <<>>
  /\ CloseListener
  /\ UNCHANGED <<broker, display, destroyed, agreed>>

Destroy ==
  /\ destroyed' = TRUE
  /\ Finish(FALSE, "destroy", closes)
  /\ UNCHANGED <<broker, display, agreed>>

-----------------------------------------------------------------------------
(* The broker.                                                             *)

\* The operation is not eligible; the payload of a browser action is not plain
\* data, or too long; the request is not in the declared scope.
InvokeRefused(i) ==
  /\ at[i] = "app"
  /\ i \notin Eligible \/ i \in BrowserActions \/ payload[i].scope \notin Declared
  /\ at' = [at EXCEPT ![i] = "done"]
  /\ UNCHANGED <<broker, host>>

InvokesAction(i) ==
  /\ at[i] = "app" /\ i \in Eligible \cap BrowserActions
  /\ LET request == [scope |-> i, body |-> payload[i].body] IN
       captured' = [captured EXCEPT ![i] = request] /\ Asks(i, request)
  /\ UNCHANGED <<payload, sent>>

\* The Request is made before the first await, its body is read after it.
InvokesHttp(i) ==
  /\ at[i] = "app" /\ i \in Eligible \ BrowserActions
  /\ payload[i].scope \in Declared
  /\ captured' = [captured EXCEPT ![i] = payload[i]]
  /\ at' = [at EXCEPT ![i] = "capturing"]
  /\ UNCHANGED <<payload, sent, host>>

CaptureEnds(i) ==
  /\ at[i] = "capturing"
  /\ LET request == [captured[i] EXCEPT !.body = payload[i].body] IN
       captured' = [captured EXCEPT ![i] = request] /\ Asks(i, request)
  /\ UNCHANGED <<payload, sent>>

CaptureFails(i) ==   \* too long, or too slow
  /\ at[i] = "capturing"
  /\ at' = [at EXCEPT ![i] = "done"]
  /\ UNCHANGED <<broker, host>>

\* Mutant: the app's own object is sent.
OutgoingPayload(i) == payload[i]
Outgoing(i) == captured[i]

\* fetch, or the browser handler.  The checks of the reply come after.
Sends(i) ==
  /\ at[i] = "allowed"
  /\ sent' = [sent EXCEPT ![i] = Outgoing(i)]
  /\ at' = [at EXCEPT ![i] = "done"]
  /\ UNCHANGED <<payload, captured, host>>

Next ==
  \/ \E i \in Invocations :
       \/ AppChanges(i) \/ InvokeRefused(i) \/ InvokesAction(i) \/ InvokesHttp(i)
       \/ CaptureEnds(i) \/ CaptureFails(i) \/ Sends(i)
  \/ ClickAllow \/ Dismiss \/ BrowserCloses \/ CloseEvent \/ Destroy

Spec == Init /\ [][Next]_vars

-----------------------------------------------------------------------------
(* What the user may rely on.                                              *)

TypeOK ==
  /\ payload \in [Invocations -> Payload]
  /\ at \in [Invocations -> {"app", "capturing", "asking", "allowed", "done"}]
  /\ captured \in [Invocations -> Request \cup {None}]
  /\ pending \in Invocations \cup {None}
  /\ display \in Scopes \cup BrowserActions \cup {None}
  /\ open \in BOOLEAN /\ destroyed \in BOOLEAN
  /\ closes \in Seq(Invocations)
  /\ agreed \in Seq(Request)
  /\ answeredBy \in [Invocations -> Invocations \cup {None, "allow", "deny", "cancel", "destroy"}]
  /\ sent \in [Invocations -> Request \cup {None}]

InScope(i, request) == request.scope \in (IF i \in BrowserActions THEN {i} ELSE Declared)

\* "A direct trusted MouseEvent on Allow approves one invocation": each request
\* goes out as often at most as Allow was clicked when it was asked for, with
\* the scope on display and the body read before, and it is in the declared
\* scope of an eligible operation - however the app changes its payload meanwhile.
SentAsAgreed ==
  /\ \A request \in Request :
       Cardinality({i \in Invocations : sent[i] = request})
         <= Cardinality({k \in DOMAIN agreed : agreed[k] = request})
  /\ \A i \in Invocations : sent[i] # None => i \in Eligible /\ InScope(i, sent[i])

\* No invocation waits for an answer that cannot come: whoever asks is the one
\* the host is to resolve, and its dialog is on screen with its own scope, or
\* the event that resolves it is queued.
QuestionAnswerable ==
  /\ \A i \in Invocations : at[i] = "asking" <=> pending = i
  /\ pending # None =>
       /\ ~destroyed
       /\ display = captured[pending].scope
       /\ open \/ closes # <<>>

\* "One direct trusted click resolves one displayed invocation" (in the comment on
\* createClientConsentHost):
\* no invocation is denied because the dialog of another was closed.
OneAnswerEach == \A i \in Invocations : answeredBy[i] \in Invocations => answeredBy[i] = i
=============================================================================
