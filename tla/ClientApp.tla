----------------------------- MODULE ClientApp -----------------------------
(***************************************************************************)
(* A restricted client app and its way to the operation broker             *)
(* (src/kotoba-client-runtime.js).                                         *)
(*                                                                         *)
(* The shell verifies the app's bytes against a declaration, mounts them   *)
(* in a sandboxed frame and hands the frame a port.  The app posts         *)
(* messages; the handler of each runs an invocation of the broker, which   *)
(* is Consent, reads the response and posts one reply.  Handlers run       *)
(* beside each other, and beside invocations by other code (not Ported),   *)
(* which, unlike a message, can be changed after they were made.           *)
(*                                                                         *)
(* A content stands for its digest.  A message that was queued when the    *)
(* app was closed may still be delivered.                                  *)
(***************************************************************************)
EXTENDS Consent

CONSTANTS
  Ported,      \* the invocations that come as messages of the app
  Contents,    \* what bytes may be, of apps and of artifacts
  Downloads,   \* the operations that declare an artifact,
  Pin,         \* and the content they declare
  Origins,     \* where a response may come from
  DeclaredOrigins   \* the endpoint's origin and the redirects declared

ASSUME AppAssumption ==
  /\ Ported \subseteq Invocations /\ Downloads \subseteq Invocations \ BrowserActions
  /\ Pin \in [Downloads -> Contents] /\ None \notin Contents \cup Origins
  /\ DeclaredOrigins \subseteq Origins

VARIABLES
  caller,      \* the caller's array and declaration while they are verified
  verifying,   \* what verifyClientArtifact has copied, or None
  pinned,      \* history: the digest declared when the verification began
  artifact,    \* the content of the verified artifact, or None
  mount,       \* none, opening, loading, open or refused
  frame,       \* the content in the frame, or None
  closed,
  inbox,       \* the messages of the app that wait for port1
  stage,       \* stage[i]: where the handler of a message is
  from,        \* from[i]: the origin of the response, or None
  replies      \* history: the replies of the port

artifactVars == <<caller, verifying, pinned, artifact>>
frameVars == <<mount, frame, closed>>
portVars == <<inbox, stage, from, replies>>
appVars == <<artifactVars, frameVars, portVars>>
allVars == <<vars, appVars>>

AppInit ==
  /\ Init
  /\ caller = None /\ verifying = None /\ pinned = None /\ artifact = None
  /\ mount = "none" /\ frame = None /\ closed = FALSE
  /\ inbox = <<>> /\ replies = <<>>
  /\ stage = [i \in Ported |-> "none"] /\ from = [i \in Ported |-> None]

-----------------------------------------------------------------------------
(* The artifact.                                                           *)

Declaration == [content : Contents, sha256 : Contents]

VerifyBegins ==
  /\ verifying = None /\ artifact = None
  /\ caller' \in Declaration /\ verifying' = caller' /\ pinned' = caller'.sha256
  /\ UNCHANGED <<artifact, frameVars, portVars, vars>>

\* While the digest is awaited the caller may change what it passed.
CallerChanges ==
  /\ verifying # None
  /\ caller' \in Declaration
  /\ UNCHANGED <<verifying, pinned, artifact, frameVars, portVars, vars>>

\* Mutant: the Blob is made of the caller's array.
CallersBytes(copy) == caller.content
Blob(copy) == copy.content

VerifyEnds ==
  /\ verifying # None /\ artifact = None
  /\ artifact' = IF verifying.content = verifying.sha256 THEN Blob(verifying) ELSE None
  /\ verifying' = None /\ caller' = None
  /\ UNCHANGED <<pinned, frameVars, portVars, vars>>

-----------------------------------------------------------------------------
(* The frame.                                                              *)

MountBegins ==
  /\ mount = "none" /\ artifact # None
  /\ mount' = "opening"
  /\ UNCHANGED <<artifactVars, frame, closed, portVars, vars>>

MountEnds ==
  /\ mount = "opening"
  /\ \/ mount' = "loading" /\ frame' = artifact
     \/ mount' = "refused" /\ UNCHANGED frame   \* the HTML is too long
  /\ UNCHANGED <<artifactVars, closed, portVars, vars>>

\* The first load hands the port over.
FrameLoads ==
  /\ mount = "loading" /\ ~closed
  /\ mount' = "open"
  /\ UNCHANGED <<artifactVars, frame, closed, portVars, vars>>

Closes ==
  /\ mount \in {"loading", "open"} /\ ~closed
  /\ closed' = TRUE /\ frame' = None
  /\ UNCHANGED <<artifactVars, mount, portVars, vars>>

-----------------------------------------------------------------------------
(* The port.                                                               *)

\* A message has the form of a request or has not.
AppPosts(i) ==
  /\ mount = "open" /\ ~closed /\ stage[i] = "none"
  /\ \E valid \in BOOLEAN : inbox' = Append(inbox, [invocation |-> i, valid |-> valid])
  /\ stage' = [stage EXCEPT ![i] = "posted"]
  /\ UNCHANGED <<artifactVars, frameVars, from, replies, vars>>

Dropped(message) == closed \/ ~message.valid
Handles(i) == InvokeRefused(i) \/ InvokesAction(i) \/ InvokesHttp(i)

MessageDropped ==
  /\ inbox # <<>> /\ Dropped(Head(inbox))
  /\ inbox' = Tail(inbox)
  /\ UNCHANGED <<artifactVars, frameVars, stage, from, replies, vars>>

MessageHandled ==
  /\ inbox # <<>> /\ ~Dropped(Head(inbox))
  /\ Handles(Head(inbox).invocation)
  /\ inbox' = Tail(inbox)
  /\ stage' = [stage EXCEPT ![Head(inbox).invocation] = "invoked"]
  /\ UNCHANGED <<artifactVars, frameVars, from, replies>>

\* Mutant: once replied, a message is forgotten and can come again.
Freed(i) == "none"
Settled(i) == "replied"

\* A closed port drops what is posted to it.
Replies(i, ok, content) ==
  /\ stage' = [stage EXCEPT ![i] = Settled(i)]
  /\ replies' = IF closed THEN replies ELSE Append(replies, [invocation |-> i, ok |-> ok, content |-> content])
  /\ UNCHANGED <<artifactVars, frameVars, inbox, from, vars>>

\* invoke threw before anything was sent.
RepliesRefused(i) ==
  /\ stage[i] = "invoked" /\ at[i] = "done" /\ sent[i] = None
  /\ Replies(i, FALSE, None)

\* The browser handler returns, or throws, or its result cannot be posted.
\* What it returns may be a response as well (ResponseArrives).
HandlerReturns(i) ==
  /\ stage[i] = "invoked" /\ sent[i] # None /\ i \in BrowserActions
  /\ \E ok \in BOOLEAN : Replies(i, ok, None)

\* Mutants: any origin will do; a body is taken as it is; there is no deadline.
AnyOrigin(origin) == TRUE
NoDeadline(i) == FALSE
AnyBody(i, content) == TRUE

DeclaredOrigin(origin) == origin \in DeclaredOrigins
Deadline(i) == stage[i] = "reading"
Accepted(i, content) == i \in Downloads => content = Pin[i]

\* fetch rejects, or an artifact is not there: no origin; or the response is a
\* redirect or comes from an origin that is not declared.
ResponseRefused(i) ==
  /\ stage[i] = "invoked" /\ sent[i] # None /\ i \notin BrowserActions
  /\ \E origin \in Origins \cup {None} :
       /\ origin # None => ~DeclaredOrigin(origin)
       /\ Replies(i, FALSE, None)

\* Nobody looks where the response of a browser handler comes from.
ResponseArrives(i) ==
  /\ stage[i] = "invoked" /\ sent[i] # None
  /\ \/ i \in BrowserActions /\ UNCHANGED from
     \/ /\ i \notin BrowserActions
        /\ \E origin \in Origins : DeclaredOrigin(origin) /\ from' = [from EXCEPT ![i] = origin]
  /\ stage' = [stage EXCEPT ![i] = "reading"]
  /\ UNCHANGED <<artifactVars, frameVars, inbox, replies, vars>>

\* The body is read to its end; it is refused if it is not text, or not the
\* artifact declared.
BodyEnds(i) ==
  /\ stage[i] = "reading"
  /\ \E content \in Contents :
       \/ Accepted(i, content) /\ Replies(i, TRUE, content)
       \/ Replies(i, FALSE, None)

\* Too slow, too long, or broken off.
BodyFails(i) ==
  /\ Deadline(i)
  /\ Replies(i, FALSE, None)

-----------------------------------------------------------------------------

\* The steps of Consent that no message sets off.
ConsentStep ==
  /\ \/ \E i \in Invocations \ Ported : AppChanges(i) \/ Handles(i)
     \/ \E i \in Invocations : CaptureEnds(i) \/ CaptureFails(i) \/ Sends(i)
     \/ ClickAllow \/ Dismiss \/ BrowserCloses \/ CloseEvent \/ Destroy
  /\ UNCHANGED appVars

AppNext ==
  \/ ConsentStep
  \/ CallerChanges \/ VerifyBegins \/ VerifyEnds
  \/ MountBegins \/ MountEnds \/ FrameLoads \/ Closes
  \/ MessageDropped \/ MessageHandled
  \/ \E i \in Ported :
       AppPosts(i) \/ RepliesRefused(i) \/ HandlerReturns(i) \/ ResponseRefused(i) \/ ResponseArrives(i)
       \/ BodyEnds(i) \/ BodyFails(i)

\* Of all that a handler waits for only the reading of a body has a deadline.
AppSpec == AppInit /\ [][AppNext]_allVars /\ \A i \in Ported : WF_allVars(BodyFails(i))

-----------------------------------------------------------------------------
(* What the shell and the app may rely on.                                 *)

AppTypeOK ==
  /\ TypeOK
  /\ caller \in Declaration \cup {None} /\ verifying \in Declaration \cup {None}
  /\ {pinned, artifact, frame} \subseteq Contents \cup {None}
  /\ mount \in {"none", "opening", "loading", "open", "refused"} /\ closed \in BOOLEAN
  /\ inbox \in Seq([invocation : Ported, valid : BOOLEAN])
  /\ stage \in [Ported -> {"none", "posted", "invoked", "reading", "replied"}]
  /\ from \in [Ported -> Origins \cup {None}]
  /\ replies \in Seq([invocation : Ported, ok : BOOLEAN, content : Contents \cup {None}])
  /\ \A i \in Ported : stage[i] \in {"none", "posted"} => at[i] = "app"

\* What runs in the frame has the digest that was declared when its
\* verification began, whatever the caller does to its array and declaration
\* while the digest is computed (lines 709-734).
MountedAsPinned == frame # None => frame = pinned

\* The app gets at most one reply to a message, and one that says ok only after
\* the user allowed this very invocation, its request was sent, and what came
\* back came from a declared origin and is the artifact declared (737-748, 851-861).
RepliesTrue ==
  /\ \A k, n \in DOMAIN replies : replies[k].invocation = replies[n].invocation => k = n
  /\ \A k \in DOMAIN replies :
       LET i == replies[k].invocation
       IN  replies[k].ok =>
             /\ answeredBy[i] = "allow" /\ sent[i] # None
             /\ i \notin BrowserActions => from[i] \in DeclaredOrigins
             /\ i \in Downloads => replies[k].content = Pin[i]

\* A service that never ends its body keeps no handler waiting (line 784).
ReadingEnds == \A i \in Ported : stage[i] = "reading" ~> stage[i] = "replied"
=============================================================================
