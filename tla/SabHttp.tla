------------------------------ MODULE SabHttp ------------------------------
(***************************************************************************)
(* The GET and POST bridges of src/http-sab-bridge.js.  A client, on the   *)
(* guest's worker thread, allocates a SharedArrayBuffer for each request,  *)
(* posts it to the main thread and sleeps on its first word.  A listener   *)
(* on the main thread awaits the embedder's handler and fills the buffer.  *)
(* The two kinds of request have separate listeners and share the worker's *)
(* message queue.                                                          *)
(*                                                                         *)
(* A reply is abstracted to the call it answers and its length.            *)
(***************************************************************************)
EXTENDS Integers, Sequences

CONSTANTS
  Kinds,      \* the message types, one listener each
  MaxBytes,   \* the maxBytes of every request
  MaxCalls    \* bound on the number of requests

ASSUME KindsAssumption == Kinds # {}
ASSUME BoundsAssumption == MaxBytes \in Nat /\ MaxCalls \in Nat

VARIABLES
  attached,   \* kinds whose listener is attached
  inbox,      \* messages posted and not yet dispatched
  handling,   \* calls whose handler is being awaited
  main,       \* the synchronous end of a listener on the main thread
  buffer,     \* the SharedArrayBuffer of each call
  callerAt,   \* where the guest thread is in the client
  call,       \* number of the latest request
  seenLength, \* local `length` of the client
  result      \* what the latest request returned

callerVars == <<callerAt, call, seenLength, result>>
mainVars == <<attached, inbox, handling, main>>
vars == <<mainVars, buffer, callerVars>>

Null == 0
Truncated == -1
Nothing == [of |-> 0, length |-> 0]
NotRunning == [at |-> "idle", of |-> 0, length |-> 0]
Calls == 1..MaxCalls
BufferIds == 0..MaxCalls

Init ==
  /\ attached = {}
  /\ inbox = <<>>
  /\ handling = {}
  /\ main = NotRunning
  /\ buffer = [c \in BufferIds |-> [status |-> 0, length |-> 0, bytes |-> Nothing]]
  /\ callerAt = "idle"
  /\ call = 0
  /\ seenLength = 0
  /\ result = Null

\* Mutant: all requests share one buffer.
SharedBuffer(c) == 0

\* `new SharedArrayBuffer` for each request.
BufferOf(c) == c

-----------------------------------------------------------------------------
(* The client, on the guest thread.                                        *)

NextCall ==
  /\ callerAt = "idle"
  /\ call < MaxCalls
  /\ call' = call + 1
  /\ result' = Null

ClientRefuses ==   \* malformed body or maxBytes
  /\ NextCall
  /\ UNCHANGED <<callerAt, seenLength, mainVars, buffer>>

ClientPosts(kind) ==
  /\ NextCall
  /\ callerAt' = "wait"
  /\ inbox' = Append(inbox, [kind |-> kind, of |-> call'])
  /\ UNCHANGED <<seenLength, attached, handling, main, buffer>>

Control == buffer[BufferOf(call)]

\* Mutant: the wait does not test the word.
SleepsBlindly == TRUE

Sleeps == Control.status = 0

ClientWaits ==
  /\ callerAt = "wait"
  /\ callerAt' = IF Sleeps THEN "asleep" ELSE "awake"
  /\ UNCHANGED <<call, seenLength, result, mainVars, buffer>>

ClientReturns(value) ==
  /\ callerAt' = "idle"
  /\ result' = value
  /\ UNCHANGED <<call, seenLength, mainVars, buffer>>

ClientTimesOut == callerAt = "asleep" /\ ClientReturns(Null)

ClientReadsStatus ==
  /\ callerAt = "awake"
  /\ \/ Control.status # 1 /\ ClientReturns(Null)
     \/ /\ Control.status = 1
        /\ callerAt' = "readLength"
        /\ UNCHANGED <<call, seenLength, result, mainVars, buffer>>

ClientReadsLength ==
  /\ callerAt = "readLength"
  /\ \/ Control.length \notin 0..MaxBytes /\ ClientReturns(Null)
     \/ /\ Control.length \in 0..MaxBytes
        /\ callerAt' = "copy"
        /\ seenLength' = Control.length
        /\ UNCHANGED <<call, result, mainVars, buffer>>

ClientCopies ==
  /\ callerAt = "copy"
  /\ ClientReturns(IF Control.bytes.length = seenLength THEN Control.bytes.of ELSE Truncated)

ClientStep ==
  \/ ClientWaits \/ ClientTimesOut \/ ClientReadsStatus \/ ClientReadsLength
  \/ ClientCopies

-----------------------------------------------------------------------------
(* The listeners, on the main thread.  `main` is not idle while the code   *)
(* after the await runs, which no other listener can interrupt.            *)

Attach(kind) ==   \* to a worker without such a listener
  /\ kind \notin attached
  /\ attached' = attached \cup {kind}
  /\ UNCHANGED <<inbox, handling, main, buffer, callerVars>>

Detach(kind) ==
  /\ kind \in attached
  /\ attached' = attached \ {kind}
  /\ UNCHANGED <<inbox, handling, main, buffer, callerVars>>

Dispatch ==
  /\ main = NotRunning
  /\ inbox # <<>>
  /\ inbox' = Tail(inbox)
  /\ handling' = IF Head(inbox).kind \in attached THEN handling \cup {Head(inbox).of} ELSE handling
  /\ UNCHANGED <<attached, main, buffer, callerVars>>

HandlerSettles(c, at, length) ==
  /\ main = NotRunning
  /\ c \in handling
  /\ handling' = handling \ {c}
  /\ main' = [at |-> at, of |-> c, length |-> length]
  /\ UNCHANGED <<attached, inbox, buffer, callerVars>>

HandlerReplies(c) == \E length \in 0..MaxBytes : HandlerSettles(c, "bytes", length)

HandlerFails(c) ==   \* it throws, or its reply is not bytes or too long
  HandlerSettles(c, "failure", 0)

\* Mutant: the status word is stored before the length.
StatusFirst ==
  [bytes |-> "status", status |-> "length", length |-> "notify", failure |-> "notify"]

\* The order of the listener's stores.
Then == [bytes |-> "length", length |-> "status", status |-> "notify", failure |-> "notify"]

ListenerStores(at, newBuffer) ==
  /\ main.at = at
  /\ main' = [main EXCEPT !.at = Then[at]]
  /\ buffer' = [buffer EXCEPT ![BufferOf(main.of)] = newBuffer]
  /\ UNCHANGED <<attached, inbox, handling, callerVars>>

Target == buffer[BufferOf(main.of)]

ListenerCopies ==
  ListenerStores("bytes", [Target EXCEPT !.bytes = [of |-> main.of, length |-> main.length]])
ListenerStoresLength == ListenerStores("length", [Target EXCEPT !.length = main.length])
ListenerStoresOk == ListenerStores("status", [Target EXCEPT !.status = 1])
ListenerStoresFailure == ListenerStores("failure", [Target EXCEPT !.status = -1])

ListenerNotifies ==   \* wakes only who sleeps on this very buffer
  /\ main.at = "notify"
  /\ main' = NotRunning
  /\ callerAt' = IF callerAt = "asleep" /\ BufferOf(call) = BufferOf(main.of)
                 THEN "awake" ELSE callerAt
  /\ UNCHANGED <<attached, inbox, handling, buffer, call, seenLength, result>>

MainStep ==
  \/ Dispatch
  \/ \E c \in handling : HandlerReplies(c) \/ HandlerFails(c)
  \/ ListenerCopies \/ ListenerStoresLength \/ ListenerStoresOk
  \/ ListenerStoresFailure \/ ListenerNotifies

-----------------------------------------------------------------------------
Next ==
  \/ ClientRefuses
  \/ ClientStep
  \/ MainStep
  \/ \E kind \in Kinds : ClientPosts(kind) \/ Attach(kind) \/ Detach(kind)

\* The guest thread keeps running, and Atomics.wait returns when its timeout
\* has passed.  Nothing is assumed of the main thread or the handlers.
Spec == Init /\ [][Next]_vars /\ WF_vars(ClientStep)

-----------------------------------------------------------------------------
(* Properties.                                                             *)

Replies == [of : 0..MaxCalls, length : 0..MaxBytes]

\* The types of every variable.  No reply is ever returned in part.
TypeOK ==
  /\ attached \subseteq Kinds
  /\ inbox \in Seq([kind : Kinds, of : Calls])
  /\ handling \subseteq Calls
  /\ main \in [at : {"idle", "bytes", "length", "status", "failure", "notify"},
               of : 0..MaxCalls, length : 0..MaxBytes]
  /\ buffer \in [BufferIds -> [status : {-1, 0, 1}, length : 0..MaxBytes, bytes : Replies]]
  /\ callerAt \in {"idle", "wait", "asleep", "awake", "readLength", "copy"}
  /\ call \in 0..MaxCalls
  /\ seenLength \in 0..MaxBytes
  /\ result \in 0..MaxCalls

\* A guest asleep on a word that has already been stored is about to be
\* notified (http-sab-bridge.js: Atomics.wait(control, 0, 0) against the
\* store and notify of the listener).
NoLostWakeup ==
  callerAt = "asleep" /\ Control.status # 0 =>
    main.at = "notify" /\ BufferOf(main.of) = BufferOf(call)

\* Status 1 is stored last: whoever reads it finds the whole reply to the
\* request that carried the buffer, and its length, however late the answer.
PublishedReply ==
  \A c \in Calls :
    buffer[c].status = 1 => buffer[c].bytes = [of |-> c, length |-> buffer[c].length]

\* Guest and listener share a buffer and take turns by its status alone: no
\* sleep is for good, and what the status announces is there.
HandoverSound == NoLostWakeup /\ PublishedReply

Rpc == INSTANCE SyncRpc WITH busy <- callerAt # "idle"

\* The bridge keeps the promise of a synchronous call, late answers included:
\* each call returns null or the reply to its own request, and it returns.
ImplementsSyncRpc == Rpc!Spec
=============================================================================
