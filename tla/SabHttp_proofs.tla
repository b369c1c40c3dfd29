--------------------------- MODULE SabHttp_proofs ---------------------------
(***************************************************************************)
(* Proofs about SabHttp, for every set of kinds and every bound on calls   *)
(* and bytes: types, the hand-over of the buffers, and that every step is  *)
(* one that SyncRpc allows.                                                *)
(***************************************************************************)
EXTENDS SabHttp, SequenceTheorems, TLAPS

\* A request is under way in one place: it is queued, or its handler is
\* awaited, or its listener runs.  What is not yet made is nowhere, so that a
\* buffer is clean when its request is made.
Queued == {inbox[k].of : k \in DOMAIN inbox}

Progress ==
  /\ \A c \in Queued \cup handling : c \in 1..call
  /\ main.at # "idle" => main.of \in 1..call
  /\ \A k, n \in DOMAIN inbox : inbox[k].of = inbox[n].of => k = n
  /\ Queued \cap handling = {}
  /\ main.at # "idle" => main.of \notin Queued \cup handling

\* What a listener has stored of its reply so far.  The status of a buffer is
\* set only by the listener of its own request, which runs once.
Stores ==
  /\ \A c \in Calls : c \in handling \cup Queued \/ c > call => buffer[c].status = 0
  /\ main.at \in {"bytes", "length", "status", "failure"} => buffer[main.of].status = 0
  /\ main.at \in {"length", "status"} => buffer[main.of].bytes = [of |-> main.of, length |-> main.length]
  /\ main.at = "status" => buffer[main.of].length = main.length
  /\ main.at = "notify" => buffer[main.of].status # 0

\* What the client has seen of the reply it is reading.
Reads ==
  /\ callerAt # "idle" => call \in Calls
  /\ callerAt \in {"readLength", "copy"} => buffer[call].status = 1
  /\ callerAt = "copy" => seenLength = buffer[call].length
  /\ callerAt = "awake" => buffer[call].status # 0

IInv == TypeOK /\ Progress /\ Stores /\ Reads /\ HandoverSound

-----------------------------------------------------------------------------
(* Types.                                                                  *)

LEMMA InitInv == Init => IInv
<1> SUFFICES ASSUME Init PROVE IInv
  OBVIOUS
<1> USE BoundsAssumption DEF Init
<1>1. inbox \in Seq([kind : Kinds, of : Calls]) /\ DOMAIN inbox = {}
  OBVIOUS
<1>2. TypeOK
  BY <1>1 DEF TypeOK, NotRunning, BufferIds, Nothing, Replies, Null
<1>3. Progress
  BY <1>1 DEF Progress, Queued, NotRunning
<1>4. Stores /\ Reads /\ HandoverSound
  BY DEF Stores, Reads, HandoverSound, NoLostWakeup, PublishedReply, NotRunning, Calls, BufferIds
<1> QED
  BY <1>2, <1>3, <1>4 DEF IInv

\* One more message, at the end; and one less, at the front.
LEMMA Posted ==
  ASSUME TypeOK, NEW m \in [kind : Kinds, of : Calls], inbox' = Append(inbox, m)
  PROVE /\ inbox' \in Seq([kind : Kinds, of : Calls])
        /\ Queued' = Queued \cup {m.of}
        /\ (\A k, n \in DOMAIN inbox : inbox[k].of = inbox[n].of => k = n) /\ m.of \notin Queued
             => \A k, n \in DOMAIN inbox' : inbox'[k].of = inbox'[n].of => k = n
<1> DEFINE M == [kind : Kinds, of : Calls]
<1>1. inbox \in Seq(M)
  BY DEF TypeOK
<1>2. /\ inbox' \in Seq(M) /\ Len(inbox') = Len(inbox) + 1
      /\ \A k \in 1 .. Len(inbox) : inbox'[k] = inbox[k]
      /\ inbox'[Len(inbox) + 1] = m
  BY <1>1, AppendProperties
<1>3. /\ Len(inbox) \in Nat /\ DOMAIN inbox = 1 .. Len(inbox)
      /\ DOMAIN inbox' = 1 .. Len(inbox) + 1
  BY <1>1, <1>2, LenProperties
<1>4. Queued' = Queued \cup {m.of}
  BY <1>2, <1>3 DEF Queued
<1>5. ASSUME \A k, n \in DOMAIN inbox : inbox[k].of = inbox[n].of => k = n, m.of \notin Queued,
             NEW k \in DOMAIN inbox', NEW n \in DOMAIN inbox', inbox'[k].of = inbox'[n].of
      PROVE  k = n
  BY <1>2, <1>3, <1>5 DEF Queued
<1> QED
  BY <1>2, <1>4, <1>5

LEMMA Taken ==
  ASSUME TypeOK, inbox # <<>>, inbox' = Tail(inbox),
         \A k, n \in DOMAIN inbox : inbox[k].of = inbox[n].of => k = n
  PROVE /\ inbox' \in Seq([kind : Kinds, of : Calls])
        /\ Head(inbox) \in [kind : Kinds, of : Calls]
        /\ Head(inbox).of \in Queued
        /\ Queued' = Queued \ {Head(inbox).of}
        /\ \A k, n \in DOMAIN inbox' : inbox'[k].of = inbox'[n].of => k = n
<1> DEFINE M == [kind : Kinds, of : Calls]
<1>1. inbox \in Seq(M)
  BY DEF TypeOK
<1>2. /\ Head(inbox) \in M /\ inbox' \in Seq(M) /\ Len(inbox') = Len(inbox) - 1
      /\ \A k \in 1 .. Len(inbox') : inbox'[k] = inbox[k + 1]
  BY <1>1, HeadTailProperties
<1>3. /\ Len(inbox) \in Nat \ {0} /\ DOMAIN inbox = 1 .. Len(inbox)
      /\ DOMAIN inbox' = 1 .. Len(inbox) - 1
  BY <1>1, <1>2, LenProperties, EmptySeq
<1>4. Head(inbox) = inbox[1]
  BY <1>1
<1>5. \A k \in DOMAIN inbox' : k + 1 \in DOMAIN inbox /\ inbox'[k] = inbox[k + 1]
  BY <1>2, <1>3
<1>6. \A k \in DOMAIN inbox : k = 1 \/ (k - 1 \in DOMAIN inbox' /\ inbox'[k - 1] = inbox[k])
  BY <1>2, <1>3
<1>7. 1 \in DOMAIN inbox
  BY <1>3
<1>8. Queued' = Queued \ {Head(inbox).of}
  <2>1. ASSUME NEW k \in DOMAIN inbox' PROVE inbox'[k].of \in Queued \ {Head(inbox).of}
    <3>1. k + 1 # 1
      BY <1>3
    <3> QED
      BY <3>1, <1>4, <1>5, <1>7 DEF Queued
  <2>2. ASSUME NEW k \in DOMAIN inbox, inbox[k].of # Head(inbox).of PROVE inbox[k].of \in Queued'
    BY <2>2, <1>4, <1>6 DEF Queued
  <2> QED
    BY <2>1, <2>2 DEF Queued
<1>9. \A k, n \in DOMAIN inbox' : inbox'[k].of = inbox'[n].of => k = n
  <2> SUFFICES ASSUME NEW k \in DOMAIN inbox', NEW n \in DOMAIN inbox', inbox'[k].of = inbox'[n].of
               PROVE  k = n
    OBVIOUS
  <2>1. k + 1 = n + 1
    BY <1>5
  <2> QED
    BY <2>1, <1>3
<1> QED
  BY <1>2, <1>4, <1>7, <1>8, <1>9 DEF Queued

-----------------------------------------------------------------------------
(* The client.                                                             *)

ClientAt == {"idle", "wait", "asleep", "awake", "readLength", "copy"}

\* A client that has posted its request moves only itself.
LEMMA ClientMoves ==
  ASSUME IInv, UNCHANGED <<mainVars, buffer, call>>,
         callerAt' \in ClientAt, seenLength' \in 0..MaxBytes, result' \in 0..MaxCalls,
         Reads', NoLostWakeup'
  PROVE IInv'
<1>1. UNCHANGED <<attached, inbox, handling, main>>
  BY DEF mainVars
<1>2. TypeOK'
  BY <1>1 DEF IInv, TypeOK, ClientAt
<1>3. Progress' /\ Stores' /\ PublishedReply'
  BY <1>1 DEF IInv, HandoverSound, Progress, Queued, Stores, PublishedReply
<1> QED
  BY <1>2, <1>3 DEF IInv, HandoverSound

\* What the client returns is null, or the whole of the reply to its request.
LEMMA ReturnsNull ==
  ASSUME IInv, ClientReturns(Null)
  PROVE IInv' /\ result' = Null
<1>1. UNCHANGED <<mainVars, buffer, call, seenLength>> /\ callerAt' = "idle" /\ result' = Null
  BY DEF ClientReturns
<1>2. Reads' /\ NoLostWakeup'
  BY <1>1 DEF Reads, NoLostWakeup
<1>3. seenLength' \in 0..MaxBytes /\ result' \in 0..MaxCalls
  BY <1>1, BoundsAssumption DEF IInv, TypeOK, Null
<1> QED
  BY <1>1, <1>2, <1>3, ClientMoves DEF ClientAt

LEMMA ReturnsReply ==
  ASSUME IInv, ClientCopies
  PROVE IInv' /\ result' = call
<1>1. call \in Calls /\ buffer[call].status = 1 /\ seenLength = buffer[call].length
  BY DEF IInv, Reads, ClientCopies
<1>2. buffer[call].bytes = [of |-> call, length |-> seenLength]
  BY <1>1 DEF IInv, HandoverSound, PublishedReply
<1>3. UNCHANGED <<mainVars, buffer, call, seenLength>> /\ callerAt' = "idle" /\ result' = call
  BY <1>2 DEF ClientCopies, ClientReturns, Control, BufferOf
<1>4. Reads' /\ NoLostWakeup'
  BY <1>3 DEF Reads, NoLostWakeup
<1>5. seenLength' \in 0..MaxBytes /\ result' \in 0..MaxCalls
  BY <1>1, <1>3, BoundsAssumption DEF IInv, TypeOK, Calls
<1> QED
  BY <1>3, <1>4, <1>5, ClientMoves DEF ClientAt

LEMMA ClientKeeps == ASSUME IInv, ClientStep PROVE IInv'
<1> USE DEF BufferOf, Control
<1>1. CASE ClientWaits
  <2>1. UNCHANGED <<mainVars, buffer, call, seenLength, result>>
    BY <1>1 DEF ClientWaits
  <2>2. Reads' /\ NoLostWakeup' /\ callerAt' \in ClientAt
    BY <1>1, <2>1 DEF ClientWaits, Sleeps, IInv, Reads, NoLostWakeup, ClientAt
  <2> QED
    BY <2>1, <2>2, ClientMoves DEF IInv, TypeOK
<1>2. CASE ClientTimesOut
  BY <1>2, ReturnsNull DEF ClientTimesOut
<1>3. CASE ClientReadsStatus
  <2>1. CASE ClientReturns(Null)
    BY <2>1, ReturnsNull
  <2>2. CASE Control.status = 1 /\ callerAt' = "readLength" /\ UNCHANGED <<call, seenLength, result, mainVars, buffer>>
    <3>1. Reads' /\ NoLostWakeup'
      BY <1>3, <2>2 DEF ClientReadsStatus, IInv, Reads, NoLostWakeup
    <3> QED
      BY <2>2, <3>1, ClientMoves DEF IInv, TypeOK, ClientAt
  <2> QED
    BY <1>3, <2>1, <2>2 DEF ClientReadsStatus
<1>4. CASE ClientReadsLength
  <2>1. CASE ClientReturns(Null)
    BY <2>1, ReturnsNull
  <2>2. CASE /\ Control.length \in 0..MaxBytes /\ callerAt' = "copy" /\ seenLength' = Control.length
             /\ UNCHANGED <<call, result, mainVars, buffer>>
    <3>1. Reads' /\ NoLostWakeup'
      BY <1>4, <2>2 DEF ClientReadsLength, IInv, Reads, NoLostWakeup
    <3> QED
      BY <2>2, <3>1, ClientMoves DEF IInv, TypeOK, ClientAt
  <2> QED
    BY <1>4, <2>1, <2>2 DEF ClientReadsLength
<1>5. CASE ClientCopies
  BY <1>5, ReturnsReply
<1> QED
  BY <1>1, <1>2, <1>3, <1>4, <1>5 DEF ClientStep

\* The next call: its number is new, so no listener knows it, and its buffer
\* is as it was made.
LEMMA RefusalKeeps == ASSUME IInv, ClientRefuses PROVE IInv'
<1>1. /\ UNCHANGED <<callerAt, seenLength, attached, inbox, handling, main, buffer>>
      /\ callerAt = "idle" /\ call < MaxCalls /\ call' = call + 1 /\ result' = 0
  BY DEF ClientRefuses, NextCall, mainVars, Null
<1>2. call \in Nat /\ call' \in 0..MaxCalls /\ result' \in 0..MaxCalls
  BY <1>1, BoundsAssumption DEF IInv, TypeOK
<1>3. TypeOK'
  BY <1>1, <1>2 DEF IInv, TypeOK
<1>4. Progress' /\ Stores'
  BY <1>1, <1>2 DEF IInv, Progress, Queued, Stores, Calls
<1>5. Reads' /\ HandoverSound'
  BY <1>1 DEF IInv, Reads, HandoverSound, NoLostWakeup, PublishedReply
<1> QED
  BY <1>3, <1>4, <1>5 DEF IInv

LEMMA PostKeeps == ASSUME IInv, NEW kind \in Kinds, ClientPosts(kind) PROVE IInv'
<1>1. /\ UNCHANGED <<seenLength, attached, handling, main, buffer>>
      /\ callerAt = "idle" /\ call < MaxCalls /\ call' = call + 1 /\ result' = 0 /\ callerAt' = "wait"
      /\ inbox' = Append(inbox, [kind |-> kind, of |-> call'])
  BY DEF ClientPosts, NextCall, Null
<1>2. call \in Nat /\ call' \in Calls /\ result' \in 0..MaxCalls
  BY <1>1, BoundsAssumption DEF IInv, TypeOK, Calls
<1>3. /\ inbox' \in Seq([kind : Kinds, of : Calls])
      /\ Queued' = Queued \cup {call'}
      /\ \A k, n \in DOMAIN inbox' : inbox'[k].of = inbox'[n].of => k = n
  <2>1. call' \notin Queued
    BY <1>1, <1>2 DEF IInv, Progress
  <2> DEFINE m == [kind |-> kind, of |-> call']
  <2>2. m \in [kind : Kinds, of : Calls] /\ m.of = call' /\ inbox' = Append(inbox, m)
    BY <1>1, <1>2
  <2>3. TypeOK /\ \A k, n \in DOMAIN inbox : inbox[k].of = inbox[n].of => k = n
    BY DEF IInv, Progress
  <2> HIDE DEF m
  <2> QED
    BY <2>1, <2>2, <2>3, Posted
<1>4. TypeOK'
  BY <1>1, <1>2, <1>3 DEF IInv, TypeOK, Calls
<1>5. Progress' /\ Stores'
  BY <1>1, <1>2, <1>3 DEF IInv, Progress, Stores, Calls
<1>6. Reads' /\ HandoverSound'
  BY <1>1, <1>2 DEF IInv, Reads, HandoverSound, NoLostWakeup, PublishedReply
<1> QED
  BY <1>4, <1>5, <1>6 DEF IInv

-----------------------------------------------------------------------------
(* The listeners.                                                          *)

MainAt == {"idle", "bytes", "length", "status", "failure", "notify"}

LEMMA AttachmentKeeps == ASSUME IInv, NEW kind \in Kinds, Attach(kind) \/ Detach(kind) PROVE IInv'
<1>1. UNCHANGED <<inbox, handling, main, buffer, callerAt, call, seenLength, result>> /\ attached' \subseteq Kinds
  BY DEF Attach, Detach, callerVars, IInv, TypeOK
<1>2. TypeOK'
  BY <1>1 DEF IInv, TypeOK
<1> QED
  BY <1>1, <1>2 DEF IInv, Progress, Queued, Stores, Reads, HandoverSound, NoLostWakeup, PublishedReply, Control

\* The message taken is queued no longer; a message nobody listens for is lost.
LEMMA DispatchKeeps == ASSUME IInv, Dispatch PROVE IInv'
<1>1. /\ main = NotRunning /\ inbox # <<>> /\ inbox' = Tail(inbox)
      /\ UNCHANGED <<attached, main, buffer, callerAt, call, seenLength, result>>
      /\ handling' \in {handling, handling \cup {Head(inbox).of}}
  BY DEF Dispatch, callerVars
<1>2. /\ inbox' \in Seq([kind : Kinds, of : Calls])
      /\ Head(inbox).of \in Calls /\ Head(inbox).of \in Queued
      /\ Queued' = Queued \ {Head(inbox).of}
      /\ \A k, n \in DOMAIN inbox' : inbox'[k].of = inbox'[n].of => k = n
  <2>1. TypeOK /\ \A k, n \in DOMAIN inbox : inbox[k].of = inbox[n].of => k = n
    BY DEF IInv, Progress
  <2> QED
    BY <1>1, <2>1, Taken
<1>3. TypeOK'
  BY <1>1, <1>2 DEF IInv, TypeOK
<1>4. main.at = "idle"
  BY <1>1 DEF NotRunning
<1>5. Progress' /\ Stores'
  BY <1>1, <1>2, <1>4 DEF IInv, Progress, Stores
<1>6. Reads' /\ HandoverSound'
  BY <1>1 DEF IInv, Reads, HandoverSound, NoLostWakeup, PublishedReply, Control
<1> QED
  BY <1>3, <1>5, <1>6 DEF IInv

LEMMA SettlingKeeps ==
  ASSUME IInv, NEW c \in handling, NEW at \in {"bytes", "failure"}, NEW length \in 0..MaxBytes,
         HandlerSettles(c, at, length)
  PROVE IInv'
<1>1. /\ main = NotRunning /\ handling' = handling \ {c}
      /\ UNCHANGED <<attached, inbox, buffer, callerAt, call, seenLength, result>>
      /\ main' = [at |-> at, of |-> c, length |-> length]
  BY DEF HandlerSettles, callerVars
<1>2. main.at = "idle" /\ main'.at = at /\ main'.of = c /\ c \in Calls
  BY <1>1 DEF NotRunning, IInv, TypeOK
<1>3. main' \in [at : MainAt, of : 0..MaxCalls, length : 0..MaxBytes]
  BY <1>1, <1>2 DEF MainAt, Calls
<1>4. TypeOK'
  BY <1>1, <1>3 DEF IInv, TypeOK, MainAt
<1>5. Progress'
  BY <1>1, <1>2 DEF IInv, Progress, Queued
<1>6. Stores'
  BY <1>1, <1>2 DEF IInv, Stores, Queued
<1>7. Reads' /\ HandoverSound'
  BY <1>1, <1>2 DEF IInv, Reads, HandoverSound, NoLostWakeup, PublishedReply, Control
<1> QED
  BY <1>4, <1>5, <1>6, <1>7 DEF IInv

\* A store touches the buffer of the listener's own request, and no reader of
\* that buffer is past its status while the status is 0.
LEMMA StoreFacts ==
  ASSUME IInv, NEW at \in {"bytes", "length", "status", "failure"}, NEW new, ListenerStores(at, new)
  PROVE /\ UNCHANGED <<attached, inbox, handling, callerAt, call, seenLength, result>>
        /\ main.at = at /\ main.of \in Calls /\ main.of \in 1..call
        /\ main' = [main EXCEPT !.at = Then[at]]
        /\ main'.at = Then[at] /\ main'.of = main.of /\ main'.length = main.length
        /\ main' \in [at : MainAt, of : 0..MaxCalls, length : 0..MaxBytes]
        /\ buffer' = [buffer EXCEPT ![main.of] = new]
        /\ buffer'[main.of] = new
        /\ \A c \in BufferIds : c # main.of => buffer'[c] = buffer[c]
        /\ Target = buffer[main.of] /\ Target.status = 0
        /\ Target \in [status : {-1, 0, 1}, length : 0..MaxBytes, bytes : Replies]
<1>1. /\ UNCHANGED <<attached, inbox, handling, callerAt, call, seenLength, result>>
      /\ main.at = at /\ main' = [main EXCEPT !.at = Then[at]]
      /\ buffer' = [buffer EXCEPT ![main.of] = new] /\ Target = buffer[main.of]
  BY DEF ListenerStores, callerVars, BufferOf, Target
<1>2. main.of \in 1..call /\ main.of \in Calls /\ main.of \in BufferIds
  BY <1>1, BoundsAssumption DEF IInv, Progress, TypeOK, Calls, BufferIds
<1>3. /\ main'.at = Then[at] /\ main'.of = main.of /\ main'.length = main.length
      /\ main' \in [at : MainAt, of : 0..MaxCalls, length : 0..MaxBytes]
  BY <1>1 DEF IInv, TypeOK, MainAt, Then
<1>4. Target.status = 0
  BY <1>1 DEF IInv, Stores
<1>5. buffer \in [BufferIds -> [status : {-1, 0, 1}, length : 0..MaxBytes, bytes : Replies]]
  BY DEF IInv, TypeOK
<1> QED
  BY <1>1, <1>2, <1>3, <1>4, <1>5

LEMMA StoreKeeps ==
  ASSUME IInv, NEW at \in {"bytes", "length", "status", "failure"},
         NEW new \in [status : {-1, 0, 1}, length : 0..MaxBytes, bytes : Replies],
         ListenerStores(at, new),
         at \in {"bytes", "length"} => new.status = 0,
         at \in {"bytes", "length"} => new.bytes = [of |-> main.of, length |-> main.length],
         at = "length" => new.length = main.length,
         at \in {"status", "failure"} => new.status # 0,
         new.status = 1 => new.bytes = [of |-> main.of, length |-> new.length]
  PROVE IInv'
<1>1. /\ UNCHANGED <<attached, inbox, handling, callerAt, call, seenLength, result>>
      /\ main.at = at /\ main.of \in Calls /\ main.of \in 1..call
      /\ main'.at = Then[at] /\ main'.of = main.of /\ main'.length = main.length
      /\ main' \in [at : MainAt, of : 0..MaxCalls, length : 0..MaxBytes]
      /\ buffer' = [buffer EXCEPT ![main.of] = new]
      /\ buffer'[main.of] = new
      /\ \A c \in BufferIds : c # main.of => buffer'[c] = buffer[c]
      /\ buffer[main.of].status = 0
  BY StoreFacts
<1>2. TypeOK'
  BY <1>1 DEF IInv, TypeOK, MainAt
<1>3. Progress'
  BY <1>1 DEF IInv, Progress, Queued
<1>4. main.of \notin handling \cup Queued /\ ~(main.of > call)
  BY <1>1 DEF IInv, Progress, TypeOK
<1>5. Calls \subseteq BufferIds /\ UNCHANGED Queued
  BY <1>1, BoundsAssumption DEF Calls, BufferIds, Queued
<1>6. Stores'
  <2>1. \A c \in Calls : c \in handling' \cup Queued' \/ c > call' => buffer'[c].status = 0
    BY <1>1, <1>4, <1>5 DEF IInv, Stores
  <2> QED
    BY <1>1, <2>1 DEF Stores, Then
<1>7. Reads'
  BY <1>1, <1>5 DEF IInv, Reads
<1>8. NoLostWakeup'
  BY <1>1, <1>5 DEF IInv, HandoverSound, NoLostWakeup, Control, BufferOf, Then, Reads
<1>9. PublishedReply'
  BY <1>1, <1>5 DEF IInv, HandoverSound, PublishedReply
<1> QED
  BY <1>2, <1>3, <1>6, <1>7, <1>8, <1>9 DEF IInv, HandoverSound

\* `main` is at rest again; a client that slept on this buffer wakes to a word
\* that has been stored.
LEMMA NotifyKeeps == ASSUME IInv, ListenerNotifies PROVE IInv'
<1>1. /\ main.at = "notify" /\ main' = NotRunning /\ main'.at = "idle"
      /\ UNCHANGED <<attached, inbox, handling, buffer, call, seenLength, result>>
      /\ callerAt' = IF callerAt = "asleep" /\ call = main.of THEN "awake" ELSE callerAt
  BY DEF ListenerNotifies, NotRunning, BufferOf
<1>2. TypeOK'
  BY <1>1, BoundsAssumption DEF IInv, TypeOK, NotRunning
<1>3. Progress' /\ Stores'
  BY <1>1 DEF IInv, Progress, Queued, Stores
<1>4. Reads'
  BY <1>1 DEF IInv, Reads, Stores
<1>5. HandoverSound'
  BY <1>1 DEF IInv, HandoverSound, NoLostWakeup, PublishedReply, Control, BufferOf
<1> QED
  BY <1>2, <1>3, <1>4, <1>5 DEF IInv

LEMMA MainKeeps == ASSUME IInv, MainStep PROVE IInv' /\ UNCHANGED <<call, result, callerAt # "idle">>
<1> DEFINE B == [status : {-1, 0, 1}, length : 0..MaxBytes, bytes : Replies]
<1>1. CASE Dispatch
  BY <1>1, DispatchKeeps DEF Dispatch, callerVars
<1>2. CASE \E c \in handling : HandlerReplies(c) \/ HandlerFails(c)
  <2>1. PICK c \in handling, at \in {"bytes", "failure"}, length \in 0..MaxBytes : HandlerSettles(c, at, length)
    BY <1>2, BoundsAssumption DEF HandlerReplies, HandlerFails
  <2> QED
    BY <2>1, SettlingKeeps DEF HandlerSettles, callerVars
<1>3. CASE ListenerCopies
  <2> DEFINE r == [of |-> main.of, length |-> main.length]
             new == [Target EXCEPT !.bytes = r]
  <2>1. ListenerStores("bytes", new)
    BY <1>3 DEF ListenerCopies
  <2>2. Target \in B /\ Target.status = 0 /\ r \in Replies
    BY <2>1, StoreFacts DEF IInv, TypeOK, Replies
  <2>3. /\ new \in B /\ new.status = 0 /\ new.status # 1
        /\ new.bytes = [of |-> main.of, length |-> main.length]
    BY <2>2
  <2> HIDE DEF new, r
  <2>4. IInv'
    BY <2>1, <2>3, StoreKeeps
  <2> QED
    BY <2>1, <2>4 DEF ListenerStores, callerVars
<1>4. CASE ListenerStoresLength
  <2> DEFINE new == [Target EXCEPT !.length = main.length]
  <2>1. ListenerStores("length", new)
    BY <1>4 DEF ListenerStoresLength
  <2>2. /\ Target \in B /\ Target.status = 0 /\ main.length \in 0..MaxBytes
        /\ Target.bytes = [of |-> main.of, length |-> main.length]
    BY <2>1, StoreFacts DEF IInv, TypeOK, Stores
  <2>3. new \in B /\ new.status = 0 /\ new.length = main.length /\ new.bytes = Target.bytes
    BY <2>2
  <2> HIDE DEF new
  <2>4. IInv'
    BY <2>1, <2>2, <2>3, StoreKeeps
  <2> QED
    BY <2>1, <2>4 DEF ListenerStores, callerVars
<1>5. CASE ListenerStoresOk
  <2> DEFINE new == [Target EXCEPT !.status = 1]
  <2>1. ListenerStores("status", new)
    BY <1>5 DEF ListenerStoresOk
  <2>2. /\ Target \in B /\ Target.length = main.length
        /\ Target.bytes = [of |-> main.of, length |-> main.length]
    BY <2>1, StoreFacts DEF IInv, Stores
  <2>3. new \in B /\ new.status # 0 /\ new.bytes = [of |-> main.of, length |-> new.length]
    BY <2>2
  <2> HIDE DEF new
  <2>4. IInv'
    BY <2>1, <2>3, StoreKeeps
  <2> QED
    BY <2>1, <2>4 DEF ListenerStores, callerVars
<1>6. CASE ListenerStoresFailure
  <2> DEFINE new == [Target EXCEPT !.status = -1]
  <2>1. ListenerStores("failure", new)
    BY <1>6 DEF ListenerStoresFailure
  <2>2. Target \in B
    BY <2>1, StoreFacts
  <2>3. new \in B /\ new.status # 0 /\ new.status # 1
    BY <2>2
  <2> HIDE DEF new
  <2>4. IInv'
    BY <2>1, <2>3, StoreKeeps
  <2> QED
    BY <2>1, <2>4 DEF ListenerStores, callerVars
<1>7. CASE ListenerNotifies
  BY <1>7, NotifyKeeps DEF ListenerNotifies
<1> QED
  BY <1>1, <1>2, <1>3, <1>4, <1>5, <1>6, <1>7 DEF MainStep

-----------------------------------------------------------------------------
(* The theorems.                                                           *)

LEMMA NextKeeps == IInv /\ [Next]_vars => IInv'
<1> SUFFICES ASSUME IInv, [Next]_vars PROVE IInv'
  OBVIOUS
<1>1. CASE Next
  BY <1>1, RefusalKeeps, ClientKeeps, MainKeeps, PostKeeps, AttachmentKeeps DEF Next
<1>2. CASE UNCHANGED vars
  <2>1. UNCHANGED <<attached, inbox, handling, main, buffer, callerAt, call, seenLength, result>>
    BY <1>2 DEF vars, mainVars, callerVars
  <2>2. TypeOK'
    BY <2>1 DEF IInv, TypeOK
  <2> QED
    BY <2>1, <2>2 DEF IInv, Progress, Queued, Stores, Reads, HandoverSound, NoLostWakeup, PublishedReply, Control
<1> QED
  BY <1>1, <1>2

LEMMA Inductive == Spec => []IInv
<1> QED
  BY InitInv, NextKeeps, PTL DEF Spec

\* Every variable keeps its type, and no reply is returned in part.
THEOREM TypeCorrect == Spec => []TypeOK
<1>1. IInv => TypeOK
  BY DEF IInv
<1> QED
  BY <1>1, Inductive, PTL

\* No guest sleeps on a word already stored without a notify to come, and
\* status 1 always stands before the whole reply to the buffer's own request.
THEOREM HandoverHolds == Spec => []HandoverSound
<1>1. IInv => HandoverSound
  BY DEF IInv
<1> QED
  BY <1>1, Inductive, PTL

\* Every step of the bridge is a step of a synchronous call, or none: a call
\* returns null or the reply to its own request, and only while it is made.
LEMMA StepImplements == IInv /\ [Next]_vars => [Rpc!Next]_(Rpc!rpcVars)
<1> SUFFICES ASSUME IInv, [Next]_vars PROVE [Rpc!Next]_(Rpc!rpcVars)
  OBVIOUS
<1> USE DEF Rpc!Next, Rpc!rpcVars, Rpc!Issue, Rpc!Refuse, Rpc!Return, Rpc!Null, Null
<1>1. CASE ClientRefuses
  BY <1>1 DEF ClientRefuses, NextCall
<1>2. CASE \E kind \in Kinds : ClientPosts(kind)
  BY <1>2 DEF ClientPosts, NextCall
<1>3. CASE ClientReturns(Null) /\ callerAt # "idle"
  BY <1>3 DEF ClientReturns
<1>4. CASE ClientStep
  <2>1. CASE ClientCopies
    BY <2>1, ReturnsReply DEF ClientCopies, ClientReturns
  <2>2. CASE UNCHANGED <<call, result>> /\ callerAt # "idle" /\ callerAt' # "idle"
    BY <2>2
  <2> QED
    BY <1>3, <1>4, <2>1, <2>2 DEF ClientStep, ClientWaits, ClientTimesOut, ClientReadsStatus, ClientReadsLength
<1>5. CASE MainStep
  BY <1>5, MainKeeps
<1>6. CASE \E kind \in Kinds : Attach(kind) \/ Detach(kind)
  BY <1>6 DEF Attach, Detach, callerVars
<1>7. CASE UNCHANGED vars
  BY <1>7 DEF vars, callerVars
<1> QED
  BY <1>1, <1>2, <1>4, <1>5, <1>6, <1>7 DEF Next

\* The safety half of ImplementsSyncRpc: the bridge is a synchronous call.
THEOREM StepsImplementSyncRpc == Spec => Rpc!Init /\ [][Rpc!Next]_(Rpc!rpcVars)
<1>1. Init => Rpc!Init
  BY DEF Init, Rpc!Init, Null, Rpc!Null
<1> QED
  BY <1>1, Inductive, StepImplements, PTL DEF Spec

=============================================================================
