----------------------------- MODULE Transport -----------------------------
(***************************************************************************)
(* The raw transport of Node hosts: the broker on the guest's thread       *)
(* (src/node-transport-broker.js) and the worker that owns the sockets     *)
(* (src/node-transport-worker.js).                                         *)
(*                                                                         *)
(* The broker posts one request at a time and blocks until the worker has  *)
(* stored its reply, or until its deadline passes; then it terminates the  *)
(* worker for good.  The quotas are kept by the broker, the table of       *)
(* handles by the worker, and peers act on the sockets at any time.        *)
(*                                                                         *)
(* Bytes are numbers of bytes.  A socket has received `arrived` of them,   *)
(* the first `head` of which have left its buffer, `got` of them in a      *)
(* reply.  Endpoint and address checks, which keep no state, are the       *)
(* choice between a connection that is made and one that is refused.       *)
(***************************************************************************)
EXTENDS Integers, FiniteSets, Functions

CONSTANTS
  maxConnections, maxReadBytes, maxWriteBytes,
  maxCancelHandles, maxCancelRequests,
  Sizes,        \* how many bytes a guest reads or writes at once
  MaxSockets,   \* bound on the connections attempted, those of cancels included
  MaxArrived,   \* bound on the bytes a peer sends on one connection
  MaxHanded     \* bound on the bytes written by the guest

ASSUME QuotasAssumption ==
  {maxConnections, maxReadBytes, maxWriteBytes, maxCancelHandles, maxCancelRequests} \subseteq Nat
ASSUME WorldAssumption == Sizes \subseteq Nat \ {0} /\ {MaxSockets, MaxArrived, MaxHanded} \subseteq Nat

VARIABLES
  closed,      \* the broker accepts no more requests
  charged,     \* the broker's counters
  rpc,         \* the request the broker is blocked in, and its reply
  worker,      \* "up", or "down" once terminated or dead
  handles,     \* the worker's Map of handles
  nextHandle,
  sockets,     \* every socket ever opened
  handed,      \* history: bytes handed to sockets
  cancelled,   \* history: CancelRequests sent
  mishap       \* history: what went wrong so far

brokerVars == <<closed, charged>>
workerVars == <<worker, handles, nextHandle, sockets, handed, cancelled>>
transportVars == <<brokerVars, rpc, workerVars, mishap>>

NoSocket == 0
NoRequest == [phase |-> "none", op |-> "none", handle |-> 0, n |-> 0, socket |-> NoSocket, result |-> 0]

TransportInit ==
  /\ closed = FALSE
  /\ charged = [connections |-> 0, read |-> 0, write |-> 0, cancelHandles |-> 0, cancels |-> 0]
  /\ rpc = NoRequest
  /\ worker = "up"
  /\ handles = [h \in {} |-> {}]
  /\ nextHandle = 1
  /\ sockets = [s \in {} |-> {}]
  /\ handed = 0
  /\ cancelled = 0
  /\ mishap = {}

Opened == {s \in DOMAIN sockets : sockets[s].open}
Buffered(s) == sockets[s].arrived - sockets[s].head
Least(a, b) == IF a <= b THEN a ELSE b

-----------------------------------------------------------------------------
(* The broker: posting a request.                                          *)

Posts(op, handle, n) ==
  /\ ~closed /\ rpc.phase = "none"
  /\ rpc' = [NoRequest EXCEPT !.phase = "posted", !.op = op, !.handle = handle, !.n = n]
  /\ UNCHANGED <<brokerVars, workerVars, mishap>>

\* Mutants: off by one twice, the sum is not tested, the capacity is not cut.
MayConnectLoosely == charged.connections <= maxConnections
MayCancelLoosely == charged.cancels <= maxCancelRequests
MayWriteLoosely(n) == charged.write < maxWriteBytes
AllowedUncut(capacity) == capacity

MayConnect == charged.connections < maxConnections
MayCancel == charged.cancels < maxCancelRequests
MayWrite(n) == charged.write + n <= maxWriteBytes
Allowed(capacity) == Least(capacity, maxReadBytes - charged.read)

AsksConnect == MayConnect /\ Posts("connect", 0, 0)
AsksTls(h) == Posts("tls", h, 0)
AsksWrite(h, n) == MayWrite(n) /\ handed + n <= MaxHanded /\ Posts("write", h, n)
AsksRead(h, capacity) == Allowed(capacity) > 0 /\ Posts("read", h, Allowed(capacity))
AsksRegister(h) == charged.cancelHandles < maxCancelHandles /\ Posts("cancel-register", h, 0)
AsksCancel(h) == MayCancel /\ Posts("cancel", h, 0)
AsksClose(h) == Posts("close", h, 0)

Asks ==
  \/ AsksConnect
  \/ \E h \in 1..(nextHandle - 1) :
       \/ AsksTls(h) \/ AsksRegister(h) \/ AsksCancel(h) \/ AsksClose(h)
       \/ \E n \in Sizes : AsksWrite(h, n) \/ AsksRead(h, n)

-----------------------------------------------------------------------------
(* The worker: sockets and handles.                                        *)

Serves(op) == worker = "up" /\ rpc.phase = "posted" /\ rpc.op = op
Awaits(op) == worker = "up" /\ rpc.phase = "waiting" /\ rpc.op = op

Answers(result) == rpc' = [rpc EXCEPT !.phase = "answered", !.result = result]
Waits(s) == rpc' = [rpc EXCEPT !.phase = "waiting", !.socket = s]

KeepsTable == UNCHANGED <<handles, nextHandle>>
KeepsHistory == UNCHANGED <<handed, cancelled>>
KeepsWorker == UNCHANGED <<brokerVars, worker>>

IsHandle == rpc.handle \in DOMAIN handles
Kind == handles[rpc.handle].kind
Socket == handles[rpc.handle].socket

WithoutHandle(h) == [x \in DOMAIN handles \ {h} |-> handles[x]]

\* Mutants: the counter stays; the number of handles is the next handle.
AddsInPlace(kind, s) ==
  /\ handles' = [x \in DOMAIN handles \cup {nextHandle} |->
                   IF x = nextHandle THEN [kind |-> kind, socket |-> s] ELSE handles[x]]
  /\ UNCHANGED nextHandle
  /\ Answers(nextHandle)

AddsBySize(kind, s) ==
  /\ handles' = [x \in DOMAIN handles \cup {Cardinality(DOMAIN handles) + 1} |->
                   IF x = Cardinality(DOMAIN handles) + 1 THEN [kind |-> kind, socket |-> s] ELSE handles[x]]
  /\ nextHandle' = nextHandle + 1
  /\ Answers(Cardinality(DOMAIN handles) + 1)

Adds(kind, s) ==
  /\ handles' = [x \in DOMAIN handles \cup {nextHandle} |->
                   IF x = nextHandle THEN [kind |-> kind, socket |-> s] ELSE handles[x]]
  /\ nextHandle' = nextHandle + 1
  /\ Answers(nextHandle)

\* Mutant: the socket is forgotten and not destroyed.
Forgets(S) == UNCHANGED sockets

Destroys(S) ==
  sockets' = [s \in DOMAIN sockets |->
                IF s \in S THEN [sockets[s] EXCEPT !.open = FALSE] ELSE sockets[s]]

WorkerRejects ==   \* no such handle, or one of the wrong kind for the operation
  /\ \E op \in {"write", "read", "cancel-register", "cancel", "close"} : Serves(op)
  /\ IsHandle => \/ rpc.op \in {"write", "read"} /\ Kind = "pg-cancel"
                 \/ rpc.op = "cancel-register" /\ Kind # "tls"
  /\ Answers(IF IsHandle /\ rpc.op = "cancel-register" THEN 0 ELSE -1)
  /\ KeepsTable /\ KeepsHistory /\ KeepsWorker /\ UNCHANGED <<sockets, mishap>>

-----------------------------------------------------------------------------
(* connect and tls                                                         *)

NewSocket(cancels) ==
  [open |-> TRUE, cancels |-> cancels, flowing |-> FALSE, ended |-> FALSE, arrived |-> 0, head |-> 0, got |-> 0]

\* createConnection, and the wait for 'connect'.
Connects(cancels) ==
  /\ Cardinality(DOMAIN sockets) < MaxSockets
  /\ LET s == Cardinality(DOMAIN sockets) + 1 IN
     /\ sockets' = [x \in DOMAIN sockets \cup {s} |-> IF x = s THEN NewSocket(cancels) ELSE sockets[x]]
     /\ Waits(s)

WorkerLooksUp ==   \* no address of the host is allowed, or the lookup fails
  /\ Serves("connect")
  /\ \E result \in {0, -1} : Answers(result)
  /\ KeepsTable /\ KeepsHistory /\ KeepsWorker /\ UNCHANGED <<sockets, mishap>>

WorkerConnects ==
  /\ Serves("connect") /\ Connects(FALSE)
  /\ KeepsTable /\ KeepsHistory /\ KeepsWorker /\ UNCHANGED mishap

SetupSucceeds ==   \* 'connect' or 'secureConnect'
  /\ \/ Awaits("connect") /\ Adds("tcp", rpc.socket)
     \/ Awaits("tls") /\ Adds("tls", rpc.socket)
  /\ KeepsHistory /\ KeepsWorker /\ UNCHANGED <<sockets, mishap>>

SetupFails ==   \* 'error', or a timeout
  /\ Awaits("connect") \/ Awaits("tls")
  /\ Destroys({rpc.socket})
  /\ Answers(0)
  /\ KeepsTable /\ KeepsHistory /\ KeepsWorker /\ UNCHANGED mishap

\* handles.delete, before anything is known of the handle.
Consumed(h) == WithoutHandle(h)

TlsRefused ==   \* not a TCP handle, or another host's
  /\ Serves("tls")
  /\ handles' = Consumed(rpc.handle)
  /\ IF IsHandle THEN Destroys({Socket}) ELSE UNCHANGED sockets
  /\ Answers(IF IsHandle /\ Kind = "pg-cancel" THEN -1 ELSE 0)
  /\ KeepsHistory /\ KeepsWorker /\ UNCHANGED <<nextHandle, mishap>>

TlsStarts ==
  /\ Serves("tls") /\ IsHandle /\ Kind = "tcp"
  /\ Waits(Socket)
  /\ handles' = Consumed(rpc.handle)
  /\ KeepsHistory /\ KeepsWorker /\ UNCHANGED <<nextHandle, sockets, mishap>>

-----------------------------------------------------------------------------
(* write and read                                                          *)

WriteQueues ==   \* socket.write takes all the bytes, whatever it returns
  /\ Serves("write") /\ IsHandle /\ Kind # "pg-cancel"
  /\ sockets[Socket].open
  /\ handed' = handed + rpc.n
  /\ Answers(rpc.n) \/ Waits(Socket)
  /\ KeepsTable /\ KeepsWorker /\ UNCHANGED <<sockets, cancelled, mishap>>

WriteDrains ==
  /\ Awaits("write")
  /\ Answers(rpc.n)
  /\ KeepsTable /\ KeepsHistory /\ KeepsWorker /\ UNCHANGED <<sockets, mishap>>

WriteFails ==   \* the drain does not come in time, or the socket is gone
  /\ \/ Awaits("write") /\ mishap' = mishap \cup {"writeFailed"}
     \/ /\ Serves("write") /\ IsHandle /\ Kind # "pg-cancel"
        /\ ~sockets[Socket].open \/ sockets[Socket].ended
        /\ UNCHANGED mishap
  /\ Answers(-1)
  /\ KeepsTable /\ KeepsHistory /\ KeepsWorker /\ UNCHANGED sockets

\* Mutant: what exceeds the capacity is not put back.
TakenWhole(chunk) == chunk

\* How much of a chunk leaves the buffer: the rest is unshifted.
Taken(chunk) == Least(chunk, rpc.n)

\* A chunk is returned, cut to the capacity; the socket is paused.
Delivers(s, chunk) ==
  /\ sockets' = [sockets EXCEPT ![s].head = @ + Taken(chunk), ![s].got = @ + Least(chunk, rpc.n),
                                ![s].flowing = FALSE]
  /\ Answers(Least(chunk, rpc.n))

ReadServes ==
  /\ Serves("read") /\ IsHandle /\ Kind # "pg-cancel"
  /\ LET s == Socket IN
     \/ /\ Buffered(s) >= rpc.n   \* socket.read returns just as many
        /\ sockets' = [sockets EXCEPT ![s].head = @ + rpc.n, ![s].got = @ + rpc.n]
        /\ Answers(rpc.n)
     \/ /\ sockets[s].ended /\ Buffered(s) \in 1..(rpc.n - 1)   \* or what is left
        /\ sockets' = [sockets EXCEPT ![s].head = @ + Buffered(s), ![s].got = @ + Buffered(s)]
        /\ Answers(Buffered(s))
     \/ /\ sockets[s].ended /\ Buffered(s) = 0
        /\ Answers(0)
        /\ UNCHANGED sockets
     \/ /\ Buffered(s) < rpc.n /\ ~sockets[s].ended
        /\ sockets' = [sockets EXCEPT ![s].flowing = TRUE]
        /\ Waits(s)
  /\ KeepsTable /\ KeepsHistory /\ KeepsWorker /\ UNCHANGED mishap

ReadReceives ==   \* 'data' or 'end'
  /\ Awaits("read")
  /\ \/ /\ sockets[rpc.socket].open
        /\ \E chunk \in 1..Buffered(rpc.socket) : Delivers(rpc.socket, chunk)
     \/ /\ Buffered(rpc.socket) = 0 /\ sockets[rpc.socket].ended
        /\ Answers(0)
        /\ UNCHANGED sockets
  /\ KeepsTable /\ KeepsHistory /\ KeepsWorker /\ UNCHANGED mishap

ReadTimesOut ==   \* the listeners go, the socket keeps flowing
  /\ Awaits("read")
  /\ Answers(-1)
  /\ mishap' = mishap \cup {"readFailed"}
  /\ KeepsTable /\ KeepsHistory /\ KeepsWorker /\ UNCHANGED sockets

-----------------------------------------------------------------------------
(* cancel-register, cancel and close                                       *)

CancelRegisters ==
  /\ Serves("cancel-register") /\ IsHandle /\ Kind = "tls"
  /\ Adds("pg-cancel", NoSocket)
  /\ KeepsHistory /\ KeepsWorker /\ UNCHANGED <<sockets, mishap>>

CancelMistaken ==   \* the handle of a connection: deleted, its socket kept
  /\ Serves("cancel") /\ IsHandle /\ Kind # "pg-cancel"
  /\ handles' = WithoutHandle(rpc.handle)
  /\ Answers(-1)
  /\ mishap' = mishap \cup {"connectionCancelled"}
  /\ KeepsHistory /\ KeepsWorker /\ UNCHANGED <<nextHandle, sockets>>

\* Mutant: the authority survives its use.
UsedTwice(h) == handles
Used(h) == WithoutHandle(h)

CancelConnects ==   \* a socket of its own, in no handle and without a timeout
  /\ Serves("cancel") /\ IsHandle /\ Kind = "pg-cancel"
  /\ handles' = Used(rpc.handle)
  /\ Connects(TRUE)
  /\ KeepsHistory /\ KeepsWorker /\ UNCHANGED <<nextHandle, mishap>>

CancelSends ==   \* 'connect': nobody listens for errors from here on
  /\ Awaits("cancel")
  /\ rpc' = [rpc EXCEPT !.phase = "ending"]
  /\ cancelled' = cancelled + 1
  /\ KeepsTable /\ KeepsWorker /\ UNCHANGED <<sockets, handed, mishap>>

Ending == worker = "up" /\ rpc.phase = "ending"

CancelEnds ==   \* the callback of socket.end; the socket is left to its peer
  /\ Ending
  /\ Answers(0)
  /\ KeepsTable /\ KeepsHistory /\ KeepsWorker /\ UNCHANGED <<sockets, mishap>>

CancelFails ==   \* before the request was sent, or after
  /\ \/ Awaits("cancel") /\ UNCHANGED mishap
     \/ Ending /\ mishap' = mishap \cup {"cancelFailed"}
  /\ Destroys({rpc.socket})
  /\ Answers(-1)
  /\ KeepsTable /\ KeepsHistory /\ KeepsWorker

Closes ==
  /\ Serves("close") /\ IsHandle
  /\ handles' = WithoutHandle(rpc.handle)
  /\ Destroys({Socket})
  /\ Answers(0)
  /\ KeepsHistory /\ KeepsWorker /\ UNCHANGED <<nextHandle, mishap>>

WorkerStep ==
  \/ WorkerRejects
  \/ WorkerLooksUp \/ WorkerConnects \/ TlsRefused \/ TlsStarts \/ SetupSucceeds \/ SetupFails
  \/ WriteQueues \/ WriteDrains \/ WriteFails
  \/ ReadServes \/ ReadReceives \/ ReadTimesOut
  \/ CancelRegisters \/ CancelMistaken \/ Closes
  \/ CancelConnects \/ CancelSends \/ CancelEnds \/ CancelFails

-----------------------------------------------------------------------------
(* The broker: the reply, the deadline and the end.                        *)

\* The guest's thread sleeps in Atomics.wait.
Blocked == ~closed /\ rpc.phase # "none"

Counters ==
  [charged EXCEPT
     !.connections = @ + (IF rpc.op = "connect" /\ rpc.result > 0 THEN 1 ELSE 0),
     !.read = @ + (IF rpc.op = "read" /\ rpc.result > 0 THEN rpc.result ELSE 0),
     !.write = @ + (IF rpc.op = "write" /\ rpc.result > 0 THEN rpc.result ELSE 0),
     !.cancelHandles = @ + (IF rpc.op = "cancel-register" /\ rpc.result > 0 THEN 1 ELSE 0),
     !.cancels = @ + (IF rpc.op = "cancel" /\ rpc.result = 0 THEN 1 ELSE 0)]

BrokerReturns ==
  /\ ~closed /\ rpc.phase = "answered"
  /\ charged' = Counters
  /\ rpc' = NoRequest
  /\ UNCHANGED <<closed, workerVars, mishap>>

\* Mutant: Atomics.wait without a timeout.
NoDeadline == FALSE

HasDeadline == TRUE

\* The guest goes on; the worker may still serve the request before it stops.
\* A reply stored and not yet notified comes too late as well.
BrokerTimesOut ==
  /\ Blocked /\ HasDeadline
  /\ closed' = TRUE
  /\ UNCHANGED <<charged, rpc, workerVars, mishap>>

CloseBroker ==
  /\ rpc.phase = "none" /\ ~closed
  /\ closed' = TRUE
  /\ UNCHANGED <<charged, rpc, workerVars, mishap>>

BrokerStep == BrokerReturns \/ BrokerTimesOut

-----------------------------------------------------------------------------
(* Node and the peers.                                                     *)

WorkerEnds ==
  /\ worker = "up"
  /\ worker' = "down"
  /\ Destroys(DOMAIN sockets)
  /\ UNCHANGED <<brokerVars, rpc, handles, nextHandle, handed, cancelled, mishap>>

WorkerTerminates == closed /\ WorkerEnds

\* A socket no request waits for has no 'error' listener, nor has a cancel's
\* once it is connected: the error ends the worker.
WorkerDies == (\E s \in Opened : rpc.phase # "waiting" \/ rpc.socket # s) /\ WorkerEnds

PeerActs(s, new) ==
  /\ worker = "up" /\ s \in Opened
  /\ sockets' = [sockets EXCEPT ![s] = new]
  /\ UNCHANGED <<brokerVars, rpc, worker, handles, nextHandle, handed, cancelled, mishap>>

PeerSends(s) ==
  /\ sockets[s].arrived < MaxArrived /\ ~sockets[s].ended
  /\ PeerActs(s, [sockets[s] EXCEPT !.arrived = @ + 1])

PeerEnds(s) == ~sockets[s].ended /\ PeerActs(s, [sockets[s] EXCEPT !.ended = TRUE])

\* A flowing socket nobody listens to drops what it has.
SocketDrops(s) ==
  /\ sockets[s].flowing /\ Buffered(s) > 0
  /\ ~(Awaits("read") /\ rpc.socket = s)
  /\ PeerActs(s, [sockets[s] EXCEPT !.head = sockets[s].arrived])

\* A cancel's socket is ended by the worker and closes when its peer ends it
\* too, unless it holds bytes: nobody reads them.
CancelCloses(s) ==
  /\ sockets[s].cancels /\ sockets[s].ended /\ Buffered(s) = 0
  /\ rpc.phase # "waiting" \/ rpc.socket # s
  /\ PeerActs(s, [sockets[s] EXCEPT !.open = FALSE])

SocketBreaks(s) ==   \* an error while a request listens to the socket
  /\ rpc.phase = "waiting" /\ rpc.socket = s /\ rpc.op \in {"read", "write"}
  /\ worker = "up" /\ s \in Opened
  /\ Destroys({s})
  /\ Answers(-1)
  /\ mishap' = mishap \cup {IF rpc.op = "read" THEN "readFailed" ELSE "writeFailed"}
  /\ UNCHANGED <<brokerVars, worker, handles, nextHandle, handed, cancelled>>

Environment ==
  \/ WorkerTerminates \/ WorkerDies
  \/ \E s \in DOMAIN sockets :
       PeerSends(s) \/ PeerEnds(s) \/ SocketDrops(s) \/ CancelCloses(s) \/ SocketBreaks(s)

TransportNext == Asks \/ WorkerStep \/ BrokerStep \/ CloseBroker \/ Environment

\* Atomics.wait returns when its timeout has passed, and the guest's thread
\* goes on.  Nothing is assumed of the worker or the peers.
TransportSpec == TransportInit /\ [][TransportNext]_transportVars /\ WF_transportVars(BrokerStep)

-----------------------------------------------------------------------------
(* What the transport promises.                                            *)

Phases == {"none", "posted", "waiting", "ending", "answered"}
Ops == {"none", "connect", "tls", "write", "read", "cancel-register", "cancel", "close"}

\* The variables keep their types; a socket has no more bytes out of its
\* buffer than arrived and no more in replies than left the buffer.
TransportTypeOK ==
  /\ closed \in BOOLEAN
  /\ charged \in [{"connections", "read", "write", "cancelHandles", "cancels"} -> Nat]
  /\ rpc \in [phase : Phases, op : Ops, handle : Nat, n : Nat, socket : Nat, result : Int]
  /\ worker \in {"up", "down"}
  /\ nextHandle \in Nat \ {0} /\ DOMAIN handles \subseteq 1..(nextHandle - 1)
  /\ \A h \in DOMAIN handles :
       handles[h] \in [kind : {"tcp", "tls", "pg-cancel"}, socket : DOMAIN sockets \cup {NoSocket}]
  /\ \A s \in DOMAIN sockets :
       /\ sockets[s] \in [open : BOOLEAN, cancels : BOOLEAN, flowing : BOOLEAN, ended : BOOLEAN,
                          arrived : 0..MaxArrived, head : Nat, got : Nat]
       /\ sockets[s].got <= sockets[s].head /\ sockets[s].head <= sockets[s].arrived
  /\ handed \in 0..MaxHanded /\ cancelled \in Nat
  /\ mishap \subseteq {"readFailed", "writeFailed", "connectionCancelled", "cancelFailed"}

HandlesOf(s) == {h \in DOMAIN handles : handles[h].socket = s}
InTransition(s) == rpc.op \in {"connect", "tls"} /\ rpc.phase = "waiting" /\ rpc.socket = s

\* An open connection is named by exactly one handle, or by none while the
\* request that connects or upgrades it is under way: an upgraded connection
\* cannot be used in the clear, and none is left that the guest cannot close
\* (worker lines 47-76 and 139-141).  Two exceptions: a guest that takes the
\* handle of a connection for a cancel handle (lines 88-89), and the socket a
\* cancel opens, which no handle ever names (lines 90-98): once its request is
\* sent, only its peer, an error or the end of the worker closes it.
OneHandlePerSocket ==
  "connectionCancelled" \notin mishap =>
    \A s \in Opened :
      Cardinality(HandlesOf(s)) = IF InTransition(s) \/ sockets[s].cancels THEN 0 ELSE 1

OnlyNewHandles ==
  \A h \in DOMAIN handles' :
    \/ h \in DOMAIN handles /\ handles'[h] = handles[h]
    \/ h >= nextHandle

\* A step never gives a meaning to a handle that had one before: what a guest
\* keeps of a closed connection names nothing (worker lines 48, 70 and 81).
HandlesNeverReused == [][OnlyNewHandles]_transportVars

OpenConnections == {s \in Opened : ~sockets[s].cancels}
OpenCancels == Opened \ OpenConnections

\* There are never more connections than maxConnections, the one being made
\* included, although the quota is charged only when the reply is back (broker
\* lines 41 and 44).  The sockets of cancels come on top, and the worker keeps
\* them after their reply (worker lines 90-98): maxCancelRequests of them can
\* be open, a failed one never.
SocketQuota ==
  /\ Cardinality(OpenConnections) <= maxConnections
  /\ Cardinality(OpenCancels) <= maxCancelRequests

BytesGot == FoldFunctionOnSet(+, 0, [s \in DOMAIN sockets |-> sockets[s].got], DOMAIN sockets)

\* The read quota charges exactly the bytes guests were given, whatever the
\* worker cut and put back, and they stay within it (broker lines 66-70).
ReadCharged ==
  /\ BytesGot <= maxReadBytes
  /\ ~closed /\ rpc.phase = "none" => charged.read = BytesGot

\* Until a readFailed, every byte that left a socket's buffer is in a reply,
\* in one read or another (worker lines 109-124).
NothingLost == "readFailed" \notin mishap => \A s \in DOMAIN sockets : sockets[s].got = sockets[s].head

\* Until a writeFailed, no more than maxWriteBytes were handed to sockets
\* (broker lines 60 and 62).
WriteQuota == "writeFailed" \notin mishap => handed <= maxWriteBytes

\* The bytes of all connections, from the wire to the guest and back: charged
\* as they were handed over, within the quotas, and none lost or doubled.
BytesAccounted == ReadCharged /\ NothingLost /\ WriteQuota

\* A cancel authority sends one CancelRequest at most, and no more are sent
\* than maxCancelRequests (worker line 88, broker lines 80 and 82), until one
\* fails after it was handed to its socket: it is not charged (worker line 98).
CancelOnce ==
  /\ cancelled <= charged.cancelHandles
  /\ "cancelFailed" \notin mishap => cancelled <= maxCancelRequests

\* What the broker counts after the fact still bounds what the worker did:
\* sockets and cancel requests.
AttemptsWithinQuota == SocketQuota /\ CancelOnce

\* The guest gets out of every request, though nothing be assumed of the
\* worker or the peers (broker lines 30 and 31).
EveryRequestReturns == Blocked ~> ~Blocked
=============================================================================
