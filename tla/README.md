# Verification of wasm-webcomponent

TLA+ models of the concurrent and stateful parts of this repository, TLC runs
that check them on small instances, and proofs that TLAPS checks for every
value of the constants.

## 1. Inventory

The program hosts WebAssembly guests in a browser tab or in Node. A guest is
synchronous: every import it calls must return before it goes on. Most of the
state in this repository exists to give such a guest, safely, something that is
asynchronous (a network request), shared (a pool of connections) or limited (a
budget of calls).

| Component | Source | State | Operations | Interacts with |
|---|---|---|---|---|
| HTTP POST bridge | `src/http-post-bridge.js` | two SharedArrayBuffers for the whole session: a control array (status, length, four words) and a payload; an inner worker | create, `requestSync` (post, get, post with headers), dispose | guest thread and inner worker through `Atomics`; the actor host calls it for `http_post`, `http_fetch`, `llm_infer` |
| SAB HTTP bridges | `src/http-sab-bridge.js` | one SharedArrayBuffer per request; listeners on the main thread | GET and POST client; attach, detach | guest worker posts a message and sleeps; the listener awaits the embedder's handler |
| PostgreSQL pool provider | `src/node-postgresql-pool-provider.js` | Maps of pools, of connections per pool, of leases | open, acquire, query, release, stats, health, drain, close, closeAll | calls the SCRAM component (open and close a channel) and the query component (reset, probe) |
| Actor host | `src/actor-host.js` | session authority (grants, budgets), per-instance counters, kgraph store, log | some thirty imports, `consume`, `revoke`, `drop` | called by the guest; calls the bridges, the broker, the providers |
| Transport broker and worker | `src/node-transport-broker.js`, `src/node-transport-worker.js` | quotas on the broker's side, handle table on the worker's side, a SharedArrayBuffer per request | connect, tls, write, read, cancel, close, closeAll | broker blocks in `Atomics.wait` with a deadline and terminates the worker when it passes |
| Worker element and worker host | `src/kotoba-wasm-worker-element.js`, `src/kotoba-wasm-worker-host.js` | one worker per element | connectedCallback; run | element races the run against a wall-clock deadline; the host creates and disposes the POST bridge |
| Client runtime | `src/kotoba-client-runtime.js` | consent dialog with one pending question; captured operations and handlers | confirm, allow, deny, cancel, close, destroy; invoke | broker checks a request, awaits consent, sends what it captured |
| Restricted app | `src/kotoba-client-runtime.js` | a verified artifact, a sandboxed frame, a message port, the handlers of its messages | verify, mount, close, post and reply | the app posts to the port; its messages run invocations of the broker |
| Component linker | `src/component-linker.js`, `src/component-runtime.js` | a page of scratch memory in the provider and an `active` flag for each bridge, the count of GETs | instantiate, link, each linked field | the consumer calls the provider through copies between two memories |
| Kgraph store | `src/kgraph.js` | a list of datoms | assert, retract, get objects, query | called by the guest; the page keeps the store for the next guest |
| Credential provider | `src/node-credential-provider.js` | the number of proofs made | SCRAM proof | called by the actor host for all guests |
| Wasm element | `src/kotoba-wasm-element.js` | none after its run | connectedCallback | runs a guest on the main thread |
| KAMI engine host, ECS | `src-cljs/kotoba/kami_*.cljk` | entities, tags, query cursors, random state | tick and the imports of the game guest | called by the guest: not modelled |
| Codecs | `src/actor-host.js` | none | JSON, CBOR and hex encoding and lookup | pure: not modelled |
| Capabilities | `src/has-capability.js`, `src-cljs/kotoba/kotoba_cap.cljk` | none | membership checks | pure: not modelled |
| Solar and GPU hosts | `src-cljs/kotoba/*_host.cljk` | drawing state | drawing | canvas, GPU: not modelled |

### What makes each of them hard, and what makes it correct

- **HTTP POST bridge.** Two threads share one status word, one control array and
  one payload for all calls. Hard: each wakes the other by the same word, the
  guest gives up after a time-out while the worker goes on, the worker's loop
  starts while the guest may already call. Correct: nobody sleeps through an
  answer; a call returns its own reply or null; a request is fetched as it was
  issued, once; the two threads do not use the payload at the same time; the
  guest always gets out.
- **SAB HTTP bridges.** A buffer per request; handlers that answer after the
  client gave up; listeners attached and detached at any time. Correct: every call
  returns null or its own reply, however late other replies are.
- **Pool provider.** Three kinds of Map updated one after the other by operations
  that call two other components, each of which may refuse or throw. Correct:
  leases, connections and channels agree; limits hold; no lease token is revived;
  no connection that is too old is handed out.
- **Transport.** The broker charges quotas on what the worker reports; the worker
  keeps handles of sockets that break, end, time out or are upgraded while a
  request is under way; a deadline kills the worker. Correct: one handle per open
  socket, no handle used twice, bytes neither lost nor counted twice, quotas hold,
  every request returns.
- **Actor host.** One authority for several instances with counters of their own;
  a call in a backend may be overtaken by a revocation or by another instance.
  Correct: a budget of *n* admits *n* uses, a dead grant stays dead, and no
  counter, reply or byte exceeds its limit.
- **Consent host and operation broker.** Two awaits between the check of a request
  and its sending, an app that changes its objects meanwhile, a dialog whose close
  event is delivered later, several invocations at once. Correct: what is sent is
  what was shown and agreed to, as often as it was agreed to; every question can be
  answered; a click answers one question.
- **Restricted app.** The caller of the verification may write to its array while the
  digest is awaited; the app is closed while its requests wait for consent, for the
  backend or for a body that never ends. Correct: what runs is what was pinned; a reply
  that says ok is to a request that was allowed and sent, from a declared origin; no body
  is read for ever.
- **Worker element.** A result, an error and a deadline race, with two workers one of which
  runs inside the other. Correct: one event, true and final, and all workers are gone afterwards,
  whatever the guest does.
- **Component linker.** A flag held across a call that may throw or call back, memory
  shared by several consumers, calls that nest. Correct: a bridge is busy exactly while it
  is used; the bytes of different calls and consumers stay apart; the quota of GETs holds.
- **Kgraph.** The store is joined by identity, printed and retracted by what is printed,
  and replaced in two steps one of which may throw. Correct: what was asserted and not
  retracted is there, and a query answers what its clauses say.

## 2. Modules and code

| Module | Models | Extends or uses |
|---|---|---|
| `SyncRpc` | what a synchronous network import promises: the abstract specification | |
| `SabPostBridge` | `http-post-bridge.js` | |
| `SabHttp` | `http-sab-bridge.js`, shown to implement `SyncRpc` | `INSTANCE SyncRpc` |
| `PgPool` | `node-postgresql-pool-provider.js` | |
| `Transport` | `node-transport-broker.js` with `node-transport-worker.js` | |
| `ActorHost` | the session authority, linking and metering of `actor-host.js`, and `node-credential-provider.js` | |
| `MCActorHost` | values of its constants | `ActorHost` |
| `Consent` | consent host and operation broker of `kotoba-client-runtime.js` | |
| `ClientApp` | the artifact, frame, port and responses of a restricted app, composed with the consent host and the broker | `Consent` |
| `WorkerElement` | `kotoba-wasm-worker-element.js`, `kotoba-wasm-worker-host.js`, `kotoba-wasm-element.js` | |
| `Linker` | `component-linker.js`, `component-runtime.js` | |
| `Kgraph` | `kgraph.js` | |
| `MCClientApp`, `MCLinker`, `MCKgraph` | values of their constants | the module |
| `SabPostBridge_proofs`, `SabHttp_proofs`, `ActorHost_proofs`, `Linker_proofs` | theorems about the module they are named after | the module, TLAPS |
| `ClientApp_proofs` | theorems about `Consent` and `ClientApp` | `ClientApp`, TLAPS |
| `Node_proofs` | theorems about `PgPool` and `Transport`, the two providers for Node | `PgPool`, `Transport`, TLAPS |
| `Element_proofs` | theorems about `WorkerElement` and `Kgraph`, the elements and the store their guests use | `WorkerElement`, `Kgraph`, TLAPS |
| `SumTheorems` | facts about finite sums, for `ActorHost_proofs`, `Linker_proofs`, `Node_proofs` and `Element_proofs` | TLAPS |

### SabPostBridge

`ctrl` is the control array: `status` is word 0, `len` word 1, `words` words 2 to 5.
`callerAt` and `workerAt` are the program counters of `requestSync` and of the loop
of the inner worker. Each `Atomics` operation on words 0 and 1, and each copy into
or out of the payload, is a step. Words 2 to 5 are written one after the other in
the code, and here in one step, and read in one step: they are written while the
status is not PENDING and read after it was seen PENDING, so only an abandoned call
could show a difference, and there the value `Mangled` already stands for
parts of several calls that were read together. Bytes are replaced by whose they are.
`creation` is the promise of `createSabHttpPostBridge` with its deadline, and
`dispose` may happen at any time, for it terminates the worker.

### SabHttp and SyncRpc

Each call has a buffer of its own (`BufferOf`), the messages to the main thread are
a queue (`inbox`), the handlers that are awaited a set (`handling`), and the part of
a listener after its await runs step by step (`main`). `SyncRpc` says: a call ends,
with null or with the reply to itself. The refinement maps "busy" to "the client is
somewhere inside its call" and the numbers of calls and results to themselves. The
POST bridge does not implement `SyncRpc`: section 5 says why.

### PgPool

The provider is synchronous, so each operation is one action, and each call into the
component below is a choice: it succeeds, is refused, or throws. `Operation` are the
actions that end normally, or end early and leave nothing behind; `Breakage` are those
where an exception leaves something half done, named after it (`CloseTraps`,
`AcquireLeaks`, ...). `broken` records that one of these has happened. A connection
whose close threw leaves the channel as it was. `ClosesRefused` are the channels whose close the SCRAM component
refuses with a negative result: `closeConnection` does not look at it, so the channel stays open and its connection goes.
A channel is asked to close once at most, so that to fix the set beforehand loses no behaviour. The reset of a
session whose channel is closed already is allowed to succeed, which the code would
hardly see: this adds behaviours and takes none away.

### Transport

`rpc` is the request the broker is blocked in, from `postMessage` to the reply. The
worker takes it up (`WorkerLooksUp`, `WorkerConnects`, ...), and what it awaits of a
socket is a further step, which may fail, time out or come after the broker's own
deadline. A cancel authority goes through four of them: its handle is deleted and a socket
of its own created (`CancelConnects`), the request is handed to that socket once it is connected (`CancelSends`), and the
reply follows the callback of `end` (`CancelEnds`), or an error on the way (`CancelFails`). Such a socket (`cancels`) is in no
handle, has no timeout, and stays open after the reply until its peer ends too (`CancelCloses`); an error then finds no listener
and ends the worker (`WorkerDies`). Then the broker terminates the worker; a request may still be served before
the worker is gone. Peers send, end and break at any time. `mishap` records the four
failures after which a part of a property has to be given up: a read that failed, a write that failed, a
connection taken for a cancel authority, and a cancel that failed after its request was handed over. A socket of which one side has
ended still counts as open. `TransportInit`, `TransportNext`, `TransportTypeOK` and some more
have their long names so that `Node_proofs` can extend both this module and `PgPool`.

### ActorHost

`active`, `revoked`, `dropped`, `consumed`, `uses` and `remaining` are the session
authority; `state[i]` are the counters of instance `i`. An import that calls a
backend is two steps (`CallStarts`, `CallReturns`), with a stack of the calls under
way: a backend may revoke a grant or run another guest, but not the one it serves.
An import without a backend is one step. All imports are in one of these two forms; those
that are handed on to a transport or a PostgreSQL provider have their limits there
(`Transport`, `PgPool`). `ProvesScram` is the credential provider, whose quota of proofs all
guests share. `pages[i]` is the memory of a guest, which may grow between calls; the imports
in `ChecksMemory` look at it first. The branch of `consume` for a budget that is
already zero cannot be reached, by `AuthoritySound`, and is left out.

### Consent

Everything runs on one thread; a step is what runs between two awaits. `at[i]` says
where an invocation is: not called, reading its body, asking, allowed, done. The host
is `pending`, `display`, `open` and the queue of close events `closes`. The app may
replace its payload at any time, so that what the broker has copied must not depend
on it. Clicks and close events come in any order.

### ClientApp

Extends `Consent`: `AppNext` has the steps of the artifact, the frame and the port, and those
of `Consent` that belong to a message go on only as steps of its handler. `Ported` are the invocations that
come from the app; the others are made by other code of the page. A message is a copy, so only the
latter can be changed after they were made (`AppChanges`). `stage[i]` says where the
handler of a message is, `from[i]` where its response came from. A response is read whatever handler returned it; only that of an
HTTP request has its origin checked. A content stands for its digest.

### WorkerElement

`main` is the plain element that keeps the main thread busy, or none: while a guest runs
there, no message is taken and no timer fires. `host[e]` and `inner[e]` are the two
workers of an element, the host with its guest and the worker of the POST bridge in it;
of the bridge only as much is modelled as the element can tell apart (it becomes ready or not, a call
returns), `SabPostBridge` has the rest. A worker that was terminated may do some more steps
before it stops.

### Linker

`memory[p]` are the bytes of a provider; a byte is the number of the call that wrote it, so that a
property can ask whose bytes a consumer receives. The tables of links are those of the code.
A consumer has a page in each provider it is linked with (`ProvidersOf`), whether it imports anything from it or not.
`stack` are the calls under way: a provider may call the host and through it a consumer, whose
calls nest. A provider may return any length, write or not write, and trap. A page has three
bytes in the run; fixed results (state, stats, key) keep a size of their own.

### Kgraph

`store` is the list of what was asserted, each item with the reading it comes from, because a
vector or a map is equal to itself only and each reading makes a new one, while `writeEdn` prints two such vectors
alike and no map at all. Each import is an action for the call that ends normally and one for the call that throws.
`since` and `lost` are history. Things that are no datoms are one term that cannot be
destructured; vectors that are too short and strings, which can, are left out. `MatchClause`, `JoinClause` and
`Join` are the three loops of a query, in their order; `RightRows` is the answer by definition. `KgraphInit`,
`KgraphTypeOK` and some more have their long names so that `Element_proofs` can extend `WorkerElement` too.

The map of each definition to its lines is in PROJECT.json.

## 3. Plan

Done, in this order: `SyncRpc`, `SabPostBridge`, `SabHttp`, `PgPool`, `Transport`,
`ActorHost`, `Consent`, `WorkerElement`, `Linker`, `ClientApp`, `Kgraph`, and proofs about all of
them (section 6).

Left: the KAMI engine host and its ECS (entities, tags, query cursors, random state), whose
JavaScript is compiled from `.cljk` files; the codecs of the actor host and the
capabilities, as operators compared with reference definitions.

With them, theorems that the codecs undo each other would be worth stating, as far as they need no induction
over texts.

## 4. Runs

| Run | Question | Instance | States |
|---|---|---|---|
| `sab_post` | are the buffers handed over soundly until a call is abandoned, and does every call return? | 3 calls | 59 424 |
| `sab_http` | do the per-request bridges keep the promise of `SyncRpc`? | both kinds, 3 calls, replies of 0 or 1 byte (`MaxBytes` is 1), handlers that fail | 25 572 |
| `pg_pool` | do pools, connections, leases and channels agree, and what can an exception break? | 2 pools at once, 2 connections per pool, 3 channels, one of which cannot be closed, 3 leases, clock 0 to 2, all traps | 279 620 |
| `transport` | are bytes charged, cut and delivered rightly, and does every request return? | 1 connection, 3 bytes from the peer, reads and writes of 1 or 2 bytes | 178 332 |
| `transport_handles` | does every open socket have one handle, and every authority one use? | 2 connections, 3 sockets in all with those of cancels, 2 cancel handles, 1 cancel request, no data | 2 147 310 |
| `actor_host` | do budgets, revocation, quotas and the memory cap hold for two guests with shared and separate imports? | 3 calls, 1 revocation, nesting of 2, memories of 1 or 2 pages | 142 245 |
| `client_app` | is what is sent what was agreed to, what runs what was pinned, and what is replied true? | 3 invocations: a download and a browser action by messages, an HTTP request by other code; 1 body, 2 contents, 2 origins | 1 703 924 |
| `worker_element` | does every element report once and truly, and do its workers end? | 2 worker elements, 1 plain element | 26 136 |
| `linker` | do flags, bytes and quotas survive nested and failing calls? | 2 consumers, 2 providers, one shared; 4 calls, nesting of 3, pages of 3 bytes | 210 476 |
| `kgraph` | does the store hold what was asserted, and are answers right? | 5 datoms, 1 thing that is none, 7 queries, 3 items stored, 2 arguments to a call | 47 200 |
| `sab_post_late`, `consent_once` | the first two disagreements of section 5 | | |

Several properties are conjunctions of parts that have names and comments of their own in the
modules, for instance `FetchesSound` (fetched as issued and once, buffers exclusive, no extra fetch),
`ChannelsSound`, `CountsHold` and `LeasesFresh` of the pool, `BytesAccounted` and `AttemptsWithinQuota` of the transport,
`QuotasHold` of the actor host, `BytesApart` of the linker, `ReportsSound` and `RunsEnd` of the worker element.

Why these bounds are enough. Two threads of a bridge can only confuse a call with
its neighbour or with the one abandoned before it, which takes two calls; three show
that the state after such a confusion can be left again. A pool confuses connections,
leases and channels in pairs, a third of each is the one that is handed out anew, and two ticks
take a connection past its idle time and past its lifetime. A read quota of two
bytes with chunks of three is cut and put back; a quota of two with writes of two is
met exactly and overrun. Two connections and two cancel authorities
meet a quota of one cancel request, and the socket of the cancel comes on top of the two. Three calls meet and pass a budget of two; two nested
backends let one overtake the other. One eligible HTTP request and one eligible
browser action are the two that can wait for one dialog; the third invocation shows
that a message of the app and other code of the page can wait for the same dialog.
Two consumers of one provider, one of them with a second provider, give every way in which
calls can nest: through another bridge, through the same one, back into the first. Two worker
elements have nothing in common but the main thread, which a plain element takes away. Three items in a
store of which two arguments can be pushed are as many as a retract needs to lose one; the
queries join through a shared entity and a shared value, match a vector and ask for a variable
that is not bound; a buffer of one row is too small for some answers and right for others. The bounds named in upper case (`MaxCalls`, `MaxFacts`,
`MaxTime`, `MaxPool`, `MaxSockets`, `MaxArrived`, `MaxHanded`, `MaxUses`, `MaxRevoked`,
`MaxPages`, `MaxDepth`, ...) do not exist in the code; those named as in the code are its options.

`CHECK_DEADLOCK FALSE` stands where a bound ends the session (no call, lease or socket
is left), which is no deadlock of the code. `sab_http` checks for deadlock: a listener can
always be attached or detached. `kgraph` checks for it too: the page can always run a guest.

### Fairness

In the bridges and the transport only the thread that blocks the guest is assumed to go
on: `WF_vars(CallerStep)`, `WF_vars(ClientStep)` and `WF_vars(BrokerStep)`. The code
justifies it because each `Atomics.wait` on these paths has a finite time-out, so the next
step of that thread is always possible, and it runs no loop. Nothing is assumed of workers, handlers,
peers or the network: they may stop for ever, and `EveryCallReturns`,
`EveryRequestReturns` and the liveness part of `ImplementsSyncRpc` hold nevertheless.

In `WorkerElement` the browser is assumed to deliver messages and timers while the main thread is free
(`WF_vars(TakesMessage(e))`, `WF_vars(TimerFires(e))`) and to stop workers it was told to terminate
(`WF_vars(HostStops(e))`). Nothing is assumed of a guest: it may run for ever, in its worker, and the
element still reports; on the main thread it may too, and then nothing is promised
(`EveryElementReports` says so in its premise). In `ClientApp` only the deadline of the
reading of a body is fair (`WF_allVars(BodyFails(i))`), a timer of the browser.

## 5. Where code and words disagree

Two are runs whose counterexample is short.

- `sab_post_late` - a reply that is later than the time-out is taken for the reply to
  the next call: nothing tells the worker that the call was abandoned.
- `consent_once` - the close event of an answered dialog denies the question that has
  been asked in the meantime. It takes an app that invokes its next operation as soon as
  the last one is settled.

The others have no run; the models contain them, and the properties name them as exceptions
or stop short of them.

- `http-post-bridge.js:161`: the notification that follows an answer can wake the *next* call,
  for the guest may have seen the answer without it; that call returns null although
  its request is under way and nothing has failed (`CallerGivesUp` in `SabPostBridge`).
  `actor-host.js:1344-1347` knows three reasons for null, and this is none of them.
- `node-transport-broker.js:62`: a write whose drain times out, or whose reply is too late, has been handed to the
  socket and is not charged, so more than `maxWriteBytes` may leave; the repository's
  `README.md:365` says that the broker enforces finite write quotas.
- `actor-host.js:1413`: a POST is charged when its reply fits into the guest's buffer;
  requests whose replies do not are free. `QuotasHold` bounds the replies, not the requests.
- The repository's `README.md:373` says that the linker meters `http-get` attempts. A call is
  charged only after the provider returned, so one that traps is not
  (`Charged` in `Linker`).
- The repository's `README.md:364-365` says that the broker enforces finite connection and time quotas. The socket a cancel opens
  (`node-transport-worker.js:90`) is not one of `maxConnections`, has no timeout once it is connected, and is left to its peer after the
  reply (line 97); it has no error listener then. A cancel that fails after its request was handed to the socket is not charged (line 98),
  so more than `maxCancelRequests` may leave. `AttemptsWithinQuota` states the two kinds of sockets apart, and counts the
  requests until such a failure (`cancelFailed`).
- A guest that takes the handle of a connection for a cancel handle loses the handle and leaves the socket open
  (`node-transport-worker.js:88-89`, `CancelMistaken`).
- `closeConnection` (`node-postgresql-pool-provider.js:40`) does not look at what `pg-close-scram` returns: a channel whose close
  was refused stays open and is in no Map. `ChannelsSound` and `CountsHold` name these channels as their exception (`ClosesRefused`).
- After a reset that throws, `pg-pool-release` has deleted the lease and left the connection
  leased, so `drain` reports one forced lease too many. In `PgPool` the properties that then fail
  are stated "until an exception", with `broken`.
- The comment at `actor-host.js:757-759` says that every import with an in-band denial looks at the memory
  cap first; `random_bytes`, `kagi_sign` and `http_get` do not (`IgnoresMemory`).
- A read that times out leaves the socket flowing, so that bytes which arrive before
  the next read are dropped (`SocketDrops`).
- `kgraph.js:136` calls the store a faithful port. A query never finds a vector by an equal
  vector, nor joins two of them, since they are compared by identity, while a retract removes by what is printed;
  an item that cannot be printed makes every later retract throw, and one that is no datom
  every query; and a retract that keeps more items than can be passed
  to one `push` empties the store and throws (`RetractLoses`). `FactsStand` and `AnswersRight` except these.
- The question of an app that was closed stays open: it can still be allowed, and its request is
  sent, though no reply is delivered (`Closes` in `ClientApp` leaves `pending` alone).
- The comment at `actor-host.js:250` says that empty `allowedUrlPrefixes` mean no restriction; line 264
  denies every URL for an empty list. `maxScramProofs` is a limit nothing reads (the quota of
  proofs is an option of the credential provider), and `takeHandle` (839) is never called.
  These are outside the models.

## 6. What is proved

TLAPS proves these for every value of the constants that the assumptions allow. They are all the
state invariants and action properties that the passing runs check. In each proofs
module an inductive invariant is a conjunction of named parts, a lemma shows for each
action (or for each kind of change that actions make) that the parts still hold, and the theorems follow
from it.

**`SabPostBridge_proofs`** (assumption: `MaxCalls` is a natural number): `TypeOK`,
`NoLostWakeup`, `OwnReplyUntilAbandoned` and `FetchesSound` with each of its three parts. None of them is inductive alone. `IInv` adds
`Ranges` (numbers are those of calls issued), `NotPending` (outside the part that
publishes and waits, the word is not PENDING), `Budget` (what was fetched and what the
present request may still cause is no more than the calls made: this is why a late
answer never becomes a fetch), and, as long as nothing was abandoned, `Hygiene`:
`Ownership` (the worker uses the buffers only while the word is PENDING), `Contents`
(whose bytes they hold at each point), `Answer` (what the guest has read) and `History`
(the fetches are those of earlier calls while the present one is not fetched).

**`SabHttp_proofs`** (assumptions: there is a kind of call; the bounds are natural numbers): `TypeOK`,
`HandoverSound`, and the safety part of `ImplementsSyncRpc`: the first state is one of `SyncRpc`, and every
step is a step of `SyncRpc` or leaves its state alone. A client that reads a status reads its own reply, because
`IInv` adds `Progress` (a request is in one place: queued, awaited, or its listener runs), `Stores` (only the listener of a request sets
the status of its buffer, and the reply is complete by then) and `Reads`
(what the client has read so far is what was written).

**`PgPool` in `Node_proofs`** (assumptions: `LimitsAssumption`, what the constructor checks of its options, and
`BoundsAssumption`): `TypeOK`, `LeaseSound`, `ChannelsSound`, `CountsHold` and the action property `LeasesFresh`.
The operations are long and share their parts: a close of a pool is evictions, an acquire is an eviction, an opening and
a hand-over. The proof therefore treats the state as a record, says what it is for it to be `Good` (`Typed`, `Leased`,
`Wired`, `Counted`), and shows of each small change (`Opens`, `Hands`, `Evicts`, `Uses`, `Returns`, `Removes`, `Breaks`,
`LosesLease`, `LosesChannel`, `Marks`, `Ticks`) that it keeps a good state good; an action is then a few of them in turn, the
exceptional ones included. `CountsHold` compares sums over pools with the number of leases.

**`Transport` in `Node_proofs`** (assumptions: `QuotasAssumption`, quotas are natural numbers, and
`WorldAssumption`, chunks are not empty and bounds are natural numbers): `TransportTypeOK`, `BytesAccounted`,
`OneHandlePerSocket`, `AttemptsWithinQuota` and the action property `HandlesNeverReused`. The accounts are not
inductive, because the broker charges only when the reply is back, and the worker has acted by
then. `TInv` therefore adds to each side what the request under way still owes: the socket it has opened (`Fresh`), its
authority (`FreshAuthority`) or that it has used one (`Using`), the bytes it has read (`OwedBytes`) or handed to the socket (`OwedWrite`), the cancellation
(`OwedCancel`). With them, the charges cover what the worker has done in every state
(`SocketsCharged`, `CancelsCharged`, and with equality `BytesCharged` and, until a write has failed, `WritesCharged`).
`Admitted` says what the broker had checked when it sent the request; `HandlesSound` that two handles are never of one
socket, and that until a connection was cancelled every open socket but those of cancels has a handle or is being set up; `KindsSound` that a handle never names a socket of a cancel; `Flows` that, until a read has failed, only a
socket that is read from receives, so that nothing is dropped.

**`ActorHost_proofs`** (assumptions: `CapsAssumption`, the shape of the options;
`BudgetsAssumption`, budgets are positive, which `sessionAuthority` enforces):
`TypeOK`, `AuthoritySound`, `QuotasHold` and the action properties `DeadGrantsStayDead` and `NothingOverCap`. The first two are
inductive together: an admitted use has an active grant, an active grant is not
consumed, so its budget has a use left, and the subtraction stays natural. From them
it follows that no step on a dead grant uses it, sends for it or hands bytes out for it. `QuotasHold` takes `QInv`:
`Nested` (a guest waits in one call at a time, and its counter and memory are still as they were when that call was checked) and `Accounts` (everything sent or
handed over has been charged somewhere). So the check before
the backend is still good after it, which it would not be if a backend could run the instance it serves.

**`ClientApp_proofs`** (assumptions: finitely many invocations, scopes apart from them, `AppAssumption`). About `Consent`:
`TypeOK`, `QuestionAnswerable` and `SentAsAgreed`. The last counts: as many requests of a
kind left as clicks agreed to it, at most. It is not inductive, since a request that was
allowed leaves later; `Accounted` counts the allowed ones with the sent ones. A click
then adds one on both sides, which takes that the dialog displays the scope of the
pending snapshot (`QuestionAnswerable`) and that a dialog is open only for a pending
question (`OpenForQuestion`); to send adds on neither, which takes that a snapshot stays what
it was (`Captured`). About `ClientApp`: `AppSpec` implies `Spec` of `Consent` (`AppImplementsConsent`), so that these
properties hold whether an invocation comes by a message or from other code; and `AppTypeOK`, `MountedAsPinned` and `RepliesTrue`. `AppInv` adds
`Started` (a message has an invocation from the time it is handled), `ArtifactSound` (what is verified is a copy of what
was declared, whatever the caller writes meanwhile, and only what is verified is mounted), `PortSound` (a body is read after a request
was sent, and that of an HTTP request from a declared origin, and each reply is of a message whose handler has replied) and `Answered` (an
invocation is sent only after Allow).

**`WorkerElement` in `Element_proofs`** (assumption: the elements of the two kinds are different): `TypeOK`,
`ReportsSound` and, as an action property, that a report is final (`ReportsAreFinal`). `IInv` adds `Origins`: the element whose guest
runs on the main thread still waits; an element that was never inserted has no worker; and a message that says ok
came from a guest that returned, however long it was in the queue.

**`Kgraph` in `Element_proofs`** (assumption: `KgraphAssumption`, datoms and clauses are triples, and a vector or a map that
was read, a variable, a query and a term are different things): `KgraphTypeOK`, `FactsStand` and `AnswersRight`. The last says that a
query, a program of three nested loops, computes what its clauses mean, for every store and every query. The argument follows the
loops: `unify` returns the one binding that extends what was bound and meets the term, or null (`UnifyIs`); the
three calls of it in `matchClause` find the one that fits a datom (`UnifiedIs`); a loop over the store, and one over the bindings, find all that
fit some datom (`MatchClauseIs`, `JoinClauseIs`); so after *n* clauses the bindings are the solutions of the first *n*
(`OneClause`, `JoinIs`), and the rows are theirs, each once (`DistinctIs`, `RowsAre`). A solution printed is then a right row
(`RowsSound`), and the other way round if no stored datom holds a vector (`RowsComplete`); since no row is twice, an answer
that does not fit is longer than the buffer as a set too. `KgraphInv` adds that a guest that trapped has no answer left. The loops are
recursive functions here. Induction over them goes by a smallest counterexample as well (`UpTo`), and from it come that such a function exists (`Recursion`),
that two of them end alike (`SameEnd`), and what a flattened sequence holds (`FlattenIs`, `FlattenGathers`, `FlattenCounts`).

**`Linker_proofs`** (assumption: `LinkerAssumption`, the shape of the links): `TypeOK`, `ActiveOnlyInCall`, `BytesApart` and
`GetsWithinQuota`. The flags and the bytes are about the calls under way, so `IInv` says what the stack of calls is:
`StackSound` (each frame is a call of a linked consumer through a bridge of its own, its buffers fit into the page, no bridge is in two frames), `PagesApart` and
`PagesOwned` (the pages of two consumers in one provider do not overlap, and a byte in one is of a call of its consumer), `GetsCounted` (the count is that of the GETs
that returned, and each of those under way was admitted).

**`SumTheorems`** has what four of these modules need: that a fold over a finite set is a sum, that it changes by as much
as one of its members, that it is monotone. The library's induction rules cannot be applied here, since they are stated for an
operator as parameter; a smallest counterexample does it instead: a nonempty set of finite sets has
an element that is minimal for inclusion (`SmallestSet`).

**Only model-checked:** liveness, which TLAPS does not reason about: `EveryCallReturns`, `EveryRequestReturns`, `ReadingEnds`, `RunsEnd`
and the liveness part of `ImplementsSyncRpc`. The properties that fail are counterexamples and need no proof.

## 7. What is not modelled

- The checks of signed descriptors and declarations of the client runtime, the allowlists of URLs and
  endpoints, texts, keys and all wording: decisions about one value, made in one step. In
  the models a request is refused or not.
- A listener of `http-sab-bridge.js` attached twice to one worker, which would run each handler twice: `Attach` in `SabHttp` is for a
  worker without one, as the embedder uses it.
- More than one body of a request in `client_app`, which would take its run beyond reason: that no change of the body can show
  after consent was asked rests on the theorem about `SentAsAgreed`, which holds for every set of bodies.
- `tlsServerEndPoint`, `pg-pool-query` and `pg-pool-stats`: they change no modelled state.
- The memory of guests, except its size in pages and what the linker copies.
- The codecs of the actor host (JSON, CBOR, hex) and the EDN reader: functions of a text without state;
  in `Kgraph` the reader yields a thing or throws.
- The capabilities: membership of a token in a list, a function without state.
- The KAMI engine host and its ECS: sequential, and their JavaScript is generated; first in what is left of the plan.
- The solar and GPU hosts (drawing), the vendored cryptography (third-party code).
