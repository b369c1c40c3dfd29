------------------------------- MODULE Linker -------------------------------
(***************************************************************************)
(* Components and the bridges between their memories                       *)
(* (src/component-runtime.js, src/component-linker.js).                    *)
(*                                                                         *)
(* A consumer is linked to providers, each by a bridge with a page of the  *)
(* provider's memory of its own.  A call of the bridge copies buffers from *)
(* the consumer into the page, calls the provider and copies buffers back. *)
(* All runs on one thread, but the provider may call the host, and through *)
(* it a consumer whose calls then nest in the first.                       *)
(*                                                                         *)
(* A byte of a memory is the number of the call that wrote it, 0, or a     *)
(* byte of the provider's Own.  The provider writes only where it was told *)
(* to, or says it wrote and did not: it may return any length.             *)
(***************************************************************************)
EXTENDS Integers, FiniteSets, Sequences, SequencesExt

\* A link names the arguments that point to buffers, in the order of the
\* layout; the argument after each is the buffer's length.  As many bytes are
\* copied back as the call returns, or a fixed number.
Result(at) == [at |-> at, size |-> "result"]
Fixed(at, size) == [at |-> at, size |-> size]
State(at) == Fixed(at, "state")
Link(copyIn, copyOut) == [copyIn |-> copyIn, copyOut |-> copyOut]
NoBuffers == Link(<<>>, <<>>)

HTTP_LINKS ==
  [http_open |-> Link(<<0>>, <<>>), http_write |-> Link(<<1>>, <<>>), http_read |-> Link(<<>>, <<Result(1)>>),
   http_close |-> NoBuffers, http_get |-> Link(<<0, 3>>, <<Result(5)>>)]
DB_LINKS ==
  [db_open |-> Link(<<0>>, <<>>), db_write |-> Link(<<1>>, <<>>), db_read |-> Link(<<>>, <<Result(1)>>),
   db_close |-> NoBuffers, db_exchange |-> Link(<<0, 3>>, <<Result(5)>>)]
PG_SESSION_LINKS ==
  [db_close |-> NoBuffers, pg_open |-> Link(<<0, 3, 5>>, <<>>), pg_query |-> Link(<<1>>, <<Result(3)>>)]
PG_QUERY_LINKS ==
  [pg_simple_query |-> Link(<<0, 3>>, <<Result(5)>>), pg_query_state |-> Link(<<1>>, <<Result(3), State(5)>>)]
PG_PREPARED_LINKS ==
  [pg_prepare |-> Link(<<1, 3>>, <<Result(5), State(7)>>),
   pg_execute_params2 |-> Link(<<1, 3, 5>>, <<Result(7), State(9)>>),
   pg_close_statement |-> Link(<<1>>, <<Result(3), State(5)>>),
   pg_prepare_typed |-> Link(<<1, 3, 5>>, <<Result(8), State(10)>>),
   pg_execute_params |-> Link(<<1, 3>>, <<Result(5), State(7)>>)]
PG_PORTAL_LINKS ==
  [pg_bind_portal |-> Link(<<1, 3, 5>>, <<Result(7), State(9)>>),
   pg_fetch_portal |-> Link(<<1>>, <<Result(4), State(6)>>), pg_close_portal |-> Link(<<1>>, <<Result(3), State(5)>>)]
PG_BULK_LINKS ==
  [pg_copy_out |-> Link(<<1>>, <<Result(3), State(5)>>), pg_copy_in |-> Link(<<1, 3>>, <<Result(5), State(7)>>),
   pg_execute_batch |-> Link(<<1>>, <<Result(4), State(6)>>),
   pg_session_reset |-> Link(<<>>, <<Result(1), State(3)>>)]
PG_POOL_LINKS ==
  [pg_pool_acquire |-> NoBuffers, pg_pool_release |-> NoBuffers, pg_pool_health |-> NoBuffers,
   pg_pool_drain |-> NoBuffers, pg_pool_close |-> NoBuffers,
   pg_pool_open |-> Link(<<0, 3, 5, 7>>, <<>>), pg_pool_query |-> Link(<<1>>, <<Result(3), State(5)>>),
   pg_pool_stats |-> Link(<<>>, <<Fixed(1, "stats")>>)]
PG_SCRAM_LINKS ==
  [pg_open_scram_random |-> Link(<<0, 3, 5, 7>>, <<>>), pg_close_scram |-> NoBuffers,
   pg_open_scram |-> Link(<<0, 3, 5, 7, 9>>, <<>>),
   pg_open_scram_cancellable_random |-> Link(<<0, 3, 5, 7>>, <<Fixed(9, "key")>>),
   pg_cancel_authority_use |-> NoBuffers]

Tables ==
  {HTTP_LINKS, DB_LINKS, PG_SESSION_LINKS, PG_QUERY_LINKS, PG_PREPARED_LINKS, PG_PORTAL_LINKS,
   PG_BULK_LINKS, PG_POOL_LINKS, PG_SCRAM_LINKS}

\* A provider of several tables has all their fields: db_close, which is in two,
\* has the same link in both.
Links ==
  [id \in UNION {DOMAIN table : table \in Tables} |-> (CHOOSE table \in Tables : id \in DOMAIN table)[id]]

CONSTANTS
  Consumers, Providers,
  Specs,          \* Specs[c][p]: the imports of consumer c that provider p serves
  ProvidersOf,    \* ProvidersOf[c]: the providers consumer c is linked with, used or not
  maxHttpGets,
  PageSize,       \* the bytes of a page, 65536
  FixedSize,      \* the bytes of a state (7), of stats (32) and of a key (4)
  InitialPages,   \* the pages of a provider's memory before it is linked,
  MaximumPages,   \* and their maximum
  Lengths,        \* the lengths of buffers
  MaxCalls,       \* bound on the calls
  MaxDepth        \* bound on nested calls

ASSUME LinkerAssumption ==
  /\ Specs \in [Consumers -> [Providers -> SUBSET DOMAIN Links]]
  /\ ProvidersOf \in [Consumers -> SUBSET Providers]
  /\ \A c \in Consumers, p \in Providers : Specs[c][p] # {} => p \in ProvidersOf[c]
  /\ FixedSize \in [{"state", "stats", "key"} -> Nat] /\ Lengths \subseteq Nat
  /\ PageSize \in Nat /\ maxHttpGets \in Nat /\ InitialPages \in Nat /\ MaxCalls \in Nat

VARIABLES
  memory,    \* memory[p]: the bytes of the provider's memory, none before it is instantiated
  phase,     \* phase[c]: unlinked, linking, linked or failed
  scratchBase,   \* scratchBase[c][p]: where the bridge's page begins
  active,    \* active[c][p]: the flag of the bridge
  httpGets,  \* httpGets[c]: the gets charged
  stack,     \* the calls under way, the innermost last
  callers,   \* history: callers[n] made the n-th call
  received,  \* history: received[c]: the bytes copied to the consumer
  getsDone   \* history: getsDone[c]: the calls of http_get that returned

linkVars == <<phase, scratchBase>>
callVars == <<active, httpGets, stack, callers, received, getsDone>>
vars == <<memory, linkVars, callVars>>

Init ==
  /\ memory = [p \in Providers |-> <<>>]
  /\ phase = [c \in Consumers |-> "unlinked"]
  /\ scratchBase = [c \in Consumers |-> [p \in Providers |-> 0]]
  /\ active = [c \in Consumers |-> [p \in Providers |-> FALSE]]
  /\ httpGets = [c \in Consumers |-> 0] /\ getsDone = [c \in Consumers |-> 0]
  /\ stack = <<>> /\ callers = <<>>
  /\ received = [c \in Consumers |-> {}]

-----------------------------------------------------------------------------
(* Instantiation and linking.                                              *)

Own == -1
NewPage == [k \in 1 .. PageSize |-> 0]

\* instantiateKotobaComponent, when nothing is refused: the imports are those
\* of ActorHost.
ProviderInstantiates(p) ==
  /\ memory[p] = <<>>
  /\ memory' = [memory EXCEPT ![p] = [k \in 1 .. InitialPages * PageSize |-> Own]]
  /\ UNCHANGED <<linkVars, callVars>>

\* Mutants: one page for all bridges; no new page.
OnePage(p) == InitialPages * PageSize
Ungrown(p) == memory[p]

\* The page that memory.grow adds begins where the memory ended.
BaseOf(p) == Len(memory[p])
Grown(p) == memory[p] \o NewPage

\* One page for each provider, those included of which nothing is imported.
Grows(S) ==
  /\ \A p \in S : memory[p] # <<>> /\ Len(memory[p]) < MaximumPages * PageSize
  /\ memory' = [p \in Providers |-> IF p \in S THEN Grown(p) ELSE memory[p]]

\* Two providers of one field are refused.
Apart(c) == \A p, q \in ProvidersOf[c] : p # q => Specs[c][p] \cap Specs[c][q] = {}

LinkBegins(c) ==
  /\ phase[c] = "unlinked" /\ Apart(c)
  /\ Grows(ProvidersOf[c])
  /\ scratchBase' = [scratchBase EXCEPT ![c] = [p \in Providers |-> IF p \in ProvidersOf[c] THEN BaseOf(p) ELSE 0]]
  /\ phase' = [phase EXCEPT ![c] = "linking"]
  /\ UNCHANGED callVars

\* A grant, a memory or an export is missing: some providers have grown.
LinkFails(c) ==
  /\ phase[c] = "unlinked"
  /\ \E S \in SUBSET ProvidersOf[c] : Grows(S)
  /\ phase' = [phase EXCEPT ![c] = "failed"]
  /\ UNCHANGED <<scratchBase, callVars>>

\* After the await; a call before it finds no memory of the consumer.
LinkEnds(c) ==
  /\ phase[c] = "linking" /\ stack = <<>>
  /\ \E to \in {"linked", "failed"} : phase' = [phase EXCEPT ![c] = to]
  /\ UNCHANGED <<memory, scratchBase, callVars>>

-----------------------------------------------------------------------------
(* The bridge.                                                             *)

\* The pointers of a link's buffers, each once, and where the layout puts them.
Pointers(link) == link.copyIn \o [k \in DOMAIN link.copyOut |-> link.copyOut[k].at]
SumTo(link, args, n) == FoldFunctionOnSet(+, 0, [k \in DOMAIN Pointers(link) |-> args[Pointers(link)[k]]], 1 .. n)
Total(link, args) == SumTo(link, args, Len(Pointers(link)))

\* The places in the provider's memory of the first bytes of the k-th buffer.
Bytes(c, p, link, args, k, n) ==
  {scratchBase[c][p] + SumTo(link, args, k - 1) + j : j \in 1 .. n}
Buffer(c, p, link, args, k) == Bytes(c, p, link, args, k, args[Pointers(link)[k]])

Written(p, places, call) ==
  [memory EXCEPT ![p] = [k \in DOMAIN @ |-> IF k \in places THEN call ELSE @[k]]]

\* Mutants: the flag is not reset after an exception; the page is not looked
\* at; a get is not charged.
StillSet(ending) == ending = "throws"
Unlimited(link, args) == TRUE
NotCharged(id, ending) == FALSE

Busy(c, p) == active[c][p]
ActiveAfter(ending) == FALSE
Fits(link, args) == Total(link, args) <= PageSize

\* A get is charged when it returns, whatever it returns.
Charged(id, ending) == id = "http_get" /\ ending = "returns"

\* The call that copies its buffers goes to the provider; one whose buffers
\* are not all in the consumer's memory throws half-way.
CallBegins(c, p, id) ==
  LET link == Links[id]
      call == Len(callers) + 1
  IN  /\ phase[c] = "linked" /\ id \in Specs[c][p]
      /\ Len(stack) < MaxDepth /\ Len(callers) < MaxCalls
      /\ id = "http_get" => httpGets[c] < maxHttpGets
      /\ ~Busy(c, p)
      /\ callers' = Append(callers, c)
      /\ \E args \in [ToSet(Pointers(link)) -> Lengths], copied \in 0 .. Len(link.copyIn) :
           /\ Fits(link, args)
           /\ memory' = Written(p, UNION {Buffer(c, p, link, args, k) : k \in 1 .. copied}, call)
           /\ IF copied = Len(link.copyIn)
                THEN /\ active' = [active EXCEPT ![c][p] = TRUE]
                     /\ stack' = Append(stack, [consumer |-> c, provider |-> p, id |-> id, args |-> args, call |-> call])
                ELSE /\ active' = [active EXCEPT ![c][p] = ActiveAfter("throws")]
                     /\ UNCHANGED stack
      /\ UNCHANGED <<linkVars, httpGets, received, getsDone>>

Running == Last(stack)

\* The provider fills a buffer it was given for its answer.
ProviderWrites ==
  /\ stack # <<>>
  /\ LET link == Links[Running.id]
         places(k) == Buffer(Running.consumer, Running.provider, link, Running.args, k)
     IN  \E k \in Len(link.copyIn) + 1 .. Len(Pointers(link)) :
           memory' = Written(Running.provider, places(k), Running.call)
  /\ UNCHANGED <<linkVars, callVars>>

Ends(ending, bytes) ==
  LET c == Running.consumer
  IN  /\ received' = [received EXCEPT ![c] = @ \cup bytes]
      /\ active' = [active EXCEPT ![c][Running.provider] = ActiveAfter(ending)]
      /\ httpGets' = IF Charged(Running.id, ending) THEN [httpGets EXCEPT ![c] = @ + 1] ELSE httpGets
      /\ getsDone' = IF Running.id = "http_get" /\ ending = "returns" THEN [getsDone EXCEPT ![c] = @ + 1] ELSE getsDone
      /\ stack' = Front(stack)
      /\ UNCHANGED <<memory, linkVars, callers>>

\* The provider traps, or denies with a result that copies nothing.
CallDenied == stack # <<>> /\ \E ending \in {"throws", "returns"} : Ends(ending, {})

\* Buffers are copied back in turn, until one is too long for the consumer or
\* not in its memory.
CallAnswered ==
  /\ stack # <<>>
  /\ LET link == Links[Running.id]
         first == Len(link.copyIn)
         length(k, result) ==
           IF link.copyOut[k].size = "result" THEN result ELSE FixedSize[link.copyOut[k].size]
         capacity(k) == Running.args[link.copyOut[k].at]
         places(k, result) ==
           Bytes(Running.consumer, Running.provider, link, Running.args, first + k, length(k, result))
     IN  \E result \in 1 .. PageSize + 1, copied \in 0 .. Len(link.copyOut) :
           /\ \A k \in 1 .. copied : length(k, result) <= capacity(k)
           /\ Ends(IF copied = Len(link.copyOut) THEN "returns" ELSE "throws",
                   {memory[Running.provider][x] : x \in UNION {places(k, result) : k \in 1 .. copied}})

Next ==
  \/ \E p \in Providers : ProviderInstantiates(p)
  \/ \E c \in Consumers : LinkBegins(c) \/ LinkFails(c) \/ LinkEnds(c)
  \/ \E c \in Consumers, p \in Providers : \E id \in Specs[c][p] : CallBegins(c, p, id)
  \/ ProviderWrites \/ CallDenied \/ CallAnswered

Spec == Init /\ [][Next]_vars

-----------------------------------------------------------------------------
(* What the bridges promise.                                               *)

TypeOK ==
  /\ memory \in [Providers -> Seq(Own .. MaxCalls)]
  /\ \A c \in Consumers, p \in Providers :
       phase[c] \in {"linking", "linked"} /\ Specs[c][p] # {} => scratchBase[c][p] + PageSize <= Len(memory[p])
  /\ phase \in [Consumers -> {"unlinked", "linking", "linked", "failed"}]
  /\ scratchBase \in [Consumers -> [Providers -> Nat]]
  /\ active \in [Consumers -> [Providers -> BOOLEAN]] /\ httpGets \in [Consumers -> Nat] /\ getsDone \in [Consumers -> Nat]
  /\ callers \in Seq(Consumers) /\ Len(callers) <= MaxCalls
  /\ received \in [Consumers -> SUBSET (Own .. MaxCalls)]
  /\ \A k \in DOMAIN stack :
       /\ stack[k].consumer \in Consumers /\ stack[k].provider \in Providers /\ stack[k].call \in DOMAIN callers
       /\ stack[k].id \in Specs[stack[k].consumer][stack[k].provider]

\* A bridge refuses a call exactly while a call of its own is under way,
\* however calls nest and end (component-linker.js, lines 134-162).
ActiveOnlyInCall ==
  \A c \in Consumers, p \in Providers :
    active[c][p] <=> \E k \in DOMAIN stack : stack[k].consumer = c /\ stack[k].provider = p

\* While a call is under way its arguments stay in the provider's memory as
\* they were copied, whatever other calls nest in it (lines 124-153).
ArgumentsStay ==
  \A k \in DOMAIN stack :
    LET call == stack[k]
        link == Links[call.id]
    IN  \A j \in 1 .. Len(link.copyIn) :
          \A x \in Buffer(call.consumer, call.provider, link, call.args, j) :
            x \in DOMAIN memory[call.provider] /\ memory[call.provider][x] = call.call

\* A consumer receives zeros and bytes of its own calls, never those of another
\* consumer or the provider's own, even of a provider that reports more than it
\* wrote (lines 124-160).
OnlyOwnBytes == \A c \in Consumers : \A n \in received[c] : n # 0 => n \in DOMAIN callers /\ callers[n] = c

\* Providers are memory that consumers share and callers do not: what a call
\* put there stays, and what comes back is the caller's own.
BytesApart == ArgumentsStay /\ OnlyOwnBytes

\* The calls of http_get that have returned or are under way with a provider
\* are never more than the limit, nested ones included (lines 189-198).
GetsWithinQuota ==
  \A c \in Consumers :
    getsDone[c] + Cardinality({k \in DOMAIN stack : stack[k].consumer = c /\ stack[k].id = "http_get"}) <= maxHttpGets
=============================================================================
