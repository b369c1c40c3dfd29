----------------------------- MODULE ActorHost -----------------------------
(***************************************************************************)
(* The session authority and the metering of guest imports                 *)
(* (src/actor-host.js).                                                    *)
(*                                                                         *)
(* Several guest instances are linked under the same capabilities and      *)
(* share one session authority, with its grants and budgets of uses, and   *)
(* one log store; each has its own counters and its own memory.            *)
(*                                                                         *)
(* A guest runs synchronously.  Inside a call the host's code runs only    *)
(* where the call has a backend (an injected function, a bridge, or a      *)
(* provider of transports or PostgreSQL): there a grant may be revoked, or *)
(* another guest run whose calls nest in the first.  Such a call is two    *)
(* steps, every other call is one.  A backend does not run the guest it    *)
(* serves, and a source of credentials runs no guest.                      *)
(*                                                                         *)
(* URLs, texts and keys are left out: a request is refused, or it reaches  *)
(* its backend, whose reply fits into the guest's buffer or does not.      *)
(***************************************************************************)
EXTENDS Integers, FiniteSets, Sequences, SequencesExt

CONSTANTS
  Instances,
  Requested,       \* Requested[i]: the imports instance i asks for
  CapsGrants,      \* the grants of the capabilities
  allowWriteImports, allowSecretImports,
  Limits,          \* the limit of every counter
  maxMemoryPages,
  CredentialProvider,   \* whether a credential provider is injected,
  maxProofs,            \* and the option of its quota
  Grants,          \* the grants of the session authority
  Budgets,         \* the budgets of uses, a function on some of the imports
  Sizes,           \* how many bytes a guest asks for at once
  MaxUses,         \* bound on the calls of all imports
  MaxRevoked,      \* bound on the grants revoked or dropped
  MaxPages,        \* bound on the pages of a memory
  MaxDepth         \* bound on nested calls with a backend

\* The imports that are metered and call a backend, with their counters.
MeterOf == [llm_infer |-> "llmInfers", http_post |-> "httpPosts", http_post_headers |-> "httpPosts",
            http_fetch |-> "httpFetches", kagi_sign |-> "kagiSigns", http_get |-> "httpGets"]
Metered == DOMAIN MeterOf
ByteMeters == {"randomBytes", "logReadBytes", "logWriteBytes"}
Counters == {MeterOf[id] : id \in Metered} \cup ByteMeters

\* The imports that are handed on to a provider, which has limits of its own.
TransportImports == {"transport_connect", "tls_open", "tls_server_end_point",
                     "transport_write", "transport_read", "transport_close"}
PoolImports == {"pg_pool_open", "pg_pool_acquire", "pg_pool_query", "pg_pool_release",
                "pg_pool_stats", "pg_pool_health", "pg_pool_drain", "pg_pool_close"}
WireImports == {"pg_open", "pg_query", "pg_simple_query"}
CancelImports == {"pg_cancel_register", "pg_cancel"}
WireWrites == {"pg_prepare", "pg_close_statement", "pg_query_state", "pg_prepare_typed", "pg_execute_params2",
               "pg_execute_params", "pg_bind_portal", "pg_fetch_portal", "pg_copy_out", "pg_copy_in", "pg_execute_batch"}
WireDeep == WireWrites \cup
            {"pg_session_reset", "pg_close_portal", "pg_cancel_authority_use", "pg_close_scram",
             "pg_open_scram", "pg_open_scram_random", "pg_open_scram_cancellable_random"}
HandedOn == TransportImports \cup PoolImports \cup WireImports \cup CancelImports \cup WireDeep
Backed == Metered \cup HandedOn

\* The imports that compute their result at once.
KeyImports == {"gen_keypair", "sign", "verify"}
CodecImports == {"cbor_encode", "json_encode", "json_extract_field"}
Computed == {"clock_monotonic", "sha256_hex"} \cup KeyImports \cup CodecImports

Ids == Backed \cup Computed \cup {"random_bytes", "log_read", "log_write", "scram_sha256"}

\* The imports with the effects "write" and "secret" (IMPORT_SURFACE).
WriteImports == {"log_write", "random_bytes", "http_get", "pg_pool_query", "pg_query", "pg_simple_query"} \cup WireWrites
SecretImports == {"gen_keypair", "sign", "scram_sha256"}

\* The imports that serve a guest however large its memory has become.
IgnoresMemory == {"clock_monotonic", "random_bytes", "kagi_sign", "http_get", "transport_close",
                  "pg_pool_acquire", "pg_pool_release", "pg_pool_health", "pg_pool_drain", "pg_pool_close"} \cup CancelImports
ChecksMemory == Ids \ IgnoresMemory

ASSUME CapsAssumption ==
  /\ Requested \in [Instances -> SUBSET Ids] /\ IsFiniteSet(Instances)
  /\ CapsGrants \subseteq Ids /\ Grants \subseteq Ids
  /\ allowWriteImports \in BOOLEAN /\ allowSecretImports \in BOOLEAN
  /\ CredentialProvider \in BOOLEAN /\ maxProofs \in Nat
  /\ Limits \in [Counters -> Nat] /\ maxMemoryPages \in Nat
  /\ Sizes \subseteq Nat \ {0}

\* sessionAuthority throws for a budget that is not a positive integer.
ASSUME BudgetsAssumption == DOMAIN Budgets \subseteq Ids /\ \A id \in DOMAIN Budgets : Budgets[id] \in Nat \ {0}

VARIABLES
  linked,                               \* the instances that have been linked
  active, revoked, dropped, consumed,   \* the authority's sets of imports
  uses, remaining,                      \* the authority's counts
  state,                                \* state[i]: the counters of instance i
  pages,                                \* pages[i]: the size of its memory
  log,                                  \* bytes in the log store
  proofs,                               \* proofs the credential provider has made
  stack,                                \* the calls whose backend is running
  sent, got   \* history, by instance and import: requests sent, replies (or bytes) the guest got

authorityVars == <<active, revoked, dropped, consumed, uses, remaining>>
meterVars == <<state, log, stack, sent, got>>
vars == <<linked, authorityVars, pages, proofs, meterVars>>

Zero(S) == [x \in S |-> 0]
Sum(f) == FoldFunction(+, 0, f)

Init ==
  /\ linked = {}
  /\ active = Grants /\ revoked = {} /\ dropped = {} /\ consumed = {}
  /\ uses = Zero(Ids) /\ remaining = Budgets
  /\ state = [i \in Instances |-> Zero(Counters)]
  /\ pages = [i \in Instances |-> 1]
  /\ log = 0 /\ proofs = 0
  /\ stack = <<>>
  /\ sent = [i \in Instances |-> Zero(Ids)]
  /\ got = [i \in Instances |-> Zero(Ids)]

-----------------------------------------------------------------------------
(* Linking.                                                                *)

\* validateImportSurface: all imports of an instance metered by one counter
\* count against its limit before the first call.
Valid(i) ==
  /\ Requested[i] \subseteq CapsGrants
  /\ \A id \in Requested[i] \cap Metered :
       Cardinality({x \in Requested[i] \cap Metered : MeterOf[x] = MeterOf[id]}) <= Limits[MeterOf[id]]
  /\ allowWriteImports \/ Requested[i] \cap WriteImports = {}
  /\ allowSecretImports \/ Requested[i] \cap SecretImports = {}

Links(i) ==
  /\ i \notin linked /\ Valid(i)
  /\ linked' = linked \cup {i}
  /\ UNCHANGED <<authorityVars, pages, proofs, meterVars>>

-----------------------------------------------------------------------------
(* The authority.                                                          *)

\* Mutants: only the grants at the start count; one use too many; the uses
\* of a budget are not counted down.
AdmitsGranted(id) == id \in Grants
LastUseAfter(left) == left = 0
LeftUncounted(left) == left

Admits(id) == id \in active
LastUse(left) == left = 1
Left(left) == left - 1

\* consume, when it does not throw.  The test for an exhausted budget that is
\* still active has no step of its own: AuthoritySound shows there is none.
Consumes(id) ==
  /\ Admits(id) /\ Sum(uses) < MaxUses
  /\ uses' = [uses EXCEPT ![id] = @ + 1]
  /\ IF id \in DOMAIN Budgets
       THEN /\ remaining' = [remaining EXCEPT ![id] = Left(@)]
            /\ active' = IF LastUse(remaining[id]) THEN active \ {id} ELSE active
            /\ consumed' = IF LastUse(remaining[id]) THEN consumed \cup {id} ELSE consumed
       ELSE UNCHANGED <<remaining, active, consumed>>
  /\ UNCHANGED <<revoked, dropped>>

Revokes(id) ==
  /\ Cardinality(revoked) + Cardinality(dropped) < MaxRevoked
  /\ active' = active \ {id}
  /\ \/ revoked' = revoked \cup {id} /\ UNCHANGED dropped
     \/ dropped' = dropped \cup {id} /\ UNCHANGED revoked
  /\ UNCHANGED <<linked, consumed, uses, remaining, pages, proofs, meterVars>>

-----------------------------------------------------------------------------
(* The imports.                                                            *)

Waiting(i) == \E k \in DOMAIN stack : stack[k].instance = i

Calls(i, id) == i \in linked /\ id \in Requested[i] /\ ~Waiting(i) /\ Consumes(id)

\* Mutant: one page too many.
WithinPageMore(i, id) == id \in ChecksMemory => pages[i] <= maxMemoryPages + 1

WithinMemory(i, id) == id \in ChecksMemory => pages[i] <= maxMemoryPages

Under(i, id) == id \in Metered => state[i][MeterOf[id]] < Limits[MeterOf[id]]
Room(i, meter, n) == state[i][meter] + n <= Limits[meter]

\* A limit, the memory, an argument or the URL is wrong, or reading the
\* guest's memory throws: the use is spent and nothing else happens.
CallRefused(i, id) ==
  /\ Calls(i, id)
  /\ UNCHANGED <<linked, pages, proofs, meterVars>>

CallComputes(i, id) ==
  /\ Calls(i, id) /\ WithinMemory(i, id)
  /\ got' = [got EXCEPT ![i][id] = @ + 1]
  /\ UNCHANGED <<linked, pages, proofs, state, log, stack, sent>>

\* What is handed over has been charged; storing it may still fail.
HandsOver(i, id, n) == got' = got \/ got' = [got EXCEPT ![i][id] = @ + n]

\* Mutant: each guest has a quota of its own.
ProvesForEach(i) == CredentialProvider => got[i]["scram_sha256"] < maxProofs

\* The quota is the provider's.  Without a provider the host proves with the
\* credentials it was given, without a quota: nothing reads maxScramProofs.
MayProve(i) == CredentialProvider => proofs < maxProofs

ProvesScram(i) ==
  /\ Calls(i, "scram_sha256") /\ WithinMemory(i, "scram_sha256") /\ MayProve(i)
  /\ proofs' = IF CredentialProvider THEN proofs + 1 ELSE proofs
  /\ HandsOver(i, "scram_sha256", 1)
  /\ UNCHANGED <<linked, pages, state, log, stack, sent>>

CallStarts(i, id) ==
  /\ Len(stack) < MaxDepth
  /\ Calls(i, id) /\ WithinMemory(i, id) /\ Under(i, id)
  /\ stack' = Append(stack, [instance |-> i, id |-> id])
  /\ sent' = [sent EXCEPT ![i][id] = @ + 1]
  /\ UNCHANGED <<linked, pages, proofs, state, log, got>>

\* What the backend comes back with: it throws, returns null or no bytes,
\* or bytes that do not fit into the guest's buffer, or do.
Replies == {"throws", "null", "overflows", "fits"}

\* Mutant: posts with headers have a counter of their own, which nothing tests.
ChargesPlain(id, reply) == id \in Metered \ {"http_post_headers"} /\ reply = "fits"

\* http_get charges bytes it could not hand over, the others do not.
Charges(id, reply) ==
  id \in Metered /\ (reply = "fits" \/ (id = "http_get" /\ reply = "overflows"))

Settles(i, id, reply) ==
  /\ state' = IF Charges(id, reply) THEN [state EXCEPT ![i][MeterOf[id]] = @ + 1] ELSE state
  /\ got' = IF reply = "fits" THEN [got EXCEPT ![i][id] = @ + 1] ELSE got

CallReturns ==
  /\ stack # <<>>
  /\ \E reply \in Replies : Settles(Last(stack).instance, Last(stack).id, reply)
  /\ stack' = Front(stack)
  /\ UNCHANGED <<linked, authorityVars, pages, proofs, log, sent>>

RandomFills(i, n) ==
  /\ Calls(i, "random_bytes") /\ Room(i, "randomBytes", n)
  /\ state' = [state EXCEPT ![i].randomBytes = @ + n]
  /\ HandsOver(i, "random_bytes", n)
  /\ UNCHANGED <<linked, pages, proofs, log, stack, sent>>

LogReads(i) ==
  /\ Calls(i, "log_read") /\ WithinMemory(i, "log_read") /\ Room(i, "logReadBytes", log)
  /\ state' = [state EXCEPT ![i].logReadBytes = @ + log]
  /\ HandsOver(i, "log_read", log)
  /\ UNCHANGED <<linked, pages, proofs, log, stack, sent>>

LogWrites(i, n) ==
  /\ Calls(i, "log_write") /\ WithinMemory(i, "log_write") /\ Room(i, "logWriteBytes", n)
  /\ state' = [state EXCEPT ![i].logWriteBytes = @ + n]
  /\ log' = log + n
  /\ UNCHANGED <<linked, pages, proofs, stack, sent, got>>

\* memory.grow, by the guest itself.
GuestGrows(i) ==
  /\ i \in linked /\ ~Waiting(i) /\ pages[i] < MaxPages
  /\ pages' = [pages EXCEPT ![i] = @ + 1]
  /\ UNCHANGED <<linked, authorityVars, proofs, meterVars>>

Next ==
  \/ \E i \in Instances :
       \/ Links(i) \/ GuestGrows(i) \/ ProvesScram(i) \/ LogReads(i)
       \/ \E id \in Ids : CallRefused(i, id)
       \/ \E id \in Computed : CallComputes(i, id)
       \/ \E id \in Backed : CallStarts(i, id)
       \/ \E n \in Sizes : RandomFills(i, n) \/ LogWrites(i, n)
  \/ CallReturns
  \/ \E id \in Grants : Revokes(id)

Spec == Init /\ [][Next]_vars

-----------------------------------------------------------------------------
(* What the host promises.                                                 *)

TypeOK ==
  /\ linked \subseteq {i \in Instances : Valid(i)}
  /\ active \subseteq Ids /\ revoked \subseteq Ids /\ dropped \subseteq Ids /\ consumed \subseteq Ids
  /\ uses \in [Ids -> Nat]
  /\ DOMAIN remaining = DOMAIN Budgets /\ \A id \in DOMAIN remaining : remaining[id] \in Nat
  /\ state \in [Instances -> [Counters -> Nat]]
  /\ pages \in [Instances -> Nat]
  /\ log \in Nat /\ proofs \in Nat
  /\ stack \in Seq([instance : Instances, id : Backed])
  /\ sent \in [Instances -> [Ids -> Nat]] /\ got \in [Instances -> [Ids -> Nat]]

\* A grant is active exactly when it was given and has been neither revoked,
\* dropped nor used up, and a budget is used up exactly when all its uses were
\* admitted (lines 684-730): the last use leaves no active grant without uses.
AuthoritySound ==
  /\ active = Grants \ (revoked \cup dropped \cup consumed)
  /\ \A id \in DOMAIN Budgets :
       /\ uses[id] + remaining[id] = Budgets[id]
       /\ id \in consumed <=> remaining[id] = 0

SentInAll(id) == Sum([i \in Instances |-> sent[i][id]])

\* All instances together send no more requests than the budget admits
\* (lines 705-719, 753-755 and the imports).
BudgetBoundsRequests == \A id \in Backed \cap DOMAIN Budgets : SentInAll(id) <= Budgets[id]

\* Once a grant is revoked, dropped or used up, no instance linked before gets
\* another use of it, another request out or another byte (lines 705-708); only
\* a call whose backend was running may still have its reply.
DeadGrantsStayDead ==
  [][\A id \in revoked \cup dropped \cup consumed :
       /\ uses'[id] = uses[id]
       /\ \A i \in Instances :
            /\ sent'[i][id] = sent[i][id]
            /\ Waiting(i) \/ got'[i][id] = got[i][id]]_vars

GotBy(i, meter) == Sum([id \in {x \in Metered : MeterOf[x] = meter} |-> got[i][id]])

\* A guest gets no more replies than the limit of their counter, whichever
\* imports share it, and no more bytes (lines 780-793 and 1302-1541).
RepliesWithinLimits ==
  \A i \in Instances :
    /\ \A meter \in Counters : state[i][meter] <= Limits[meter]
    /\ \A meter \in Counters \ ByteMeters : GotBy(i, meter) <= Limits[meter]
    /\ got[i]["random_bytes"] <= Limits["randomBytes"] /\ got[i]["log_read"] <= Limits["logReadBytes"]

\* Once a guest has more pages than the cap, no import that looks at it sends
\* anything for this guest or hands it anything, the one whose backend was
\* running when it grew included (lines 756-764 and the imports).
NothingOverCap ==
  [][\A i \in Instances, id \in ChecksMemory : pages[i] > maxMemoryPages =>
       sent'[i][id] = sent[i][id] /\ got'[i][id] = got[i][id]]_vars

\* All guests that share a credential provider get no more proofs from it than
\* its quota (createNodeCredentialProvider, lines 8-34).
ProofsWithinQuota == CredentialProvider => Sum([i \in Instances |-> got[i]["scram_sha256"]]) <= maxProofs

\* All that guests send, get and have proved stays within the budgets of the
\* grants they share, the limits of each and the quota of their provider.
QuotasHold == BudgetBoundsRequests /\ RepliesWithinLimits /\ ProofsWithinQuota
=============================================================================
