---------------------------- MODULE Node_proofs ----------------------------
(***************************************************************************)
(* Proofs about the services of a Node host, for every limit and quota:    *)
(* the PostgreSQL pools (PgPool), then the raw transport (Transport).      *)
(*                                                                         *)
(* An operation of the pools is a few changes one after the other: it      *)
(* evicts expired connections, opens one, hands out a lease on it.  Each   *)
(* such change is a relation between two states of the provider, written   *)
(* as records, and each keeps the invariant on its own, so each operation  *)
(* does, wherever an exception ends it.  The states in between are those   *)
(* the code goes through inside one call.                                  *)
(*                                                                         *)
(* The transport's broker charges its quotas only when a reply is back.    *)
(* Its invariant says what is still owed: by the request under way, for    *)
(* what the worker has done of it already.                                 *)
(***************************************************************************)
EXTENDS PgPool, Transport, SumTheorems, FiniteSetTheorems, TLAPS

\* The state of the provider, as one value.
St ==
  [now |-> now, pools |-> pools, connections |-> connections, leases |-> leases, channels |-> channels,
   nextPool |-> nextPool, nextConnection |-> nextConnection, nextLease |-> nextLease,
   nextChannel |-> nextChannel, broken |-> broken]

In(s, p) == {c \in DOMAIN s.connections : s.connections[c].pool = p}
OpenChannels(s, S) == {s.connections[c].channel : c \in {d \in S : ~ s.connections[d].closed}}
ShutChannels(s, S) == OpenChannels(s, S) \ ClosesRefused

(* The parts of the invariant.                                             *)

ConnectionIn(s) ==
  [pool : DOMAIN s.pools, channel : 1 .. s.nextChannel - 1, status : {"idle", "leased"},
   createdAt : 0 .. s.now, lastUsedAt : 0 .. s.now, closed : BOOLEAN]

Typed(s) ==
  /\ s.now \in 0 .. MaxTime /\ s.broken \in BOOLEAN
  /\ s.nextPool \in 1 .. MaxPool + 1 /\ s.nextConnection \in Nat \ {0}
  /\ s.nextLease \in 1 .. MaxLease + 1 /\ s.nextChannel \in 1 .. MaxChannel + 1
  /\ DOMAIN s.pools \subseteq 1 .. s.nextPool - 1 /\ s.pools \in [DOMAIN s.pools -> Pool]
  /\ DOMAIN s.connections \subseteq 1 .. s.nextConnection - 1
  /\ s.connections \in [DOMAIN s.connections -> ConnectionIn(s)]
  /\ DOMAIN s.leases \subseteq 1 .. s.nextLease - 1 /\ s.leases \in [DOMAIN s.leases -> Lease]
  /\ s.channels \subseteq 1 .. s.nextChannel - 1

\* A lease is of a leased connection of its pool, and of no other's; until an
\* exception has lost a lease every leased connection has one.
Leased(s) ==
  /\ \A l \in DOMAIN s.leases :
       LET c == s.leases[l].connectionId
       IN  c \in DOMAIN s.connections /\ s.connections[c].pool = s.leases[l].poolId /\ s.connections[c].status = "leased"
  /\ \A l, m \in DOMAIN s.leases : s.leases[l].connectionId = s.leases[m].connectionId => l = m
  /\ ~ s.broken => \A c \in DOMAIN s.connections : s.connections[c].status = "leased" =>
       \E l \in DOMAIN s.leases : s.leases[l].connectionId = c

\* Every connection has a channel of its own, open unless the connection is
\* marked; until an exception none is marked and no other channel is open but
\* those that could not be closed.
Wired(s) ==
  /\ OpenChannels(s, DOMAIN s.connections) \subseteq s.channels
  /\ \A c, d \in DOMAIN s.connections : s.connections[c].channel = s.connections[d].channel => c = d
  /\ ~ s.broken => /\ \A c \in DOMAIN s.connections : ~ s.connections[c].closed
                   /\ s.channels \ ClosesRefused \subseteq {s.connections[c].channel : c \in DOMAIN s.connections}

Counted(s) ==
  /\ Cardinality(DOMAIN s.pools) <= maxPools
  /\ Cardinality(DOMAIN s.leases) <= maxLeases
  /\ \A p \in DOMAIN s.pools :
       /\ Cardinality(In(s, p)) <= maxConnectionsPerPool
       /\ s.pools[p].created = Cardinality(In(s, p)) + s.pools[p].evictions

Good(s) == Typed(s) /\ Leased(s) /\ Wired(s) /\ Counted(s)
GoodSt == Good(St)

(* Good states are finite.                                                 *)
LEMMA Finite ==
  ASSUME NEW s, Typed(s)
  PROVE /\ IsFiniteSet(DOMAIN s.pools) /\ IsFiniteSet(DOMAIN s.connections) /\ IsFiniteSet(DOMAIN s.leases)
        /\ \A p : IsFiniteSet(In(s, p)) /\ Cardinality(In(s, p)) \in Nat
        /\ Cardinality(DOMAIN s.pools) \in Nat /\ Cardinality(DOMAIN s.leases) \in Nat
<1>1. \A n \in Nat : IsFiniteSet(1 .. n - 1)
  BY FS_Interval
<1>2. s.nextPool \in Nat /\ s.nextConnection \in Nat /\ s.nextLease \in Nat
  BY BoundsAssumption DEF Typed
<1>3. IsFiniteSet(DOMAIN s.pools) /\ IsFiniteSet(DOMAIN s.connections) /\ IsFiniteSet(DOMAIN s.leases)
  BY <1>1, <1>2, FS_Subset DEF Typed
<1>4. \A p : In(s, p) \subseteq DOMAIN s.connections
  BY DEF In
<1> QED
  BY <1>3, <1>4, FS_Subset, FS_CardinalityType

-----------------------------------------------------------------------------
(* The changes operations are made of.                                     *)

SameIds(s, t) ==
  /\ t.nextPool = s.nextPool /\ t.nextConnection = s.nextConnection
  /\ t.nextLease = s.nextLease /\ t.nextChannel = s.nextChannel

\* Time passes.
Ticks(s, t) ==
  /\ s.now < MaxTime /\ t.now = s.now + 1
  /\ SameIds(s, t) /\ t.pools = s.pools /\ t.connections = s.connections /\ t.leases = s.leases
  /\ t.channels = s.channels /\ t.broken = s.broken

\* An id is taken for a pool; the pool is put in the Map, or is not.
TakesPoolId(s, t) ==
  /\ Cardinality(DOMAIN s.pools) < maxPools /\ s.nextPool <= MaxPool
  /\ t.nextPool = s.nextPool + 1 /\ t.nextConnection = s.nextConnection
  /\ t.nextLease = s.nextLease /\ t.nextChannel = s.nextChannel
  /\ t.now = s.now /\ t.connections = s.connections /\ t.leases = s.leases
  /\ t.channels = s.channels /\ t.broken = s.broken
AddsPool(s, t) ==
  TakesPoolId(s, t) /\ t.pools = With(s.pools, s.nextPool, [status |-> "open", evictions |-> 0, created |-> 0])
SkipsPool(s, t) == TakesPoolId(s, t) /\ t.pools = s.pools

\* Pool p opens a connection on the next channel.
Opens(s, t, p) ==
  /\ p \in DOMAIN s.pools /\ Cardinality(In(s, p)) < maxConnectionsPerPool /\ s.nextChannel <= MaxChannel
  /\ t.connections = With(s.connections, s.nextConnection,
       [pool |-> p, channel |-> s.nextChannel, status |-> "idle",
        createdAt |-> s.now, lastUsedAt |-> s.now, closed |-> FALSE])
  /\ t.channels = s.channels \cup {s.nextChannel}
  /\ t.pools = [s.pools EXCEPT ![p].created = @ + 1]
  /\ t.nextConnection = s.nextConnection + 1 /\ t.nextChannel = s.nextChannel + 1
  /\ t.nextPool = s.nextPool /\ t.nextLease = s.nextLease
  /\ t.now = s.now /\ t.leases = s.leases /\ t.broken = s.broken

\* The idle connection c is leased.
Hands(s, t, c) ==
  /\ c \in DOMAIN s.connections /\ s.connections[c].status = "idle"
  /\ Cardinality(DOMAIN s.leases) < maxLeases /\ s.nextLease <= MaxLease
  /\ t.connections = [s.connections EXCEPT ![c].status = "leased"]
  /\ t.leases = With(s.leases, s.nextLease, [poolId |-> s.connections[c].pool, connectionId |-> c])
  /\ t.nextLease = s.nextLease + 1 /\ t.nextChannel = s.nextChannel
  /\ t.nextPool = s.nextPool /\ t.nextConnection = s.nextConnection
  /\ t.now = s.now /\ t.pools = s.pools /\ t.channels = s.channels /\ t.broken = s.broken

\* Each change keeps the invariant on its own: time passes.
LEMMA TicksKeepsGood ==
  ASSUME NEW s, NEW t, Good(s), Ticks(s, t) PROVE Good(t)
<1>1. Typed(t)
  <2>1. ConnectionIn(s) \subseteq ConnectionIn(t)
    BY DEF ConnectionIn, Good, Typed, Ticks, SameIds
  <2>2. t.now \in 0 .. MaxTime
    BY BoundsAssumption DEF Good, Typed, Ticks
  <2>3. t.connections \in [DOMAIN t.connections -> ConnectionIn(t)]
    BY <2>1 DEF Good, Typed, Ticks
  <2> QED
    BY <2>2, <2>3 DEF Good, Typed, Ticks, SameIds
<1>2. Leased(t)
  BY DEF Good, Ticks, SameIds, Leased
<1>3. Wired(t)
  BY DEF Good, Ticks, SameIds, Wired, OpenChannels
<1>4. \A p : In(t, p) = In(s, p)
  BY DEF In, Ticks
<1>5. Counted(t)
  BY <1>4 DEF Good, Ticks, SameIds, Counted
<1> QED
  BY <1>1, <1>2, <1>3, <1>5 DEF Good

\* A pool's id is new, so it has no connections yet.
LEMMA AddsPoolKeepsGood ==
  ASSUME NEW s, NEW t, Good(s), AddsPool(s, t) \/ SkipsPool(s, t) PROVE Good(t)
<1>1. /\ t.now = s.now /\ t.connections = s.connections /\ t.leases = s.leases
      /\ t.channels = s.channels /\ t.broken = s.broken
      /\ t.nextPool = s.nextPool + 1 /\ t.nextConnection = s.nextConnection
      /\ t.nextLease = s.nextLease /\ t.nextChannel = s.nextChannel
      /\ Cardinality(DOMAIN s.pools) < maxPools /\ s.nextPool <= MaxPool
  BY DEF AddsPool, SkipsPool, TakesPoolId
<1>2. \/ t.pools = s.pools
      \/ /\ DOMAIN t.pools = DOMAIN s.pools \cup {s.nextPool}
         /\ t.pools = [p \in DOMAIN t.pools |-> t.pools[p]]
         /\ t.pools[s.nextPool] = [status |-> "open", evictions |-> 0, created |-> 0]
         /\ \A p \in DOMAIN s.pools : p # s.nextPool => t.pools[p] = s.pools[p]
  BY DEF AddsPool, SkipsPool, With
<1>3. s.nextPool \in Nat /\ s.nextPool \notin DOMAIN s.pools
  BY BoundsAssumption DEF Good, Typed
<1>4. Typed(t)
  <2>1. ConnectionIn(s) \subseteq ConnectionIn(t)
    BY <1>1, <1>2 DEF ConnectionIn
  <2>2. t.pools \in [DOMAIN t.pools -> Pool] /\ DOMAIN t.pools \subseteq 1 .. t.nextPool - 1
    BY <1>1, <1>2, <1>3 DEF Good, Typed, Pool
  <2> QED
    BY <1>1, <1>3, <2>1, <2>2, BoundsAssumption DEF Good, Typed
<1>5. Leased(t)
  BY <1>1 DEF Good, Leased
<1>6. Wired(t)
  BY <1>1 DEF Good, Wired, OpenChannels
<1>7. \A p : In(t, p) = In(s, p)
  BY <1>1 DEF In
<1>8. In(s, s.nextPool) = {}
  BY <1>3 DEF Good, Typed, ConnectionIn, In
<1>9. Cardinality({}) = 0
  BY FS_EmptySet
<1>10. Cardinality(DOMAIN t.pools) <= maxPools
  <2>1. Cardinality(DOMAIN s.pools \cup {s.nextPool}) = Cardinality(DOMAIN s.pools) + 1
    BY <1>3, Finite, FS_AddElement DEF Good
  <2>2. Cardinality(DOMAIN s.pools) \in Nat
    BY Finite DEF Good
  <2>3. CASE t.pools = s.pools
    BY <1>1, <2>2, <2>3, LimitsAssumption
  <2>4. CASE DOMAIN t.pools = DOMAIN s.pools \cup {s.nextPool}
    <3>1. Cardinality(DOMAIN t.pools) = Cardinality(DOMAIN s.pools) + 1
      BY <2>1, <2>4
    <3> QED
      BY <1>1, <2>2, <3>1, LimitsAssumption
  <2> QED
    BY <1>2, <2>3, <2>4
<1>11. Counted(t)
  <2>1. Counted(s)
    BY DEF Good
  <2>2. maxConnectionsPerPool \in Nat
    BY LimitsAssumption
  <2>3. CASE t.pools = s.pools
    BY <1>1, <1>7, <1>10, <2>1, <2>3 DEF Counted
  <2>4. CASE t.pools # s.pools
    <3>1. Cardinality(In(t, s.nextPool)) = 0
      BY <1>7, <1>8, <1>9
    <3>2. t.pools[s.nextPool].created = 0 /\ t.pools[s.nextPool].evictions = 0
      BY <1>2, <2>4
    <3>3. \A p \in DOMAIN s.pools : t.pools[p] = s.pools[p]
      BY <1>2, <1>3, <2>4
    <3> QED
      BY <1>1, <1>2, <1>7, <1>10, <2>1, <2>2, <2>4, <3>1, <3>2, <3>3 DEF Counted
  <2> QED
    BY <2>3, <2>4
<1> QED
  BY <1>4, <1>5, <1>6, <1>11 DEF Good

\* A connection is opened, on a new channel.
LEMMA OpensKeepsGood ==
  ASSUME NEW s, NEW t, NEW p, Good(s), Opens(s, t, p) PROVE Good(t)
<1> DEFINE n == s.nextConnection
           new == [pool |-> p, channel |-> s.nextChannel, status |-> "idle",
                   createdAt |-> s.now, lastUsedAt |-> s.now, closed |-> FALSE]
<1>1. /\ t.now = s.now /\ t.leases = s.leases /\ t.broken = s.broken
      /\ t.nextPool = s.nextPool /\ t.nextConnection = n + 1
      /\ t.nextLease = s.nextLease /\ t.nextChannel = s.nextChannel + 1
      /\ t.channels = s.channels \cup {s.nextChannel}
      /\ p \in DOMAIN s.pools /\ Cardinality(In(s, p)) < maxConnectionsPerPool /\ s.nextChannel <= MaxChannel
  BY DEF Opens
<1>2. n \in Nat \ {0} /\ n \notin DOMAIN s.connections /\ s.nextChannel \in Nat \ {0} /\ s.nextChannel \notin s.channels
  BY BoundsAssumption DEF Good, Typed
<1>3. /\ t.connections = [c \in DOMAIN s.connections \cup {n} |-> t.connections[c]]
      /\ DOMAIN t.connections = DOMAIN s.connections \cup {n}
      /\ t.connections[n] = new
      /\ \A c \in DOMAIN s.connections : t.connections[c] = s.connections[c]
  BY <1>2 DEF Opens, With
<1>a. /\ t.connections[n].pool = p /\ t.connections[n].channel = s.nextChannel
      /\ t.connections[n].status = "idle" /\ ~ t.connections[n].closed
  BY <1>3
<1>b. DOMAIN t.connections = DOMAIN s.connections \cup {n} /\ \A c \in DOMAIN s.connections : t.connections[c] = s.connections[c]
  BY <1>3
<1>c. Typed(s) /\ Leased(s) /\ Wired(s) /\ Counted(s)
  BY DEF Good
<1> HIDE DEF n, new
<1>4. /\ DOMAIN t.pools = DOMAIN s.pools
      /\ t.pools \in [DOMAIN s.pools -> Pool]
      /\ t.pools[p].created = s.pools[p].created + 1 /\ t.pools[p].evictions = s.pools[p].evictions
      /\ \A q \in DOMAIN s.pools : q # p => t.pools[q] = s.pools[q]
  BY DEF Opens, Good, Typed, Pool
<1>5. \A c \in DOMAIN s.connections : s.connections[c] \in ConnectionIn(s) /\ s.connections[c].channel # s.nextChannel
  BY <1>2 DEF Good, Typed, ConnectionIn
<1>6. Typed(t)
  <2>1. s.now \in 0 .. s.now
    BY BoundsAssumption DEF Good, Typed
  <2>2. new \in ConnectionIn(t)
    BY <1>1, <1>2, <1>4, <2>1 DEF ConnectionIn, new
  <2>3. \A c \in DOMAIN s.connections : s.connections[c] \in ConnectionIn(t)
    <3>1. ConnectionIn(s) \subseteq ConnectionIn(t)
      BY <1>1, <1>2, <1>4 DEF ConnectionIn
    <3> QED
      BY <1>5, <3>1
  <2>4. t.connections \in [DOMAIN t.connections -> ConnectionIn(t)]
    BY <1>3, <2>2, <2>3
  <2>5. DOMAIN t.connections \subseteq 1 .. t.nextConnection - 1
    BY <1>1, <1>2, <1>3 DEF Good, Typed, n
  <2> QED
    BY <1>1, <1>2, <1>4, <2>4, <2>5, BoundsAssumption DEF Good, Typed
<1>7. Leased(t)
  BY <1>1, <1>2, <1>a, <1>b, <1>c DEF Leased
<1>8. Wired(t)
  <2>1. OpenChannels(t, DOMAIN t.connections) \subseteq t.channels
    BY <1>1, <1>a, <1>b, <1>c DEF Wired, OpenChannels
  <2>2. \A c, d \in DOMAIN t.connections : t.connections[c].channel = t.connections[d].channel => c = d
    BY <1>a, <1>b, <1>c, <1>5 DEF Wired
  <2>3. ASSUME ~ t.broken
        PROVE  /\ \A c \in DOMAIN t.connections : ~ t.connections[c].closed
               /\ t.channels \ ClosesRefused \subseteq {t.connections[c].channel : c \in DOMAIN t.connections}
    <3>1. s.channels \ ClosesRefused \subseteq {s.connections[c].channel : c \in DOMAIN s.connections}
      BY <1>1, <1>c, <2>3 DEF Wired
    <3>2. \A c \in DOMAIN s.connections : ~ s.connections[c].closed
      BY <1>1, <1>c, <2>3 DEF Wired
    <3> QED
      BY <1>1, <1>a, <1>b, <3>1, <3>2
  <2> QED
    BY <2>1, <2>2, <2>3 DEF Wired
<1>9. In(t, p) = In(s, p) \cup {n} /\ \A q : q # p => In(t, q) = In(s, q)
  BY <1>2, <1>a, <1>b DEF In
<1>10. Cardinality(In(t, p)) = Cardinality(In(s, p)) + 1
  <2>1. n \notin In(s, p)
    BY <1>2 DEF In
  <2> QED
    BY <1>9, <2>1, Finite, FS_AddElement DEF Good
<1>11. Counted(t)
  <2>1. Cardinality(In(s, p)) \in Nat /\ maxConnectionsPerPool \in Nat
    BY Finite, LimitsAssumption DEF Good
  <2>2. s.pools[p].created \in Nat /\ s.pools[p].evictions \in Nat
    BY <1>1 DEF Good, Typed, Pool
  <2>3. /\ Cardinality(In(t, p)) <= maxConnectionsPerPool
        /\ t.pools[p].created = Cardinality(In(t, p)) + t.pools[p].evictions
    BY <1>1, <1>4, <1>10, <1>c, <2>1, <2>2 DEF Counted
  <2>4. \A q \in DOMAIN s.pools : q # p => /\ Cardinality(In(t, q)) <= maxConnectionsPerPool
                                           /\ t.pools[q].created = Cardinality(In(t, q)) + t.pools[q].evictions
    BY <1>4, <1>9, <1>c DEF Counted
  <2> QED
    BY <1>1, <1>4, <1>c, <2>3, <2>4 DEF Counted
<1> QED
  BY <1>6, <1>7, <1>8, <1>11 DEF Good

\* An idle connection is handed out on a new lease.
LEMMA HandsKeepsGood ==
  ASSUME NEW s, NEW t, NEW c, Good(s), Hands(s, t, c) PROVE Good(t)
<1> DEFINE k == s.nextLease
<1>1. /\ t.now = s.now /\ t.pools = s.pools /\ t.channels = s.channels /\ t.broken = s.broken
      /\ t.nextPool = s.nextPool /\ t.nextConnection = s.nextConnection
      /\ t.nextLease = k + 1 /\ t.nextChannel = s.nextChannel
      /\ c \in DOMAIN s.connections /\ s.connections[c].status = "idle"
      /\ Cardinality(DOMAIN s.leases) < maxLeases /\ k <= MaxLease
  BY DEF Hands
<1>2. k \in Nat \ {0} /\ k \notin DOMAIN s.leases
  BY BoundsAssumption DEF Good, Typed
<1>3. /\ t.leases = [l \in DOMAIN s.leases \cup {k} |-> t.leases[l]]
      /\ DOMAIN t.leases = DOMAIN s.leases \cup {k}
      /\ t.leases[k] = [poolId |-> s.connections[c].pool, connectionId |-> c]
      /\ \A l \in DOMAIN s.leases : t.leases[l] = s.leases[l]
  BY <1>2 DEF Hands, With
<1>a. t.leases[k].poolId = s.connections[c].pool /\ t.leases[k].connectionId = c
  BY <1>3
<1>b. DOMAIN t.leases = DOMAIN s.leases \cup {k} /\ \A l \in DOMAIN s.leases : t.leases[l] = s.leases[l]
  BY <1>3
<1>c. Typed(s) /\ Leased(s) /\ Wired(s) /\ Counted(s)
  BY DEF Good
<1> HIDE DEF k
<1>4. /\ DOMAIN t.connections = DOMAIN s.connections
      /\ t.connections \in [DOMAIN t.connections -> ConnectionIn(t)]
      /\ t.connections[c].status = "leased"
      /\ \A d \in DOMAIN s.connections : d # c => t.connections[d] = s.connections[d]
      /\ \A d \in DOMAIN s.connections : /\ t.connections[d].pool = s.connections[d].pool
                                         /\ t.connections[d].channel = s.connections[d].channel
                                         /\ t.connections[d].closed = s.connections[d].closed
  BY <1>1 DEF Hands, Good, Typed, ConnectionIn
<1>5. Typed(t)
  <2>1. s.connections[c].pool \in 1 .. MaxPool /\ c \in Nat
    BY <1>1, BoundsAssumption DEF Good, Typed, ConnectionIn
  <2>2. DOMAIN t.leases \subseteq 1 .. t.nextLease - 1
    BY <1>1, <1>2, <1>b, <1>c DEF Typed, k
  <2>3. t.leases[k] \in Lease
    BY <1>3, <2>1 DEF Lease
  <2>4. \A l \in DOMAIN s.leases : s.leases[l] \in Lease
    BY <1>c DEF Typed
  <2>5. t.leases \in [DOMAIN t.leases -> Lease]
    BY <1>3, <1>b, <2>3, <2>4
  <2> QED
    BY <1>1, <1>2, <1>4, <1>c, <2>2, <2>5, BoundsAssumption DEF Typed
<1>6. \A l \in DOMAIN s.leases : s.leases[l].connectionId # c
  BY <1>1 DEF Good, Leased
<1>7. Leased(t)
  <2>1. \A l \in DOMAIN s.leases : LET d == s.leases[l].connectionId
          IN d \in DOMAIN t.connections /\ t.connections[d].pool = s.leases[l].poolId /\ t.connections[d].status = "leased"
    BY <1>4, <1>6, <1>c DEF Leased
  <2>2. \A l, m \in DOMAIN t.leases : t.leases[l].connectionId = t.leases[m].connectionId => l = m
    BY <1>a, <1>b, <1>6, <1>c DEF Leased
  <2>3. ASSUME ~ t.broken, NEW d \in DOMAIN t.connections, t.connections[d].status = "leased"
        PROVE  \E l \in DOMAIN t.leases : t.leases[l].connectionId = d
    BY <1>1, <1>4, <1>a, <1>b, <1>c, <2>3 DEF Leased
  <2> QED
    BY <1>1, <1>4, <1>a, <1>b, <2>1, <2>2, <2>3 DEF Leased
<1>8. Wired(t)
  BY <1>1, <1>4 DEF Good, Wired, OpenChannels
<1>9. \A q : In(t, q) = In(s, q)
  BY <1>4 DEF In
<1>10. Cardinality(DOMAIN t.leases) = Cardinality(DOMAIN s.leases) + 1 /\ Cardinality(DOMAIN s.leases) \in Nat
  BY <1>2, <1>3, Finite, FS_AddElement DEF Good
<1>11. Counted(t)
  <2>1. Cardinality(DOMAIN t.leases) <= maxLeases
    BY <1>1, <1>10, LimitsAssumption
  <2> QED
    BY <1>1, <1>9, <2>1 DEF Good, Counted
<1> QED
  BY <1>5, <1>7, <1>8, <1>11 DEF Good

\* The connections S of pool p, none of them leased out, are closed and deleted.
Evicts(s, t, p, S) ==
  /\ p \in DOMAIN s.pools /\ S \subseteq In(s, p)
  /\ \A l \in DOMAIN s.leases : s.leases[l].connectionId \notin S
  /\ t.connections = Without(s.connections, S)
  /\ t.channels = s.channels \ ShutChannels(s, S)
  /\ t.pools = [s.pools EXCEPT ![p].evictions = @ + Cardinality(S)]
  /\ SameIds(s, t) /\ t.now = s.now /\ t.leases = s.leases /\ t.broken = s.broken

\* The connections S are used now.
Uses(s, t, S) ==
  /\ t.connections = [c \in DOMAIN s.connections |->
       IF c \in S THEN [s.connections[c] EXCEPT !.lastUsedAt = s.now] ELSE s.connections[c]]
  /\ SameIds(s, t) /\ t.now = s.now /\ t.leases = s.leases /\ t.broken = s.broken
  /\ t.pools = s.pools /\ t.channels = s.channels

\* Lease l ends and its connection is idle.
Returns(s, t, l) ==
  /\ l \in DOMAIN s.leases
  /\ t.leases = Without(s.leases, {l})
  /\ t.connections = [s.connections EXCEPT ![s.leases[l].connectionId].status = "idle"]
  /\ SameIds(s, t) /\ t.now = s.now /\ t.broken = s.broken /\ t.pools = s.pools /\ t.channels = s.channels

\* Idle connections are evicted and their channels closed.
LEMMA EvictsKeepsGood ==
  ASSUME NEW s, NEW t, NEW p, NEW S, Good(s), Evicts(s, t, p, S) PROVE Good(t)
<1>1. /\ SameIds(s, t) /\ t.now = s.now /\ t.leases = s.leases /\ t.broken = s.broken
      /\ p \in DOMAIN s.pools /\ S \subseteq In(s, p) /\ t.channels = s.channels \ ShutChannels(s, S)
      /\ \A l \in DOMAIN s.leases : s.leases[l].connectionId \notin S
  BY DEF Evicts
<1>2. Typed(s) /\ Leased(s) /\ Wired(s) /\ Counted(s)
  BY DEF Good
<1>3. /\ t.connections = [c \in DOMAIN s.connections \ S |-> t.connections[c]]
      /\ DOMAIN t.connections = DOMAIN s.connections \ S
      /\ \A c \in DOMAIN s.connections \ S : t.connections[c] = s.connections[c]
  BY DEF Evicts, Without
<1>4. DOMAIN t.connections = DOMAIN s.connections \ S /\ \A c \in DOMAIN t.connections : t.connections[c] = s.connections[c]
  BY <1>3
<1>5. S \subseteq DOMAIN s.connections /\ IsFiniteSet(S) /\ Cardinality(S) \in Nat
  <2>1. S \subseteq DOMAIN s.connections
    BY <1>1 DEF In
  <2> QED
    BY <1>2, <2>1, Finite, FS_Subset, FS_CardinalityType
<1>6. /\ DOMAIN t.pools = DOMAIN s.pools
      /\ t.pools \in [DOMAIN s.pools -> Pool]
      /\ t.pools[p].created = s.pools[p].created /\ t.pools[p].evictions = s.pools[p].evictions + Cardinality(S)
      /\ \A q \in DOMAIN s.pools : q # p => t.pools[q] = s.pools[q]
  BY <1>2, <1>5 DEF Evicts, Typed, Pool
<1>7. Typed(t)
  <2>1. ConnectionIn(t) = ConnectionIn(s)
    BY <1>1, <1>6 DEF ConnectionIn, SameIds
  <2>2. t.connections \in [DOMAIN t.connections -> ConnectionIn(t)]
    BY <1>2, <1>3, <2>1 DEF Typed
  <2> QED
    BY <1>1, <1>2, <1>4, <1>6, <2>2 DEF Typed, SameIds
<1>8. Leased(t)
  BY <1>1, <1>2, <1>4 DEF Leased
<1>9. Wired(t)
  <2>1. \A c \in DOMAIN t.connections : s.connections[c].channel \notin OpenChannels(s, S)
    BY <1>2, <1>4, <1>5 DEF Wired, OpenChannels
  <2>2. OpenChannels(t, DOMAIN t.connections) \subseteq t.channels
    BY <1>1, <1>2, <1>4, <2>1 DEF Wired, OpenChannels, ShutChannels
  <2>3. \A c, d \in DOMAIN t.connections : t.connections[c].channel = t.connections[d].channel => c = d
    BY <1>2, <1>4 DEF Wired
  <2>4. ASSUME ~ t.broken
        PROVE  /\ \A c \in DOMAIN t.connections : ~ t.connections[c].closed
               /\ t.channels \ ClosesRefused \subseteq {t.connections[c].channel : c \in DOMAIN t.connections}
    <3>1. s.channels \ ClosesRefused \subseteq {s.connections[c].channel : c \in DOMAIN s.connections}
      BY <1>1, <1>2, <2>4 DEF Wired
    <3>2. \A c \in DOMAIN s.connections : ~ s.connections[c].closed
      BY <1>1, <1>2, <2>4 DEF Wired
    <3>3. OpenChannels(s, S) = {s.connections[c].channel : c \in S}
      BY <1>5, <3>2 DEF OpenChannels
    <3> QED
      BY <1>1, <1>4, <3>1, <3>2, <3>3 DEF ShutChannels
  <2> QED
    BY <2>2, <2>3, <2>4 DEF Wired
<1>10. In(t, p) = In(s, p) \ S /\ \A q : q # p => In(t, q) = In(s, q)
  BY <1>1, <1>4 DEF In
<1>11. Cardinality(In(t, p)) = Cardinality(In(s, p)) - Cardinality(S) /\ Cardinality(In(t, p)) <= Cardinality(In(s, p))
  <2>1. IsFiniteSet(In(s, p)) /\ Cardinality(In(s, p)) \in Nat
    BY <1>2, Finite
  <2>2. In(s, p) \cap S = S
    BY <1>1
  <2>3. Cardinality(In(s, p) \ S) = Cardinality(In(s, p)) - Cardinality(In(s, p) \cap S)
    BY <2>1, FS_Difference
  <2> QED
    BY <1>5, <1>10, <2>1, <2>2, <2>3
<1>12. Counted(t)
  <2>1. /\ Cardinality(In(s, p)) \in Nat /\ maxConnectionsPerPool \in Nat
        /\ s.pools[p].created \in Nat /\ s.pools[p].evictions \in Nat
    BY <1>1, <1>2, Finite, LimitsAssumption DEF Typed, Pool
  <2>2. /\ Cardinality(In(t, p)) <= maxConnectionsPerPool
        /\ t.pools[p].created = Cardinality(In(t, p)) + t.pools[p].evictions
    BY <1>1, <1>2, <1>5, <1>6, <1>11, <2>1 DEF Counted
  <2>3. \A q \in DOMAIN s.pools : q # p => /\ Cardinality(In(t, q)) <= maxConnectionsPerPool
                                           /\ t.pools[q].created = Cardinality(In(t, q)) + t.pools[q].evictions
    BY <1>2, <1>6, <1>10 DEF Counted
  <2> QED
    BY <1>1, <1>2, <1>6, <2>2, <2>3 DEF Counted
<1> QED
  BY <1>7, <1>8, <1>9, <1>12 DEF Good

\* A change of the connections that leaves their pools, channels and marks.
LEMMA Unrelated ==
  ASSUME NEW s, NEW t, Typed(s), Wired(s), Counted(s),
         SameIds(s, t), t.now = s.now, t.broken = s.broken, t.channels = s.channels,
         t.pools = s.pools, Cardinality(DOMAIN t.leases) <= maxLeases,
         DOMAIN t.connections = DOMAIN s.connections,
         t.connections \in [DOMAIN t.connections -> ConnectionIn(s)],
         DOMAIN t.leases \subseteq 1 .. t.nextLease - 1, t.leases \in [DOMAIN t.leases -> Lease],
         \A c \in DOMAIN s.connections : /\ t.connections[c].pool = s.connections[c].pool
                                         /\ t.connections[c].channel = s.connections[c].channel
                                         /\ t.connections[c].closed = s.connections[c].closed
  PROVE Typed(t) /\ Wired(t) /\ Counted(t)
<1>1. ConnectionIn(t) = ConnectionIn(s)
  BY DEF ConnectionIn, SameIds
<1>2. Typed(t)
  BY <1>1 DEF Typed, SameIds
<1>3. Wired(t)
  BY DEF Wired, OpenChannels
<1>4. \A q : In(t, q) = In(s, q)
  BY DEF In
<1>5. Counted(t)
  BY <1>4 DEF Counted
<1> QED
  BY <1>2, <1>3, <1>5

\* A connection is marked as used.
LEMMA UsesKeepsGood ==
  ASSUME NEW s, NEW t, NEW S, Good(s), Uses(s, t, S) PROVE Good(t)
<1>1. Typed(s) /\ Leased(s) /\ Wired(s) /\ Counted(s)
  BY DEF Good
<1>2. s.now \in 0 .. s.now
  BY <1>1, BoundsAssumption DEF Typed
<1>3. /\ DOMAIN t.connections = DOMAIN s.connections
      /\ t.connections \in [DOMAIN t.connections -> ConnectionIn(s)]
      /\ \A c \in DOMAIN s.connections : /\ t.connections[c].pool = s.connections[c].pool
                                         /\ t.connections[c].channel = s.connections[c].channel
                                         /\ t.connections[c].closed = s.connections[c].closed
                                         /\ t.connections[c].status = s.connections[c].status
  BY <1>1, <1>2 DEF Uses, Typed, ConnectionIn
<1>4. /\ SameIds(s, t) /\ t.now = s.now /\ t.leases = s.leases /\ t.broken = s.broken
      /\ t.pools = s.pools /\ t.channels = s.channels
  BY DEF Uses
<1>5. Cardinality(DOMAIN t.leases) <= maxLeases
  BY <1>1, <1>4 DEF Counted
<1>6. DOMAIN t.leases \subseteq 1 .. t.nextLease - 1 /\ t.leases \in [DOMAIN t.leases -> Lease]
  BY <1>1, <1>4 DEF Typed, SameIds
<1>7. Typed(t) /\ Wired(t) /\ Counted(t)
  BY <1>1, <1>3, <1>4, <1>5, <1>6, Unrelated
<1>8. Leased(t)
  BY <1>1, <1>3, <1>4 DEF Leased
<1> QED
  BY <1>7, <1>8 DEF Good

\* A lease ends and its connection is idle again.
LEMMA ReturnsKeepsGood ==
  ASSUME NEW s, NEW t, NEW l, Good(s), Returns(s, t, l) PROVE Good(t)
<1> DEFINE x == s.leases[l].connectionId
<1>1. Typed(s) /\ Leased(s) /\ Wired(s) /\ Counted(s)
  BY DEF Good
<1>2. /\ SameIds(s, t) /\ t.now = s.now /\ t.broken = s.broken /\ t.pools = s.pools /\ t.channels = s.channels
      /\ l \in DOMAIN s.leases
  BY DEF Returns
<1>3. x \in DOMAIN s.connections
  BY <1>1, <1>2 DEF Leased
<1>4. /\ DOMAIN t.connections = DOMAIN s.connections
      /\ t.connections \in [DOMAIN t.connections -> ConnectionIn(s)]
      /\ \A c \in DOMAIN s.connections : /\ t.connections[c].pool = s.connections[c].pool
                                         /\ t.connections[c].channel = s.connections[c].channel
                                         /\ t.connections[c].closed = s.connections[c].closed
                                         /\ t.connections[c].status = IF c = x THEN "idle" ELSE s.connections[c].status
  BY <1>1, <1>3 DEF Returns, Typed, ConnectionIn
<1>5. /\ DOMAIN t.leases = DOMAIN s.leases \ {l} /\ t.leases \in [DOMAIN t.leases -> Lease]
      /\ \A m \in DOMAIN t.leases : t.leases[m] = s.leases[m]
  BY <1>1 DEF Returns, Without, Typed
<1>6. Cardinality(DOMAIN t.leases) <= maxLeases
  <2>1. Cardinality(DOMAIN s.leases \ {l}) = Cardinality(DOMAIN s.leases) - 1 /\ Cardinality(DOMAIN s.leases) \in Nat
    BY <1>1, <1>2, Finite, FS_RemoveElement
  <2> QED
    BY <1>1, <1>5, <2>1, LimitsAssumption DEF Counted
<1>7. DOMAIN t.leases \subseteq 1 .. t.nextLease - 1
  BY <1>1, <1>2, <1>5 DEF Typed, SameIds
<1>8. Typed(t) /\ Wired(t) /\ Counted(t)
  BY <1>1, <1>2, <1>4, <1>5, <1>6, <1>7, Unrelated
<1>9. Leased(t)
  <2>1. \A m \in DOMAIN t.leases : s.leases[m].connectionId # x
    BY <1>1, <1>2, <1>5 DEF Leased
  <2> HIDE DEF x
  <2>2. ASSUME ~ t.broken, NEW d \in DOMAIN t.connections, t.connections[d].status = "leased"
        PROVE  \E m \in DOMAIN t.leases : t.leases[m].connectionId = d
    <3>1. s.connections[d].status = "leased" /\ d # x
      BY <1>4, <2>2
    <3>2. PICK m \in DOMAIN s.leases : s.leases[m].connectionId = d
      BY <1>1, <1>2, <1>4, <2>2, <3>1 DEF Leased
    <3> QED
      BY <1>5, <3>1, <3>2 DEF x
  <2>3. \A m \in DOMAIN t.leases : LET d == t.leases[m].connectionId
          IN d \in DOMAIN t.connections /\ t.connections[d].pool = t.leases[m].poolId /\ t.connections[d].status = "leased"
    BY <1>1, <1>4, <1>5, <2>1 DEF Leased
  <2>4. \A m, k \in DOMAIN t.leases : t.leases[m].connectionId = t.leases[k].connectionId => m = k
    BY <1>1, <1>5 DEF Leased
  <2> QED
    BY <2>2, <2>3, <2>4 DEF Leased
<1> QED
  BY <1>8, <1>9 DEF Good

\* The pools P go, with their leases and connections.
InAny(s, P) == {c \in DOMAIN s.connections : s.connections[c].pool \in P}
LeasesIn(s, P) == {l \in DOMAIN s.leases : s.leases[l].poolId \in P}
Removes(s, t, P) ==
  /\ P \subseteq DOMAIN s.pools
  /\ t.pools = Without(s.pools, P)
  /\ t.leases = Without(s.leases, LeasesIn(s, P))
  /\ t.connections = Without(s.connections, InAny(s, P))
  /\ t.channels = s.channels \ ShutChannels(s, InAny(s, P))
  /\ SameIds(s, t) /\ t.now = s.now /\ t.broken = s.broken

\* A pool goes with its connections and their leases.
LEMMA RemovesKeepsGood ==
  ASSUME NEW s, NEW t, NEW P, Good(s), Removes(s, t, P) PROVE Good(t)
<1>1. Typed(s) /\ Leased(s) /\ Wired(s) /\ Counted(s)
  BY DEF Good
<1>2. SameIds(s, t) /\ t.now = s.now /\ t.broken = s.broken /\ t.channels = s.channels \ ShutChannels(s, InAny(s, P))
  BY DEF Removes
<1>3. /\ DOMAIN t.pools = DOMAIN s.pools \ P /\ t.pools \in [DOMAIN t.pools -> Pool]
      /\ \A p \in DOMAIN t.pools : t.pools[p] = s.pools[p]
  BY <1>1 DEF Removes, Without, Typed
<1>4. /\ DOMAIN t.leases = DOMAIN s.leases \ LeasesIn(s, P) /\ t.leases \in [DOMAIN t.leases -> Lease]
      /\ \A l \in DOMAIN t.leases : t.leases[l] = s.leases[l] /\ s.leases[l].poolId \notin P
  BY <1>1 DEF Removes, Without, Typed, LeasesIn
<1>5. /\ DOMAIN t.connections = DOMAIN s.connections \ InAny(s, P)
      /\ t.connections \in [DOMAIN t.connections -> ConnectionIn(s)]
      /\ \A c \in DOMAIN t.connections : t.connections[c] = s.connections[c]
  BY <1>1 DEF Removes, Without, Typed
<1>6. Typed(t)
  <2>1. \A c \in DOMAIN t.connections : t.connections[c] \in ConnectionIn(t)
    BY <1>2, <1>3, <1>5 DEF ConnectionIn, SameIds, InAny
  <2>2. t.connections \in [DOMAIN t.connections -> ConnectionIn(t)]
    BY <1>5, <2>1
  <2> QED
    BY <1>1, <1>2, <1>3, <1>4, <1>5, <2>2 DEF Typed, SameIds
<1>7. Leased(t)
  <2>1. ASSUME NEW l \in DOMAIN t.leases, NEW c, c = t.leases[l].connectionId
        PROVE  c \in DOMAIN t.connections /\ t.connections[c].pool = t.leases[l].poolId /\ t.connections[c].status = "leased"
    BY <1>1, <1>4, <1>5, <2>1 DEF Leased, InAny
  <2>2. \A l, m \in DOMAIN t.leases : t.leases[l].connectionId = t.leases[m].connectionId => l = m
    BY <1>1, <1>4 DEF Leased
  <2>3. ASSUME ~ t.broken, NEW d \in DOMAIN t.connections, t.connections[d].status = "leased"
        PROVE  \E l \in DOMAIN t.leases : t.leases[l].connectionId = d
    <3>1. d \in DOMAIN s.connections /\ s.connections[d].pool \notin P /\ s.connections[d].status = "leased"
      BY <1>5, <2>3 DEF InAny
    <3>2. PICK l \in DOMAIN s.leases : s.leases[l].connectionId = d
      BY <1>1, <1>2, <2>3, <3>1 DEF Leased
    <3>3. s.leases[l].poolId = s.connections[d].pool
      BY <1>1, <3>2 DEF Leased
    <3> QED
      BY <1>4, <3>1, <3>2, <3>3 DEF LeasesIn
  <2> QED
    BY <2>1, <2>2, <2>3 DEF Leased
<1>8. Wired(t)
  <2>1. \A c \in DOMAIN t.connections : s.connections[c].channel \notin OpenChannels(s, InAny(s, P))
    BY <1>1, <1>5 DEF Wired, OpenChannels, InAny
  <2>2. OpenChannels(t, DOMAIN t.connections) \subseteq t.channels
    BY <1>1, <1>2, <1>5, <2>1 DEF Wired, OpenChannels, ShutChannels
  <2>3. \A c, d \in DOMAIN t.connections : t.connections[c].channel = t.connections[d].channel => c = d
    BY <1>1, <1>5 DEF Wired
  <2>4. ASSUME ~ t.broken
        PROVE  /\ \A c \in DOMAIN t.connections : ~ t.connections[c].closed
               /\ t.channels \ ClosesRefused \subseteq {t.connections[c].channel : c \in DOMAIN t.connections}
    <3>1. s.channels \ ClosesRefused \subseteq {s.connections[c].channel : c \in DOMAIN s.connections}
      BY <1>1, <1>2, <2>4 DEF Wired
    <3>2. \A c \in DOMAIN s.connections : ~ s.connections[c].closed
      BY <1>1, <1>2, <2>4 DEF Wired
    <3>3. OpenChannels(s, InAny(s, P)) = {s.connections[c].channel : c \in InAny(s, P)}
      BY <3>2 DEF OpenChannels, InAny
    <3> QED
      BY <1>2, <1>5, <3>1, <3>2, <3>3 DEF ShutChannels
  <2> QED
    BY <2>2, <2>3, <2>4 DEF Wired
<1>9. \A q \in DOMAIN t.pools : In(t, q) = In(s, q)
  BY <1>3, <1>5 DEF In, InAny
<1>10. Cardinality(DOMAIN t.pools) <= maxPools /\ Cardinality(DOMAIN t.leases) <= maxLeases
  <2>1. Cardinality(DOMAIN t.pools) <= Cardinality(DOMAIN s.pools) /\ Cardinality(DOMAIN t.leases) <= Cardinality(DOMAIN s.leases)
    BY <1>1, <1>3, <1>4, Finite, FS_Subset
  <2>2. Cardinality(DOMAIN s.pools) \in Nat /\ Cardinality(DOMAIN s.leases) \in Nat
    BY <1>1, Finite
  <2>3. Cardinality(DOMAIN t.pools) \in Nat /\ Cardinality(DOMAIN t.leases) \in Nat
    BY <1>6, Finite
  <2> QED
    BY <1>1, <2>1, <2>2, <2>3, LimitsAssumption DEF Counted
<1>11. Counted(t)
  BY <1>1, <1>3, <1>9, <1>10 DEF Counted
<1> QED
  BY <1>6, <1>7, <1>8, <1>11 DEF Good

(* What an exception leaves behind, once it is recorded.                   *)

Breaks(s, t) ==
  /\ t.broken = TRUE
  /\ SameIds(s, t) /\ t.now = s.now /\ t.pools = s.pools /\ t.connections = s.connections
  /\ t.leases = s.leases /\ t.channels = s.channels

\* A lease ends and its connection stays leased.
LosesLease(s, t, l) ==
  /\ s.broken = TRUE /\ t.broken = TRUE
  /\ l \in DOMAIN s.leases /\ t.leases = Without(s.leases, {l})
  /\ SameIds(s, t) /\ t.now = s.now /\ t.pools = s.pools /\ t.connections = s.connections /\ t.channels = s.channels

\* A channel is open and no connection has it.
LosesChannel(s, t) ==
  /\ s.broken = TRUE /\ t.broken = TRUE /\ s.nextChannel <= MaxChannel
  /\ t.channels = s.channels \cup {s.nextChannel} /\ t.nextChannel = s.nextChannel + 1
  /\ t.nextPool = s.nextPool /\ t.nextConnection = s.nextConnection /\ t.nextLease = s.nextLease
  /\ t.now = s.now /\ t.pools = s.pools /\ t.connections = s.connections /\ t.leases = s.leases

\* The connections C are closed and stay in the Map; some pool may be draining.
Marks(s, t, C) ==
  /\ s.broken = TRUE /\ t.broken = TRUE
  /\ \/ t.pools = s.pools
     \/ \E p \in DOMAIN s.pools : t.pools = [s.pools EXCEPT ![p].status = "draining"]
  /\ t.connections = [c \in DOMAIN s.connections |->
       IF c \in C THEN [s.connections[c] EXCEPT !.closed = TRUE] ELSE s.connections[c]]
  /\ C \subseteq DOMAIN s.connections
  /\ t.channels = s.channels \ ShutChannels(s, C)
  /\ SameIds(s, t) /\ t.now = s.now /\ t.leases = s.leases

\* An exception has left its mark.
LEMMA BreaksKeepsGood ==
  ASSUME NEW s, NEW t, Good(s), Breaks(s, t) PROVE Good(t)
<1>1. Typed(s) /\ Leased(s) /\ Wired(s) /\ Counted(s)
  BY DEF Good
<1>2. Typed(t)
  <2>1. ConnectionIn(t) = ConnectionIn(s)
    BY DEF Breaks, ConnectionIn, SameIds
  <2> QED
    BY <1>1, <2>1 DEF Breaks, Typed, SameIds
<1>3. Leased(t) /\ Wired(t)
  BY <1>1 DEF Breaks, Leased, Wired, OpenChannels
<1>4. \A q : In(t, q) = In(s, q)
  BY DEF In, Breaks
<1>5. Counted(t)
  BY <1>1, <1>4 DEF Breaks, Counted
<1> QED
  BY <1>2, <1>3, <1>5 DEF Good

\* After it, a lease may go and its connection stay leased.
LEMMA LosesLeaseKeepsGood ==
  ASSUME NEW s, NEW t, NEW l, Good(s), LosesLease(s, t, l) PROVE Good(t)
<1>1. Typed(s) /\ Leased(s) /\ Wired(s) /\ Counted(s)
  BY DEF Good
<1>2. /\ SameIds(s, t) /\ t.now = s.now /\ t.broken = s.broken /\ t.pools = s.pools /\ t.channels = s.channels
      /\ l \in DOMAIN s.leases /\ t.connections = s.connections /\ t.broken = TRUE
  BY DEF LosesLease
<1>3. /\ DOMAIN t.leases = DOMAIN s.leases \ {l} /\ t.leases \in [DOMAIN t.leases -> Lease]
      /\ \A m \in DOMAIN t.leases : t.leases[m] = s.leases[m]
  BY <1>1 DEF LosesLease, Without, Typed
<1>4. Cardinality(DOMAIN t.leases) <= maxLeases
  <2>1. Cardinality(DOMAIN s.leases \ {l}) = Cardinality(DOMAIN s.leases) - 1 /\ Cardinality(DOMAIN s.leases) \in Nat
    BY <1>1, <1>2, Finite, FS_RemoveElement
  <2> QED
    BY <1>1, <1>3, <2>1, LimitsAssumption DEF Counted
<1>5. DOMAIN t.leases \subseteq 1 .. t.nextLease - 1
  BY <1>1, <1>2, <1>3 DEF Typed, SameIds
<1>6. t.connections \in [DOMAIN t.connections -> ConnectionIn(s)]
  BY <1>1, <1>2 DEF Typed
<1>7. Typed(t) /\ Wired(t) /\ Counted(t)
  BY <1>1, <1>2, <1>3, <1>4, <1>5, <1>6, Unrelated
<1>8. Leased(t)
  BY <1>1, <1>2, <1>3 DEF Leased
<1> QED
  BY <1>7, <1>8 DEF Good

\* After it, a channel may stay open that no connection has.
LEMMA LosesChannelKeepsGood ==
  ASSUME NEW s, NEW t, Good(s), LosesChannel(s, t) PROVE Good(t)
<1>1. Typed(s) /\ Leased(s) /\ Wired(s) /\ Counted(s)
  BY DEF Good
<1>2. /\ t.broken = TRUE /\ s.nextChannel <= MaxChannel
      /\ t.channels = s.channels \cup {s.nextChannel} /\ t.nextChannel = s.nextChannel + 1
      /\ t.nextPool = s.nextPool /\ t.nextConnection = s.nextConnection /\ t.nextLease = s.nextLease
      /\ t.now = s.now /\ t.pools = s.pools /\ t.connections = s.connections /\ t.leases = s.leases
  BY DEF LosesChannel
<1>3. Typed(t)
  <2>1. ConnectionIn(s) \subseteq ConnectionIn(t)
    BY <1>1, <1>2, BoundsAssumption DEF Typed, ConnectionIn
  <2>2. t.connections \in [DOMAIN t.connections -> ConnectionIn(t)]
    BY <1>1, <1>2, <2>1 DEF Typed
  <2>3. t.nextChannel \in 1 .. MaxChannel + 1 /\ t.channels \subseteq 1 .. t.nextChannel - 1
    BY <1>1, <1>2, BoundsAssumption DEF Typed
  <2> QED
    BY <1>1, <1>2, <2>2, <2>3 DEF Typed
<1>4. Leased(t) /\ Wired(t)
  BY <1>1, <1>2 DEF Leased, Wired, OpenChannels
<1>5. \A q : In(t, q) = In(s, q)
  BY <1>2 DEF In
<1>6. Counted(t)
  BY <1>1, <1>2, <1>5 DEF Counted
<1> QED
  BY <1>3, <1>4, <1>6 DEF Good

\* After it, connections may be marked whose channels are closed.
LEMMA MarksKeepsGood ==
  ASSUME NEW s, NEW t, NEW C, Good(s), Marks(s, t, C) PROVE Good(t)
<1>1. Typed(s) /\ Leased(s) /\ Wired(s) /\ Counted(s)
  BY DEF Good
<1>2. /\ SameIds(s, t) /\ t.now = s.now /\ t.broken = TRUE /\ t.leases = s.leases
      /\ C \subseteq DOMAIN s.connections /\ t.channels = s.channels \ ShutChannels(s, C)
  BY DEF Marks
<1>3. /\ DOMAIN t.pools = DOMAIN s.pools /\ t.pools \in [DOMAIN t.pools -> Pool]
      /\ \A p \in DOMAIN s.pools : t.pools[p].created = s.pools[p].created /\ t.pools[p].evictions = s.pools[p].evictions
  <2>1. CASE t.pools = s.pools
    BY <1>1, <2>1 DEF Typed
  <2>2. CASE \E p \in DOMAIN s.pools : t.pools = [s.pools EXCEPT ![p].status = "draining"]
    BY <1>1, <2>2 DEF Typed, Pool
  <2> QED
    BY <2>1, <2>2 DEF Marks
<1>4. /\ DOMAIN t.connections = DOMAIN s.connections
      /\ t.connections \in [DOMAIN t.connections -> ConnectionIn(s)]
      /\ \A c \in DOMAIN s.connections : /\ t.connections[c].pool = s.connections[c].pool
                                         /\ t.connections[c].channel = s.connections[c].channel
                                         /\ t.connections[c].status = s.connections[c].status
                                         /\ c \in C => t.connections[c].closed
                                         /\ c \notin C => t.connections[c] = s.connections[c]
  <2>1. /\ DOMAIN t.connections = DOMAIN s.connections
        /\ t.connections = [c \in DOMAIN s.connections |-> t.connections[c]]
        /\ \A c \in DOMAIN s.connections : t.connections[c] =
             IF c \in C THEN [s.connections[c] EXCEPT !.closed = TRUE] ELSE s.connections[c]
    BY DEF Marks
  <2>2. ASSUME NEW c \in DOMAIN s.connections
        PROVE  /\ t.connections[c] \in ConnectionIn(s)
               /\ t.connections[c].pool = s.connections[c].pool
               /\ t.connections[c].channel = s.connections[c].channel
               /\ t.connections[c].status = s.connections[c].status
               /\ c \in C => t.connections[c].closed
               /\ c \notin C => t.connections[c] = s.connections[c]
    <3>1. s.connections[c] \in ConnectionIn(s)
      BY <1>1 DEF Typed
    <3> QED
      BY <2>1, <3>1 DEF ConnectionIn
  <2> QED
    BY <2>1, <2>2
<1>5. Typed(t)
  <2>1. ConnectionIn(t) = ConnectionIn(s)
    BY <1>2, <1>3 DEF ConnectionIn, SameIds
  <2> QED
    BY <1>1, <1>2, <1>3, <1>4, <2>1 DEF Typed, SameIds
<1>6. Leased(t)
  BY <1>1, <1>2, <1>4 DEF Leased
<1>7. Wired(t)
  BY <1>1, <1>2, <1>4 DEF Wired, OpenChannels, ShutChannels
<1>8. \A q : In(t, q) = In(s, q)
  BY <1>4 DEF In
<1>9. Counted(t)
  BY <1>1, <1>2, <1>3, <1>8 DEF Counted
<1> QED
  BY <1>5, <1>6, <1>7, <1>9 DEF Good

-----------------------------------------------------------------------------
(* The operations, as those changes.                                       *)

\* The words of the model and those of the changes.
LEMMA Words ==
  /\ St.now = now /\ St.pools = pools /\ St.connections = connections /\ St.leases = leases
  /\ St.channels = channels /\ St.nextPool = nextPool /\ St.nextConnection = nextConnection
  /\ St.nextLease = nextLease /\ St.nextChannel = nextChannel /\ St.broken = broken
  /\ \A p : ConnectionsOf(p) = In(St, p)
  /\ \A S : ChannelsOf(Unclosed(S)) = OpenChannels(St, S)
  /\ \A S : Shut(S) = ShutChannels(St, S)
<1>1. /\ St.now = now /\ St.pools = pools /\ St.connections = connections /\ St.leases = leases
      /\ St.channels = channels /\ St.nextPool = nextPool /\ St.nextConnection = nextConnection
      /\ St.nextLease = nextLease /\ St.nextChannel = nextChannel /\ St.broken = broken
  BY DEF St
<1>2. \A p : ConnectionsOf(p) = In(St, p)
  BY <1>1 DEF ConnectionsOf, In
<1>3. ASSUME NEW S PROVE ChannelsOf(Unclosed(S)) = OpenChannels(St, S)
  BY <1>1 DEF ChannelsOf, Unclosed, OpenChannels
<1>4. \A S : Shut(S) = ShutChannels(St, S)
  BY <1>3 DEF Shut, ShutChannels
<1> QED
  BY <1>1, <1>2, <1>3, <1>4

\* The next state of the provider, variable by variable.
LEMMA NextWords ==
  /\ St'.now = now' /\ St'.pools = pools' /\ St'.connections = connections' /\ St'.leases = leases'
  /\ St'.channels = channels' /\ St'.nextPool = nextPool' /\ St'.nextConnection = nextConnection'
  /\ St'.nextLease = nextLease' /\ St'.nextChannel = nextChannel' /\ St'.broken = broken'
BY DEF St

\* The state in which the connections S of pool p were evicted.
Evicted(p, S, b) ==
  [now |-> now, pools |-> [pools EXCEPT ![p].evictions = @ + Cardinality(S)],
   connections |-> Without(connections, S), leases |-> leases, channels |-> channels \ ShutChannels(St, S),
   nextPool |-> nextPool, nextConnection |-> nextConnection, nextLease |-> nextLease,
   nextChannel |-> nextChannel, broken |-> b]

\* Idle connections of one pool can be evicted, whatever ends the operation.
LEMMA EvictedIsGood ==
  ASSUME GoodSt, NEW p \in DOMAIN pools, NEW S \in SUBSET IdleOf(p), NEW b \in {broken, TRUE}
  PROVE Good(Evicted(p, S, b))
<1>1. PICK s : s = Evicted(p, S, broken)
  OBVIOUS
<1>2. Evicts(St, s, p, S)
  <2>1. S \subseteq In(St, p) /\ \A c \in S : connections[c].status = "idle"
    BY Words DEF IdleOf, HasStatus
  <2>2. \A l \in DOMAIN leases : leases[l].connectionId \notin S
    BY <2>1, Words DEF GoodSt, Good, Leased
  <2>3. /\ s.now = now /\ s.pools = [pools EXCEPT ![p].evictions = @ + Cardinality(S)]
        /\ s.connections = Without(connections, S) /\ s.leases = leases /\ s.channels = channels \ ShutChannels(St, S)
        /\ s.nextPool = nextPool /\ s.nextConnection = nextConnection
        /\ s.nextLease = nextLease /\ s.nextChannel = nextChannel /\ s.broken = broken
    BY <1>1 DEF Evicted
  <2> QED
    BY <2>1, <2>2, <2>3, Words DEF Evicts, SameIds
<1>3. Good(s)
  BY <1>2, EvictsKeepsGood DEF GoodSt
<1>4. PICK t : t = Evicted(p, S, TRUE)
  OBVIOUS
<1>5. Breaks(s, t)
  <2>1. /\ s.now = now /\ s.pools = [pools EXCEPT ![p].evictions = @ + Cardinality(S)]
        /\ s.connections = Without(connections, S) /\ s.leases = leases /\ s.channels = channels \ ShutChannels(St, S)
        /\ s.nextPool = nextPool /\ s.nextConnection = nextConnection
        /\ s.nextLease = nextLease /\ s.nextChannel = nextChannel
    BY <1>1 DEF Evicted
  <2>2. /\ t.now = now /\ t.pools = [pools EXCEPT ![p].evictions = @ + Cardinality(S)]
        /\ t.connections = Without(connections, S) /\ t.leases = leases /\ t.channels = channels \ ShutChannels(St, S)
        /\ t.nextPool = nextPool /\ t.nextConnection = nextConnection
        /\ t.nextLease = nextLease /\ t.nextChannel = nextChannel /\ t.broken = TRUE
    BY <1>4 DEF Evicted
  <2> QED
    BY <2>1, <2>2 DEF Breaks, SameIds
<1>6. Good(t)
  BY <1>3, <1>5, BreaksKeepsGood
<1> QED
  BY <1>1, <1>3, <1>4, <1>6

\* Each operation is such changes: the clock.
LEMMA StepOfTick == ASSUME GoodSt, Tick, UNCHANGED broken PROVE GoodSt'
<1>1. Ticks(St, St')
  BY Words, NextWords DEF Tick, ids, Ticks, SameIds
<1> QED
  BY <1>1, TicksKeepsGood DEF GoodSt

\* A pool is opened with its first connection, without, or not at all.
LEMMA StepOfOpen ==
  ASSUME GoodSt, \/ (PoolOpens \/ PoolRefused \/ PoolTraps) /\ broken' = broken
                 \/ (PoolTraps \/ PoolLeaks) /\ broken' = TRUE
  PROVE GoodSt'
<1> DEFINE empty(b) ==
      [now |-> now, pools |-> NewPool(0), connections |-> connections, leases |-> leases, channels |-> channels,
       nextPool |-> nextPool + 1, nextConnection |-> nextConnection, nextLease |-> nextLease,
       nextChannel |-> nextChannel, broken |-> b]
<1>1. OpenPool
  BY DEF PoolOpens, PoolRefused, PoolTraps, PoolLeaks
<1>2. ASSUME NEW s, s = empty(broken) PROVE AddsPool(St, s) /\ Good(s)
  <2>1. AddsPool(St, s)
    BY <1>1, <1>2, Words DEF OpenPool, NewPool, AddsPool, TakesPoolId
  <2> QED
    BY <2>1, AddsPoolKeepsGood DEF GoodSt
<1>3. ASSUME NEW s, s = empty(TRUE) PROVE Good(s)
  <2>1. PICK u : u = empty(broken)
    OBVIOUS
  <2>2. Good(u)
    BY <1>2, <2>1
  <2>3. Breaks(u, s)
    BY <1>3, <2>1 DEF Breaks, SameIds
  <2> QED
    BY <2>2, <2>3, BreaksKeepsGood
<1>4. CASE PoolRefused /\ broken' = broken
  <2>1. SkipsPool(St, St')
    BY <1>1, <1>4, Words, NextWords DEF OpenPool, PoolRefused, SkipsPool, TakesPoolId
  <2> QED
    BY <2>1, AddsPoolKeepsGood DEF GoodSt
<1>5. CASE PoolTraps /\ broken' \in {broken, TRUE}
  <2>1. St' = empty(broken) \/ St' = empty(TRUE)
    BY <1>1, <1>5 DEF OpenPool, PoolTraps, St
  <2> QED
    BY <1>2, <1>3, <2>1 DEF GoodSt
<1>6. CASE PoolLeaks /\ broken' = TRUE
  <2>1. PICK s : s = empty(TRUE)
    OBVIOUS
  <2>2. LosesChannel(s, St')
    BY <1>1, <1>6, <2>1, NextWords DEF OpenPool, PoolLeaks, ChannelOpens, LosesChannel
  <2> QED
    BY <1>3, <2>1, <2>2, LosesChannelKeepsGood DEF GoodSt
<1>7. CASE PoolOpens /\ broken' = broken
  <2>1. PICK s : s = empty(broken)
    OBVIOUS
  <2>2. /\ s.now = now /\ s.pools = NewPool(0) /\ s.connections = connections /\ s.leases = leases /\ s.channels = channels
        /\ s.nextPool = nextPool + 1 /\ s.nextConnection = nextConnection /\ s.nextLease = nextLease
        /\ s.nextChannel = nextChannel /\ s.broken = broken
    BY <2>1
  <2>3. Cardinality(In(s, nextPool)) = 0
    <3>1. \A c \in DOMAIN connections : connections[c].pool # nextPool
      BY Words, BoundsAssumption DEF GoodSt, Good, Typed, ConnectionIn
    <3>2. In(s, nextPool) = {}
      BY <2>2, <3>1 DEF In
    <3> QED
      BY <3>2, FS_EmptySet
  <2>4. DOMAIN NewPool(0) = DOMAIN pools \cup {nextPool} /\ pools' = [NewPool(0) EXCEPT ![nextPool].created = @ + 1]
    <3>1. /\ NewPool(0) = [p \in DOMAIN pools \cup {nextPool} |-> NewPool(0)[p]]
          /\ NewPool(0)[nextPool] = [status |-> "open", evictions |-> 0, created |-> 0]
          /\ \A p \in DOMAIN pools : p # nextPool => NewPool(0)[p] = pools[p]
      BY DEF NewPool, With
    <3>2. pools' = [p \in DOMAIN pools \cup {nextPool} |->
                     IF p = nextPool THEN [status |-> "open", evictions |-> 0, created |-> 1] ELSE pools[p]]
      BY <1>7 DEF PoolOpens, NewPool, With
    <3>3. [NewPool(0)[nextPool] EXCEPT !.created = @ + 1] = [status |-> "open", evictions |-> 0, created |-> 1]
      BY <3>1
    <3>4. [NewPool(0) EXCEPT ![nextPool].created = @ + 1] =
            [p \in DOMAIN pools \cup {nextPool} |->
               IF p = nextPool THEN [NewPool(0)[nextPool] EXCEPT !.created = @ + 1] ELSE NewPool(0)[p]]
      BY <3>1
    <3> QED
      BY <3>1, <3>2, <3>3, <3>4
  <2>5. Opens(s, St', nextPool)
    BY <1>1, <1>7, <2>2, <2>3, <2>4, NextWords, LimitsAssumption
       DEF OpenPool, PoolOpens, ChannelOpens, Connection, Opens
  <2> QED
    BY <1>2, <2>1, <2>5, OpensKeepsGood DEF GoodSt
<1> QED
  BY <1>4, <1>5, <1>6, <1>7

\* Only idle connections expire.
LEMMA ExpiredAreIdle == \A p : Expired(p) \in SUBSET IdleOf(p) /\ Reaped(p) \in SUBSET IdleOf(p)
BY DEF Expired, Reaped

\* The loop of reap, stopped by an exception.
LEMMA StepOfReapTraps ==
  ASSUME GoodSt, NEW p \in DOMAIN pools, ReapTraps(p), broken' = TRUE PROVE GoodSt'
<1>1. PICK c \in Expired(p) :
        /\ Evicting(p, Before(c, Expired(p)))
        /\ connections' = Without(connections, Before(c, Expired(p)))
  BY DEF ReapTraps
<1>2. PICK S : S = Before(c, Expired(p))
  OBVIOUS
<1>3. S \in SUBSET IdleOf(p)
  BY <1>2, ExpiredAreIdle DEF Before
<1>4. St' = Evicted(p, S, TRUE)
  BY <1>1, <1>2, Words DEF ReapTraps, Evicting, ids, St, Evicted
<1> QED
  BY <1>3, <1>4, EvictedIsGood DEF GoodSt

\* What an acquire does after it has reaped the pool.
LEMMA StepOfAcquire ==
  ASSUME GoodSt, NEW p \in DOMAIN pools,
         \/ (AcquireReuses(p) \/ AcquireOpens(p) \/ AcquireFails(p)) /\ broken' = broken
         \/ (AcquireLeaks(p) \/ AcquireTraps(p)) /\ broken' = TRUE
  PROVE GoodSt'
<1>1. PICK S : S = Reaped(p)
  OBVIOUS
<1>2. S \in SUBSET IdleOf(p)
  BY <1>1, ExpiredAreIdle
<1>3. ASSUME NEW b \in {broken, TRUE}, NEW s, s = Evicted(p, S, b)
      PROVE  /\ Good(s)
             /\ s.now = now /\ s.pools = [pools EXCEPT ![p].evictions = @ + Cardinality(S)]
             /\ s.connections = Without(connections, S) /\ s.leases = leases
             /\ s.channels = channels \ Shut(S)
             /\ s.nextPool = nextPool /\ s.nextConnection = nextConnection
             /\ s.nextLease = nextLease /\ s.nextChannel = nextChannel /\ s.broken = b
             /\ In(s, p) = ConnectionsOf(p) \ S
  <2>1. /\ s.now = now /\ s.pools = [pools EXCEPT ![p].evictions = @ + Cardinality(S)]
        /\ s.connections = Without(connections, S) /\ s.leases = leases
        /\ s.channels = channels \ ShutChannels(St, S)
        /\ s.nextPool = nextPool /\ s.nextConnection = nextConnection
        /\ s.nextLease = nextLease /\ s.nextChannel = nextChannel /\ s.broken = b
    BY <1>3 DEF Evicted
  <2>2. Good(s)
    BY <1>2, <1>3, EvictedIsGood
  <2>3. In(s, p) = ConnectionsOf(p) \ S
    BY <2>1 DEF In, ConnectionsOf, Without
  <2> QED
    BY <2>1, <2>2, <2>3, Words
<1>4. PICK s : s = Evicted(p, S, broken)
  OBVIOUS
<1>5. /\ Good(s)
      /\ s.now = now /\ s.pools = [pools EXCEPT ![p].evictions = @ + Cardinality(S)]
      /\ s.connections = Without(connections, S) /\ s.leases = leases
      /\ s.channels = channels \ Shut(S)
      /\ s.nextPool = nextPool /\ s.nextConnection = nextConnection
      /\ s.nextLease = nextLease /\ s.nextChannel = nextChannel /\ s.broken = broken
      /\ In(s, p) = ConnectionsOf(p) \ S
  BY <1>3, <1>4
<1>6. CASE AcquireReuses(p) /\ broken' = broken
  <2>1. PICK c \in StaysIdle(p) :
          /\ LeaseTo(p, c)
          /\ connections' = [Without(connections, S) EXCEPT ![c].status = "leased"]
    BY <1>1, <1>6 DEF AcquireReuses
  <2>2. c \in DOMAIN connections /\ c \notin S /\ connections[c].pool = p /\ connections[c].status = "idle"
    BY <1>1, <2>1 DEF StaysIdle, IdleOf, ConnectionsOf, HasStatus
  <2>3. c \in DOMAIN s.connections /\ s.connections[c].pool = p /\ s.connections[c].status = "idle"
    BY <1>5, <2>2 DEF Without
  <2>4. /\ now' = now /\ pools' = s.pools /\ channels' = s.channels /\ nextPool' = nextPool
        /\ nextConnection' = nextConnection /\ nextChannel' = nextChannel
    BY <1>1, <1>5, <1>6 DEF AcquireReuses, Acquire, Evicting
  <2>5. Hands(s, St', c)
    BY <1>5, <1>6, <2>1, <2>3, <2>4, NextWords DEF LeaseTo, Hands
  <2> QED
    BY <1>5, <2>5, HandsKeepsGood DEF GoodSt
<1>7. CASE AcquireOpens(p) /\ broken' = broken
  <2> DEFINE n == nextConnection
             opened == [now |-> now, pools |-> pools', leases |-> leases, channels |-> channels',
                        connections |-> With(s.connections, n, Connection(p, "idle")),
                        nextPool |-> nextPool, nextConnection |-> n + 1, nextLease |-> nextLease,
                        nextChannel |-> nextChannel + 1, broken |-> broken]
  <2>1. PICK u : u = opened
    OBVIOUS
  <2>2. /\ u.now = now /\ u.pools = pools' /\ u.leases = leases /\ u.channels = channels'
        /\ u.connections = With(s.connections, n, Connection(p, "idle"))
        /\ u.nextPool = nextPool /\ u.nextConnection = n + 1 /\ u.nextLease = nextLease
        /\ u.nextChannel = nextChannel + 1 /\ u.broken = broken
    BY <2>1
  <2> HIDE DEF opened
  <2>3. p \in DOMAIN s.pools /\ Cardinality(In(s, p)) < maxConnectionsPerPool /\ nextChannel <= MaxChannel
    BY <1>1, <1>5, <1>7 DEF AcquireOpens, MayOpen, RoomIn
  <2>4. channels' = s.channels \cup {nextChannel}
    BY <1>1, <1>5, <1>7 DEF AcquireOpens
  <2>5. pools' = [s.pools EXCEPT ![p].created = @ + 1]
    <3>1. pools[p] \in Pool
      BY Words DEF GoodSt, Good, Typed
    <3>2. pools' = [pools EXCEPT ![p].evictions = @ + Cardinality(S), ![p].created = @ + 1]
      BY <1>1, <1>7 DEF AcquireOpens
    <3> QED
      BY <1>5, <3>1, <3>2 DEF Pool
  <2>6. Opens(s, u, p)
    BY <1>5, <2>2, <2>3, <2>4, <2>5 DEF Opens, Connection
  <2>7. Good(u)
    BY <1>5, <2>6, OpensKeepsGood
  <2>8. /\ now' = now /\ nextPool' = nextPool /\ nextConnection' = n + 1 /\ nextChannel' = nextChannel + 1
        /\ LeaseTo(p, n) /\ connections' = With(s.connections, n, Connection(p, "leased"))
    BY <1>1, <1>5, <1>7 DEF AcquireOpens, Acquire, ChannelOpens
  <2>9. n \in DOMAIN u.connections /\ u.connections[n] = Connection(p, "idle")
    BY <2>2 DEF With
  <2>10. connections' = [u.connections EXCEPT ![n].status = "leased"]
    <3>1. [Connection(p, "idle") EXCEPT !.status = "leased"] = Connection(p, "leased")
      <4>1. ASSUME NEW no
            PROVE  LET made(status) == [pool |-> p, channel |-> nextChannel, status |-> status,
                                        createdAt |-> now, lastUsedAt |-> now, closed |-> no]
                   IN  [made("idle") EXCEPT !.status = "leased"] = made("leased")
        BY ONLY TRUE
      <4> QED
        BY ONLY <4>1, Zenon DEF Connection
    <3>2. u.connections = [c \in DOMAIN s.connections \cup {n} |-> u.connections[c]]
      BY <2>2 DEF With
    <3>3. \A c \in DOMAIN s.connections : c # n => u.connections[c] = s.connections[c]
      BY <2>2 DEF With
    <3> QED
      BY <2>8, <2>9, <3>1, <3>2, <3>3 DEF With
  <2>11. u.connections[n].pool = p /\ u.connections[n].status = "idle"
    BY <2>9 DEF Connection
  <2>12. Hands(u, St', n)
    BY <1>7, <2>2, <2>8, <2>9, <2>10, <2>11, NextWords DEF LeaseTo, Hands
  <2> QED
    BY <2>7, <2>12, HandsKeepsGood DEF GoodSt
<1>8. CASE AcquireFails(p) /\ broken' = broken
  <2>1. St' = Evicted(p, S, broken)
    BY <1>1, <1>8, Words DEF AcquireFails, Acquire, Evicting, St, Evicted
  <2> QED
    BY <1>3, <2>1 DEF GoodSt
<1>9. CASE AcquireLeaks(p) /\ broken' = TRUE
  <2>1. PICK u : u = Evicted(p, S, TRUE)
    OBVIOUS
  <2>2. LosesChannel(u, St')
    BY <1>1, <1>3, <1>9, <2>1, NextWords DEF AcquireLeaks, Acquire, ChannelOpens, LosesChannel
  <2> QED
    BY <1>3, <2>1, <2>2, LosesChannelKeepsGood DEF GoodSt
<1>10. CASE AcquireTraps(p) /\ broken' = TRUE
  BY <1>10, StepOfReapTraps DEF AcquireTraps
<1> QED
  BY <1>6, <1>7, <1>8, <1>9, <1>10

\* Some connections are evicted, and those probed are used.
LEMMA StepOfProbes ==
  ASSUME GoodSt, NEW p \in DOMAIN pools, NEW probed, NEW bad \in SUBSET IdleOf(p), Probed(p, probed, bad),
         broken' \in {broken, TRUE}
  PROVE GoodSt'
<1>1. PICK S : S = Expired(p) \cup bad
  OBVIOUS
<1>2. S \in SUBSET IdleOf(p)
  BY <1>1, ExpiredAreIdle
<1>3. PICK b : b = broken'
  OBVIOUS
<1>4. PICK s : s = Evicted(p, S, b)
  OBVIOUS
<1>5. Good(s)
  BY <1>2, <1>3, <1>4, EvictedIsGood
<1>6. /\ s.now = now /\ s.pools = [pools EXCEPT ![p].evictions = @ + Cardinality(S)]
      /\ s.connections = Without(connections, S) /\ s.leases = leases
      /\ s.channels = channels \ ShutChannels(St, S)
      /\ s.nextPool = nextPool /\ s.nextConnection = nextConnection
      /\ s.nextLease = nextLease /\ s.nextChannel = nextChannel /\ s.broken = b
  BY <1>4 DEF Evicted
<1>7. connections' = [c \in DOMAIN s.connections |->
        IF c \in probed THEN [s.connections[c] EXCEPT !.lastUsedAt = s.now] ELSE s.connections[c]]
  <2>1. DOMAIN s.connections = DOMAIN connections \ S /\ \A c \in DOMAIN connections \ S : s.connections[c] = connections[c]
    BY <1>6 DEF Without
  <2>2. connections' = [c \in DOMAIN connections \ S |->
          IF c \in probed THEN [connections[c] EXCEPT !.lastUsedAt = now] ELSE connections[c]]
    BY <1>1 DEF Probed
  <2> QED
    BY <1>6, <2>1, <2>2
<1>8. /\ pools' = s.pools /\ channels' = s.channels
      /\ now' = now /\ leases' = leases /\ nextPool' = nextPool /\ nextConnection' = nextConnection
      /\ nextLease' = nextLease /\ nextChannel' = nextChannel
  BY <1>1, <1>6, Words DEF Probed, Evicting, ids
<1>9. Uses(s, St', probed)
  BY <1>3, <1>6, <1>7, <1>8, NextWords DEF Uses, SameIds
<1> QED
  BY <1>5, <1>9, UsesKeepsGood DEF GoodSt

\* A health check evicts and probes.
LEMMA StepOfHealth ==
  ASSUME GoodSt, NEW p \in DOMAIN pools,
         \/ (Health(p) \/ HealthTraps(p)) /\ broken' = broken
         \/ HealthBreaks(p) /\ broken' = TRUE
  PROVE GoodSt'
<1>1. ASSUME NEW c, HealthStopsAt(p, c), broken' \in {broken, TRUE} PROVE GoodSt'
  <2>1. PICK bad \in SUBSET Before(c, IdleOf(p) \ Expired(p)) : Probed(p, Before(c, IdleOf(p) \ Expired(p)), bad)
    BY <1>1, Zenon DEF HealthStopsAt
  <2>2. bad \in SUBSET IdleOf(p)
    BY DEF Before
  <2> QED
    BY <1>1, <2>1, <2>2, StepOfProbes
<1>2. CASE Health(p) /\ broken' = broken
  BY <1>2, StepOfProbes DEF Health
<1>3. CASE HealthTraps(p) /\ broken' = broken
  BY <1>1, <1>3 DEF HealthTraps
<1>4. CASE HealthBreaks(p) /\ broken' = TRUE
  BY <1>1, <1>4, StepOfReapTraps DEF HealthBreaks
<1> QED
  BY <1>2, <1>3, <1>4

\* A lease ends; its connection is idle again, or goes, or stays as it was.
LEMMA StepOfRelease ==
  ASSUME GoodSt, NEW l \in DOMAIN leases,
         \/ (ReleaseResets(l) \/ ReleaseEvicts(l)) /\ broken' = broken
         \/ ReleaseTraps(l) /\ broken' = TRUE
  PROVE GoodSt'
<1> DEFINE returned ==
      [now |-> now, pools |-> pools, leases |-> Without(leases, {l}), channels |-> channels,
       connections |-> [connections EXCEPT ![leases[l].connectionId].status = "idle"],
       nextPool |-> nextPool, nextConnection |-> nextConnection, nextLease |-> nextLease,
       nextChannel |-> nextChannel, broken |-> broken]
<1>1. PICK x : x = leases[l].connectionId
  OBVIOUS
<1>2. PICK s : s = returned
  OBVIOUS
<1>3. /\ s.now = now /\ s.pools = pools /\ s.leases = Without(leases, {l}) /\ s.channels = channels
      /\ s.connections = [connections EXCEPT ![x].status = "idle"]
      /\ s.nextPool = nextPool /\ s.nextConnection = nextConnection /\ s.nextLease = nextLease
      /\ s.nextChannel = nextChannel /\ s.broken = broken
  BY <1>1, <1>2
<1> HIDE DEF returned
<1>4. Returns(St, s, l)
  BY <1>1, <1>3, Words DEF Returns, SameIds
<1>5. Good(s)
  BY <1>4, ReturnsKeepsGood DEF GoodSt
<1>6. Release(l)
  BY DEF ReleaseResets, ReleaseEvicts, ReleaseTraps
<1>7. /\ now' = now /\ leases' = Without(leases, {l}) /\ nextPool' = nextPool /\ nextConnection' = nextConnection
      /\ nextLease' = nextLease /\ nextChannel' = nextChannel
  BY <1>6 DEF Release, ids
<1>8. /\ x \in DOMAIN connections /\ connections[x] \in ConnectionIn(St)
      /\ leases[l].poolId \in DOMAIN pools /\ x \in ConnectionsOf(leases[l].poolId)
      /\ connections[x].pool = leases[l].poolId
      /\ \A m \in DOMAIN leases : m # l => leases[m].connectionId # x
  <2>1. leases[l].poolId \in DOMAIN pools /\ x \in ConnectionsOf(leases[l].poolId)
    BY <1>1, <1>6 DEF Release, LeasedOf
  <2>2. x \in DOMAIN connections /\ connections[x].pool = leases[l].poolId
    BY <2>1 DEF ConnectionsOf
  <2>3. connections[x] \in ConnectionIn(St)
    BY <2>2, Words DEF GoodSt, Good, Typed
  <2>4. \A m \in DOMAIN leases : m # l => leases[m].connectionId # x
    BY <1>1, Words DEF GoodSt, Good, Leased
  <2> QED
    BY <2>1, <2>2, <2>3, <2>4
<1>9. /\ DOMAIN s.connections = DOMAIN connections
      /\ s.connections = [c \in DOMAIN connections |-> s.connections[c]]
      /\ s.connections[x] = [connections[x] EXCEPT !.status = "idle"]
      /\ \A c \in DOMAIN connections : c # x => s.connections[c] = connections[c]
  BY <1>3, <1>8
<1>10. s.connections[x].pool = leases[l].poolId /\ s.connections[x].channel = connections[x].channel
       /\ s.connections[x].closed = connections[x].closed
  BY <1>8, <1>9 DEF ConnectionIn
<1>11. CASE ReleaseResets(l) /\ broken' = broken
  <2>1. pools' = pools /\ channels' = channels
    BY <1>11 DEF ReleaseResets
  <2>2. connections' = [connections EXCEPT ![x].status = "idle", ![x].lastUsedAt = now]
    BY <1>1, <1>11 DEF ReleaseResets
  <2>3. connections' = [c \in DOMAIN s.connections |->
          IF c \in {x} THEN [s.connections[c] EXCEPT !.lastUsedAt = now] ELSE s.connections[c]]
    <3>1. connections' = [c \in DOMAIN connections |->
            IF c = x THEN [[connections[x] EXCEPT !.status = "idle"] EXCEPT !.lastUsedAt = now] ELSE connections[c]]
      BY <1>8, <2>2 DEF ConnectionIn
    <3> QED
      BY <1>9, <3>1
  <2>4. Uses(s, St', {x})
    BY <1>3, <1>7, <1>11, <2>1, <2>3, NextWords DEF Uses, SameIds
  <2> QED
    BY <1>5, <2>4, UsesKeepsGood DEF GoodSt
<1>12. CASE ReleaseEvicts(l) /\ broken' = broken
  <2>1. PICK p : p = leases[l].poolId
    OBVIOUS
  <2>2. /\ pools' = [pools EXCEPT ![p].evictions = @ + Cardinality({x})]
        /\ channels' = channels \ Shut({x})
        /\ connections' = Without(connections, {x})
    BY <1>1, <1>12, <2>1 DEF ReleaseEvicts, Evicting
  <2>3. connections' = Without(s.connections, {x})
    <3>1. connections' = [c \in DOMAIN connections \ {x} |-> connections[c]]
      BY <2>2 DEF Without
    <3>2. connections' = [c \in DOMAIN s.connections \ {x} |-> s.connections[c]]
      BY <1>9, <3>1
    <3> QED
      BY <3>2 DEF Without
  <2>4. Shut({x}) = ShutChannels(s, {x})
    BY <1>10 DEF Shut, ShutChannels, ChannelsOf, Unclosed, OpenChannels
  <2>5. x \in In(s, p)
    BY <1>8, <1>9, <1>10, <2>1 DEF In
  <2>6. \A m \in DOMAIN s.leases : s.leases[m].connectionId \notin {x}
    BY <1>3, <1>8 DEF Without
  <2>7. Evicts(s, St', p, {x})
    BY <1>3, <1>7, <1>8, <1>12, <2>1, <2>2, <2>3, <2>4, <2>5, <2>6, NextWords DEF Evicts, SameIds
  <2> QED
    BY <1>5, <2>7, EvictsKeepsGood DEF GoodSt
<1>13. CASE ReleaseTraps(l) /\ broken' = TRUE
  <2> DEFINE marked ==
        [now |-> now, pools |-> pools, leases |-> leases, channels |-> channels, connections |-> connections,
         nextPool |-> nextPool, nextConnection |-> nextConnection, nextLease |-> nextLease,
         nextChannel |-> nextChannel, broken |-> TRUE]
  <2>1. PICK u : u = marked
    OBVIOUS
  <2>2. /\ u.now = now /\ u.pools = pools /\ u.leases = leases /\ u.channels = channels
        /\ u.connections = connections
        /\ u.nextPool = nextPool /\ u.nextConnection = nextConnection /\ u.nextLease = nextLease
        /\ u.nextChannel = nextChannel /\ u.broken = TRUE
    BY <2>1
  <2> HIDE DEF marked
  <2>3. Breaks(St, u)
    BY <2>2, Words DEF Breaks, SameIds
  <2>4. Good(u)
    BY <2>3, BreaksKeepsGood DEF GoodSt
  <2>5. pools' = pools /\ connections' = connections /\ channels' = channels
    BY <1>13 DEF ReleaseTraps
  <2>6. LosesLease(u, St', l)
    BY <1>7, <1>13, <2>2, <2>5, NextWords DEF LosesLease, SameIds
  <2> QED
    BY <2>4, <2>6, LosesLeaseKeepsGood DEF GoodSt
<1> QED
  BY <1>11, <1>12, <1>13

\* Some pools go with all they have.
LEMMA StepOfRemoving ==
  ASSUME GoodSt, NEW P \in SUBSET DOMAIN pools, NEW L, Removing(P, L), L = LeasesIn(St, P), broken' = broken
  PROVE GoodSt'
<1>1. UNION {ConnectionsOf(p) : p \in P} = InAny(St, P)
  BY Words DEF ConnectionsOf, InAny
<1>2. Removes(St, St', P)
  BY <1>1, Words, NextWords DEF Removing, ids, Removes, SameIds
<1> QED
  BY <1>2, RemovesKeepsGood DEF GoodSt

\* Some connections are closed and stay where they were.
LEMMA StepOfThrow ==
  ASSUME GoodSt, NEW C \in SUBSET DOMAIN connections, CloseThrowsAfter(C),
         \/ pools' = pools
         \/ \E p \in DOMAIN pools : pools' = [pools EXCEPT ![p].status = "draining"],
         broken' = TRUE
  PROVE GoodSt'
<1> DEFINE marked ==
      [now |-> now, pools |-> pools, leases |-> leases, channels |-> channels, connections |-> connections,
       nextPool |-> nextPool, nextConnection |-> nextConnection, nextLease |-> nextLease,
       nextChannel |-> nextChannel, broken |-> TRUE]
<1>1. PICK u : u = marked
  OBVIOUS
<1>2. /\ u.now = now /\ u.pools = pools /\ u.leases = leases /\ u.channels = channels
      /\ u.connections = connections
      /\ u.nextPool = nextPool /\ u.nextConnection = nextConnection /\ u.nextLease = nextLease
      /\ u.nextChannel = nextChannel /\ u.broken = TRUE
  BY <1>1
<1> HIDE DEF marked
<1>3. Breaks(St, u)
  BY <1>2, Words DEF Breaks, SameIds
<1>4. Good(u)
  BY <1>3, BreaksKeepsGood DEF GoodSt
<1>5. ShutChannels(u, C) = Shut(C)
  BY <1>2 DEF Shut, ShutChannels, OpenChannels, ChannelsOf, Unclosed
<1>6. /\ channels' = channels \ Shut(C)
      /\ connections' = [c \in DOMAIN connections |->
           IF c \in C THEN [connections[c] EXCEPT !.closed = TRUE] ELSE connections[c]]
      /\ now' = now /\ leases' = leases /\ nextPool' = nextPool /\ nextConnection' = nextConnection
      /\ nextLease' = nextLease /\ nextChannel' = nextChannel
  BY DEF CloseThrowsAfter, Marked, ids
<1>7. Marks(u, St', C)
  BY <1>2, <1>5, <1>6, NextWords DEF Marks, SameIds
<1> QED
  BY <1>4, <1>7, MarksKeepsGood DEF GoodSt

\* A close removes the pool.
LEMMA StepOfClose ==
  ASSUME GoodSt, \/ CloseAll /\ broken' = broken
                 \/ CloseAllTraps /\ broken' = TRUE
                 \/ \E p \in DOMAIN pools : (Drain(p) \/ Close(p)) /\ broken' = broken
                 \/ \E p \in DOMAIN pools : (DrainTraps(p) \/ CloseTraps(p)) /\ broken' = TRUE
  PROVE GoodSt'
<1>1. CASE CloseAll /\ broken' = broken
  <2>1. LeasesIn(St, DOMAIN pools) = DOMAIN leases
    <3>1. ASSUME NEW l \in DOMAIN leases PROVE leases[l].poolId \in DOMAIN pools
      <4>1. PICK c \in DOMAIN connections : connections[c].pool = leases[l].poolId
        BY Words DEF GoodSt, Good, Leased
      <4>2. connections[c].pool \in DOMAIN pools
        BY Words DEF GoodSt, Good, Typed, ConnectionIn
      <4> QED
        BY <4>1, <4>2
    <3> QED
      BY <3>1, Words DEF LeasesIn
  <2> QED
    BY <1>1, <2>1, StepOfRemoving DEF CloseAll
<1>2. ASSUME NEW p \in DOMAIN pools, Drain(p), broken' = broken PROVE GoodSt'
  <2>1. LeasesIn(St, {p}) = DrainedLeases(p)
    BY Words DEF LeasesIn, DrainedLeases, LeasesOf
  <2> QED
    BY <1>2, <2>1, StepOfRemoving DEF Drain
<1>3. ASSUME NEW p \in DOMAIN pools, Close(p), broken' = broken PROVE GoodSt'
  <2>1. LeasesIn(St, {p}) = {}
    BY <1>3, Words DEF LeasesIn, Close, LeasesOf
  <2> QED
    BY <1>3, <2>1, StepOfRemoving DEF Close
<1>4. ASSUME NEW p \in DOMAIN pools, DrainTraps(p), broken' = TRUE PROVE GoodSt'
  <2>1. PICK c : CloseThrowsAfter(Before(c, ConnectionsOf(p)))
    BY <1>4 DEF DrainTraps
  <2>2. Before(c, ConnectionsOf(p)) \in SUBSET DOMAIN connections
    BY DEF Before, ConnectionsOf
  <2> QED
    BY <1>4, <2>1, <2>2, StepOfThrow DEF DrainTraps
<1>5. ASSUME NEW p \in DOMAIN pools, CloseTraps(p), broken' = TRUE PROVE GoodSt'
  <2>1. PICK c : CloseThrowsAfter(Before(c, ConnectionsOf(p)))
    BY <1>5 DEF CloseTraps
  <2>2. Before(c, ConnectionsOf(p)) \in SUBSET DOMAIN connections
    BY DEF Before, ConnectionsOf
  <2> QED
    BY <1>5, <2>1, <2>2, StepOfThrow DEF CloseTraps
<1>6. CASE CloseAllTraps /\ broken' = TRUE
  <2>1. PICK c : CloseThrowsAfter(ClosedBefore(c))
    BY <1>6 DEF CloseAllTraps
  <2>2. ClosedBefore(c) \in SUBSET DOMAIN connections
    BY DEF ClosedBefore, Before, ConnectionsOf
  <2> QED
    BY <1>6, <2>1, <2>2, StepOfThrow DEF CloseAllTraps
<1> QED
  BY <1>1, <1>2, <1>3, <1>4, <1>5, <1>6

\* The provider starts empty.
LEMMA GoodInit == Init => GoodSt
<1> SUFFICES ASSUME Init PROVE GoodSt
  OBVIOUS
<1>1. /\ St.now = 0 /\ DOMAIN St.pools = {} /\ DOMAIN St.connections = {} /\ DOMAIN St.leases = {} /\ St.channels = {}
      /\ St.nextPool = 1 /\ St.nextConnection = 1 /\ St.nextLease = 1 /\ St.nextChannel = 1 /\ St.broken = FALSE
      /\ St.pools = [p \in {} |-> {}] /\ St.connections = [c \in {} |-> {}] /\ St.leases = [l \in {} |-> {}]
  BY Words DEF Init
<1>2. Typed(St)
  <2>1. \A S : /\ St.pools \in [{} -> S] /\ St.connections \in [{} -> S] /\ St.leases \in [{} -> S]
    BY <1>1
  <2>2. /\ St.pools \in [DOMAIN St.pools -> Pool] /\ St.leases \in [DOMAIN St.leases -> Lease]
        /\ St.connections \in [DOMAIN St.connections -> ConnectionIn(St)]
    BY <1>1, <2>1
  <2>3. MaxTime \in Nat /\ MaxPool \in Nat /\ MaxLease \in Nat /\ MaxChannel \in Nat
    BY BoundsAssumption
  <2>4. 0 \in 0 .. MaxTime /\ 1 \in 1 .. MaxPool + 1 /\ 1 \in 1 .. MaxLease + 1 /\ 1 \in 1 .. MaxChannel + 1
    BY <2>3
  <2>5. /\ DOMAIN St.pools \subseteq 1 .. St.nextPool - 1 /\ DOMAIN St.connections \subseteq 1 .. St.nextConnection - 1
        /\ DOMAIN St.leases \subseteq 1 .. St.nextLease - 1 /\ St.channels \subseteq 1 .. St.nextChannel - 1
    BY <1>1
  <2>6. /\ St.now \in 0 .. MaxTime /\ St.broken \in BOOLEAN
        /\ St.nextPool \in 1 .. MaxPool + 1 /\ St.nextConnection \in Nat \ {0}
        /\ St.nextLease \in 1 .. MaxLease + 1 /\ St.nextChannel \in 1 .. MaxChannel + 1
    <3>1. St.broken \in BOOLEAN
      BY <1>1, Zenon
    <3>2. St.now = 0 /\ St.nextPool = 1 /\ St.nextConnection = 1 /\ St.nextLease = 1 /\ St.nextChannel = 1
      BY <1>1
    <3> QED
      BY <2>4, <3>1, <3>2
  <2> QED
    BY <2>2, <2>5, <2>6 DEF Typed
<1>3. Leased(St) /\ Wired(St)
  BY <1>1 DEF Leased, Wired, OpenChannels
<1>4. Counted(St)
  BY <1>1, FS_EmptySet, LimitsAssumption DEF Counted
<1> QED
  BY <1>2, <1>3, <1>4 DEF GoodSt, Good

\* Every step keeps the invariant.
LEMMA GoodKept == GoodSt /\ [Next]_vars => GoodSt'
<1> SUFFICES ASSUME GoodSt, [Next]_vars PROVE GoodSt'
  OBVIOUS
<1>1. CASE UNCHANGED vars
  <2>1. St' = St
    BY <1>1 DEF vars, ids, St
  <2> QED
    BY <2>1 DEF GoodSt
<1>2. CASE Operation /\ UNCHANGED broken
  <2>1. CASE Tick
    BY <1>2, <2>1, StepOfTick
  <2>2. CASE PoolOpens \/ PoolRefused \/ PoolTraps
    BY <1>2, <2>2, StepOfOpen
  <2>3. ASSUME NEW p \in DOMAIN pools, AcquireReuses(p) \/ AcquireOpens(p) \/ AcquireFails(p) PROVE GoodSt'
    BY <1>2, <2>3, StepOfAcquire
  <2>4. ASSUME NEW p \in DOMAIN pools, Health(p) \/ HealthTraps(p) PROVE GoodSt'
    BY <1>2, <2>4, StepOfHealth
  <2>5. ASSUME NEW p \in DOMAIN pools, Drain(p) \/ Close(p) PROVE GoodSt'
    BY <1>2, <2>5, StepOfClose
  <2>6. ASSUME NEW l \in DOMAIN leases, ReleaseResets(l) \/ ReleaseEvicts(l) PROVE GoodSt'
    BY <1>2, <2>6, StepOfRelease
  <2>7. CASE CloseAll
    BY <1>2, <2>7, StepOfClose
  <2> QED
    BY <1>2, <2>1, <2>2, <2>3, <2>4, <2>5, <2>6, <2>7 DEF Operation
<1>3. CASE Breakage /\ broken' = TRUE
  <2>1. CASE PoolLeaks
    BY <1>3, <2>1, StepOfOpen
  <2>2. ASSUME NEW p \in DOMAIN pools, AcquireLeaks(p) \/ AcquireTraps(p) PROVE GoodSt'
    BY <1>3, <2>2, StepOfAcquire
  <2>3. ASSUME NEW p \in DOMAIN pools, HealthBreaks(p) PROVE GoodSt'
    BY <1>3, <2>3, StepOfHealth
  <2>4. ASSUME NEW p \in DOMAIN pools, DrainTraps(p) \/ CloseTraps(p) PROVE GoodSt'
    BY <1>3, <2>4, StepOfClose
  <2>5. ASSUME NEW l \in DOMAIN leases, ReleaseTraps(l) PROVE GoodSt'
    BY <1>3, <2>5, StepOfRelease
  <2>6. CASE CloseAllTraps
    BY <1>3, <2>6, StepOfClose
  <2> QED
    BY <1>3, <2>1, <2>2, <2>3, <2>4, <2>5, <2>6 DEF Breakage
<1> QED
  BY <1>1, <1>2, <1>3 DEF Next

\* The invariant the properties follow from: with the types, what leases and
\* channels are of, and every pool's count.
THEOREM Invariant == Spec => []GoodSt
BY GoodInit, GoodKept, PTL DEF Spec

-----------------------------------------------------------------------------
(* The properties.                                                         *)

\* Every variable has its type and every id in use is below the next one, in
\* every reachable state, whichever calls throw (TypeOK).
THEOREM TypeCorrect == Spec => []TypeOK
<1>1. ASSUME GoodSt PROVE TypeOK
  BY <1>1, Words DEF GoodSt, Good, Typed, ConnectionIn, TypeOK
<1> QED
  BY <1>1, Invariant, PTL

\* A live lease stands for one connection, still leased, of its pool, whatever
\* throws between two of the three Maps (LeaseSound).
THEOREM LeasesStand == Spec => []LeaseSound
<1>1. ASSUME GoodSt PROVE LeaseSound
  <2>1. ASSUME NEW l \in DOMAIN leases
        PROVE  leases[l].poolId \in DOMAIN pools /\ leases[l].connectionId \in LeasedOf(leases[l].poolId)
    <3>1. PICK c \in DOMAIN connections : /\ c = leases[l].connectionId
                                          /\ connections[c].pool = leases[l].poolId /\ connections[c].status = "leased"
      BY <1>1, Words DEF GoodSt, Good, Leased
    <3>2. connections[c].pool \in DOMAIN pools
      BY <1>1, Words DEF GoodSt, Good, Typed, ConnectionIn
    <3> QED
      BY <3>1, <3>2 DEF LeasedOf, ConnectionsOf, HasStatus
  <2>2. \A l, m \in DOMAIN leases : leases[l].connectionId = leases[m].connectionId => l = m
    BY <1>1, Words DEF GoodSt, Good, Leased
  <2> QED
    BY <2>1, <2>2 DEF LeaseSound
<1> QED
  BY <1>1, Invariant, PTL

\* Every connection has an open channel of its own, and until an exception
\* every open channel is of a connection, but those whose close was refused
\* (ChannelsSound).
THEOREM ChannelsStand == Spec => []ChannelsSound
<1>1. ASSUME GoodSt PROVE ChannelsSound
  <2>1. Wired(St)
    BY <1>1 DEF GoodSt, Good
  <2>2. ChannelsOwned
    BY <2>1, Words DEF Wired, OpenChannels, ChannelsOwned, ChannelsOf
  <2>3. ChannelsOf(Unclosed(DOMAIN connections)) \subseteq channels
    BY <2>1, Words DEF Wired
  <2>4. ChannelsApart
    BY <2>1, <2>3, Words DEF Wired, ChannelsApart
  <2> QED
    BY <2>2, <2>4 DEF ChannelsSound
<1> QED
  BY <1>1, Invariant, PTL

\* Every lease handed out has a token never used before and a connection that
\* has outlived neither its lifetime nor its idle timeout (LeasesFresh).
THEOREM LeasesAreFresh == Spec => LeasesFresh
<1>1. ASSUME GoodSt, [Next]_vars PROVE [NeverRevived /\ FreshLease]_vars
  <2>1. \A l \in DOMAIN leases : l < nextLease
    BY <1>1, Words, BoundsAssumption DEF GoodSt, Good, Typed
  <2>2. ASSUME DOMAIN leases' \subseteq DOMAIN leases PROVE NeverRevived /\ FreshLease
    BY <2>2 DEF NeverRevived, FreshLease
  <2>3. ASSUME NEW p, NEW c, LeaseTo(p, c), c \notin {d \in HasStatus("idle") : TooOld(d) \/ TooIdle(d)}
        PROVE  NeverRevived /\ FreshLease
    <3>1. DOMAIN leases' \ DOMAIN leases \subseteq {nextLease} /\ leases'[nextLease].connectionId = c
      BY <2>3 DEF LeaseTo, With
    <3>2. nextLease \in Nat
      BY <1>1, Words, BoundsAssumption DEF GoodSt, Good, Typed
    <3> QED
      BY <2>3, <3>1, <3>2 DEF NeverRevived, FreshLease
  <2>4. ASSUME NEW p, AcquireReuses(p) PROVE NeverRevived /\ FreshLease
    <3>1. PICK c \in StaysIdle(p) : LeaseTo(p, c)
      BY <2>4 DEF AcquireReuses
    <3>2. c \notin {d \in HasStatus("idle") : TooOld(d) \/ TooIdle(d)}
      BY DEF StaysIdle, Reaped, Expired, IdleOf
    <3> QED
      BY <2>3, <3>1, <3>2
  <2>5. ASSUME NEW p, AcquireOpens(p) PROVE NeverRevived /\ FreshLease
    <3>1. nextConnection \notin DOMAIN connections
      BY <1>1, Words DEF GoodSt, Good, Typed
    <3>2. LeaseTo(p, nextConnection)
      BY <2>5 DEF AcquireOpens
    <3> QED
      BY <2>3, <3>1, <3>2 DEF HasStatus
  <2>6. CASE \/ UNCHANGED vars \/ Tick \/ PoolOpens \/ PoolRefused \/ PoolTraps \/ PoolLeaks \/ CloseAll \/ CloseAllTraps
             \/ \E p : \/ AcquireFails(p) \/ AcquireLeaks(p) \/ AcquireTraps(p)
                       \/ Drain(p) \/ Close(p) \/ DrainTraps(p) \/ CloseTraps(p)
             \/ \E l : ReleaseResets(l) \/ ReleaseEvicts(l) \/ ReleaseTraps(l)
    <3>1. DOMAIN leases' \subseteq DOMAIN leases
      BY <2>6 DEF vars, Tick, PoolOpens, PoolRefused, PoolTraps, PoolLeaks, OpenPool, CloseAll, CloseAllTraps,
                  AcquireFails, AcquireLeaks, AcquireTraps, ReapTraps, Drain, Close, DrainTraps, CloseTraps,
                  CloseThrowsAfter, Removing, ReleaseResets, ReleaseEvicts, ReleaseTraps, Release, Without
    <3> QED
      BY <2>2, <3>1
  <2>7. ASSUME NEW p, Health(p) \/ HealthTraps(p) \/ HealthBreaks(p) PROVE NeverRevived /\ FreshLease
    <3>1. (\E a, b : Probed(p, a, b)) \/ ReapTraps(p)
      BY <2>7, Zenon DEF Health, HealthTraps, HealthBreaks, HealthStopsAt
    <3>2. leases' = leases
      BY <3>1 DEF Probed, ReapTraps
    <3> QED
      BY <2>2, <3>2
  <2> QED
    BY <1>1, <2>4, <2>5, <2>6, <2>7 DEF Next, Operation, Breakage
<1> QED
  BY <1>1, Invariant, PTL DEF Spec, LeasesFresh

\* What the leased connections of a pool and its leases have in common: the
\* map from a lease to its connection is a bijection.
LEMMA ForcedCounts ==
  ASSUME GoodSt, ~ broken, NEW p \in DOMAIN pools PROVE Forced(p) = Cardinality(LeasesOf(p))
<1> DEFINE f == [l \in LeasesOf(p) |-> leases[l].connectionId]
<1>1. Leased(St)
  BY DEF GoodSt, Good
<1>2. \A l \in LeasesOf(p) : f[l] \in LeasedOf(p)
  BY <1>1, Words DEF Leased, LeasesOf, LeasedOf, ConnectionsOf, HasStatus
<1>3. \A l, m \in LeasesOf(p) : f[l] = f[m] => l = m
  BY <1>1, Words DEF Leased, LeasesOf
<1>4. ASSUME NEW c \in LeasedOf(p) PROVE \E l \in LeasesOf(p) : f[l] = c
  <2>1. c \in DOMAIN connections /\ connections[c].pool = p /\ connections[c].status = "leased"
    BY DEF LeasedOf, ConnectionsOf, HasStatus
  <2>2. PICK l \in DOMAIN leases : leases[l].connectionId = c
    BY <1>1, <2>1, Words DEF Leased
  <2>3. leases[l].poolId = p
    BY <1>1, <2>1, <2>2, Words DEF Leased
  <2> QED
    BY <2>2, <2>3 DEF LeasesOf
<1>5. f \in [LeasesOf(p) -> LeasedOf(p)]
  BY <1>2
<1> HIDE DEF f
<1>6. f \in Bijection(LeasesOf(p), LeasedOf(p))
  BY <1>3, <1>4, <1>5 DEF Bijection, Injection, Surjection, IsInjective
<1>7. IsFiniteSet(LeasesOf(p))
  <2>1. IsFiniteSet(DOMAIN leases)
    BY Finite, Words DEF GoodSt, Good
  <2>2. LeasesOf(p) \subseteq DOMAIN leases
    BY DEF LeasesOf
  <2> QED
    BY <2>1, <2>2, FS_Subset
<1>8. ExistsBijection(LeasesOf(p), LeasedOf(p))
  BY <1>6 DEF ExistsBijection
<1> QED
  BY <1>7, <1>8, FS_Bijection DEF Forced

\* Multiplication of natural numbers, as the times of connections need it.
LEMMA NatTimes ==
  /\ \A m, n \in Nat : m * n \in Nat
  /\ \A k, m, n \in Nat : k <= m => k * n <= m * n
  /\ \A m, n \in Nat : (m + 1) * n = m * n + n
<1>1. \A m, n \in Nat : m * n \in Nat
  OBVIOUS
<1>2. \A m, n \in Nat : (m + 1) * n = m * n + n
  OBVIOUS
<1>3. ASSUME NEW k \in Nat, NEW m \in Nat, NEW n \in Nat, k <= m PROVE k * n <= m * n
  <2>1. PICK d \in Nat : m = k + d
    <3>1. m - k \in Nat /\ m = k + (m - k)
      BY <1>3
    <3> QED
      BY <3>1
  <2>2. m * n = k * n + d * n /\ d * n \in Nat /\ k * n \in Nat
    BY <2>1
  <2> QED
    BY <2>2
<1> QED
  BY <1>1, <1>2, <1>3

\* The connections of some of the pools: no more than each pool may have.  A
\* smallest set of pools with more would lose one of them.
LEMMA ConnectionsOfPools ==
  ASSUME GoodSt, NEW P \in SUBSET DOMAIN pools
  PROVE Cardinality(InAny(St, P)) <= Cardinality(P) * maxConnectionsPerPool
<1> DEFINE Over == {Q \in SUBSET DOMAIN pools : ~ Cardinality(InAny(St, Q)) <= Cardinality(Q) * maxConnectionsPerPool}
<1>1. Typed(St) /\ Counted(St) /\ maxConnectionsPerPool \in Nat
  BY LimitsAssumption DEF GoodSt, Good
<1>2. IsFiniteSet(DOMAIN pools) /\ IsFiniteSet(DOMAIN connections)
  BY <1>1, Finite, Words
<1>3. \A Q : InAny(St, Q) \subseteq DOMAIN connections
  BY Words DEF InAny
<1>4. \A Q : IsFiniteSet(InAny(St, Q)) /\ Cardinality(InAny(St, Q)) \in Nat
  BY <1>2, <1>3, FS_Subset, FS_CardinalityType
<1> SUFFICES ASSUME Over # {} PROVE FALSE
  OBVIOUS
<1>5. Over \in SUBSET (SUBSET DOMAIN pools)
  OBVIOUS
<1> HIDE DEF Over
<1>6. PICK Q \in Over : \A R \in Over : R \subseteq Q => Q = R
  BY <1>2, <1>5, SmallestSet
<1>7. Q \in SUBSET DOMAIN pools /\ ~ Cardinality(InAny(St, Q)) <= Cardinality(Q) * maxConnectionsPerPool
  BY <1>6 DEF Over
<1>8. IsFiniteSet(Q) /\ Cardinality(Q) \in Nat
  BY <1>2, <1>7, FS_Subset, FS_CardinalityType
<1>9. Q # {}
  <2>1. ASSUME Q = {} PROVE FALSE
    <3>1. InAny(St, Q) = {}
      BY <2>1 DEF InAny
    <3>2. Cardinality(InAny(St, Q)) = 0 /\ Cardinality(Q) = 0
      BY <2>1, <3>1, FS_EmptySet
    <3> QED
      BY <1>1, <1>7, <3>2
  <2> QED
    BY <2>1
<1>10. PICK p : p \in Q
  BY <1>9
<1>11. PICK R : R = Q \ {p}
  OBVIOUS
<1>12. Cardinality(Q) = Cardinality(R) + 1 /\ Cardinality(R) \in Nat
  <2>1. Cardinality(R) = Cardinality(Q) - 1 /\ IsFiniteSet(R)
    BY <1>8, <1>10, <1>11, FS_RemoveElement
  <2> QED
    BY <1>8, <2>1, FS_CardinalityType
<1>13. Cardinality(InAny(St, R)) <= Cardinality(R) * maxConnectionsPerPool
  BY <1>6, <1>7, <1>10, <1>11 DEF Over
<1>14. Cardinality(In(St, p)) <= maxConnectionsPerPool /\ Cardinality(In(St, p)) \in Nat /\ IsFiniteSet(In(St, p))
  BY <1>1, <1>7, <1>10, Finite, Words DEF Counted
<1>15. InAny(St, Q) = InAny(St, R) \cup In(St, p) /\ InAny(St, R) \cap In(St, p) = {}
  BY <1>10, <1>11 DEF InAny, In
<1>16. Cardinality(InAny(St, Q)) = Cardinality(InAny(St, R)) + Cardinality(In(St, p))
  <2>1. Cardinality(InAny(St, R) \cup In(St, p))
          = Cardinality(InAny(St, R)) + Cardinality(In(St, p)) - Cardinality(InAny(St, R) \cap In(St, p))
    BY <1>4, <1>14, FS_Union
  <2>2. Cardinality(InAny(St, R) \cap In(St, p)) = 0
    BY <1>15, FS_EmptySet
  <2> QED
    BY <1>4, <1>14, <1>15, <2>1, <2>2
<1>17. PICK m : m = Cardinality(R) * maxConnectionsPerPool
  OBVIOUS
<1>18. m \in Nat /\ Cardinality(Q) * maxConnectionsPerPool = m + maxConnectionsPerPool
  BY <1>1, <1>12, <1>17, NatTimes
<1> QED
  BY <1>1, <1>4, <1>7, <1>13, <1>14, <1>16, <1>17, <1>18

\* Every number the pools report or decide by is what it counts: the leases a
\* drain ends, the limits on pools, leases, connections and open channels, the
\* evictions (CountsHold).
THEOREM CountsStand == Spec => []CountsHold
<1>1. ASSUME GoodSt PROVE CountsHold
  <2>1. Typed(St) /\ Wired(St) /\ Counted(St)
    BY <1>1 DEF GoodSt, Good
  <2>2. ForcedCountsLeases
    BY <1>1, ForcedCounts DEF ForcedCountsLeases
  <2>3. EvictionsBalance
    BY <2>1, Words DEF Counted, EvictionsBalance
  <2>4. ASSUME ~ broken PROVE Cardinality(channels \ ClosesRefused) <= maxPools * maxConnectionsPerPool
    <3> DEFINE f == [c \in DOMAIN connections |-> connections[c].channel]
               used == {connections[c].channel : c \in DOMAIN connections}
    <3>1. channels \ ClosesRefused \subseteq used
      BY <2>1, <2>4, Words DEF Wired
    <3>2. f \in [DOMAIN connections -> used] /\ \A x \in used : \E c \in DOMAIN connections : f[c] = x
      OBVIOUS
    <3> HIDE DEF f, used
    <3>3. f \in Surjection(DOMAIN connections, used)
      BY <3>2 DEF Surjection
    <3>4. IsFiniteSet(DOMAIN connections) /\ IsFiniteSet(DOMAIN pools)
      BY <2>1, Finite, Words
    <3>5. /\ IsFiniteSet(channels \ ClosesRefused)
          /\ Cardinality(channels \ ClosesRefused) <= Cardinality(DOMAIN connections)
      <4>1. IsFiniteSet(used) /\ Cardinality(used) <= Cardinality(DOMAIN connections)
        BY <3>3, <3>4, FS_Surjection
      <4>2. /\ IsFiniteSet(channels \ ClosesRefused)
            /\ Cardinality(channels \ ClosesRefused) <= Cardinality(used)
        BY <3>1, <4>1, FS_Subset
      <4>3. PICK a, b, c : a = Cardinality(channels \ ClosesRefused) /\ b = Cardinality(used) /\ c = Cardinality(DOMAIN connections)
        OBVIOUS
      <4>4. a \in Nat /\ b \in Nat /\ c \in Nat
        BY <3>4, <4>1, <4>2, <4>3, FS_CardinalityType
      <4> QED
        BY <4>1, <4>2, <4>3, <4>4
    <3>6. InAny(St, DOMAIN pools) = DOMAIN connections
      BY <2>1, Words DEF Typed, ConnectionIn, InAny
    <3>7. Cardinality(DOMAIN connections) <= Cardinality(DOMAIN pools) * maxConnectionsPerPool
      BY <1>1, <3>6, ConnectionsOfPools
    <3>8. Cardinality(DOMAIN pools) <= maxPools /\ Cardinality(DOMAIN pools) \in Nat
      BY <2>1, Finite, Words DEF Counted
    <3>9. maxPools \in Nat /\ maxConnectionsPerPool \in Nat
      BY LimitsAssumption
    <3>10. Cardinality(DOMAIN pools) * maxConnectionsPerPool <= maxPools * maxConnectionsPerPool
      BY <3>8, <3>9, NatTimes
    <3>11. PICK a, b : a = Cardinality(DOMAIN pools) * maxConnectionsPerPool /\ b = maxPools * maxConnectionsPerPool
      OBVIOUS
    <3>12. a \in Nat /\ b \in Nat
      BY <3>8, <3>9, <3>11, NatTimes
    <3>13. Cardinality(channels \ ClosesRefused) \in Nat /\ Cardinality(DOMAIN connections) \in Nat
      BY <3>4, <3>5, FS_CardinalityType
    <3> QED
      BY <3>5, <3>7, <3>10, <3>11, <3>12, <3>13
  <2>5. LimitsHold
    BY <2>1, <2>4, Words DEF Counted, LimitsHold
  <2> QED
    BY <2>2, <2>3, <2>5 DEF CountsHold
<1> QED
  BY <1>1, Invariant, PTL

-----------------------------------------------------------------------------
(* The transport: the parts of its invariant.                              *)


Doing(op, phase) == rpc.op = op /\ rpc.phase = phase
Mishaps == {"readFailed", "writeFailed", "connectionCancelled", "cancelFailed"}

\* The request under way was admitted for what it may still use.
Admitted ==
  /\ rpc.phase = "none" <=> rpc.op = "none"
  /\ rpc.phase = "waiting" =>
       rpc.op \in {"connect", "tls", "write", "read", "cancel"} /\ rpc.socket \in DOMAIN sockets
  /\ rpc.phase = "ending" => rpc.op = "cancel"
  /\ rpc.op \in {"read", "write"} => rpc.n > 0
  /\ rpc.op = "connect" => charged.connections < maxConnections
  /\ rpc.op = "read" => charged.read + rpc.n <= maxReadBytes
  /\ Doing("read", "answered") => rpc.result <= rpc.n
  /\ rpc.op = "write" => charged.write + rpc.n <= maxWriteBytes
  /\ Doing("write", "posted") => handed + rpc.n <= MaxHanded
  /\ Doing("write", "answered") => rpc.result \in {-1, rpc.n}
  /\ rpc.op = "cancel" => charged.cancels < maxCancelRequests
  /\ charged.connections <= maxConnections /\ charged.read <= maxReadBytes
  /\ charged.write <= maxWriteBytes /\ charged.cancels <= maxCancelRequests

\* A connection has one handle at most, and none while it is set up.
SettingUp == rpc.op \in {"connect", "tls"} /\ rpc.phase = "waiting"
Named(s) == \E h \in DOMAIN handles : handles[h].socket = s
HandlesSound ==
  /\ Cardinality(DOMAIN sockets) \in Nat /\ DOMAIN sockets = 1 .. Cardinality(DOMAIN sockets)
  /\ \A h \in DOMAIN handles : handles[h].kind = "pg-cancel" <=> handles[h].socket = NoSocket
  /\ \A h, k \in DOMAIN handles : handles[h].socket = handles[k].socket /\ handles[h].socket # NoSocket => h = k
  /\ SettingUp => ~ Named(rpc.socket)
  /\ "connectionCancelled" \notin mishap => \A s \in Opened : sockets[s].cancels \/ Named(s) \/ InTransition(s)

\* The socket of a connect or a cancel that is not charged yet, and the handle
\* of an authority that is not.
Fresh ==
  IF \/ Doing("connect", "waiting") \/ (Doing("connect", "answered") /\ rpc.result > 0)
     \/ Doing("cancel", "waiting") \/ Doing("cancel", "ending")
     \/ Doing("cancel", "answered") /\ rpc.result = 0
  THEN {rpc.socket} ELSE {}
FreshAuthority == IF Doing("cancel-register", "answered") /\ rpc.result > 0 THEN {rpc.result} ELSE {}
Authorities == {h \in DOMAIN handles : handles[h].kind = "pg-cancel"}

\* The sockets of cancels and those of connections are not mixed up.
Busy == rpc.phase \in {"waiting", "ending"} \/ Fresh # {}
KindsSound ==
  /\ Busy => rpc.socket \in DOMAIN sockets /\ (sockets[rpc.socket].cancels <=> rpc.op = "cancel")
  /\ \A h \in DOMAIN handles : handles[h].socket # NoSocket => ~ sockets[handles[h].socket].cancels

\* An authority that is used for a request not sent yet, and what the broker
\* will charge when the request under way returns.
Using == IF Doing("cancel", "waiting") THEN 1 ELSE 0
OwedCancel == IF Doing("cancel", "ending") \/ (Doing("cancel", "answered") /\ rpc.result = 0) THEN 1 ELSE 0
OwedBytes == IF Doing("read", "answered") /\ rpc.result > 0 THEN rpc.result ELSE 0
OwedWrite ==
  IF Doing("write", "waiting") \/ (Doing("write", "answered") /\ rpc.result > 0) THEN rpc.n ELSE 0

SocketsCharged ==
  /\ Cardinality(OpenConnections \ Fresh) <= charged.connections
  /\ Cardinality(OpenCancels \ Fresh) <= charged.cancels
CancelsCharged ==
  /\ Cardinality(Authorities \ FreshAuthority) + cancelled + Using <= charged.cancelHandles
  /\ "cancelFailed" \notin mishap => cancelled <= charged.cancels + OwedCancel

\* The bytes of a reply are charged when it is back.
BytesCharged == BytesGot = charged.read + OwedBytes
Flows ==
  "readFailed" \notin mishap => \A s \in DOMAIN sockets :
    /\ sockets[s].got = sockets[s].head
    /\ sockets[s].flowing => \/ Doing("read", "waiting") /\ rpc.socket = s
                             \/ sockets[s].ended /\ Buffered(s) = 0
WritesCharged == "writeFailed" \notin mishap => handed = charged.write + OwedWrite

TInv ==
  /\ TransportTypeOK /\ Admitted /\ HandlesSound /\ KindsSound /\ SocketsCharged /\ CancelsCharged
  /\ BytesCharged /\ Flows /\ WritesCharged

-----------------------------------------------------------------------------
(* Sums over the sockets, and the changes of a request.                    *)

GotIn(table) == SumOver([s \in DOMAIN table |-> table[s].got], DOMAIN table)

\* The bytes got, when one socket has got more or fewer.
LEMMA GotChanges ==
  ASSUME NEW t, NEW u, IsFiniteSet(DOMAIN t), DOMAIN u = DOMAIN t, NEW s \in DOMAIN t,
         \A x \in DOMAIN t : t[x].got \in Nat /\ u[x].got \in Nat,
         \A x \in DOMAIN t \ {s} : u[x].got = t[x].got
  PROVE GotIn(u) = GotIn(t) - t[s].got + u[s].got
<1> DEFINE f == [x \in DOMAIN t |-> t[x].got]
           g == [x \in DOMAIN t |-> u[x].got]
<1>1. /\ \A y \in DOMAIN t : f[y] \in Nat /\ g[y] \in Nat
      /\ \A y \in DOMAIN t \ {s} : g[y] = f[y]
      /\ f[s] = t[s].got /\ g[s] = u[s].got
  OBVIOUS
<1>2. GotIn(t) = SumOver(f, DOMAIN t) /\ GotIn(u) = SumOver(g, DOMAIN t)
  BY DEF GotIn
<1> HIDE DEF f, g
<1>3. SumOver(g, DOMAIN t) = SumOver(f, DOMAIN t) - f[s] + g[s]
  BY <1>1, SumChanges
<1> QED
  BY <1>1, <1>2, <1>3

\* They depend on nothing but what each socket has got.
LEMMA GotStays ==
  ASSUME NEW t, NEW u, DOMAIN u = DOMAIN t, \A x \in DOMAIN t : u[x].got = t[x].got
  PROVE GotIn(u) = GotIn(t)
<1>1. [s \in DOMAIN t |-> t[s].got] = [s \in DOMAIN u |-> u[s].got]
  OBVIOUS
<1> QED
  BY <1>1 DEF GotIn

\* A socket that has got nothing adds nothing.
LEMMA GotOfNew ==
  ASSUME NEW t, NEW u, NEW n, IsFiniteSet(DOMAIN t), n \notin DOMAIN t, DOMAIN u = DOMAIN t \cup {n},
         \A x \in DOMAIN t : t[x].got \in Nat /\ u[x].got = t[x].got, u[n].got = 0
  PROVE GotIn(u) = GotIn(t)
<1> DEFINE f == [x \in DOMAIN t |-> t[x].got]
           g == [x \in DOMAIN u |-> u[x].got]
<1>1. /\ \A x \in DOMAIN u : g[x] \in Nat
      /\ \A x \in DOMAIN t : f[x] \in Nat /\ g[x] = f[x]
      /\ g[n] = 0 /\ n \in DOMAIN u /\ DOMAIN u \ {n} = DOMAIN t
  OBVIOUS
<1>2. GotIn(t) = SumOver(f, DOMAIN t) /\ GotIn(u) = SumOver(g, DOMAIN u)
  BY DEF GotIn
<1>3. IsFiniteSet(DOMAIN u)
  BY FS_AddElement
<1> HIDE DEF f, g
<1>4. SumOver(g, DOMAIN u) = g[n] + SumOver(g, DOMAIN u \ {n})
  BY <1>1, <1>3, SumRemoves
<1>5. SumOver(f, DOMAIN t) = SumOver(g, DOMAIN t) /\ SumOver(f, DOMAIN t) \in Nat
  BY <1>1, SumEqual, SumRemoves
<1> QED
  BY <1>1, <1>2, <1>4, <1>5

\* The model's fold is this sum.
LEMMA GotIs == BytesGot = GotIn(sockets) /\ BytesGot' = GotIn(sockets')
<1>1. BytesGot = GotIn(sockets)
  BY DEF BytesGot, GotIn, SumOver
<1>2. (BytesGot = GotIn(sockets))'
  BY <1>1, PTL
<1> QED
  BY <1>1, <1>2

\* The sockets are finitely many, and finitely many handles name them.
LEMMA Finitely ==
  ASSUME TInv
  PROVE /\ IsFiniteSet(DOMAIN sockets) /\ BytesGot \in Nat
        /\ \A S \in SUBSET DOMAIN sockets : IsFiniteSet(S) /\ Cardinality(S) \in Nat
        /\ IsFiniteSet(DOMAIN handles)
        /\ \A S \in SUBSET DOMAIN handles : IsFiniteSet(S) /\ Cardinality(S) \in Nat
<1>1. IsFiniteSet(DOMAIN sockets)
  <2>1. PICK n \in Int : DOMAIN sockets = 1 .. n
    <3>1. Cardinality(DOMAIN sockets) \in Nat /\ DOMAIN sockets = 1 .. Cardinality(DOMAIN sockets)
      BY Zenon DEF TInv, HandlesSound
    <3> QED
      BY <3>1
  <2>2. IsFiniteSet(1 .. n)
    BY FS_Interval
  <2> QED
    BY <2>1, <2>2
<1>2. nextHandle - 1 \in Int /\ DOMAIN handles \subseteq 1 .. nextHandle - 1
  <2>1. nextHandle \in Nat /\ DOMAIN handles \subseteq 1 .. (nextHandle - 1)
    BY Zenon DEF TInv, TransportTypeOK
  <2> QED
    BY <2>1
<1>3. IsFiniteSet(1 .. nextHandle - 1)
  BY <1>2, FS_Interval
<1>4. IsFiniteSet(DOMAIN handles)
  BY <1>2, <1>3, FS_Subset
<1>5. GotIn(sockets) \in Nat
  <2>1. PICK f : f = [s \in DOMAIN sockets |-> sockets[s].got]
    OBVIOUS
  <2>2. \A s \in DOMAIN sockets : f[s] \in Nat
    BY <2>1 DEF TInv, TransportTypeOK
  <2>3. SumOver(f, DOMAIN sockets) \in Nat
    BY <1>1, <2>2, SumRemoves
  <2> QED
    BY <2>1, <2>3 DEF GotIn
<1> QED
  BY <1>1, <1>4, <1>5, GotIs, FS_Subset, FS_CardinalityType

RpcType == [phase : Phases, op : Ops, handle : Nat, n : Nat, socket : Nat, result : Int]

\* The request, once it is answered.
LEMMA AnswerFacts ==
  ASSUME TransportTypeOK, NEW r \in Int, Answers(r)
  PROVE /\ rpc' \in RpcType
        /\ rpc'.phase = "answered" /\ rpc'.result = r
        /\ rpc'.op = rpc.op /\ rpc'.handle = rpc.handle /\ rpc'.n = rpc.n /\ rpc'.socket = rpc.socket
BY DEF TransportTypeOK, Answers, RpcType, Phases

\* The request, once it waits for a socket.
LEMMA WaitFacts ==
  ASSUME TransportTypeOK, NEW s \in Nat, Waits(s)
  PROVE /\ rpc' \in RpcType
        /\ rpc'.phase = "waiting" /\ rpc'.result = rpc.result
        /\ rpc'.op = rpc.op /\ rpc'.handle = rpc.handle /\ rpc'.n = rpc.n /\ rpc'.socket = s
BY DEF TransportTypeOK, Waits, RpcType, Phases

\* The sockets keep all but that some of them are destroyed.
LEMMA DestroyFacts ==
  ASSUME TransportTypeOK, NEW S, Destroys(S)
  PROVE /\ DOMAIN sockets' = DOMAIN sockets
        /\ \A s \in DOMAIN sockets :
             /\ sockets'[s] \in [open : BOOLEAN, cancels : BOOLEAN, flowing : BOOLEAN, ended : BOOLEAN,
                                 arrived : 0..MaxArrived, head : Nat, got : Nat]
             /\ sockets'[s].flowing = sockets[s].flowing /\ sockets'[s].ended = sockets[s].ended
             /\ sockets'[s].arrived = sockets[s].arrived /\ sockets'[s].head = sockets[s].head
             /\ sockets'[s].got = sockets[s].got /\ sockets'[s].cancels = sockets[s].cancels
             /\ s \in S => ~ sockets'[s].open
             /\ s \notin S => sockets'[s] = sockets[s]
        /\ Opened' = Opened \ S
<1>1. DOMAIN sockets' = DOMAIN sockets
  BY DEF Destroys
<1>2. ASSUME NEW s \in DOMAIN sockets
      PROVE  /\ sockets'[s] \in [open : BOOLEAN, cancels : BOOLEAN, flowing : BOOLEAN, ended : BOOLEAN,
                                 arrived : 0..MaxArrived, head : Nat, got : Nat]
             /\ sockets'[s].flowing = sockets[s].flowing /\ sockets'[s].ended = sockets[s].ended
             /\ sockets'[s].arrived = sockets[s].arrived /\ sockets'[s].head = sockets[s].head
             /\ sockets'[s].got = sockets[s].got /\ sockets'[s].cancels = sockets[s].cancels
             /\ s \in S => ~ sockets'[s].open
             /\ s \notin S => sockets'[s] = sockets[s]
  <2>1. sockets[s] \in [open : BOOLEAN, cancels : BOOLEAN, flowing : BOOLEAN, ended : BOOLEAN,
                        arrived : 0..MaxArrived, head : Nat, got : Nat]
    BY DEF TransportTypeOK
  <2>2. sockets'[s] = IF s \in S THEN [sockets[s] EXCEPT !.open = FALSE] ELSE sockets[s]
    BY DEF Destroys
  <2> QED
    BY <2>1, <2>2
<1>3. Opened' = Opened \ S
  BY <1>1, <1>2 DEF Opened
<1> QED
  BY <1>1, <1>2, <1>3

\* The worker's variables keep their types.
LEMMA TypesKept ==
  ASSUME TransportTypeOK, charged' = charged, rpc' \in RpcType, closed' \in BOOLEAN, worker' \in {"up", "down"},
         nextHandle' \in Nat \ {0}, DOMAIN handles' \subseteq 1..(nextHandle' - 1),
         \A h \in DOMAIN handles' :
           handles'[h] \in [kind : {"tcp", "tls", "pg-cancel"}, socket : DOMAIN sockets' \cup {NoSocket}],
         \A s \in DOMAIN sockets' :
           /\ sockets'[s] \in [open : BOOLEAN, cancels : BOOLEAN, flowing : BOOLEAN, ended : BOOLEAN,
                               arrived : 0..MaxArrived, head : Nat, got : Nat]
           /\ sockets'[s].got <= sockets'[s].head /\ sockets'[s].head <= sockets'[s].arrived,
         handed' \in 0..MaxHanded, cancelled' \in Nat,
         mishap' \subseteq Mishaps
  PROVE TransportTypeOK'
BY DEF TransportTypeOK, RpcType, Mishaps

-----------------------------------------------------------------------------
(* What keeps each part of the invariant when little changes.              *)

\* No socket changes its kind, no handle is added, and the request under way
\* keeps the socket it has got.
KindsStay == DOMAIN sockets \subseteq DOMAIN sockets' /\ \A s \in DOMAIN sockets : sockets'[s].cancels = sockets[s].cancels
HandlesStay == \A h \in DOMAIN handles' : h \in DOMAIN handles /\ handles'[h] = handles[h]
BusyStays == Busy' => Busy /\ rpc'.op = rpc.op /\ rpc'.socket = rpc.socket

\* Such a step mixes up no sockets.
LEMMA KindsFrame ==
  ASSUME TInv, KindsStay, HandlesStay, BusyStays
  PROVE KindsSound'
<1>1. Busy' => rpc'.socket \in DOMAIN sockets' /\ (sockets'[rpc'.socket].cancels <=> rpc'.op = "cancel")
  BY DEF TInv, KindsSound, KindsStay, BusyStays
<1>2. ASSUME NEW h \in DOMAIN handles', handles'[h].socket # NoSocket
      PROVE  ~ sockets'[handles'[h].socket].cancels
  <2>1. h \in DOMAIN handles /\ handles'[h].socket = handles[h].socket
    BY DEF HandlesStay
  <2>2. handles[h].socket \in DOMAIN sockets
    BY <1>2, <2>1 DEF TInv, TransportTypeOK
  <2> QED
    BY <1>2, <2>1, <2>2 DEF TInv, KindsSound, KindsStay
<1> QED
  BY <1>1, <1>2 DEF KindsSound, NoSocket

\* Nor does one that waits for the socket of the handle it was given.
LEMMA KindsBound ==
  ASSUME TInv, KindsStay, HandlesStay, rpc.op # "cancel", rpc'.op = rpc.op, rpc.handle \in DOMAIN handles,
         handles[rpc.handle].socket # NoSocket, Busy' => rpc'.socket = handles[rpc.handle].socket
  PROVE KindsSound'
<1>1. handles[rpc.handle].socket \in DOMAIN sockets
  BY DEF TInv, TransportTypeOK
<1>2. Busy' => rpc'.socket \in DOMAIN sockets' /\ (sockets'[rpc'.socket].cancels <=> rpc'.op = "cancel")
  BY <1>1 DEF TInv, KindsSound, KindsStay
<1>3. ASSUME NEW h \in DOMAIN handles', handles'[h].socket # NoSocket
      PROVE  ~ sockets'[handles'[h].socket].cancels
  <2>1. h \in DOMAIN handles /\ handles'[h].socket = handles[h].socket
    BY DEF HandlesStay
  <2>2. handles[h].socket \in DOMAIN sockets
    BY <1>3, <2>1 DEF TInv, TransportTypeOK
  <2> QED
    BY <1>3, <2>1, <2>2 DEF TInv, KindsSound, KindsStay
<1> QED
  BY <1>2, <1>3 DEF KindsSound, NoSocket

\* A part of a finite set is no larger.
LEMMA PartIsSmaller ==
  ASSUME NEW S, IsFiniteSet(S), NEW T, T \subseteq S
  PROVE IsFiniteSet(T) /\ Cardinality(T) \in Nat /\ Cardinality(S) \in Nat /\ Cardinality(T) <= Cardinality(S)
BY FS_Subset, FS_CardinalityType

\* A set has one element more than without it at most.
LEMMA OneMore ==
  ASSUME NEW S, IsFiniteSet(S), NEW x
  PROVE Cardinality(S) <= Cardinality(S \ {x}) + 1
<1>1. Cardinality(S \ {x}) = IF x \in S THEN Cardinality(S) - 1 ELSE Cardinality(S)
  BY FS_RemoveElement
<1>2. Cardinality(S) \in Nat
  BY FS_CardinalityType
<1> QED
  BY <1>1, <1>2

\* No step that opens no socket but the one under way adds to what is charged.
LEMMA SocketsFrame ==
  ASSUME TInv, charged' = charged, KindsStay, Opened' \ Fresh' \subseteq Opened \ Fresh
  PROVE SocketsCharged'
<1>1. \A s \in Opened : s \in DOMAIN sockets /\ sockets'[s].cancels = sockets[s].cancels
  BY DEF Opened, KindsStay
<1>2. /\ OpenConnections' \ Fresh' \subseteq OpenConnections \ Fresh
      /\ OpenCancels' \ Fresh' \subseteq OpenCancels \ Fresh
  BY <1>1 DEF OpenConnections, OpenCancels
<1>3. OpenConnections \ Fresh \in SUBSET DOMAIN sockets /\ OpenCancels \ Fresh \in SUBSET DOMAIN sockets
  BY DEF OpenConnections, OpenCancels, Opened
<1>4. /\ Cardinality(OpenConnections' \ Fresh') \in Nat /\ Cardinality(OpenConnections \ Fresh) \in Nat
      /\ Cardinality(OpenConnections' \ Fresh') <= Cardinality(OpenConnections \ Fresh)
  BY <1>2, <1>3, Finitely, PartIsSmaller
<1>5. /\ Cardinality(OpenCancels' \ Fresh') \in Nat /\ Cardinality(OpenCancels \ Fresh) \in Nat
      /\ Cardinality(OpenCancels' \ Fresh') <= Cardinality(OpenCancels \ Fresh)
  BY <1>2, <1>3, Finitely, PartIsSmaller
<1>6. /\ Cardinality(OpenConnections \ Fresh) <= charged.connections /\ charged.connections \in Nat
      /\ Cardinality(OpenCancels \ Fresh) <= charged.cancels /\ charged.cancels \in Nat
  BY DEF TInv, SocketsCharged, TransportTypeOK
<1>7. /\ Cardinality(OpenConnections' \ Fresh') <= charged.connections
      /\ Cardinality(OpenCancels' \ Fresh') <= charged.cancels
  BY <1>4, <1>5, <1>6
<1> QED
  BY <1>7 DEF SocketsCharged

\* No step that registers no authority but the one under way, and sends nothing.
LEMMA CancelsFrame ==
  ASSUME TInv, charged' = charged, cancelled' = cancelled, OwedCancel' = OwedCancel, Using' = Using,
         mishap \subseteq mishap',
         Authorities' \ FreshAuthority' \subseteq Authorities \ FreshAuthority
  PROVE CancelsCharged'
<1>1. Authorities \ FreshAuthority \in SUBSET DOMAIN handles
  BY DEF Authorities
<1>2. PICK a, b : a = Cardinality(Authorities \ FreshAuthority) /\ b = Cardinality(Authorities' \ FreshAuthority')
  OBVIOUS
<1>3. a \in Nat /\ b \in Nat /\ b <= a
  BY <1>1, <1>2, Finitely, PartIsSmaller
<1>4. /\ a + cancelled + Using <= charged.cancelHandles
      /\ "cancelFailed" \notin mishap => cancelled <= charged.cancels + OwedCancel
      /\ charged.cancelHandles \in Nat /\ cancelled \in Nat
  BY <1>2 DEF TInv, CancelsCharged, TransportTypeOK
<1>5. Using \in Nat
  BY DEF Using
<1>6. b + cancelled' + Using' <= charged'.cancelHandles
  BY <1>3, <1>4, <1>5
<1> QED
  BY <1>2, <1>4, <1>6 DEF CancelsCharged

\* A step that gives the guest nothing.
LEMMA BytesFrame ==
  ASSUME TInv, charged' = charged, BytesGot' = BytesGot, OwedBytes' = OwedBytes
  PROVE BytesCharged'
BY DEF TInv, BytesCharged

\* A step that hands nothing to a socket.
LEMMA WritesFrame ==
  ASSUME TInv, charged' = charged, handed' = handed, mishap \subseteq mishap',
         OwedWrite' = OwedWrite \/ "writeFailed" \in mishap'
  PROVE WritesCharged'
BY DEF TInv, WritesCharged

\* A step outside a setup that keeps the handles and opens no socket.
LEMMA HandlesFrame ==
  ASSUME TInv, DOMAIN sockets' = DOMAIN sockets, handles' = handles, Opened' \subseteq Opened, KindsStay,
         mishap \subseteq mishap', ~ SettingUp, ~ SettingUp'
  PROVE HandlesSound'
<1>1. \A s \in Opened : ~ InTransition(s)
  BY DEF InTransition, SettingUp
<1>2. \A s : Named(s)' <=> Named(s)
  BY DEF Named
<1>3. \A s \in Opened' : sockets'[s].cancels = sockets[s].cancels
  BY DEF Opened, KindsStay
<1> QED
  BY <1>1, <1>2, <1>3 DEF TInv, HandlesSound

\* A read that waits for bytes or for the end of its socket.
ReadsOn == Doing("read", "waiting") /\ ~ (sockets[rpc.socket].ended /\ Buffered(rpc.socket) = 0)

\* A step that takes nothing from a socket, and ends no read that waits.
LEMMA FlowsFrame ==
  ASSUME TInv, DOMAIN sockets' = DOMAIN sockets,
         \A s \in DOMAIN sockets :
           /\ sockets'[s].got = sockets[s].got /\ sockets'[s].head = sockets[s].head
           /\ sockets'[s].arrived = sockets[s].arrived
           /\ sockets'[s].flowing = sockets[s].flowing /\ sockets'[s].ended = sockets[s].ended,
         mishap \subseteq mishap',
         "readFailed" \in mishap' \/ ~ ReadsOn \/ rpc' = rpc
  PROVE Flows'
<1>1. \A s \in DOMAIN sockets : (Buffered(s) = 0)' <=> Buffered(s) = 0
  BY DEF Buffered
<1>2. CASE "readFailed" \in mishap'
  BY <1>2 DEF Flows
<1>3. CASE ~ ReadsOn
  BY <1>1, <1>3 DEF TInv, Flows, ReadsOn
<1>4. CASE rpc' = rpc
  BY <1>1, <1>4 DEF TInv, Flows, Doing
<1> QED
  BY <1>2, <1>3, <1>4

\* The sockets' bytes are as they were.
LEMMA BytesStay ==
  ASSUME DOMAIN sockets' = DOMAIN sockets, \A s \in DOMAIN sockets : sockets'[s].got = sockets[s].got
  PROVE BytesGot' = BytesGot
BY GotStays, GotIs

-----------------------------------------------------------------------------
(* The steps that only move the request on.                                *)

\* A step that changes nothing but the request.
LEMMA OnlyRequest ==
  ASSUME TInv, rpc' \in RpcType, closed' \in BOOLEAN, UNCHANGED <<charged, workerVars>>,
         mishap \subseteq mishap', mishap' \subseteq Mishaps,
         Admitted', ~ SettingUp, ~ SettingUp', Fresh = {}, FreshAuthority = {},
         OwedCancel' = OwedCancel, Using' = Using, ~ Busy', OwedBytes' = OwedBytes,
         OwedWrite' = OwedWrite \/ "writeFailed" \in mishap',
         "readFailed" \in mishap' \/ ~ ReadsOn
  PROVE TInv'
<1>1. /\ worker' = worker /\ handles' = handles /\ nextHandle' = nextHandle /\ sockets' = sockets
      /\ handed' = handed /\ cancelled' = cancelled
  BY DEF workerVars
<1>2. TransportTypeOK
  BY DEF TInv
<1>3. TransportTypeOK'
  <2>1. /\ worker' \in {"up", "down"} /\ nextHandle' \in Nat \ {0}
        /\ DOMAIN handles' \subseteq 1..(nextHandle' - 1) /\ handed' \in 0..MaxHanded /\ cancelled' \in Nat
        /\ \A h \in DOMAIN handles' :
             handles'[h] \in [kind : {"tcp", "tls", "pg-cancel"}, socket : DOMAIN sockets' \cup {NoSocket}]
        /\ \A s \in DOMAIN sockets' :
             /\ sockets'[s] \in [open : BOOLEAN, cancels : BOOLEAN, flowing : BOOLEAN, ended : BOOLEAN,
                                 arrived : 0..MaxArrived, head : Nat, got : Nat]
             /\ sockets'[s].got <= sockets'[s].head /\ sockets'[s].head <= sockets'[s].arrived
    BY <1>1, <1>2 DEF TransportTypeOK
  <2> QED
    BY <1>2, <2>1, TypesKept
<1>4. Opened' = Opened /\ Authorities' = Authorities /\ KindsStay /\ HandlesStay /\ BusyStays
  BY <1>1 DEF Opened, Authorities, KindsStay, HandlesStay, BusyStays
<1>5. SocketsCharged' /\ KindsSound'
  BY <1>4, SocketsFrame, KindsFrame
<1>6. CancelsCharged'
  BY <1>1, <1>4, CancelsFrame
<1>7. BytesCharged'
  BY <1>1, BytesStay, BytesFrame
<1>8. WritesCharged'
  BY <1>1, WritesFrame
<1>9. HandlesSound'
  BY <1>1, <1>4, HandlesFrame
<1>10. Flows'
  BY <1>1, FlowsFrame
<1> QED
  BY <1>3, <1>5, <1>6, <1>7, <1>8, <1>9, <1>10 DEF TInv

\* A guest names handles that were given out.
LEMMA HandleIsNat == ASSUME TInv, NEW h \in 1..(nextHandle - 1) PROVE h \in Nat
<1>1. nextHandle \in Nat
  BY Zenon DEF TInv, TransportTypeOK
<1> QED
  BY <1>1

\* The broker admits a request.
LEMMA PostsKeeps ==
  ASSUME TInv, NEW op \in Ops \ {"none"}, NEW h \in Nat, NEW n \in Nat, Posts(op, h, n),
         op = "connect" => charged.connections < maxConnections,
         op \in {"read", "write"} => n > 0,
         op = "read" => charged.read + n <= maxReadBytes,
         op = "write" => charged.write + n <= maxWriteBytes /\ handed + n <= MaxHanded,
         op = "cancel" => charged.cancels < maxCancelRequests
  PROVE TInv'
<1>1. /\ rpc' \in RpcType /\ rpc'.op = op /\ rpc'.phase = "posted" /\ rpc'.n = n
      /\ rpc.phase = "none"
  <2>1. PICK none \in RpcType : none = NoRequest
    <3>1. NoRequest \in RpcType
      BY DEF NoRequest, RpcType, Phases, Ops, NoSocket
    <3> QED
      BY <3>1
  <2>2. rpc' = [none EXCEPT !.phase = "posted", !.op = op, !.handle = h, !.n = n] /\ rpc.phase = "none"
    BY <2>1 DEF Posts
  <2> QED
    BY <2>2 DEF RpcType, Phases
<1>2. UNCHANGED <<charged, workerVars>> /\ closed' = closed /\ mishap' = mishap /\ handed' = handed
  BY DEF Posts, brokerVars, workerVars
<1>3. /\ Fresh = {} /\ FreshAuthority = {} /\ ~ SettingUp /\ ~ SettingUp' /\ ~ ReadsOn /\ ~ Busy'
      /\ OwedCancel' = OwedCancel /\ Using' = Using /\ OwedBytes' = OwedBytes /\ OwedWrite' = OwedWrite
  BY <1>1 DEF Fresh, FreshAuthority, SettingUp, Busy, Doing, ReadsOn, OwedCancel, Using, OwedBytes, OwedWrite
<1>4. Admitted'
  BY <1>1, <1>2 DEF TInv, Admitted, Doing, Ops
<1>5. closed' \in BOOLEAN /\ mishap' \subseteq Mishaps
  BY <1>2 DEF TInv, TransportTypeOK, Mishaps
<1> QED
  BY <1>1, <1>2, <1>3, <1>4, <1>5, OnlyRequest

\* So does every request a guest may make.
LEMMA AsksKeeps == TInv /\ Asks => TInv'
<1> SUFFICES ASSUME TInv, Asks PROVE TInv'
  OBVIOUS
<1> USE QuotasAssumption, WorldAssumption
<1>1. CASE AsksConnect
  BY <1>1, PostsKeeps DEF AsksConnect, MayConnect, Ops
<1>2. ASSUME NEW h \in 1..(nextHandle - 1),
             AsksTls(h) \/ AsksRegister(h) \/ AsksCancel(h) \/ AsksClose(h)
      PROVE  TInv'
  <2>1. h \in Nat
    BY HandleIsNat
  <2> QED
    BY <1>2, <2>1, PostsKeeps DEF AsksTls, AsksRegister, AsksCancel, MayCancel, AsksClose, Ops
<1>3. ASSUME NEW h \in 1..(nextHandle - 1), NEW n \in Sizes, AsksWrite(h, n)
      PROVE  TInv'
  <2>1. h \in Nat /\ n \in Nat /\ n > 0
    BY HandleIsNat
  <2> QED
    BY <1>3, <2>1, PostsKeeps DEF AsksWrite, MayWrite, Ops
<1>4. ASSUME NEW h \in 1..(nextHandle - 1), NEW n \in Sizes, AsksRead(h, n)
      PROVE  TInv'
  <2>1. h \in Nat /\ n \in Nat /\ n > 0 /\ maxReadBytes \in Nat
    BY HandleIsNat
  <2>2. PICK m : m = Allowed(n)
    OBVIOUS
  <2>3. charged.read \in Nat
    BY DEF TInv, TransportTypeOK
  <2>4. m \in Nat /\ m > 0 /\ charged.read + m <= maxReadBytes /\ Posts("read", h, m)
    BY <1>4, <2>1, <2>2, <2>3 DEF AsksRead, Allowed, Least
  <2> QED
    BY <2>1, <2>4, PostsKeeps DEF Ops
<1> QED
  BY <1>1, <1>2, <1>3, <1>4 DEF Asks

\* An answer to a request that changes nothing but the request.
LEMMA AnswersKeeps ==
  ASSUME TInv, NEW r \in Int, Answers(r), UNCHANGED <<closed, charged, workerVars>>,
         rpc.phase \in {"posted", "waiting"}, ~ SettingUp,
         mishap \subseteq mishap', mishap' \subseteq Mishaps,
         rpc.op = "connect" \/ rpc.op = "read" \/ rpc.op = "cancel-register" => r <= 0,
         rpc.op = "cancel" => r # 0 /\ rpc.phase = "posted",
         rpc.op = "write" => \/ r = -1 /\ (rpc.phase = "waiting" => "writeFailed" \in mishap')
                             \/ r = rpc.n /\ rpc.phase = "waiting",
         ReadsOn => "readFailed" \in mishap'
  PROVE TInv'
<1>1. /\ rpc' \in RpcType /\ rpc'.phase = "answered" /\ rpc'.result = r
      /\ rpc'.op = rpc.op /\ rpc'.n = rpc.n
  BY AnswerFacts DEF TInv
<1>2. closed' = closed /\ charged' = charged /\ handed' = handed
  BY DEF workerVars
<1>3. /\ rpc.phase # "none" /\ rpc.phase # "answered"
      /\ rpc.op \in {"read", "write"} => rpc.n > 0
      /\ rpc.n \in Nat /\ closed \in BOOLEAN
  BY DEF TInv, Admitted, TransportTypeOK
<1>4. Fresh = {} /\ FreshAuthority = {} /\ ~ SettingUp' /\ ~ Busy'
  BY <1>1, <1>3 DEF Fresh, FreshAuthority, SettingUp, Busy, Doing
<1>5. OwedCancel' = OwedCancel /\ Using' = Using /\ OwedBytes' = OwedBytes
  BY <1>1, <1>3 DEF Doing, OwedCancel, Using, OwedBytes
<1>6. OwedWrite' = OwedWrite \/ "writeFailed" \in mishap'
  <2>1. CASE rpc.op # "write"
    BY <1>1, <2>1 DEF OwedWrite, Doing
  <2>2. CASE rpc.op = "write" /\ rpc.phase = "posted"
    BY <1>1, <2>2 DEF OwedWrite, Doing
  <2>3. CASE rpc.op = "write" /\ rpc.phase = "waiting"
    BY <1>1, <1>3, <2>3 DEF OwedWrite, Doing
  <2> QED
    BY <2>1, <2>2, <2>3
<1>7. Admitted'
  <2>1. rpc.op = "read" => r <= rpc.n
    BY <1>3
  <2>2. rpc.op = "write" => r \in {-1, rpc.n}
    OBVIOUS
  <2> QED
    BY <1>1, <1>2, <1>3, <2>1, <2>2 DEF TInv, Admitted, Doing
<1> QED
  BY <1>1, <1>2, <1>3, <1>4, <1>5, <1>6, <1>7, OnlyRequest

\* The worker turns a request down.
LEMMA WorkerRejectsKeeps == TInv /\ WorkerRejects => TInv'
<1> SUFFICES ASSUME TInv, WorkerRejects PROVE TInv'
  OBVIOUS
<1>1. PICK op \in {"write", "read", "cancel-register", "cancel", "close"} : Serves(op)
  BY DEF WorkerRejects
<1>2. rpc.phase = "posted" /\ rpc.op = op /\ rpc.op # "connect" /\ rpc.op # "tls"
  BY <1>1 DEF Serves
<1>3. PICK r \in {0, -1} : Answers(r) /\ (rpc.op # "cancel-register" => r = -1)
  BY DEF WorkerRejects
<1>4. UNCHANGED <<closed, charged, workerVars, mishap>>
  BY DEF WorkerRejects, KeepsTable, KeepsHistory, KeepsWorker, brokerVars, workerVars
<1>5. mishap \subseteq Mishaps
  BY DEF TInv, TransportTypeOK, Mishaps
<1>6. ~ SettingUp /\ ~ ReadsOn
  BY <1>2 DEF SettingUp, ReadsOn, Doing
<1> QED
  BY <1>2, <1>3, <1>4, <1>5, <1>6, AnswersKeeps

\* No address of the host is allowed, or the lookup fails.
LEMMA WorkerLooksUpKeeps == TInv /\ WorkerLooksUp => TInv'
<1> SUFFICES ASSUME TInv, WorkerLooksUp PROVE TInv'
  OBVIOUS
<1>1. rpc.phase = "posted" /\ rpc.op = "connect"
  BY DEF WorkerLooksUp, Serves
<1>2. PICK r \in {0, -1} : Answers(r)
  BY DEF WorkerLooksUp
<1>3. UNCHANGED <<closed, charged, workerVars, mishap>>
  BY DEF WorkerLooksUp, KeepsTable, KeepsHistory, KeepsWorker, brokerVars, workerVars
<1>4. mishap \subseteq Mishaps
  BY DEF TInv, TransportTypeOK, Mishaps
<1>5. ~ SettingUp /\ ~ ReadsOn
  BY <1>1 DEF SettingUp, ReadsOn, Doing
<1> QED
  BY <1>1, <1>2, <1>3, <1>4, <1>5, AnswersKeeps

\* A write has drained.
LEMMA WriteDrainsKeeps == TInv /\ WriteDrains => TInv'
<1> SUFFICES ASSUME TInv, WriteDrains PROVE TInv'
  OBVIOUS
<1>1. rpc.phase = "waiting" /\ rpc.op = "write" /\ rpc.n \in Int /\ Answers(rpc.n)
  BY DEF WriteDrains, Awaits, TInv, TransportTypeOK
<1>2. UNCHANGED <<closed, charged, workerVars, mishap>>
  BY DEF WriteDrains, KeepsTable, KeepsHistory, KeepsWorker, brokerVars, workerVars
<1>3. PICK r \in Int : r = rpc.n
  BY <1>1
<1>4. ~ SettingUp /\ ~ ReadsOn
  BY <1>1 DEF SettingUp, ReadsOn, Doing
<1>5. mishap \subseteq Mishaps
  BY DEF TInv, TransportTypeOK, Mishaps
<1> QED
  BY <1>1, <1>2, <1>3, <1>4, <1>5, AnswersKeeps

\* A write has not, or its socket is gone.
LEMMA WriteFailsKeeps == TInv /\ WriteFails => TInv'
<1> SUFFICES ASSUME TInv, WriteFails PROVE TInv'
  OBVIOUS
<1>1. /\ rpc.phase \in {"posted", "waiting"} /\ rpc.op = "write" /\ Answers(-1)
      /\ rpc.phase = "waiting" => "writeFailed" \in mishap'
      /\ mishap' = mishap \/ mishap' = mishap \cup {"writeFailed"}
  BY DEF WriteFails, Awaits, Serves
<1>2. UNCHANGED <<closed, charged, workerVars>>
  BY DEF WriteFails, KeepsTable, KeepsHistory, KeepsWorker, brokerVars, workerVars
<1>3. mishap \subseteq Mishaps
  BY DEF TInv, TransportTypeOK, Mishaps
<1>4. mishap \subseteq mishap' /\ mishap' \subseteq Mishaps
  BY <1>1, <1>3 DEF Mishaps
<1>5. PICK r \in Int : r = -1 /\ Answers(r)
  BY <1>1
<1>6. ~ SettingUp /\ ~ ReadsOn
  BY <1>1 DEF SettingUp, ReadsOn, Doing
<1> QED
  BY <1>1, <1>2, <1>4, <1>5, <1>6, AnswersKeeps

\* A read is given up.
LEMMA ReadTimesOutKeeps == TInv /\ ReadTimesOut => TInv'
<1> SUFFICES ASSUME TInv, ReadTimesOut PROVE TInv'
  OBVIOUS
<1>1. rpc.phase = "waiting" /\ rpc.op = "read" /\ Answers(-1) /\ mishap' = mishap \cup {"readFailed"}
  BY DEF ReadTimesOut, Awaits
<1>2. UNCHANGED <<closed, charged, workerVars>>
  BY DEF ReadTimesOut, KeepsTable, KeepsHistory, KeepsWorker, brokerVars, workerVars
<1>3. mishap \subseteq Mishaps
  BY DEF TInv, TransportTypeOK, Mishaps
<1>4. ~ SettingUp
  BY <1>1 DEF SettingUp
<1>5. mishap \subseteq mishap' /\ mishap' \subseteq Mishaps /\ "readFailed" \in mishap'
  BY <1>1, <1>3 DEF Mishaps
<1>6. PICK r \in Int : r = -1 /\ Answers(r)
  BY <1>1
<1> QED
  BY <1>1, <1>2, <1>4, <1>5, <1>6, AnswersKeeps

-----------------------------------------------------------------------------
(* The broker's own steps.                                                 *)

\* The broker closes, on a deadline or when told to.
LEMMA BrokerEndsKeeps == TInv /\ (BrokerTimesOut \/ CloseBroker) => TInv'
<1> SUFFICES ASSUME TInv, BrokerTimesOut \/ CloseBroker PROVE TInv'
  OBVIOUS
<1>1. closed' = TRUE /\ UNCHANGED <<charged, rpc, worker, handles, nextHandle, sockets, handed, cancelled, mishap>>
  BY DEF BrokerTimesOut, CloseBroker, workerVars
<1>2. TransportTypeOK' /\ Admitted'
  BY <1>1 DEF TInv, TransportTypeOK, Admitted, Doing
<1>3. Opened' = Opened /\ Fresh' = Fresh /\ Authorities' = Authorities /\ FreshAuthority' = FreshAuthority
  BY <1>1 DEF Opened, Fresh, Authorities, FreshAuthority, Doing
<1>4. OwedCancel' = OwedCancel /\ Using' = Using /\ OwedBytes' = OwedBytes /\ OwedWrite' = OwedWrite
  BY <1>1 DEF OwedCancel, Using, OwedBytes, OwedWrite, Doing
<1>kinds. KindsStay /\ HandlesStay /\ BusyStays
  BY <1>1, <1>3, <1>4 DEF KindsStay, HandlesStay, BusyStays, Busy, Fresh, Doing
<1>5. SocketsCharged' /\ KindsSound' /\ CancelsCharged' /\ BytesCharged' /\ WritesCharged'
  BY <1>kinds, <1>1, <1>3, <1>4, BytesStay, KindsFrame, SocketsFrame, CancelsFrame, BytesFrame, WritesFrame
<1>6. HandlesSound'
  BY <1>1 DEF TInv, HandlesSound, SettingUp, Named, Opened, InTransition
<1>7. Flows'
  BY <1>1, FlowsFrame
<1> QED
  BY <1>2, <1>5, <1>6, <1>7 DEF TInv

\* The broker charges what a reply owes, and owes nothing after it.
LEMMA BrokerReturnsKeeps == TInv /\ BrokerReturns => TInv'
<1> SUFFICES ASSUME TInv, BrokerReturns PROVE TInv'
  OBVIOUS
<1>1. /\ rpc.phase = "answered" /\ closed' = closed
      /\ UNCHANGED <<worker, handles, nextHandle, sockets, handed, cancelled, mishap>>
  BY DEF BrokerReturns, workerVars
<1>2. /\ rpc' \in RpcType /\ rpc'.phase = "none" /\ rpc'.op = "none"
  <2>1. NoRequest \in RpcType
    BY DEF NoRequest, RpcType, Phases, Ops, NoSocket
  <2> QED
    BY <2>1 DEF BrokerReturns, NoRequest
<1>3. /\ charged \in [{"connections", "read", "write", "cancelHandles", "cancels"} -> Nat]
      /\ rpc.result \in Int /\ rpc.n \in Nat
      /\ rpc.op = "read" \/ rpc.op = "write" => rpc.n > 0
  BY DEF TInv, TransportTypeOK, Admitted
<1>4. /\ charged' \in [{"connections", "read", "write", "cancelHandles", "cancels"} -> Nat]
      /\ charged'.connections = charged.connections + (IF rpc.op = "connect" /\ rpc.result > 0 THEN 1 ELSE 0)
      /\ charged'.read = charged.read + OwedBytes
      /\ charged'.write = charged.write + OwedWrite
      /\ charged'.cancelHandles = charged.cancelHandles +
           (IF rpc.op = "cancel-register" /\ rpc.result > 0 THEN 1 ELSE 0)
      /\ charged'.cancels = charged.cancels + OwedCancel
  <2>1. rpc.op = "write" => rpc.result = rpc.n \/ rpc.result = -1
    BY <1>1 DEF TInv, Admitted, Doing
  <2>2. /\ OwedBytes = (IF rpc.op = "read" /\ rpc.result > 0 THEN rpc.result ELSE 0)
        /\ OwedWrite = (IF rpc.op = "write" /\ rpc.result > 0 THEN rpc.result ELSE 0)
        /\ OwedCancel = (IF rpc.op = "cancel" /\ rpc.result = 0 THEN 1 ELSE 0)
    BY <1>1, <2>1 DEF OwedBytes, OwedWrite, OwedCancel, Using, Doing
  <2>3. OwedBytes \in Nat /\ OwedWrite \in Nat /\ OwedCancel \in Nat
    BY <1>3, <2>2
  <2>4. PICK c, m : /\ c = (IF rpc.op = "connect" /\ rpc.result > 0 THEN 1 ELSE 0)
                    /\ m = (IF rpc.op = "cancel-register" /\ rpc.result > 0 THEN 1 ELSE 0)
    OBVIOUS
  <2>5. c \in Nat /\ m \in Nat
    BY <2>4
  <2>6. charged' = [charged EXCEPT !.connections = @ + c, !.read = @ + OwedBytes, !.write = @ + OwedWrite,
                                   !.cancelHandles = @ + m, !.cancels = @ + OwedCancel]
    BY <2>2, <2>4 DEF BrokerReturns, Counters
  <2>7. PICK bytes \in Nat, w \in Nat, k \in Nat : bytes = OwedBytes /\ w = OwedWrite /\ k = OwedCancel
    BY <2>3
  <2>8. charged' = [charged EXCEPT !.connections = @ + c, !.read = @ + bytes, !.write = @ + w,
                                   !.cancelHandles = @ + m, !.cancels = @ + k]
    BY <2>6, <2>7
  <2>9. /\ charged'.connections = charged.connections + c /\ charged'.read = charged.read + bytes
        /\ charged'.write = charged.write + w /\ charged'.cancelHandles = charged.cancelHandles + m
        /\ charged'.cancels = charged.cancels + k
    BY <1>3, <2>8
  <2>10. charged' \in [{"connections", "read", "write", "cancelHandles", "cancels"} -> Nat]
    <3>1. /\ charged.connections + c \in Nat /\ charged.read + bytes \in Nat /\ charged.write + w \in Nat
          /\ charged.cancelHandles + m \in Nat /\ charged.cancels + k \in Nat
      BY <1>3, <2>5
    <3>2. charged' = [f \in {"connections", "read", "write", "cancelHandles", "cancels"} |-> charged'[f]]
      BY <1>3, <2>8
    <3> QED
      BY <2>9, <3>1, <3>2
  <2> QED
    BY <2>4, <2>7, <2>9, <2>10
<1>5. TransportTypeOK'
  BY <1>1, <1>2, <1>4 DEF TInv, TransportTypeOK, RpcType
<1>6. Admitted'
  <2>1. /\ charged'.connections <= maxConnections /\ charged'.read <= maxReadBytes
        /\ charged'.write <= maxWriteBytes /\ charged'.cancels <= maxCancelRequests
    BY <1>1, <1>3, <1>4, QuotasAssumption DEF TInv, Admitted, OwedBytes, OwedWrite, OwedCancel, Using, Doing
  <2> QED
    BY <1>2, <2>1 DEF Admitted, Doing
<1>7. Fresh' = {} /\ FreshAuthority' = {} /\ OwedCancel' = 0 /\ Using' = 0 /\ OwedBytes' = 0 /\ OwedWrite' = 0
  BY <1>2 DEF Fresh, FreshAuthority, OwedCancel, Using, OwedBytes, OwedWrite, Doing
<1>8. Opened' = Opened /\ Authorities' = Authorities /\ BytesGot' = BytesGot
  BY <1>1, BytesStay DEF Opened, Authorities
<1>9. SocketsCharged' /\ KindsSound'
  <2>1. KindsStay /\ HandlesStay /\ BusyStays
    BY <1>1, <1>2, <1>7 DEF KindsStay, HandlesStay, BusyStays, Busy
  <2>2. OpenConnections' = OpenConnections /\ OpenCancels' = OpenCancels
    BY <1>1, <1>8 DEF OpenConnections, OpenCancels
  <2>3. OpenConnections \in SUBSET DOMAIN sockets /\ OpenCancels \in SUBSET DOMAIN sockets
    BY DEF OpenConnections, OpenCancels, Opened
  <2>4. /\ IsFiniteSet(OpenConnections) /\ IsFiniteSet(OpenCancels)
        /\ Cardinality(OpenConnections) \in Nat /\ Cardinality(OpenCancels) \in Nat
    BY <2>3, Finitely
  <2>5. /\ Cardinality(OpenConnections \ Fresh) <= charged.connections
        /\ Cardinality(OpenCancels \ Fresh) <= charged.cancels
    BY DEF TInv, SocketsCharged
  <2>6. /\ Cardinality(OpenConnections) <= charged'.connections
        /\ Cardinality(OpenCancels) <= charged'.cancels
    <3>1. CASE Fresh = {}
      <4>1. OpenConnections \ Fresh = OpenConnections /\ OpenCancels \ Fresh = OpenCancels
        BY <3>1
      <4>2. charged.connections <= charged'.connections /\ charged.cancels <= charged'.cancels
        BY <1>3, <1>4 DEF OwedCancel
      <4> QED
        BY <1>3, <1>4, <2>4, <2>5, <4>1, <4>2
    <3>2. CASE Fresh # {}
      <4>1. /\ Fresh = {rpc.socket} /\ (sockets[rpc.socket].cancels <=> rpc.op = "cancel")
            /\ (rpc.op = "connect" /\ rpc.result > 0) \/ (rpc.op = "cancel" /\ rpc.result = 0)
        BY <1>1, <3>2 DEF TInv, KindsSound, Busy, Fresh, Doing
      <4>2. CASE rpc.op = "connect" /\ rpc.result > 0
        <5>1. OpenCancels \ Fresh = OpenCancels
          BY <4>1, <4>2 DEF OpenCancels, OpenConnections
        <5>2. Cardinality(OpenConnections) <= Cardinality(OpenConnections \ {rpc.socket}) + 1
          BY <2>4, OneMore
        <5>3. /\ charged'.connections = charged.connections + 1
              /\ charged.cancels <= charged'.cancels
          BY <1>3, <1>4, <4>2 DEF OwedCancel
        <5>4. Cardinality(OpenConnections \ {rpc.socket}) \in Nat
          BY <2>4, PartIsSmaller
        <5> QED
          BY <1>3, <1>4, <2>4, <2>5, <4>1, <5>1, <5>2, <5>3, <5>4
      <4>3. CASE rpc.op = "cancel" /\ rpc.result = 0
        <5>1. OpenConnections \ Fresh = OpenConnections
          BY <4>1, <4>3 DEF OpenConnections
        <5>2. Cardinality(OpenCancels) <= Cardinality(OpenCancels \ {rpc.socket}) + 1
          BY <2>4, OneMore
        <5>3. /\ charged'.cancels = charged.cancels + 1
              /\ charged'.connections = charged.connections
          BY <1>1, <1>3, <1>4, <4>3 DEF OwedCancel, Doing
        <5>4. Cardinality(OpenCancels \ {rpc.socket}) \in Nat
          BY <2>4, PartIsSmaller
        <5>5. Cardinality(OpenCancels \ {rpc.socket}) <= charged.cancels
          BY <2>5, <4>1
        <5>6. Cardinality(OpenCancels) <= charged'.cancels
          BY <1>3, <2>4, <5>2, <5>3, <5>4, <5>5
        <5> QED
          BY <2>5, <5>1, <5>3, <5>6
      <4> QED
        BY <4>1, <4>2, <4>3
    <3> QED
      BY <3>1, <3>2
  <2>7. OpenConnections' \ Fresh' = OpenConnections /\ OpenCancels' \ Fresh' = OpenCancels
    BY <1>7, <2>2
  <2>8. SocketsCharged'
    BY <2>6, <2>7 DEF SocketsCharged
  <2> QED
    BY <2>1, <2>8, KindsFrame
<1>10. CancelsCharged'
  <2>1. Authorities \in SUBSET DOMAIN handles
    BY DEF Authorities
  <2>2. IsFiniteSet(Authorities) /\ IsFiniteSet(Authorities \ {rpc.result}) /\ Cardinality(Authorities) \in Nat
    BY <2>1, Finitely, FS_Subset
  <2>3. Cardinality(Authorities) <= Cardinality(Authorities \ {rpc.result}) + 1
    <3>1. Cardinality(Authorities \ {rpc.result}) = IF rpc.result \in Authorities THEN Cardinality(Authorities) - 1
                                                    ELSE Cardinality(Authorities)
      BY <2>2, FS_RemoveElement
    <3> QED
      BY <2>2, <3>1
  <2>4. Cardinality(Authorities \ {rpc.result}) \in Nat
    BY <2>2, FS_CardinalityType
  <2>5. /\ Cardinality(Authorities \ FreshAuthority) + cancelled <= charged.cancelHandles
        /\ "cancelFailed" \notin mishap => cancelled <= charged.cancels + OwedCancel
        /\ cancelled \in Nat
    <3>1. /\ Cardinality(Authorities \ FreshAuthority) + cancelled + Using <= charged.cancelHandles
          /\ Using = 0 /\ cancelled \in Nat
      BY <1>1 DEF TInv, CancelsCharged, TransportTypeOK, Using, Doing
    <3>2. Cardinality(Authorities \ FreshAuthority) \in Nat
      BY <2>2, PartIsSmaller
    <3> QED
      BY <3>1, <3>2 DEF TInv, CancelsCharged
  <2>6. charged.cancels + OwedCancel \in Nat
    BY <1>3 DEF OwedCancel
  <2>7. "cancelFailed" \notin mishap' => cancelled' <= charged'.cancels + OwedCancel'
    BY <1>1, <1>4, <1>7, <2>5, <2>6
  <2>8. PICK all, others, c :
           all = Cardinality(Authorities) /\ others = Cardinality(Authorities \ {rpc.result}) /\ c = cancelled
    OBVIOUS
  <2>9. Authorities' \ FreshAuthority' = Authorities
    BY <1>7, <1>8
  <2>10. all + c + Using' <= charged'.cancelHandles
    <3>1. CASE rpc.op = "cancel-register" /\ rpc.result > 0
      <4>1. FreshAuthority = {rpc.result}
        BY <1>1, <3>1 DEF FreshAuthority, Doing
      <4>2. charged'.cancelHandles = charged.cancelHandles + 1 /\ charged.cancelHandles \in Nat
        BY <1>3, <1>4, <3>1
      <4>3. others + c <= charged.cancelHandles
        BY <2>5, <2>8, <4>1
      <4> QED
        BY <1>7, <2>2, <2>3, <2>4, <2>5, <2>8, <4>2, <4>3
    <3>2. CASE ~ (rpc.op = "cancel-register" /\ rpc.result > 0)
      <4>1. FreshAuthority = {}
        BY <1>1, <3>2 DEF FreshAuthority, Doing
      <4>2. charged'.cancelHandles = charged.cancelHandles /\ charged.cancelHandles \in Nat
        BY <1>3, <1>4, <3>2
      <4>3. Authorities \ FreshAuthority = Authorities
        BY <4>1
      <4> QED
        BY <1>7, <2>2, <2>5, <2>8, <4>2, <4>3
    <3> QED
      BY <3>1, <3>2
  <2> QED
    BY <1>1, <2>7, <2>8, <2>9, <2>10 DEF CancelsCharged
<1>11. BytesCharged'
  <2>1. BytesGot = charged.read + OwedBytes /\ BytesGot \in Nat
    BY Finitely DEF TInv, BytesCharged
  <2> QED
    BY <1>4, <1>7, <1>8, <2>1 DEF BytesCharged
<1>12. WritesCharged'
  <2>1. "writeFailed" \notin mishap => handed = charged.write + OwedWrite
    BY DEF TInv, WritesCharged
  <2>2. handed \in Nat
    BY WorldAssumption DEF TInv, TransportTypeOK
  <2> QED
    BY <1>1, <1>4, <1>7, <2>1, <2>2 DEF WritesCharged
<1>13. HandlesSound'
  <2>1. ~ SettingUp /\ ~ SettingUp'
    BY <1>1, <1>2 DEF SettingUp
  <2> QED
    BY <1>1, <1>8, <2>1, HandlesFrame DEF KindsStay
<1>14. Flows'
  <2>1. ~ ReadsOn
    BY <1>1 DEF ReadsOn, Doing
  <2> QED
    BY <1>1, <2>1, FlowsFrame
<1> QED
  BY <1>5, <1>6, <1>9, <1>10, <1>11, <1>12, <1>13, <1>14 DEF TInv

-----------------------------------------------------------------------------
(* The steps that destroy sockets or delete handles.                       *)

SocketType ==
  [open : BOOLEAN, cancels : BOOLEAN, flowing : BOOLEAN, ended : BOOLEAN,
   arrived : 0..MaxArrived, head : Nat, got : Nat]
HandleType == [kind : {"tcp", "tls", "pg-cancel"}, socket : DOMAIN sockets \cup {NoSocket}]

\* What is known of each variable in a state of the invariant.
LEMMA Facts ==
  ASSUME TInv
  PROVE /\ TransportTypeOK
        /\ closed \in BOOLEAN /\ worker \in {"up", "down"} /\ nextHandle \in Nat \ {0}
        /\ rpc \in RpcType /\ handed \in 0..MaxHanded /\ handed \in Nat /\ cancelled \in Nat /\ mishap \subseteq Mishaps
        /\ charged \in [{"connections", "read", "write", "cancelHandles", "cancels"} -> Nat]
        /\ DOMAIN handles \subseteq 1..(nextHandle - 1)
        /\ \A h \in DOMAIN handles : handles[h] \in HandleType
        /\ \A s \in DOMAIN sockets : sockets[s] \in SocketType
        /\ \A s \in DOMAIN sockets : sockets[s].got <= sockets[s].head /\ sockets[s].head <= sockets[s].arrived
        /\ NoSocket \notin DOMAIN sockets /\ DOMAIN sockets \subseteq Nat
<1>1. /\ TransportTypeOK
      /\ closed \in BOOLEAN /\ worker \in {"up", "down"} /\ nextHandle \in Nat \ {0}
      /\ rpc \in RpcType /\ handed \in 0..MaxHanded /\ cancelled \in Nat /\ mishap \subseteq Mishaps
      /\ charged \in [{"connections", "read", "write", "cancelHandles", "cancels"} -> Nat]
  BY Zenon DEF TInv, TransportTypeOK, RpcType, Mishaps
<1>2. /\ DOMAIN handles \subseteq 1..(nextHandle - 1)
      /\ \A h \in DOMAIN handles : handles[h] \in HandleType
  BY Zenon DEF TInv, TransportTypeOK, HandleType
<1>3. /\ \A s \in DOMAIN sockets : sockets[s] \in SocketType
      /\ \A s \in DOMAIN sockets : sockets[s].got <= sockets[s].head /\ sockets[s].head <= sockets[s].arrived
  BY Zenon DEF TInv, TransportTypeOK, SocketType
<1>4. NoSocket \notin DOMAIN sockets /\ DOMAIN sockets \subseteq Nat
  <2>1. PICK n \in Nat : DOMAIN sockets = 1 .. n
    BY Zenon DEF TInv, HandlesSound
  <2> QED
    BY <2>1 DEF NoSocket
<1>5. handed \in Nat
  BY <1>1
<1> QED
  BY <1>1, <1>2, <1>3, <1>4, <1>5

\* The sockets of a state whose sockets were destroyed at most.
LEMMA SocketsDestroyed ==
  ASSUME TInv, NEW S, Destroys(S)
  PROVE /\ DOMAIN sockets' = DOMAIN sockets /\ Opened' = Opened \ S /\ BytesGot' = BytesGot /\ KindsStay
        /\ \A s \in DOMAIN sockets :
             /\ sockets'[s] \in SocketType
             /\ sockets'[s].got <= sockets'[s].head /\ sockets'[s].head <= sockets'[s].arrived
             /\ sockets'[s].flowing = sockets[s].flowing /\ sockets'[s].ended = sockets[s].ended
             /\ sockets'[s].arrived = sockets[s].arrived /\ sockets'[s].head = sockets[s].head
             /\ sockets'[s].got = sockets[s].got
<1>1. /\ DOMAIN sockets' = DOMAIN sockets /\ Opened' = Opened \ S /\ KindsStay
      /\ \A s \in DOMAIN sockets :
             /\ sockets'[s] \in SocketType
             /\ sockets'[s].flowing = sockets[s].flowing /\ sockets'[s].ended = sockets[s].ended
             /\ sockets'[s].arrived = sockets[s].arrived /\ sockets'[s].head = sockets[s].head
             /\ sockets'[s].got = sockets[s].got
  BY Facts, DestroyFacts, Zenon DEF SocketType, KindsStay
<1> QED
  BY <1>1, Facts, BytesStay

\* The types of the next state, from those of its parts.
LEMMA TypesFromFacts ==
  ASSUME TInv, charged' = charged, rpc' \in RpcType, closed' \in BOOLEAN, worker' \in {"up", "down"},
         nextHandle' \in Nat \ {0}, DOMAIN handles' \subseteq 1..(nextHandle' - 1),
         \A h \in DOMAIN handles' : handles'[h] \in HandleType',
         \A s \in DOMAIN sockets' :
           /\ sockets'[s] \in SocketType
           /\ sockets'[s].got <= sockets'[s].head /\ sockets'[s].head <= sockets'[s].arrived,
         handed' \in 0..MaxHanded, cancelled' \in Nat, mishap' \subseteq Mishaps
  PROVE TransportTypeOK'
BY Facts, TypesKept, Zenon DEF HandleType, SocketType, Mishaps

\* The worker is terminated or dies.
LEMMA WorkerEndsKeeps == TInv /\ WorkerEnds => TInv'
<1> SUFFICES ASSUME TInv, WorkerEnds PROVE TInv'
  OBVIOUS
<1>1. /\ worker' = "down" /\ closed' = closed /\ charged' = charged
      /\ UNCHANGED <<rpc, handles, nextHandle, handed, cancelled, mishap>>
  BY DEF WorkerEnds, brokerVars
<1>2. PICK S : S = DOMAIN sockets /\ Destroys(S)
  BY DEF WorkerEnds
<1>3. /\ DOMAIN sockets' = DOMAIN sockets /\ Opened' = {} /\ BytesGot' = BytesGot /\ KindsStay
      /\ \A s \in DOMAIN sockets :
             /\ sockets'[s] \in SocketType
             /\ sockets'[s].got <= sockets'[s].head /\ sockets'[s].head <= sockets'[s].arrived
             /\ sockets'[s].flowing = sockets[s].flowing /\ sockets'[s].ended = sockets[s].ended
             /\ sockets'[s].arrived = sockets[s].arrived /\ sockets'[s].head = sockets[s].head
             /\ sockets'[s].got = sockets[s].got
  BY <1>2, SocketsDestroyed DEF Opened
<1>4. TransportTypeOK'
  BY <1>1, <1>3, Facts, TypesFromFacts DEF HandleType
<1>5. Admitted'
  BY <1>1, <1>3 DEF TInv, Admitted, Doing
<1>6. /\ Authorities' = Authorities /\ FreshAuthority' = FreshAuthority
      /\ OwedCancel' = OwedCancel /\ Using' = Using /\ OwedBytes' = OwedBytes /\ OwedWrite' = OwedWrite
  BY <1>1 DEF Authorities, FreshAuthority, OwedCancel, Using, OwedBytes, OwedWrite, Doing
<1>kinds. KindsStay /\ HandlesStay /\ BusyStays
  BY <1>1, <1>3, <1>6 DEF KindsStay, HandlesStay, BusyStays, Busy, Fresh, Doing
<1>7. SocketsCharged' /\ KindsSound' /\ CancelsCharged' /\ BytesCharged' /\ WritesCharged'
  BY <1>kinds, <1>1, <1>3, <1>6, KindsFrame, SocketsFrame, CancelsFrame, BytesFrame, WritesFrame
<1>8. HandlesSound'
  BY <1>1, <1>3 DEF TInv, HandlesSound, SettingUp, Named
<1>9. Flows'
  BY <1>1, <1>3, FlowsFrame
<1> QED
  BY <1>4, <1>5, <1>7, <1>8, <1>9 DEF TInv

\* A connection is not made or not upgraded, and its socket destroyed.
LEMMA SetupFailsKeeps == TInv /\ SetupFails => TInv'
<1> SUFFICES ASSUME TInv, SetupFails PROVE TInv'
  OBVIOUS
<1>1. /\ rpc.phase = "waiting" /\ rpc.op \in {"connect", "tls"} /\ Answers(0)
      /\ UNCHANGED <<closed, charged, worker, handles, nextHandle, handed, cancelled, mishap>>
  BY DEF SetupFails, Awaits, KeepsTable, KeepsHistory, KeepsWorker, brokerVars
<1>2. /\ rpc' \in RpcType /\ rpc'.phase = "answered" /\ rpc'.result = 0
      /\ rpc'.op = rpc.op /\ rpc'.n = rpc.n /\ rpc'.socket = rpc.socket
  BY <1>1, Facts, AnswerFacts
<1>3. PICK S : S = {rpc.socket} /\ Destroys(S)
  BY DEF SetupFails
<1>4. /\ DOMAIN sockets' = DOMAIN sockets /\ Opened' = Opened \ {rpc.socket} /\ BytesGot' = BytesGot /\ KindsStay
      /\ \A s \in DOMAIN sockets :
             /\ sockets'[s] \in SocketType
             /\ sockets'[s].got <= sockets'[s].head /\ sockets'[s].head <= sockets'[s].arrived
             /\ sockets'[s].flowing = sockets[s].flowing /\ sockets'[s].ended = sockets[s].ended
             /\ sockets'[s].arrived = sockets[s].arrived /\ sockets'[s].head = sockets[s].head
             /\ sockets'[s].got = sockets[s].got
  BY <1>3, SocketsDestroyed
<1>5. TransportTypeOK'
  BY <1>1, <1>2, <1>4, Facts, TypesFromFacts DEF HandleType
<1>6. Admitted'
  BY <1>1, <1>2 DEF TInv, Admitted, Doing
<1>7. Opened' \ Fresh' \subseteq Opened \ Fresh
  BY <1>1, <1>2, <1>4 DEF Fresh, Doing
<1>8. /\ Authorities' = Authorities /\ FreshAuthority' = FreshAuthority
      /\ OwedCancel' = OwedCancel /\ Using' = Using /\ OwedBytes' = OwedBytes /\ OwedWrite' = OwedWrite
  BY <1>1, <1>2 DEF Authorities, FreshAuthority, OwedCancel, Using, OwedBytes, OwedWrite, Doing
<1>kinds. KindsStay /\ HandlesStay /\ BusyStays
  BY <1>1, <1>2, <1>4, <1>7, <1>8 DEF KindsStay, HandlesStay, BusyStays, Busy, Fresh, Doing
<1>9. SocketsCharged' /\ KindsSound' /\ CancelsCharged' /\ BytesCharged' /\ WritesCharged'
  BY <1>kinds, <1>1, <1>4, <1>7, <1>8, KindsFrame, SocketsFrame, CancelsFrame, BytesFrame, WritesFrame
<1>10. HandlesSound'
  <2>1. ~ SettingUp' /\ \A s \in Opened' : s \in Opened /\ ~ InTransition(s)
    BY <1>2, <1>4 DEF SettingUp, InTransition
  <2>2. \A s : Named(s)' <=> Named(s)
    BY <1>1 DEF Named
  <2>3. \A s \in Opened' : sockets'[s].cancels = sockets[s].cancels
    BY <1>4 DEF KindsStay, Opened
  <2> QED
    BY <1>1, <1>4, <2>1, <2>2, <2>3 DEF TInv, HandlesSound
<1>11. Flows'
  BY <1>1, <1>4, FlowsFrame DEF ReadsOn, Doing
<1> QED
  BY <1>5, <1>6, <1>9, <1>10, <1>11 DEF TInv

\* A socket breaks under a read or a write.
LEMMA SocketBreaksKeeps == ASSUME TInv, NEW s \in DOMAIN sockets, SocketBreaks(s) PROVE TInv'
<1>1. /\ rpc.phase = "waiting" /\ rpc.op \in {"read", "write"} /\ Answers(-1)
      /\ UNCHANGED <<closed, charged, worker, handles, nextHandle, handed, cancelled>>
      /\ Destroys({s}) /\ mishap \subseteq mishap'
      /\ rpc.op = "read" => "readFailed" \in mishap'
      /\ rpc.op = "write" => "writeFailed" \in mishap'
      /\ mishap' = mishap \cup {"readFailed"} \/ mishap' = mishap \cup {"writeFailed"}
  BY DEF SocketBreaks, brokerVars
<1>2. /\ rpc' \in RpcType /\ rpc'.phase = "answered" /\ rpc'.result = -1
      /\ rpc'.op = rpc.op /\ rpc'.n = rpc.n /\ rpc'.socket = rpc.socket
  BY <1>1, Facts, AnswerFacts
<1>3. mishap' \subseteq Mishaps
  BY <1>1, Facts DEF Mishaps
<1>4. /\ DOMAIN sockets' = DOMAIN sockets /\ Opened' = Opened \ {s} /\ BytesGot' = BytesGot /\ KindsStay
      /\ \A x \in DOMAIN sockets :
             /\ sockets'[x] \in SocketType
             /\ sockets'[x].got <= sockets'[x].head /\ sockets'[x].head <= sockets'[x].arrived
             /\ sockets'[x].flowing = sockets[x].flowing /\ sockets'[x].ended = sockets[x].ended
             /\ sockets'[x].arrived = sockets[x].arrived /\ sockets'[x].head = sockets[x].head
             /\ sockets'[x].got = sockets[x].got
  BY <1>1, SocketsDestroyed
<1>5. TransportTypeOK'
  BY <1>1, <1>2, <1>3, <1>4, Facts, TypesFromFacts DEF HandleType
<1>6. Admitted'
  <2>1. rpc.n \in Nat /\ (rpc.op = "read" => -1 <= rpc.n)
    BY Facts DEF RpcType
  <2> QED
    BY <1>1, <1>2, <2>1 DEF TInv, Admitted, Doing
<1>7. Opened' \ Fresh' \subseteq Opened \ Fresh
  BY <1>1, <1>2, <1>4 DEF Fresh, Doing
<1>8. /\ Authorities' = Authorities /\ FreshAuthority' = FreshAuthority
      /\ OwedCancel' = OwedCancel /\ Using' = Using /\ OwedBytes' = OwedBytes
      /\ OwedWrite' = OwedWrite \/ "writeFailed" \in mishap'
  BY <1>1, <1>2 DEF Authorities, FreshAuthority, OwedCancel, Using, OwedBytes, OwedWrite, Doing
<1>kinds. KindsStay /\ HandlesStay /\ BusyStays
  BY <1>1, <1>2, <1>4, <1>7, <1>8 DEF KindsStay, HandlesStay, BusyStays, Busy, Fresh, Doing
<1>9. SocketsCharged' /\ KindsSound' /\ CancelsCharged' /\ BytesCharged' /\ WritesCharged'
  BY <1>kinds, <1>1, <1>4, <1>7, <1>8, KindsFrame, SocketsFrame, CancelsFrame, BytesFrame, WritesFrame
<1>10. HandlesSound'
  <2>1. ~ SettingUp' /\ ~ SettingUp
    BY <1>1, <1>2 DEF SettingUp
  <2> QED
    BY <1>1, <1>4, <2>1, HandlesFrame
<1>11. Flows'
  BY <1>1, <1>4, FlowsFrame DEF ReadsOn, Doing
<1> QED
  BY <1>5, <1>6, <1>9, <1>10, <1>11 DEF TInv

\* A handle is deleted; its socket may be destroyed.
LEMMA WithoutFacts ==
  ASSUME TInv, handles' = WithoutHandle(rpc.handle), nextHandle' = nextHandle, DOMAIN sockets' = DOMAIN sockets
  PROVE /\ DOMAIN handles' = DOMAIN handles \ {rpc.handle}
        /\ \A h \in DOMAIN handles' : handles'[h] = handles[h] /\ handles'[h] \in HandleType'
        /\ DOMAIN handles' \subseteq 1..(nextHandle' - 1)
        /\ Authorities' = Authorities \ {rpc.handle}
<1>1. /\ DOMAIN handles' = DOMAIN handles \ {rpc.handle}
      /\ \A h \in DOMAIN handles' : handles'[h] = handles[h]
  BY DEF WithoutHandle
<1>2. \A h \in DOMAIN handles' : handles'[h] \in HandleType'
  BY <1>1, Facts DEF HandleType
<1>3. DOMAIN handles' \subseteq 1..(nextHandle' - 1)
  BY <1>1, Facts
<1>4. Authorities' = Authorities \ {rpc.handle}
  BY <1>1 DEF Authorities
<1> QED
  BY <1>1, <1>2, <1>3, <1>4

\* An answered request whose handle is deleted and whose socket is destroyed.
LEMMA DeletesKeeps ==
  ASSUME TInv, NEW r \in Int, Answers(r), r <= 0, rpc.phase = "posted", rpc.op \in {"tls", "close"},
         handles' = WithoutHandle(rpc.handle), IF IsHandle THEN Destroys({Socket}) ELSE UNCHANGED sockets,
         UNCHANGED <<closed, charged, worker, nextHandle, handed, cancelled, mishap>>
  PROVE TInv'
<1>1. /\ rpc' \in RpcType /\ rpc'.phase = "answered" /\ rpc'.result = r
      /\ rpc'.op = rpc.op /\ rpc'.n = rpc.n /\ rpc'.socket = rpc.socket
  BY Facts, AnswerFacts
<1>2. PICK S : S = IF IsHandle THEN {Socket} ELSE {}
  OBVIOUS
<1>3. /\ DOMAIN sockets' = DOMAIN sockets /\ Opened' = Opened \ S /\ BytesGot' = BytesGot /\ KindsStay
      /\ \A s \in DOMAIN sockets :
             /\ sockets'[s] \in SocketType
             /\ sockets'[s].got <= sockets'[s].head /\ sockets'[s].head <= sockets'[s].arrived
             /\ sockets'[s].flowing = sockets[s].flowing /\ sockets'[s].ended = sockets[s].ended
             /\ sockets'[s].arrived = sockets[s].arrived /\ sockets'[s].head = sockets[s].head
             /\ sockets'[s].got = sockets[s].got
  <2>1. CASE IsHandle
    BY <1>2, <2>1, SocketsDestroyed
  <2>2. CASE ~ IsHandle
    <3>1. sockets' = sockets /\ S = {}
      BY <1>2, <2>2
    <3>2. Opened' = Opened /\ KindsStay
      BY <3>1 DEF Opened, KindsStay
    <3> QED
      BY <3>1, <3>2, Facts, BytesStay
  <2> QED
    BY <2>1, <2>2
<1>4. /\ DOMAIN handles' = DOMAIN handles \ {rpc.handle}
      /\ \A h \in DOMAIN handles' : handles'[h] = handles[h] /\ handles'[h] \in HandleType'
      /\ DOMAIN handles' \subseteq 1..(nextHandle' - 1)
      /\ Authorities' = Authorities \ {rpc.handle}
  BY <1>3, WithoutFacts
<1>5. TransportTypeOK'
  BY <1>1, <1>3, <1>4, Facts, TypesFromFacts
<1>6. Admitted'
  BY <1>1 DEF TInv, Admitted, Doing
<1>7. /\ Fresh' = {} /\ Fresh = {} /\ FreshAuthority' = {} /\ FreshAuthority = {}
      /\ OwedCancel' = OwedCancel /\ Using' = Using /\ OwedBytes' = OwedBytes /\ OwedWrite' = OwedWrite
      /\ ~ SettingUp /\ ~ SettingUp' /\ ~ ReadsOn
  BY <1>1 DEF Fresh, FreshAuthority, OwedCancel, Using, OwedBytes, OwedWrite, SettingUp, ReadsOn, Doing
<1>kinds. KindsStay /\ HandlesStay /\ BusyStays
  BY <1>1, <1>3, <1>4, <1>7 DEF KindsStay, HandlesStay, BusyStays, Busy, Fresh, Doing
<1>8. SocketsCharged' /\ KindsSound' /\ CancelsCharged' /\ BytesCharged' /\ WritesCharged'
  BY <1>kinds, <1>3, <1>4, <1>7, KindsFrame, SocketsFrame, CancelsFrame, BytesFrame, WritesFrame
<1>9. HandlesSound'
  <2>1. \A s : ~ InTransition(s)
    BY <1>7 DEF InTransition, SettingUp
  <2>2. "connectionCancelled" \notin mishap' => \A s \in Opened' : sockets'[s].cancels \/ Named(s)'
    <3> SUFFICES ASSUME "connectionCancelled" \notin mishap, NEW s \in Opened', ~ sockets'[s].cancels PROVE Named(s)'
      OBVIOUS
    <3>1. s \in Opened /\ s \notin S /\ ~ sockets[s].cancels
      BY <1>3 DEF KindsStay, Opened
    <3>2. Named(s)
      BY <2>1, <3>1 DEF TInv, HandlesSound
    <3>3. PICK h \in DOMAIN handles : handles[h].socket = s
      BY <3>2 DEF Named
    <3>4. h # rpc.handle
      BY <1>2, <3>1, <3>3 DEF IsHandle, Socket
    <3> QED
      BY <1>4, <3>3, <3>4 DEF Named
  <2>3. \A h \in DOMAIN handles' : handles'[h].kind = "pg-cancel" <=> handles'[h].socket = NoSocket
    BY <1>4 DEF TInv, HandlesSound
  <2>4. \A h, k \in DOMAIN handles' : handles'[h].socket = handles'[k].socket /\ handles'[h].socket # NoSocket => h = k
    BY <1>4 DEF TInv, HandlesSound
  <2>5. Cardinality(DOMAIN sockets') \in Nat /\ DOMAIN sockets' = 1 .. Cardinality(DOMAIN sockets')
    BY <1>3 DEF TInv, HandlesSound
  <2> QED
    BY <1>7, <2>2, <2>3, <2>4, <2>5, Zenon DEF HandlesSound, NoSocket
<1>10. Flows'
  BY <1>3, <1>7, FlowsFrame
<1> QED
  BY <1>5, <1>6, <1>8, <1>9, <1>10 DEF TInv

\* An upgrade of what is no TCP handle.
LEMMA TlsRefusedKeeps == TInv /\ TlsRefused => TInv'
<1> SUFFICES ASSUME TInv, TlsRefused PROVE TInv'
  OBVIOUS
<1>1. /\ rpc.phase = "posted" /\ rpc.op = "tls" /\ handles' = WithoutHandle(rpc.handle)
      /\ IF IsHandle THEN Destroys({Socket}) ELSE UNCHANGED sockets
      /\ UNCHANGED <<closed, charged, worker, nextHandle, handed, cancelled, mishap>>
  BY DEF TlsRefused, Serves, Consumed, KeepsHistory, KeepsWorker, brokerVars
<1>2. PICK r \in {0, -1} : Answers(r)
  BY DEF TlsRefused
<1> QED
  BY <1>1, <1>2, DeletesKeeps

\* A handle is closed.
LEMMA ClosesKeeps == TInv /\ Closes => TInv'
<1> SUFFICES ASSUME TInv, Closes PROVE TInv'
  OBVIOUS
<1>1. /\ rpc.phase = "posted" /\ rpc.op = "close" /\ handles' = WithoutHandle(rpc.handle)
      /\ IsHandle /\ Destroys({Socket}) /\ Answers(0)
      /\ UNCHANGED <<closed, charged, worker, nextHandle, handed, cancelled, mishap>>
  BY DEF Closes, Serves, KeepsHistory, KeepsWorker, brokerVars
<1> QED
  BY <1>1, DeletesKeeps

\* An upgrade starts: the socket has no handle until it succeeds.
LEMMA TlsStartsKeeps == TInv /\ TlsStarts => TInv'
<1> SUFFICES ASSUME TInv, TlsStarts PROVE TInv'
  OBVIOUS
<1>1. /\ rpc.phase = "posted" /\ rpc.op = "tls" /\ handles' = WithoutHandle(rpc.handle)
      /\ IsHandle /\ Kind = "tcp"
      /\ UNCHANGED <<closed, charged, worker, sockets, nextHandle, handed, cancelled, mishap>>
  BY DEF TlsStarts, Serves, Consumed, KeepsHistory, KeepsWorker, brokerVars
<1>2. PICK c : c = Socket /\ Waits(c)
  BY DEF TlsStarts
<1>3. c \in DOMAIN sockets /\ c # NoSocket /\ c \in Nat /\ handles[rpc.handle].socket = c
  <2>1. rpc.handle \in DOMAIN handles /\ handles[rpc.handle].socket = c /\ handles[rpc.handle].kind = "tcp"
    BY <1>1, <1>2 DEF IsHandle, Kind, Socket
  <2>2. handles[rpc.handle].socket # NoSocket
    BY <2>1 DEF TInv, HandlesSound
  <2> QED
    BY <2>1, <2>2, Facts DEF HandleType
<1>4. /\ rpc' \in RpcType /\ rpc'.phase = "waiting" /\ rpc'.result = rpc.result
      /\ rpc'.op = rpc.op /\ rpc'.n = rpc.n /\ rpc'.socket = c
  BY <1>2, <1>3, Facts, WaitFacts
<1>5. /\ DOMAIN handles' = DOMAIN handles \ {rpc.handle}
      /\ \A h \in DOMAIN handles' : handles'[h] = handles[h] /\ handles'[h] \in HandleType'
      /\ DOMAIN handles' \subseteq 1..(nextHandle' - 1)
      /\ Authorities' = Authorities \ {rpc.handle}
  BY <1>1, WithoutFacts
<1>6. TransportTypeOK'
  BY <1>1, <1>4, <1>5, Facts, TypesFromFacts
<1>7. Admitted'
  BY <1>1, <1>3, <1>4 DEF TInv, Admitted, Doing
<1>8. /\ Fresh' = {} /\ Fresh = {} /\ FreshAuthority' = {} /\ FreshAuthority = {}
      /\ OwedCancel' = OwedCancel /\ Using' = Using /\ OwedBytes' = OwedBytes /\ OwedWrite' = OwedWrite
      /\ ~ SettingUp /\ ~ ReadsOn
  BY <1>1, <1>4 DEF Fresh, FreshAuthority, OwedCancel, Using, OwedBytes, OwedWrite, SettingUp, ReadsOn, Doing
<1>9. Opened' = Opened /\ KindsStay /\ HandlesStay
  BY <1>1, <1>5 DEF Opened, KindsStay, HandlesStay
<1>kinds. KindsSound'
  BY <1>1, <1>3, <1>4, <1>9, KindsBound DEF IsHandle
<1>10. SocketsCharged' /\ CancelsCharged' /\ BytesCharged' /\ WritesCharged'
  BY <1>1, <1>5, <1>8, <1>9, BytesStay, SocketsFrame, CancelsFrame, BytesFrame, WritesFrame
<1>11. HandlesSound'
  <2>1. ~ Named(rpc.socket)'
    <3>1. ASSUME NEW h \in DOMAIN handles', handles'[h].socket = c PROVE FALSE
      <4>1. h \in DOMAIN handles /\ h # rpc.handle /\ handles[h].socket = c /\ rpc.handle \in DOMAIN handles
        BY <1>1, <1>5, <3>1 DEF IsHandle
      <4> QED
        BY <1>3, <4>1 DEF TInv, HandlesSound
    <3> QED
      BY <1>4, <3>1 DEF Named
  <2>2. "connectionCancelled" \notin mishap' => \A s \in Opened' : sockets'[s].cancels \/ Named(s)' \/ InTransition(s)'
    <3> SUFFICES ASSUME "connectionCancelled" \notin mishap, NEW s \in Opened', s # c, ~ sockets'[s].cancels
                 PROVE  Named(s)'
      BY <1>1, <1>4 DEF InTransition
    <3>1. Named(s)
      BY <1>1, <1>9 DEF TInv, HandlesSound, InTransition
    <3>2. PICK h \in DOMAIN handles : handles[h].socket = s
      BY <3>1 DEF Named
    <3>3. h # rpc.handle
      BY <1>3, <3>2
    <3> QED
      BY <1>5, <3>2, <3>3 DEF Named
  <2>3. \A h \in DOMAIN handles' : handles'[h].kind = "pg-cancel" <=> handles'[h].socket = NoSocket
    BY <1>5 DEF TInv, HandlesSound
  <2>4. \A h, k \in DOMAIN handles' : handles'[h].socket = handles'[k].socket /\ handles'[h].socket # NoSocket => h = k
    BY <1>5 DEF TInv, HandlesSound
  <2>5. Cardinality(DOMAIN sockets') \in Nat /\ DOMAIN sockets' = 1 .. Cardinality(DOMAIN sockets')
    BY <1>1 DEF TInv, HandlesSound
  <2> QED
    BY <2>1, <2>2, <2>3, <2>4, <2>5, Zenon DEF HandlesSound, NoSocket
<1>12. Flows'
  BY <1>1, <1>8, FlowsFrame
<1> QED
  BY <1>kinds, <1>6, <1>7, <1>10, <1>11, <1>12 DEF TInv

\* A connection is taken for an authority.
LEMMA CancelMistakenKeeps == TInv /\ CancelMistaken => TInv'
<1> SUFFICES ASSUME TInv, CancelMistaken PROVE TInv'
  OBVIOUS
<1>1. /\ rpc.phase = "posted" /\ rpc.op = "cancel" /\ handles' = WithoutHandle(rpc.handle)
      /\ IsHandle /\ Answers(-1) /\ mishap' = mishap \cup {"connectionCancelled"}
      /\ UNCHANGED <<closed, charged, worker, sockets, nextHandle, handed, cancelled>>
  BY DEF CancelMistaken, Serves, KeepsHistory, KeepsWorker, brokerVars
<1>2. /\ rpc' \in RpcType /\ rpc'.phase = "answered" /\ rpc'.result = -1
      /\ rpc'.op = rpc.op /\ rpc'.n = rpc.n /\ rpc'.socket = rpc.socket
  BY <1>1, Facts, AnswerFacts
<1>3. /\ DOMAIN handles' = DOMAIN handles \ {rpc.handle}
      /\ \A h \in DOMAIN handles' : handles'[h] = handles[h] /\ handles'[h] \in HandleType'
      /\ DOMAIN handles' \subseteq 1..(nextHandle' - 1)
      /\ Authorities' = Authorities \ {rpc.handle}
  BY <1>1, WithoutFacts
<1>4. mishap' \subseteq Mishaps /\ mishap \subseteq mishap' /\ "connectionCancelled" \in mishap'
  BY <1>1, Facts DEF Mishaps
<1>5. TransportTypeOK'
  BY <1>1, <1>2, <1>3, <1>4, Facts, TypesFromFacts
<1>6. Admitted'
  BY <1>1, <1>2 DEF TInv, Admitted, Doing
<1>7. /\ Fresh' = {} /\ Fresh = {} /\ FreshAuthority' = {} /\ FreshAuthority = {}
      /\ OwedCancel' = OwedCancel /\ Using' = Using /\ OwedBytes' = OwedBytes /\ OwedWrite' = OwedWrite
      /\ ~ SettingUp /\ ~ SettingUp' /\ ~ ReadsOn
  BY <1>1, <1>2 DEF Fresh, FreshAuthority, OwedCancel, Using, OwedBytes, OwedWrite, SettingUp, ReadsOn, Doing
<1>8. Opened' = Opened
  BY <1>1 DEF Opened
<1>kinds. KindsStay /\ HandlesStay /\ BusyStays
  BY <1>1, <1>2, <1>3, <1>4, <1>7, <1>8 DEF KindsStay, HandlesStay, BusyStays, Busy, Fresh, Doing
<1>9. SocketsCharged' /\ KindsSound' /\ CancelsCharged' /\ BytesCharged' /\ WritesCharged'
  BY <1>kinds, <1>1, <1>3, <1>4, <1>7, <1>8, BytesStay, KindsFrame, SocketsFrame, CancelsFrame, BytesFrame, WritesFrame
<1>10. HandlesSound'
  <2>1. \A h \in DOMAIN handles' : handles'[h].kind = "pg-cancel" <=> handles'[h].socket = NoSocket
    BY <1>3 DEF TInv, HandlesSound
  <2>2. \A h, k \in DOMAIN handles' : handles'[h].socket = handles'[k].socket /\ handles'[h].socket # NoSocket => h = k
    BY <1>3 DEF TInv, HandlesSound
  <2>3. Cardinality(DOMAIN sockets') \in Nat /\ DOMAIN sockets' = 1 .. Cardinality(DOMAIN sockets')
    BY <1>1 DEF TInv, HandlesSound
  <2> QED
    BY <1>4, <1>7, <2>1, <2>2, <2>3, Zenon DEF HandlesSound, NoSocket
<1>11. Flows'
  BY <1>1, <1>4, <1>7, FlowsFrame
<1> QED
  BY <1>5, <1>6, <1>9, <1>10, <1>11 DEF TInv

-----------------------------------------------------------------------------
(* The steps that add a handle or a socket.                                *)

\* A handle is added.
LEMMA AddsFacts ==
  ASSUME TInv, NEW kind \in {"tcp", "tls", "pg-cancel"}, NEW s \in DOMAIN sockets \cup {NoSocket}, Adds(kind, s),
         DOMAIN sockets' = DOMAIN sockets, kind = "pg-cancel" <=> s = NoSocket,
         s # NoSocket => ~ Named(s)
  PROVE /\ DOMAIN handles' = DOMAIN handles \cup {nextHandle} /\ nextHandle \notin DOMAIN handles
        /\ nextHandle' = nextHandle + 1 /\ nextHandle' \in Nat \ {0} /\ nextHandle \in Nat /\ nextHandle > 0
        /\ DOMAIN handles' \subseteq 1..(nextHandle' - 1)
        /\ \A h \in DOMAIN handles' : handles'[h] \in HandleType'
        /\ \A h \in DOMAIN handles : handles'[h] = handles[h]
        /\ handles'[nextHandle].kind = kind /\ handles'[nextHandle].socket = s
        /\ \A h \in DOMAIN handles' : handles'[h].kind = "pg-cancel" <=> handles'[h].socket = NoSocket
        /\ \A h, k \in DOMAIN handles' : handles'[h].socket = handles'[k].socket /\ handles'[h].socket # NoSocket => h = k
        /\ rpc' \in RpcType /\ rpc'.phase = "answered" /\ rpc'.result = nextHandle
        /\ rpc'.op = rpc.op /\ rpc'.n = rpc.n /\ rpc'.socket = rpc.socket
<1>1. nextHandle \in Nat /\ nextHandle > 0 /\ nextHandle \notin DOMAIN handles
  <2>1. nextHandle \in Nat /\ nextHandle > 0 /\ DOMAIN handles \subseteq 1..(nextHandle - 1)
    BY Facts
  <2> QED
    BY <2>1
<1>2. PICK new : new = [kind |-> kind, socket |-> s]
  OBVIOUS
<1>3. handles' = [x \in DOMAIN handles \cup {nextHandle} |-> IF x = nextHandle THEN new ELSE handles[x]]
  BY <1>2 DEF Adds
<1>4. /\ DOMAIN handles' = DOMAIN handles \cup {nextHandle} /\ nextHandle' = nextHandle + 1
      /\ \A h \in DOMAIN handles : handles'[h] = handles[h]
      /\ handles'[nextHandle] = new
  BY <1>1, <1>3 DEF Adds
<1>5. new \in HandleType /\ new.kind = kind /\ new.socket = s
  BY <1>2 DEF HandleType
<1>6. DOMAIN handles' \subseteq 1..(nextHandle' - 1)
  <2>1. DOMAIN handles \subseteq 1..(nextHandle - 1)
    BY Facts
  <2> QED
    BY <1>1, <1>4, <2>1
<1>7. \A h \in DOMAIN handles' : handles'[h] \in HandleType'
  BY <1>4, <1>5, Facts DEF HandleType
<1>8. \A h \in DOMAIN handles' : handles'[h].kind = "pg-cancel" <=> handles'[h].socket = NoSocket
  BY <1>4, <1>5 DEF TInv, HandlesSound
<1>9. \A h, k \in DOMAIN handles' : handles'[h].socket = handles'[k].socket /\ handles'[h].socket # NoSocket => h = k
  <2>1. \A h \in DOMAIN handles : handles[h].socket = s => s = NoSocket
    BY DEF Named
  <2> QED
    BY <1>4, <1>5, <2>1 DEF TInv, HandlesSound
<1>10. PICK r \in Int : r = nextHandle /\ Answers(r)
  BY <1>1 DEF Adds
<1>11. /\ rpc' \in RpcType /\ rpc'.phase = "answered" /\ rpc'.result = nextHandle
       /\ rpc'.op = rpc.op /\ rpc'.n = rpc.n /\ rpc'.socket = rpc.socket
  BY <1>10, Facts, AnswerFacts
<1>12. nextHandle' \in Nat \ {0}
  BY <1>1, <1>4
<1> QED
  BY <1>1, <1>4, <1>5, <1>6, <1>7, <1>8, <1>9, <1>11, <1>12

\* A connection is made or upgraded, and gets its handle.
LEMMA SetupSucceedsKeeps == TInv /\ SetupSucceeds => TInv'
<1> SUFFICES ASSUME TInv, SetupSucceeds PROVE TInv'
  OBVIOUS
<1>1. /\ rpc.phase = "waiting" /\ rpc.op \in {"connect", "tls"}
      /\ UNCHANGED <<closed, charged, worker, sockets, handed, cancelled, mishap>>
  BY DEF SetupSucceeds, Awaits, KeepsHistory, KeepsWorker, brokerVars
<1>2. PICK kind, c : kind \in {"tcp", "tls"} /\ c = rpc.socket /\ Adds(kind, c)
  BY DEF SetupSucceeds
<1>3. c \in DOMAIN sockets /\ c # NoSocket /\ ~ Named(c)
  BY <1>1, <1>2, Facts DEF TInv, Admitted, HandlesSound, SettingUp
<1>4. /\ DOMAIN handles' = DOMAIN handles \cup {nextHandle} /\ nextHandle \notin DOMAIN handles
      /\ nextHandle' \in Nat \ {0} /\ nextHandle \in Nat /\ nextHandle > 0
      /\ DOMAIN handles' \subseteq 1..(nextHandle' - 1)
      /\ \A h \in DOMAIN handles' : handles'[h] \in HandleType'
      /\ \A h \in DOMAIN handles : handles'[h] = handles[h]
      /\ handles'[nextHandle].kind = kind /\ handles'[nextHandle].socket = c
      /\ \A h \in DOMAIN handles' : handles'[h].kind = "pg-cancel" <=> handles'[h].socket = NoSocket
      /\ \A h, k \in DOMAIN handles' : handles'[h].socket = handles'[k].socket /\ handles'[h].socket # NoSocket => h = k
      /\ rpc' \in RpcType /\ rpc'.phase = "answered" /\ rpc'.result = nextHandle
      /\ rpc'.op = rpc.op /\ rpc'.n = rpc.n /\ rpc'.socket = rpc.socket
  BY <1>1, <1>2, <1>3, AddsFacts
<1>5. TransportTypeOK'
  BY <1>1, <1>4, Facts, TypesFromFacts
<1>6. Admitted'
  BY <1>1, <1>4 DEF TInv, Admitted, Doing
<1>7. /\ Opened' = Opened /\ Fresh' = Fresh /\ FreshAuthority' = {} /\ FreshAuthority = {}
      /\ OwedCancel' = OwedCancel /\ Using' = Using /\ OwedBytes' = OwedBytes /\ OwedWrite' = OwedWrite
      /\ ~ SettingUp' /\ ~ ReadsOn /\ KindsStay
  <2>1. Fresh' = Fresh
    <3>1. CASE rpc.op = "connect"
      BY <1>1, <1>4, <3>1 DEF Fresh, Doing
    <3>2. CASE rpc.op = "tls"
      BY <1>1, <1>4, <3>2 DEF Fresh, Doing
    <3> QED
      BY <1>1, <3>1, <3>2
  <2> QED
    BY <1>1, <1>4, <2>1 DEF Opened, KindsStay, FreshAuthority, OwedCancel, Using, OwedBytes, OwedWrite, SettingUp, ReadsOn, Doing
<1>8. Authorities' = Authorities
  BY <1>2, <1>4 DEF Authorities
<1>kinds. KindsSound'
  <2>1. ~ sockets[c].cancels
    BY <1>1, <1>2 DEF TInv, KindsSound, Busy
  <2>2. Busy' => rpc'.socket \in DOMAIN sockets' /\ (sockets'[rpc'.socket].cancels <=> rpc'.op = "cancel")
    BY <1>1, <1>2, <1>3, <1>4, <2>1
  <2>3. \A h \in DOMAIN handles' : handles'[h].socket # NoSocket => ~ sockets'[handles'[h].socket].cancels
    BY <1>1, <1>4, <2>1 DEF TInv, KindsSound
  <2> QED
    BY <2>2, <2>3 DEF KindsSound, NoSocket
<1>9. SocketsCharged' /\ CancelsCharged' /\ BytesCharged' /\ WritesCharged'
  BY <1>1, <1>7, <1>8, BytesStay, SocketsFrame, CancelsFrame, BytesFrame, WritesFrame
<1>10. HandlesSound'
  <2>1. Cardinality(DOMAIN sockets') \in Nat /\ DOMAIN sockets' = 1 .. Cardinality(DOMAIN sockets')
    BY <1>1 DEF TInv, HandlesSound
  <2>2. "connectionCancelled" \notin mishap' => \A s \in Opened' : sockets'[s].cancels \/ Named(s)'
    <3> SUFFICES ASSUME "connectionCancelled" \notin mishap, NEW s \in Opened', ~ sockets'[s].cancels PROVE Named(s)'
      BY <1>1
    <3>1. CASE s = c
      BY <1>4, <3>1 DEF Named
    <3>2. CASE s # c
      <4>1. Named(s)
        BY <1>1, <1>2, <1>7, <3>2 DEF TInv, HandlesSound, InTransition
      <4> QED
        BY <1>4, <4>1 DEF Named
    <3> QED
      BY <3>1, <3>2
  <2> QED
    BY <1>4, <1>7, <2>1, <2>2, Zenon DEF HandlesSound, NoSocket
<1>11. Flows'
  BY <1>1, <1>7, FlowsFrame
<1> QED
  BY <1>kinds, <1>5, <1>6, <1>9, <1>10, <1>11 DEF TInv

\* An authority gets its handle, and is owed until the reply is back.
LEMMA CancelRegistersKeeps == TInv /\ CancelRegisters => TInv'
<1> SUFFICES ASSUME TInv, CancelRegisters PROVE TInv'
  OBVIOUS
<1>1. /\ rpc.phase = "posted" /\ rpc.op = "cancel-register"
      /\ UNCHANGED <<closed, charged, worker, sockets, handed, cancelled, mishap>>
  BY DEF CancelRegisters, Serves, KeepsHistory, KeepsWorker, brokerVars
<1>2. Adds("pg-cancel", NoSocket)
  BY DEF CancelRegisters
<1>3. /\ DOMAIN handles' = DOMAIN handles \cup {nextHandle} /\ nextHandle \notin DOMAIN handles
      /\ nextHandle' \in Nat \ {0} /\ nextHandle \in Nat /\ nextHandle > 0
      /\ DOMAIN handles' \subseteq 1..(nextHandle' - 1)
      /\ \A h \in DOMAIN handles' : handles'[h] \in HandleType'
      /\ \A h \in DOMAIN handles : handles'[h] = handles[h]
      /\ handles'[nextHandle].socket = NoSocket
      /\ \A h \in DOMAIN handles' : handles'[h].kind = "pg-cancel" <=> handles'[h].socket = NoSocket
      /\ \A h, k \in DOMAIN handles' : handles'[h].socket = handles'[k].socket /\ handles'[h].socket # NoSocket => h = k
      /\ rpc' \in RpcType /\ rpc'.phase = "answered" /\ rpc'.result = nextHandle
      /\ rpc'.op = rpc.op /\ rpc'.n = rpc.n /\ rpc'.socket = rpc.socket
  <2>1. PICK kind, c : kind = "pg-cancel" /\ c = NoSocket
    OBVIOUS
  <2> QED
    BY <1>1, <1>2, <2>1, AddsFacts
<1>4. TransportTypeOK'
  BY <1>1, <1>3, Facts, TypesFromFacts
<1>5. Admitted'
  BY <1>1, <1>3 DEF TInv, Admitted, Doing
<1>6. /\ Opened' = Opened /\ Fresh' = Fresh /\ FreshAuthority' = {nextHandle} /\ FreshAuthority = {}
      /\ OwedCancel' = OwedCancel /\ Using' = Using /\ OwedBytes' = OwedBytes /\ OwedWrite' = OwedWrite
      /\ ~ SettingUp /\ ~ SettingUp' /\ ~ ReadsOn /\ KindsStay /\ ~ Busy'
  BY <1>1, <1>3 DEF Opened, KindsStay, Busy, Fresh, FreshAuthority, OwedCancel, Using, OwedBytes, OwedWrite, SettingUp, ReadsOn, Doing
<1>7. Authorities' \ FreshAuthority' \subseteq Authorities \ FreshAuthority
  BY <1>3, <1>6 DEF Authorities
<1>kinds. KindsSound'
  <2>1. \A h \in DOMAIN handles' : handles'[h].socket # NoSocket => ~ sockets'[handles'[h].socket].cancels
    BY <1>1, <1>3 DEF TInv, KindsSound
  <2> QED
    BY <1>6, <2>1 DEF KindsSound, NoSocket
<1>8. SocketsCharged' /\ CancelsCharged' /\ BytesCharged' /\ WritesCharged'
  BY <1>1, <1>6, <1>7, BytesStay, SocketsFrame, CancelsFrame, BytesFrame, WritesFrame
<1>9. HandlesSound'
  <2>1. Cardinality(DOMAIN sockets') \in Nat /\ DOMAIN sockets' = 1 .. Cardinality(DOMAIN sockets')
    BY <1>1 DEF TInv, HandlesSound
  <2>2. "connectionCancelled" \notin mishap' => \A s \in Opened' : sockets'[s].cancels \/ Named(s)'
    <3> SUFFICES ASSUME "connectionCancelled" \notin mishap, NEW s \in Opened', ~ sockets'[s].cancels PROVE Named(s)'
      BY <1>1
    <3>1. Named(s)
      BY <1>1, <1>6 DEF TInv, HandlesSound, InTransition, SettingUp
    <3> QED
      BY <1>3, <3>1 DEF Named
  <2> QED
    BY <1>3, <1>6, <2>1, <2>2, Zenon DEF HandlesSound, NoSocket
<1>10. Flows'
  BY <1>1, <1>6, FlowsFrame
<1> QED
  BY <1>kinds, <1>4, <1>5, <1>8, <1>9, <1>10 DEF TInv

\* A socket is opened, and the request waits for it.
LEMMA ConnectFacts ==
  ASSUME TInv, NEW cancels \in BOOLEAN, Connects(cancels)
  PROVE \E c \in Nat :
          /\ c \notin DOMAIN sockets /\ c # NoSocket /\ DOMAIN sockets' = DOMAIN sockets \cup {c}
          /\ Cardinality(DOMAIN sockets') \in Nat /\ DOMAIN sockets' = 1 .. Cardinality(DOMAIN sockets')
          /\ sockets'[c].cancels = cancels /\ ~ sockets'[c].flowing
          /\ sockets'[c].got = 0 /\ sockets'[c].head = 0
          /\ \A s \in DOMAIN sockets : sockets'[s] = sockets[s]
          /\ \A s \in DOMAIN sockets' :
               /\ sockets'[s] \in SocketType
               /\ sockets'[s].got <= sockets'[s].head /\ sockets'[s].head <= sockets'[s].arrived
          /\ Opened' = Opened \cup {c} /\ KindsStay /\ BytesGot' = BytesGot
          /\ rpc' \in RpcType /\ rpc'.phase = "waiting" /\ rpc'.result = rpc.result
          /\ rpc'.op = rpc.op /\ rpc'.n = rpc.n /\ rpc'.socket = c
<1>1. PICK n \in Nat : n = Cardinality(DOMAIN sockets) /\ DOMAIN sockets = 1 .. n
  BY Zenon DEF TInv, HandlesSound
<1>2. PICK c : c = n + 1
  OBVIOUS
<1>3. PICK new : new = NewSocket(cancels)
  OBVIOUS
<1>4. /\ sockets' = [x \in DOMAIN sockets \cup {c} |-> IF x = c THEN new ELSE sockets[x]]
      /\ Waits(c)
  BY <1>1, <1>2, <1>3 DEF Connects
<1>5. /\ new \in SocketType /\ new.open = TRUE /\ new.cancels = cancels /\ new.flowing = FALSE
      /\ new.got = 0 /\ new.head = 0 /\ new.arrived = 0
  BY <1>3, WorldAssumption DEF NewSocket, SocketType
<1>6. c \in Nat /\ c > 0 /\ c \notin DOMAIN sockets /\ c # NoSocket /\ DOMAIN sockets \cup {c} = 1 .. c
  <2>1. c \in Nat /\ c > 0 /\ c # NoSocket
    BY <1>2 DEF NoSocket
  <2>2. c \notin 1 .. n
    BY <1>2
  <2>3. (1 .. n) \cup {c} = 1 .. c
    BY <1>2
  <2> QED
    BY <1>1, <2>1, <2>2, <2>3
<1>7. /\ DOMAIN sockets' = DOMAIN sockets \cup {c} /\ sockets'[c] = new
      /\ \A s \in DOMAIN sockets : sockets'[s] = sockets[s]
  BY <1>4, <1>6
<1>8. Opened' = Opened \cup {c} /\ KindsStay
  BY <1>5, <1>7 DEF Opened, KindsStay
<1>9. /\ rpc' \in RpcType /\ rpc'.phase = "waiting" /\ rpc'.result = rpc.result
      /\ rpc'.op = rpc.op /\ rpc'.n = rpc.n /\ rpc'.socket = c
  BY <1>4, <1>6, Facts, WaitFacts
<1>10. \A s \in DOMAIN sockets' :
         /\ sockets'[s] \in SocketType
         /\ sockets'[s].got <= sockets'[s].head /\ sockets'[s].head <= sockets'[s].arrived
  BY <1>5, <1>7, Facts
<1>11. BytesGot' = BytesGot
  BY <1>5, <1>6, <1>7, Facts, Finitely, GotOfNew, GotIs DEF SocketType
<1>12. Cardinality(DOMAIN sockets') \in Nat /\ DOMAIN sockets' = 1 .. Cardinality(DOMAIN sockets')
  <2>1. Cardinality(1 .. c) = c
    BY <1>6, FS_Interval
  <2> QED
    BY <1>6, <1>7, <2>1
<1> QED
  BY <1>5, <1>6, <1>7, <1>8, <1>9, <1>10, <1>11, <1>12

\* What a step that opens a socket keeps, when no handle is added: the socket
\* is owed until the reply is back.
LEMMA OpensKeeps ==
  ASSUME TInv, NEW cancels \in BOOLEAN, Connects(cancels), rpc.phase = "posted",
         rpc.op = IF cancels THEN "cancel" ELSE "connect", HandlesStay,
         UNCHANGED <<closed, charged, worker, nextHandle, handed, cancelled, mishap>>,
         "connectionCancelled" \notin mishap => \A s \in Opened : Named(s)' <=> Named(s)
  PROVE /\ TransportTypeOK' /\ Admitted' /\ HandlesSound' /\ KindsSound' /\ SocketsCharged'
        /\ BytesCharged' /\ Flows' /\ WritesCharged'
<1>1. PICK c \in Nat :
          /\ c \notin DOMAIN sockets /\ c # NoSocket /\ DOMAIN sockets' = DOMAIN sockets \cup {c}
          /\ Cardinality(DOMAIN sockets') \in Nat /\ DOMAIN sockets' = 1 .. Cardinality(DOMAIN sockets')
          /\ sockets'[c].cancels = cancels /\ ~ sockets'[c].flowing
          /\ sockets'[c].got = 0 /\ sockets'[c].head = 0
          /\ \A s \in DOMAIN sockets : sockets'[s] = sockets[s]
          /\ \A s \in DOMAIN sockets' :
               /\ sockets'[s] \in SocketType
               /\ sockets'[s].got <= sockets'[s].head /\ sockets'[s].head <= sockets'[s].arrived
          /\ Opened' = Opened \cup {c} /\ KindsStay /\ BytesGot' = BytesGot
          /\ rpc' \in RpcType /\ rpc'.phase = "waiting" /\ rpc'.result = rpc.result
          /\ rpc'.op = rpc.op /\ rpc'.n = rpc.n /\ rpc'.socket = c
  BY ConnectFacts
<1>2. /\ DOMAIN handles' \subseteq DOMAIN handles
      /\ \A h \in DOMAIN handles' : handles'[h] = handles[h] /\ handles'[h].socket # c
      /\ \A h \in DOMAIN handles' : handles'[h] \in HandleType'
  BY <1>1, Facts DEF HandlesStay, HandleType
<1>3. TransportTypeOK'
  BY <1>1, <1>2, Facts, TypesFromFacts
<1>4. Admitted'
  BY <1>1 DEF TInv, Admitted, Doing
<1>5. /\ Fresh' = {c} /\ Fresh = {}
      /\ OwedBytes' = OwedBytes /\ OwedWrite' = OwedWrite
      /\ ~ SettingUp /\ ~ Doing("read", "waiting") /\ ~ Doing("read", "waiting")'
  BY <1>1 DEF Fresh, OwedBytes, OwedWrite, SettingUp, Doing
<1>6. SocketsCharged' /\ BytesCharged' /\ WritesCharged'
  BY <1>1, <1>5, SocketsFrame, BytesFrame, WritesFrame
<1>7. KindsSound'
  <2>1. \A h \in DOMAIN handles' : handles'[h].socket # NoSocket => ~ sockets'[handles'[h].socket].cancels
    BY <1>1, <1>2, Facts DEF TInv, KindsSound, HandlesStay, HandleType
  <2>2. rpc'.socket \in DOMAIN sockets' /\ (sockets'[rpc'.socket].cancels <=> rpc'.op = "cancel")
    BY <1>1
  <2> QED
    BY <2>1, <2>2 DEF KindsSound, NoSocket
<1>8. HandlesSound'
  <2>1. ~ Named(rpc.socket)'
    BY <1>1, <1>2 DEF Named
  <2>2. "connectionCancelled" \notin mishap' =>
          \A s \in Opened' : sockets'[s].cancels \/ Named(s)' \/ InTransition(s)'
    <3> SUFFICES ASSUME "connectionCancelled" \notin mishap, NEW s \in Opened', ~ sockets'[s].cancels
                 PROVE  Named(s)' \/ InTransition(s)'
      OBVIOUS
    <3>1. CASE s = c
      BY <1>1, <3>1 DEF InTransition
    <3>2. CASE s # c
      <4>1. s \in Opened /\ ~ sockets[s].cancels
        BY <1>1, <3>2 DEF Opened
      <4>2. Named(s)
        BY <1>5, <4>1 DEF TInv, HandlesSound, InTransition, SettingUp
      <4> QED
        BY <4>1, <4>2
    <3> QED
      BY <3>1, <3>2
  <2>3. \A h \in DOMAIN handles' : handles'[h].kind = "pg-cancel" <=> handles'[h].socket = NoSocket
    BY <1>2 DEF TInv, HandlesSound
  <2>4. \A h, k \in DOMAIN handles' : handles'[h].socket = handles'[k].socket /\ handles'[h].socket # NoSocket => h = k
    BY <1>2 DEF TInv, HandlesSound
  <2> QED
    BY <1>1, <2>1, <2>2, <2>3, <2>4, Zenon DEF HandlesSound, NoSocket
<1>9. Flows'
  <2>1. \A s \in DOMAIN sockets : (Buffered(s) = 0)' <=> Buffered(s) = 0
    BY <1>1 DEF Buffered
  <2> QED
    BY <1>1, <1>5, <2>1 DEF TInv, Flows
<1> QED
  BY <1>3, <1>4, <1>6, <1>7, <1>8, <1>9

\* A connection is attempted.
LEMMA WorkerConnectsKeeps == TInv /\ WorkerConnects => TInv'
<1> SUFFICES ASSUME TInv, WorkerConnects PROVE TInv'
  OBVIOUS
<1>1. /\ rpc.phase = "posted" /\ rpc.op = "connect" /\ Connects(FALSE)
      /\ UNCHANGED <<closed, charged, worker, handles, nextHandle, handed, cancelled, mishap>>
  BY DEF WorkerConnects, Serves, KeepsTable, KeepsHistory, KeepsWorker, brokerVars
<1>2. HandlesStay /\ \A s : Named(s)' <=> Named(s)
  BY <1>1 DEF HandlesStay, Named
<1>3. /\ TransportTypeOK' /\ Admitted' /\ HandlesSound' /\ KindsSound' /\ SocketsCharged'
      /\ BytesCharged' /\ Flows' /\ WritesCharged'
  <2>1. PICK cancels \in BOOLEAN : ~ cancels /\ Connects(cancels)
    BY <1>1
  <2> QED
    BY <1>1, <1>2, <2>1, OpensKeeps
<1>4. rpc'.op = rpc.op
  BY <1>1 DEF Connects, Waits
<1>5. CancelsCharged'
  <2>1. /\ OwedCancel' = OwedCancel /\ Using' = Using
        /\ FreshAuthority' = {} /\ FreshAuthority = {} /\ Authorities' = Authorities
    BY <1>1, <1>4 DEF OwedCancel, Using, FreshAuthority, Authorities, Doing
  <2> QED
    BY <1>1, <2>1, CancelsFrame
<1> QED
  BY <1>3, <1>5 DEF TInv

-----------------------------------------------------------------------------
(* The steps of a cancel that an authority allows.                         *)

\* The authority is used up; a request is owed for it.
LEMMA CancelConnectsKeeps == TInv /\ CancelConnects => TInv'
<1> SUFFICES ASSUME TInv, CancelConnects PROVE TInv'
  OBVIOUS
<1>1. /\ rpc.phase = "posted" /\ rpc.op = "cancel" /\ handles' = WithoutHandle(rpc.handle)
      /\ rpc.handle \in DOMAIN handles /\ handles[rpc.handle].kind = "pg-cancel" /\ Connects(TRUE)
      /\ UNCHANGED <<closed, charged, worker, nextHandle, handed, cancelled, mishap>>
  BY DEF CancelConnects, Serves, Used, IsHandle, Kind, KeepsHistory, KeepsWorker, brokerVars
<1>2. /\ DOMAIN handles' = DOMAIN handles \ {rpc.handle}
      /\ \A h \in DOMAIN handles' : handles'[h] = handles[h]
  BY <1>1 DEF WithoutHandle
<1>3. HandlesStay /\ \A s \in Opened : Named(s)' <=> Named(s)
  <2>1. handles[rpc.handle].socket = NoSocket /\ NoSocket \notin Opened
    BY <1>1, Facts DEF TInv, HandlesSound, Opened
  <2> QED
    BY <1>2, <2>1 DEF HandlesStay, Named
<1>4. /\ TransportTypeOK' /\ Admitted' /\ HandlesSound' /\ KindsSound' /\ SocketsCharged'
      /\ BytesCharged' /\ Flows' /\ WritesCharged'
  <2>1. PICK cancels \in BOOLEAN : cancels /\ Connects(cancels)
    BY <1>1
  <2> QED
    BY <1>1, <1>3, <2>1, OpensKeeps
<1>5. rpc'.op = rpc.op /\ rpc'.phase = "waiting"
  <2>1. rpc \in RpcType
    BY Facts
  <2> QED
    BY <2>1, <1>1 DEF Connects, Waits, RpcType
<1>6. CancelsCharged'
  <2>1. /\ Using = 0 /\ Using' = 1 /\ OwedCancel = 0 /\ OwedCancel' = 0
        /\ FreshAuthority' = {} /\ FreshAuthority = {}
    BY <1>1, <1>5 DEF OwedCancel, Using, FreshAuthority, Doing
  <2>2. Authorities' = Authorities \ {rpc.handle} /\ rpc.handle \in Authorities
    BY <1>1, <1>2 DEF Authorities
  <2>3. Authorities \in SUBSET DOMAIN handles
    BY DEF Authorities
  <2>4. PICK all, others : all = Cardinality(Authorities) /\ others = Cardinality(Authorities \ {rpc.handle})
    OBVIOUS
  <2>5. all \in Nat /\ others = all - 1
    BY <2>2, <2>3, <2>4, Finitely, FS_RemoveElement
  <2>6. Authorities \ FreshAuthority = Authorities /\ Authorities' \ FreshAuthority' = Authorities \ {rpc.handle}
    BY <2>1, <2>2
  <2>7. /\ all + cancelled <= charged.cancelHandles
        /\ "cancelFailed" \notin mishap => cancelled <= charged.cancels
        /\ charged.cancelHandles \in Nat /\ charged.cancels \in Nat /\ cancelled \in Nat
    BY <2>1, <2>4, <2>5, <2>6, Facts DEF TInv, CancelsCharged
  <2>8. others + cancelled' + Using' <= charged'.cancelHandles
    BY <1>1, <2>1, <2>5, <2>7
  <2>9. "cancelFailed" \notin mishap' => cancelled' <= charged'.cancels + OwedCancel'
    BY <1>1, <2>1, <2>7
  <2> QED
    BY <2>4, <2>6, <2>8, <2>9 DEF CancelsCharged
<1> QED
  BY <1>4, <1>6 DEF TInv

\* What a step of a cancel under way keeps that destroys its socket at most.
LEMMA CancelsOn ==
  ASSUME TInv, rpc.op = "cancel", rpc.phase \in {"waiting", "ending"}, rpc' \in RpcType,
         rpc'.op = "cancel", rpc'.n = rpc.n, rpc'.socket = rpc.socket,
         rpc'.phase = "ending" \/ rpc'.phase = "answered",
         UNCHANGED <<closed, charged, worker, handles, nextHandle, handed>>, cancelled' \in Nat,
         mishap \subseteq mishap', mishap' \subseteq Mishaps,
         sockets' = sockets \/ Destroys({rpc.socket}), Opened' \ Fresh' \subseteq Opened \ Fresh,
         CancelsCharged'
  PROVE TInv'
<1>1. /\ DOMAIN sockets' = DOMAIN sockets /\ Opened' \subseteq Opened /\ BytesGot' = BytesGot /\ KindsStay
      /\ \A s \in DOMAIN sockets :
             /\ sockets'[s] \in SocketType
             /\ sockets'[s].got <= sockets'[s].head /\ sockets'[s].head <= sockets'[s].arrived
             /\ sockets'[s].flowing = sockets[s].flowing /\ sockets'[s].ended = sockets[s].ended
             /\ sockets'[s].arrived = sockets[s].arrived /\ sockets'[s].head = sockets[s].head
             /\ sockets'[s].got = sockets[s].got
  <2>1. CASE sockets' = sockets
    BY <2>1, Facts, BytesStay DEF Opened, KindsStay
  <2>2. CASE Destroys({rpc.socket})
    BY <2>2, SocketsDestroyed
  <2> QED
    BY <2>1, <2>2
<1>2. TransportTypeOK'
  BY <1>1, Facts, TypesFromFacts DEF HandleType
<1>3. Admitted'
  BY DEF TInv, Admitted, Doing
<1>4. /\ OwedBytes' = OwedBytes /\ OwedWrite' = OwedWrite /\ ~ SettingUp /\ ~ SettingUp' /\ ~ ReadsOn
      /\ HandlesStay /\ BusyStays
  BY DEF OwedBytes, OwedWrite, SettingUp, ReadsOn, Doing, HandlesStay, BusyStays, Busy
<1>5. SocketsCharged' /\ KindsSound' /\ BytesCharged' /\ WritesCharged'
  BY <1>1, <1>4, SocketsFrame, KindsFrame, BytesFrame, WritesFrame
<1>6. HandlesSound'
  BY <1>1, <1>4, HandlesFrame
<1>7. Flows'
  BY <1>1, <1>4, FlowsFrame
<1> QED
  BY <1>2, <1>3, <1>5, <1>6, <1>7 DEF TInv

\* The request is sent, and its charge is owed.
LEMMA CancelSendsKeeps == TInv /\ CancelSends => TInv'
<1> SUFFICES ASSUME TInv, CancelSends PROVE TInv'
  OBVIOUS
<1>1. /\ rpc.phase = "waiting" /\ rpc.op = "cancel" /\ cancelled' = cancelled + 1
      /\ UNCHANGED <<closed, charged, worker, handles, nextHandle, handed, sockets, mishap>>
  BY DEF CancelSends, Awaits, KeepsTable, KeepsWorker, brokerVars
<1>2. /\ rpc' \in RpcType /\ rpc'.op = "cancel" /\ rpc'.n = rpc.n /\ rpc'.socket = rpc.socket
      /\ rpc'.phase = "ending"
  <2>1. rpc \in RpcType /\ rpc' = [rpc EXCEPT !.phase = "ending"]
    BY Facts DEF CancelSends
  <2> QED
    BY <1>1, <2>1 DEF RpcType, Phases
<1>3. Opened' \ Fresh' \subseteq Opened \ Fresh
  BY <1>1, <1>2 DEF Opened, Fresh, Doing
<1>4. CancelsCharged'
  <2>1. /\ Using = 1 /\ Using' = 0 /\ OwedCancel = 0 /\ OwedCancel' = 1
        /\ FreshAuthority' = {} /\ FreshAuthority = {} /\ Authorities' = Authorities
    BY <1>1, <1>2 DEF OwedCancel, Using, FreshAuthority, Authorities, Doing
  <2>2. Authorities \ FreshAuthority \in SUBSET DOMAIN handles
    BY DEF Authorities
  <2>3. PICK a \in Nat : a = Cardinality(Authorities \ FreshAuthority)
    BY <2>2, Finitely
  <2>4. /\ a + cancelled + 1 <= charged.cancelHandles
        /\ "cancelFailed" \notin mishap => cancelled <= charged.cancels + 0
        /\ cancelled \in Nat /\ charged.cancels \in Nat /\ charged.cancelHandles \in Nat
    BY <2>1, <2>3, Facts DEF TInv, CancelsCharged
  <2>5. /\ a + cancelled' + Using' <= charged'.cancelHandles
        /\ "cancelFailed" \notin mishap' => cancelled' <= charged'.cancels + OwedCancel'
    BY <1>1, <2>1, <2>4
  <2> QED
    BY <2>1, <2>3, <2>5 DEF CancelsCharged
<1>5. mishap \subseteq Mishaps /\ cancelled' \in Nat
  BY <1>1, Facts
<1> QED
  BY <1>1, <1>2, <1>3, <1>4, <1>5, CancelsOn

\* The reply is stored; its socket stays.
LEMMA CancelEndsKeeps == TInv /\ CancelEnds => TInv'
<1> SUFFICES ASSUME TInv, CancelEnds PROVE TInv'
  OBVIOUS
<1>1. /\ rpc.phase = "ending" /\ Answers(0)
      /\ UNCHANGED <<closed, charged, worker, handles, nextHandle, handed, sockets, cancelled, mishap>>
  BY DEF CancelEnds, Ending, KeepsTable, KeepsHistory, KeepsWorker, brokerVars
<1>2. rpc.op = "cancel"
  BY <1>1 DEF TInv, Admitted
<1>3. /\ rpc' \in RpcType /\ rpc'.op = "cancel" /\ rpc'.n = rpc.n /\ rpc'.socket = rpc.socket
      /\ rpc'.phase = "answered" /\ rpc'.result = 0
  BY <1>1, <1>2, Facts, AnswerFacts
<1>4. Opened' \ Fresh' \subseteq Opened \ Fresh
  BY <1>1, <1>2, <1>3 DEF Opened, Fresh, Doing
<1>5. /\ OwedCancel' = OwedCancel /\ Using' = Using
      /\ FreshAuthority' = FreshAuthority /\ Authorities' = Authorities
  BY <1>1, <1>2, <1>3 DEF OwedCancel, Using, FreshAuthority, Authorities, Doing
<1>6. CancelsCharged'
  BY <1>1, <1>5, CancelsFrame
<1>7. mishap \subseteq Mishaps /\ cancelled' \in Nat
  BY <1>1, Facts
<1> QED
  BY <1>1, <1>2, <1>3, <1>4, <1>6, <1>7, CancelsOn

\* It fails and its socket is destroyed; a request that was sent is not charged.
LEMMA CancelFailsKeeps == TInv /\ CancelFails => TInv'
<1> SUFFICES ASSUME TInv, CancelFails PROVE TInv'
  OBVIOUS
<1>1. /\ \/ rpc.phase = "waiting" /\ mishap' = mishap
         \/ rpc.phase = "ending" /\ mishap' = mishap \cup {"cancelFailed"}
      /\ rpc.phase = "waiting" => rpc.op = "cancel"
      /\ Answers(-1) /\ Destroys({rpc.socket})
      /\ UNCHANGED <<closed, charged, worker, handles, nextHandle, handed, cancelled>>
  BY DEF CancelFails, Awaits, Ending, KeepsTable, KeepsHistory, KeepsWorker, brokerVars
<1>2. rpc.op = "cancel" /\ rpc.phase \in {"waiting", "ending"}
  BY <1>1 DEF TInv, Admitted
<1>3. /\ rpc' \in RpcType /\ rpc'.op = "cancel" /\ rpc'.n = rpc.n /\ rpc'.socket = rpc.socket
      /\ rpc'.phase = "answered" /\ rpc'.result = -1
  BY <1>1, <1>2, Facts, AnswerFacts
<1>4. mishap \subseteq mishap' /\ mishap' \subseteq Mishaps /\ cancelled' \in Nat
  BY <1>1, Facts DEF Mishaps
<1>5. Opened' \ Fresh' \subseteq Opened \ Fresh
  <2>1. Opened' = Opened \ {rpc.socket}
    BY <1>1, SocketsDestroyed
  <2> QED
    BY <1>2, <2>1 DEF Fresh, Doing
<1>6. CancelsCharged'
  <2>1. /\ Using' = 0 /\ OwedCancel' = 0 /\ Using \in Nat
        /\ FreshAuthority' = {} /\ FreshAuthority = {} /\ Authorities' = Authorities
        /\ rpc.phase = "waiting" => OwedCancel = 0
    BY <1>1, <1>2, <1>3 DEF OwedCancel, Using, FreshAuthority, Authorities, Doing
  <2>2. Authorities \ FreshAuthority \in SUBSET DOMAIN handles
    BY DEF Authorities
  <2>3. PICK a \in Nat : a = Cardinality(Authorities \ FreshAuthority)
    BY <2>2, Finitely
  <2>4. /\ a + cancelled + Using <= charged.cancelHandles
        /\ "cancelFailed" \notin mishap => cancelled <= charged.cancels + OwedCancel
        /\ cancelled \in Nat /\ charged.cancels \in Nat /\ charged.cancelHandles \in Nat
    BY <2>3, Facts DEF TInv, CancelsCharged
  <2>5. a + cancelled' + Using' <= charged'.cancelHandles
    BY <1>1, <2>1, <2>4
  <2>6. "cancelFailed" \notin mishap' => cancelled' <= charged'.cancels + OwedCancel'
    BY <1>1, <2>1, <2>4
  <2> QED
    BY <2>1, <2>3, <2>5, <2>6 DEF CancelsCharged
<1> QED
  BY <1>1, <1>2, <1>3, <1>4, <1>5, <1>6, CancelsOn

-----------------------------------------------------------------------------
(* The steps that move bytes.                                              *)

\* One socket changes, and is not opened again.
LEMMA OneSocket ==
  ASSUME TInv, NEW s \in DOMAIN sockets, NEW new \in SocketType, new.open => sockets[s].open,
         new.cancels = sockets[s].cancels, new.got <= new.head, new.head <= new.arrived, sockets' = [sockets EXCEPT ![s] = new]
  PROVE /\ DOMAIN sockets' = DOMAIN sockets /\ sockets'[s] = new
        /\ \A x \in DOMAIN sockets \ {s} : sockets'[x] = sockets[x]
        /\ \A x \in DOMAIN sockets' :
             /\ sockets'[x] \in SocketType
             /\ sockets'[x].got <= sockets'[x].head /\ sockets'[x].head <= sockets'[x].arrived
        /\ Opened' \subseteq Opened /\ KindsStay
        /\ BytesGot' = BytesGot - sockets[s].got + new.got
<1>1. /\ DOMAIN sockets' = DOMAIN sockets /\ sockets'[s] = new
      /\ \A x \in DOMAIN sockets \ {s} : sockets'[x] = sockets[x]
  OBVIOUS
<1>2. \A x \in DOMAIN sockets' :
        /\ sockets'[x] \in SocketType
        /\ sockets'[x].got <= sockets'[x].head /\ sockets'[x].head <= sockets'[x].arrived
  BY <1>1, Facts
<1>3. Opened' \subseteq Opened /\ KindsStay
  BY <1>1 DEF Opened, KindsStay
<1>4. \A x \in DOMAIN sockets : sockets[x].got \in Nat /\ sockets'[x].got \in Nat
  BY <1>1, <1>2, Facts DEF SocketType
<1>5. PICK t, u : t = sockets /\ u = sockets'
  OBVIOUS
<1>6. GotIn(u) = GotIn(t) - t[s].got + u[s].got
  <2>1. IsFiniteSet(DOMAIN t) /\ s \in DOMAIN t /\ DOMAIN u = DOMAIN t
    BY <1>1, <1>5, Finitely
  <2>2. /\ \A x \in DOMAIN t : t[x].got \in Nat /\ u[x].got \in Nat
        /\ \A x \in DOMAIN t \ {s} : u[x] = t[x]
    BY <1>1, <1>4, <1>5
  <2> QED
    BY <2>1, <2>2, GotChanges
<1> QED
  BY <1>1, <1>2, <1>3, <1>5, <1>6, GotIs

\* A peer, or Node, changes a socket but what guests have got of it.
LEMMA PeerKeeps ==
  ASSUME TInv, NEW s \in DOMAIN sockets, NEW new \in SocketType, PeerActs(s, new),
         new.open => sockets[s].open, new.cancels = sockets[s].cancels,
         new.got = sockets[s].got, new.got <= new.head, new.head <= new.arrived,
         "readFailed" \notin mishap =>
           /\ new.got = new.head
           /\ new.flowing => \/ Doing("read", "waiting") /\ rpc.socket = s
                             \/ new.ended /\ new.arrived = new.head
  PROVE TInv'
<1>1. /\ sockets' = [sockets EXCEPT ![s] = new]
      /\ UNCHANGED <<closed, charged, rpc, worker, handles, nextHandle, handed, cancelled, mishap>>
  BY DEF PeerActs, brokerVars
<1>2. /\ DOMAIN sockets' = DOMAIN sockets /\ sockets'[s] = new
      /\ \A x \in DOMAIN sockets \ {s} : sockets'[x] = sockets[x]
      /\ \A x \in DOMAIN sockets' :
           /\ sockets'[x] \in SocketType
           /\ sockets'[x].got <= sockets'[x].head /\ sockets'[x].head <= sockets'[x].arrived
      /\ Opened' \subseteq Opened /\ KindsStay
  BY <1>1, OneSocket
<1>3. BytesGot' = BytesGot
  BY <1>2, BytesStay
<1>4. TransportTypeOK'
  BY <1>1, <1>2, Facts, TypesFromFacts DEF HandleType
<1>5. Admitted'
  BY <1>1, <1>2 DEF TInv, Admitted, Doing
<1>6. /\ Fresh' = Fresh /\ Authorities' = Authorities /\ FreshAuthority' = FreshAuthority
      /\ OwedCancel' = OwedCancel /\ Using' = Using /\ OwedBytes' = OwedBytes /\ OwedWrite' = OwedWrite
  BY <1>1 DEF Fresh, Authorities, FreshAuthority, OwedCancel, Using, OwedBytes, OwedWrite, Doing
<1>kinds. KindsStay /\ HandlesStay /\ BusyStays
  BY <1>1, <1>2, <1>3, <1>6 DEF KindsStay, HandlesStay, BusyStays, Busy, Fresh, Doing
<1>7. SocketsCharged' /\ KindsSound' /\ CancelsCharged' /\ BytesCharged' /\ WritesCharged'
  BY <1>kinds, <1>1, <1>2, <1>3, <1>6, KindsFrame, SocketsFrame, CancelsFrame, BytesFrame, WritesFrame
<1>8. HandlesSound'
  <2>1. \A x \in Opened' : x \in Opened /\ sockets'[x].cancels = sockets[x].cancels
    BY <1>2 DEF KindsStay, Opened
  <2> QED
    BY <1>1, <1>2, <2>1 DEF TInv, HandlesSound, SettingUp, Named, InTransition
<1>9. Flows'
  <2> SUFFICES ASSUME "readFailed" \notin mishap, NEW x \in DOMAIN sockets
               PROVE  /\ sockets'[x].got = sockets'[x].head
                      /\ sockets'[x].flowing => \/ Doing("read", "waiting") /\ rpc.socket = x
                                                \/ sockets'[x].ended /\ Buffered(x)' = 0
    BY <1>1, <1>2 DEF Flows, Doing
  <2>1. CASE x = s
    <3>1. new.arrived = new.head => Buffered(s)' = 0
      BY <1>2 DEF Buffered, SocketType
    <3> QED
      BY <1>2, <2>1, <3>1
  <2>2. CASE x # s
    <3>1. Buffered(x)' = Buffered(x) /\ sockets'[x] = sockets[x]
      BY <1>2, <2>2 DEF Buffered
    <3> QED
      BY <3>1 DEF TInv, Flows
  <2> QED
    BY <2>1, <2>2
<1> QED
  BY <1>4, <1>5, <1>7, <1>8, <1>9 DEF TInv

\* Such are bytes that arrive, the end of them, bytes that are dropped, and the
\* end of a cancel's socket.
LEMMA PeersKeep ==
  ASSUME TInv, NEW s \in DOMAIN sockets, PeerSends(s) \/ PeerEnds(s) \/ SocketDrops(s) \/ CancelCloses(s)
  PROVE TInv'
<1>1. /\ sockets[s] \in SocketType /\ sockets[s].got <= sockets[s].head /\ sockets[s].head <= sockets[s].arrived
  BY Facts
<1>2. PICK old \in SocketType : old = sockets[s]
  BY <1>1
<1>3. "readFailed" \notin mishap =>
        /\ old.got = old.head
        /\ old.flowing => \/ Doing("read", "waiting") /\ rpc.socket = s
                          \/ old.ended /\ Buffered(s) = 0
  BY <1>2 DEF TInv, Flows
<1>4. Buffered(s) = old.arrived - old.head
  BY <1>2 DEF Buffered
<1>5. ASSUME PeerSends(s) PROVE TInv'
  <2>1. old.arrived < MaxArrived /\ ~ old.ended
    BY <1>2, <1>5 DEF PeerSends
  <2>2. PICK new : new = [old EXCEPT !.arrived = @ + 1]
    OBVIOUS
  <2>3. PeerActs(s, new)
    BY <1>2, <1>5, <2>2 DEF PeerSends
  <2>4. /\ new \in SocketType /\ new.open = old.open /\ new.cancels = old.cancels /\ new.got = old.got /\ new.head = old.head
        /\ new.flowing = old.flowing /\ new.ended = old.ended /\ new.arrived = old.arrived + 1
    BY <2>1, <2>2, WorldAssumption DEF SocketType
  <2>5. new.got <= new.head /\ new.head <= new.arrived
    BY <1>1, <1>2, <2>4 DEF SocketType
  <2> QED
    BY <1>2, <1>3, <2>1, <2>3, <2>4, <2>5, PeerKeeps
<1>6. ASSUME PeerEnds(s) PROVE TInv'
  <2>1. ~ old.ended
    BY <1>2, <1>6 DEF PeerEnds
  <2>2. PICK new : new = [old EXCEPT !.ended = TRUE]
    OBVIOUS
  <2>3. PeerActs(s, new)
    BY <1>2, <1>6, <2>2 DEF PeerEnds
  <2>4. /\ new \in SocketType /\ new.open = old.open /\ new.cancels = old.cancels /\ new.got = old.got /\ new.head = old.head
        /\ new.flowing = old.flowing /\ new.arrived = old.arrived
    BY <2>2 DEF SocketType
  <2> QED
    BY <1>1, <1>2, <1>3, <2>1, <2>3, <2>4, PeerKeeps
<1>7. ASSUME SocketDrops(s) PROVE TInv'
  <2>1. old.flowing /\ Buffered(s) > 0 /\ ~ (Doing("read", "waiting") /\ rpc.socket = s)
    BY <1>2, <1>7 DEF SocketDrops, Awaits, PeerActs, Doing
  <2>2. PICK new : new = [old EXCEPT !.head = old.arrived]
    OBVIOUS
  <2>3. PeerActs(s, new)
    BY <1>2, <1>7, <2>2 DEF SocketDrops
  <2>4. /\ new \in SocketType /\ new.open = old.open /\ new.cancels = old.cancels /\ new.got = old.got /\ new.head = old.arrived
        /\ new.flowing = old.flowing /\ new.arrived = old.arrived
    BY <2>2, WorldAssumption DEF SocketType
  <2>5. new.got <= new.head /\ new.head <= new.arrived
    BY <1>1, <1>2, <2>4 DEF SocketType
  <2>6. "readFailed" \in mishap
    BY <1>3, <2>1
  <2> QED
    BY <1>2, <2>3, <2>4, <2>5, <2>6, PeerKeeps
<1>8. ASSUME CancelCloses(s) PROVE TInv'
  <2>1. PICK new : new = [old EXCEPT !.open = FALSE]
    OBVIOUS
  <2>2. PeerActs(s, new)
    BY <1>2, <1>8, <2>1 DEF CancelCloses
  <2>3. /\ new \in SocketType /\ ~ new.open /\ new.cancels = old.cancels /\ new.got = old.got
        /\ new.head = old.head /\ new.flowing = old.flowing /\ new.ended = old.ended /\ new.arrived = old.arrived
    BY <2>1 DEF SocketType
  <2>4. Buffered(s) = 0 => new.arrived = new.head
    BY <1>4, <2>3, WorldAssumption DEF SocketType
  <2> QED
    BY <1>1, <1>2, <1>3, <2>2, <2>3, <2>4, PeerKeeps DEF CancelCloses
<1> QED
  BY <1>5, <1>6, <1>7, <1>8

\* A socket takes bytes, which are owed until the reply is back.
LEMMA WriteQueuesKeeps == TInv /\ WriteQueues => TInv'
<1> SUFFICES ASSUME TInv, WriteQueues PROVE TInv'
  OBVIOUS
<1>1. /\ rpc.phase = "posted" /\ rpc.op = "write" /\ handed' = handed + rpc.n
      /\ rpc.handle \in DOMAIN handles /\ handles[rpc.handle].kind # "pg-cancel"
      /\ UNCHANGED <<closed, charged, worker, handles, nextHandle, sockets, cancelled, mishap>>
  BY DEF WriteQueues, Serves, IsHandle, Kind, KeepsTable, KeepsWorker, brokerVars
<1>2. /\ rpc.n \in Nat /\ rpc.n > 0 /\ handed + rpc.n <= MaxHanded /\ handed \in Nat
      /\ charged.write \in Nat
  BY <1>1, Facts DEF TInv, Admitted, Doing, RpcType
<1>3. handed' \in 0..MaxHanded
  BY <1>1, <1>2, WorldAssumption
<1>4. Socket \in DOMAIN sockets /\ Socket \in Nat
  <2>1. handles[rpc.handle].socket # NoSocket /\ handles[rpc.handle] \in HandleType
    BY <1>1, Facts DEF TInv, HandlesSound
  <2> QED
    BY <2>1, Facts DEF Socket, HandleType
<1>5. /\ rpc' \in RpcType /\ rpc'.op = rpc.op /\ rpc'.n = rpc.n
      /\ \/ rpc'.phase = "answered" /\ rpc'.result = rpc.n
         \/ rpc'.phase = "waiting" /\ rpc'.socket = Socket
  <2>1. CASE Answers(rpc.n)
    <3>1. PICK r \in Int : r = rpc.n /\ Answers(r)
      BY <1>2, <2>1
    <3> QED
      BY <3>1, Facts, AnswerFacts
  <2>2. CASE Waits(Socket)
    <3>1. PICK c \in Nat : c = Socket /\ Waits(c)
      BY <1>4, <2>2
    <3> QED
      BY <1>4, <3>1, Facts, WaitFacts
  <2> QED
    BY <2>1, <2>2 DEF WriteQueues
<1>6. TransportTypeOK'
  BY <1>1, <1>3, <1>5, Facts, TypesFromFacts DEF HandleType
<1>7. Admitted'
  BY <1>1, <1>4, <1>5 DEF TInv, Admitted, Doing
<1>8. /\ Opened' = Opened /\ Fresh' = Fresh /\ Authorities' = Authorities /\ FreshAuthority' = FreshAuthority
      /\ OwedCancel' = OwedCancel /\ Using' = Using /\ OwedBytes' = OwedBytes
      /\ ~ SettingUp /\ ~ SettingUp' /\ ~ ReadsOn /\ KindsStay /\ HandlesStay
  BY <1>1, <1>5 DEF Opened, KindsStay, HandlesStay, Fresh, Authorities, FreshAuthority, OwedCancel, Using, OwedBytes, SettingUp, ReadsOn, Doing
<1>9. OwedWrite = 0 /\ OwedWrite' = rpc.n
  BY <1>1, <1>2, <1>5 DEF OwedWrite, Doing
<1>kinds. KindsSound'
  <2>1. rpc.op # "cancel" /\ handles[rpc.handle].socket # NoSocket
    BY <1>1 DEF TInv, HandlesSound
  <2>2. Busy' => rpc'.socket = handles[rpc.handle].socket
    BY <1>1, <1>5 DEF Busy, Fresh, Doing, Socket
  <2> QED
    BY <1>1, <1>5, <1>8, <2>1, <2>2, KindsBound
<1>10. SocketsCharged' /\ CancelsCharged' /\ BytesCharged'
  BY <1>1, <1>8, BytesStay, SocketsFrame, CancelsFrame, BytesFrame
<1>11. WritesCharged'
  <2>1. "writeFailed" \notin mishap => handed = charged.write
    BY <1>2, <1>9 DEF TInv, WritesCharged
  <2> QED
    BY <1>1, <1>2, <1>9, <2>1 DEF WritesCharged
<1>12. HandlesSound'
  BY <1>1, <1>8, HandlesFrame
<1>13. Flows'
  BY <1>1, <1>8, FlowsFrame
<1> QED
  BY <1>kinds, <1>6, <1>7, <1>10, <1>11, <1>12, <1>13 DEF TInv

\* A read takes k bytes from a socket's buffer and answers with them.
LEMMA TakesKeeps ==
  ASSUME TInv, NEW s \in DOMAIN sockets, NEW new \in SocketType, NEW k \in Nat,
         rpc.op = "read", rpc.phase \in {"posted", "waiting"}, rpc.phase = "waiting" => rpc.socket = s,
         0 < k, k <= rpc.n, k <= Buffered(s), Answers(k),
         sockets' = [sockets EXCEPT ![s] = new], new.open = sockets[s].open,
         new.cancels = sockets[s].cancels, new.arrived = sockets[s].arrived,
         new.head = sockets[s].head + k, new.got = sockets[s].got + k,
         new.flowing => rpc.phase = "posted" /\ sockets[s].flowing,
         UNCHANGED <<closed, charged, worker, handles, nextHandle, handed, cancelled, mishap>>
  PROVE TInv'
<1>1. /\ rpc' \in RpcType /\ rpc'.phase = "answered" /\ rpc'.result = k
      /\ rpc'.op = rpc.op /\ rpc'.n = rpc.n /\ rpc'.socket = rpc.socket
  BY Facts, AnswerFacts
<1>2. /\ sockets[s] \in SocketType /\ sockets[s].got <= sockets[s].head
      /\ Buffered(s) = sockets[s].arrived - sockets[s].head
  BY Facts DEF Buffered
<1>3. /\ sockets[s].got \in Nat /\ sockets[s].head \in Nat /\ sockets[s].arrived \in Nat
      /\ new.got \in Nat /\ new.head \in Nat /\ new.arrived \in Nat
  BY <1>2, WorldAssumption DEF SocketType
<1>4. new.got <= new.head /\ new.head <= new.arrived
  BY <1>2, <1>3
<1>5. /\ DOMAIN sockets' = DOMAIN sockets /\ sockets'[s] = new
      /\ \A x \in DOMAIN sockets \ {s} : sockets'[x] = sockets[x]
      /\ \A x \in DOMAIN sockets' :
           /\ sockets'[x] \in SocketType
           /\ sockets'[x].got <= sockets'[x].head /\ sockets'[x].head <= sockets'[x].arrived
      /\ Opened' \subseteq Opened /\ KindsStay
      /\ BytesGot' = BytesGot - sockets[s].got + new.got
  BY <1>4, OneSocket
<1>6. TransportTypeOK'
  BY <1>1, <1>5, Facts, TypesFromFacts DEF HandleType
<1>7. Admitted'
  BY <1>1, <1>5 DEF TInv, Admitted, Doing
<1>8. /\ Fresh' = Fresh /\ Authorities' = Authorities /\ FreshAuthority' = FreshAuthority
      /\ OwedCancel' = OwedCancel /\ Using' = Using /\ OwedWrite' = OwedWrite /\ ~ SettingUp /\ ~ SettingUp'
  BY <1>1 DEF Fresh, Authorities, FreshAuthority, OwedCancel, Using, OwedWrite, SettingUp, Doing
<1>kinds. KindsStay /\ HandlesStay /\ BusyStays
  BY <1>1, <1>5, <1>8 DEF KindsStay, HandlesStay, BusyStays, Busy, Fresh, Doing
<1>9. SocketsCharged' /\ KindsSound' /\ CancelsCharged' /\ WritesCharged'
  BY <1>kinds, <1>5, <1>8, KindsFrame, SocketsFrame, CancelsFrame, WritesFrame
<1>10. BytesCharged'
  <2>1. OwedBytes = 0 /\ OwedBytes' = k
    BY <1>1 DEF OwedBytes, Doing
  <2>2. BytesGot' = BytesGot + k /\ BytesGot \in Nat /\ charged.read \in Nat
    BY <1>3, <1>5, Finitely, Facts
  <2>3. BytesGot = charged.read
    BY <2>1, <2>2 DEF TInv, BytesCharged
  <2> QED
    BY <2>1, <2>2, <2>3 DEF BytesCharged
<1>11. HandlesSound'
  BY <1>5, <1>8, HandlesFrame
<1>12. Flows'
  <2> SUFFICES ASSUME "readFailed" \notin mishap, NEW x \in DOMAIN sockets
               PROVE  /\ sockets'[x].got = sockets'[x].head
                      /\ sockets'[x].flowing => sockets'[x].ended /\ Buffered(x)' = 0
    BY <1>5 DEF Flows
  <2>1. /\ sockets[x].got = sockets[x].head
        /\ sockets[x].flowing => \/ Doing("read", "waiting") /\ rpc.socket = x
                                 \/ sockets[x].ended /\ Buffered(x) = 0
    BY DEF TInv, Flows
  <2>2. CASE x = s
    <3>1. ~ new.flowing
      <4>1. ASSUME new.flowing PROVE FALSE
        <5>1. Buffered(s) = 0
          BY <2>1, <2>2, <4>1 DEF Doing
        <5> QED
          BY <5>1
      <4> QED
        BY <4>1
    <3> QED
      BY <1>5, <2>1, <2>2, <3>1
  <2>3. CASE x # s
    <3>1. Buffered(x)' = Buffered(x) /\ sockets'[x] = sockets[x]
      BY <1>5, <2>3 DEF Buffered
    <3> QED
      BY <2>1, <2>3, <3>1 DEF Doing
  <2> QED
    BY <2>2, <2>3
<1> QED
  BY <1>6, <1>7, <1>9, <1>10, <1>11, <1>12 DEF TInv

\* A read is served from the buffer, or waits.
LEMMA ReadServesKeeps == TInv /\ ReadServes => TInv'
<1> SUFFICES ASSUME TInv, ReadServes PROVE TInv'
  OBVIOUS
<1>1. /\ rpc.phase = "posted" /\ rpc.op = "read" /\ rpc.handle \in DOMAIN handles
      /\ handles[rpc.handle].kind # "pg-cancel"
      /\ UNCHANGED <<closed, charged, worker, handles, nextHandle, handed, cancelled, mishap>>
  BY DEF ReadServes, Serves, IsHandle, Kind, KeepsTable, KeepsHistory, KeepsWorker, brokerVars
<1>2. PICK s : s = Socket
  OBVIOUS
<1>3. s \in DOMAIN sockets /\ s \in Nat
  <2>1. handles[rpc.handle].socket # NoSocket /\ handles[rpc.handle] \in HandleType
    BY <1>1, Facts DEF TInv, HandlesSound
  <2> QED
    BY <1>2, <2>1, Facts DEF Socket, HandleType
<1>4. PICK old \in SocketType : old = sockets[s] /\ old.got <= old.head /\ old.head <= old.arrived
  BY <1>3, Facts
<1>5. /\ rpc.n \in Nat /\ rpc.n > 0 /\ Buffered(s) = old.arrived - old.head /\ Buffered(s) \in Nat
  <2>1. rpc.n \in Nat /\ rpc.n > 0
    BY <1>1, Facts DEF TInv, Admitted, RpcType
  <2> QED
    BY <1>4, <2>1, WorldAssumption DEF Buffered, SocketType
<1>6. ASSUME NEW k \in Nat, 0 < k, k <= rpc.n, k <= Buffered(s), Answers(k),
             sockets' = [sockets EXCEPT ![s].head = @ + k, ![s].got = @ + k]
      PROVE  TInv'
  <2>1. PICK new : new = [old EXCEPT !.head = @ + k, !.got = @ + k]
    OBVIOUS
  <2>2. /\ new \in SocketType /\ new.open = old.open /\ new.cancels = old.cancels /\ new.arrived = old.arrived /\ new.flowing = old.flowing
        /\ new.head = old.head + k /\ new.got = old.got + k
    <3>1. old.head + k \in Nat /\ old.got + k \in Nat
      BY <1>6 DEF SocketType
    <3>2. PICK a \in Nat, b \in Nat : a = old.head + k /\ b = old.got + k
      BY <3>1
    <3>3. new = [old EXCEPT !.head = a, !.got = b]
      BY <2>1, <3>2
    <3> QED
      BY <3>2, <3>3 DEF SocketType
  <2>3. sockets' = [sockets EXCEPT ![s] = new]
    BY <1>3, <1>4, <1>6, <2>1 DEF SocketType
  <2> QED
    BY <1>1, <1>3, <1>4, <1>6, <2>2, <2>3, TakesKeeps
<1>7. CASE /\ Buffered(s) >= rpc.n
           /\ sockets' = [sockets EXCEPT ![s].head = @ + rpc.n, ![s].got = @ + rpc.n]
           /\ Answers(rpc.n)
  <2>1. PICK k \in Nat : k = rpc.n
    BY <1>5
  <2>2. sockets' = [sockets EXCEPT ![s].head = @ + k, ![s].got = @ + k] /\ Answers(k)
    BY <1>7, <2>1
  <2>3. 0 < k /\ k <= rpc.n /\ k <= Buffered(s)
    BY <1>5, <1>7, <2>1
  <2> QED
    BY <1>6, <2>2, <2>3
<1>8. CASE /\ sockets[s].ended /\ Buffered(s) \in 1..(rpc.n - 1)
           /\ sockets' = [sockets EXCEPT ![s].head = @ + Buffered(s), ![s].got = @ + Buffered(s)]
           /\ Answers(Buffered(s))
  <2>1. PICK k \in Nat : k = Buffered(s)
    BY <1>5
  <2>2. 0 < k /\ k <= rpc.n /\ k <= Buffered(s)
    BY <1>5, <1>8, <2>1
  <2> QED
    BY <1>6, <1>8, <2>1, <2>2
<1>9. CASE Answers(0) /\ UNCHANGED sockets
  <2>1. UNCHANGED <<closed, charged, workerVars>>
    BY <1>1, <1>9 DEF workerVars
  <2>2. ~ SettingUp /\ ~ ReadsOn /\ mishap' = mishap
    BY <1>1 DEF SettingUp, ReadsOn, Doing
  <2>3. mishap \subseteq Mishaps
    BY Facts DEF Mishaps
  <2> QED
    BY <1>1, <1>9, <2>1, <2>2, <2>3, AnswersKeeps
<1>10. CASE /\ ~ sockets[s].ended
            /\ sockets' = [sockets EXCEPT ![s].flowing = TRUE]
            /\ Waits(s)
  <2>1. PICK new : new = [old EXCEPT !.flowing = TRUE]
    OBVIOUS
  <2>2. /\ new \in SocketType /\ new.open = old.open /\ new.cancels = old.cancels /\ new.arrived = old.arrived
        /\ new.head = old.head /\ new.got = old.got /\ new.ended = old.ended /\ ~ old.ended
    BY <1>4, <1>10, <2>1 DEF SocketType
  <2>3. sockets' = [sockets EXCEPT ![s] = new]
    BY <1>3, <1>4, <1>10, <2>1 DEF SocketType
  <2>4. /\ DOMAIN sockets' = DOMAIN sockets /\ sockets'[s] = new
        /\ \A x \in DOMAIN sockets \ {s} : sockets'[x] = sockets[x]
        /\ \A x \in DOMAIN sockets' :
             /\ sockets'[x] \in SocketType
             /\ sockets'[x].got <= sockets'[x].head /\ sockets'[x].head <= sockets'[x].arrived
        /\ Opened' \subseteq Opened /\ KindsStay
    BY <1>3, <1>4, <2>2, <2>3, OneSocket
  <2>5. /\ rpc' \in RpcType /\ rpc'.phase = "waiting" /\ rpc'.result = rpc.result
        /\ rpc'.op = rpc.op /\ rpc'.n = rpc.n /\ rpc'.socket = s
    BY <1>3, <1>10, Facts, WaitFacts
  <2>6. TransportTypeOK'
    BY <1>1, <2>4, <2>5, Facts, TypesFromFacts DEF HandleType
  <2>7. Admitted'
    BY <1>1, <1>3, <2>4, <2>5 DEF TInv, Admitted, Doing
  <2>8. /\ Fresh' = Fresh /\ Authorities' = Authorities /\ FreshAuthority' = FreshAuthority
        /\ OwedCancel' = OwedCancel /\ Using' = Using /\ OwedBytes' = OwedBytes /\ OwedWrite' = OwedWrite
        /\ ~ SettingUp /\ ~ SettingUp'
    BY <1>1, <2>5 DEF Fresh, Authorities, FreshAuthority, OwedCancel, Using, OwedBytes, OwedWrite, SettingUp, Doing
  <2>9. BytesGot' = BytesGot
    BY <1>4, <2>2, <2>4, BytesStay
  <2>kinds. KindsSound'
    <3>1. rpc.op # "cancel" /\ handles[rpc.handle].socket # NoSocket /\ handles[rpc.handle].socket = s
      BY <1>1, <1>2 DEF TInv, HandlesSound, Socket
    <3>2. HandlesStay
      BY <1>1 DEF HandlesStay
    <3> QED
      BY <1>1, <2>4, <2>5, <3>1, <3>2, KindsBound
  <2>10. SocketsCharged' /\ CancelsCharged' /\ BytesCharged' /\ WritesCharged'
    BY <1>1, <2>4, <2>8, <2>9, SocketsFrame, CancelsFrame, BytesFrame, WritesFrame
  <2>11. HandlesSound'
    BY <1>1, <2>4, <2>8, HandlesFrame
  <2>12. Flows'
    <3> SUFFICES ASSUME "readFailed" \notin mishap, NEW x \in DOMAIN sockets
                 PROVE  /\ sockets'[x].got = sockets'[x].head
                        /\ sockets'[x].flowing => x = s \/ (sockets'[x].ended /\ Buffered(x)' = 0)
      BY <1>1, <2>4, <2>5 DEF Flows, Doing
    <3>1. /\ sockets[x].got = sockets[x].head
          /\ sockets[x].flowing => sockets[x].ended /\ Buffered(x) = 0
      BY <1>1 DEF TInv, Flows, Doing
    <3>2. CASE x = s
      BY <1>4, <2>2, <2>4, <3>1, <3>2
    <3>3. CASE x # s
      BY <2>4, <3>1, <3>3 DEF Buffered
    <3> QED
      BY <3>2, <3>3
  <2> QED
    BY <2>kinds, <2>6, <2>7, <2>10, <2>11, <2>12 DEF TInv
<1> QED
  BY <1>2, <1>7, <1>8, <1>9, <1>10 DEF ReadServes

\* A read that waits receives bytes or the end.
LEMMA ReadReceivesKeeps == TInv /\ ReadReceives => TInv'
<1> SUFFICES ASSUME TInv, ReadReceives PROVE TInv'
  OBVIOUS
<1>1. /\ rpc.phase = "waiting" /\ rpc.op = "read"
      /\ UNCHANGED <<closed, charged, worker, handles, nextHandle, handed, cancelled, mishap>>
  BY DEF ReadReceives, Awaits, KeepsTable, KeepsHistory, KeepsWorker, brokerVars
<1>2. PICK s : s = rpc.socket
  OBVIOUS
<1>3. s \in DOMAIN sockets /\ rpc.n \in Nat /\ rpc.n > 0
  BY <1>1, <1>2, Facts DEF TInv, Admitted, RpcType
<1>4. PICK old \in SocketType : old = sockets[s]
  BY <1>3, Facts
<1>5. ASSUME NEW chunk \in 1..Buffered(s), Delivers(s, chunk) PROVE TInv'
  <2>1. PICK k : k = Least(chunk, rpc.n)
    OBVIOUS
  <2>2. Buffered(s) \in Int
    BY <1>4, WorldAssumption DEF Buffered, SocketType
  <2>3. k \in Nat /\ 0 < k /\ k <= rpc.n /\ k <= Buffered(s)
    BY <1>3, <2>1, <2>2 DEF Least
  <2>4. /\ sockets' = [sockets EXCEPT ![s].head = @ + k, ![s].got = @ + k, ![s].flowing = FALSE]
        /\ Answers(k)
    BY <1>5, <2>1 DEF Delivers, Taken
  <2>5. PICK new : new = [old EXCEPT !.head = @ + k, !.got = @ + k, !.flowing = FALSE]
    OBVIOUS
  <2>6. /\ new \in SocketType /\ new.open = old.open /\ new.cancels = old.cancels /\ new.arrived = old.arrived /\ ~ new.flowing
        /\ new.head = old.head + k /\ new.got = old.got + k
    <3>1. old.head + k \in Nat /\ old.got + k \in Nat
      BY <2>3 DEF SocketType
    <3>2. PICK a \in Nat, b \in Nat : a = old.head + k /\ b = old.got + k
      BY <3>1
    <3>3. new = [old EXCEPT !.head = a, !.got = b, !.flowing = FALSE]
      BY <2>5, <3>2
    <3> QED
      BY <3>2, <3>3 DEF SocketType
  <2>7. sockets' = [sockets EXCEPT ![s] = new]
    BY <1>3, <1>4, <2>4, <2>5 DEF SocketType
  <2> QED
    BY <1>1, <1>2, <1>3, <1>4, <2>3, <2>4, <2>6, <2>7, TakesKeeps
<1>6. CASE Buffered(s) = 0 /\ sockets[s].ended /\ Answers(0) /\ UNCHANGED sockets
  <2>1. UNCHANGED <<closed, charged, workerVars>>
    BY <1>1, <1>6 DEF workerVars
  <2>2. ~ SettingUp /\ ~ ReadsOn /\ mishap' = mishap
    BY <1>1, <1>2, <1>6 DEF SettingUp, ReadsOn
  <2>3. mishap \subseteq Mishaps
    BY Facts DEF Mishaps
  <2> QED
    BY <1>1, <1>6, <2>1, <2>2, <2>3, AnswersKeeps
<1> QED
  BY <1>2, <1>5, <1>6 DEF ReadReceives

-----------------------------------------------------------------------------
(* The invariant.                                                          *)

\* It holds when the broker and its worker have started.
LEMMA TInvInit == TransportInit => TInv
<1> SUFFICES ASSUME TransportInit PROVE TInv
  OBVIOUS
<1>1. /\ closed = FALSE /\ worker = "up" /\ nextHandle = 1 /\ handed = 0 /\ cancelled = 0 /\ mishap = {}
      /\ DOMAIN handles = {} /\ DOMAIN sockets = {}
      /\ charged \in [{"connections", "read", "write", "cancelHandles", "cancels"} -> Nat]
      /\ charged.connections = 0 /\ charged.read = 0 /\ charged.write = 0
      /\ charged.cancelHandles = 0 /\ charged.cancels = 0
      /\ rpc \in RpcType /\ rpc.phase = "none" /\ rpc.op = "none"
  BY DEF TransportInit, NoRequest, RpcType, Phases, Ops, NoSocket
<1>2. TransportTypeOK
  <2>1. nextHandle \in Nat \ {0} /\ handed \in 0..MaxHanded /\ cancelled \in Nat
    BY <1>1, WorldAssumption
  <2>2. mishap \subseteq Mishaps /\ DOMAIN handles \subseteq 1..(nextHandle - 1)
    BY <1>1
  <2> QED
    BY <1>1, <2>1, <2>2 DEF TransportTypeOK, RpcType, Mishaps
<1>3. Admitted
  BY <1>1, QuotasAssumption DEF Admitted, Doing
<1>4. /\ Fresh = {} /\ FreshAuthority = {} /\ Opened = {} /\ Authorities = {} /\ ~ SettingUp
      /\ OwedCancel = 0 /\ Using = 0 /\ ~ Busy /\ OpenConnections = {} /\ OpenCancels = {} /\ OwedBytes = 0 /\ OwedWrite = 0
  BY <1>1 DEF Fresh, Busy, OpenConnections, OpenCancels, FreshAuthority, Opened, Authorities, SettingUp, OwedCancel, Using, OwedBytes, OwedWrite, Doing
<1>5. Cardinality({}) = 0
  BY FS_EmptySet
<1>6. HandlesSound
  BY <1>1, <1>4, <1>5 DEF HandlesSound
<1>7. SocketsCharged /\ KindsSound /\ CancelsCharged /\ WritesCharged
  BY <1>1, <1>4, <1>5 DEF SocketsCharged, KindsSound, CancelsCharged, WritesCharged
<1>8. BytesGot = 0
  <2>1. PICK f : f = [s \in DOMAIN sockets |-> sockets[s].got]
    OBVIOUS
  <2>2. SumOver(f, {}) = 0
    BY SumEmpty
  <2> QED
    BY <1>1, <2>1, <2>2, GotIs DEF GotIn
<1>9. BytesCharged /\ Flows
  BY <1>1, <1>4, <1>8 DEF BytesCharged, Flows
<1> QED
  BY <1>2, <1>3, <1>6, <1>7, <1>9 DEF TInv

\* Every step keeps it.
LEMMA TInvKept == TInv /\ [TransportNext]_transportVars => TInv'
<1>1. TInv /\ WorkerStep => TInv'
  BY WorkerRejectsKeeps, WorkerLooksUpKeeps, WorkerConnectsKeeps, TlsRefusedKeeps, TlsStartsKeeps,
     SetupSucceedsKeeps, SetupFailsKeeps, WriteQueuesKeeps, WriteDrainsKeeps, WriteFailsKeeps,
     ReadServesKeeps, ReadReceivesKeeps, ReadTimesOutKeeps, CancelRegistersKeeps, CancelMistakenKeeps,
     CancelConnectsKeeps, CancelSendsKeeps, CancelEndsKeeps, CancelFailsKeeps, ClosesKeeps DEF WorkerStep
<1>2. TInv /\ (BrokerStep \/ CloseBroker) => TInv'
  BY BrokerReturnsKeeps, BrokerEndsKeeps DEF BrokerStep
<1>3. TInv /\ Environment => TInv'
  BY WorkerEndsKeeps, PeersKeep, SocketBreaksKeeps DEF Environment, WorkerTerminates, WorkerDies
<1>4. TInv /\ UNCHANGED transportVars => TInv'
  <2> SUFFICES ASSUME TInv, UNCHANGED transportVars PROVE TInv'
    OBVIOUS
  <2>1. UNCHANGED <<closed, charged, rpc, worker, handles, nextHandle, sockets, handed, cancelled, mishap>>
    BY DEF transportVars, brokerVars, workerVars
  <2>2. TransportTypeOK' /\ Admitted'
    BY <2>1 DEF TInv, TransportTypeOK, Admitted, Doing
  <2>3. Opened' = Opened /\ Fresh' = Fresh /\ Authorities' = Authorities /\ FreshAuthority' = FreshAuthority
    BY <2>1 DEF Opened, Fresh, Authorities, FreshAuthority, Doing
  <2>4. OwedCancel' = OwedCancel /\ Using' = Using /\ OwedBytes' = OwedBytes /\ OwedWrite' = OwedWrite
    BY <2>1 DEF OwedCancel, Using, OwedBytes, OwedWrite, Doing
  <2>kinds. KindsStay /\ HandlesStay /\ BusyStays
    BY <2>1, <2>3, <2>4 DEF KindsStay, HandlesStay, BusyStays, Busy, Fresh, Doing
  <2>5. SocketsCharged' /\ KindsSound' /\ CancelsCharged' /\ BytesCharged' /\ WritesCharged'
    BY <2>kinds, <2>1, <2>3, <2>4, BytesStay, KindsFrame, SocketsFrame, CancelsFrame, BytesFrame, WritesFrame
  <2>6. HandlesSound'
    BY <2>1 DEF TInv, HandlesSound, SettingUp, Named, Opened, InTransition
  <2>7. Flows'
    BY <2>1, FlowsFrame
  <2> QED
    BY <2>2, <2>5, <2>6, <2>7 DEF TInv
<1> QED
  BY <1>1, <1>2, <1>3, <1>4, AsksKeeps DEF TransportNext

\* The invariant holds: each request was admitted for all it may still use, and
\* what the worker did beyond the broker's counters is what they still owe.
THEOREM TransportInvariant == TransportSpec => []TInv
BY TInvInit, TInvKept, PTL DEF TransportSpec

\* The types of the transport (TransportTypeOK).
THEOREM TransportTypeCorrect == TransportSpec => []TransportTypeOK
<1>1. TInv => TransportTypeOK
  BY Facts
<1> QED
  BY <1>1, TransportInvariant, PTL

\* Bytes are charged as they are handed over, stay within the quotas, and none is
\* lost or doubled until a request failed (BytesAccounted).
THEOREM BytesAreAccounted == TransportSpec => []BytesAccounted
<1>1. TInv => BytesAccounted
  <2> SUFFICES ASSUME TInv PROVE BytesAccounted
    OBVIOUS
  <2>1. /\ charged.read \in Nat /\ charged.write \in Nat /\ rpc.n \in Nat /\ rpc.result \in Int
        /\ handed \in Nat /\ maxReadBytes \in Nat /\ maxWriteBytes \in Nat
        /\ charged.read <= maxReadBytes /\ charged.write <= maxWriteBytes
    BY Facts, QuotasAssumption DEF RpcType, TInv, Admitted
  <2>2. ReadCharged
    <3>1. BytesGot = charged.read + OwedBytes
      BY DEF TInv, BytesCharged
    <3>2. charged.read + OwedBytes <= maxReadBytes
      BY <2>1 DEF TInv, Admitted, OwedBytes, Doing
    <3>3. rpc.phase = "none" => OwedBytes = 0
      BY DEF OwedBytes, Doing
    <3> QED
      BY <2>1, <3>1, <3>2, <3>3 DEF ReadCharged
  <2>3. NothingLost
    BY DEF TInv, Flows, NothingLost
  <2>4. WriteQuota
    <3>1. charged.write + OwedWrite <= maxWriteBytes
      BY <2>1 DEF TInv, Admitted, OwedWrite, Doing
    <3> QED
      BY <3>1 DEF TInv, WritesCharged, WriteQuota
  <2> QED
    BY <2>2, <2>3, <2>4 DEF BytesAccounted
<1> QED
  BY <1>1, TransportInvariant, PTL

\* An open connection has one handle, or none while the request that connects
\* or upgrades it is under way, and the socket of a cancel never has one
\* (OneHandlePerSocket).
THEOREM OneHandle == TransportSpec => []OneHandlePerSocket
<1>1. TInv => OneHandlePerSocket
  <2> SUFFICES ASSUME TInv, "connectionCancelled" \notin mishap, NEW s \in Opened
               PROVE  Cardinality(HandlesOf(s)) = IF InTransition(s) \/ sockets[s].cancels THEN 0 ELSE 1
    BY DEF OneHandlePerSocket
  <2>1. s # NoSocket
    BY Facts DEF Opened
  <2>2. CASE InTransition(s)
    <3>1. HandlesOf(s) = {}
      BY <2>2 DEF TInv, HandlesSound, SettingUp, InTransition, Named, HandlesOf
    <3> QED
      BY <2>2, <3>1, FS_EmptySet
  <2>3. CASE sockets[s].cancels
    <3>1. HandlesOf(s) = {}
      BY <2>1, <2>3 DEF TInv, KindsSound, HandlesOf
    <3> QED
      BY <2>3, <3>1, FS_EmptySet
  <2>4. CASE ~ InTransition(s) /\ ~ sockets[s].cancels
    <3>1. PICK h \in DOMAIN handles : handles[h].socket = s
      BY <2>4 DEF TInv, HandlesSound, Named
    <3>2. HandlesOf(s) = {h}
      BY <2>1, <3>1 DEF TInv, HandlesSound, HandlesOf
    <3> QED
      BY <2>4, <3>2, FS_Singleton
  <2> QED
    BY <2>2, <2>3, <2>4
<1> QED
  BY <1>1, TransportInvariant, PTL

\* Quotas that are charged after the fact bound the connections, the sockets of
\* cancels on top of them and the cancel requests there are (AttemptsWithinQuota).
THEOREM AttemptsHeld == TransportSpec => []AttemptsWithinQuota
<1>1. TInv => AttemptsWithinQuota
  <2> SUFFICES ASSUME TInv PROVE AttemptsWithinQuota
    OBVIOUS
  <2>1. charged \in [{"connections", "read", "write", "cancelHandles", "cancels"} -> Nat] /\ cancelled \in Nat
    BY Facts
  <2>2. SocketQuota
    <3>1. OpenConnections \in SUBSET DOMAIN sockets /\ OpenCancels \in SUBSET DOMAIN sockets
      BY DEF OpenConnections, OpenCancels, Opened
    <3>2. /\ IsFiniteSet(OpenConnections) /\ Cardinality(OpenConnections) \in Nat
          /\ IsFiniteSet(OpenCancels) /\ Cardinality(OpenCancels) \in Nat
      BY <3>1, Finitely
    <3>3. /\ Cardinality(OpenConnections \ Fresh) <= charged.connections /\ charged.connections <= maxConnections
          /\ Cardinality(OpenCancels \ Fresh) <= charged.cancels /\ charged.cancels <= maxCancelRequests
          /\ rpc.op = "connect" => charged.connections < maxConnections
          /\ rpc.op = "cancel" => charged.cancels < maxCancelRequests
          /\ charged.connections \in Nat /\ maxConnections \in Nat
          /\ charged.cancels \in Nat /\ maxCancelRequests \in Nat
      BY <2>1, QuotasAssumption DEF TInv, SocketsCharged, Admitted
    <3>4. CASE Fresh = {}
      <4>1. OpenConnections \ Fresh = OpenConnections /\ OpenCancels \ Fresh = OpenCancels
        BY <3>4
      <4> QED
        BY <3>2, <3>3, <4>1 DEF SocketQuota
    <3>5. CASE Fresh # {}
      <4>1. /\ Fresh = {rpc.socket} /\ rpc.op \in {"connect", "cancel"}
            /\ sockets[rpc.socket].cancels <=> rpc.op = "cancel"
        BY <3>5 DEF TInv, KindsSound, Busy, Fresh, Doing
      <4>2. /\ Cardinality(OpenConnections) <= Cardinality(OpenConnections \ {rpc.socket}) + 1
            /\ Cardinality(OpenCancels) <= Cardinality(OpenCancels \ {rpc.socket}) + 1
            /\ Cardinality(OpenConnections \ {rpc.socket}) \in Nat
            /\ Cardinality(OpenCancels \ {rpc.socket}) \in Nat
        BY <3>2, OneMore, PartIsSmaller
      <4>3. CASE rpc.op = "connect"
        <5>1. OpenCancels \ Fresh = OpenCancels
          BY <4>1, <4>3 DEF OpenCancels, OpenConnections
        <5>2. Cardinality(OpenConnections \ {rpc.socket}) <= charged.connections
          BY <3>3, <4>1
        <5>3. Cardinality(OpenConnections) <= maxConnections
          BY <3>2, <3>3, <4>2, <4>3, <5>2
        <5>4. Cardinality(OpenCancels) <= maxCancelRequests
          BY <3>2, <3>3, <5>1
        <5> QED
          BY <5>3, <5>4 DEF SocketQuota
      <4>4. CASE rpc.op = "cancel"
        <5>1. OpenConnections \ Fresh = OpenConnections
          BY <4>1, <4>4 DEF OpenConnections
        <5> QED
          BY <3>2, <3>3, <4>1, <4>2, <4>4, <5>1 DEF SocketQuota
      <4> QED
        BY <4>1, <4>3, <4>4
    <3> QED
      BY <3>4, <3>5
  <2>3. CancelOnce
    <3>1. Authorities \ FreshAuthority \in SUBSET DOMAIN handles
      BY DEF Authorities
    <3>2. PICK a \in Nat : a = Cardinality(Authorities \ FreshAuthority)
      BY <3>1, Finitely
    <3>3. PICK u \in Nat, k \in Nat : u = Using /\ k = OwedCancel
      BY DEF Using, OwedCancel
    <3>4. /\ a + cancelled + u <= charged.cancelHandles
          /\ "cancelFailed" \notin mishap => cancelled <= charged.cancels + k
      BY <3>2, <3>3 DEF TInv, CancelsCharged
    <3>5. charged.cancels + k <= maxCancelRequests
      BY <2>1, <3>3, QuotasAssumption DEF TInv, Admitted, OwedCancel, Doing
    <3> QED
      BY <2>1, <3>4, <3>5, QuotasAssumption DEF CancelOnce
  <2> QED
    BY <2>2, <2>3 DEF AttemptsWithinQuota
<1> QED
  BY <1>1, TransportInvariant, PTL

\* A step keeps handles, deletes some, or adds the next.
LEMMA NewHandles == TInv /\ [TransportNext]_transportVars => OnlyNewHandles
<1> SUFFICES ASSUME TInv, [TransportNext]_transportVars PROVE OnlyNewHandles
  OBVIOUS
<1> USE DEF KeepsTable
<1>1. CASE handles' = handles
  BY <1>1 DEF OnlyNewHandles
<1>2. CASE handles' = WithoutHandle(rpc.handle)
  BY <1>2 DEF WithoutHandle, OnlyNewHandles
<1>3. ASSUME NEW kind, NEW c, Adds(kind, c)
      PROVE  OnlyNewHandles
  <2>1. nextHandle >= nextHandle
    BY Facts
  <2> QED
    BY <1>3, <2>1 DEF Adds, OnlyNewHandles
<1>4. CASE WorkerStep
  <2>1. \/ handles' = handles \/ handles' = WithoutHandle(rpc.handle)
        \/ SetupSucceeds \/ CancelRegisters
    BY <1>4 DEF WorkerStep, WorkerRejects, WorkerLooksUp, WorkerConnects, TlsRefused, TlsStarts, SetupFails,
       WriteQueues, WriteDrains, WriteFails, ReadServes, ReadReceives, ReadTimesOut, CancelMistaken, CancelConnects,
       CancelSends, CancelEnds, CancelFails, Closes, Consumed, Used
  <2>2. CASE SetupSucceeds
    <3>1. PICK kind, c : Adds(kind, c)
      BY <2>2 DEF SetupSucceeds
    <3> QED
      BY <1>3, <3>1
  <2>3. CASE CancelRegisters
    <3>1. PICK kind, c : Adds(kind, c)
      BY <2>3 DEF CancelRegisters
    <3> QED
      BY <1>3, <3>1
  <2> QED
    BY <1>1, <1>2, <2>1, <2>2, <2>3
<1>5. CASE Asks
  <2>1. handles' = handles
    BY <1>5 DEF Asks, AsksConnect, AsksTls, AsksRegister, AsksCancel, MayCancel, AsksClose, AsksWrite, AsksRead, Posts, workerVars
  <2> QED
    BY <1>1, <2>1
<1>6. CASE BrokerStep \/ CloseBroker
  <2>1. handles' = handles
    BY <1>6 DEF BrokerStep, BrokerReturns, BrokerTimesOut, CloseBroker, workerVars
  <2> QED
    BY <1>1, <2>1
<1>7. CASE Environment
  <2>1. handles' = handles
    BY <1>7 DEF Environment, WorkerTerminates, WorkerDies, WorkerEnds, PeerSends, PeerEnds, SocketDrops, CancelCloses,
       SocketBreaks, PeerActs
  <2> QED
    BY <1>1, <2>1
<1>8. CASE UNCHANGED transportVars
  BY <1>1, <1>8 DEF transportVars, workerVars
<1> QED
  BY <1>4, <1>5, <1>6, <1>7, <1>8 DEF TransportNext

\* No handle is given a second meaning (HandlesNeverReused).
THEOREM HandlesAreNew == TransportSpec => HandlesNeverReused
BY NewHandles, TransportInvariant, PTL DEF TransportSpec, HandlesNeverReused
=============================================================================
