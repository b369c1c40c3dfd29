------------------------------- MODULE PgPool -------------------------------
(***************************************************************************)
(* The PostgreSQL pool provider (src/node-postgresql-pool-provider.js):    *)
(* pools of connections to a database, handed out to guests as leases.     *)
(* Every operation is one synchronous call, so one action.  Inside it the  *)
(* provider calls two other components: it opens and closes channels in    *)
(* the SCRAM component, and resets and probes sessions in the query        *)
(* component.  Each such call succeeds, is refused (ClosesRefused says     *)
(* which closes are), or - when Traps allows it - throws, which abandons   *)
(* the operation where it stands.                                          *)
(*                                                                         *)
(* JavaScript Maps are functions whose domain is the set of live ids.      *)
(* They are iterated in the order of insertion, here the order of the ids. *)
(* Query text, credentials, endpoints and the counters that are only       *)
(* reported (acquires, timeouts) are left out.                             *)
(***************************************************************************)
EXTENDS Integers, FiniteSets

CONSTANTS
  maxPools, maxLeases, maxConnectionsPerPool,
  idleTimeout,   \* idleTimeoutMs, 0 for none
  maxLifetime,   \* maxLifetimeMs
  Traps,         \* the calls that may throw: some of TrapPoints
  ClosesRefused, \* the channels whose close the SCRAM component refuses
  MaxTime,       \* bound on the clock
  MaxPool, MaxChannel, MaxLease   \* bounds on the ids handed out

TrapPoints == {"open", "grow", "reset", "probe", "close"}

ASSUME LimitsAssumption ==
  /\ maxPools \in Nat \ {0}
  /\ maxLeases \in Nat \ {0}
  /\ maxConnectionsPerPool \in 1..maxLeases
  /\ idleTimeout \in Nat
  /\ maxLifetime \in Nat \ {0}
  /\ Traps \subseteq TrapPoints
  /\ ClosesRefused \subseteq Nat

ASSUME BoundsAssumption == {MaxTime, MaxPool, MaxChannel, MaxLease} \subseteq Nat

VARIABLES
  now,             \* the clock
  pools,           \* Map of live pools: status and two of the metrics
  connections,     \* the connections in the Maps of all live pools
  leases,          \* Map of live leases
  channels,        \* channels open in the SCRAM component
  nextPool, nextConnection, nextLease, nextChannel,
  broken           \* history: a call has thrown that leaves something behind

ids == <<nextPool, nextConnection, nextLease, nextChannel>>
vars == <<now, pools, connections, leases, channels, ids, broken>>

Init ==
  /\ now = 0
  /\ pools = [p \in {} |-> {}]
  /\ connections = [c \in {} |-> {}]
  /\ leases = [l \in {} |-> {}]
  /\ channels = {}
  /\ nextPool = 1 /\ nextConnection = 1 /\ nextLease = 1 /\ nextChannel = 1
  /\ broken = FALSE

-----------------------------------------------------------------------------
(* Maps.                                                                   *)

Without(map, S) == [x \in DOMAIN map \ S |-> map[x]]
With(map, x, value) == [y \in DOMAIN map \cup {x} |-> IF y = x THEN value ELSE map[y]]
Before(x, S) == {y \in S : y < x}

ConnectionsOf(p) == {c \in DOMAIN connections : connections[c].pool = p}
HasStatus(status) == {c \in DOMAIN connections : connections[c].status = status}
IdleOf(p) == ConnectionsOf(p) \cap HasStatus("idle")
LeasedOf(p) == ConnectionsOf(p) \cap HasStatus("leased")
LeasesOf(p) == {l \in DOMAIN leases : leases[l].poolId = p}
Unclosed(S) == {c \in S : ~connections[c].closed}
ChannelsOf(S) == {connections[c].channel : c \in S}

\* The channels that closing the connections S closes.  A refused close leaves
\* its channel open; closeConnection does not look at the result, and never
\* asks twice for one connection.
Shut(S) == ChannelsOf(Unclosed(S)) \ ClosesRefused

-----------------------------------------------------------------------------
(* Closing, reaping and opening connections.                               *)

TooOld(c) == now - connections[c].createdAt >= maxLifetime
TooIdle(c) == idleTimeout > 0 /\ now - connections[c].lastUsedAt >= idleTimeout

Expired(p) == {c \in IdleOf(p) : TooOld(c) \/ TooIdle(c)}

\* Mutants: the channel is not closed, the eviction is not counted.
EvictingUnclosed(p, S) ==
  /\ pools' = [pools EXCEPT ![p].evictions = @ + Cardinality(S)]
  /\ channels' = channels
EvictingUncounted(p, S) ==
  /\ pools' = pools
  /\ channels' = channels \ Shut(S)

\* The Maps after the connections S of pool p were closed and deleted.
Evicting(p, S) ==
  /\ pools' = [pools EXCEPT ![p].evictions = @ + Cardinality(S)]
  /\ channels' = channels \ Shut(S)

\* The loop of reap up to the connection whose close throws, and nothing of
\* the operation that called it.
ReapTraps(p) ==
  /\ "close" \in Traps
  /\ \E c \in Expired(p) :
       /\ Evicting(p, Before(c, Expired(p)))
       /\ connections' = Without(connections, Before(c, Expired(p)))
  /\ UNCHANGED <<now, leases, ids>>

Connection(p, status) ==
  [pool |-> p, channel |-> nextChannel, status |-> status,
   createdAt |-> now, lastUsedAt |-> now, closed |-> FALSE]

ChannelOpens == nextChannel' = nextChannel + 1

-----------------------------------------------------------------------------
(* pg-pool-open                                                            *)

OpenPool ==
  /\ Cardinality(DOMAIN pools) < maxPools
  /\ nextPool <= MaxPool
  /\ nextPool' = nextPool + 1
  /\ UNCHANGED <<now, leases, nextLease>>

NewPool(created) == With(pools, nextPool, [status |-> "open", evictions |-> 0, created |-> created])

PoolOpens ==
  /\ OpenPool
  /\ nextChannel <= MaxChannel
  /\ ChannelOpens
  /\ channels' = channels \cup {nextChannel}
  /\ pools' = NewPool(1)
  /\ connections' = With(connections, nextConnection, Connection(nextPool, "idle"))
  /\ nextConnection' = nextConnection + 1

PoolRefused ==   \* the SCRAM component returns a negative channel
  /\ OpenPool
  /\ UNCHANGED <<pools, connections, channels, nextConnection, nextChannel>>

\* An exception leaves the pool in the Map, without connections.
PoolTraps ==   \* opening the channel throws
  /\ OpenPool
  /\ "open" \in Traps
  /\ pools' = NewPool(0)
  /\ UNCHANGED <<connections, channels, nextConnection, nextChannel>>

PoolLeaks ==   \* memory.grow throws after the channel was opened
  /\ OpenPool
  /\ "grow" \in Traps
  /\ nextChannel <= MaxChannel
  /\ ChannelOpens
  /\ channels' = channels \cup {nextChannel}
  /\ pools' = NewPool(0)
  /\ UNCHANGED <<connections, nextConnection>>

-----------------------------------------------------------------------------
(* pg-pool-acquire                                                         *)

\* The operation starts by reaping the pool.
Acquire(p) ==
  /\ p \in DOMAIN pools
  /\ pools[p].status = "open"
  /\ UNCHANGED <<now, nextPool>>

\* Mutants: the next id is not advanced, the id is the number of leases.
LeaseBySize(p, c) ==
  /\ Cardinality(DOMAIN leases) < maxLeases
  /\ nextLease <= MaxLease
  /\ leases' = With(leases, Cardinality(DOMAIN leases) + 1, [poolId |-> p, connectionId |-> c])
  /\ nextLease' = nextLease + 1
LeaseToSameId(p, c) ==
  /\ Cardinality(DOMAIN leases) < maxLeases
  /\ nextLease <= MaxLease
  /\ leases' = With(leases, nextLease, [poolId |-> p, connectionId |-> c])
  /\ nextLease' = nextLease

LeaseTo(p, c) ==
  /\ Cardinality(DOMAIN leases) < maxLeases
  /\ nextLease <= MaxLease
  /\ leases' = With(leases, nextLease, [poolId |-> p, connectionId |-> c])
  /\ nextLease' = nextLease + 1

\* Mutant: acquire does not reap.
ReapsNone(p) == {}
Reaped(p) == Expired(p)

StaysIdle(p) == IdleOf(p) \ Reaped(p)

AcquireReuses(p) ==   \* the first idle connection of the Map
  /\ Acquire(p)
  /\ \E c \in StaysIdle(p) :
       /\ \A d \in StaysIdle(p) : c <= d
       /\ LeaseTo(p, c)
       /\ connections' = [Without(connections, Reaped(p)) EXCEPT ![c].status = "leased"]
  /\ Evicting(p, Reaped(p))
  /\ UNCHANGED <<nextConnection, nextChannel>>

\* Mutant: off by one.
RoomInTight(n) == n <= maxConnectionsPerPool

RoomIn(n) == n < maxConnectionsPerPool

MayOpen(p) ==
  /\ StaysIdle(p) = {}
  /\ RoomIn(Cardinality(ConnectionsOf(p) \ Reaped(p)))
  /\ Cardinality(DOMAIN leases) < maxLeases

AcquireOpens(p) ==
  /\ Acquire(p)
  /\ MayOpen(p)
  /\ nextChannel <= MaxChannel
  /\ ChannelOpens
  /\ channels' = (channels \ Shut(Reaped(p))) \cup {nextChannel}
  /\ pools' = [pools EXCEPT ![p].evictions = @ + Cardinality(Reaped(p)), ![p].created = @ + 1]
  /\ connections' = With(Without(connections, Reaped(p)), nextConnection, Connection(p, "leased"))
  /\ nextConnection' = nextConnection + 1
  /\ LeaseTo(p, nextConnection)

\* At a limit, or the channel is refused, or opening it throws.
AcquireFails(p) ==
  /\ Acquire(p)
  /\ StaysIdle(p) = {} \/ Cardinality(DOMAIN leases) >= maxLeases
  /\ connections' = Without(connections, Reaped(p))
  /\ Evicting(p, Reaped(p))
  /\ UNCHANGED <<leases, nextConnection, nextLease, nextChannel>>

AcquireLeaks(p) ==   \* memory.grow throws after the channel was opened
  /\ Acquire(p)
  /\ "grow" \in Traps
  /\ MayOpen(p)
  /\ nextChannel <= MaxChannel
  /\ ChannelOpens
  /\ channels' = (channels \ Shut(Reaped(p))) \cup {nextChannel}
  /\ pools' = [pools EXCEPT ![p].evictions = @ + Cardinality(Reaped(p))]
  /\ connections' = Without(connections, Reaped(p))
  /\ UNCHANGED <<leases, nextConnection, nextLease>>

AcquireTraps(p) == p \in DOMAIN pools /\ pools[p].status = "open" /\ ReapTraps(p)

-----------------------------------------------------------------------------
(* pg-pool-release                                                         *)

\* connectionForLease finds the lease's connection leased; the lease is
\* deleted before the session is reset.
Release(l) ==
  /\ l \in DOMAIN leases
  /\ leases[l].poolId \in DOMAIN pools
  /\ leases[l].connectionId \in LeasedOf(leases[l].poolId)
  /\ leases' = Without(leases, {l})
  /\ UNCHANGED <<now, ids>>

ReleaseResets(l) ==
  /\ Release(l)
  /\ connections' = [connections EXCEPT ![leases[l].connectionId].status = "idle",
                                        ![leases[l].connectionId].lastUsedAt = now]
  /\ UNCHANGED <<pools, channels>>

ReleaseEvicts(l) ==   \* the reset fails
  /\ Release(l)
  /\ Evicting(leases[l].poolId, {leases[l].connectionId})
  /\ connections' = Without(connections, {leases[l].connectionId})

ReleaseTraps(l) ==   \* the reset throws, or fails and then the close throws
  /\ {"reset", "close"} \cap Traps # {}
  /\ Release(l)
  /\ UNCHANGED <<pools, connections, channels>>

-----------------------------------------------------------------------------
(* pg-pool-health                                                          *)

\* Connections `bad` of the probed ones fail and go; the others are used now.
Probed(p, probed, bad) ==
  /\ Evicting(p, Expired(p) \cup bad)
  /\ connections' =
       [c \in DOMAIN connections \ (Expired(p) \cup bad) |->
          IF c \in probed THEN [connections[c] EXCEPT !.lastUsedAt = now] ELSE connections[c]]
  /\ UNCHANGED <<now, leases, ids>>

Health(p) ==
  /\ p \in DOMAIN pools
  /\ \E bad \in SUBSET (IdleOf(p) \ Expired(p)) : Probed(p, IdleOf(p) \ Expired(p), bad)

\* The probe of c throws, or fails and then the close throws.
HealthStopsAt(p, c) ==
  LET probed == Before(c, IdleOf(p) \ Expired(p)) IN
  \E bad \in SUBSET probed : Probed(p, probed, bad)

HealthTraps(p) ==
  /\ "probe" \in Traps
  /\ \E c \in IdleOf(p) \ Expired(p) : HealthStopsAt(p, c)

HealthBreaks(p) ==
  \/ ReapTraps(p)
  \/ "close" \in Traps /\ \E c \in IdleOf(p) \ Expired(p) : HealthStopsAt(p, c)

-----------------------------------------------------------------------------
(* pg-pool-drain, pg-pool-close and closeAll                               *)

\* Mutant: drain counts every connection.
ForcedAny(p) == Cardinality(ConnectionsOf(p))

\* What drain returns.
Forced(p) == Cardinality(LeasedOf(p))

Removing(P, L) ==
  /\ pools' = Without(pools, P)
  /\ leases' = Without(leases, L)
  /\ connections' = Without(connections, UNION {ConnectionsOf(p) : p \in P})
  /\ channels' = channels \ Shut(UNION {ConnectionsOf(p) : p \in P})
  /\ UNCHANGED <<now, ids>>

\* Mutant: closeConnection does not mark the connection.
Unmarked(C) == connections
Marked(C) ==
  [d \in DOMAIN connections |->
     IF d \in C THEN [connections[d] EXCEPT !.closed = TRUE] ELSE connections[d]]

\* A close throws after the closes of the connections C.
CloseThrowsAfter(C) ==
  /\ "close" \in Traps
  /\ channels' = channels \ Shut(C)
  /\ connections' = Marked(C)
  /\ UNCHANGED <<now, leases, ids>>

\* Mutant: drain forgets the leases of the pool it deletes.
KeepsLeases(p) == {}
DrainedLeases(p) == LeasesOf(p)

Drain(p) == p \in DOMAIN pools /\ Removing({p}, DrainedLeases(p))

DrainTraps(p) ==
  /\ p \in DOMAIN pools
  /\ pools' = [pools EXCEPT ![p].status = "draining"]
  /\ \E c \in Unclosed(ConnectionsOf(p)) : CloseThrowsAfter(Before(c, ConnectionsOf(p)))

Close(p) == p \in DOMAIN pools /\ LeasesOf(p) = {} /\ Removing({p}, {})

CloseTraps(p) ==
  /\ p \in DOMAIN pools /\ LeasesOf(p) = {}
  /\ \E c \in Unclosed(ConnectionsOf(p)) : CloseThrowsAfter(Before(c, ConnectionsOf(p)))
  /\ UNCHANGED pools

CloseAll == Removing(DOMAIN pools, DOMAIN leases)

\* The connections closeAll gets to before c: of earlier pools, then of its own.
ClosedBefore(c) ==
  {d \in DOMAIN connections : connections[d].pool < connections[c].pool}
    \cup Before(c, ConnectionsOf(connections[c].pool))

CloseAllTraps ==
  /\ \E c \in Unclosed(DOMAIN connections) : CloseThrowsAfter(ClosedBefore(c))
  /\ UNCHANGED pools

-----------------------------------------------------------------------------
Tick == now < MaxTime /\ now' = now + 1 /\ UNCHANGED <<pools, connections, leases, channels, ids>>

Operation ==
  \/ Tick
  \/ PoolOpens \/ PoolRefused \/ PoolTraps
  \/ \E p \in DOMAIN pools :
       \/ AcquireReuses(p) \/ AcquireOpens(p) \/ AcquireFails(p)
       \/ Health(p) \/ HealthTraps(p)
       \/ Drain(p) \/ Close(p)
  \/ \E l \in DOMAIN leases : ReleaseResets(l) \/ ReleaseEvicts(l)
  \/ CloseAll

\* The exceptions that end an operation between two of its changes.
Breakage ==
  \/ PoolLeaks
  \/ \E p \in DOMAIN pools :
       AcquireLeaks(p) \/ AcquireTraps(p) \/ HealthBreaks(p) \/ DrainTraps(p) \/ CloseTraps(p)
  \/ \E l \in DOMAIN leases : ReleaseTraps(l)
  \/ CloseAllTraps

Next ==
  \/ Operation /\ UNCHANGED broken
  \/ Breakage /\ broken' = TRUE

Spec == Init /\ [][Next]_vars

-----------------------------------------------------------------------------
(* Properties.                                                             *)

Pool == [status : {"open", "draining"}, evictions : Nat, created : Nat]
Lease == [poolId : 1..MaxPool, connectionId : Nat]

\* The types of every variable.  Ids are handed out once: every id in use is
\* below the next one.
TypeOK ==
  /\ now \in 0..MaxTime
  /\ DOMAIN pools \subseteq 1..(nextPool - 1)
  /\ pools \in [DOMAIN pools -> Pool]
  /\ DOMAIN connections \subseteq 1..(nextConnection - 1)
  /\ connections \in [DOMAIN connections ->
       [pool : DOMAIN pools, channel : 1..(nextChannel - 1), status : {"idle", "leased"},
        createdAt : 0..now, lastUsedAt : 0..now, closed : BOOLEAN]]
  /\ DOMAIN leases \subseteq 1..(nextLease - 1)
  /\ leases \in [DOMAIN leases -> Lease]
  /\ channels \subseteq 1..(nextChannel - 1)
  /\ nextPool \in 1..(MaxPool + 1) /\ nextConnection \in Nat \ {0}
  /\ nextLease \in 1..(MaxLease + 1) /\ nextChannel \in 1..(MaxChannel + 1)
  /\ broken \in BOOLEAN

\* Whatever throws: a live lease stands for a connection that is still in the
\* pool it was acquired from and is not idle, and for no other lease's
\* connection (leases, pools and pool.connections are three Maps that each
\* operation updates one after the other).
LeaseSound ==
  /\ \A l \in DOMAIN leases :
       /\ leases[l].poolId \in DOMAIN pools
       /\ leases[l].connectionId \in LeasedOf(leases[l].poolId)
  /\ \A l, m \in DOMAIN leases :
       leases[l].connectionId = leases[m].connectionId => l = m

\* Until an exception ends an operation half-way, the number drain returns is
\* the number of leases it takes away.
ForcedCountsLeases == ~broken => \A p \in DOMAIN pools : Forced(p) = Cardinality(LeasesOf(p))

\* Until then, the channels open in the SCRAM component are those of the connections in
\* the Maps: none is used after its close, and none is lost open unless the
\* SCRAM component refused to close it.
ChannelsOwned ==
  ~broken => /\ ChannelsOf(DOMAIN connections) \subseteq channels
             /\ channels \ ChannelsOf(DOMAIN connections) \subseteq ClosesRefused

\* Whatever throws: two connections never share a channel, and a connection
\* not marked closed has its channel open.
ChannelsApart ==
  /\ ChannelsOf(Unclosed(DOMAIN connections)) \subseteq channels
  /\ \A c, d \in DOMAIN connections :
       connections[c].channel = connections[d].channel => c = d

\* What the pool and the SCRAM component below it hold of each other: every
\* connection its own open channel, and no channel that is nobody's but those
\* that could not be closed.
ChannelsSound == ChannelsOwned /\ ChannelsApart

\* The limits the pool was created with, which every path that opens, leases
\* or reopens has to respect; so the database serves no more sessions than
\* maxPools * maxConnectionsPerPool besides those it refused to close, unless an
\* exception has lost one.
LimitsHold ==
  /\ Cardinality(DOMAIN pools) <= maxPools
  /\ Cardinality(DOMAIN leases) <= maxLeases
  /\ \A p \in DOMAIN pools : Cardinality(ConnectionsOf(p)) <= maxConnectionsPerPool
  /\ broken \/ Cardinality(channels \ ClosesRefused) <= maxPools * maxConnectionsPerPool

\* Whatever throws: each connection a pool created is still in its Map or was
\* counted as evicted, once.
EvictionsBalance ==
  \A p \in DOMAIN pools :
    pools[p].created = Cardinality(ConnectionsOf(p)) + pools[p].evictions

\* Every number the pool reports or decides by is what it counts, whichever of
\* the operations that share it went before.
CountsHold == ForcedCountsLeases /\ LimitsHold /\ EvictionsBalance

\* Lease tokens are "monotonic non-revivable" (README.md): once a lease has
\* ended, by release, drain or closeAll, its token never names a lease again.
NeverRevived == (DOMAIN leases' \ DOMAIN leases) \cap 1..(nextLease - 1) = {}

\* No lease is handed out on a connection that has outlived its lifetime or
\* its idle timeout, however long ago the pool was last reaped.
FreshLease ==
  \A l \in DOMAIN leases' \ DOMAIN leases :
    leases'[l].connectionId \notin {c \in HasStatus("idle") : TooOld(c) \/ TooIdle(c)}

\* A step that hands out a lease gives a token that was never used before, for
\* a connection that is still fit for use (lines 44-54 and 100-112).
LeasesFresh == [][NeverRevived /\ FreshLease]_vars
=============================================================================
