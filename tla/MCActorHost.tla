---------------------------- MODULE MCActorHost ----------------------------
(* Values for the constants of ActorHost: two guests under one authority,  *)
(* with imports that call a backend and others that move bytes.            *)
EXTENDS ActorHost

CONSTANTS g1, g2

Guests == {g1, g2}

\* Both guests post under one budget and prove under one quota; g1 has two
\* imports metered by httpPosts and writes the log that g2 reads.
MixedRequested == [i \in Guests |->
  CASE i = g1 -> {"http_post", "http_post_headers", "log_write", "scram_sha256"}
    [] i = g2 -> {"http_post", "log_read", "random_bytes", "scram_sha256", "sha256_hex"}]
MixedGrants == UNION {MixedRequested[i] : i \in Guests}
MixedBudgets == [http_post |-> 2, log_read |-> 1, random_bytes |-> 2]

SmallLimits == [Zero(Counters) EXCEPT
  !.httpPosts = 2, !.httpGets = 1, !.httpFetches = 1, !.llmInfers = 1, !.kagiSigns = 1,
  !.randomBytes = 2, !.logReadBytes = 3, !.logWriteBytes = 2]
=============================================================================
