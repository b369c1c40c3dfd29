----------------------------- MODULE MCLinker -----------------------------
(* Values for the constants of Linker: two consumers of one provider, one  *)
(* of which has a second provider.                                         *)
EXTENDS Linker

CONSTANTS c1, c2, http, pg

TwoSpecs == [c \in {c1, c2} |-> [p \in {http, pg} |->
  CASE c = c1 /\ p = http -> {"http_get"}
    [] c = c1 /\ p = pg -> {"pg_session_reset"}
    [] c = c2 /\ p = http -> {"http_get"}
    [] OTHER -> {}]]

\* c2 is linked with pg and imports nothing of it.
BothProviders == [c \in {c1, c2} |-> {http, pg}]

OneByteEach == [size \in {"state", "stats", "key"} |-> 1]
=============================================================================
