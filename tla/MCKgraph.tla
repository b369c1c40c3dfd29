------------------------------ MODULE MCKgraph ------------------------------
(* Values for the constants of Kgraph: five datoms about two entities, two  *)
(* of which share a vector and one of which holds a map; a keyword, which   *)
(* is no datom; queries that join, match a vector and ask for what is not   *)
(* bound.                                                                   *)
EXTENDS Kgraph

CONSTANTS t1, t2, at, list, map, word, p, q, r

FactsMC == {<<t1, at, t2>>, <<t2, at, t1>>, <<t1, at, list>>, <<t2, at, list>>, <<t2, at, map>>}

QueriesMC ==
  {[find |-> <<p, r>>, where |-> <<<<p, at, q>>, <<q, at, r>>>>],
   [find |-> <<p, r>>, where |-> <<<<p, at, q>>, <<r, at, q>>>>],
   [find |-> <<p>>, where |-> <<<<p, at, q>>>>],
   [find |-> <<q>>, where |-> <<<<t2, at, q>>>>],
   [find |-> <<p>>, where |-> <<<<p, at, list>>>>],
   [find |-> <<r>>, where |-> <<<<p, at, q>>>>],
   [find |-> <<p>>, where |-> <<>>]}
=============================================================================
