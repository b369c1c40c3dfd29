------------------------------- MODULE Kgraph -------------------------------
(***************************************************************************)
(* The datom store of the kgraph host imports (src/kgraph.js).             *)
(*                                                                         *)
(* A guest asserts and retracts what it likes, datoms or not, and asks for *)
(* the datoms of an entity or for a join of clauses; the answer is copied  *)
(* into its buffer if it fits.  A call that throws traps the guest; the    *)
(* page may run another guest on the same store.                           *)
(*                                                                         *)
(* What is read stands for what it prints.  Keywords, strings and numbers  *)
(* are equal if they print the same; a vector or a map within a datom is   *)
(* an object of its own each time it is read, and a map cannot be printed. *)
(***************************************************************************)
EXTENDS Integers, FiniteSets, SequencesExt, Functions

CONSTANTS
  Terms,        \* what stands in a datom,
  Nested,       \* those that are vectors or maps,
  Unprintable,  \* and what holds a map
  Facts,        \* the datoms <<entity, attribute, value>> guests may assert
  Odd,          \* what is no datom but may be asserted as well
  LogicVars, Queries,   \* the queries [find, where] guests may ask
  Caps,         \* the room in the guest's buffer, in rows
  MaxFacts,     \* bound on the store
  MaxArguments, \* the arguments the engine passes to one call
  Null

\* A term as it is joined: a vector or a map is the object of one reading.
Values == Terms \cup (Nested \X Nat \X (0..3))

ASSUME KgraphAssumption ==
  /\ Terms # {} /\ Nested \subseteq Terms /\ Unprintable \subseteq Nested \cup Odd
  /\ \A t \in Terms : t \notin Nested \X Nat \X (0..3)
  /\ Facts \subseteq Terms \X Terms \X Terms
  /\ LogicVars \cap Terms = {} /\ Queries \cap Terms = {}
  /\ Null \notin Terms \cup LogicVars \cup Queries
  /\ \A bound \in SUBSET LogicVars : Null \notin [bound -> Values]
  /\ \A q \in Queries :
       q.find \in Seq(LogicVars) /\ q.where \in Seq((Terms \cup LogicVars) \X (Terms \cup LogicVars) \X (Terms \cup LogicVars))
  /\ Caps \subseteq Nat /\ {MaxFacts, MaxArguments} \subseteq Nat

VARIABLES
  store,     \* what was asserted, each with the reading it comes from
  running,   \* the guest has not trapped
  asked,     \* the latest question and its buffer, or Null
  answer,    \* what the import returned to it
  buffer,    \* the rows in the guest's buffer
  since,     \* history: the asserts of each thing since its last retract
  lost       \* history: a retract has dropped the store

kgraphVars == <<store, running, asked, answer, buffer, since, lost>>

Things == Facts \cup Odd

KgraphInit ==
  /\ store = <<>> /\ running = TRUE
  /\ asked = Null /\ answer = Null /\ buffer = <<>>
  /\ since = [x \in Things |-> 0] /\ lost = FALSE

-----------------------------------------------------------------------------
(* Values.                                                                 *)

Term(item, k) == IF item.what[k] \in Nested THEN <<item.what[k], item.reading, k>> ELSE item.what[k]
Pattern(x) == IF x \in Nested THEN <<x, 0, 0>> ELSE x

EdnEqual(a, b) == a = b

Printed(x) == IF x \in Terms THEN x ELSE x[1]
Prints(x) == x \notin Unprintable /\ (x \in Facts => \A k \in 1..3 : x[k] \notin Unprintable)

\* Destructuring throws for what is no datom.
Iterable == \A k \in DOMAIN store : store[k].what \in Facts

-----------------------------------------------------------------------------
(* assertDatom and retractDatom.                                           *)

\* The guest is done with the answer it had.
Forget == asked' = Null /\ answer' = Null /\ buffer' = <<>>

\* A call that throws, or whose text cannot be read.
Traps ==
  /\ running' = FALSE
  /\ Forget
  /\ UNCHANGED <<store, since, lost>>

Reading == CHOOSE n \in 1..MaxFacts : \A k \in DOMAIN store : store[k].reading # n

AssertDatom(x) ==
  /\ running /\ Len(store) < MaxFacts
  /\ store' = Append(store, [what |-> x, reading |-> Reading])
  /\ since' = [since EXCEPT ![x] = @ + 1]
  /\ Forget
  /\ UNCHANGED <<running, lost>>

\* What a filter leaves of the store.
Those(keep) == FlattenSeq([k \in DOMAIN store |-> IF k \in keep THEN <<store[k]>> ELSE <<>>])

\* Mutants: only the same object goes; the store is not emptied first.
KeptByEquality(x) ==
  Those({k \in DOMAIN store : store[k].what # x \/ (x \in Facts /\ \E n \in 1..3 : x[n] \in Nested)})
Appended(kept) == store \o kept

Kept(x) == Those({k \in DOMAIN store : store[k].what # x})
Replaced(kept) == kept

AllPrint == \A k \in DOMAIN store : Prints(store[k].what)

RetractDatom(x) ==
  /\ running /\ Prints(x) /\ AllPrint
  /\ Len(Kept(x)) <= MaxArguments
  /\ store' = Replaced(Kept(x))
  /\ since' = [since EXCEPT ![x] = 0]
  /\ Forget
  /\ UNCHANGED <<running, lost>>

\* push(...remaining) throws when the store has been emptied.
RetractLoses(x) ==
  /\ running /\ Prints(x) /\ AllPrint
  /\ Len(Kept(x)) > MaxArguments
  /\ store' = <<>> /\ running' = FALSE /\ lost' = TRUE
  /\ since' = [y \in Things |-> 0]
  /\ Forget

RetractThrows(x) ==
  /\ running /\ ~(Prints(x) /\ AllPrint)
  /\ Traps

Unreadable == running /\ Traps

-----------------------------------------------------------------------------
(* getObjects and query.                                                   *)

\* Mutant: a variable that is bound already may be anything.
AgreesAnew(binding, x, term) == x \in LogicVars \/ EdnEqual(Pattern(x), term)
Agrees(binding, x, term) ==
  IF x \in DOMAIN binding THEN EdnEqual(binding[x], term) ELSE x \in LogicVars \/ EdnEqual(Pattern(x), term)

Unify(binding, x, term) ==
  IF binding = Null THEN Null
  ELSE IF Agrees(binding, x, term) THEN [v \in DOMAIN binding \cup ({x} \cap LogicVars) |-> IF v \in DOMAIN binding THEN binding[v] ELSE term]
  ELSE Null

Unified(binding, clause, item) ==
  Unify(Unify(Unify(binding, clause[1], Term(item, 1)), clause[2], Term(item, 2)), clause[3], Term(item, 3))

MatchClause(binding, clause) ==
  LET unified == [k \in DOMAIN store |-> Unified(binding, clause, store[k])]
  IN  FlattenSeq([k \in DOMAIN store |-> IF unified[k] = Null THEN <<>> ELSE <<unified[k]>>])

JoinClause(bindings, clause) == FlattenSeq([k \in DOMAIN bindings |-> MatchClause(bindings[k], clause)])

Join(where) ==
  LET joined[n \in 0..Len(where)] ==
        IF n = 0 THEN <<[v \in {} |-> Null]>> ELSE JoinClause(joined[n - 1], where[n])
  IN  joined[Len(where)]

\* Mutant: a row as often as it is found.
AsFound(rows) == rows
Distinct(rows) ==
  LET out[n \in 0..Len(rows)] ==
        IF n = 0 THEN <<>>
        ELSE IF Contains(out[n - 1], rows[n]) THEN out[n - 1] ELSE Append(out[n - 1], rows[n])
  IN  out[Len(rows)]

\* A variable that no clause binds, or is bound to a map, cannot be printed.
RowPrints(binding, find) ==
  \A k \in DOMAIN find : find[k] \in DOMAIN binding /\ Prints(Printed(binding[find[k]]))

RowsPrint(found, find) == \A binding \in ToSet(found) : RowPrints(binding, find)
Rows(found, find) == Distinct([n \in DOMAIN found |-> [k \in DOMAIN find |-> Printed(found[n][find[k]])]])

ObjectsOf(e) == Those({k \in DOMAIN store : EdnEqual(Term(store[k], 1), Pattern(e))})

\* Mutant: what fits is written.
WritesSome(rows, cap) ==
  answer' = Len(rows) /\ buffer' = SubSeq(rows, 1, IF Len(rows) > cap THEN cap ELSE Len(rows))
WriteBytes(rows, cap) ==
  IF Len(rows) > cap THEN answer' = -1 /\ UNCHANGED buffer ELSE answer' = Len(rows) /\ buffer' = rows

GetObjects(e) ==
  /\ running /\ Iterable
  /\ LET objects == ObjectsOf(e)
         rows == [k \in DOMAIN objects |-> objects[k].what]
     IN  /\ \A x \in ToSet(rows) : Prints(x)
         /\ \E cap \in Caps : asked' = [question |-> e, cap |-> cap] /\ WriteBytes(rows, cap)
  /\ UNCHANGED <<store, running, since, lost>>

Query(q) ==
  /\ running
  /\ q.where # <<>> => Iterable
  /\ LET found == Join(q.where)
     IN  /\ RowsPrint(found, q.find)
         /\ \E cap \in Caps : asked' = [question |-> q, cap |-> cap] /\ WriteBytes(Rows(found, q.find), cap)
  /\ UNCHANGED <<store, running, since, lost>>

GetObjectsThrows(e) ==
  /\ running
  /\ Iterable => \E item \in ToSet(ObjectsOf(e)) : ~Prints(item.what)
  /\ Traps

QueryThrows(q) ==
  /\ running
  /\ IF q.where # <<>> /\ ~Iterable THEN TRUE ELSE ~RowsPrint(Join(q.where), q.find)
  /\ Traps

\* The page runs a guest on the store it has.
Runs ==
  /\ ~running
  /\ running' = TRUE
  /\ UNCHANGED <<store, asked, answer, buffer, since, lost>>

KgraphNext ==
  \/ \E x \in Things : AssertDatom(x) \/ RetractDatom(x) \/ RetractLoses(x) \/ RetractThrows(x)
  \/ \E e \in Terms : GetObjects(e) \/ GetObjectsThrows(e)
  \/ \E q \in Queries : Query(q) \/ QueryThrows(q)
  \/ Unreadable \/ Runs

KgraphSpec == KgraphInit /\ [][KgraphNext]_kgraphVars

-----------------------------------------------------------------------------
(* What guests may rely on.                                                *)

KgraphTypeOK ==
  /\ store \in Seq([what : Things, reading : 1..MaxFacts]) /\ Len(store) <= MaxFacts
  /\ running \in BOOLEAN /\ lost \in BOOLEAN
  /\ asked = Null \/ (asked.question \in Terms \cup Queries /\ asked.cap \in Caps)
  /\ answer = Null \/ answer \in Nat \cup {-1}
  /\ since \in [Things -> Nat]

\* A thing is in the store as often as it was asserted after it was last
\* retracted, whatever else was asserted and whichever calls threw half-way,
\* unless a retract had more to keep than one push takes (174-182, 232-237).
FactsStand == ~lost => \A x \in Things : Cardinality({k \in DOMAIN store : store[k].what = x}) = since[x]

\* The answer by definition: a row for every binding under which all clauses
\* are printed facts.
Holds(x, binding) == IF x \in LogicVars THEN binding[x] ELSE x
Stored == {store[k].what : k \in DOMAIN store}
RightRows(q) ==
  LET models == {b \in [LogicVars -> Terms] :
                   \A k \in DOMAIN q.where : <<Holds(q.where[k][1], b), Holds(q.where[k][2], b), Holds(q.where[k][3], b)>> \in Stored}
  IN  {[k \in DOMAIN q.find |-> b[q.find[k]]] : b \in models}
Right == IF asked.question \in Queries THEN RightRows(asked.question) ELSE {x \in Stored : x[1] = asked.question}

\* What the guest reads in its buffer is true and, for a query, each row once.
\* As long as nothing nested is stored it is all of the truth, and a guest that
\* is told it does not fit is told so of the true answer (lines 164-204, 221-225).
AnswersRight ==
  asked # Null /\ running =>
    /\ answer >= 0 => ToSet(buffer) \subseteq Right /\ answer = Len(buffer)
    /\ answer >= 0 /\ asked.question \in Queries => IsInjective(buffer)
    /\ (\A x \in Stored \cap Facts : \A k \in 1..3 : x[k] \notin Nested) =>
         /\ answer >= 0 => Right \subseteq ToSet(buffer)
         /\ answer = -1 /\ asked.question \in Queries => Cardinality(Right) > asked.cap
=============================================================================
