---------------------------- MODULE SumTheorems ----------------------------
(***************************************************************************)
(* Finite sums, as the models write them with the folds of the community   *)
(* modules: the sum of no numbers, the sum with one number taken out, the  *)
(* sum after one number has changed, and the comparison of two sums.       *)
(*                                                                         *)
(* A fold is a recursive function on the subsets of its index set.  That   *)
(* such a function exists, and what its values are, is shown by taking a   *)
(* smallest counterexample: a nonempty set of finite sets has an element   *)
(* that is minimal for inclusion.                                          *)
(***************************************************************************)
EXTENDS Integers, Functions, FiniteSetTheorems, TLAPS

\* The sum of f[x] for all x in the finite set S.
SumOver(f, S) == FoldFunctionOnSet(+, 0, f, S)

\* The element a fold takes out first, and the function the fold defines.
Picked(s) == CHOOSE x \in s : TRUE
SumsSubsets(f, S, g) == g = [s \in SUBSET S |-> IF s = {} THEN 0 ELSE f[Picked(s)] + g[s \ {Picked(s)}]]

\* A nonempty set of subsets of a finite set has a minimal element.
LEMMA SmallestSet ==
  ASSUME NEW S, IsFiniteSet(S), NEW T \in SUBSET (SUBSET S), T # {}
  PROVE \E t \in T : \A s \in T : s \subseteq t => s = t
<1>1. IsWellFoundedOn(StrictSubsetOrdering(S), SUBSET S)
  BY FS_StrictSubsetOrderingWellFounded, FS_FiniteSubsetsOfFinite
<1>2. PICK t \in T : \A s \in T : <<s, t>> \notin StrictSubsetOrdering(S)
  BY <1>1, WFMin
<1>3. ASSUME NEW s \in T, s \subseteq t, s # t PROVE FALSE
  BY <1>2, <1>3 DEF StrictSubsetOrdering
<1> QED
  BY <1>3

LEMMA PickedIsIn == ASSUME NEW s, s # {} PROVE Picked(s) \in s
BY DEF Picked

LEMMA SumsSubsetsUnique ==
  ASSUME NEW f, NEW S, IsFiniteSet(S), NEW g, NEW h, SumsSubsets(f, S, g), SumsSubsets(f, S, h)
  PROVE \A s \in SUBSET S : g[s] = h[s]
<1> DEFINE T == {s \in SUBSET S : g[s] # h[s]}
<1> SUFFICES ASSUME T # {} PROVE FALSE
  OBVIOUS
<1>0. T \in SUBSET (SUBSET S)
  OBVIOUS
<1> HIDE DEF T
<1>1. PICK t \in T : \A s \in T : s \subseteq t => s = t
  BY <1>0, SmallestSet
<1> USE DEF T
<1>2. t # {}
  BY DEF SumsSubsets
<1>3. t \ {Picked(t)} \notin T
  BY <1>1, <1>2, PickedIsIn
<1> HIDE DEF T
<1>4. t \in SUBSET S /\ g[t] # h[t] /\ g[t \ {Picked(t)}] = h[t \ {Picked(t)}]
  BY <1>3 DEF T
<1> QED
  BY <1>2, <1>4 DEF SumsSubsets

\* What sums all subsets of S sums those of a subset of S.
LEMMA SumsSubsetsRestricts ==
  ASSUME NEW f, NEW S, NEW g, SumsSubsets(f, S, g), NEW R \in SUBSET S
  PROVE SumsSubsets(f, R, [s \in SUBSET R |-> g[s]])
<1> DEFINE h == [s \in SUBSET R |-> g[s]]
<1>1. \A s \in SUBSET R : h[s] = IF s = {} THEN 0 ELSE f[Picked(s)] + h[s \ {Picked(s)}]
  BY DEF SumsSubsets
<1>2. h = [s \in SUBSET R |-> h[s]]
  OBVIOUS
<1> HIDE DEF h
<1>3. h = [s \in SUBSET R |-> IF s = {} THEN 0 ELSE f[Picked(s)] + h[s \ {Picked(s)}]]
  BY <1>1, <1>2
<1> QED
  BY <1>3 DEF h, SumsSubsets

LEMMA SumsSubsetsExists == ASSUME NEW f, NEW S, IsFiniteSet(S) PROVE \E g : SumsSubsets(f, S, g)
<1> DEFINE T == {s \in SUBSET S : ~ \E g : SumsSubsets(f, s, g)}
<1> SUFFICES ASSUME T # {} PROVE FALSE
  OBVIOUS
<1>0. T \in SUBSET (SUBSET S)
  OBVIOUS
<1> HIDE DEF T
<1>1. PICK t \in T : \A s \in T : s \subseteq t => s = t
  BY <1>0, SmallestSet
<1> USE DEF T
<1>2. t \in SUBSET S /\ ~ \E g : SumsSubsets(f, t, g)
  OBVIOUS
<1> DEFINE G(s) == CHOOSE g : SumsSubsets(f, s, g)
           less(s) == s \ {Picked(s)}
           sum(s) == IF s = {} THEN 0 ELSE f[Picked(s)] + G(less(s))[less(s)]
           g == [s \in SUBSET t |-> sum(s)]
<1>3. \A s \in SUBSET t : s # t => SumsSubsets(f, s, G(s))
  BY <1>1
<1> HIDE DEF T
<1>4. ASSUME NEW s \in SUBSET t, s # t PROVE G(s)[s] = sum(s)
  <2>1. SumsSubsets(f, s, G(s))
    BY <1>3, <1>4
  <2>2. CASE s = {}
    BY <2>1, <2>2 DEF SumsSubsets
  <2>3. CASE s # {}
    <3>1. Picked(s) \in s
      BY <2>3, PickedIsIn
    <3> DEFINE u == less(s)
    <3>2. u \in SUBSET s /\ u \in SUBSET t /\ u # t /\ IsFiniteSet(u)
      BY <1>2, <1>4, <3>1, FS_Subset
    <3>3. G(s)[s] = f[Picked(s)] + G(s)[u]
      BY <2>1, <2>3 DEF SumsSubsets
    <3> HIDE DEF u, G
    <3>4. SumsSubsets(f, u, G(u))
      BY <1>3, <3>2
    <3>5. SumsSubsets(f, u, [v \in SUBSET u |-> G(s)[v]])
      BY <2>1, <3>2, SumsSubsetsRestricts
    <3>6. G(u)[u] = [v \in SUBSET u |-> G(s)[v]][u]
      <4> DEFINE k == [v \in SUBSET u |-> G(s)[v]]
      <4> HIDE DEF k
      <4>1. \A v \in SUBSET u : G(u)[v] = k[v]
        BY <3>2, <3>4, <3>5, SumsSubsetsUnique DEF k
      <4> QED
        BY <4>1 DEF k
    <3>7. G(u)[u] = G(s)[u]
      BY <3>6
    <3> QED
      BY <2>3, <3>3, <3>7 DEF u
  <2> QED
    BY <2>2, <2>3
<1>5. \A s \in SUBSET t : g[s] = IF s = {} THEN 0 ELSE f[Picked(s)] + g[less(s)]
  <2>1. ASSUME NEW s \in SUBSET t, s = {} PROVE g[s] = 0
    BY <2>1
  <2>2. ASSUME NEW s \in SUBSET t, s # {} PROVE g[s] = f[Picked(s)] + g[less(s)]
    <3>1. Picked(s) \in s
      BY <2>2, PickedIsIn
    <3>2. less(s) \in SUBSET t /\ less(s) # t
      BY <3>1
    <3>3. g[s] = f[Picked(s)] + G(less(s))[less(s)]
      BY <2>2
    <3> HIDE DEF G
    <3>4. g[less(s)] = G(less(s))[less(s)]
      BY <1>4, <3>2
    <3> QED
      BY <3>3, <3>4
  <2> HIDE DEF g
  <2> QED
    BY <2>1, <2>2
<1>6. g = [s \in SUBSET t |-> g[s]]
  OBVIOUS
<1> HIDE DEF g
<1>7. g = [s \in SUBSET t |-> IF s = {} THEN 0 ELSE f[Picked(s)] + g[less(s)]]
  BY <1>5, <1>6
<1> QED
  BY <1>2, <1>7 DEF SumsSubsets

\* A sum is its first number and the sum of the others.
LEMMA SumOverIs ==
  ASSUME NEW f, NEW S, IsFiniteSet(S)
  PROVE \E g : SumsSubsets(f, S, g) /\ SumOver(f, S) = g[S]
<1> DEFINE iter == CHOOSE g : SumsSubsets(f, S, g)
<1>1. SumsSubsets(f, S, iter)
  BY SumsSubsetsExists
<1>2. SumOver(f, S) = iter[S]
  BY Zenon DEF SumOver, FoldFunctionOnSet, MapThenFoldSet, SumsSubsets, Picked
<1> QED
  BY <1>1, <1>2

LEMMA SumStep ==
  ASSUME NEW f, NEW S, IsFiniteSet(S)
  PROVE /\ S = {} => SumOver(f, S) = 0
        /\ S # {} => /\ Picked(S) \in S
                     /\ SumOver(f, S) = f[Picked(S)] + SumOver(f, S \ {Picked(S)})
<1>1. PICK g : SumsSubsets(f, S, g) /\ SumOver(f, S) = g[S]
  BY SumOverIs
<1>2. ASSUME S = {} PROVE SumOver(f, S) = 0
  BY <1>1, <1>2 DEF SumsSubsets
<1>3. ASSUME S # {} PROVE Picked(S) \in S /\ SumOver(f, S) = f[Picked(S)] + SumOver(f, S \ {Picked(S)})
  <2> DEFINE R == S \ {Picked(S)}
             k == [s \in SUBSET R |-> g[s]]
  <2>1. Picked(S) \in S
    BY <1>3, PickedIsIn
  <2>2. R \in SUBSET S /\ IsFiniteSet(R)
    BY FS_Subset
  <2>3. PICK h : SumsSubsets(f, R, h) /\ SumOver(f, R) = h[R]
    BY <2>2, SumOverIs
  <2>4. SumsSubsets(f, R, k)
    BY <1>1, <2>2, SumsSubsetsRestricts
  <2>5. k[R] = g[R]
    OBVIOUS
  <2> HIDE DEF k
  <2>6. h[R] = k[R]
    <3> HIDE DEF R
    <3>1. \A s \in SUBSET R : h[s] = k[s]
      BY <2>2, <2>3, <2>4, SumsSubsetsUnique
    <3> QED
      BY <3>1
  <2>7. g[S] = f[Picked(S)] + g[R]
    BY <1>1, <1>3 DEF SumsSubsets
  <2> QED
    BY <1>1, <2>1, <2>3, <2>5, <2>6, <2>7
<1> QED
  BY <1>2, <1>3

-----------------------------------------------------------------------------
(* What the models need.                                                   *)

\* The sum of no numbers is 0.
LEMMA SumEmpty == ASSUME NEW f PROVE SumOver(f, {}) = 0
BY SumStep, FS_EmptySet

\* A sum of naturals is a natural, and any of its numbers can be taken out.
LEMMA SumRemoves ==
  ASSUME NEW f, NEW S, IsFiniteSet(S), \A x \in S : f[x] \in Nat
  PROVE /\ SumOver(f, S) \in Nat
        /\ \A x \in S : SumOver(f, S) = f[x] + SumOver(f, S \ {x})
<1> DEFINE Good(s) == /\ SumOver(f, s) \in Nat
                      /\ \A x \in s : SumOver(f, s) = f[x] + SumOver(f, s \ {x})
           T == {s \in SUBSET S : ~ Good(s)}
<1> SUFFICES ASSUME T # {} PROVE FALSE
  OBVIOUS
<1>0. T \in SUBSET (SUBSET S)
  OBVIOUS
<1> HIDE DEF T
<1>1. PICK t \in T : \A s \in T : s \subseteq t => s = t
  BY <1>0, SmallestSet
<1> USE DEF T
<1>2. t \in SUBSET S /\ ~ Good(t)
  OBVIOUS
<1>3. \A s \in SUBSET t : s # t => Good(s)
  BY <1>1
<1> HIDE DEF T
<1>4. IsFiniteSet(t)
  BY <1>2, FS_Subset
<1>5. t # {}
  BY <1>2, SumEmpty
<1> DEFINE p == Picked(t)
<1>6. p \in t /\ SumOver(f, t) = f[p] + SumOver(f, t \ {p})
  BY <1>4, <1>5, SumStep
<1> HIDE DEF p
<1>7. Good(t \ {p})
  BY <1>3, <1>6
<1>8. SumOver(f, t) \in Nat
  BY <1>2, <1>6, <1>7
<1>9. ASSUME NEW x \in t PROVE SumOver(f, t) = f[x] + SumOver(f, t \ {x})
  <2>1. CASE x = p
    BY <1>6, <2>1
  <2>2. CASE x # p
    <3>1. SumOver(f, t \ {p}) = f[x] + SumOver(f, (t \ {p}) \ {x})
      BY <1>7, <2>2
    <3>2. Good(t \ {x})
      BY <1>3
    <3>3. SumOver(f, t \ {x}) = f[p] + SumOver(f, (t \ {x}) \ {p})
      BY <1>6, <2>2, <3>2
    <3>4. (t \ {x}) \ {p} = (t \ {p}) \ {x}
      OBVIOUS
    <3>5. Good((t \ {p}) \ {x})
      BY <1>3, <1>6
    <3> DEFINE r == SumOver(f, (t \ {p}) \ {x})
    <3>6. f[x] \in Nat /\ f[p] \in Nat /\ r \in Nat
      BY <1>2, <1>6, <3>5
    <3>7. SumOver(f, t) = f[p] + (f[x] + r) /\ SumOver(f, t \ {x}) = f[p] + r
      BY <1>6, <3>1, <3>3, <3>4
    <3> HIDE DEF r
    <3> QED
      BY <3>6, <3>7
  <2> QED
    BY <2>1, <2>2
<1> QED
  BY <1>2, <1>8, <1>9

\* Pointwise not more, so in all not more; equal numbers, equal sums.
LEMMA SumMonotone ==
  ASSUME NEW f, NEW g, NEW S, IsFiniteSet(S), \A x \in S : f[x] \in Nat /\ g[x] \in Nat /\ f[x] <= g[x]
  PROVE SumOver(f, S) <= SumOver(g, S)
<1> DEFINE T == {s \in SUBSET S : ~ (SumOver(f, s) <= SumOver(g, s))}
<1> SUFFICES ASSUME T # {} PROVE FALSE
  OBVIOUS
<1>0. T \in SUBSET (SUBSET S)
  OBVIOUS
<1> HIDE DEF T
<1>1. PICK t \in T : \A s \in T : s \subseteq t => s = t
  BY <1>0, SmallestSet
<1> USE DEF T
<1>2. t \in SUBSET S /\ ~ (SumOver(f, t) <= SumOver(g, t))
  OBVIOUS
<1>3. \A s \in SUBSET t : s # t => SumOver(f, s) <= SumOver(g, s)
  BY <1>1
<1> HIDE DEF T
<1>4. IsFiniteSet(t) /\ \A x \in t : f[x] \in Nat /\ g[x] \in Nat /\ f[x] <= g[x]
  BY <1>2, FS_Subset
<1>5. t # {}
  BY <1>2, SumEmpty
<1>6. PICK x \in t : TRUE
  BY <1>5
<1>7. /\ SumOver(f, t) = f[x] + SumOver(f, t \ {x}) /\ SumOver(g, t) = g[x] + SumOver(g, t \ {x})
  BY <1>4, SumRemoves
<1>8. SumOver(f, t \ {x}) \in Nat /\ SumOver(g, t \ {x}) \in Nat
  <2>1. IsFiniteSet(t \ {x})
    BY <1>4, FS_Subset
  <2> QED
    BY <1>4, <2>1, SumRemoves
<1>9. SumOver(f, t \ {x}) <= SumOver(g, t \ {x})
  BY <1>3
<1> QED
  BY <1>2, <1>4, <1>7, <1>8, <1>9

LEMMA SumEqual ==
  ASSUME NEW f, NEW g, NEW S, IsFiniteSet(S), \A x \in S : f[x] \in Nat /\ g[x] = f[x]
  PROVE SumOver(f, S) = SumOver(g, S)
<1>1. SumOver(f, S) <= SumOver(g, S) /\ SumOver(g, S) <= SumOver(f, S)
  BY SumMonotone
<1>2. SumOver(f, S) \in Nat /\ SumOver(g, S) \in Nat
  BY SumRemoves
<1> QED
  BY <1>1, <1>2

\* One number has changed.
LEMMA SumChanges ==
  ASSUME NEW f, NEW g, NEW S, IsFiniteSet(S), NEW x \in S,
         \A y \in S : f[y] \in Nat /\ g[y] \in Nat,
         \A y \in S \ {x} : g[y] = f[y]
  PROVE SumOver(g, S) = SumOver(f, S) - f[x] + g[x]
<1>1. SumOver(f, S) = f[x] + SumOver(f, S \ {x}) /\ SumOver(g, S) = g[x] + SumOver(g, S \ {x})
  BY SumRemoves
<1>2. IsFiniteSet(S \ {x})
  BY FS_Subset
<1>3. SumOver(f, S \ {x}) = SumOver(g, S \ {x})
  BY <1>2, SumEqual
<1>4. SumOver(f, S \ {x}) \in Nat
  BY <1>2, SumRemoves
<1> QED
  BY <1>1, <1>3, <1>4

LEMMA SumZero ==
  ASSUME NEW f, NEW S, IsFiniteSet(S), \A x \in S : f[x] = 0
  PROVE SumOver(f, S) = 0
<1> DEFINE T == {s \in SUBSET S : SumOver(f, s) # 0}
<1> SUFFICES ASSUME T # {} PROVE FALSE
  OBVIOUS
<1>0. T \in SUBSET (SUBSET S)
  OBVIOUS
<1> HIDE DEF T
<1>1. PICK t \in T : \A s \in T : s \subseteq t => s = t
  BY <1>0, SmallestSet
<1> USE DEF T
<1>2. t \in SUBSET S /\ SumOver(f, t) # 0
  OBVIOUS
<1>3. \A s \in SUBSET t : s # t => SumOver(f, s) = 0
  BY <1>1
<1> HIDE DEF T
<1>4. IsFiniteSet(t) /\ t # {}
  BY <1>2, FS_Subset, SumEmpty
<1>5. Picked(t) \in t /\ SumOver(f, t) = f[Picked(t)] + SumOver(f, t \ {Picked(t)})
  BY <1>4, SumStep
<1>6. SumOver(f, t \ {Picked(t)}) = 0
  BY <1>3, <1>5
<1> QED
  BY <1>2, <1>5, <1>6

\* The sum of some of the numbers is not more than that of all.
LEMMA SumSubset ==
  ASSUME NEW f, NEW S, IsFiniteSet(S), \A x \in S : f[x] \in Nat, NEW R \in SUBSET S
  PROVE SumOver(f, R) <= SumOver(f, S)
<1> DEFINE T == {s \in SUBSET S : R \subseteq s /\ ~ (SumOver(f, R) <= SumOver(f, s))}
<1> SUFFICES ASSUME T # {} PROVE FALSE
  OBVIOUS
<1>0. T \in SUBSET (SUBSET S)
  OBVIOUS
<1> HIDE DEF T
<1>1. PICK t \in T : \A s \in T : s \subseteq t => s = t
  BY <1>0, SmallestSet
<1> USE DEF T
<1>2. t \in SUBSET S /\ R \subseteq t /\ ~ (SumOver(f, R) <= SumOver(f, t))
  OBVIOUS
<1>3. \A s \in SUBSET t : R \subseteq s /\ s # t => SumOver(f, R) <= SumOver(f, s)
  BY <1>1
<1> HIDE DEF T
<1>4. IsFiniteSet(R) /\ IsFiniteSet(t) /\ \A x \in t : f[x] \in Nat
  BY <1>2, FS_Subset
<1>5. SumOver(f, R) \in Nat
  BY <1>4, SumRemoves
<1>6. t # R
  BY <1>2, <1>5
<1>7. PICK x \in t : x \notin R
  BY <1>2, <1>6
<1>8. SumOver(f, t) = f[x] + SumOver(f, t \ {x})
  BY <1>4, SumRemoves
<1>9. SumOver(f, t \ {x}) \in Nat
  <2>1. IsFiniteSet(t \ {x})
    BY <1>4, FS_Subset
  <2> QED
    BY <1>4, <2>1, SumRemoves
<1>10. SumOver(f, R) <= SumOver(f, t \ {x})
  BY <1>2, <1>3, <1>7
<1> QED
  BY <1>2, <1>4, <1>5, <1>8, <1>9, <1>10

=============================================================================
