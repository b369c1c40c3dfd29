--------------------------- MODULE Linker_proofs ---------------------------
(***************************************************************************)
(* Proofs about Linker, for every set of consumers and providers, every    *)
(* choice of imports and every size of pages and buffers: types, the flags *)
(* of the bridges, the limit of gets, and that no call reads or overwrites *)
(* the bytes of another.                                                   *)
(***************************************************************************)
EXTENDS Linker, SumTheorems, SequenceTheorems

\* A consumer has a page of a provider's memory from the time it is linked.
HasPage(c, p) == phase[c] \in {"linking", "linked"} /\ Specs[c][p] # {}
Page(c, p) == scratchBase[c][p] + 1 .. scratchBase[c][p] + PageSize

\* The pages of different consumers do not overlap, and hold nothing but zeros
\* and bytes of their consumer's own calls.
PagesApart ==
  \A c, d \in Consumers, p \in Providers :
    c # d /\ HasPage(c, p) /\ HasPage(d, p) => Page(c, p) \cap Page(d, p) = {}
PagesOwned ==
  \A c \in Consumers, p \in Providers : HasPage(c, p) =>
    \A x \in Page(c, p) : memory[p][x] # 0 =>
      memory[p][x] \in DOMAIN callers /\ callers[memory[p][x]] = c

\* The calls under way: each of a linked consumer, of a bridge of its own, with
\* buffers that fit into the page.
Arguments(id) == [ToSet(Pointers(Links[id])) -> Lengths]
Frames ==
  [consumer : Consumers, provider : Providers, id : DOMAIN Links,
   args : UNION {Arguments(id) : id \in DOMAIN Links}, call : Nat]
Framed(f) ==
  /\ phase[f.consumer] = "linked" /\ f.id \in Specs[f.consumer][f.provider]
  /\ f.args \in Arguments(f.id) /\ Fits(Links[f.id], f.args)
  /\ f.call \in DOMAIN callers /\ callers[f.call] = f.consumer
StackSound ==
  /\ stack \in Seq(Frames)
  /\ \A k \in DOMAIN stack : Framed(stack[k])
  /\ \A k, n \in DOMAIN stack :
       stack[k].consumer = stack[n].consumer /\ stack[k].provider = stack[n].provider => k = n

\* A get under way still has its place in the quota.
GetsCounted ==
  /\ \A c \in Consumers : httpGets[c] = getsDone[c] /\ getsDone[c] <= maxHttpGets
  /\ \A c \in Consumers : phase[c] \in {"linking", "linked"} => Apart(c)
  /\ \A k \in DOMAIN stack : stack[k].id = "http_get" => httpGets[stack[k].consumer] < maxHttpGets

IInv ==
  /\ TypeOK /\ PagesApart /\ PagesOwned /\ StackSound /\ GetsCounted
  /\ ActiveOnlyInCall /\ BytesApart

-----------------------------------------------------------------------------
(* The tables of links, and the layout of a call's buffers.                *)

Sizes == {"result", "state", "stats", "key"}
IsLink(link) == link.copyIn \in Seq(Nat) /\ link.copyOut \in Seq([at : Nat, size : Sizes])

LEMMA LinkIs ==
  ASSUME NEW ins \in Seq(Nat), NEW outs \in Seq([at : Nat, size : Sizes])
  PROVE IsLink(Link(ins, outs))
BY DEF IsLink, Link

LEMMA OutIs ==
  /\ \A at \in Nat : Result(at) \in [at : Nat, size : Sizes] /\ State(at) \in [at : Nat, size : Sizes]
  /\ \A at \in Nat, size \in Sizes : Fixed(at, size) \in [at : Nat, size : Sizes]
BY DEF Result, State, Fixed, Sizes

LEMMA LinksAreLinks == \A id \in DOMAIN Links : IsLink(Links[id])
<1> DEFINE Good(f) == \A x \in DOMAIN f : IsLink(f[x])
           O == [at : Nat, size : Sizes]
<1>1. \A a, b, c, d, e \in Nat :
        /\ <<>> \in Seq(Nat) /\ <<a>> \in Seq(Nat) /\ <<a, b>> \in Seq(Nat) /\ <<a, b, c>> \in Seq(Nat)
        /\ <<a, b, c, d>> \in Seq(Nat) /\ <<a, b, c, d, e>> \in Seq(Nat)
  OBVIOUS
<1>2. \A a, b \in O : <<>> \in Seq(O) /\ <<a>> \in Seq(O) /\ <<a, b>> \in Seq(O)
  OBVIOUS
<1>3. \A ins \in Seq(Nat), outs \in Seq(O) : IsLink(Link(ins, outs))
  BY LinkIs
<1>4. \A at \in Nat : Result(at) \in O /\ State(at) \in O /\ Fixed(at, "stats") \in O /\ Fixed(at, "key") \in O
  BY OutIs DEF Sizes
<1> HIDE DEF O
<1>5. ASSUME NEW outs \in Seq(O), NEW a \in Nat, NEW b \in Nat, NEW c \in Nat, NEW d \in Nat, NEW e \in Nat
      PROVE /\ IsLink(Link(<<>>, outs)) /\ IsLink(Link(<<a>>, outs)) /\ IsLink(Link(<<a, b>>, outs))
            /\ IsLink(Link(<<a, b, c>>, outs)) /\ IsLink(Link(<<a, b, c, d>>, outs)) /\ IsLink(Link(<<a, b, c, d, e>>, outs))
  <2>1. /\ <<>> \in Seq(Nat) /\ <<a>> \in Seq(Nat) /\ <<a, b>> \in Seq(Nat) /\ <<a, b, c>> \in Seq(Nat)
        /\ <<a, b, c, d>> \in Seq(Nat) /\ <<a, b, c, d, e>> \in Seq(Nat)
    OBVIOUS
  <2> QED
    BY ONLY <2>1, <1>3, outs \in Seq(O)
<1>6. /\ <<>> \in Seq(O)
      /\ \A i, j \in Nat : <<Result(i)>> \in Seq(O) /\ <<Result(i), State(j)>> \in Seq(O)
                           /\ <<Fixed(i, "stats")>> \in Seq(O) /\ <<Fixed(i, "key")>> \in Seq(O)
  BY <1>2, <1>4
<1>7. IsLink(NoBuffers)
  BY <1>5, <1>6 DEF NoBuffers
<1>8. Good(HTTP_LINKS)
  <2>1. /\ IsLink(Link(<<0>>, <<>>)) /\ IsLink(Link(<<1>>, <<>>)) /\ IsLink(Link(<<>>, <<Result(1)>>))
        /\ IsLink(Link(<<0, 3>>, <<Result(5)>>))
    BY ONLY <1>5, <1>6
  <2> QED
    BY ONLY <2>1, <1>7 DEF HTTP_LINKS
<1>9. Good(DB_LINKS)
  <2>1. /\ IsLink(Link(<<0>>, <<>>)) /\ IsLink(Link(<<1>>, <<>>)) /\ IsLink(Link(<<>>, <<Result(1)>>))
        /\ IsLink(Link(<<0, 3>>, <<Result(5)>>))
    BY ONLY <1>5, <1>6
  <2> QED
    BY ONLY <2>1, <1>7 DEF DB_LINKS
<1>10. Good(PG_SESSION_LINKS)
  <2>1. IsLink(Link(<<0, 3, 5>>, <<>>)) /\ IsLink(Link(<<1>>, <<Result(3)>>))
    BY ONLY <1>5, <1>6
  <2> QED
    BY ONLY <2>1, <1>7 DEF PG_SESSION_LINKS
<1>11. Good(PG_QUERY_LINKS)
  <2>1. IsLink(Link(<<0, 3>>, <<Result(5)>>)) /\ IsLink(Link(<<1>>, <<Result(3), State(5)>>))
    BY ONLY <1>5, <1>6
  <2> QED
    BY ONLY <2>1, <1>7 DEF PG_QUERY_LINKS
<1>12. Good(PG_PREPARED_LINKS)
  <2>1. /\ IsLink(Link(<<1, 3>>, <<Result(5), State(7)>>)) /\ IsLink(Link(<<1, 3, 5>>, <<Result(7), State(9)>>))
        /\ IsLink(Link(<<1>>, <<Result(3), State(5)>>)) /\ IsLink(Link(<<1, 3, 5>>, <<Result(8), State(10)>>))
    BY ONLY <1>5, <1>6
  <2> QED
    BY ONLY <2>1, <1>7 DEF PG_PREPARED_LINKS
<1>13. Good(PG_PORTAL_LINKS)
  <2>1. /\ IsLink(Link(<<1, 3, 5>>, <<Result(7), State(9)>>)) /\ IsLink(Link(<<1>>, <<Result(4), State(6)>>))
        /\ IsLink(Link(<<1>>, <<Result(3), State(5)>>))
    BY ONLY <1>5, <1>6
  <2> QED
    BY ONLY <2>1, <1>7 DEF PG_PORTAL_LINKS
<1>14. Good(PG_BULK_LINKS)
  <2>1. /\ IsLink(Link(<<1>>, <<Result(3), State(5)>>)) /\ IsLink(Link(<<1, 3>>, <<Result(5), State(7)>>))
        /\ IsLink(Link(<<1>>, <<Result(4), State(6)>>)) /\ IsLink(Link(<<>>, <<Result(1), State(3)>>))
    BY ONLY <1>5, <1>6
  <2> QED
    BY ONLY <2>1, <1>7 DEF PG_BULK_LINKS
<1>15. Good(PG_POOL_LINKS)
  <2>1. /\ IsLink(Link(<<0, 3, 5, 7>>, <<>>)) /\ IsLink(Link(<<1>>, <<Result(3), State(5)>>))
        /\ IsLink(Link(<<>>, <<Fixed(1, "stats")>>))
    BY ONLY <1>5, <1>6
  <2> QED
    BY ONLY <2>1, <1>7 DEF PG_POOL_LINKS
<1>16. Good(PG_SCRAM_LINKS)
  <2>1. /\ IsLink(Link(<<0, 3, 5, 7>>, <<>>)) /\ IsLink(Link(<<0, 3, 5, 7, 9>>, <<>>))
        /\ IsLink(Link(<<0, 3, 5, 7>>, <<Fixed(9, "key")>>))
    BY ONLY <1>5, <1>6
  <2> QED
    BY ONLY <2>1, <1>7 DEF PG_SCRAM_LINKS
<1>17. \A table \in Tables : Good(table)
  BY ONLY <1>8, <1>9, <1>10, <1>11, <1>12, <1>13, <1>14, <1>15, <1>16 DEF Tables
<1> HIDE DEF Good
<1>18. ASSUME NEW id \in DOMAIN Links PROVE IsLink(Links[id])
  <2> DEFINE table == CHOOSE table \in Tables : id \in DOMAIN table
  <2>1. table \in Tables /\ id \in DOMAIN table /\ Links[id] = table[id]
    BY Zenon DEF Links
  <2> HIDE DEF table
  <2> QED
    BY <1>17, <2>1 DEF Good
<1> QED
  BY <1>18

\* Arguments that fit into the page.
Fitting(link, args) ==
  IsLink(link) /\ args \in [ToSet(Pointers(link)) -> Nat] /\ Fits(link, args)

LEMMA PointersAre ==
  ASSUME NEW link, IsLink(link)
  PROVE /\ Pointers(link) \in Seq(Nat)
        /\ Len(link.copyIn) \in Nat /\ Len(link.copyOut) \in Nat
        /\ Len(Pointers(link)) = Len(link.copyIn) + Len(link.copyOut)
        /\ \A k \in 1 .. Len(link.copyOut) : Pointers(link)[Len(link.copyIn) + k] = link.copyOut[k].at
        /\ \A k \in 1 .. Len(Pointers(link)) : Pointers(link)[k] \in ToSet(Pointers(link))
<1> DEFINE ats == [k \in DOMAIN link.copyOut |-> link.copyOut[k].at]
<1>1. link.copyIn \in Seq(Nat) /\ link.copyOut \in Seq([at : Nat, size : Sizes])
  BY DEF IsLink
<1>2. DOMAIN link.copyOut = 1 .. Len(link.copyOut) /\ Len(link.copyOut) \in Nat
  BY <1>1
<1>3. \A k \in 1 .. Len(link.copyOut) : link.copyOut[k] \in [at : Nat, size : Sizes]
  BY <1>1, ElementOfSeq
<1>4. \A k \in 1 .. Len(link.copyOut) : link.copyOut[k].at \in Nat
  BY <1>3
<1>5. ats \in [1 .. Len(link.copyOut) -> Nat]
  BY <1>2, <1>4
<1>6. ats \in Seq(Nat) /\ Len(ats) = Len(link.copyOut)
  BY <1>2, <1>5
<1>7. Pointers(link) = link.copyIn \o ats
  BY DEF Pointers
<1>8. \A k \in 1 .. Len(link.copyOut) : ats[k] = link.copyOut[k].at
  BY <1>2
<1> HIDE DEF ats
<1>9. Pointers(link) \in Seq(Nat) /\ Len(Pointers(link)) = Len(link.copyIn) + Len(link.copyOut)
  <2>1. link.copyIn \o ats \in Seq(Nat) /\ Len(link.copyIn \o ats) = Len(link.copyIn) + Len(ats)
    BY ONLY <1>1, <1>6, ConcatProperties
  <2> QED
    BY ONLY <1>6, <1>7, <2>1
<1>10. \A k \in 1 .. Len(link.copyOut) : Pointers(link)[Len(link.copyIn) + k] = link.copyOut[k].at
  BY <1>1, <1>6, <1>7, <1>8
<1>11. \A k \in 1 .. Len(Pointers(link)) : Pointers(link)[k] \in ToSet(Pointers(link))
  <2>1. DOMAIN Pointers(link) = 1 .. Len(Pointers(link))
    BY <1>9
  <2> QED
    BY ONLY <2>1 DEF ToSet
<1>12. Len(link.copyIn) \in Nat
  BY <1>1
<1> QED
  BY ONLY <1>2, <1>9, <1>10, <1>11, <1>12

\* The buffers lie one after the other, and none ends behind the page.
LEMMA Layout ==
  ASSUME NEW link, NEW args, Fitting(link, args)
  PROVE /\ \A k \in 0 .. Len(Pointers(link)) : SumTo(link, args, k) \in Nat /\ SumTo(link, args, k) <= PageSize
        /\ \A k \in 1 .. Len(Pointers(link)) :
             /\ args[Pointers(link)[k]] \in Nat
             /\ SumTo(link, args, k) = SumTo(link, args, k - 1) + args[Pointers(link)[k]]
        /\ \A j, k \in 0 .. Len(Pointers(link)) : j <= k => SumTo(link, args, j) <= SumTo(link, args, k)
<1> DEFINE P == Pointers(link)
           n == Len(P)
           f == [k \in DOMAIN P |-> args[P[k]]]
<1>1. P \in Seq(Nat) /\ \A k \in 1 .. n : P[k] \in ToSet(P)
  BY PointersAre DEF Fitting
<1>2. DOMAIN P = 1 .. n /\ n \in Nat
  BY <1>1
<1>3. \A k \in 1 .. n : f[k] = args[P[k]] /\ f[k] \in Nat
  BY <1>1, <1>2 DEF Fitting
<1>4. \A k : SumTo(link, args, k) = SumOver(f, 1 .. k)
  BY DEF SumTo, SumOver
<1>5. SumTo(link, args, n) <= PageSize
  BY DEF Fitting, Fits, Total
<1> HIDE DEF P, n, f
<1>6. \A k \in 0 .. n : IsFiniteSet(1 .. k) /\ \A x \in 1 .. k : f[x] \in Nat
  BY <1>2, <1>3, FS_Interval
<1>7. \A k \in 0 .. n : SumOver(f, 1 .. k) \in Nat
  BY <1>6, SumRemoves
<1>8. ASSUME NEW j \in 0 .. n, NEW k \in 0 .. n, j <= k PROVE SumOver(f, 1 .. j) <= SumOver(f, 1 .. k)
  <2>1. 1 .. j \in SUBSET (1 .. k)
    BY <1>2, <1>8
  <2> QED
    BY <1>6, <2>1, SumSubset
<1>9. ASSUME NEW k \in 1 .. n PROVE SumOver(f, 1 .. k) = SumOver(f, 1 .. k - 1) + f[k]
  <2>1. k \in 1 .. k /\ k \in 0 .. n /\ k - 1 \in 0 .. n
    BY <1>2
  <2>2. SumOver(f, 1 .. k) = f[k] + SumOver(f, (1 .. k) \ {k})
    BY <1>6, <2>1, SumRemoves
  <2>3. (1 .. k) \ {k} = 1 .. k - 1
    BY <1>2
  <2>4. f[k] \in Nat /\ SumOver(f, 1 .. k - 1) \in Nat
    BY <1>3, <1>7, <2>1
  <2>5. SumOver(f, 1 .. k) = f[k] + SumOver(f, 1 .. k - 1)
    BY ONLY <2>2, <2>3
  <2> DEFINE r == SumOver(f, 1 .. k - 1)
  <2> HIDE DEF r
  <2> QED
    BY <2>4, <2>5 DEF r
<1>10. \A k \in 0 .. n : SumTo(link, args, k) \in Nat
  BY <1>4, <1>7
<1>11. \A j, k \in 0 .. n : j <= k => SumTo(link, args, j) <= SumTo(link, args, k)
  BY <1>4, <1>8
<1>12. ASSUME NEW k \in 0 .. n PROVE SumTo(link, args, k) <= PageSize
  <2>1. n \in 0 .. n /\ k <= n
    BY <1>2
  <2>2. SumTo(link, args, k) <= SumTo(link, args, n) /\ SumTo(link, args, k) \in Nat /\ SumTo(link, args, n) \in Nat
    BY <1>10, <1>11, <2>1
  <2> QED
    BY <1>5, <2>2, LinkerAssumption
<1>13. \A k \in 1 .. n : args[P[k]] \in Nat /\ SumTo(link, args, k) = SumTo(link, args, k - 1) + args[P[k]]
  BY <1>3, <1>4, <1>9
<1> QED
  BY <1>10, <1>11, <1>12, <1>13 DEF P, n

\* A buffer lies in the page of its bridge, with every part of it, and two
\* buffers of a call do not overlap.
LEMMA BufferInPage ==
  ASSUME NEW c, NEW p, scratchBase[c][p] \in Nat, NEW link, NEW args, Fitting(link, args),
         NEW k \in 1 .. Len(Pointers(link)), NEW n \in Nat, n <= args[Pointers(link)[k]]
  PROVE Bytes(c, p, link, args, k, n) \subseteq Page(c, p)
<1> DEFINE N == Len(Pointers(link))
           to(j) == SumTo(link, args, j)
           a == args[Pointers(link)[k]]
<1>1. N \in Nat
  BY PointersAre DEF Fitting
<1>2. k - 1 \in 0 .. N /\ k \in 0 .. N
  BY <1>1
<1>3. to(k - 1) \in Nat /\ to(k) \in Nat /\ to(k) <= PageSize /\ to(k) = to(k - 1) + a /\ a \in Nat
  BY <1>2, Layout
<1> HIDE DEF to, a, N
<1>4. \A j \in 1 .. n : scratchBase[c][p] + to(k - 1) + j \in Page(c, p)
  <2>1. n <= a /\ PageSize \in Nat
    BY LinkerAssumption DEF a
  <2>2. \A j \in 1 .. n : to(k - 1) + j \in 1 .. PageSize
    BY ONLY <1>3, <2>1, n \in Nat
  <2>3. \A b \in Nat : \A i \in 1 .. PageSize : b + i \in b + 1 .. b + PageSize
    BY ONLY <2>1
  <2>4. \A j \in 1 .. n : scratchBase[c][p] + to(k - 1) + j = scratchBase[c][p] + (to(k - 1) + j)
    BY ONLY <1>3, n \in Nat, scratchBase[c][p] \in Nat
  <2> QED
    BY ONLY <2>2, <2>3, <2>4, scratchBase[c][p] \in Nat DEF Page
<1> QED
  BY <1>4 DEF Bytes, to

LEMMA BuffersDisjoint ==
  ASSUME NEW c, NEW p, scratchBase[c][p] \in Nat, NEW link, NEW args, Fitting(link, args),
         NEW j \in 1 .. Len(Pointers(link)), NEW k \in 1 .. Len(Pointers(link)), j < k
  PROVE Buffer(c, p, link, args, j) \cap Buffer(c, p, link, args, k) = {}
<1> DEFINE N == Len(Pointers(link))
           to(i) == SumTo(link, args, i)
           a == args[Pointers(link)[j]]
<1>1. N \in Nat
  BY PointersAre DEF Fitting
<1>2. j - 1 \in 0 .. N /\ j \in 0 .. N /\ k - 1 \in 0 .. N /\ k \in 0 .. N /\ j <= k - 1
  BY <1>1
<1>3. to(j - 1) \in Nat /\ a \in Nat /\ to(j) = to(j - 1) + a /\ to(k - 1) \in Nat /\ to(j) <= to(k - 1)
  BY <1>2, Layout
<1>4. ASSUME NEW x \in Buffer(c, p, link, args, j), NEW y \in Buffer(c, p, link, args, k) PROVE x < y
  <2>1. PICK m \in 1 .. a : x = scratchBase[c][p] + to(j - 1) + m
    BY DEF Buffer, Bytes
  <2>2. PICK i \in 1 .. args[Pointers(link)[k]] : y = scratchBase[c][p] + to(k - 1) + i
    BY DEF Buffer, Bytes
  <2>3. args[Pointers(link)[k]] \in Nat
    BY Layout
  <2> HIDE DEF to, a
  <2> QED
    BY <1>3, <2>1, <2>2, <2>3
<1>5. \A x \in Buffer(c, p, link, args, j) : x \in Int
  <2>1. ASSUME NEW x \in Buffer(c, p, link, args, j) PROVE x \in Int
    <3>1. PICK m \in 1 .. a : x = scratchBase[c][p] + to(j - 1) + m
      BY DEF Buffer, Bytes
    <3> HIDE DEF to, a
    <3> QED
      BY <1>3, <3>1
  <2> QED
    BY <2>1
<1> QED
  BY <1>4, <1>5

-----------------------------------------------------------------------------
(* What an action does to the memories.                                    *)

\* The memories grow at their ends.
Extended ==
  /\ memory' \in [Providers -> Seq(Own .. MaxCalls)]
  /\ \A p \in Providers :
       /\ Len(memory[p]) <= Len(memory'[p])
       /\ \A x \in 1 .. Len(memory[p]) : memory'[p][x] = memory[p][x]

\* A page of zeros that the memory gets at its end.
Fresh(c, p) ==
  /\ scratchBase'[c][p] = Len(memory[p])
  /\ Len(memory'[p]) = Len(memory[p]) + PageSize
  /\ \A x \in Len(memory[p]) + 1 .. Len(memory'[p]) : memory'[p][x] = 0

LEMMA NewPageIs == NewPage \in Seq(Own .. MaxCalls) /\ Len(NewPage) = PageSize
BY LinkerAssumption DEF NewPage, Own

LEMMA GrowsExtends ==
  ASSUME TypeOK, NEW S \in SUBSET Providers, Grows(S)
  PROVE /\ Extended
        /\ \A p \in S : /\ Len(memory'[p]) = Len(memory[p]) + PageSize
                        /\ \A x \in Len(memory[p]) + 1 .. Len(memory'[p]) : memory'[p][x] = 0
<1>1. \A p \in Providers : memory[p] \in Seq(Own .. MaxCalls)
  BY DEF TypeOK
<1>2. ASSUME NEW p \in Providers
      PROVE /\ Grown(p) \in Seq(Own .. MaxCalls) /\ Len(Grown(p)) = Len(memory[p]) + PageSize
            /\ \A x \in 1 .. Len(memory[p]) : Grown(p)[x] = memory[p][x]
            /\ \A x \in Len(memory[p]) + 1 .. Len(memory[p]) + PageSize : Grown(p)[x] = 0
  <2> DEFINE m == memory[p]
  <2>1. m \in Seq(Own .. MaxCalls) /\ Len(m) \in Nat /\ PageSize \in Nat
    BY <1>1, LinkerAssumption
  <2>2. Grown(p) = m \o NewPage
    BY DEF Grown
  <2> HIDE DEF m
  <2>3. /\ m \o NewPage \in Seq(Own .. MaxCalls) /\ Len(m \o NewPage) = Len(m) + PageSize
        /\ \A x \in 1 .. Len(m) + PageSize : (m \o NewPage)[x] = IF x <= Len(m) THEN m[x] ELSE NewPage[x - Len(m)]
    BY <2>1, NewPageIs, ConcatProperties
  <2>4. \A x \in 1 .. PageSize : NewPage[x] = 0
    BY DEF NewPage
  <2>5. \A x \in 1 .. Len(m) : (m \o NewPage)[x] = m[x]
    BY <2>1, <2>3
  <2>6. ASSUME NEW x \in Len(m) + 1 .. Len(m) + PageSize PROVE (m \o NewPage)[x] = 0
    <3>1. x - Len(m) \in 1 .. PageSize /\ x \in 1 .. Len(m) + PageSize /\ ~ (x <= Len(m))
      BY <2>1
    <3> QED
      BY <2>3, <2>4, <3>1
  <2> QED
    BY <2>2, <2>3, <2>5, <2>6 DEF m
<1>3. /\ memory' \in [Providers -> Seq(Own .. MaxCalls)]
      /\ \A p \in Providers : memory'[p] = IF p \in S THEN Grown(p) ELSE memory[p]
  BY <1>1, <1>2 DEF Grows
<1>4. ASSUME NEW p \in Providers
      PROVE Len(memory[p]) <= Len(memory'[p]) /\ \A x \in 1 .. Len(memory[p]) : memory'[p][x] = memory[p][x]
  <2>1. Len(memory[p]) \in Nat /\ PageSize \in Nat
    BY <1>1, LinkerAssumption
  <2>2. CASE p \in S
    BY <1>2, <1>3, <2>1, <2>2
  <2>3. CASE p \notin S
    BY <1>3, <2>1, <2>3
  <2> QED
    BY <2>2, <2>3
<1>5. ASSUME NEW p \in S
      PROVE /\ Len(memory'[p]) = Len(memory[p]) + PageSize
            /\ \A x \in Len(memory[p]) + 1 .. Len(memory'[p]) : memory'[p][x] = 0
  BY <1>2, <1>3
<1> QED
  BY <1>3, <1>4, <1>5 DEF Extended

\* Only the bytes at the places change, and all of them.
LEMMA Wrote ==
  ASSUME TypeOK, NEW p \in Providers, NEW W, NEW n \in Own .. MaxCalls, memory' = Written(p, W, n)
  PROVE /\ memory' \in [Providers -> Seq(Own .. MaxCalls)]
        /\ \A q \in Providers : Len(memory'[q]) = Len(memory[q]) /\ DOMAIN memory'[q] = DOMAIN memory[q]
        /\ \A q \in Providers : q # p => memory'[q] = memory[q]
        /\ \A x \in DOMAIN memory[p] : memory'[p][x] = IF x \in W THEN n ELSE memory[p][x]
<1> DEFINE m == memory[p]
           w == [k \in DOMAIN m |-> IF k \in W THEN n ELSE m[k]]
<1>1. memory \in [Providers -> Seq(Own .. MaxCalls)] /\ m \in Seq(Own .. MaxCalls)
  BY DEF TypeOK
<1>2. memory' = [memory EXCEPT ![p] = w]
  BY Zenon DEF Written
<1> HIDE DEF m
<1>3. DOMAIN m = 1 .. Len(m) /\ Len(m) \in Nat /\ \A k \in 1 .. Len(m) : m[k] \in Own .. MaxCalls
  <2>1. \A k \in 1 .. Len(m) : m[k] \in Own .. MaxCalls
    BY ONLY <1>1, ElementOfSeq
  <2> QED
    BY <1>1, <2>1
<1>4. w \in [1 .. Len(m) -> Own .. MaxCalls]
  BY <1>3
<1>5. w \in Seq(Own .. MaxCalls) /\ Len(w) = Len(m) /\ DOMAIN w = DOMAIN m
  BY <1>3, <1>4
<1>6. \A x \in DOMAIN m : w[x] = IF x \in W THEN n ELSE m[x]
  OBVIOUS
<1> HIDE DEF w
<1>7. memory' \in [Providers -> Seq(Own .. MaxCalls)] /\ memory'[p] = w /\ \A q \in Providers : q # p => memory'[q] = memory[q]
  BY <1>1, <1>2, <1>5
<1>8. \A q \in Providers : Len(memory'[q]) = Len(memory[q]) /\ DOMAIN memory'[q] = DOMAIN memory[q]
  BY <1>5, <1>7 DEF m
<1> QED
  BY <1>6, <1>7, <1>8 DEF m

-----------------------------------------------------------------------------
(* Linking.                                                                *)

\* A page is one that was there, or a fresh one.
OldPage(c, p) == HasPage(c, p) /\ scratchBase'[c][p] = scratchBase[c][p]
Relinked ==
  /\ phase' \in [Consumers -> {"unlinked", "linking", "linked", "failed"}]
  /\ scratchBase' \in [Consumers -> [Providers -> Nat]]
  /\ \A c \in Consumers, p \in Providers : HasPage(c, p)' => OldPage(c, p) \/ (Fresh(c, p) /\ ~ HasPage(c, p))
  /\ \A c, d \in Consumers, p, q \in Providers :
       HasPage(c, p)' /\ ~ HasPage(c, p) /\ HasPage(d, q)' /\ ~ HasPage(d, q) => c = d
  /\ \A c \in Consumers : phase[c] = "linked" => phase'[c] = "linked" /\ scratchBase'[c] = scratchBase[c]
  /\ \A c \in Consumers : phase'[c] \in {"linking", "linked"} => Apart(c)

\* The page of a consumer is inside the memory, and a fresh one behind it.
LEMMA PageInMemory ==
  ASSUME TypeOK, NEW c \in Consumers, NEW p \in Providers, HasPage(c, p)
  PROVE /\ DOMAIN memory[p] = 1 .. Len(memory[p]) /\ Len(memory[p]) \in Nat /\ scratchBase[c][p] \in Nat
        /\ scratchBase[c][p] + PageSize <= Len(memory[p])
        /\ Page(c, p) \subseteq 1 .. Len(memory[p])
<1>1. memory[p] \in Seq(Own .. MaxCalls) /\ scratchBase[c][p] \in Nat /\ PageSize \in Nat
  BY LinkerAssumption DEF TypeOK
<1>2. scratchBase[c][p] + PageSize <= Len(memory[p])
  BY DEF TypeOK, HasPage
<1>3. DOMAIN memory[p] = 1 .. Len(memory[p]) /\ Len(memory[p]) \in Nat
  BY <1>1
<1>4. Page(c, p) \subseteq 1 .. Len(memory[p])
  BY <1>1, <1>2, <1>3 DEF Page
<1> QED
  BY <1>1, <1>2, <1>3, <1>4

LEMMA LinkSteps ==
  ASSUME IInv, Extended, Relinked, UNCHANGED callVars
  PROVE IInv'
<1>1. /\ TypeOK /\ PagesApart /\ PagesOwned /\ StackSound /\ GetsCounted /\ ActiveOnlyInCall
      /\ ArgumentsStay /\ OnlyOwnBytes
  BY DEF IInv, BytesApart
<1>2. /\ active' = active /\ httpGets' = httpGets /\ stack' = stack /\ callers' = callers
      /\ received' = received /\ getsDone' = getsDone
  BY DEF callVars
<1>3. \A p \in Providers : memory[p] \in Seq(Own .. MaxCalls) /\ memory'[p] \in Seq(Own .. MaxCalls)
  BY <1>1 DEF TypeOK, Extended
<1>4. \A p \in Providers : Len(memory[p]) \in Nat /\ Len(memory'[p]) \in Nat /\ PageSize \in Nat
                           /\ DOMAIN memory'[p] = 1 .. Len(memory'[p]) /\ DOMAIN memory[p] = 1 .. Len(memory[p])
  BY <1>3, LinkerAssumption
<1>5. \A c \in Consumers, p \in Providers :
        scratchBase[c][p] \in Nat /\ scratchBase'[c][p] \in Nat
  BY <1>1 DEF TypeOK, Relinked
<1>6. \A c \in Consumers, p \in Providers : HasPage(c, p)' =>
        OldPage(c, p) \/ (Fresh(c, p) /\ ~ HasPage(c, p))
  BY DEF Relinked
<1>7. ASSUME NEW c \in Consumers, NEW p \in Providers, HasPage(c, p)'
      PROVE scratchBase'[c][p] + PageSize <= Len(memory'[p])
  <2>1. CASE OldPage(c, p)
    <3>1. scratchBase[c][p] + PageSize <= Len(memory[p]) /\ Len(memory[p]) <= Len(memory'[p])
      BY <1>1, <2>1, PageInMemory DEF OldPage, Extended
    <3> QED
      BY <1>4, <1>5, <2>1, <3>1 DEF OldPage
  <2>2. CASE Fresh(c, p)
    BY <1>4, <2>2 DEF Fresh
  <2> QED
    BY <1>6, <1>7, <2>1, <2>2
<1>8. TypeOK'
  <2>1. \A c \in Consumers, p \in Providers :
          phase'[c] \in {"linking", "linked"} /\ Specs[c][p] # {} => scratchBase'[c][p] + PageSize <= Len(memory'[p])
    BY <1>7 DEF HasPage
  <2>2. memory' \in [Providers -> Seq(Own .. MaxCalls)]
    BY DEF Extended
  <2>3. /\ phase' \in [Consumers -> {"unlinked", "linking", "linked", "failed"}]
        /\ scratchBase' \in [Consumers -> [Providers -> Nat]]
    BY DEF Relinked
  <2> QED
    BY <1>1, <1>2, <2>1, <2>2, <2>3 DEF TypeOK
\* An old page has its old bytes.
<1>9. ASSUME NEW c \in Consumers, NEW p \in Providers, OldPage(c, p)
      PROVE Page(c, p)' = Page(c, p) /\ \A x \in Page(c, p) : memory'[p][x] = memory[p][x]
  <2>1. Page(c, p) \subseteq 1 .. Len(memory[p])
    BY <1>1, <1>9, PageInMemory DEF OldPage
  <2> QED
    BY <1>9, <2>1 DEF OldPage, Page, Extended
<1>10. PagesOwned'
  <2> SUFFICES ASSUME NEW c \in Consumers, NEW p \in Providers, HasPage(c, p)', NEW x \in Page(c, p)', memory'[p][x] # 0
               PROVE memory'[p][x] \in DOMAIN callers /\ callers[memory'[p][x]] = c
    BY <1>2 DEF PagesOwned
  <2>1. CASE OldPage(c, p)
    BY <1>1, <1>9, <2>1 DEF PagesOwned, OldPage
  <2>2. CASE Fresh(c, p)
    <3>1. x \in Len(memory[p]) + 1 .. Len(memory'[p])
      BY <2>2 DEF Fresh, Page
    <3> QED
      BY <2>2, <3>1 DEF Fresh
  <2> QED
    BY <1>6, <2>1, <2>2
<1>11. PagesApart'
  <2> SUFFICES ASSUME NEW c \in Consumers, NEW d \in Consumers, NEW p \in Providers, c # d, HasPage(c, p)', HasPage(d, p)'
               PROVE Page(c, p)' \cap Page(d, p)' = {}
    BY Zenon DEF PagesApart
  \* A fresh page lies behind an old one.
  <2>1. ASSUME NEW a \in Consumers, NEW b \in Consumers, OldPage(a, p), Fresh(b, p)
        PROVE Page(a, p)' \cap Page(b, p)' = {}
    <3>1. Page(a, p)' \subseteq 1 .. Len(memory[p])
      BY <1>1, <1>9, <2>1, PageInMemory DEF OldPage
    <3>2. \A x \in Page(b, p)' : x > Len(memory[p])
      BY <1>4, <2>1 DEF Fresh, Page
    <3> QED
      BY <1>4, <3>1, <3>2
  <2>2. CASE OldPage(c, p) /\ OldPage(d, p)
    BY <1>1, <1>9, <2>2 DEF PagesApart, OldPage
  <2>3. CASE ~ OldPage(c, p) /\ ~ OldPage(d, p)
    BY <1>6, <2>3 DEF Relinked
  <2> QED
    BY <1>6, <2>1, <2>2, <2>3
\* The frames and their buffers stay where they are.
<1>12. ASSUME NEW k \in DOMAIN stack
       PROVE /\ stack[k] \in Frames /\ Framed(stack[k])
             /\ phase'[stack[k].consumer] = "linked" /\ scratchBase'[stack[k].consumer] = scratchBase[stack[k].consumer]
  <2>1. stack[k] \in Frames /\ Framed(stack[k])
    BY <1>1, ElementOfSeq DEF StackSound
  <2>2. stack[k].consumer \in Consumers
    BY <2>1 DEF Frames
  <2> QED
    BY <2>1, <2>2 DEF Relinked, Framed
<1>13. StackSound'
  <2>1. \A k \in DOMAIN stack : Framed(stack[k])'
    BY <1>2, <1>12 DEF Framed
  <2> QED
    BY <1>1, <1>2, <2>1 DEF StackSound
<1>14. GetsCounted' /\ ActiveOnlyInCall' /\ OnlyOwnBytes'
  BY <1>1, <1>2 DEF GetsCounted, ActiveOnlyInCall, OnlyOwnBytes, Relinked, Apart
<1>15. ArgumentsStay'
  <2> SUFFICES ASSUME NEW k \in DOMAIN stack, NEW j \in 1 .. Len(Links[stack[k].id].copyIn),
                      NEW x \in Buffer(stack[k].consumer, stack[k].provider, Links[stack[k].id], stack[k].args, j)'
               PROVE x \in DOMAIN memory'[stack[k].provider] /\ memory'[stack[k].provider][x] = stack[k].call
    BY <1>2 DEF ArgumentsStay
  <2> DEFINE p == stack[k].provider
  <2>1. x \in Buffer(stack[k].consumer, stack[k].provider, Links[stack[k].id], stack[k].args, j)
    BY <1>2, <1>12 DEF Buffer, Bytes
  <2>2. x \in DOMAIN memory[p] /\ memory[p][x] = stack[k].call
    BY <1>1, <2>1 DEF ArgumentsStay
  <2>3. p \in Providers
    BY <1>12 DEF Frames
  <2> HIDE DEF p
  <2>4. x \in 1 .. Len(memory[p]) /\ memory'[p][x] = memory[p][x] /\ Len(memory[p]) <= Len(memory'[p])
    BY <1>4, <2>2, <2>3 DEF Extended
  <2>5. x \in 1 .. Len(memory'[p])
    BY <1>4, <2>3, <2>4
  <2> QED
    BY <1>4, <2>2, <2>3, <2>4, <2>5 DEF p
<1> QED
  BY <1>8, <1>10, <1>11, <1>13, <1>14, <1>15 DEF IInv, BytesApart

LEMMA ProvidersInstantiate ==
  ASSUME IInv, NEW p \in Providers, ProviderInstantiates(p)
  PROVE IInv'
<1>1. TypeOK /\ GetsCounted
  BY DEF IInv
<1> DEFINE S == Own .. MaxCalls
           new == [k \in 1 .. InitialPages * PageSize |-> Own]
<1>2. new \in Seq(S)
  <2>1. InitialPages * PageSize \in Nat /\ Own \in S
    BY LinkerAssumption DEF Own
  <2> HIDE DEF S
  <2> QED
    BY <2>1
<1>3. /\ memory' = [memory EXCEPT ![p] = new] /\ memory[p] = <<>>
      /\ UNCHANGED linkVars /\ UNCHANGED callVars
  BY DEF ProviderInstantiates
<1> HIDE DEF new
<1>4. Extended
  <2>1. memory' \in [Providers -> Seq(S)]
    BY <1>1, <1>2, <1>3 DEF TypeOK
  <2>2. ASSUME NEW q \in Providers
        PROVE Len(memory[q]) <= Len(memory'[q]) /\ \A x \in 1 .. Len(memory[q]) : memory'[q][x] = memory[q][x]
    <3>1. Len(memory[q]) \in Nat /\ Len(memory'[q]) \in Nat
      <4>1. memory[q] \in Seq(S) /\ memory'[q] \in Seq(S)
        BY <1>1, <2>1 DEF TypeOK
      <4> HIDE DEF S
      <4> QED
        BY <4>1
    <3>2. CASE q = p
      BY <1>3, <3>1, <3>2
    <3>3. CASE q # p
      BY <1>1, <1>3, <3>1, <3>3 DEF TypeOK
    <3> QED
      BY <3>2, <3>3
  <2> QED
    BY <2>1, <2>2 DEF Extended
<1>5. Relinked
  BY <1>1, <1>3 DEF TypeOK, GetsCounted, Relinked, OldPage, HasPage, linkVars
<1> QED
  BY <1>3, <1>4, <1>5, LinkSteps

LEMMA LinksBegin ==
  ASSUME IInv, NEW c \in Consumers, LinkBegins(c)
  PROVE IInv'
<1> DEFINE S == ProvidersOf[c]
<1>1. TypeOK /\ GetsCounted
  BY DEF IInv
<1>2. /\ phase[c] = "unlinked" /\ Apart(c) /\ Grows(S) /\ UNCHANGED callVars
      /\ phase' = [phase EXCEPT ![c] = "linking"]
      /\ scratchBase' = [scratchBase EXCEPT ![c] = [p \in Providers |-> IF p \in S THEN Len(memory[p]) ELSE 0]]
  BY DEF LinkBegins, BaseOf
<1>3. S \in SUBSET Providers /\ \A p \in Providers : Specs[c][p] # {} => p \in S
  BY LinkerAssumption
<1> HIDE DEF S
<1>4. /\ Extended
      /\ \A p \in S : /\ Len(memory'[p]) = Len(memory[p]) + PageSize
                      /\ \A x \in Len(memory[p]) + 1 .. Len(memory'[p]) : memory'[p][x] = 0
  BY <1>1, <1>2, <1>3, GrowsExtends
<1>5. /\ phase' \in [Consumers -> {"unlinked", "linking", "linked", "failed"}]
      /\ phase'[c] = "linking" /\ \A d \in Consumers : d # c => phase'[d] = phase[d]
  BY <1>1, <1>2 DEF TypeOK
<1>6. /\ scratchBase' \in [Consumers -> [Providers -> Nat]]
      /\ \A d \in Consumers : d # c => scratchBase'[d] = scratchBase[d]
      /\ \A p \in S : scratchBase'[c][p] = Len(memory[p])
  <2>1. \A p \in Providers : Len(memory[p]) \in Nat
    <3>1. \A p \in Providers : memory[p] \in Seq(Own .. MaxCalls)
      BY <1>1 DEF TypeOK
    <3> QED
      BY <3>1
  <2>2. scratchBase \in [Consumers -> [Providers -> Nat]]
    BY <1>1 DEF TypeOK
  <2>3. [p \in Providers |-> IF p \in S THEN Len(memory[p]) ELSE 0] \in [Providers -> Nat]
    BY <2>1
  <2> QED
    BY <1>2, <1>3, <2>2, <2>3
<1>7. \A d \in Consumers, p \in Providers : HasPage(d, p)' /\ d # c => OldPage(d, p) /\ HasPage(d, p)
  BY <1>5, <1>6 DEF HasPage, OldPage
<1>8. \A p \in Providers : HasPage(c, p)' => Fresh(c, p)
  BY <1>3, <1>4, <1>6 DEF HasPage, Fresh
<1>9. \A p \in Providers : ~ HasPage(c, p)
  BY <1>2 DEF HasPage
<1>10. \A d \in Consumers : phase'[d] \in {"linking", "linked"} => Apart(d)
  BY <1>1, <1>2, <1>5 DEF GetsCounted
<1>11. \A d \in Consumers : phase[d] = "linked" => d # c
  BY <1>2
<1>12. Relinked
  BY ONLY <1>5, <1>6, <1>7, <1>8, <1>9, <1>10, <1>11 DEF Relinked
<1> QED
  BY <1>2, <1>4, <1>12, LinkSteps

LEMMA LinksFail ==
  ASSUME IInv, NEW c \in Consumers, LinkFails(c)
  PROVE IInv'
<1>1. TypeOK /\ GetsCounted
  BY DEF IInv
<1>2. PICK S \in SUBSET ProvidersOf[c] : Grows(S)
  BY DEF LinkFails
<1>3. Extended
  BY <1>1, <1>2, GrowsExtends, LinkerAssumption
<1>4. /\ phase[c] = "unlinked" /\ phase' = [phase EXCEPT ![c] = "failed"]
      /\ scratchBase' = scratchBase /\ UNCHANGED callVars
  BY DEF LinkFails
<1>5. Relinked
  BY <1>1, <1>4 DEF TypeOK, GetsCounted, Relinked, OldPage, HasPage
<1> QED
  BY <1>3, <1>4, <1>5, LinkSteps

LEMMA LinksEnd ==
  ASSUME IInv, NEW c \in Consumers, LinkEnds(c)
  PROVE IInv'
<1>1. TypeOK /\ GetsCounted
  BY DEF IInv
<1>2. PICK to \in {"linked", "failed"} : phase' = [phase EXCEPT ![c] = to]
  BY DEF LinkEnds
<1>3. phase[c] = "linking" /\ memory' = memory /\ scratchBase' = scratchBase /\ UNCHANGED callVars
  BY DEF LinkEnds
<1>4. Extended
  <2>1. \A p \in Providers : memory[p] \in Seq(Own .. MaxCalls)
    BY <1>1 DEF TypeOK
  <2>2. \A p \in Providers : Len(memory[p]) <= Len(memory[p])
    BY <2>1
  <2> QED
    BY <1>1, <1>3, <2>2 DEF TypeOK, Extended
<1>5. Relinked
  BY <1>1, <1>2, <1>3 DEF TypeOK, GetsCounted, Relinked, OldPage, HasPage
<1> QED
  BY <1>3, <1>4, <1>5, LinkSteps

-----------------------------------------------------------------------------
(* Calls.                                                                  *)

LEMMA FrameFits ==
  ASSUME TypeOK, NEW f \in Frames, Framed(f)
  PROVE /\ f.consumer \in Consumers /\ f.provider \in Providers /\ f.id \in DOMAIN Links
        /\ HasPage(f.consumer, f.provider) /\ scratchBase[f.consumer][f.provider] \in Nat
        /\ Fitting(Links[f.id], f.args)
        /\ f.call \in 1 .. MaxCalls
<1>1. f.consumer \in Consumers /\ f.provider \in Providers /\ f.id \in DOMAIN Links
  BY DEF Frames
<1>2. HasPage(f.consumer, f.provider)
  BY DEF HasPage, Framed
<1>3. f.args \in [ToSet(Pointers(Links[f.id])) -> Nat]
  BY LinkerAssumption DEF Framed, Arguments
<1>4. Fitting(Links[f.id], f.args)
  BY <1>1, <1>3, LinksAreLinks DEF Fitting, Framed
<1>5. f.call \in 1 .. MaxCalls
  <2>1. callers \in Seq(Consumers) /\ Len(callers) <= MaxCalls /\ MaxCalls \in Nat
    BY LinkerAssumption DEF TypeOK
  <2>2. f.call \in 1 .. Len(callers) /\ Len(callers) \in Nat
    BY <2>1 DEF Framed
  <2> QED
    BY <2>1, <2>2
<1>6. scratchBase[f.consumer][f.provider] \in Nat
  BY <1>1 DEF TypeOK
<1> QED
  BY <1>1, <1>2, <1>4, <1>5, <1>6

\* Call n of consumer c writes into its own page of provider p.
WritesOwnPage(c, p, W, n) ==
  /\ c \in Consumers /\ p \in Providers /\ HasPage(c, p) /\ W \subseteq Page(c, p)
  /\ memory' = Written(p, W, n) /\ UNCHANGED linkVars
  /\ callers' \in Seq(Consumers) /\ Len(callers') <= MaxCalls
  /\ \A k \in DOMAIN callers : k \in DOMAIN callers' /\ callers'[k] = callers[k]
  /\ n \in 1 .. MaxCalls /\ n \in DOMAIN callers' /\ callers'[n] = c

LEMMA PageWritten ==
  ASSUME TypeOK, PagesApart, PagesOwned, NEW c, NEW p, NEW W, NEW n, WritesOwnPage(c, p, W, n)
  PROVE /\ memory' \in [Providers -> Seq(Own .. MaxCalls)]
        /\ \A d \in Consumers, q \in Providers :
             phase'[d] \in {"linking", "linked"} /\ Specs[d][q] # {} => scratchBase'[d][q] + PageSize <= Len(memory'[q])
        /\ \A q \in Providers : DOMAIN memory'[q] = DOMAIN memory[q]
        /\ \A x \in W : x \in DOMAIN memory[p] /\ memory'[p][x] = n
        /\ \A x \in DOMAIN memory[p] : x \notin W => memory'[p][x] = memory[p][x]
        /\ \A d \in Consumers, q \in Providers : HasPage(d, q) /\ (d # c \/ q # p) =>
             \A x \in Page(d, q) : memory'[q][x] = memory[q][x]
        /\ PagesApart' /\ PagesOwned'
<1>1. /\ c \in Consumers /\ p \in Providers /\ HasPage(c, p) /\ W \subseteq Page(c, p) /\ memory' = Written(p, W, n)
      /\ phase' = phase /\ scratchBase' = scratchBase
  BY DEF WritesOwnPage, linkVars
<1>2. n \in Own .. MaxCalls
  BY LinkerAssumption DEF WritesOwnPage, Own
<1>3. /\ memory' \in [Providers -> Seq(Own .. MaxCalls)]
      /\ \A q \in Providers : Len(memory'[q]) = Len(memory[q]) /\ DOMAIN memory'[q] = DOMAIN memory[q]
      /\ \A q \in Providers : q # p => memory'[q] = memory[q]
      /\ \A x \in DOMAIN memory[p] : memory'[p][x] = IF x \in W THEN n ELSE memory[p][x]
  BY <1>1, <1>2, Wrote
<1>4. \A d \in Consumers, q \in Providers : HasPage(d, q) => Page(d, q) \subseteq DOMAIN memory[q]
  BY PageInMemory
<1>5. \A x \in W : x \in DOMAIN memory[p] /\ memory'[p][x] = n
  BY <1>1, <1>3, <1>4
<1>6. ASSUME NEW d \in Consumers, NEW q \in Providers, HasPage(d, q), d # c \/ q # p, NEW x \in Page(d, q)
      PROVE memory'[q][x] = memory[q][x]
  <2>1. CASE q # p
    BY <1>3, <2>1
  <2>2. CASE q = p
    <3>1. Page(c, p) \cap Page(d, p) = {}
      BY <1>1, <1>6, <2>2 DEF PagesApart
    <3>2. x \notin W /\ x \in DOMAIN memory[p]
      BY <1>1, <1>4, <1>6, <2>2, <3>1
    <3> QED
      BY <1>3, <2>2, <3>2
  <2> QED
    BY <2>1, <2>2
<1>7. \A d \in Consumers, q \in Providers : (HasPage(d, q)' <=> HasPage(d, q)) /\ Page(d, q)' = Page(d, q)
  BY <1>1 DEF HasPage, Page
<1>8. PagesApart'
  BY <1>7 DEF PagesApart
<1>9. PagesOwned'
  <2> SUFFICES ASSUME NEW d \in Consumers, NEW q \in Providers, HasPage(d, q), NEW x \in Page(d, q), memory'[q][x] # 0
               PROVE memory'[q][x] \in DOMAIN callers' /\ callers'[memory'[q][x]] = d
    BY <1>7 DEF PagesOwned
  <2>1. CASE memory'[q][x] = memory[q][x]
    BY <2>1 DEF PagesOwned, WritesOwnPage
  <2>2. CASE memory'[q][x] # memory[q][x]
    <3>1. d = c /\ q = p
      BY <1>6, <2>2
    <3>2. memory'[q][x] = n
      BY <1>3, <1>4, <2>2, <3>1
    <3> QED
      BY <3>1, <3>2 DEF WritesOwnPage
  <2> QED
    BY <2>1, <2>2
<1>10. \A d \in Consumers, q \in Providers :
         phase'[d] \in {"linking", "linked"} /\ Specs[d][q] # {} => scratchBase'[d][q] + PageSize <= Len(memory'[q])
  BY <1>1, <1>3 DEF TypeOK
<1> QED
  BY <1>3, <1>5, <1>6, <1>8, <1>9, <1>10

\* A frame stands while its page and its call do.
LEMMA SameFrames ==
  ASSUME UNCHANGED linkVars, \A k \in DOMAIN callers : k \in DOMAIN callers' /\ callers'[k] = callers[k],
         NEW f, Framed(f)
  PROVE Framed(f)'
BY DEF linkVars, Framed

LEMMA FrameBuffers ==
  ASSUME TypeOK, NEW f \in Frames, Framed(f), NEW k \in 1 .. Len(Pointers(Links[f.id]))
  PROVE Buffer(f.consumer, f.provider, Links[f.id], f.args, k) \subseteq Page(f.consumer, f.provider)
<1> DEFINE link == Links[f.id]
           n == f.args[Pointers(link)[k]]
<1>1. Fitting(link, f.args) /\ scratchBase[f.consumer][f.provider] \in Nat
  BY FrameFits
<1>2. n \in Nat /\ n <= n
  BY <1>1, Layout
<1> HIDE DEF n, link
<1>3. Bytes(f.consumer, f.provider, link, f.args, k, n) \subseteq Page(f.consumer, f.provider)
  BY <1>1, <1>2, BufferInPage DEF n, link
<1> QED
  BY <1>3 DEF Buffer, n, link

\* The copied buffers are places of arguments.
LEMMA CopiedIn ==
  ASSUME NEW link, IsLink(link), NEW k \in 1 .. Len(link.copyIn)
  PROVE k \in 1 .. Len(Pointers(link))
<1>1. /\ Len(link.copyIn) \in Nat /\ Len(link.copyOut) \in Nat
      /\ Len(Pointers(link)) = Len(link.copyIn) + Len(link.copyOut)
  BY PointersAre
<1>2. \A a, b \in Nat : \A i \in 1 .. a : i \in 1 .. a + b
  OBVIOUS
<1> QED
  BY ONLY <1>1, <1>2, k \in 1 .. Len(link.copyIn)

LEMMA CallsBegin ==
  ASSUME IInv, NEW c \in Consumers, NEW p \in Providers, NEW id \in Specs[c][p], CallBegins(c, p, id)
  PROVE IInv'
<1> DEFINE link == Links[id]
<1>0. PICK n : n = Len(callers) + 1
  OBVIOUS
<1>1. /\ TypeOK /\ PagesApart /\ PagesOwned /\ StackSound /\ GetsCounted /\ ActiveOnlyInCall
      /\ ArgumentsStay /\ OnlyOwnBytes
  BY DEF IInv, BytesApart
<1>2. /\ phase[c] = "linked"
      /\ id = "http_get" => httpGets[c] < maxHttpGets
      /\ ~ active[c][p] /\ callers' = Append(callers, c) /\ Len(callers) < MaxCalls
      /\ UNCHANGED linkVars /\ httpGets' = httpGets /\ received' = received /\ getsDone' = getsDone
  BY DEF CallBegins, Busy
<1>3. PICK args \in Arguments(id), copied \in 0 .. Len(link.copyIn) :
        /\ Fits(link, args)
        /\ memory' = Written(p, UNION {Buffer(c, p, link, args, k) : k \in 1 .. copied}, n)
        /\ IF copied = Len(link.copyIn)
             THEN /\ active' = [active EXCEPT ![c][p] = TRUE]
                  /\ stack' = Append(stack, [consumer |-> c, provider |-> p, id |-> id, args |-> args, call |-> n])
             ELSE /\ active' = [active EXCEPT ![c][p] = FALSE]
                  /\ stack' = stack
  BY <1>0 DEF CallBegins, Arguments, ActiveAfter
<1>20. PICK frame : frame = [consumer |-> c, provider |-> p, id |-> id, args |-> args, call |-> n]
  OBVIOUS
<1> DEFINE W == UNION {Buffer(c, p, link, args, k) : k \in 1 .. copied}
<1>4. id \in DOMAIN Links /\ IsLink(link)
  BY LinkerAssumption, LinksAreLinks
<1> HIDE DEF link
<1>5. /\ callers \in Seq(Consumers) /\ callers' \in Seq(Consumers) /\ Len(callers) \in Nat
      /\ DOMAIN callers = 1 .. Len(callers) /\ DOMAIN callers' = 1 .. n
      /\ \A k \in DOMAIN callers : callers'[k] = callers[k]
      /\ callers'[n] = c /\ Len(callers') = n /\ n <= MaxCalls /\ n \in 1 .. MaxCalls
  <2>1. callers \in Seq(Consumers) /\ Len(callers) \in Nat /\ DOMAIN callers = 1 .. Len(callers)
    BY <1>1 DEF TypeOK
  <2>2. /\ callers' \in Seq(Consumers) /\ Len(callers') = n /\ callers'[n] = c
        /\ \A k \in 1 .. Len(callers) : callers'[k] = callers[k]
    BY <1>0, <1>2, <2>1, AppendProperties
  <2>3. DOMAIN callers' = 1 .. n
    BY <2>2
  <2> QED
    BY <1>0, <1>2, <2>1, <2>2, <2>3, LinkerAssumption
<1>6. \A k \in DOMAIN callers : k \in DOMAIN callers' /\ callers'[k] = callers[k]
  BY <1>0, <1>5
<1>7. Fitting(link, args) /\ scratchBase[c][p] \in Nat /\ HasPage(c, p)
  <2>1. args \in [ToSet(Pointers(link)) -> Nat]
    BY LinkerAssumption DEF Arguments, link
  <2>2. Fits(link, args)
    BY <1>3
  <2>3. scratchBase[c][p] \in Nat
    BY <1>1 DEF TypeOK
  <2>4. HasPage(c, p)
    BY <1>2 DEF HasPage
  <2> QED
    BY <1>4, <2>1, <2>2, <2>3, <2>4 DEF Fitting
<1>8. W \subseteq Page(c, p)
  <2>1. ASSUME NEW k \in 1 .. copied PROVE Buffer(c, p, link, args, k) \subseteq Page(c, p)
    <3>1. k \in 1 .. Len(link.copyIn)
      BY <1>4, PointersAre
    <3>2. k \in 1 .. Len(Pointers(link))
      BY <1>4, <3>1, CopiedIn
    <3>3. args[Pointers(link)[k]] \in Nat
      BY <1>7, <3>2, Layout
    <3>4. Bytes(c, p, link, args, k, args[Pointers(link)[k]]) \subseteq Page(c, p)
      BY <1>7, <3>2, <3>3, BufferInPage
    <3> QED
      BY <3>4 DEF Buffer
  <2> QED
    BY <2>1
<1>9. WritesOwnPage(c, p, W, n)
  BY <1>2, <1>3, <1>5, <1>7, <1>8 DEF WritesOwnPage
<1> HIDE DEF W
<1>10. /\ memory' \in [Providers -> Seq(Own .. MaxCalls)]
       /\ \A d \in Consumers, q \in Providers :
            phase'[d] \in {"linking", "linked"} /\ Specs[d][q] # {} => scratchBase'[d][q] + PageSize <= Len(memory'[q])
       /\ \A q \in Providers : DOMAIN memory'[q] = DOMAIN memory[q]
       /\ \A x \in W : x \in DOMAIN memory[p] /\ memory'[p][x] = n
       /\ \A d \in Consumers, q \in Providers : HasPage(d, q) /\ (d # c \/ q # p) =>
            \A x \in Page(d, q) : memory'[q][x] = memory[q][x]
       /\ PagesApart' /\ PagesOwned'
  BY <1>1, <1>9, PageWritten
<1>11. \A k \in DOMAIN stack : stack[k] \in Frames /\ Framed(stack[k]) /\ (stack[k].consumer # c \/ stack[k].provider # p)
  <2>1. \A k \in DOMAIN stack : stack[k] \in Frames
    BY <1>1, ElementOfSeq DEF StackSound
  <2> QED
    BY <1>1, <1>2, <2>1 DEF StackSound, ActiveOnlyInCall
<1>12. \A f : Framed(f) => Framed(f)'
  BY <1>2, <1>6, SameFrames
<1>13. frame \in Frames /\ Framed(frame)'
  <2>1. frame.consumer = c /\ frame.provider = p /\ frame.id = id /\ frame.args = args /\ frame.call = n
    BY <1>20
  <2>2. frame \in Frames
    <3>1. n \in Nat
      BY <1>5
    <3>2. args \in UNION {Arguments(i) : i \in DOMAIN Links}
      BY <1>3, <1>4
    <3> QED
      BY <1>4, <1>20, <3>1, <3>2 DEF Frames
  <2>3. n \in DOMAIN callers' /\ callers'[n] = c /\ phase'[c] = "linked"
    <3>1. n \in DOMAIN callers' /\ callers'[n] = c
      BY <1>9 DEF WritesOwnPage
    <3> QED
      BY <1>2, <3>1 DEF linkVars
  <2>4. args \in Arguments(id) /\ Fits(Links[id], args)
    BY <1>3 DEF link
  <2> QED
    BY <2>1, <2>2, <2>3, <2>4 DEF Framed
\* The arguments of the calls under way are in other pages.
<1>14. ASSUME NEW k \in DOMAIN stack, NEW j \in 1 .. Len(Links[stack[k].id].copyIn),
              NEW x \in Buffer(stack[k].consumer, stack[k].provider, Links[stack[k].id], stack[k].args, j)
       PROVE x \in DOMAIN memory'[stack[k].provider] /\ memory'[stack[k].provider][x] = stack[k].call
  <2> DEFINE f == stack[k]
  <2>1. f \in Frames /\ Framed(f) /\ (f.consumer # c \/ f.provider # p)
    BY <1>11
  <2>2. x \in DOMAIN memory[f.provider] /\ memory[f.provider][x] = f.call
    BY <1>1 DEF ArgumentsStay
  <2> HIDE DEF f
  <2>3. f.consumer \in Consumers /\ f.provider \in Providers /\ HasPage(f.consumer, f.provider) /\ f.id \in DOMAIN Links
    BY <1>1, <2>1, FrameFits
  <2>4. j \in 1 .. Len(Pointers(Links[f.id]))
    BY <2>3, LinksAreLinks, CopiedIn DEF f
  <2>5. x \in Page(f.consumer, f.provider)
    <3>1. x \in Buffer(f.consumer, f.provider, Links[f.id], f.args, j)
      BY DEF f
    <3> QED
      BY <1>1, <2>1, <2>4, <3>1, FrameBuffers
  <2>6. memory'[f.provider][x] = memory[f.provider][x] /\ DOMAIN memory'[f.provider] = DOMAIN memory[f.provider]
    BY <1>10, <2>1, <2>3, <2>5
  <2> QED
    BY <2>2, <2>6 DEF f
<1>15. OnlyOwnBytes' /\ (\A d \in Consumers : phase'[d] \in {"linking", "linked"} => Apart(d))
  BY <1>1, <1>2, <1>6 DEF OnlyOwnBytes, GetsCounted, linkVars
<1>16. stack \in Seq(Frames) /\ DOMAIN stack = 1 .. Len(stack) /\ Len(stack) \in Nat
  BY <1>1 DEF StackSound
<1>17. /\ phase' = phase /\ scratchBase' = scratchBase /\ active \in [Consumers -> [Providers -> BOOLEAN]]
       /\ \A k \in DOMAIN stack : /\ stack[k].consumer \in Consumers /\ stack[k].provider \in Providers
                                  /\ stack[k].call \in DOMAIN callers'
                                  /\ stack[k].id \in Specs[stack[k].consumer][stack[k].provider]
  BY <1>1, <1>2, <1>6 DEF TypeOK, linkVars
\* A copy failed and the provider was not called.
<1>18. CASE copied # Len(link.copyIn)
  <2>1. active' = [active EXCEPT ![c][p] = FALSE] /\ stack' = stack
    BY <1>3, <1>18
  <2>2. active' = active
    BY <1>2, <1>17, <2>1
  <2>3. TypeOK'
    BY <1>1, <1>2, <1>5, <1>10, <1>17, <2>1, <2>2 DEF TypeOK
  <2>4. StackSound'
    <3>1. \A k \in DOMAIN stack' : Framed(stack[k])'
      BY <1>11, <1>12, <2>1
    <3> QED
      BY <1>1, <2>1, <3>1 DEF StackSound
  <2>5. GetsCounted'
    BY <1>1, <1>2, <1>15, <2>1 DEF GetsCounted
  <2>6. ActiveOnlyInCall'
    BY <1>1, <2>1, <2>2 DEF ActiveOnlyInCall
  <2>7. ArgumentsStay'
    <3> SUFFICES ASSUME NEW k \in DOMAIN stack, NEW j \in 1 .. Len(Links[stack[k].id].copyIn),
                        NEW x \in Buffer(stack[k].consumer, stack[k].provider, Links[stack[k].id], stack[k].args, j)'
                 PROVE x \in DOMAIN memory'[stack[k].provider] /\ memory'[stack[k].provider][x] = stack[k].call
      BY <2>1 DEF ArgumentsStay
    <3>1. x \in Buffer(stack[k].consumer, stack[k].provider, Links[stack[k].id], stack[k].args, j)
      BY <1>17, <2>1 DEF Buffer, Bytes
    <3> QED
      BY <1>14, <3>1
  <2> QED
    BY <1>10, <1>15, <2>3, <2>4, <2>5, <2>6, <2>7 DEF IInv, BytesApart
\* The provider is called.
<1>19. CASE copied = Len(link.copyIn)
  <2> DEFINE m == Len(stack) + 1
  <2>1. active' = [active EXCEPT ![c][p] = TRUE] /\ stack' = Append(stack, frame)
    BY <1>3, <1>19, <1>20
  <2>2. /\ stack' \in Seq(Frames) /\ DOMAIN stack' = 1 .. m /\ m \notin DOMAIN stack
        /\ stack'[m] = frame /\ \A k \in DOMAIN stack : k \in DOMAIN stack' /\ stack'[k] = stack[k]
        /\ \A k \in DOMAIN stack' : k = m \/ k \in DOMAIN stack
    <3>1. /\ stack' \in Seq(Frames) /\ Len(stack') = m /\ stack'[m] = frame
          /\ \A k \in 1 .. Len(stack) : stack'[k] = stack[k]
      BY <1>13, <1>16, <2>1, AppendProperties
    <3>2. DOMAIN stack' = 1 .. m
      BY <3>1
    <3> QED
      BY <1>16, <3>1, <3>2
  <2> HIDE DEF m
  <2>3. frame.consumer = c /\ frame.provider = p /\ frame.id = id /\ frame.args = args /\ frame.call = n
    BY <1>20
  <2>4. /\ active' \in [Consumers -> [Providers -> BOOLEAN]] /\ active'[c][p] = TRUE
        /\ \A d \in Consumers, q \in Providers : d # c \/ q # p => active'[d][q] = active[d][q]
    BY <1>17, <2>1
  <2>5. TypeOK'
    <3>1. n \in DOMAIN callers' /\ callers' \in Seq(Consumers) /\ Len(callers') <= MaxCalls
      BY <1>9 DEF WritesOwnPage
    <3>2. received' \in [Consumers -> SUBSET (Own .. MaxCalls)] /\ phase' \in [Consumers -> {"unlinked", "linking", "linked", "failed"}]
          /\ scratchBase' \in [Consumers -> [Providers -> Nat]]
          /\ httpGets' \in [Consumers -> Nat] /\ getsDone' \in [Consumers -> Nat]
      BY <1>1, <1>2, <1>17 DEF TypeOK
    <3>3. \A k \in DOMAIN stack' :
            /\ stack'[k].consumer \in Consumers /\ stack'[k].provider \in Providers /\ stack'[k].call \in DOMAIN callers'
            /\ stack'[k].id \in Specs[stack'[k].consumer][stack'[k].provider]
      BY <1>17, <2>2, <2>3, <3>1
    <3> QED
      BY <1>10, <2>4, <3>1, <3>2, <3>3 DEF TypeOK
  <2>6. StackSound'
    <3>1. \A k \in DOMAIN stack' : Framed(stack[k])'
      BY <1>11, <1>12, <1>13, <2>2
    <3>2. \A k, i \in DOMAIN stack' :
            stack'[k].consumer = stack'[i].consumer /\ stack'[k].provider = stack'[i].provider => k = i
      BY <1>1, <1>11, <2>2, <2>3 DEF StackSound
    <3> QED
      BY <2>2, <3>1, <3>2 DEF StackSound
  <2>7. GetsCounted'
    BY <1>1, <1>2, <1>15, <2>2, <2>3 DEF GetsCounted
  <2>8. ActiveOnlyInCall'
    <3> SUFFICES ASSUME NEW d \in Consumers, NEW q \in Providers
                 PROVE active'[d][q] <=> \E k \in DOMAIN stack' : stack'[k].consumer = d /\ stack'[k].provider = q
      BY DEF ActiveOnlyInCall
    <3>1. CASE d = c /\ q = p
      <4>1. m \in DOMAIN stack'
        BY <1>16, <2>2 DEF m
      <4> QED
        BY <2>2, <2>3, <2>4, <3>1, <4>1
    <3>2. CASE d # c \/ q # p
      <4>1. active[d][q] <=> \E k \in DOMAIN stack : stack[k].consumer = d /\ stack[k].provider = q
        BY <1>1 DEF ActiveOnlyInCall
      <4>2. active'[d][q] = active[d][q]
        BY <2>4, <3>2
      <4>3. ~ (stack'[m].consumer = d /\ stack'[m].provider = q)
        BY <2>2, <2>3, <3>2
      <4> QED
        BY <2>2, <4>1, <4>2, <4>3
    <3> QED
      BY <3>1, <3>2
  <2>9. ArgumentsStay'
    <3>2. ASSUME NEW j \in 1 .. Len(link.copyIn), NEW x \in Buffer(c, p, link, args, j)
          PROVE x \in DOMAIN memory'[p] /\ memory'[p][x] = n
      <4>1. x \in W
        BY <1>19 DEF W
      <4> QED
        BY <1>10, <4>1
    <3> SUFFICES ASSUME NEW k \in DOMAIN stack', NEW j \in 1 .. Len(Links[stack'[k].id].copyIn),
                        NEW x \in Buffer(stack[k].consumer, stack[k].provider, Links[stack[k].id], stack[k].args, j)'
                 PROVE x \in DOMAIN memory'[stack'[k].provider] /\ memory'[stack'[k].provider][x] = stack'[k].call
      BY DEF ArgumentsStay
    <3>3. x \in Buffer(stack'[k].consumer, stack'[k].provider, Links[stack'[k].id], stack'[k].args, j)
      BY <1>17 DEF Buffer, Bytes
    <3>4. CASE k \in DOMAIN stack
      <4>1. stack'[k] = stack[k]
        BY <2>2, <3>4
      <4>2. j \in 1 .. Len(Links[stack[k].id].copyIn)
        BY ONLY <4>1, j \in 1 .. Len(Links[stack'[k].id].copyIn)
      <4>3. x \in Buffer(stack[k].consumer, stack[k].provider, Links[stack[k].id], stack[k].args, j)
        BY ONLY <3>3, <4>1
      <4>4. x \in DOMAIN memory'[stack[k].provider] /\ memory'[stack[k].provider][x] = stack[k].call
        BY <1>14, <3>4, <4>2, <4>3
      <4> QED
        BY ONLY <4>1, <4>4
    <3>5. CASE k = m
      BY <2>2, <2>3, <3>2, <3>3, <3>5 DEF link
    <3> QED
      BY <2>2, <3>4, <3>5
  <2> QED
    BY <1>10, <1>15, <2>5, <2>6, <2>7, <2>8, <2>9 DEF IInv, BytesApart
<1> QED
  BY <1>18, <1>19

\* The call under way.
LEMMA TopFrame ==
  ASSUME StackSound, stack # <<>>
  PROVE /\ Running \in Frames /\ Framed(Running) /\ Len(stack) \in DOMAIN stack /\ Running = stack[Len(stack)]
        /\ DOMAIN stack = 1 .. Len(stack) /\ Len(stack) \in Nat
        /\ \A k \in DOMAIN stack : k # Len(stack) =>
             stack[k].consumer # Running.consumer \/ stack[k].provider # Running.provider
<1>1. stack \in Seq(Frames) /\ DOMAIN stack = 1 .. Len(stack) /\ Len(stack) \in Nat
  BY DEF StackSound
<1>2. Len(stack) \in 1 .. Len(stack)
  BY <1>1
<1>3. Running = stack[Len(stack)]
  BY DEF Running, Last
<1>4. Running \in Frames
  BY <1>1, <1>2, <1>3, ElementOfSeq
<1>5. Framed(Running)
  BY <1>1, <1>2, <1>3 DEF StackSound
<1> QED
  BY <1>1, <1>2, <1>3, <1>4, <1>5 DEF StackSound

LEMMA ProvidersWrite ==
  ASSUME IInv, ProviderWrites
  PROVE IInv'
<1>1. /\ TypeOK /\ PagesApart /\ PagesOwned /\ StackSound /\ GetsCounted /\ ActiveOnlyInCall
      /\ ArgumentsStay /\ OnlyOwnBytes
  BY DEF IInv, BytesApart
<1>2. stack # <<>> /\ UNCHANGED linkVars /\ UNCHANGED callVars
  BY DEF ProviderWrites
<1>3. PICK f \in Frames : f = Running /\ Framed(f)
  BY <1>1, <1>2, TopFrame
<1> DEFINE c == f.consumer
           p == f.provider
           link == Links[f.id]
<1>4. PICK i \in Len(link.copyIn) + 1 .. Len(Pointers(link)) :
        memory' = Written(p, Buffer(c, p, link, f.args, i), f.call)
  BY <1>3 DEF ProviderWrites
<1> DEFINE W == Buffer(c, p, link, f.args, i)
<1>5. /\ c \in Consumers /\ p \in Providers /\ f.id \in DOMAIN Links /\ HasPage(c, p) /\ scratchBase[c][p] \in Nat
      /\ Fitting(link, f.args) /\ f.call \in 1 .. MaxCalls /\ f.call \in DOMAIN callers /\ callers[f.call] = c
  BY <1>1, <1>3, FrameFits DEF Framed
<1>6. IsLink(link)
  BY <1>5, LinksAreLinks
<1>7. i \in 1 .. Len(Pointers(link))
  <2>1. Len(link.copyIn) \in Nat /\ Len(Pointers(link)) \in Nat
    BY <1>6, PointersAre
  <2> HIDE DEF link
  <2> QED
    BY <1>4, <2>1
<1>8. W \subseteq Page(c, p)
  BY <1>1, <1>3, <1>7, FrameBuffers
<1>9. /\ phase' = phase /\ scratchBase' = scratchBase
      /\ active' = active /\ httpGets' = httpGets /\ stack' = stack /\ callers' = callers
      /\ received' = received /\ getsDone' = getsDone
  BY <1>2 DEF linkVars, callVars
<1> HIDE DEF c, p, link, W
<1>10. WritesOwnPage(c, p, W, f.call)
  <2>1. callers \in Seq(Consumers) /\ Len(callers) <= MaxCalls
    BY <1>1 DEF TypeOK
  <2>2. memory' = Written(p, W, f.call)
    BY <1>4 DEF W
  <2> QED
    BY <1>2, <1>5, <1>8, <1>9, <2>1, <2>2 DEF WritesOwnPage
<1>11. /\ memory' \in [Providers -> Seq(Own .. MaxCalls)]
       /\ \A d \in Consumers, q \in Providers :
            phase'[d] \in {"linking", "linked"} /\ Specs[d][q] # {} => scratchBase'[d][q] + PageSize <= Len(memory'[q])
       /\ \A q \in Providers : DOMAIN memory'[q] = DOMAIN memory[q]
       /\ \A x \in DOMAIN memory[p] : x \notin W => memory'[p][x] = memory[p][x]
       /\ \A d \in Consumers, q \in Providers : HasPage(d, q) /\ (d # c \/ q # p) =>
            \A x \in Page(d, q) : memory'[q][x] = memory[q][x]
       /\ PagesApart' /\ PagesOwned'
  BY <1>1, <1>10, PageWritten
<1>12. TypeOK'
  BY <1>1, <1>9, <1>11 DEF TypeOK
<1>13. StackSound'
  <2>1. \A k \in DOMAIN stack : Framed(stack[k])'
    BY <1>1, <1>9 DEF StackSound, Framed
  <2> QED
    BY <1>1, <1>9, <2>1 DEF StackSound
<1>14. GetsCounted' /\ ActiveOnlyInCall' /\ OnlyOwnBytes'
  BY <1>1, <1>9 DEF GetsCounted, ActiveOnlyInCall, OnlyOwnBytes, Apart
\* The answer's buffers are not those of the arguments, of this call and of others.
<1>15. ASSUME NEW k \in DOMAIN stack, NEW j \in 1 .. Len(Links[stack[k].id].copyIn),
              NEW x \in Buffer(stack[k].consumer, stack[k].provider, Links[stack[k].id], stack[k].args, j)
       PROVE x \in DOMAIN memory'[stack[k].provider] /\ memory'[stack[k].provider][x] = stack[k].call
  <2>1. PICK g \in Frames : g = stack[k] /\ Framed(g)
    BY <1>1, ElementOfSeq DEF StackSound
  <2>2. g.consumer \in Consumers /\ g.provider \in Providers /\ HasPage(g.consumer, g.provider) /\ g.id \in DOMAIN Links
    BY <1>1, <2>1, FrameFits
  <2>3. x \in DOMAIN memory[g.provider] /\ memory[g.provider][x] = g.call
    BY <1>1, <2>1 DEF ArgumentsStay
  <2>4. j \in 1 .. Len(Links[g.id].copyIn) /\ x \in Buffer(g.consumer, g.provider, Links[g.id], g.args, j)
    BY <2>1
  <2>5. j \in 1 .. Len(Pointers(Links[g.id]))
    BY <2>2, <2>4, LinksAreLinks, CopiedIn
  <2>6. CASE k = Len(stack)
    <3>1. g = f
      BY <1>1, <1>2, <1>3, <2>1, <2>6, TopFrame
    <3>2. j < i
      <4>1. j \in 1 .. Len(link.copyIn) /\ Len(link.copyIn) \in Nat /\ Len(Pointers(link)) \in Nat
        BY <1>6, <2>4, <3>1, PointersAre DEF link
      <4> QED
        BY <1>4, <4>1
    <3>3. j \in 1 .. Len(Pointers(link))
      BY <2>5, <3>1 DEF link
    <3>4. Buffer(c, p, link, f.args, j) \cap Buffer(c, p, link, f.args, i) = {}
      BY <1>5, <1>7, <3>2, <3>3, BuffersDisjoint
    <3>5. x \in Buffer(c, p, link, f.args, j)
      BY <2>4, <3>1 DEF c, p, link
    <3>6. x \notin W
      BY <3>4, <3>5 DEF W
    <3>7. g.provider = p
      BY <3>1 DEF p
    <3> QED
      BY <1>11, <2>1, <2>2, <2>3, <3>6, <3>7
  <2>7. CASE k # Len(stack)
    <3>1. g.consumer # c \/ g.provider # p
      BY <1>1, <1>2, <1>3, <2>1, <2>7, TopFrame DEF c, p
    <3>2. x \in Page(g.consumer, g.provider)
      BY <1>1, <2>1, <2>4, <2>5, FrameBuffers
    <3> QED
      BY <1>11, <2>1, <2>2, <2>3, <3>1, <3>2
  <2> QED
    BY <2>6, <2>7
<1>16. ArgumentsStay'
  <2> SUFFICES ASSUME NEW k \in DOMAIN stack, NEW j \in 1 .. Len(Links[stack[k].id].copyIn),
                      NEW x \in Buffer(stack[k].consumer, stack[k].provider, Links[stack[k].id], stack[k].args, j)'
               PROVE x \in DOMAIN memory'[stack[k].provider] /\ memory'[stack[k].provider][x] = stack[k].call
    BY <1>9 DEF ArgumentsStay
  <2>1. x \in Buffer(stack[k].consumer, stack[k].provider, Links[stack[k].id], stack[k].args, j)
    BY <1>9 DEF Buffer, Bytes
  <2> QED
    BY <1>15, <2>1
<1> QED
  BY <1>11, <1>12, <1>13, <1>14, <1>16 DEF IInv, BytesApart

-----------------------------------------------------------------------------
(* The ends of calls.                                                      *)

\* Two gets of a consumer cannot be under way: one bridge has that field.
LEMMA OneGet ==
  ASSUME TypeOK, StackSound, GetsCounted, NEW k \in DOMAIN stack, NEW n \in DOMAIN stack,
         stack[k].consumer = stack[n].consumer, stack[k].id = stack[n].id
  PROVE k = n
<1> DEFINE c == stack[k].consumer
           p == stack[k].provider
           q == stack[n].provider
<1>1. c \in Consumers /\ p \in Providers /\ q \in Providers
  BY DEF TypeOK
<1>2. phase[c] = "linked" /\ stack[k].id \in Specs[c][p] /\ stack[k].id \in Specs[c][q]
  BY DEF StackSound, Framed
<1>3. Apart(c)
  BY <1>1, <1>2 DEF GetsCounted
<1>4. p = q
  BY <1>1, <1>2, <1>3, LinkerAssumption DEF Apart
<1> QED
  BY <1>4 DEF StackSound

LEMMA CallEnds ==
  ASSUME IInv, stack # <<>>, NEW ending, NEW bytes \in SUBSET (Own .. MaxCalls),
         \A b \in bytes : b # 0 => b \in DOMAIN callers /\ callers[b] = Running.consumer,
         Ends(ending, bytes)
  PROVE IInv'
<1>1. /\ TypeOK /\ PagesApart /\ PagesOwned /\ StackSound /\ GetsCounted /\ ActiveOnlyInCall
      /\ ArgumentsStay /\ OnlyOwnBytes
  BY DEF IInv, BytesApart
<1>2. PICK f \in Frames : f = Running /\ Framed(f)
  BY <1>1, TopFrame
<1>3. PICK last \in Nat : last = Len(stack)
  BY <1>1 DEF StackSound
<1>4. /\ last \in DOMAIN stack /\ stack[last] = f /\ DOMAIN stack = 1 .. last
      /\ \A k \in DOMAIN stack : k # last => stack[k].consumer # f.consumer \/ stack[k].provider # f.provider
  BY <1>1, <1>2, <1>3, TopFrame
<1>5. f.consumer \in Consumers /\ f.provider \in Providers
  BY DEF Frames
<1>6. /\ received' = [received EXCEPT ![f.consumer] = @ \cup bytes]
      /\ active' = [active EXCEPT ![f.consumer][f.provider] = FALSE]
      /\ \/ f.id = "http_get" /\ httpGets' = [httpGets EXCEPT ![f.consumer] = @ + 1]
            /\ getsDone' = [getsDone EXCEPT ![f.consumer] = @ + 1]
         \/ httpGets' = httpGets /\ getsDone' = getsDone
      /\ stack' = Front(stack)
      /\ memory' = memory /\ phase' = phase /\ scratchBase' = scratchBase /\ callers' = callers
  BY <1>2 DEF Ends, Charged, ActiveAfter, linkVars
<1>7. /\ stack' \in Seq(Frames) /\ DOMAIN stack' = (DOMAIN stack) \ {last}
      /\ \A k \in DOMAIN stack' : stack'[k] = stack[k]
  <2>1. stack \in Seq(Frames)
    BY <1>1 DEF StackSound
  <2>2. stack' = SubSeq(stack, 1, last - 1)
    BY <1>3, <1>6 DEF Front
  <2>3. 1 <= last
    BY <1>4
  <2>4. \A k \in 1 .. last - 1 : k \in 1 .. last
    BY <1>3
  <2>5. stack' = [k \in 1 .. last - 1 |-> stack[k]]
    BY <1>3, <2>1, <2>2, <2>3
  <2>6. \A k \in 1 .. last - 1 : stack[k] \in Frames
    BY <1>3, <2>1, <2>4, ElementOfSeq
  <2>7. stack' \in Seq(Frames)
    BY <1>3, <2>3, <2>5, <2>6
  <2>8. DOMAIN stack' = 1 .. last - 1 /\ 1 .. last - 1 = (1 .. last) \ {last}
    BY <1>3, <2>5
  <2> QED
    BY <1>4, <2>5, <2>7, <2>8
<1>8. /\ active' \in [Consumers -> [Providers -> BOOLEAN]] /\ ~ active'[f.consumer][f.provider]
      /\ \A d \in Consumers, q \in Providers : d # f.consumer \/ q # f.provider => active'[d][q] = active[d][q]
  <2>1. active \in [Consumers -> [Providers -> BOOLEAN]]
    BY <1>1 DEF TypeOK
  <2> QED
    BY <1>5, <1>6, <2>1
<1>9. /\ received' \in [Consumers -> SUBSET (Own .. MaxCalls)]
      /\ received'[f.consumer] = received[f.consumer] \cup bytes
      /\ \A d \in Consumers : d # f.consumer => received'[d] = received[d]
  <2>1. received \in [Consumers -> SUBSET (Own .. MaxCalls)]
    BY <1>1 DEF TypeOK
  <2> QED
    BY <1>5, <1>6, <2>1
<1>10. httpGets' \in [Consumers -> Nat] /\ getsDone' \in [Consumers -> Nat]
  <2>1. httpGets \in [Consumers -> Nat] /\ getsDone \in [Consumers -> Nat]
    BY <1>1 DEF TypeOK
  <2>2. httpGets[f.consumer] \in Nat /\ getsDone[f.consumer] \in Nat
    BY <1>5, <2>1
  <2> QED
    BY <1>6, <2>1, <2>2
<1>11. TypeOK'
  BY <1>1, <1>6, <1>7, <1>8, <1>9, <1>10 DEF TypeOK
<1>12. PagesApart' /\ PagesOwned'
  BY <1>1, <1>6 DEF PagesApart, PagesOwned, HasPage, Page
<1>13. StackSound'
  <2>1. \A k \in DOMAIN stack' : Framed(stack[k])'
    BY <1>1, <1>6, <1>7 DEF StackSound, Framed
  <2> QED
    BY <1>1, <1>7, <2>1 DEF StackSound
<1>14. GetsCounted'
  <2>1. \A c \in Consumers : phase'[c] \in {"linking", "linked"} => Apart(c)
    BY <1>1, <1>6 DEF GetsCounted
  <2>2. CASE httpGets' = httpGets /\ getsDone' = getsDone
    BY <1>1, <1>7, <2>1, <2>2 DEF GetsCounted
  <2>3. CASE /\ f.id = "http_get" /\ httpGets' = [httpGets EXCEPT ![f.consumer] = @ + 1]
             /\ getsDone' = [getsDone EXCEPT ![f.consumer] = @ + 1]
    <3>1. httpGets \in [Consumers -> Nat] /\ getsDone \in [Consumers -> Nat]
      BY <1>1 DEF TypeOK
    <3>2. httpGets[f.consumer] < maxHttpGets
      BY <1>1, <1>4, <2>3 DEF GetsCounted
    <3>3. \A c \in Consumers : httpGets'[c] = getsDone'[c] /\ getsDone'[c] <= maxHttpGets
      BY <1>1, <1>5, <2>3, <3>1, <3>2, LinkerAssumption DEF GetsCounted
    <3>4. ASSUME NEW k \in DOMAIN stack', stack'[k].id = "http_get" PROVE httpGets'[stack'[k].consumer] < maxHttpGets
      <4>1. k \in DOMAIN stack /\ k # last /\ stack'[k] = stack[k]
        BY <1>7
      <4>2. stack[k].consumer # f.consumer
        BY <1>1, <1>4, <2>3, <3>4, <4>1, OneGet
      <4>3. stack[k].consumer \in Consumers /\ httpGets[stack[k].consumer] < maxHttpGets
        BY <1>1, <3>4, <4>1 DEF TypeOK, GetsCounted
      <4> QED
        BY <2>3, <3>1, <4>1, <4>2, <4>3
    <3> QED
      BY <2>1, <3>3, <3>4 DEF GetsCounted
  <2> QED
    BY <1>6, <2>2, <2>3
<1>15. ActiveOnlyInCall'
  <2> SUFFICES ASSUME NEW d \in Consumers, NEW q \in Providers
               PROVE active'[d][q] <=> \E k \in DOMAIN stack' : stack'[k].consumer = d /\ stack'[k].provider = q
    BY DEF ActiveOnlyInCall
  <2>1. CASE d = f.consumer /\ q = f.provider
    BY <1>4, <1>7, <1>8, <2>1
  <2>2. CASE d # f.consumer \/ q # f.provider
    <3>1. active[d][q] <=> \E k \in DOMAIN stack : stack[k].consumer = d /\ stack[k].provider = q
      BY <1>1 DEF ActiveOnlyInCall
    <3> QED
      BY <1>4, <1>7, <1>8, <2>2, <3>1
  <2> QED
    BY <2>1, <2>2
<1>16. OnlyOwnBytes'
  BY <1>1, <1>2, <1>6, <1>9 DEF OnlyOwnBytes
<1>17. ArgumentsStay'
  <2> SUFFICES ASSUME NEW k \in DOMAIN stack', NEW j \in 1 .. Len(Links[stack'[k].id].copyIn),
                      NEW x \in Buffer(stack[k].consumer, stack[k].provider, Links[stack[k].id], stack[k].args, j)'
               PROVE x \in DOMAIN memory'[stack'[k].provider] /\ memory'[stack'[k].provider][x] = stack'[k].call
    BY DEF ArgumentsStay
  <2>1. k \in DOMAIN stack /\ stack'[k] = stack[k]
    BY <1>7
  <2>2. x \in Buffer(stack[k].consumer, stack[k].provider, Links[stack[k].id], stack[k].args, j)
    BY <1>6, <2>1 DEF Buffer, Bytes
  <2>3. j \in 1 .. Len(Links[stack[k].id].copyIn)
    BY ONLY <2>1, j \in 1 .. Len(Links[stack'[k].id].copyIn)
  <2>4. x \in DOMAIN memory[stack[k].provider] /\ memory[stack[k].provider][x] = stack[k].call
    BY <1>1, <2>1, <2>2, <2>3 DEF ArgumentsStay
  <2> QED
    BY <1>6, <2>1, <2>4
<1> QED
  BY <1>11, <1>12, <1>13, <1>14, <1>15, <1>16, <1>17 DEF IInv, BytesApart

\* What is copied back is inside the buffer the consumer gave for it.
LEMMA CallsEnd ==
  ASSUME IInv, CallDenied \/ CallAnswered
  PROVE IInv'
<1>1. CASE CallDenied
  <2>1. PICK ending : stack # <<>> /\ Ends(ending, {})
    BY <1>1 DEF CallDenied
  <2> QED
    BY <2>1, CallEnds
<1>2. CASE CallAnswered
  <2>1. TypeOK /\ PagesOwned /\ StackSound /\ stack # <<>>
    BY <1>2 DEF IInv, CallAnswered
  <2> DEFINE f == Running
  <2>2. f \in Frames /\ Framed(f)
    BY <2>1, TopFrame
  <2> DEFINE link == Links[f.id]
             first == Len(link.copyIn)
             length(k, result) ==
               IF link.copyOut[k].size = "result" THEN result ELSE FixedSize[link.copyOut[k].size]
             places(k, result) == Bytes(f.consumer, f.provider, link, f.args, first + k, length(k, result))
  <2>3. PICK result \in 1 .. PageSize + 1, copied \in 0 .. Len(link.copyOut) :
          /\ \A k \in 1 .. copied : length(k, result) <= f.args[link.copyOut[k].at]
          /\ Ends(IF copied = Len(link.copyOut) THEN "returns" ELSE "throws",
                  {memory[f.provider][x] : x \in UNION {places(k, result) : k \in 1 .. copied}})
    BY Zenon, <1>2 DEF CallAnswered
  <2> HIDE DEF f
  <2>4. /\ f.consumer \in Consumers /\ f.provider \in Providers /\ HasPage(f.consumer, f.provider)
        /\ scratchBase[f.consumer][f.provider] \in Nat /\ Fitting(link, f.args) /\ IsLink(link)
    BY <2>1, <2>2, FrameFits DEF Fitting
  <2> HIDE DEF link
  <2>5. ASSUME NEW k \in 1 .. copied PROVE places(k, result) \subseteq Page(f.consumer, f.provider)
    <3>1. /\ first \in Nat /\ Len(link.copyOut) \in Nat /\ Len(Pointers(link)) = first + Len(link.copyOut)
          /\ \A i \in 1 .. Len(link.copyOut) : Pointers(link)[first + i] = link.copyOut[i].at
      BY <2>4, PointersAre
    <3>2. k \in 1 .. Len(link.copyOut)
      BY <3>1
    <3> HIDE DEF first
    <3>3. first + k \in 1 .. Len(Pointers(link)) /\ Pointers(link)[first + k] = link.copyOut[k].at
      BY <3>1, <3>2
    <3>4. length(k, result) \in Nat
      <4>1. link.copyOut \in Seq([at : Nat, size : Sizes])
        BY <2>4 DEF IsLink
      <4>2. link.copyOut[k] \in [at : Nat, size : Sizes]
        BY ONLY <3>2, <4>1, ElementOfSeq
      <4>3. link.copyOut[k].size \in Sizes
        BY <4>2
      <4>4. result \in Nat
        BY LinkerAssumption
      <4> QED
        BY <4>3, <4>4, LinkerAssumption DEF Sizes
    <3>5. length(k, result) <= f.args[Pointers(link)[first + k]]
      BY <2>3, <3>3
    <3> HIDE DEF length
    <3> QED
      BY <2>4, <3>3, <3>4, <3>5, BufferInPage
  <2> DEFINE bytes == {memory[f.provider][x] : x \in UNION {places(k, result) : k \in 1 .. copied}}
  <2>6. ASSUME NEW b \in bytes PROVE b \in Own .. MaxCalls /\ (b # 0 => b \in DOMAIN callers /\ callers[b] = f.consumer)
    <3>1. PICK k \in 1 .. copied : \E x \in places(k, result) : b = memory[f.provider][x]
      OBVIOUS
    <3>2. PICK x \in places(k, result) : b = memory[f.provider][x]
      BY <3>1
    <3>3. x \in Page(f.consumer, f.provider)
      BY <2>5
    <3>4. x \in 1 .. Len(memory[f.provider])
      BY <2>1, <2>4, <3>3, PageInMemory
    <3>5. memory[f.provider] \in Seq(Own .. MaxCalls)
      BY <2>1, <2>4 DEF TypeOK
    <3>6. b \in Own .. MaxCalls
      BY ONLY <3>4, <3>5, <3>2, ElementOfSeq
    <3> QED
      BY <2>1, <2>4, <3>3, <3>6, <3>2 DEF PagesOwned
  <2>7. PICK ending : Ends(ending, bytes)
    BY <2>3
  <2> HIDE DEF bytes
  <2>8. bytes \in SUBSET (Own .. MaxCalls) /\ \A b \in bytes : b # 0 => b \in DOMAIN callers /\ callers[b] = Running.consumer
    BY <2>6 DEF f
  <2> QED
    BY <2>1, <2>7, <2>8, CallEnds
<1> QED
  BY <1>1, <1>2

-----------------------------------------------------------------------------
(* The invariant.                                                          *)

LEMMA InitHolds == Init => IInv
<1> SUFFICES ASSUME Init PROVE IInv
  OBVIOUS
<1> USE LinkerAssumption DEF Init
<1>1. TypeOK
  <2>1. \A p \in Providers : memory[p] = <<>> /\ <<>> \in Seq(Own .. MaxCalls)
    OBVIOUS
  <2>2. memory \in [Providers -> Seq(Own .. MaxCalls)]
    BY <2>1
  <2>3. callers \in Seq(Consumers) /\ Len(callers) = 0 /\ DOMAIN stack = {}
    OBVIOUS
  <2> QED
    BY <2>2, <2>3 DEF TypeOK
<1>2. PagesApart /\ PagesOwned
  BY DEF PagesApart, PagesOwned, HasPage
<1>3. stack \in Seq(Frames) /\ DOMAIN stack = {}
  OBVIOUS
<1>4. StackSound /\ GetsCounted /\ ActiveOnlyInCall /\ ArgumentsStay
  BY <1>3 DEF StackSound, GetsCounted, ActiveOnlyInCall, ArgumentsStay
<1>5. OnlyOwnBytes
  BY DEF OnlyOwnBytes
<1> QED
  BY <1>1, <1>2, <1>4, <1>5 DEF IInv, BytesApart

LEMMA NextKeeps == IInv /\ [Next]_vars => IInv'
<1> SUFFICES ASSUME IInv, [Next]_vars PROVE IInv'
  OBVIOUS
<1>1. ASSUME NEW p \in Providers, ProviderInstantiates(p) PROVE IInv'
  BY <1>1, ProvidersInstantiate
<1>2. ASSUME NEW c \in Consumers, LinkBegins(c) PROVE IInv'
  BY <1>2, LinksBegin
<1>3. ASSUME NEW c \in Consumers, LinkFails(c) PROVE IInv'
  BY <1>3, LinksFail
<1>4. ASSUME NEW c \in Consumers, LinkEnds(c) PROVE IInv'
  BY <1>4, LinksEnd
<1>5. ASSUME NEW c \in Consumers, NEW p \in Providers, NEW id \in Specs[c][p], CallBegins(c, p, id) PROVE IInv'
  BY <1>5, CallsBegin
<1>6. CASE ProviderWrites
  BY <1>6, ProvidersWrite
<1>7. CASE CallDenied \/ CallAnswered
  BY <1>7, CallsEnd
<1>8. CASE UNCHANGED vars
  <2>1. /\ memory' = memory /\ phase' = phase /\ scratchBase' = scratchBase /\ active' = active
        /\ httpGets' = httpGets /\ stack' = stack /\ callers' = callers /\ received' = received /\ getsDone' = getsDone
    BY <1>8 DEF vars, linkVars, callVars
  <2>2. /\ TypeOK /\ PagesApart /\ PagesOwned /\ StackSound /\ GetsCounted /\ ActiveOnlyInCall
        /\ ArgumentsStay /\ OnlyOwnBytes
    BY DEF IInv, BytesApart
  <2>3. PagesApart' /\ PagesOwned'
    BY <2>1, <2>2 DEF PagesApart, PagesOwned, HasPage, Page
  <2>7. TypeOK'
    BY <2>1, <2>2 DEF TypeOK
  <2>4. StackSound'
    BY <2>1, <2>2 DEF StackSound, Framed
  <2>5. GetsCounted' /\ ActiveOnlyInCall' /\ OnlyOwnBytes'
    BY <2>1, <2>2 DEF GetsCounted, ActiveOnlyInCall, OnlyOwnBytes
  <2>6. ArgumentsStay'
    BY <2>1, <2>2 DEF ArgumentsStay, Buffer, Bytes
  <2> QED
    BY <2>3, <2>4, <2>5, <2>6, <2>7 DEF IInv, BytesApart
<1> QED
  BY <1>1, <1>2, <1>3, <1>4, <1>5, <1>6, <1>7, <1>8 DEF Next

LEMMA Invariant == Spec => []IInv
BY InitHolds, NextKeeps, PTL DEF Spec

\* Every state is of its type, the page of every bridge inside the memory of
\* its provider included (component-linker.js, lines 121-126).
THEOREM TypeCorrect == Spec => []TypeOK
<1>1. IInv => TypeOK
  BY DEF IInv
<1> QED
  BY <1>1, Invariant, PTL

\* No bridge is left refusing, and none takes a second call while it serves
\* one, however calls nest, throw and return (lines 134-162).
THEOREM FlagsAreCalls == Spec => []ActiveOnlyInCall
<1>1. IInv => ActiveOnlyInCall
  BY DEF IInv
<1> QED
  BY <1>1, Invariant, PTL

\* No call overwrites the arguments of another, and no consumer is given bytes
\* that are not its own, whatever providers write and return, for every table
\* of links and every size of page and buffers (lines 124-160).
THEOREM CallsStayApart == Spec => []BytesApart
<1>1. IInv => BytesApart
  BY DEF IInv
<1> QED
  BY <1>1, Invariant, PTL

\* Calls of http_get under way and done are within the limit together, although
\* a get is charged only when it has returned (lines 189-198).
THEOREM GetsHeld == Spec => []GetsWithinQuota
<1>1. ASSUME IInv, NEW c \in Consumers
      PROVE getsDone[c] + Cardinality({k \in DOMAIN stack : stack[k].consumer = c /\ stack[k].id = "http_get"}) <= maxHttpGets
  <2> DEFINE G == {k \in DOMAIN stack : stack[k].consumer = c /\ stack[k].id = "http_get"}
  <2>1. TypeOK /\ StackSound /\ GetsCounted
    BY <1>1 DEF IInv
  <2>2. getsDone[c] \in Nat /\ getsDone[c] <= maxHttpGets /\ httpGets[c] = getsDone[c]
    BY <2>1 DEF TypeOK, GetsCounted
  <2>3. CASE G = {}
    <3>1. Cardinality(G) = 0
      BY <2>3, FS_EmptySet
    <3> HIDE DEF G
    <3>2. getsDone[c] + Cardinality(G) <= maxHttpGets
      BY <2>2, <3>1
    <3> QED
      BY <3>2 DEF G
  <2>4. CASE G # {}
    <3>1. PICK k \in G : TRUE
      BY <2>4
    <3>2. \A n \in G : n = k
      BY <2>1, <3>1, OneGet
    <3>3. G = {k}
      BY <3>1, <3>2
    <3>4. Cardinality(G) = 1
      BY <3>3, FS_Singleton
    <3>5. httpGets[c] < maxHttpGets
      BY <2>1, <3>1 DEF GetsCounted
    <3> HIDE DEF G
    <3>6. getsDone[c] + Cardinality(G) <= maxHttpGets
      BY <2>2, <3>4, <3>5, LinkerAssumption
    <3> QED
      BY <3>6 DEF G
  <2> QED
    BY <2>3, <2>4
<1>2. IInv => GetsWithinQuota
  BY <1>1 DEF GetsWithinQuota
<1> QED
  BY <1>2, Invariant, PTL
=============================================================================
