------------------------- MODULE ActorHost_proofs -------------------------
(***************************************************************************)
(* Proofs about ActorHost, for every set of instances, grants, budgets and *)
(* limits.  TypeOK and AuthoritySound are inductive together: a use is     *)
(* admitted only while its grant is active, an active grant is not         *)
(* consumed, and so its budget has a use left.  The quotas need more: what *)
(* is charged covers what was sent and got, and a call that waits for its  *)
(* backend still has room for its reply.                                   *)
(***************************************************************************)
EXTENDS ActorHost, SumTheorems, SequenceTheorems

LEMMA Meters == ASSUME NEW id \in Metered PROVE MeterOf[id] \in Counters
  BY DEF Counters

\* A use that consume admits changes the uses, the budget and the grant of its
\* own import alone, and consumes the grant with the last use.
LEMMA UseKeepsType ==
  ASSUME TypeOK, NEW id \in Ids, Consumes(id)
  PROVE /\ active' \subseteq Ids /\ revoked' \subseteq Ids
        /\ dropped' \subseteq Ids /\ consumed' \subseteq Ids
        /\ uses' \in [Ids -> Nat]
  BY DEF TypeOK, Consumes

LEMMA UseCountsDown ==
  ASSUME TypeOK, AuthoritySound, NEW id \in Ids, Consumes(id)
  PROVE /\ DOMAIN remaining' = DOMAIN Budgets
        /\ \A b \in DOMAIN Budgets : remaining'[b] \in Nat
        /\ AuthoritySound'
<1>1. id \in active /\ id \notin consumed
  BY DEF Consumes, Admits, AuthoritySound
<1>2. CASE id \in DOMAIN Budgets
  <2>1. remaining[id] \in Nat \ {0}
    BY <1>1, <1>2 DEF TypeOK, AuthoritySound
  <2>2. /\ remaining' = [remaining EXCEPT ![id] = remaining[id] - 1]
        /\ uses' = [uses EXCEPT ![id] = uses[id] + 1]
        /\ revoked' = revoked /\ dropped' = dropped
    BY <1>2 DEF Consumes, Left
  <2>3. \A b \in DOMAIN Budgets :
          /\ remaining'[b] = IF b = id THEN remaining[b] - 1 ELSE remaining[b]
          /\ uses'[b] = IF b = id THEN uses[b] + 1 ELSE uses[b]
    BY <2>2, BudgetsAssumption DEF TypeOK
  <2>4. /\ active' = IF remaining[id] = 1 THEN active \ {id} ELSE active
        /\ consumed' = IF remaining[id] = 1 THEN consumed \cup {id} ELSE consumed
    BY <1>2 DEF Consumes, LastUse
  <2>5. active' = Grants \ (revoked' \cup dropped' \cup consumed')
    BY <2>2, <2>4 DEF AuthoritySound
  <2>6. ASSUME NEW b \in DOMAIN Budgets
        PROVE  /\ remaining'[b] \in Nat
               /\ uses'[b] + remaining'[b] = Budgets[b]
               /\ b \in consumed' <=> remaining'[b] = 0
    <3>1. /\ remaining[b] \in Nat /\ uses[b] \in Nat /\ Budgets[b] \in Nat
          /\ uses[b] + remaining[b] = Budgets[b]
          /\ b \in consumed <=> remaining[b] = 0
      BY BudgetsAssumption DEF TypeOK, AuthoritySound
    <3>2. CASE b = id
      BY <2>1, <2>3, <2>4, <3>1, <3>2, <1>1
    <3>3. CASE b # id
      BY <2>3, <2>4, <3>1, <3>3
    <3> QED
      BY <3>2, <3>3
  <2> QED
    BY <2>2, <2>5, <2>6 DEF AuthoritySound, TypeOK
<1>3. CASE id \notin DOMAIN Budgets
  <2>1. UNCHANGED <<remaining, active, consumed, revoked, dropped>>
    BY <1>3 DEF Consumes
  <2>2. \A b \in DOMAIN Budgets : uses'[b] = uses[b]
    BY <1>3, BudgetsAssumption DEF Consumes, TypeOK
  <2> QED
    BY <2>1, <2>2 DEF AuthoritySound, TypeOK
<1> QED
  BY <1>2, <1>3

LEMMA InitTypeOK == Init => TypeOK
  <1> SUFFICES ASSUME Init PROVE TypeOK
    OBVIOUS
  <1>1. \A S : Zero(S) \in [S -> Nat]
    BY DEF Zero
  <1>2. stack \in Seq([instance : Instances, id : Backed])
    BY DEF Init
  <1> QED
    BY <1>1, <1>2, CapsAssumption, BudgetsAssumption DEF Init, TypeOK

LEMMA InitSound == Init => AuthoritySound
  BY BudgetsAssumption DEF Init, AuthoritySound, Zero

-----------------------------------------------------------------------------
(* The calls.                                                              *)

LEMMA CallTypes ==
  ASSUME TypeOK, AuthoritySound, NEW i \in Instances, NEW id \in Ids, Calls(i, id), UNCHANGED <<linked, pages>>,
         /\ proofs' \in Nat
         /\ state' \in [Instances -> [Counters -> Nat]] /\ log' \in Nat
         /\ stack' \in Seq([instance : Instances, id : Backed])
         /\ sent' \in [Instances -> [Ids -> Nat]] /\ got' \in [Instances -> [Ids -> Nat]]
  PROVE TypeOK' /\ AuthoritySound'
<1>1. Consumes(id)
  BY DEF Calls
<1> QED
  BY <1>1, UseKeepsType, UseCountsDown DEF TypeOK, Valid

LEMMA HandedOver ==
  ASSUME TypeOK, NEW i \in Instances, NEW id \in Ids, NEW n \in Nat, HandsOver(i, id, n)
  PROVE got' \in [Instances -> [Ids -> Nat]]
<1>1. got \in [Instances -> [Ids -> Nat]]
  BY DEF TypeOK
<1>2. [got EXCEPT ![i][id] = @ + n] \in [Instances -> [Ids -> Nat]]
  BY <1>1
<1> QED
  BY <1>1, <1>2 DEF HandsOver

LEMMA Counted ==
  ASSUME TypeOK, NEW i \in Instances, NEW meter \in Counters, NEW n \in Nat
  PROVE [state EXCEPT ![i][meter] = @ + n] \in [Instances -> [Counters -> Nat]]
  BY DEF TypeOK

\* The last call, and all calls but the last.
LEMMA EndsOfSeq ==
  ASSUME NEW S, NEW s \in Seq(S), s # <<>>
  PROVE Last(s) \in S /\ Front(s) \in Seq(S)
<1>1. Len(s) \in Nat \ {0}
  BY EmptySeq
<1>2. Front(s) = SubSeq(s, 1, Len(s) - 1)
  BY DEF Front
<1>3. \A k \in 1 .. Len(s) - 1 : s[k] \in S
  BY <1>1
<1>4. Front(s) \in Seq(S)
  BY <1>1, <1>2, <1>3, SubSeqProperties
<1>5. Last(s) \in S
  BY <1>1 DEF Last
<1> QED
  BY <1>4, <1>5

-----------------------------------------------------------------------------

LEMMA NextKeeps == TypeOK /\ AuthoritySound /\ [Next]_vars => TypeOK' /\ AuthoritySound'
<1> SUFFICES ASSUME TypeOK, AuthoritySound, [Next]_vars
             PROVE  TypeOK' /\ AuthoritySound'
  OBVIOUS
<1> USE DEF meterVars
<1>1. ASSUME NEW i \in Instances, Links(i) PROVE TypeOK' /\ AuthoritySound'
  BY <1>1 DEF Links, authorityVars, TypeOK, AuthoritySound, Valid
<1>2. ASSUME NEW i \in Instances, GuestGrows(i) PROVE TypeOK' /\ AuthoritySound'
  BY <1>2 DEF GuestGrows, authorityVars, TypeOK, AuthoritySound, Valid
<1>3. ASSUME NEW i \in Instances, NEW id \in Ids, CallRefused(i, id) PROVE TypeOK' /\ AuthoritySound'
  BY <1>3, CallTypes DEF CallRefused, TypeOK
<1>4. ASSUME NEW i \in Instances, NEW id \in Computed, CallComputes(i, id) PROVE TypeOK' /\ AuthoritySound'
  <2>1. id \in Ids
    BY DEF Ids
  <2>2. got' \in [Instances -> [Ids -> Nat]]
    BY <1>4, <2>1 DEF CallComputes, TypeOK
  <2>3. Calls(i, id) /\ UNCHANGED <<linked, pages, proofs, state, log, stack, sent>>
    BY <1>4 DEF CallComputes
  <2>4. /\ proofs' \in Nat /\ state' \in [Instances -> [Counters -> Nat]] /\ log' \in Nat
        /\ stack' \in Seq([instance : Instances, id : Backed])
        /\ sent' \in [Instances -> [Ids -> Nat]]
    BY <2>3 DEF TypeOK
  <2> QED
    BY <2>1, <2>2, <2>3, <2>4, CallTypes
<1>5. ASSUME NEW i \in Instances, NEW id \in Backed, CallStarts(i, id) PROVE TypeOK' /\ AuthoritySound'
  <2>1. id \in Ids
    BY DEF Ids
  <2>2. sent' \in [Instances -> [Ids -> Nat]]
    BY <1>5, <2>1 DEF CallStarts, TypeOK
  <2>3. stack' \in Seq([instance : Instances, id : Backed])
    BY <1>5 DEF CallStarts, TypeOK
  <2> QED
    BY <1>5, <2>1, <2>2, <2>3, CallTypes DEF CallStarts, TypeOK
<1>6. ASSUME CallReturns PROVE TypeOK' /\ AuthoritySound'
  <2>1. PICK i \in Instances, id \in Backed, reply \in Replies : Settles(i, id, reply)
    <3>1. stack # <<>> /\ stack \in Seq([instance : Instances, id : Backed])
      BY <1>6 DEF CallReturns, TypeOK
    <3>2. Last(stack) \in [instance : Instances, id : Backed]
      BY <3>1, EndsOfSeq
    <3>3. Last(stack).instance \in Instances /\ Last(stack).id \in Backed
      BY <3>2
    <3> QED
      BY <1>6, <3>3 DEF CallReturns
  <2>2. id \in Ids
    BY DEF Ids
  <2>3. state' \in [Instances -> [Counters -> Nat]]
    BY <2>1, Meters, Counted DEF Settles, Charges, TypeOK
  <2>4. got' \in [Instances -> [Ids -> Nat]]
    <3>1. got \in [Instances -> [Ids -> Nat]]
      BY DEF TypeOK
    <3>2. [got EXCEPT ![i][id] = @ + 1] \in [Instances -> [Ids -> Nat]]
      BY <2>2, <3>1
    <3> QED
      BY <2>1, <3>1, <3>2 DEF Settles
  <2>5. stack' \in Seq([instance : Instances, id : Backed])
    <3>1. stack # <<>> /\ stack \in Seq([instance : Instances, id : Backed]) /\ stack' = Front(stack)
      BY <1>6 DEF CallReturns, TypeOK
    <3> QED
      BY <3>1, EndsOfSeq
  <2>6. UNCHANGED <<linked, active, revoked, dropped, consumed, uses, remaining, pages, proofs, log, sent>>
    BY <1>6 DEF CallReturns, authorityVars
  <2> QED
    BY <2>3, <2>4, <2>5, <2>6 DEF TypeOK, AuthoritySound, Valid
<1>7. ASSUME NEW i \in Instances, NEW n \in Sizes, RandomFills(i, n) PROVE TypeOK' /\ AuthoritySound'
  <2>1. n \in Nat /\ "randomBytes" \in Counters /\ "random_bytes" \in Ids
    BY CapsAssumption DEF Counters, ByteMeters, Ids
  <2>2. got' \in [Instances -> [Ids -> Nat]]
    BY <1>7, <2>1, HandedOver DEF RandomFills
  <2>3. state' \in [Instances -> [Counters -> Nat]]
    BY <1>7, <2>1, Counted DEF RandomFills
  <2> QED
    BY <1>7, <2>1, <2>2, <2>3, CallTypes DEF RandomFills, TypeOK
<1>8. ASSUME NEW i \in Instances, LogReads(i) PROVE TypeOK' /\ AuthoritySound'
  <2>1. log \in Nat /\ "logReadBytes" \in Counters /\ "log_read" \in Ids
    BY DEF Counters, ByteMeters, Ids, TypeOK
  <2>2. got' \in [Instances -> [Ids -> Nat]]
    BY <1>8, <2>1, HandedOver DEF LogReads
  <2>3. state' \in [Instances -> [Counters -> Nat]]
    BY <1>8, <2>1, Counted DEF LogReads
  <2> QED
    BY <1>8, <2>1, <2>2, <2>3, CallTypes DEF LogReads, TypeOK
<1>9. ASSUME NEW i \in Instances, NEW n \in Sizes, LogWrites(i, n) PROVE TypeOK' /\ AuthoritySound'
  <2>1. n \in Nat /\ log \in Nat /\ "logWriteBytes" \in Counters /\ "log_write" \in Ids
    BY CapsAssumption DEF Counters, ByteMeters, Ids, TypeOK
  <2>2. state' \in [Instances -> [Counters -> Nat]]
    BY <1>9, <2>1, Counted DEF LogWrites
  <2> QED
    <3>1. /\ Calls(i, "log_write") /\ UNCHANGED <<linked, pages, proofs, stack, sent, got>>
          /\ log' = log + n
      BY <1>9 DEF LogWrites
    <3>2. /\ stack' \in Seq([instance : Instances, id : Backed]) /\ log' \in Nat /\ proofs' \in Nat
          /\ sent' \in [Instances -> [Ids -> Nat]] /\ got' \in [Instances -> [Ids -> Nat]]
      BY <2>1, <3>1 DEF TypeOK
    <3> QED
      BY <2>1, <2>2, <3>1, <3>2, CallTypes
<1>10. ASSUME NEW id \in Grants, Revokes(id) PROVE TypeOK' /\ AuthoritySound'
  BY <1>10, CapsAssumption DEF Revokes, TypeOK, AuthoritySound, Valid
<1>11. ASSUME NEW i \in Instances, ProvesScram(i) PROVE TypeOK' /\ AuthoritySound'
  <2>1. "scram_sha256" \in Ids
    BY DEF Ids
  <2>2. got' \in [Instances -> [Ids -> Nat]] /\ proofs' \in Nat
    BY <1>11, <2>1, HandedOver DEF ProvesScram, TypeOK
  <2>3. Calls(i, "scram_sha256") /\ UNCHANGED <<linked, pages, state, log, stack, sent>>
    BY <1>11 DEF ProvesScram
  <2>4. /\ state' \in [Instances -> [Counters -> Nat]] /\ log' \in Nat
        /\ stack' \in Seq([instance : Instances, id : Backed])
        /\ sent' \in [Instances -> [Ids -> Nat]]
    BY <2>3 DEF TypeOK
  <2> QED
    BY <2>1, <2>2, <2>3, <2>4, CallTypes
<1>12. CASE UNCHANGED vars
  BY <1>12 DEF vars, authorityVars, TypeOK, AuthoritySound, Valid
<1> QED
  BY <1>1, <1>2, <1>3, <1>4, <1>5, <1>6, <1>7, <1>8, <1>9, <1>10, <1>11, <1>12 DEF Next

-----------------------------------------------------------------------------

THEOREM Invariant == Spec => [](TypeOK /\ AuthoritySound)
  BY InitTypeOK, InitSound, NextKeeps, PTL DEF Spec

\* The variables of the host keep their types, for all constants.
THEOREM TypeCorrect == Spec => []TypeOK
  BY Invariant, PTL

\* A grant is active exactly while it is neither revoked, dropped nor used up,
\* and uses and remaining uses add up to the budget (consume, lines 705-719).
THEOREM AuthorityHolds == Spec => []AuthoritySound
  BY Invariant, PTL

\* A step that neither uses an import nor gives anything to a guest that is
\* not waiting for it.
QuietOn(id) ==
  /\ uses'[id] = uses[id]
  /\ \A i \in Instances :
       /\ sent'[i][id] = sent[i][id]
       /\ Waiting(i) \/ got'[i][id] = got[i][id]

\* Once a grant is revoked, dropped or used up, no call is admitted for it:
\* its uses and requests stand still, and the guest gets nothing more from it
\* but the reply to a call that was running (lines 705-708).
THEOREM DeadGrants == Spec => DeadGrantsStayDead
<1>1. ASSUME TypeOK, AuthoritySound, [Next]_vars, NEW id \in revoked \cup dropped \cup consumed
      PROVE  QuietOn(id)
  <2>1. id \in Ids /\ id \notin active
    BY <1>1 DEF TypeOK, AuthoritySound
  <2>2. /\ uses \in [Ids -> Nat]
        /\ sent \in [Instances -> [Ids -> Nat]] /\ got \in [Instances -> [Ids -> Nat]]
    BY <1>1 DEF TypeOK
  <2>3. ASSUME NEW i \in Instances, NEW x \in Ids, Calls(i, x)
        PROVE  x # id /\ uses'[id] = uses[id]
    BY <2>1, <2>2, <2>3 DEF Calls, Consumes, Admits
  <2> USE <2>1, <2>2 DEF meterVars, authorityVars
  <2>4. ASSUME NEW i \in Instances, Links(i) \/ GuestGrows(i) \/ \E x \in Ids : CallRefused(i, x) PROVE QuietOn(id)
    BY <2>3, <2>4 DEF Links, GuestGrows, CallRefused, QuietOn
  <2>5. ASSUME NEW i \in Instances, NEW x \in Computed, CallComputes(i, x) PROVE QuietOn(id)
    <3>1. x \in Ids /\ Calls(i, x)
      BY <2>5 DEF CallComputes, Ids
    <3> QED
      BY <2>3, <2>5, <3>1 DEF CallComputes, QuietOn
  <2>6. ASSUME NEW i \in Instances, NEW x \in Backed, CallStarts(i, x) PROVE QuietOn(id)
    <3>1. x \in Ids /\ Calls(i, x)
      BY <2>6 DEF CallStarts, Ids
    <3> QED
      BY <2>3, <2>6, <3>1 DEF CallStarts, QuietOn
  <2>7. ASSUME CallReturns PROVE QuietOn(id)
    <3>1. stack # <<>> /\ stack \in Seq([instance : Instances, id : Backed])
      BY <1>1, <2>7 DEF CallReturns, TypeOK
    <3>2. Waiting(Last(stack).instance)
      BY <3>1, EmptySeq DEF Waiting, Last
    <3>3. PICK reply \in Replies : Settles(Last(stack).instance, Last(stack).id, reply)
      BY <2>7 DEF CallReturns
    <3>4. ASSUME NEW i \in Instances, ~Waiting(i) PROVE got'[i] = got[i]
      BY <3>2, <3>3, <3>4 DEF Settles
    <3> QED
      BY <2>7, <3>4 DEF CallReturns, QuietOn
  <2>8. ASSUME NEW i \in Instances, NEW n \in Sizes, RandomFills(i, n) PROVE QuietOn(id)
    <3>1. "random_bytes" \in Ids /\ Calls(i, "random_bytes")
      BY <2>8 DEF RandomFills, Ids
    <3> QED
      BY <2>3, <2>8, <3>1 DEF RandomFills, HandsOver, QuietOn
  <2>9. ASSUME NEW i \in Instances, LogReads(i) PROVE QuietOn(id)
    <3>1. "log_read" \in Ids /\ Calls(i, "log_read")
      BY <2>9 DEF LogReads, Ids
    <3> QED
      BY <2>3, <2>9, <3>1 DEF LogReads, HandsOver, QuietOn
  <2>10. ASSUME NEW i \in Instances, NEW n \in Sizes, LogWrites(i, n) PROVE QuietOn(id)
    <3>1. "log_write" \in Ids /\ Calls(i, "log_write")
      BY <2>10 DEF LogWrites, Ids
    <3> QED
      BY <2>3, <2>10, <3>1 DEF LogWrites, QuietOn
  <2>11. ASSUME NEW x \in Grants, Revokes(x) PROVE QuietOn(id)
    BY <2>11 DEF Revokes, QuietOn
  <2>12. ASSUME NEW i \in Instances, ProvesScram(i) PROVE QuietOn(id)
    <3>1. "scram_sha256" \in Ids /\ Calls(i, "scram_sha256")
      BY <2>12 DEF ProvesScram, Ids
    <3> QED
      BY <2>3, <2>12, <3>1 DEF ProvesScram, HandsOver, QuietOn
  <2>13. CASE UNCHANGED vars
    BY <2>13 DEF vars, QuietOn
  <2> QED
    BY <1>1, <2>4, <2>5, <2>6, <2>7, <2>8, <2>9, <2>10, <2>11, <2>12, <2>13 DEF Next
<1>2. TypeOK /\ AuthoritySound /\ [Next]_vars =>
        [\A id \in revoked \cup dropped \cup consumed :
           /\ uses'[id] = uses[id]
           /\ \A i \in Instances :
                /\ sent'[i][id] = sent[i][id]
                /\ Waiting(i) \/ got'[i][id] = got[i][id]]_vars
  BY <1>1 DEF QuietOn
<1> QED
  BY <1>2, Invariant, PTL DEF Spec, DeadGrantsStayDead

-----------------------------------------------------------------------------
(* The quotas.                                                             *)

\* A guest waits in one call at a time, and its counter and its memory are as
\* they were when the call passed its checks.
Nested ==
  /\ \A k, n \in DOMAIN stack : stack[k].instance = stack[n].instance => k = n
  /\ \A k \in DOMAIN stack :
       Under(stack[k].instance, stack[k].id) /\ WithinMemory(stack[k].instance, stack[k].id)

\* What one import of all instances amounts to, and what one counter meters.
InAll(f, id) == Sum([i \in Instances |-> f[i][id]])
By(r, meter) == Sum([id \in {x \in Metered : MeterOf[x] = meter} |-> r[id]])

\* Everything sent or handed over has been charged somewhere.
Accounts ==
  /\ \A i \in Instances :
       /\ \A meter \in Counters : state[i][meter] <= Limits[meter]
       /\ \A meter \in Counters \ ByteMeters : By(got[i], meter) <= state[i][meter]
       /\ got[i]["random_bytes"] <= state[i]["randomBytes"] /\ got[i]["log_read"] <= state[i]["logReadBytes"]
  /\ \A id \in Backed : InAll(sent, id) <= uses[id]
  /\ CredentialProvider => InAll(got, "scram_sha256") <= proofs /\ proofs <= maxProofs

QInv == TypeOK /\ AuthoritySound /\ Nested /\ Accounts

LEMMA SumIs == ASSUME NEW f PROVE Sum(f) = SumOver(f, DOMAIN f)
BY Zenon DEF Sum, FoldFunction, SumOver

\* One instance changes one import: so much the sum over all instances changes.
LEMMA InAllChanges ==
  ASSUME NEW f \in [Instances -> [Ids -> Nat]], NEW g \in [Instances -> [Ids -> Nat]], NEW id \in Ids
  PROVE /\ InAll(f, id) \in Nat
        /\ (\A i \in Instances : g[i][id] = f[i][id]) => InAll(g, id) = InAll(f, id)
        /\ \A i \in Instances : (\A j \in Instances \ {i} : g[j][id] = f[j][id])
             => InAll(g, id) = InAll(f, id) - f[i][id] + g[i][id]
<1> DEFINE F == [i \in Instances |-> f[i][id]]
           G == [i \in Instances |-> g[i][id]]
<1>1. IsFiniteSet(Instances)
  BY CapsAssumption
<1>2. InAll(f, id) = SumOver(F, Instances) /\ InAll(g, id) = SumOver(G, Instances)
  <2>1. DOMAIN F = Instances /\ DOMAIN G = Instances
    OBVIOUS
  <2>2. InAll(f, id) = Sum(F) /\ InAll(g, id) = Sum(G)
    BY DEF InAll
  <2> QED
    BY <2>1, <2>2, SumIs
<1>3. \A i \in Instances : F[i] = f[i][id] /\ G[i] = g[i][id] /\ F[i] \in Nat /\ G[i] \in Nat
  OBVIOUS
<1> HIDE DEF F, G
<1>4. SumOver(F, Instances) \in Nat
  BY <1>1, <1>3, SumRemoves
<1>5. ASSUME \A i \in Instances : g[i][id] = f[i][id] PROVE SumOver(F, Instances) = SumOver(G, Instances)
  BY <1>1, <1>3, <1>5, SumEqual
<1>6. ASSUME NEW i \in Instances, \A j \in Instances \ {i} : g[j][id] = f[j][id]
      PROVE  SumOver(G, Instances) = SumOver(F, Instances) - F[i] + G[i]
  BY <1>1, <1>3, <1>6, SumChanges
<1> QED
  BY <1>2, <1>3, <1>4, <1>5, <1>6

LEMMA MeteredFinite == IsFiniteSet(Metered) /\ Metered \subseteq Ids
<1>1. IsFiniteSet({"llm_infer"} \cup {"http_post"})
  BY FS_Singleton, FS_AddElement
<1>2. IsFiniteSet({"llm_infer", "http_post"} \cup {"http_post_headers"})
  <2>1. {"llm_infer"} \cup {"http_post"} = {"llm_infer", "http_post"}
    OBVIOUS
  <2> QED
    BY <1>1, <2>1, FS_AddElement
<1>3. IsFiniteSet({"http_fetch"} \cup {"kagi_sign"})
  BY FS_Singleton, FS_AddElement
<1>4. IsFiniteSet({"http_fetch", "kagi_sign"} \cup {"http_get"})
  <2>1. {"http_fetch"} \cup {"kagi_sign"} = {"http_fetch", "kagi_sign"}
    OBVIOUS
  <2> QED
    BY <1>3, <2>1, FS_AddElement
<1>5. Metered = ({"llm_infer", "http_post"} \cup {"http_post_headers"}) \cup ({"http_fetch", "kagi_sign"} \cup {"http_get"})
  BY DEF Metered, MeterOf
<1> QED
  BY <1>2, <1>4, <1>5, FS_Union DEF Ids, Backed

LEMMA ByChanges ==
  ASSUME NEW r \in [Ids -> Nat], NEW s \in [Ids -> Nat], NEW meter
  PROVE /\ By(r, meter) \in Nat
        /\ (\A x \in Metered : MeterOf[x] = meter => s[x] = r[x]) => By(s, meter) = By(r, meter)
        /\ \A id \in Metered : MeterOf[id] = meter /\ (\A x \in Metered \ {id} : s[x] = r[x])
             => By(s, meter) = By(r, meter) - r[id] + s[id]
<1> DEFINE M == {x \in Metered : MeterOf[x] = meter}
           R == [id \in M |-> r[id]]
           S == [id \in M |-> s[id]]
<1>1. IsFiniteSet(M)
  BY MeteredFinite, FS_Subset
<1>2. By(r, meter) = SumOver(R, M) /\ By(s, meter) = SumOver(S, M)
  <2>1. DOMAIN R = M /\ DOMAIN S = M
    OBVIOUS
  <2>2. By(r, meter) = Sum(R) /\ By(s, meter) = Sum(S)
    BY DEF By
  <2> QED
    BY <2>1, <2>2, SumIs
<1>3. \A id \in M : R[id] = r[id] /\ S[id] = s[id] /\ R[id] \in Nat /\ S[id] \in Nat
  BY MeteredFinite
<1> HIDE DEF R, S
<1>4. SumOver(R, M) \in Nat
  BY <1>1, <1>3, SumRemoves
<1>5. ASSUME \A x \in Metered : MeterOf[x] = meter => s[x] = r[x] PROVE SumOver(R, M) = SumOver(S, M)
  <2>1. \A x \in M : R[x] \in Nat /\ S[x] = R[x]
    BY <1>3, <1>5
  <2> HIDE DEF M
  <2> QED
    BY <1>1, <2>1, SumEqual
<1>6. ASSUME NEW id \in Metered, MeterOf[id] = meter, \A x \in Metered \ {id} : s[x] = r[x]
      PROVE  SumOver(S, M) = SumOver(R, M) - R[id] + S[id]
  <2>1. id \in M /\ \A x \in M \ {id} : S[x] = R[x]
    BY <1>3, <1>6
  <2> HIDE DEF M
  <2> QED
    BY <1>1, <1>3, <2>1, SumChanges
<1> QED
  BY <1>2, <1>3, <1>4, <1>5, <1>6

-----------------------------------------------------------------------------

LEMMA InSeq == ASSUME NEW S, NEW s \in Seq(S) PROVE \A k \in DOMAIN s : s[k] \in S
OBVIOUS

\* A guest that is not waiting may do what it will.
LEMMA NestedStands ==
  ASSUME Nested, UNCHANGED stack,
         \A i \in Instances : Waiting(i) => state'[i] = state[i] /\ pages'[i] = pages[i], TypeOK
  PROVE Nested'
<1>1. stack \in Seq([instance : Instances, id : Backed])
  BY DEF TypeOK
<1>2. \A k \in DOMAIN stack : Waiting(stack[k].instance) /\ stack[k].instance \in Instances
  <2>1. \A k \in DOMAIN stack : stack[k] \in [instance : Instances, id : Backed]
    BY <1>1, InSeq
  <2> QED
    BY <2>1, Zenon DEF Waiting
<1> QED
  BY <1>2 DEF Nested, Under, WithinMemory

LEMMA CallCounts ==
  ASSUME TypeOK, NEW i \in Instances, NEW id \in Ids, Calls(i, id)
  PROVE /\ ~Waiting(i) /\ uses'[id] = uses[id] + 1
        /\ \A x \in Ids : uses'[x] >= uses[x]
BY DEF Calls, Consumes, TypeOK

\* So much a guest gets, at most, when one import hands it n.
Gets(i, id, n) ==
  /\ got' \in [Instances -> [Ids -> Nat]]
  /\ \A j \in Instances, x \in Ids : got'[j][x] = got[j][x] \/ (j = i /\ x = id /\ got'[j][x] = got[j][x] + n)
  /\ \A j \in Instances : \A meter :
       /\ By(got[j], meter) \in Nat
       /\ \/ By(got'[j], meter) = By(got[j], meter)
          \/ j = i /\ id \in Metered /\ MeterOf[id] = meter /\ By(got'[j], meter) = By(got[j], meter) + n
  /\ \A x \in Ids :
       /\ InAll(got, x) \in Nat
       /\ InAll(got', x) = InAll(got, x) \/ (x = id /\ InAll(got', x) = InAll(got, x) + n)

LEMMA GotFacts ==
  ASSUME TypeOK, NEW i \in Instances, NEW id \in Ids, NEW n \in Nat, HandsOver(i, id, n)
  PROVE Gets(i, id, n)
<1> USE DEF HandsOver
<1>1. got \in [Instances -> [Ids -> Nat]]
  BY DEF TypeOK
<1>2. /\ got' \in [Instances -> [Ids -> Nat]]
      /\ \A j \in Instances, x \in Ids : got'[j][x] = got[j][x] \/ (j = i /\ x = id /\ got'[j][x] = got[j][x] + n)
  BY <1>1
<1>3. ASSUME NEW j \in Instances, NEW meter
      PROVE  /\ By(got[j], meter) \in Nat
             /\ \/ By(got'[j], meter) = By(got[j], meter)
                \/ j = i /\ id \in Metered /\ MeterOf[id] = meter /\ By(got'[j], meter) = By(got[j], meter) + n
  <2> DEFINE r == got[j]
             s == got'[j]
  <2>1. r \in [Ids -> Nat] /\ s \in [Ids -> Nat]
    BY <1>1, <1>2
  <2>2. \A x \in Ids : s[x] = r[x] \/ (j = i /\ x = id /\ s[x] = r[x] + n)
    BY <1>2
  <2> HIDE DEF r, s
  <2>3. By(r, meter) \in Nat
    BY <2>1, ByChanges
  <2>4. CASE \A x \in Metered : MeterOf[x] = meter => s[x] = r[x]
    BY <2>1, <2>3, <2>4, ByChanges DEF r, s
  <2>5. CASE ~ \A x \in Metered : MeterOf[x] = meter => s[x] = r[x]
    <3>1. j = i /\ id \in Metered /\ MeterOf[id] = meter /\ s[id] = r[id] + n /\ r[id] \in Nat
      BY <2>1, <2>2, <2>5, MeteredFinite
    <3>2. \A x \in Metered \ {id} : s[x] = r[x]
      BY <2>2, MeteredFinite
    <3>3. By(s, meter) = By(r, meter) - r[id] + s[id]
      BY <2>1, <3>1, <3>2, ByChanges
    <3> QED
      BY <2>3, <3>1, <3>3 DEF r, s
  <2> QED
    BY <2>4, <2>5
<1>4. ASSUME NEW x \in Ids
      PROVE  /\ InAll(got, x) \in Nat
             /\ InAll(got', x) = InAll(got, x) \/ (x = id /\ InAll(got', x) = InAll(got, x) + n)
  <2>1. InAll(got, x) \in Nat
    BY <1>1, <1>2, InAllChanges
  <2>2. CASE \A j \in Instances : got'[j][x] = got[j][x]
    BY <1>1, <1>2, <2>1, <2>2, InAllChanges
  <2>3. CASE ~ \A j \in Instances : got'[j][x] = got[j][x]
    <3>1. x = id /\ got'[i][x] = got[i][x] + n /\ got[i][x] \in Nat
      BY <1>1, <1>2, <2>3
    <3>2. \A j \in Instances \ {i} : got'[j][x] = got[j][x]
      BY <1>2
    <3>3. InAll(got', x) = InAll(got, x) - got[i][x] + got'[i][x]
      <4> DEFINE g == got'
      <4>1. g \in [Instances -> [Ids -> Nat]] /\ \A j \in Instances \ {i} : g[j][x] = got[j][x]
        BY <1>2, <3>2
      <4> HIDE DEF g
      <4>2. InAll(g, x) = InAll(got, x) - got[i][x] + g[i][x]
        BY <1>1, <4>1, InAllChanges
      <4> QED
        BY <4>2 DEF g
    <3> QED
      BY <2>1, <3>1, <3>3
  <2> QED
    BY <2>2, <2>3
<1> QED
  BY <1>2, <1>3, <1>4 DEF Gets

\* A step that hands over nothing, and sends nothing.
LEMMA AccountsStand ==
  ASSUME TypeOK, Accounts, UNCHANGED <<got, sent, state, proofs>>, \A x \in Ids : uses'[x] \in Nat /\ uses'[x] >= uses[x]
  PROVE Accounts'
<1>1. \A x \in Backed : x \in Ids /\ InAll(sent, x) \in Nat /\ uses[x] \in Nat
  BY InAllChanges DEF TypeOK, Ids
<1>2. UNCHANGED got /\ UNCHANGED sent
  OBVIOUS
<1> QED
  BY <1>1, <1>2 DEF Accounts

\* A step that hands over at most what it charges: n bytes or proofs, or one
\* reply that is metered.
LEMMA AccountsGrow ==
  ASSUME TypeOK, Accounts, NEW i \in Instances, NEW id \in Ids, NEW n \in Nat,
         HandsOver(i, id, n), UNCHANGED sent, \A x \in Ids : uses'[x] \in Nat /\ uses'[x] >= uses[x],
         NEW charged \in SUBSET Counters,
         \A j \in Instances, meter \in Counters :
           state'[j][meter] = IF j = i /\ meter \in charged THEN state[j][meter] + n ELSE state[j][meter],
         \A meter \in charged : state'[i][meter] <= Limits[meter],
         got' # got => /\ id \in Metered => MeterOf[id] \in charged
                       /\ id = "random_bytes" => "randomBytes" \in charged
                       /\ id = "log_read" => "logReadBytes" \in charged
                       /\ id = "scram_sha256" => n = 1 /\ (CredentialProvider => proofs' = proofs + 1),
         proofs' \in {proofs, proofs + 1}, CredentialProvider => proofs' <= maxProofs
  PROVE Accounts'
<1> USE CapsAssumption
<1>1. /\ "random_bytes" \in Ids /\ "log_read" \in Ids /\ "scram_sha256" \in Ids
      /\ "randomBytes" \in Counters /\ "logReadBytes" \in Counters
      /\ proofs \in Nat /\ uses \in [Ids -> Nat]
      /\ state \in [Instances -> [Counters -> Nat]] /\ got \in [Instances -> [Ids -> Nat]]
  BY DEF TypeOK, Ids, Counters, ByteMeters
<1>2. Gets(i, id, n)
  BY GotFacts
<1>3. ASSUME NEW j \in Instances, NEW meter \in Counters PROVE state'[j][meter] <= Limits[meter]
  <2>1. state[j][meter] <= Limits[meter]
    BY DEF Accounts
  <2> QED
    BY <2>1
<1>4. ASSUME NEW j \in Instances, NEW meter \in Counters \ ByteMeters
      PROVE  By(got'[j], meter) <= state'[j][meter]
  <2>1. By(got[j], meter) <= state[j][meter] /\ state[j][meter] \in Nat /\ By(got[j], meter) \in Nat
    BY <1>1, <1>2 DEF Accounts, Gets
  <2>2. CASE By(got'[j], meter) = By(got[j], meter)
    <3>1. state'[j][meter] \in {state[j][meter], state[j][meter] + n}
      OBVIOUS
    <3> QED
      BY <2>1, <2>2, <3>1
  <2>3. CASE By(got'[j], meter) # By(got[j], meter)
    <3>0. j = i /\ id \in Metered /\ MeterOf[id] = meter /\ By(got'[j], meter) = By(got[j], meter) + n
      BY <1>2, <2>3 DEF Gets
    <3>1. got' # got
      BY <2>3
    <3>2. state'[j][meter] = state[j][meter] + n
      BY <3>0, <3>1
    <3> QED
      BY <2>1, <3>0, <3>2
  <2> QED
    BY <2>2, <2>3
<1>5. ASSUME NEW j \in Instances, NEW x \in Ids, NEW meter \in Counters, got[j][x] <= state[j][meter],
             got' # got /\ x = id => meter \in charged
      PROVE  got'[j][x] <= state'[j][meter]
  <2>1. got[j][x] \in Nat /\ state[j][meter] \in Nat
    BY <1>1
  <2>2. CASE got'[j][x] = got[j][x]
    <3>1. state'[j][meter] \in {state[j][meter], state[j][meter] + n}
      OBVIOUS
    <3> QED
      BY <1>5, <2>1, <2>2, <3>1
  <2>3. CASE got'[j][x] # got[j][x]
    <3>1. j = i /\ x = id /\ got'[j][x] = got[j][x] + n /\ got' # got
      BY <1>2, <2>3 DEF Gets
    <3>2. state'[j][meter] = state[j][meter] + n
      BY <1>5, <3>1
    <3> QED
      BY <1>5, <2>1, <3>1, <3>2
  <2> QED
    BY <2>2, <2>3
<1>6. ASSUME NEW j \in Instances
      PROVE  got'[j]["random_bytes"] <= state'[j]["randomBytes"] /\ got'[j]["log_read"] <= state'[j]["logReadBytes"]
  <2>1. got[j]["random_bytes"] <= state[j]["randomBytes"] /\ got[j]["log_read"] <= state[j]["logReadBytes"]
    BY DEF Accounts
  <2> QED
    BY <1>1, <1>5, <2>1
<1>7. ASSUME NEW x \in Backed PROVE InAll(sent', x) <= uses'[x]
  <2>1. x \in Ids /\ InAll(sent, x) \in Nat /\ uses[x] \in Nat /\ InAll(sent, x) <= uses[x]
    BY InAllChanges DEF TypeOK, Ids, Accounts
  <2>2. InAll(sent', x) = InAll(sent, x)
    OBVIOUS
  <2> QED
    BY <2>1, <2>2
<1>8. CredentialProvider => InAll(got', "scram_sha256") <= proofs' /\ proofs' <= maxProofs
  <2> SUFFICES ASSUME CredentialProvider PROVE InAll(got', "scram_sha256") <= proofs'
    OBVIOUS
  <2>1. InAll(got, "scram_sha256") <= proofs /\ InAll(got, "scram_sha256") \in Nat
    BY <1>1, <1>2 DEF Accounts, Gets
  <2>2. CASE InAll(got', "scram_sha256") = InAll(got, "scram_sha256")
    BY <1>1, <2>1, <2>2
  <2>3. CASE InAll(got', "scram_sha256") # InAll(got, "scram_sha256")
    <3>1. id = "scram_sha256" /\ InAll(got', "scram_sha256") = InAll(got, "scram_sha256") + n /\ got' # got
      BY <1>1, <1>2, <2>3 DEF Gets
    <3> QED
      BY <1>1, <2>1, <3>1
  <2> QED
    BY <2>2, <2>3
<1> QED
  BY <1>3, <1>4, <1>6, <1>7, <1>8 DEF Accounts

\* Nothing is sent for a guest over the cap, or handed to it.
CapStep ==
  \A i \in Instances, id \in ChecksMemory : pages[i] > maxMemoryPages =>
    sent'[i][id] = sent[i][id] /\ got'[i][id] = got[i][id]

LEMMA CapStands ==
  ASSUME TypeOK, NEW i \in Instances, NEW id \in Ids, NEW n, WithinMemory(i, id), HandsOver(i, id, n), UNCHANGED sent
  PROVE CapStep
<1>1. got \in [Instances -> [Ids -> Nat]] /\ pages[i] \in Nat /\ maxMemoryPages \in Nat
  BY CapsAssumption DEF TypeOK
<1>2. \A j \in Instances, x \in ChecksMemory : got'[j][x] = got[j][x] \/ (j = i /\ x = id)
  BY <1>1 DEF HandsOver, ChecksMemory
<1> QED
  BY <1>1, <1>2 DEF CapStep, WithinMemory

\* A call whose backend is running sent its request when it started, and its
\* budget counted it.
LEMMA StartKeeps ==
  ASSUME QInv, NEW i \in Instances, NEW id \in Backed, CallStarts(i, id)
  PROVE Nested' /\ Accounts' /\ CapStep
<1> USE CapsAssumption
<1>1. /\ id \in Ids /\ Calls(i, id) /\ WithinMemory(i, id) /\ Under(i, id)
      /\ stack' = Append(stack, [instance |-> i, id |-> id])
      /\ sent' = [sent EXCEPT ![i][id] = @ + 1]
      /\ UNCHANGED <<linked, pages, proofs, state, log, got>>
  BY DEF CallStarts, Ids
<1>2. /\ sent \in [Instances -> [Ids -> Nat]] /\ uses \in [Ids -> Nat] /\ TypeOK
      /\ pages[i] \in Nat /\ maxMemoryPages \in Nat
      /\ stack \in Seq([instance : Instances, id : Backed])
  BY DEF QInv, TypeOK
<1>3. ~Waiting(i) /\ uses'[id] = uses[id] + 1 /\ \A x \in Ids : uses'[x] >= uses[x]
  BY <1>1, <1>2, CallCounts
<1>4. Nested'
  <2> DEFINE c == [instance |-> i, id |-> id]
  <2>1. /\ Len(stack) \in Nat /\ DOMAIN stack = 1 .. Len(stack) /\ DOMAIN stack' = 1 .. Len(stack) + 1
        /\ \A k \in 1 .. Len(stack) : stack'[k] = stack[k]
        /\ stack'[Len(stack) + 1] = c
    BY <1>1, <1>2
  <2>2. \A k \in 1 .. Len(stack) : stack[k].instance # i
    BY <1>3, <2>1 DEF Waiting
  <2>3. c.instance = i /\ c.id = id
    OBVIOUS
  <2>4. ASSUME NEW k \in DOMAIN stack', NEW n \in DOMAIN stack', stack'[k].instance = stack'[n].instance PROVE k = n
    BY <2>1, <2>2, <2>3, <2>4 DEF QInv, Nested
  <2>5. ASSUME NEW k \in DOMAIN stack'
        PROVE  Under(stack'[k].instance, stack'[k].id) /\ WithinMemory(stack'[k].instance, stack'[k].id)
    BY <1>1, <2>1, <2>3 DEF QInv, Nested
  <2>6. \A x, y : (Under(x, y)' <=> (y \in Metered => state[x][MeterOf[y]] < Limits[MeterOf[y]]))
          /\ (WithinMemory(x, y)' <=> (y \in ChecksMemory => pages[x] <= maxMemoryPages))
    BY <1>1 DEF Under, WithinMemory
  <2> QED
    BY <2>4, <2>5, <2>6 DEF Nested, Under, WithinMemory
<1>5. ASSUME NEW x \in Backed PROVE InAll(sent', x) <= uses'[x]
  <2> DEFINE f == sent'
  <2>1. f \in [Instances -> [Ids -> Nat]] /\ f[i][id] = sent[i][id] + 1
        /\ \A j \in Instances, y \in Ids : f[j][y] = sent[j][y] \/ (j = i /\ y = id)
    BY <1>1, <1>2
  <2>2. x \in Ids /\ uses[x] \in Nat /\ sent[i][id] \in Nat
    BY <1>1, <1>2 DEF Ids
  <2> HIDE DEF f
  <2>3. InAll(sent, x) \in Nat /\ InAll(sent, x) <= uses[x]
    BY <1>2, <2>2, InAllChanges DEF QInv, Accounts
  <2>4. CASE x = id
    <3>0. \A j \in Instances \ {i} : f[j][x] = sent[j][x]
      BY <2>1, <2>2
    <3>1. InAll(f, x) = InAll(sent, x) - sent[i][x] + f[i][x]
      BY ONLY <1>2, <2>1, <2>2, <3>0, i \in Instances, InAllChanges
    <3> QED
      BY <1>3, <2>1, <2>2, <2>3, <2>4, <3>1 DEF f
  <2>5. CASE x # id
    <3>0. \A j \in Instances : f[j][x] = sent[j][x]
      BY <2>1, <2>2, <2>5
    <3>1. InAll(f, x) = InAll(sent, x)
      BY <1>2, <2>1, <2>2, <3>0, InAllChanges
    <3>2. uses'[x] = uses[x]
      BY <1>1, <1>2, <2>2, <2>5 DEF Calls, Consumes
    <3> QED
      BY <2>3, <3>1, <3>2 DEF f
  <2> QED
    BY <2>4, <2>5
<1>6. Accounts'
  <2>1. UNCHANGED <<got, state, proofs>>
    BY <1>1
  <2> QED
    BY <1>5, <2>1 DEF QInv, Accounts
<1>7. CapStep
  <2>1. \A j \in Instances, x \in ChecksMemory : sent'[j][x] = sent[j][x] \/ (j = i /\ x = id)
    BY <1>1, <1>2 DEF ChecksMemory
  <2> QED
    BY <1>1, <1>2, <2>1 DEF CapStep, WithinMemory
<1> QED
  BY <1>4, <1>6, <1>7

\* A reply is charged with the room its call had found, which nobody used
\* while the guest waited.
LEMMA ReturnKeeps == ASSUME QInv, CallReturns PROVE Nested' /\ Accounts' /\ CapStep
<1> DEFINE R == [instance : Instances, id : Backed]
           i == Last(stack).instance
           id == Last(stack).id
<1>1. TypeOK /\ stack \in Seq(R) /\ stack # <<>> /\ stack' = Front(stack)
  BY DEF QInv, TypeOK, CallReturns
<1>2. Last(stack) \in R
  BY <1>1, EndsOfSeq
<1>3. i \in Instances /\ id \in Backed
  BY <1>2
<1>4. /\ Len(stack) \in Nat \ {0} /\ Len(stack) \in DOMAIN stack /\ Last(stack) = stack[Len(stack)]
  BY <1>1, EmptySeq DEF Last
<1>5. /\ DOMAIN stack = 1 .. Len(stack) /\ DOMAIN stack' = 1 .. Len(stack) - 1
      /\ \A k \in DOMAIN stack' : stack'[k] = stack[k]
  <2>1. Front(stack) = SubSeq(stack, 1, Len(stack) - 1)
    BY DEF Front
  <2> QED
    BY <1>1, <1>4, <2>1, SubSeqProperties
<1>6. Under(i, id) /\ WithinMemory(i, id)
  BY <1>4 DEF QInv, Nested
<1>7. \A k \in DOMAIN stack' : stack[k].instance # i
  <2>1. \A k \in DOMAIN stack' : k \in DOMAIN stack /\ k # Len(stack)
    BY <1>4, <1>5
  <2> QED
    BY <1>4, <2>1 DEF QInv, Nested
<1>8. PICK reply \in Replies : Settles(i, id, reply)
  BY DEF CallReturns
<1>9. UNCHANGED <<linked, uses, pages, proofs, log, sent>>
  BY DEF CallReturns, authorityVars
<1>10. id \in Ids /\ (id \in Metered => MeterOf[id] \in Counters)
  BY <1>3, Meters DEF Ids
<1> HIDE DEF i, id, R
<1>11. HandsOver(i, id, 1) /\ (got' # got => reply = "fits")
  BY <1>8 DEF Settles, HandsOver
<1> DEFINE charged == IF Charges(id, reply) THEN {MeterOf[id]} ELSE {}
<1>12. state \in [Instances -> [Counters -> Nat]] /\ Limits \in [Counters -> Nat]
  BY <1>1, CapsAssumption DEF TypeOK
<1>13. charged \in SUBSET Counters
  BY <1>10 DEF Charges
<1>14. \A j \in Instances, meter \in Counters :
         state'[j][meter] = IF j = i /\ meter \in charged THEN state[j][meter] + 1 ELSE state[j][meter]
  BY <1>3, <1>8, <1>12, <1>13 DEF Settles
<1>15. \A meter \in charged : state'[i][meter] <= Limits[meter]
  <2>1. \A meter \in charged : state[i][meter] < Limits[meter] /\ meter \in Counters
    BY <1>6, <1>13 DEF Under, Charges
  <2>2. \A meter \in charged : state[i][meter] \in Nat /\ Limits[meter] \in Nat /\ state'[i][meter] = state[i][meter] + 1
    BY <1>3, <1>12, <1>14, <2>1
  <2> QED
    BY <2>1, <2>2
<1>16. got' # got => /\ id \in Metered => MeterOf[id] \in charged
                     /\ id # "random_bytes" /\ id # "log_read" /\ id # "scram_sha256"
  <2>1. id # "random_bytes" /\ id # "log_read" /\ id # "scram_sha256"
    BY <1>3 DEF Backed, HandedOn, Metered, MeterOf, TransportImports, PoolImports, WireImports, CancelImports,
       WireDeep, WireWrites
  <2> QED
    BY <1>11, <2>1 DEF Charges
<1> HIDE DEF charged
<1>17. Accounts'
  <2>1. \A x \in Ids : uses'[x] \in Nat /\ uses'[x] >= uses[x]
    BY <1>1, <1>9 DEF TypeOK
  <2>2. CredentialProvider => proofs' <= maxProofs
    BY <1>9 DEF QInv, Accounts
  <2>3. proofs' \in {proofs, proofs + 1}
    BY <1>9
  <2>4. Accounts /\ UNCHANGED sent
    BY <1>9 DEF QInv
  <2> QED
    BY <1>1, <1>3, <1>10, <1>11, <1>13, <1>14, <1>15, <1>16, <2>1, <2>2, <2>3, <2>4, AccountsGrow
<1>18. CapStep
  BY <1>1, <1>3, <1>6, <1>9, <1>10, <1>11, CapStands
<1>19. Nested'
  <2>1. \A k \in DOMAIN stack' : k \in DOMAIN stack /\ stack[k] \in R
    BY <1>1, <1>4, <1>5, InSeq
  <2>2. \A k \in DOMAIN stack' : stack[k].instance \in Instances /\ stack[k].id \in Backed
    BY <2>1 DEF R
  <2>3. \A j \in Instances : j # i => state'[j] = state[j]
    BY <1>8, <1>12 DEF Settles
  <2>4. \A k \in DOMAIN stack' : state'[stack[k].instance] = state[stack[k].instance]
    BY <1>7, <2>2, <2>3
  <2>5. \A k \in DOMAIN stack' : Under(stack[k].instance, stack[k].id)' /\ WithinMemory(stack[k].instance, stack[k].id)'
    BY <1>5, <1>9, <2>1, <2>4 DEF QInv, Nested, Under, WithinMemory
  <2> QED
    BY <1>5, <2>1, <2>5 DEF QInv, Nested, Under, WithinMemory
<1> QED
  BY <1>17, <1>18, <1>19

\* All other calls are one step, which charges the counters in `charged` with
\* n before it hands n over.
OneStep(i, id, n, charged) ==
  /\ Calls(i, id) /\ WithinMemory(i, id) /\ HandsOver(i, id, n) /\ UNCHANGED <<pages, stack, sent>>
  /\ \A j \in Instances, meter \in Counters :
       state'[j][meter] = IF j = i /\ meter \in charged THEN state[j][meter] + n ELSE state[j][meter]
  /\ \A j \in Instances \ {i} : state'[j] = state[j]
  /\ \A meter \in charged : state'[i][meter] <= Limits[meter]
  /\ got' # got => /\ id \in Metered => MeterOf[id] \in charged
                   /\ id = "random_bytes" => "randomBytes" \in charged
                   /\ id = "log_read" => "logReadBytes" \in charged
                   /\ id = "scram_sha256" => n = 1 /\ (CredentialProvider => proofs' = proofs + 1)
  /\ proofs' \in {proofs, proofs + 1} /\ (CredentialProvider => proofs' <= maxProofs)

LEMMA CallKeeps ==
  ASSUME QInv, TypeOK', NEW i \in Instances, NEW id \in Ids, NEW n \in Nat, NEW charged \in SUBSET Counters,
         OneStep(i, id, n, charged)
  PROVE Nested' /\ Accounts' /\ CapStep
<1> USE DEF OneStep
<1>1. TypeOK /\ Accounts /\ Nested /\ uses' \in [Ids -> Nat]
  BY DEF QInv, TypeOK
<1>2. ~Waiting(i) /\ \A x \in Ids : uses'[x] >= uses[x]
  BY <1>1, CallCounts
<1>3. CapStep
  BY <1>1, CapStands
<1>4. Nested'
  BY <1>1, <1>2, NestedStands
<1>5. Accounts'
  BY <1>1, <1>2, AccountsGrow
<1> QED
  BY <1>3, <1>4, <1>5

LEMMA QuotasKeep == ASSUME QInv, TypeOK', [Next]_vars PROVE Nested' /\ Accounts' /\ CapStep
<1> USE CapsAssumption DEF meterVars
<1>1. /\ TypeOK /\ Nested /\ Accounts
      /\ state \in [Instances -> [Counters -> Nat]] /\ got \in [Instances -> [Ids -> Nat]]
      /\ uses \in [Ids -> Nat] /\ uses' \in [Ids -> Nat] /\ log \in Nat /\ proofs \in Nat
  BY DEF QInv, TypeOK
<1>2. CredentialProvider => proofs <= maxProofs
  BY <1>1 DEF Accounts
<1>3. ASSUME UNCHANGED <<state, log, stack, sent, got, proofs>>, \A x \in Ids : uses'[x] >= uses[x],
             \A i \in Instances : Waiting(i) => pages'[i] = pages[i]
      PROVE  Nested' /\ Accounts' /\ CapStep
  BY <1>1, <1>3, NestedStands, AccountsStand DEF CapStep
<1>4. ASSUME UNCHANGED uses PROVE \A x \in Ids : uses'[x] >= uses[x]
  BY <1>1, <1>4
<1>5. CASE \E i \in Instances : Links(i) \/ GuestGrows(i)
  <2>1. UNCHANGED <<uses, state, log, stack, sent, got, proofs>>
    BY <1>5 DEF Links, GuestGrows, authorityVars
  <2>2. \A i \in Instances : Waiting(i) => pages'[i] = pages[i]
    BY <1>1, <1>5 DEF Links, GuestGrows, TypeOK
  <2> QED
    BY <1>3, <1>4, <2>1, <2>2
<1>6. CASE \E id \in Grants : Revokes(id)
  <2>1. UNCHANGED <<uses, state, log, stack, sent, got, proofs, pages>>
    BY <1>6 DEF Revokes
  <2> QED
    BY <1>3, <1>4, <2>1
<1>7. CASE UNCHANGED vars
  <2>1. UNCHANGED <<uses, state, log, stack, sent, got, proofs, pages>>
    BY <1>7 DEF vars, authorityVars
  <2> QED
    BY <1>3, <1>4, <2>1
<1>8. ASSUME NEW i \in Instances, NEW id \in Ids, CallRefused(i, id) PROVE Nested' /\ Accounts' /\ CapStep
  <2>1. Calls(i, id) /\ UNCHANGED <<linked, pages, proofs, state, log, stack, sent, got>>
    BY <1>8 DEF CallRefused
  <2>2. \A x \in Ids : uses'[x] >= uses[x]
    BY <1>1, <2>1, CallCounts
  <2> QED
    BY <1>3, <2>1, <2>2
<1>9. ASSUME NEW i \in Instances, NEW id \in Computed, CallComputes(i, id) PROVE Nested' /\ Accounts' /\ CapStep
  <2>1. /\ id \in Ids /\ id \notin Metered
        /\ id # "random_bytes" /\ id # "log_read" /\ id # "scram_sha256"
    BY DEF Ids, Computed, KeyImports, CodecImports, Metered, MeterOf
  <2>2. /\ Calls(i, id) /\ WithinMemory(i, id) /\ HandsOver(i, id, 1)
        /\ UNCHANGED <<linked, pages, proofs, state, log, stack, sent>>
    BY <1>9 DEF CallComputes, HandsOver
  <2>3. OneStep(i, id, 1, {})
    BY <1>1, <1>2, <2>1, <2>2 DEF OneStep
  <2> QED
    BY <2>1, <2>3, CallKeeps
<1>10. ASSUME NEW i \in Instances, ProvesScram(i) PROVE Nested' /\ Accounts' /\ CapStep
  <2> DEFINE id == "scram_sha256"
  <2>1. id \in Ids /\ id \notin Metered /\ id # "random_bytes" /\ id # "log_read"
    BY DEF Ids, Metered, MeterOf
  <2>2. /\ Calls(i, id) /\ WithinMemory(i, id) /\ HandsOver(i, id, 1)
        /\ UNCHANGED <<linked, pages, state, log, stack, sent>>
        /\ proofs' = IF CredentialProvider THEN proofs + 1 ELSE proofs
        /\ CredentialProvider => proofs < maxProofs
    BY <1>10 DEF ProvesScram, MayProve
  <2>3. proofs' \in {proofs, proofs + 1} /\ (CredentialProvider => proofs' = proofs + 1 /\ proofs' <= maxProofs)
    BY <1>1, <2>2
  <2> HIDE DEF id
  <2>4. OneStep(i, id, 1, {})
    BY <1>1, <2>1, <2>2, <2>3 DEF OneStep
  <2> QED
    BY <2>1, <2>4, CallKeeps
<1>11. ASSUME NEW i \in Instances, NEW id \in Ids, NEW meter \in ByteMeters, NEW n \in Nat,
              Calls(i, id), WithinMemory(i, id), HandsOver(i, id, n), UNCHANGED <<pages, proofs, stack, sent>>,
              Room(i, meter, n), state' = [state EXCEPT ![i][meter] = @ + n],
              got' # got => /\ id \notin Metered /\ id # "scram_sha256"
                            /\ id = "random_bytes" => meter = "randomBytes"
                            /\ id = "log_read" => meter = "logReadBytes"
       PROVE  Nested' /\ Accounts' /\ CapStep
  <2>1. meter \in Counters
    BY DEF Counters
  <2> DEFINE charged == {meter}
  <2>2. charged \in SUBSET Counters
    BY <2>1
  <2>3. \A j \in Instances, m \in Counters :
          state'[j][m] = IF j = i /\ m \in charged THEN state[j][m] + n ELSE state[j][m]
    BY <1>1, <1>11, <2>1
  <2>4. \A j \in Instances \ {i} : state'[j] = state[j]
    BY <1>1, <1>11
  <2>5. \A m \in charged : state'[i][m] <= Limits[m]
    BY <1>11, <2>1, <2>3 DEF Room
  <2>6. got' # got => /\ id \in Metered => MeterOf[id] \in charged
                      /\ id = "random_bytes" => "randomBytes" \in charged
                      /\ id = "log_read" => "logReadBytes" \in charged
                      /\ id = "scram_sha256" => n = 1 /\ (CredentialProvider => proofs' = proofs + 1)
    BY <1>11
  <2> HIDE DEF charged
  <2>7. OneStep(i, id, n, charged)
    BY <1>1, <1>2, <1>11, <2>3, <2>4, <2>5, <2>6 DEF OneStep
  <2> QED
    BY <1>11, <2>2, <2>7, CallKeeps
<1>12. ASSUME NEW i \in Instances, NEW n \in Sizes, RandomFills(i, n) PROVE Nested' /\ Accounts' /\ CapStep
  <2>1. /\ n \in Nat /\ "random_bytes" \in Ids /\ "random_bytes" \notin Metered /\ "randomBytes" \in ByteMeters
        /\ WithinMemory(i, "random_bytes")
    BY DEF Ids, Metered, MeterOf, ByteMeters, WithinMemory, ChecksMemory, IgnoresMemory
  <2>2. /\ Calls(i, "random_bytes") /\ Room(i, "randomBytes", n)
        /\ state' = [state EXCEPT ![i]["randomBytes"] = @ + n]
        /\ HandsOver(i, "random_bytes", n)
        /\ UNCHANGED <<linked, pages, proofs, log, stack, sent>>
    BY <1>12 DEF RandomFills
  <2> QED
    BY <1>11, <2>1, <2>2
<1>13. ASSUME NEW i \in Instances, LogReads(i) PROVE Nested' /\ Accounts' /\ CapStep
  <2>1. "log_read" \in Ids /\ "log_read" \notin Metered /\ "logReadBytes" \in ByteMeters
    BY DEF Ids, Metered, MeterOf, ByteMeters
  <2>2. /\ Calls(i, "log_read") /\ WithinMemory(i, "log_read") /\ Room(i, "logReadBytes", log)
        /\ state' = [state EXCEPT ![i]["logReadBytes"] = @ + log]
        /\ HandsOver(i, "log_read", log)
        /\ UNCHANGED <<linked, pages, proofs, log, stack, sent>>
    BY <1>13 DEF LogReads
  <2> QED
    BY <1>1, <1>11, <2>1, <2>2
<1>14. ASSUME NEW i \in Instances, NEW n \in Sizes, LogWrites(i, n) PROVE Nested' /\ Accounts' /\ CapStep
  <2>1. n \in Nat /\ "log_write" \in Ids /\ "logWriteBytes" \in ByteMeters
    BY DEF Ids, ByteMeters
  <2>2. /\ Calls(i, "log_write") /\ WithinMemory(i, "log_write") /\ Room(i, "logWriteBytes", n)
        /\ state' = [state EXCEPT ![i]["logWriteBytes"] = @ + n]
        /\ HandsOver(i, "log_write", n) /\ got' = got
        /\ UNCHANGED <<linked, pages, proofs, stack, sent>>
    BY <1>14 DEF LogWrites, HandsOver
  <2> QED
    BY <1>11, <2>1, <2>2
<1>15. CASE \E i \in Instances, id \in Backed : CallStarts(i, id)
  BY <1>15, StartKeeps
<1>16. CASE CallReturns
  BY <1>16, ReturnKeeps
<1> QED
  BY <1>5, <1>6, <1>7, <1>8, <1>9, <1>10, <1>12, <1>13, <1>14, <1>15, <1>16 DEF Next

LEMMA InitQuotas == Init => Nested /\ Accounts
<1> SUFFICES ASSUME Init PROVE Nested /\ Accounts
  OBVIOUS
<1> DEFINE zero == [x \in Ids |-> 0]
<1>1. /\ stack = <<>> /\ proofs = 0 /\ uses = zero
      /\ \A i \in Instances : state[i] = [x \in Counters |-> 0]
      /\ sent = [i \in Instances |-> zero] /\ got = [i \in Instances |-> zero]
      /\ \A i \in Instances : got[i] = zero
  BY DEF Init, Zero
<1>2. "random_bytes" \in Ids /\ "log_read" \in Ids /\ "randomBytes" \in Counters /\ "logReadBytes" \in Counters
  BY DEF Ids, Counters, ByteMeters
<1>3. ASSUME NEW id \in Ids PROVE InAll([i \in Instances |-> zero], id) = 0
  <2> DEFINE F == [i \in Instances |-> [j \in Instances |-> zero][i][id]]
  <2>1. DOMAIN F = Instances /\ \A i \in Instances : F[i] = 0
    OBVIOUS
  <2>2. InAll([i \in Instances |-> zero], id) = Sum(F)
    BY DEF InAll
  <2> HIDE DEF F
  <2> QED
    BY <2>1, <2>2, SumIs, SumZero, CapsAssumption
<1>4. ASSUME NEW meter PROVE By(zero, meter) = 0
  <2> DEFINE M == {x \in Metered : MeterOf[x] = meter}
             F == [id \in M |-> zero[id]]
  <2>1. DOMAIN F = M /\ \A id \in M : F[id] = 0
    BY MeteredFinite
  <2>2. By(zero, meter) = Sum(F)
    BY DEF By
  <2>3. IsFiniteSet(M)
    BY MeteredFinite, FS_Subset
  <2> HIDE DEF F, M
  <2> QED
    BY <2>1, <2>2, <2>3, SumIs, SumZero
<1>5. \A id \in Backed : id \in Ids /\ uses[id] = 0 /\ InAll(sent, id) = 0
  BY <1>1, <1>3 DEF Ids
<1>6. InAll(got, "scram_sha256") = 0
  BY <1>1, <1>3 DEF Ids
<1>7. \A i \in Instances : \A meter \in Counters : By(got[i], meter) = 0 /\ state[i][meter] = 0
  BY <1>1, <1>4
<1>8. \A i \in Instances : got[i]["random_bytes"] = 0 /\ got[i]["log_read"] = 0
  BY <1>1, <1>2
<1> HIDE DEF zero
<1>9. Accounts
  <2>1. \A meter \in Counters : Limits[meter] \in Nat
    BY CapsAssumption
  <2> QED
    BY <1>1, <1>2, <1>5, <1>6, <1>7, <1>8, <2>1, CapsAssumption DEF Accounts
<1>10. Nested
  BY <1>1 DEF Nested
<1> QED
  BY <1>9, <1>10

LEMMA QuotasInductive == Spec => []QInv
<1>1. Init => QInv
  BY InitTypeOK, InitSound, InitQuotas DEF QInv
<1>2. QInv /\ [Next]_vars => QInv'
  BY NextKeeps, QuotasKeep DEF QInv
<1> QED
  BY <1>1, <1>2, PTL DEF Spec

\* All instances together send no more than the shared budgets admit, get no
\* more than their limits, whichever imports share a counter and however calls
\* nest, and have no more proofs made than the provider's quota.
THEOREM QuotasHeld == Spec => []QuotasHold
<1>1. ASSUME QInv PROVE QuotasHold
  <2>1. /\ TypeOK /\ AuthoritySound /\ Accounts
        /\ "randomBytes" \in Counters /\ "logReadBytes" \in Counters
        /\ "random_bytes" \in Ids /\ "log_read" \in Ids
    BY <1>1 DEF QInv, Counters, ByteMeters, Ids
  <2>2. BudgetBoundsRequests
    <3> SUFFICES ASSUME NEW id \in Backed \cap DOMAIN Budgets PROVE SentInAll(id) <= Budgets[id]
      BY DEF BudgetBoundsRequests
    <3>1. InAll(sent, id) <= uses[id] /\ uses[id] + remaining[id] = Budgets[id] /\ SentInAll(id) = InAll(sent, id)
      BY <2>1 DEF Accounts, AuthoritySound, SentInAll, InAll
    <3>2. uses[id] \in Nat /\ remaining[id] \in Nat /\ InAll(sent, id) \in Nat
      BY <2>1, InAllChanges, BudgetsAssumption DEF TypeOK
    <3> QED
      BY <3>1, <3>2
  <2>3. RepliesWithinLimits
    <3> SUFFICES ASSUME NEW i \in Instances
                 PROVE  /\ \A meter \in Counters : state[i][meter] <= Limits[meter]
                        /\ \A meter \in Counters \ ByteMeters : GotBy(i, meter) <= Limits[meter]
                        /\ got[i]["random_bytes"] <= Limits["randomBytes"] /\ got[i]["log_read"] <= Limits["logReadBytes"]
      BY DEF RepliesWithinLimits
    <3>1. \A meter \in Counters :
            state[i][meter] <= Limits[meter] /\ state[i][meter] \in Nat /\ Limits[meter] \in Nat
      BY <2>1, CapsAssumption DEF Accounts, TypeOK
    <3>2. \A meter \in Counters \ ByteMeters : By(got[i], meter) <= state[i][meter] /\ By(got[i], meter) \in Nat
      <4>1. got[i] \in [Ids -> Nat]
        BY <2>1 DEF TypeOK
      <4> QED
        BY <2>1, <4>1, ByChanges DEF Accounts
    <3>3. \A meter : GotBy(i, meter) = By(got[i], meter)
      BY DEF GotBy, By
    <3>4. /\ got[i]["random_bytes"] \in Nat /\ got[i]["random_bytes"] <= state[i]["randomBytes"]
          /\ got[i]["log_read"] \in Nat /\ got[i]["log_read"] <= state[i]["logReadBytes"]
      BY <2>1 DEF Accounts, TypeOK
    <3>5. \A meter \in Counters \ ByteMeters : GotBy(i, meter) <= Limits[meter]
      BY <3>1, <3>2, <3>3
    <3> QED
      BY <2>1, <3>1, <3>4, <3>5
  <2>4. ProofsWithinQuota
    <3> SUFFICES ASSUME CredentialProvider PROVE InAll(got, "scram_sha256") <= maxProofs
      BY DEF ProofsWithinQuota, InAll
    <3>1. InAll(got, "scram_sha256") <= proofs /\ proofs <= maxProofs /\ proofs \in Nat
      BY <2>1 DEF Accounts, TypeOK
    <3>2. InAll(got, "scram_sha256") \in Nat
      BY <2>1, InAllChanges DEF TypeOK, Ids
    <3> QED
      BY <3>1, <3>2, CapsAssumption
  <2> QED
    BY <2>2, <2>3, <2>4 DEF QuotasHold
<1> QED
  BY <1>1, QuotasInductive, PTL

\* A guest that has outgrown the cap has nothing more sent or handed over by an
\* import that looks at its memory: a guest that waits in a call cannot grow.
THEOREM NothingOverTheCap == Spec => NothingOverCap
<1>1. QInv /\ QInv' /\ [Next]_vars => [CapStep]_vars
  BY QuotasKeep DEF QInv
<1> QED
  BY <1>1, QuotasInductive, PTL DEF Spec, NothingOverCap, CapStep

=============================================================================
