--------------------------- MODULE IpBlockerProofs ---------------------------
(***************************************************************************)
(* Proofs about IpBlocker, for every number of addresses and ids and every *)
(* value of the limits.  Accounting is the inductive invariant; the two    *)
(* bounds follow a step at a time from it.                                 *)
(***************************************************************************)
EXTENDS IpBlocker, FiniteSetTheorems, TLAPS

(***************************************************************************)
(* check_ip_blocker leaves a well-formed entry behind.                     *)
(***************************************************************************)
LEMMA AfterCheckType ==
    ASSUME NEW e \in Entry \cup {NoEntry}, NEW id \in Ids
    PROVE  AfterCheck(e, id) \in Entry
  <1>1. FreshEntry \in Entry
    BY DurationsAssumption DEF FreshEntry, Entry
  <1>2. \A f \in Entry : CountRequest(f) \in Entry
    BY DurationsAssumption DEF CountRequest, Entry
  <1>3. \A f \in Entry : RecordId(f, id) \in Entry
    BY DurationsAssumption DEF RecordId, Entry
  <1> QED
    BY <1>1, <1>2, <1>3 DEF AfterCheck

(***************************************************************************)
(* Sets of ids are finite, and adding one id adds at most one.             *)
(***************************************************************************)
LEMMA AddOneId ==
    ASSUME NEW S \in SUBSET Ids, NEW id \in Ids
    PROVE  /\ IsFiniteSet(S)
           /\ Cardinality(S) \in Nat
           /\ Cardinality(S \cup {id}) <= Cardinality(S) + 1
           /\ \A T \in SUBSET S : Cardinality(T) <= Cardinality(S)
  <1>1. IsFiniteSet(S)
    BY FS_Subset, DurationsAssumption
  <1>2. Cardinality(S) \in Nat
    BY <1>1, FS_CardinalityType
  <1>3. Cardinality(S \cup {id}) <= Cardinality(S) + 1
    BY <1>1, <1>2, FS_AddElement
  <1>4. \A T \in SUBSET S : Cardinality(T) <= Cardinality(S)
    BY <1>1, FS_Subset
  <1> QED
    BY <1>1, <1>2, <1>3, <1>4

(***************************************************************************)
(* The counters of an entry never pass their limit by more than one: each  *)
(* is compared before it is increased.                                     *)
(***************************************************************************)
LEMMA AfterCheckBounds ==
    ASSUME NEW e \in Entry \cup {NoEntry}, NEW id \in Ids,
           e # NoEntry => /\ e.reqs <= MaxReqs + 1
                          /\ Cardinality(e.ids) <= MaxIds + 1
    PROVE  /\ AfterCheck(e, id).reqs <= MaxReqs + 1
           /\ Cardinality(AfterCheck(e, id).ids) <= MaxIds + 1
  <1>1. CASE e = NoEntry
    BY <1>1, FS_EmptySet, DurationsAssumption DEF AfterCheck, FreshEntry
  <1>2. CASE e # NoEntry
    <2>1. e \in Entry /\ e.reqs \in Nat /\ e.ids \in SUBSET Ids /\ e.idAge \in Nat
      BY <1>2, DurationsAssumption DEF Entry
    <2>2. AfterCheck(e, id).reqs <= MaxReqs + 1
      BY <1>2, <2>1, DurationsAssumption
      DEF AfterCheck, CountRequest, RecordId, RateBlocked, Entry
    <2>3. CASE RateBlocked(e) \/ IdsFull(e)
      <3>1. AfterCheck(e, id).ids = e.ids
        BY <1>2, <2>1, <2>3 DEF AfterCheck, CountRequest, Entry
      <3> QED
        BY <1>2, <2>2, <3>1
    <2>4. CASE ~ RateBlocked(e) /\ ~ IdsFull(e)
      <3> DEFINE kept == IF e.idAge > DAY_SECONDS THEN {} ELSE e.ids
      <3>1. AfterCheck(e, id).ids = kept \cup ({id} \ e.ids)
        <4>1. AfterCheck(e, id) = RecordId(CountRequest(e), id)
          BY <1>2, <2>4 DEF AfterCheck
        <4>2. CountRequest(e).ids = e.ids /\ CountRequest(e).idAge = e.idAge
          BY DEF CountRequest
        <4> QED
          BY <4>1, <4>2 DEF RecordId
      <3>2. kept \in SUBSET Ids /\ Cardinality(kept) <= MaxIds
        <4>1. CASE e.idAge > DAY_SECONDS
          <5>1. kept = {}
            BY <4>1
          <5> QED
            BY <5>1, FS_EmptySet, DurationsAssumption
        <4>2. CASE ~ (e.idAge > DAY_SECONDS)
          <5>1. kept = e.ids /\ e.idAge <= DAY_SECONDS
            BY <2>1, <4>2, DurationsAssumption
          <5>2. Cardinality(e.ids) \in Nat
            BY <2>1, AddOneId
          <5> HIDE DEF kept
          <5> QED
            BY <2>1, <2>4, <5>1, <5>2, DurationsAssumption DEF IdsFull
        <4> QED
          BY <4>1, <4>2
      <3> HIDE DEF kept
      <3>3. kept \cup {id} \in SUBSET Ids
        BY <3>2
      <3>4. /\ Cardinality(kept) \in Nat
            /\ Cardinality(kept \cup {id}) \in Nat
            /\ Cardinality(kept \cup {id}) <= Cardinality(kept) + 1
        BY <3>2, <3>3, AddOneId
      <3>5. kept \cup ({id} \ e.ids) \in SUBSET (kept \cup {id})
        OBVIOUS
      <3>6. Cardinality(kept \cup ({id} \ e.ids)) <= Cardinality(kept \cup {id})
        BY <3>3, <3>5, AddOneId
      <3>7. Cardinality(kept \cup ({id} \ e.ids)) \in Nat
        BY <3>2, AddOneId
      <3> QED
        BY <2>2, <3>1, <3>2, <3>4, <3>6, <3>7, DurationsAssumption
    <2> QED
      BY <2>3, <2>4
  <1> QED
    BY <1>1, <1>2

-----------------------------------------------------------------------------
(***************************************************************************)
(* Type correctness, the accounting and the two bounds, together: the      *)
(* invariant that every operation on IP_BLOCKER keeps.                     *)
(***************************************************************************)
Inv == TypeOK /\ Accounting /\ BurstBounded /\ DistinctIdsBounded

LEMMA InitInv == Init => Inv
  <1> SUFFICES ASSUME Init PROVE Inv
    OBVIOUS
  <1>1. TypeOK
    BY DurationsAssumption DEF Init, TypeOK
  <1>2. Accounting
    BY DurationsAssumption
    DEF Init, Accounting, BurstCounted, IdsRecorded, CountersBounded
  <1>3. BurstBounded
    BY DurationsAssumption DEF Init, BurstBounded
  <1>4. DistinctIdsBounded
    BY FS_EmptySet, DurationsAssumption DEF Init, DistinctIdsBounded
  <1> QED
    BY <1>1, <1>2, <1>3, <1>4 DEF Inv

(***************************************************************************)
(* A call of check_ip_blocker keeps the invariant.                         *)
(***************************************************************************)
LEMMA CheckKeepsInv ==
    ASSUME Inv, NEW ip \in Ips, NEW id \in Ids, CheckIpBlocker(ip, id)
    PROVE  Inv'
  <1> DEFINE e == ipBlocker[ip]
             f == AfterCheck(e, id)
             ok == Passes(e, id)
  <1>1. /\ e \in Entry \cup {NoEntry}
        /\ burst[ip] \in Nat
        /\ lull[ip] \in 0 .. IP_BLOCK_DUR + 1
        /\ seen[ip] \in SUBSET Ids
    BY DEF Inv, TypeOK
  <1>2. f \in Entry /\ f # NoEntry
    BY <1>1, AfterCheckType, NoEntryAssumption
  <1>3. /\ ipBlocker'[ip] = f
        /\ burst'[ip] = IF ~ ok THEN burst[ip]
                        ELSE IF lull[ip] > IP_BLOCK_DUR THEN 1 ELSE burst[ip] + 1
        /\ lull'[ip] = IF ok THEN 0 ELSE lull[ip]
        /\ seen'[ip] = IF ~ ok THEN seen[ip]
                       ELSE IF OpensWindow(e) THEN {id} ELSE seen[ip] \cup {id}
    BY DEF Inv, TypeOK, CheckIpBlocker
  <1>4. \A q \in Ips : q # ip => /\ ipBlocker'[q] = ipBlocker[q]
                                 /\ burst'[q] = burst[q]
                                 /\ lull'[q] = lull[q]
                                 /\ seen'[q] = seen[q]
    BY DEF Inv, TypeOK, CheckIpBlocker
  <1>5. TypeOK'
    <2>1. ipBlocker' \in [Ips -> Entry \cup {NoEntry}]
      BY <1>2 DEF Inv, TypeOK, CheckIpBlocker
    <2>2. burst' \in [Ips -> Nat]
      BY <1>1 DEF Inv, TypeOK, CheckIpBlocker
    <2>3. lull' \in [Ips -> 0 .. IP_BLOCK_DUR + 1]
      BY <1>1, DurationsAssumption DEF Inv, TypeOK, CheckIpBlocker
    <2>4. seen' \in [Ips -> SUBSET Ids]
      BY <1>1 DEF Inv, TypeOK, CheckIpBlocker
    <2> QED
      BY <2>1, <2>2, <2>3, <2>4 DEF TypeOK
  <1>6. CountersBounded(ip)'
    <2>1. CountersBounded(ip)
      BY DEF Inv, Accounting
    <2>2. f.reqs <= MaxReqs + 1 /\ Cardinality(f.ids) <= MaxIds + 1
      BY <1>1, <2>1, AfterCheckBounds DEF CountersBounded
    <2> QED
      BY <1>3, <2>2 DEF CountersBounded
  <1>7. BurstCounted(ip)' /\ burst'[ip] <= MaxReqs + 2
    <2>1. BurstCounted(ip) /\ CountersBounded(ip) /\ burst[ip] <= MaxReqs + 2
      BY DEF Inv, Accounting, BurstBounded
    <2>2. CASE e = NoEntry
      <3>1. ok /\ f = FreshEntry /\ lull[ip] > IP_BLOCK_DUR
        BY <1>1, <2>1, <2>2, DurationsAssumption DEF Passes, AfterCheck, BurstCounted
      <3> QED
        BY <1>2, <1>3, <3>1, DurationsAssumption DEF BurstCounted, FreshEntry
    <2>3. CASE e # NoEntry /\ RateBlocked(e)
      <3>1. ~ ok /\ f = e
        BY <2>3 DEF Passes, AfterCheck
      <3> QED
        BY <1>2, <1>3, <2>1, <3>1 DEF BurstCounted
    <2>4. CASE e # NoEntry /\ ~ RateBlocked(e)
      <3>1. e \in Entry /\ e.reqs \in Nat /\ e.reqAge \in 0 .. IP_BLOCK_DUR + 1
        BY <1>1, <2>4 DEF Entry
      <3>2. /\ f.reqAge = 0
            /\ f.reqs = IF e.reqAge > IP_BLOCK_DUR THEN 1 ELSE e.reqs + 1
        BY <2>4 DEF AfterCheck, CountRequest, RecordId
      <3>3. lull[ip] <= IP_BLOCK_DUR => burst[ip] <= e.reqs + 1 /\ e.reqs <= MaxReqs
                                        /\ e.reqAge <= IP_BLOCK_DUR
        BY <1>1, <2>1, <2>4, <3>1, DurationsAssumption DEF BurstCounted, RateBlocked
      <3>4. /\ lull'[ip] <= IP_BLOCK_DUR => burst'[ip] <= f.reqs + 1
            /\ burst'[ip] <= MaxReqs + 2
            /\ lull'[ip] >= 0
        <4> HIDE DEF ok, f, e
        <4>1. CASE ok
          BY <1>1, <1>3, <3>1, <3>2, <3>3, <4>1, DurationsAssumption
        <4>2. CASE ~ ok
          BY <1>1, <1>3, <2>1, <3>1, <3>2, <3>3, <4>2, DurationsAssumption
        <4> QED
          BY <4>1, <4>2
      <3> QED
        BY <1>2, <1>3, <3>2, <3>4 DEF BurstCounted
    <2> QED
      BY <2>2, <2>3, <2>4
  <1>8. IdsRecorded(ip)' /\ Cardinality(seen'[ip]) <= MaxIds + 2
    <2>1. IdsRecorded(ip) /\ CountersBounded(ip) /\ Cardinality(seen[ip]) <= MaxIds + 2
      BY DEF Inv, Accounting, DistinctIdsBounded
    <2>2. Cardinality({id}) = 1
      BY FS_Singleton
    <2>3. CASE OpensWindow(e) /\ ok
      <3>1. seen'[ip] = {id}
        BY <1>3, <2>3
      <3>2. seen'[ip] \subseteq ipBlocker'[ip].ids \cup {id}
        BY <3>1
      <3>3. Cardinality(seen'[ip]) <= MaxIds + 2
        BY <2>2, <3>1, DurationsAssumption
      <3> QED
        BY <3>2, <3>3 DEF IdsRecorded
    <2>4. CASE ~ ok
      <3>1. e # NoEntry /\ f.ids = e.ids /\ seen'[ip] = seen[ip]
        BY <1>3, <2>4 DEF Passes, AfterCheck, CountRequest
      <3> QED
        BY <1>3, <2>1, <3>1 DEF IdsRecorded
    <2>5. CASE ~ OpensWindow(e) /\ ok
      <3>1. /\ e \in Entry /\ e.idAge \in Nat /\ e.ids \in SUBSET Ids
            /\ e # NoEntry /\ e.idAge <= DAY_SECONDS /\ ~ RateBlocked(e)
        BY <1>1, <2>5, DurationsAssumption DEF OpensWindow, Passes, Entry
      <3>2. PICK x \in Ids : seen[ip] \subseteq e.ids \cup {x}
        BY <2>1, <3>1 DEF IdsRecorded
      <3>3. f.ids = e.ids \cup {id}
        <4>1. CASE IdsFull(e)
          BY <2>5, <3>1, <4>1 DEF AfterCheck, CountRequest, Passes
        <4>2. CASE ~ IdsFull(e)
          <5>1. f = RecordId(CountRequest(e), id)
            BY <3>1, <4>2 DEF AfterCheck
          <5>2. CountRequest(e).ids = e.ids /\ CountRequest(e).idAge = e.idAge
            BY DEF CountRequest
          <5> HIDE DEF e, f
          <5> QED
            BY <3>1, <5>1, <5>2, DurationsAssumption DEF RecordId
        <4> QED
          BY <4>1, <4>2
      <3>4. seen'[ip] = seen[ip] \cup {id} /\ seen'[ip] \subseteq f.ids \cup {x}
        BY <1>3, <2>5, <3>2, <3>3
      <3>5. f.ids \in SUBSET Ids /\ Cardinality(f.ids) <= MaxIds + 1
        BY <1>2, <1>3, <1>6 DEF Entry, CountersBounded
      <3>6. /\ Cardinality(f.ids) \in Nat
            /\ Cardinality(f.ids \cup {x}) <= Cardinality(f.ids) + 1
        BY <3>5, AddOneId
      <3>7. /\ Cardinality(seen'[ip]) <= Cardinality(f.ids \cup {x})
            /\ Cardinality(f.ids \cup {x}) \in Nat /\ Cardinality(seen'[ip]) \in Nat
        BY <3>4, <3>5, AddOneId
      <3> HIDE DEF f
      <3> QED
        BY <1>3, <3>4, <3>5, <3>6, <3>7, DurationsAssumption DEF IdsRecorded
    <2> QED
      BY <2>3, <2>4, <2>5
  <1>9. Accounting'
    <2> SUFFICES ASSUME NEW q \in Ips
                 PROVE  (BurstCounted(q) /\ IdsRecorded(q) /\ CountersBounded(q))'
      BY DEF Accounting
    <2>1. CASE q = ip
      BY <1>6, <1>7, <1>8, <2>1
    <2>2. CASE q # ip
      BY <1>4, <2>2
      DEF Inv, Accounting, BurstCounted, IdsRecorded, CountersBounded
    <2> QED
      BY <2>1, <2>2
  <1>10. BurstBounded' /\ DistinctIdsBounded'
    BY <1>4, <1>7, <1>8 DEF Inv, BurstBounded, DistinctIdsBounded
  <1> QED
    BY <1>5, <1>9, <1>10 DEF Inv

(***************************************************************************)
(* The clean-up done by every ib command only drops entries both of whose  *)
(* windows are over, so no running burst is forgotten.                     *)
(***************************************************************************)
LEMMA ListKeepsInv == Inv /\ ListIpBlocker => Inv'
  <1> SUFFICES ASSUME Inv, ListIpBlocker PROVE Inv'
    OBVIOUS
  <1>1. TypeOK'
    BY DEF Inv, TypeOK, ListIpBlocker, Purged
  <1>2. Accounting'
    <2> SUFFICES ASSUME NEW q \in Ips
                 PROVE  (BurstCounted(q) /\ IdsRecorded(q) /\ CountersBounded(q))'
      BY DEF Accounting
    <2>1. BurstCounted(q) /\ IdsRecorded(q) /\ CountersBounded(q)
      BY DEF Inv, Accounting
    <2>2. /\ ipBlocker'[q] = IF Retained(ipBlocker[q]) THEN ipBlocker[q] ELSE NoEntry
          /\ burst' = burst /\ lull' = lull /\ seen' = seen
      BY DEF ListIpBlocker, Purged
    <2>3. ipBlocker[q] \in Entry \cup {NoEntry} /\ lull[q] \in 0 .. IP_BLOCK_DUR + 1
      BY DEF Inv, TypeOK
    <2>4. lull[q] <= IP_BLOCK_DUR => Retained(ipBlocker[q])
      BY <2>1, <2>3, DurationsAssumption DEF BurstCounted, Retained, Entry
    <2> QED
      BY <2>1, <2>2, <2>4 DEF BurstCounted, IdsRecorded, CountersBounded
  <1>3. BurstBounded' /\ DistinctIdsBounded'
    BY DEF Inv, ListIpBlocker, BurstBounded, DistinctIdsBounded
  <1> QED
    BY <1>1, <1>2, <1>3 DEF Inv

(***************************************************************************)
(* Removing an entry by hand keeps the invariant.                          *)
(***************************************************************************)
LEMMA RemoveKeepsInv ==
    ASSUME Inv, NEW ip \in Ips, RemoveIpBlocker(ip)
    PROVE  Inv'
  <1>1. TypeOK'
    BY DurationsAssumption DEF Inv, TypeOK, RemoveIpBlocker, Purged
  <1>2. Accounting'
    <2> SUFFICES ASSUME NEW q \in Ips
                 PROVE  (BurstCounted(q) /\ IdsRecorded(q) /\ CountersBounded(q))'
      BY DEF Accounting
    <2>1. BurstCounted(q) /\ IdsRecorded(q) /\ CountersBounded(q)
      BY DEF Inv, Accounting
    <2>2. CASE q = ip
      <3>1. ipBlocker'[q] = NoEntry /\ lull'[q] = IP_BLOCK_DUR + 1
        BY <2>2 DEF Inv, TypeOK, RemoveIpBlocker, Purged
      <3> QED
        BY <3>1, DurationsAssumption DEF BurstCounted, IdsRecorded, CountersBounded
    <2>3. CASE q # ip
      <3>1. /\ ipBlocker'[q] = IF Retained(ipBlocker[q]) THEN ipBlocker[q] ELSE NoEntry
            /\ burst'[q] = burst[q] /\ lull'[q] = lull[q] /\ seen'[q] = seen[q]
        BY <2>3 DEF Inv, TypeOK, RemoveIpBlocker, Purged
      <3>2. ipBlocker[q] \in Entry \cup {NoEntry} /\ lull[q] \in 0 .. IP_BLOCK_DUR + 1
        BY DEF Inv, TypeOK
      <3>3. lull[q] <= IP_BLOCK_DUR => Retained(ipBlocker[q])
        BY <2>1, <3>2, DurationsAssumption DEF BurstCounted, Retained, Entry
      <3> QED
        BY <2>1, <3>1, <3>3 DEF BurstCounted, IdsRecorded, CountersBounded
    <2> QED
      BY <2>2, <2>3
  <1>3. BurstBounded' /\ DistinctIdsBounded'
    BY FS_EmptySet, DurationsAssumption
    DEF Inv, TypeOK, RemoveIpBlocker, BurstBounded, DistinctIdsBounded
  <1> QED
    BY <1>1, <1>2, <1>3 DEF Inv

(***************************************************************************)
(* The passing of time keeps the invariant: the code's clocks never run    *)
(* ahead of the histories'.                                                *)
(***************************************************************************)
LEMMA TickKeepsInv == Inv /\ Tick => Inv'
  <1> SUFFICES ASSUME Inv, Tick PROVE Inv'
    OBVIOUS
  <1>1. \A e \in Entry : /\ Aged(e) \in Entry
                         /\ Aged(e).reqs = e.reqs /\ Aged(e).ids = e.ids
                         /\ Aged(e).reqAge = Older(e.reqAge, IP_BLOCK_DUR)
    BY DurationsAssumption DEF Aged, Entry, Older
  <1>2. \A q \in Ips :
            /\ ipBlocker'[q] = IF ipBlocker[q] = NoEntry THEN NoEntry
                               ELSE Aged(ipBlocker[q])
            /\ lull'[q] = Older(lull[q], IP_BLOCK_DUR)
            /\ burst'[q] = burst[q] /\ seen'[q] = seen[q]
    BY DEF Tick
  <1>3. \A q \in Ips : /\ ipBlocker[q] \in Entry \cup {NoEntry}
                       /\ lull[q] \in 0 .. IP_BLOCK_DUR + 1
    BY DEF Inv, TypeOK
  <1>4. TypeOK'
    <2>1. ipBlocker' \in [Ips -> Entry \cup {NoEntry}]
      <3>1. ipBlocker' = [q \in Ips |-> ipBlocker'[q]]
        BY DEF Tick
      <3>2. \A q \in Ips : ipBlocker'[q] \in Entry \cup {NoEntry}
        BY <1>1, <1>2, <1>3
      <3> QED
        BY <3>1, <3>2
    <2>2. lull' \in [Ips -> 0 .. IP_BLOCK_DUR + 1]
      BY <1>3, DurationsAssumption DEF Tick, Older
    <2> QED
      BY <2>1, <2>2 DEF Inv, TypeOK, Tick
  <1>5. Accounting'
    <2> SUFFICES ASSUME NEW q \in Ips
                 PROVE  (BurstCounted(q) /\ IdsRecorded(q) /\ CountersBounded(q))'
      BY DEF Accounting
    <2>1. BurstCounted(q) /\ IdsRecorded(q) /\ CountersBounded(q)
      BY DEF Inv, Accounting
    <2>2. CASE ipBlocker[q] = NoEntry
      BY <1>2, <1>3, <2>1, <2>2, DurationsAssumption
      DEF BurstCounted, IdsRecorded, CountersBounded, Older
    <2>3. CASE ipBlocker[q] # NoEntry
      <3>1. /\ ipBlocker'[q] # NoEntry
            /\ ipBlocker'[q].reqs = ipBlocker[q].reqs
            /\ ipBlocker'[q].ids = ipBlocker[q].ids
            /\ ipBlocker'[q].reqAge = Older(ipBlocker[q].reqAge, IP_BLOCK_DUR)
            /\ ipBlocker[q].reqAge \in 0 .. IP_BLOCK_DUR + 1
        BY <1>1, <1>2, <1>3, <2>3, NoEntryAssumption DEF Entry
      <3>2. BurstCounted(q)'
        BY <1>2, <1>3, <2>1, <3>1, DurationsAssumption DEF BurstCounted, Older
      <3>3. IdsRecorded(q)' /\ CountersBounded(q)'
        BY <1>2, <2>1, <2>3, <3>1 DEF IdsRecorded, CountersBounded
      <3> QED
        BY <3>2, <3>3
    <2> QED
      BY <2>2, <2>3
  <1>6. BurstBounded' /\ DistinctIdsBounded'
    BY DEF Inv, Tick, BurstBounded, DistinctIdsBounded
  <1> QED
    BY <1>4, <1>5, <1>6 DEF Inv

(***************************************************************************)
(* For every number of addresses and ids and all limits: the tables are    *)
(* well typed, no IP gets more than MaxReqs + 2 requests through           *)
(* check_ip_blocker in one burst, and none registers more than MaxIds + 2  *)
(* ids in one window.                                                      *)
(***************************************************************************)
THEOREM LimiterInvariant == Spec => []Inv
  <1>1. Inv /\ [Next]_vars => Inv'
    <2> SUFFICES ASSUME Inv, [Next]_vars PROVE Inv'
      OBVIOUS
    <2>1. CASE \E ip \in Ips, id \in Ids : CheckIpBlocker(ip, id)
      BY <2>1, CheckKeepsInv
    <2>2. CASE ListIpBlocker
      BY <2>2, ListKeepsInv
    <2>3. CASE \E ip \in Ips : RemoveIpBlocker(ip)
      BY <2>3, RemoveKeepsInv
    <2>4. CASE Tick
      BY <2>4, TickKeepsInv
    <2>5. CASE UNCHANGED vars
      BY <2>5 DEF Inv, TypeOK, Accounting, BurstCounted, IdsRecorded, CountersBounded,
                  BurstBounded, DistinctIdsBounded, vars
    <2> QED
      BY <2>1, <2>2, <2>3, <2>4, <2>5 DEF Next
  <1> QED
    BY InitInv, <1>1, PTL DEF Spec

(***************************************************************************)
(* The bound on a burst of requests of one IP.                             *)
(***************************************************************************)
THEOREM BurstIsBounded == Spec => []BurstBounded
  BY LimiterInvariant, PTL DEF Inv

(***************************************************************************)
(* The bound on the ids of one IP.                                         *)
(***************************************************************************)
THEOREM DistinctIdsAreBounded == Spec => []DistinctIdsBounded
  BY LimiterInvariant, PTL DEF Inv
=============================================================================
