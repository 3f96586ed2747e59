------------------------- MODULE RelayPairingProofs -------------------------
(***************************************************************************)
(* Proofs about RelayPairing, for any number of connections, uuids and     *)
(* addresses: Places is inductive, it rules out cross talk, and with it    *)
(* every step of hbbr is a step of RelayMatch or leaves it alone.          *)
(***************************************************************************)
EXTENDS RelayPairing, TLAPS

Inv == TypeOK /\ Places

LEMMA InitInv == Init => Inv
  <1> SUFFICES ASSUME Init PROVE Inv
    OBVIOUS
  <1>1. (CHOOSE u \in Uuids : TRUE) \in Uuids /\ (CHOOSE s \in Sources : TRUE) \in Sources
    BY ConstantsAssumption
  <1>2. TypeOK
    BY <1>1, ConstantsAssumption DEF Init, TypeOK
  <1>3. Places
    BY DEF Init, Places, ParkedByOwner, PlacesOfTask, PlacesOfStream
  <1> QED
    BY <1>2, <1>3 DEF Inv

(***************************************************************************)
(* Every step keeps the types.                                             *)
(***************************************************************************)
LEMMA TypeStep == Inv /\ [Next]_vars => TypeOK'
  <1> SUFFICES ASSUME Inv, [Next]_vars PROVE TypeOK'
    OBVIOUS
  <1> USE ConstantsAssumption DEF Inv, TypeOK
  <1>1. ASSUME NEW c \in Conns, NEW u \in Uuids, NEW s \in Sources, Accept(c, u, s) PROVE TypeOK'
    BY <1>1 DEF Accept
  <1>2. ASSUME NEW c \in Conns, Reject(c) \/ LookupMiss(c) PROVE TypeOK'
    BY <1>2 DEF Reject, LookupMiss
  <1>9. ASSUME NEW c \in Conns, LookupHit(c) PROVE TypeOK'
    <2>1. PEERS[uuid[c]] \in Conns
      BY <1>9 DEF LookupHit
    <2>2. /\ partner' \in [Conns -> Conns \cup {None}]
          /\ stream' \in [Conns -> {"closed", "own", "parked", "taken"}]
      BY <1>9, <2>1 DEF LookupHit
    <2>3. PEERS' \in [Uuids -> Conns \cup {None}]
      BY <1>9 DEF LookupHit
    <2>4. pc' \in [Conns -> {"free", "reading", "park", "sleep", "enter", "relay", "leave"}]
      BY <1>9 DEF LookupHit
    <2>5. UNCHANGED <<uuid, source, age, USAGE>>
      BY <1>9 DEF LookupHit
    <2> QED
      BY <2>2, <2>3, <2>4, <2>5
  <1>3. ASSUME NEW c \in Conns, Park(c) \/ Wake(c) PROVE TypeOK'
    <2>1. DropEntry(uuid[c]) \in [Conns -> {"closed", "own", "parked", "taken"}]
      BY DEF DropEntry
    <2>2. stream' \in [Conns -> {"closed", "own", "parked", "taken"}]
      BY <1>3, <2>1 DEF Park, Wake
    <2>3. PEERS' \in [Uuids -> Conns \cup {None}]
      BY <1>3 DEF Park, Wake
    <2>4. pc' \in [Conns -> {"free", "reading", "park", "sleep", "enter", "relay", "leave"}]
      BY <1>3 DEF Park, Wake
    <2>5. age' \in [Conns -> 0 .. SLEEP]
      <3>1. age' = [age EXCEPT ![c] = 0] /\ 0 \in 0 .. SLEEP
        BY <1>3 DEF Park, Wake
      <3> QED
        BY <3>1
    <2>6. UNCHANGED <<uuid, source, partner, USAGE>>
      BY <1>3 DEF Park, Wake
    <2> QED
      BY <2>2, <2>3, <2>4, <2>5, <2>6
  <1>4. ASSUME NEW c \in Conns, EnterRelay(c) \/ Report(c) PROVE TypeOK'
    <2>1. UsageId(c) \in Conns \cup Ips
      BY DEF UsageId
    <2> QED
      BY <1>4, <2>1 DEF EnterRelay, Report
  <1>5. ASSUME NEW c \in Conns, RelayEnd(c) PROVE TypeOK'
    BY <1>5 DEF RelayEnd
  <1>10. ASSUME NEW c \in Conns, Leave(c) PROVE TypeOK'
    <2>1. stream' \in [Conns -> {"closed", "own", "parked", "taken"}]
      BY <1>10 DEF Leave
    <2> QED
      BY <1>10, <2>1 DEF Leave
  <1>7. CASE Tick
    BY <1>7 DEF Tick
  <1>8. CASE UNCHANGED vars
    BY <1>8 DEF vars
  <1> QED
    BY <1>1, <1>2, <1>3, <1>4, <1>5, <1>7, <1>8, <1>9, <1>10 DEF Next, Task

(***************************************************************************)
(* A step that moves no stream, partner or entry, and no task in or out of *)
(* the places that matter, keeps Places.                                   *)
(***************************************************************************)
LEMMA PlacesFrame ==
    ASSUME Inv, stream' = stream, partner' = partner, PEERS' = PEERS, uuid' = uuid,
           \A c \in Conns : \/ pc'[c] = pc[c]
                            \/ pc[c] = "reading" /\ pc'[c] = "park"
                            \/ pc[c] \in {"enter", "relay"} /\ pc'[c] \in {"relay", "leave"}
    PROVE  Places'
  BY DEF Inv, TypeOK, Places, ParkedByOwner, PlacesOfTask, PlacesOfStream

(***************************************************************************)
(* Every step keeps every stream in one place.                             *)
(***************************************************************************)
LEMMA PlacesStep == Inv /\ [Next]_vars => Places'
  <1> SUFFICES ASSUME Inv, [Next]_vars PROVE Places'
    OBVIOUS
  <1>0. /\ \A c \in Conns : PlacesOfTask(c) /\ PlacesOfStream(c)
        /\ ParkedByOwner /\ TypeOK /\ None \notin Conns
    BY ConstantsAssumption DEF Inv, Places
  <1>1. ASSUME NEW c \in Conns, NEW u \in Uuids, NEW s \in Sources, Accept(c, u, s)
        PROVE  Places'
    BY <1>0, <1>1
    DEF Accept, TypeOK, Places, ParkedByOwner, PlacesOfTask, PlacesOfStream
  <1>2. ASSUME NEW c \in Conns, Reject(c) PROVE Places'
    BY <1>0, <1>2
    DEF Reject, TypeOK, Places, ParkedByOwner, PlacesOfTask, PlacesOfStream
  <1>3. ASSUME NEW c \in Conns, LookupMiss(c) \/ EnterRelay(c) \/ Report(c) \/ RelayEnd(c)
        PROVE  Places'
    BY <1>3, PlacesFrame DEF Inv, TypeOK, LookupMiss, EnterRelay, Report, RelayEnd
  <1>4. ASSUME NEW c \in Conns, LookupHit(c) PROVE Places'
    BY <1>0, <1>4
    DEF LookupHit, TypeOK, Places, ParkedByOwner, PlacesOfTask, PlacesOfStream
  <1>5. ASSUME NEW c \in Conns, Park(c) PROVE Places'
    BY <1>0, <1>5
    DEF Park, DropEntry, TypeOK, Places, ParkedByOwner, PlacesOfTask, PlacesOfStream
  <1>6. ASSUME NEW c \in Conns, Wake(c) PROVE Places'
    BY <1>0, <1>6
    DEF Wake, DropEntry, TypeOK, Places, ParkedByOwner, PlacesOfTask, PlacesOfStream
  <1>7. ASSUME NEW c \in Conns, Leave(c) PROVE Places'
    BY <1>0, <1>7
    DEF Leave, TypeOK, Places, ParkedByOwner, PlacesOfTask, PlacesOfStream
  <1>8. CASE Tick \/ UNCHANGED vars
    BY <1>8, PlacesFrame DEF Tick, vars
  <1> QED
    BY <1>0, <1>1, <1>2, <1>3, <1>4, <1>5, <1>6, <1>7, <1>8 DEF Next, Task, TypeOK

(***************************************************************************)
(* hbbr always knows where every stream is: parked streams have a task     *)
(* that will drop them, taken ones a relay.                                *)
(***************************************************************************)
THEOREM PlacesInvariant == Spec => []Inv
  <1>1. Inv /\ [Next]_vars => Inv'
    BY TypeStep, PlacesStep DEF Inv
  <1> QED
    BY InitInv, <1>1, PTL DEF Spec

-----------------------------------------------------------------------------
(* The reports in USAGE *)

\* Reports and running relays correspond.
UsageInv == UsageActive /\ TcpRelayReported

(***************************************************************************)
(* A step that moves no relay and no report keeps them in correspondence.  *)
(***************************************************************************)
LEMMA UsageFrame ==
    ASSUME TypeOK, UsageInv, USAGE' = USAGE,
           \A c \in Conns : /\ (pc'[c] = "relay") => (pc[c] = "relay")
                            /\ (pc[c] \in {"relay", "leave"}) => (pc'[c] \in {"relay", "leave"})
                            /\ (pc[c] \in {"relay", "leave"}) => (source'[c] = source[c])
    PROVE  UsageInv'
  BY DEF TypeOK, UsageInv, UsageActive, TcpRelayReported, UsageId

LEMMA UsageStep == TypeOK /\ UsageInv /\ [Next]_vars => UsageInv'
  <1> SUFFICES ASSUME TypeOK, UsageInv, [Next]_vars PROVE UsageInv'
    OBVIOUS
  <1>1. ASSUME NEW c \in Conns, NEW u \in Uuids, NEW s \in Sources, Accept(c, u, s)
        PROVE  UsageInv'
    BY <1>1, UsageFrame DEF Accept, TypeOK
  <1>2. ASSUME NEW c \in Conns, Reject(c) \/ LookupMiss(c) \/ LookupHit(c) PROVE UsageInv'
    BY <1>2, UsageFrame DEF Reject, LookupMiss, LookupHit, TypeOK
  <1>3. ASSUME NEW c \in Conns, Park(c) \/ Wake(c) \/ RelayEnd(c) PROVE UsageInv'
    BY <1>3, UsageFrame DEF Park, Wake, RelayEnd, TypeOK
  <1>4. ASSUME NEW c \in Conns, EnterRelay(c) \/ Report(c) PROVE UsageInv'
    <2>1. /\ USAGE' = USAGE \cup {UsageId(c)} /\ source' = source /\ pc'[c] = "relay"
          /\ \A d \in Conns : d # c => pc'[d] = pc[d]
      BY <1>4 DEF EnterRelay, Report, TypeOK
    <2> QED
      BY <2>1 DEF UsageInv, UsageActive, TcpRelayReported, UsageId
  <1>5. ASSUME NEW c \in Conns, Leave(c) PROVE UsageInv'
    <2>1. /\ USAGE' = USAGE \ {UsageId(c)} /\ source' = source /\ pc'[c] = "free"
          /\ \A d \in Conns : d # c => pc'[d] = pc[d]
      BY <1>5 DEF Leave, TypeOK
    <2>2. \A d \in Conns : d # c /\ ~ source[d].ws => UsageId(d) # UsageId(c)
      BY ConstantsAssumption DEF UsageId, TypeOK
    <2> QED
      BY <2>1, <2>2 DEF UsageInv, UsageActive, TcpRelayReported, UsageId
  <1>6. CASE Tick \/ UNCHANGED vars
    BY <1>6, UsageFrame DEF Tick, vars
  <1> QED
    BY <1>1, <1>2, <1>3, <1>4, <1>5, <1>6 DEF Next, Task

LEMMA UsageAlways == Spec => []UsageInv
  <1>1. Init => UsageInv
    BY DEF Init, UsageInv, UsageActive, TcpRelayReported
  <1>2. Inv => TypeOK
    BY DEF Inv
  <1> QED
    BY <1>1, <1>2, PlacesInvariant, UsageStep, PTL DEF Spec

(***************************************************************************)
(* USAGE names running relays only: make_pair_ removes the line it wrote   *)
(* when its relay is over, for any number of connections that share proxy  *)
(* addresses.                                                              *)
(***************************************************************************)
THEOREM ReportsFollowRelays == Spec => []UsageActive
  <1>1. UsageInv => UsageActive
    BY DEF UsageInv
  <1> QED
    BY <1>1, UsageAlways, PTL

(***************************************************************************)
(* Every running relay that a TCP client opened has its line in USAGE: no  *)
(* other relay's end removes it, because no two TCP connections that are   *)
(* open together have the same address.                                    *)
(***************************************************************************)
THEOREM TcpRelaysReported == Spec => []TcpRelayReported
  <1>1. UsageInv => TcpRelayReported
    BY DEF UsageInv
  <1> QED
    BY <1>1, UsageAlways, PTL

-----------------------------------------------------------------------------
(* Early drops *)

(***************************************************************************)
(* Only an insert or a timer of the same uuid drops a parked stream, and   *)
(* the timer of its own task only after SLEEP.                             *)
(***************************************************************************)
LEMMA DropStep ==
    ASSUME Inv, [Next]_vars,
           NEW c \in Conns, stream[c] = "parked", stream'[c] = "closed", age[c] < SLEEP
    PROVE  \E d \in Conns \ {c} : uuid[d] = uuid[c] /\ pc[d] \in {"park", "sleep"}
  <1>0. /\ TypeOK /\ None \notin Conns /\ SLEEP \in Nat
        /\ \A d \in Conns : PlacesOfTask(d) /\ PlacesOfStream(d)
    BY ConstantsAssumption DEF Inv, Places
  <1>1. pc[c] = "sleep"
    BY <1>0 DEF PlacesOfTask, Inv, Places, ParkedByOwner, PlacesOfStream, TypeOK
  <1>2. ASSUME NEW d \in Conns, PEERS[uuid[d]] = c, pc[d] \in {"park", "sleep"}, d # c
        PROVE  uuid[d] = uuid[c] /\ d \in Conns \ {c}
    BY <1>0, <1>2 DEF Inv, Places, ParkedByOwner, TypeOK
  <1>3. ASSUME NEW d \in Conns, Park(d) PROVE PEERS[uuid[d]] = c /\ pc[d] = "park" /\ d # c
    BY <1>0, <1>1, <1>3 DEF Park, DropEntry, TypeOK
  <1>4. ASSUME NEW d \in Conns, Wake(d) PROVE PEERS[uuid[d]] = c /\ pc[d] = "sleep" /\ d # c
    BY <1>0, <1>4 DEF Wake, DropEntry, TypeOK
  <1>5. ASSUME NEW d \in Conns, Leave(d) PROVE FALSE
    BY <1>0, <1>1, <1>5 DEF Leave, PlacesOfTask, PlacesOfStream, TypeOK
  <1>6. ASSUME NEW d \in Conns, Reject(d) \/ LookupHit(d) PROVE FALSE
    BY <1>0, <1>1, <1>6 DEF Reject, LookupHit, TypeOK
  <1>7. ASSUME NEW d \in Conns, NEW u \in Uuids, NEW s \in Sources, Accept(d, u, s)
        PROVE  FALSE
    BY <1>0, <1>7 DEF Accept, TypeOK
  <1>8. ASSUME NEW d \in Conns, LookupMiss(d) \/ EnterRelay(d) \/ Report(d) \/ RelayEnd(d)
        PROVE  FALSE
    BY <1>8 DEF LookupMiss, EnterRelay, Report, RelayEnd
  <1>9. ~ (Tick \/ UNCHANGED vars)
    BY DEF Tick, vars
  <1>10. PICK d \in Conns : Park(d) \/ Wake(d)
    BY <1>5, <1>6, <1>7, <1>8, <1>9 DEF Next, Task
  <1> QED
    BY <1>2, <1>3, <1>4, <1>10

(***************************************************************************)
(* No stream parked in PEERS is dropped before its 30 s unless another     *)
(* connection uses its uuid, for any number of connections and uuids.      *)
(***************************************************************************)
THEOREM EarlyDrops == Spec => EarlyDropMeansReuse
  <1> DEFINE A == \A c \in Conns :
                    stream[c] = "parked" /\ stream'[c] = "closed" /\ age[c] < SLEEP =>
                       \E d \in Conns \ {c} : uuid[d] = uuid[c] /\ pc[d] \in {"park", "sleep"}
  <1>1. Inv /\ [Next]_vars => [A]_vars
    BY DropStep
  <1> QED
    BY <1>1, PlacesInvariant, PTL DEF Spec, EarlyDropMeansReuse

-----------------------------------------------------------------------------
(* The refinement of RelayMatch *)

links == {LinkOf(c) : c \in {d \in Conns : partner[d] # None}}

LEMMA LinkFacts ==
    ASSUME Inv
    PROVE  /\ \A c \in Conns : Match!Linked(c) =>
                \/ partner[c] # None
                \/ stream[c] = "taken" /\ \E d \in Conns : partner[d] = c
           /\ \A c \in Conns : Match!Waits(c) => stream[c] = "parked" /\ pc[c] = "sleep"
  BY ConstantsAssumption
  DEF Inv, TypeOK, Places, ParkedByOwner, PlacesOfTask, PlacesOfStream,
      Match!Linked, Match!Waits, LinkOf

(***************************************************************************)
(* No client receives the bytes of another pair, for any number of         *)
(* connections and uuids.                                                  *)
(***************************************************************************)
THEOREM NoCrossTalkAlways == Spec => []NoCrossTalk
  <1>1. ASSUME Inv PROVE NoCrossTalk
    <2>1. \A l, m \in links : {l.first, l.second} \cap {m.first, m.second} # {} => l = m
      BY <1>1, ConstantsAssumption
      DEF links, LinkOf, Inv, TypeOK, Places, PlacesOfTask, PlacesOfStream
    <2>2. \A l \in links : l.first # l.second
      BY <1>1, ConstantsAssumption
      DEF links, LinkOf, Inv, TypeOK, Places, PlacesOfTask, PlacesOfStream
    <2>3. \A c \in Conns : ~ (Match!Linked(c) /\ Match!Waits(c))
      BY <1>1, LinkFacts DEF Inv, Places, PlacesOfTask
    <2>4. \A u, v \in Uuids : PEERS[u] # None /\ PEERS[u] = PEERS[v] => u = v
      BY <1>1 DEF Inv, Places, ParkedByOwner
    <2> QED
      BY <2>1, <2>2, <2>3, <2>4 DEF NoCrossTalk, Match!Exclusive, links
  <1> QED
    BY <1>1, PlacesInvariant, PTL

(***************************************************************************)
(* Every step of hbbr is a step of RelayMatch or leaves PEERS and the      *)
(* relays as they are.                                                     *)
(***************************************************************************)
LEMMA MatchStep == Inv /\ [Next]_vars => [Match!Next]_(Match!vars)
  <1> SUFFICES ASSUME Inv, [Next]_vars PROVE [Match!Next]_(Match!vars)
    OBVIOUS
  <1>0. TypeOK /\ None \notin Conns /\ Places
    BY ConstantsAssumption DEF Inv
  <1>1. ASSUME PEERS' = PEERS, partner' = partner,
               \A c \in Conns : partner[c] # None => uuid'[c] = uuid[c]
        PROVE  UNCHANGED Match!vars
    <2>1. links' = links
      BY <1>1 DEF links, LinkOf
    <2> QED
      BY <1>1, <2>1 DEF Match!vars, links
  <1>2. ASSUME NEW c \in Conns, NEW u \in Uuids, NEW s \in Sources, Accept(c, u, s)
        PROVE  UNCHANGED Match!vars
    <2>1. partner[c] = None /\ \A d \in Conns : d # c => uuid'[d] = uuid[d]
      BY <1>0, <1>2 DEF Accept, Places, PlacesOfTask, TypeOK
    <2> QED
      BY <1>1, <1>2, <2>1 DEF Accept
  <1>3. ASSUME NEW c \in Conns, Reject(c) \/ LookupMiss(c) \/ EnterRelay(c) \/ Report(c)
                                \/ RelayEnd(c)
        PROVE  UNCHANGED Match!vars
    BY <1>1, <1>3 DEF Reject, LookupMiss, EnterRelay, Report, RelayEnd
  <1>4. ASSUME NEW c \in Conns, LookupHit(c) PROVE Match!Meet(c, uuid[c])
    <2>1. uuid[c] \in Uuids /\ partner[c] = None /\ stream[c] = "own" /\ PEERS[uuid[c]] \in Conns
      BY <1>0, <1>4 DEF LookupHit, Places, PlacesOfTask, TypeOK
    <2>2. ~ Match!Linked(c) /\ ~ Match!Waits(c)
      BY <2>1, LinkFacts
    <2>3. links' = links \cup {[first |-> PEERS[uuid[c]], second |-> c, uuid |-> uuid[c]]}
      <3>1. /\ partner'[c] = PEERS[uuid[c]] /\ uuid' = uuid
            /\ \A d \in Conns : d # c => partner'[d] = partner[d]
        BY <1>0, <1>4 DEF LookupHit, TypeOK
      <3> QED
        BY <1>0, <2>1, <3>1 DEF links, LinkOf
    <2> QED
      BY <1>4, <2>2, <2>3 DEF LookupHit, Match!Meet, links
  <1>5. ASSUME NEW c \in Conns, Park(c) PROVE Match!Wait(c, uuid[c])
    <2>1. partner[c] = None /\ stream[c] = "own"
      BY <1>0, <1>5 DEF Park, Places, PlacesOfTask
    <2>2. ~ Match!Linked(c) /\ ~ Match!Waits(c)
      BY <2>1, LinkFacts
    <2>3. links' = links
      BY <1>5 DEF Park, links, LinkOf
    <2> QED
      BY <1>5, <2>2, <2>3 DEF Park, Match!Wait, links
  <1>6. ASSUME NEW c \in Conns, Wake(c) PROVE Match!Forget(uuid[c]) \/ UNCHANGED Match!vars
    <2>1. links' = links /\ PEERS' = [PEERS EXCEPT ![uuid[c]] = None]
      BY <1>6 DEF Wake, links, LinkOf
    <2>2. CASE PEERS[uuid[c]] = None
      <3>1. PEERS' = PEERS
        BY <1>0, <2>1, <2>2 DEF TypeOK
      <3> QED
        BY <2>1, <3>1 DEF Match!vars, links
    <2>3. CASE PEERS[uuid[c]] # None
      BY <2>1, <2>3 DEF Match!Forget, links
    <2> QED
      BY <2>2, <2>3
  <1>7. ASSUME NEW c \in Conns, Leave(c) PROVE Match!Part(LinkOf(c)) /\ LinkOf(c) \in links
    <2>1. /\ partner[c] # None /\ partner'[c] = None /\ uuid' = uuid /\ PEERS' = PEERS
          /\ \A d \in Conns : d # c => partner'[d] = partner[d]
      BY <1>0, <1>7 DEF Leave, Places, PlacesOfTask, TypeOK
    <2>2. links' = links \ {LinkOf(c)}
      BY <2>1 DEF links, LinkOf
    <2>3. LinkOf(c) \in links
      BY <2>1 DEF links
    <2> QED
      BY <2>1, <2>2, <2>3 DEF Match!Part, links
  <1>8. CASE Tick \/ UNCHANGED vars
    BY <1>1, <1>8 DEF Tick, vars
  <1>9. \A c \in Conns : uuid[c] \in Uuids
    BY <1>0 DEF TypeOK
  <1> QED
    <2>1. CASE \E c \in Conns : LookupHit(c) \/ Park(c)
      <3>1. PICK c \in Conns : Match!Wait(c, uuid[c]) \/ Match!Meet(c, uuid[c])
        BY <1>4, <1>5, <2>1
      <3>2. PICK u \in Uuids : u = uuid[c]
        BY <1>9
      <3>3. Match!Wait(c, u) \/ Match!Meet(c, u)
        BY <3>1, <3>2 DEF Match!Wait, Match!Meet
      <3> QED
        BY <3>3 DEF Match!Next
    <2>2. CASE \E c \in Conns : Wake(c)
      BY <1>6, <1>9, <2>2 DEF Match!Next
    <2>3. CASE \E c \in Conns : Leave(c)
      <3>1. PICK c \in Conns : Match!Part(LinkOf(c)) /\ LinkOf(c) \in links
        BY <1>7, <2>3
      <3>2. PICK l \in links : l = LinkOf(c)
        BY <3>1
      <3>3. Match!Part(l)
        BY <3>1, <3>2 DEF Match!Part
      <3> QED
        BY <3>3 DEF Match!Next, links
    <2>4. CASE \E c \in Conns : \/ \E u \in Uuids, s \in Sources : Accept(c, u, s)
                               \/ Reject(c) \/ LookupMiss(c) \/ EnterRelay(c)
                               \/ Report(c) \/ RelayEnd(c)
      BY <1>2, <1>3, <2>4
    <2>5. CASE Tick \/ UNCHANGED vars
      BY <1>8, <2>5 DEF Match!vars
    <2> QED
      BY <1>0, <2>1, <2>2, <2>3, <2>4, <2>5 DEF Next, Task, TypeOK

(***************************************************************************)
(* make_pair_ with its tables and timers implements RelayMatch.            *)
(***************************************************************************)
THEOREM Refinement == Spec => RefinesMatch
  <1>1. Init => Match!Init
    BY DEF Init, Match!Init
  <1> QED
    BY <1>1, PlacesInvariant, MatchStep, PTL DEF Spec, RefinesMatch, Match!Spec
=============================================================================
