--------------------------- MODULE HbbsListsProofs ---------------------------
(***************************************************************************)
(* Proofs about the lists that hbbs keeps: the punch hole requests it      *)
(* records and the online status it answers (PunchRequests), and the relay *)
(* servers it hands out (RelayServers), for all peers, clients, servers,   *)
(* limits and lengths of the lists.                                        *)
(***************************************************************************)
EXTENDS PunchRequests, RelayServers, SequenceTheorems, WellFoundedInduction, TLAPS

-----------------------------------------------------------------------------
(* Punch hole requests *)

TypeOK ==
    /\ memory \subseteq Ids /\ elapsed \in [Ids -> Nat]
    /\ PUNCH_REQS \in Seq(Entry)
    /\ peers \in Seq(Ids)

\* An earlier entry of the log is at least as old as a later one.
OldestFirst ==
    \A i, j \in 1 .. Len(PUNCH_REQS) : i < j => PUNCH_REQS[j].age <= PUNCH_REQS[i].age

LogInv == TypeOK /\ OldestFirst /\ Deduped

(***************************************************************************)
(* A non-empty set of positions has a last one.                            *)
(***************************************************************************)
LEMMA LastPosition ==
    ASSUME NEW n \in Nat, NEW S, S \subseteq 1 .. n, S # {}
    PROVE  \E x \in S : \A y \in S : y <= x
  <1> DEFINE R == OpToRel(<, Nat)
             T == {n - x : x \in S}
  <1>0. \A x \in S : x \in Nat /\ x <= n /\ n - x \in Nat
    OBVIOUS
  <1>1. T \subseteq Nat /\ T # {}
    BY <1>0
  <1>2. IsWellFoundedOn(R, Nat)
    BY NatLessThanWellFounded
  <1>3. PICK d \in T : \A e \in T : ~ (<<e, d>> \in R)
    <2> HIDE DEF R, T
    <2> QED
      BY <1>1, <1>2, WFMin
  <1>4. \A e \in T : ~ (e < d)
    BY <1>1, <1>3 DEF OpToRel
  <1>5. PICK x \in S : d = n - x
    OBVIOUS
  <1>6. \A y \in S : ~ (n - y < n - x)
    BY <1>4, <1>5
  <1> QED
    BY <1>0, <1>6

(***************************************************************************)
(* The clock only makes entries older, and keeps their order.              *)
(***************************************************************************)
LEMMA OlderEntries ==
    ASSUME NEW e \in Entry
    PROVE  /\ Older(e) \in Entry /\ Older(e).from = e.from /\ Older(e).to = e.to
           /\ Older(e).age >= e.age
           /\ \A f \in Entry : e.age <= f.age => Older(e).age <= Older(f).age
  BY ConstantsAssumption DEF Older, Entry

(***************************************************************************)
(* What the search of handle_punch_hole_request means: if it finds no      *)
(* duplicate, every recent entry of the pair is out of its reach.          *)
(***************************************************************************)
LEMMA NoDuplicate ==
    ASSUME TypeOK, OldestFirst, NEW from, NEW to, ~ Duplicate(from, to),
           NEW i \in 1 .. Len(PUNCH_REQS), SamePair(i, from, to),
           PUNCH_REQS[i].age < PUNCH_REQ_DEDUPE_SEC
    PROVE  Len(PUNCH_REQS) >= i + TAIL
  <1> SUFFICES ASSUME i + TAIL > Len(PUNCH_REQS) PROVE FALSE
    BY ConstantsAssumption, LenProperties DEF TypeOK
  <1> DEFINE S == {k \in Searched : SamePair(k, from, to)}
  <1>1. Len(PUNCH_REQS) \in Nat /\ \A k \in 1 .. Len(PUNCH_REQS) : PUNCH_REQS[k].age \in Nat
    <2>1. \A k \in 1 .. Len(PUNCH_REQS) : PUNCH_REQS[k] \in Entry
      BY ElementOfSeq DEF TypeOK
    <2>2. \A f \in Entry : f.age \in Nat
      BY ConstantsAssumption DEF Entry
    <2> QED
      BY <2>1, <2>2, LenProperties DEF TypeOK
  <1>2. S \subseteq 1 .. Len(PUNCH_REQS) /\ i \in S
    BY DEF Searched
  <1>3. PICK k \in S : \A j \in S : j <= k
    <2> HIDE DEF S
    <2> QED
      BY <1>1, <1>2, LastPosition
  <1>4. PUNCH_REQS[k].age <= PUNCH_REQS[i].age
    BY <1>1, <1>2, <1>3 DEF OldestFirst
  <1> QED
    BY <1>1, <1>2, <1>3, <1>4, ConstantsAssumption DEF Duplicate

(***************************************************************************)
(* Recording a request that is no duplicate keeps the log deduped.         *)
(***************************************************************************)
LEMMA RecordKeeps ==
    ASSUME LogInv, NEW from \in Ips, NEW to \in Ids, ~ Duplicate(from, to),
           PUNCH_REQS' = Append(PUNCH_REQS, [age |-> 0, from |-> from, to |-> to])
    PROVE  PUNCH_REQS' \in Seq(Entry) /\ OldestFirst' /\ Deduped'
  <1> DEFINE e == [age |-> 0, from |-> from, to |-> to]
             n == Len(PUNCH_REQS)
  <1>1. e \in Entry
    BY ConstantsAssumption DEF Entry
  <1>2. /\ PUNCH_REQS' \in Seq(Entry) /\ Len(PUNCH_REQS') = n + 1 /\ n \in Nat
        /\ \A i \in 1 .. n : PUNCH_REQS'[i] = PUNCH_REQS[i] /\ PUNCH_REQS[i] \in Entry
        /\ PUNCH_REQS'[n + 1] = e
    BY <1>1, AppendProperties, ElementOfSeq, LenProperties DEF LogInv, TypeOK
  <1>3. e.age = 0 /\ e.from = from /\ e.to = to
    OBVIOUS
  <1>4. \A i \in 1 .. n : PUNCH_REQS[i].age \in Nat
    BY <1>2 DEF Entry
  <1> HIDE DEF e, n
  <1>5. OldestFirst'
    <2> SUFFICES ASSUME NEW i \in 1 .. n + 1, NEW j \in 1 .. n + 1, i < j
                 PROVE  PUNCH_REQS'[j].age <= PUNCH_REQS'[i].age
      BY <1>2 DEF OldestFirst
    <2>1. CASE j = n + 1
      BY <1>2, <1>3, <1>4, <2>1
    <2>2. CASE j # n + 1
      <3>1. i \in 1 .. n /\ j \in 1 .. n
        BY <1>2, <2>2
      <3>2. PUNCH_REQS[j].age <= PUNCH_REQS[i].age
        BY <3>1 DEF LogInv, OldestFirst, n
      <3> QED
        BY <1>2, <3>1, <3>2
    <2> QED
      BY <2>1, <2>2
  <1>6. Deduped'
    <2> SUFFICES ASSUME NEW i \in 1 .. n + 1, NEW j \in 1 .. n + 1, i < j,
                        PUNCH_REQS'[i].from = PUNCH_REQS'[j].from,
                        PUNCH_REQS'[i].to = PUNCH_REQS'[j].to,
                        PUNCH_REQS'[i].age < PUNCH_REQ_DEDUPE_SEC
                 PROVE  j > i + TAIL
      BY <1>2 DEF Deduped, SamePair
    <2>1. CASE j = n + 1
      <3>1. i \in 1 .. n /\ PUNCH_REQS'[i] = PUNCH_REQS[i]
        BY <1>2, <2>1
      <3>2. SamePair(i, from, to) /\ PUNCH_REQS[i].age < PUNCH_REQ_DEDUPE_SEC
        BY <1>2, <1>3, <2>1, <3>1 DEF SamePair
      <3>3. n >= i + TAIL
        BY <3>1, <3>2, NoDuplicate DEF LogInv, n
      <3> QED
        BY <1>2, <2>1, <3>1, <3>3, ConstantsAssumption
    <2>2. CASE j # n + 1
      <3>1. i \in 1 .. n /\ j \in 1 .. n
        BY <1>2, <2>2
      <3>2. PUNCH_REQS'[i] = PUNCH_REQS[i] /\ PUNCH_REQS'[j] = PUNCH_REQS[j]
        BY <1>2, <3>1
      <3> QED
        BY <3>1, <3>2 DEF LogInv, Deduped, SamePair, n
    <2> QED
      BY <2>1, <2>2
  <1> QED
    BY <1>2, <1>5, <1>6

(***************************************************************************)
(* Every request, command and tick keeps the log in order and deduped.     *)
(***************************************************************************)
LEMMA LogStep == LogInv /\ [Next]_vars => LogInv'
  <1> SUFFICES ASSUME LogInv, [Next]_vars PROVE LogInv'
    OBVIOUS
  <1>0. PUNCH_REQS \in Seq(Entry) /\ << >> \in Seq(Ids) /\ << >> \in Seq(Entry)
    BY DEF LogInv, TypeOK
  <1>1. ASSUME PUNCH_REQS' = PUNCH_REQS PROVE OldestFirst' /\ Deduped' /\ PUNCH_REQS' \in Seq(Entry)
    BY <1>0, <1>1 DEF LogInv, OldestFirst, Deduped, SamePair
  <1>2. ASSUME NEW id \in Ids, Load(id) PROVE memory' \subseteq Ids /\ elapsed' \in [Ids -> Nat]
    BY <1>2, ConstantsAssumption DEF LogInv, TypeOK, Load, AgeOf
  <1>3. ASSUME NEW id \in Ids, RegisterPeer(id) PROVE LogInv'
    <2>1. memory' \subseteq Ids /\ elapsed' \in [Ids -> Nat]
      BY <1>3 DEF RegisterPeer, LogInv, TypeOK
    <2> QED
      BY <1>0, <1>1, <1>3, <2>1 DEF RegisterPeer, Forget, LogInv, TypeOK
  <1>4. ASSUME NEW id \in Ids, PunchRefused(id) PROVE LogInv'
    BY <1>0, <1>1, <1>2, <1>4 DEF PunchRefused, Forget, LogInv, TypeOK
  <1>5. ASSUME NEW list \in Requests, OnlineRequest(list) PROVE LogInv'
    BY <1>1, <1>5, ConstantsAssumption DEF OnlineRequest, LogInv, TypeOK
  <1>6. ASSUME NEW from \in Ips, NEW id \in Ids, PunchForwarded(from, id) PROVE LogInv'
    <2>1. PUNCH_REQS' \in Seq(Entry) /\ OldestFirst' /\ Deduped'
      <3>1. CASE Duplicate(from, id)
        BY <1>1, <1>6, <3>1 DEF PunchForwarded
      <3>2. CASE ~ Duplicate(from, id)
        BY <1>6, <3>2, RecordKeeps DEF PunchForwarded
      <3> QED
        BY <3>1, <3>2
    <2> QED
      BY <1>0, <1>2, <1>6, <2>1 DEF PunchForwarded, LogInv, TypeOK
  <1>7. CASE ClearPunchRequests
    <2>1. PUNCH_REQS' = << >> /\ Len(PUNCH_REQS') = 0
      BY <1>7 DEF ClearPunchRequests
    <2> QED
      BY <1>0, <1>7, <2>1
      DEF ClearPunchRequests, Forget, LogInv, TypeOK, OldestFirst, Deduped
  <1>8. CASE Tick
    <2> DEFINE n == Len(PUNCH_REQS)
    <2>1. n \in Nat /\ DOMAIN PUNCH_REQS = 1 .. n /\ \A i \in 1 .. n : PUNCH_REQS[i] \in Entry
      BY <1>0, LenProperties, ElementOfSeq
    <2>2. PUNCH_REQS' = [i \in 1 .. n |-> Older(PUNCH_REQS[i])]
      BY <1>8, <2>1 DEF Tick
    <2>3. PUNCH_REQS' \in Seq(Entry) /\ Len(PUNCH_REQS') = n
      <3>1. \A i \in 1 .. n : Older(PUNCH_REQS[i]) \in Entry
        BY <2>1, OlderEntries
      <3> HIDE DEF n
      <3> QED
        BY <2>1, <2>2, <3>1
    <2>4. \A i \in 1 .. n : PUNCH_REQS'[i] = Older(PUNCH_REQS[i])
      BY <2>2
    <2> HIDE DEF n
    <2>5. OldestFirst'
      <3> SUFFICES ASSUME NEW i \in 1 .. n, NEW j \in 1 .. n, i < j
                   PROVE  PUNCH_REQS'[j].age <= PUNCH_REQS'[i].age
        BY <2>3 DEF OldestFirst
      <3>1. PUNCH_REQS[j].age <= PUNCH_REQS[i].age
        BY DEF LogInv, OldestFirst, n
      <3> QED
        BY <2>1, <2>4, <3>1, OlderEntries
    <2>6. Deduped'
      <3> SUFFICES ASSUME NEW i \in 1 .. n, NEW j \in 1 .. n, i < j,
                          PUNCH_REQS'[i].from = PUNCH_REQS'[j].from,
                          PUNCH_REQS'[i].to = PUNCH_REQS'[j].to,
                          PUNCH_REQS'[i].age < PUNCH_REQ_DEDUPE_SEC
                   PROVE  j > i + TAIL
        BY <2>3 DEF Deduped, SamePair
      <3>1. /\ PUNCH_REQS[i].from = PUNCH_REQS[j].from /\ PUNCH_REQS[i].to = PUNCH_REQS[j].to
            /\ PUNCH_REQS'[i].age >= PUNCH_REQS[i].age
        BY <2>1, <2>4, OlderEntries
      <3>2. PUNCH_REQS[i].age < PUNCH_REQ_DEDUPE_SEC
        <4>1. PUNCH_REQS[i].age \in Nat /\ PUNCH_REQS'[i].age \in Nat
          BY <2>1, <2>4, OlderEntries DEF Entry
        <4> QED
          BY <3>1, <4>1, ConstantsAssumption
      <3> QED
        BY <3>1, <3>2 DEF LogInv, Deduped, SamePair, n
    <2>7. memory' \subseteq Ids /\ elapsed' \in [Ids -> Nat] /\ peers' \in Seq(Ids)
      BY <1>0, <1>8 DEF Tick, Forget, LogInv, TypeOK
    <2> QED
      BY <2>3, <2>5, <2>6, <2>7 DEF LogInv, TypeOK
  <1>9. CASE UNCHANGED vars
    BY <1>1, <1>9 DEF vars, LogInv, TypeOK
  <1> QED
    BY <1>3, <1>4, <1>5, <1>6, <1>7, <1>8, <1>9 DEF Next

LEMMA LogInit == Init => LogInv
  <1> SUFFICES ASSUME Init PROVE LogInv
    OBVIOUS
  <1>1. PUNCH_REQS \in Seq(Entry) /\ peers \in Seq(Ids) /\ Len(PUNCH_REQS) = 0
    BY DEF Init
  <1> QED
    BY <1>1 DEF Init, LogInv, TypeOK, OldestFirst, Deduped

(***************************************************************************)
(* handle_punch_hole_request: for every length of the log, of the part it  *)
(* searches and of the dedupe window, two recent entries of one pair are   *)
(* further apart than the search reaches.                                  *)
(***************************************************************************)
THEOREM LogDeduped == Spec => []Deduped
  <1>1. LogInv => Deduped
    BY DEF LogInv
  <1> QED
    BY LogInit, LogStep, <1>1, PTL DEF Spec

(***************************************************************************)
(* A request that handle_punch_hole_request forwards is recorded, or a     *)
(* recent entry of its pair is.                                            *)
(***************************************************************************)
THEOREM ForwardedAreSeen == Spec => []Covered
  <1>1. Init => Covered
    BY DEF Init, Covered
  <1>2. LogInv /\ Covered /\ [Next]_vars => Covered'
    <2> SUFFICES ASSUME LogInv, Covered, [Next]_vars PROVE Covered'
      OBVIOUS
    <2>1. CASE punched' = {}
      BY <2>1 DEF Covered
    <2>2. ASSUME NEW from \in Ips, NEW id \in Ids, PunchForwarded(from, id) PROVE Covered'
      <3>1. punched' = {<<from, id>>}
        BY <2>2 DEF PunchForwarded
      <3> SUFFICES \E i \in 1 .. Len(PUNCH_REQS') :
                      /\ PUNCH_REQS'[i].from = from /\ PUNCH_REQS'[i].to = id
                      /\ PUNCH_REQS'[i].age < PUNCH_REQ_DEDUPE_SEC
        BY <3>1 DEF Covered, SamePair
      <3>2. CASE Duplicate(from, id)
        BY <2>2, <3>2 DEF PunchForwarded, Duplicate, Searched, SamePair
      <3>3. CASE ~ Duplicate(from, id)
        <4> DEFINE e == [age |-> 0, from |-> from, to |-> id]
        <4>1. e \in Entry /\ e.age < PUNCH_REQ_DEDUPE_SEC
          BY ConstantsAssumption DEF Entry
        <4>2. /\ Len(PUNCH_REQS') = Len(PUNCH_REQS) + 1 /\ Len(PUNCH_REQS) \in Nat
              /\ PUNCH_REQS'[Len(PUNCH_REQS) + 1] = e
          BY <2>2, <3>3, <4>1, AppendProperties, LenProperties
          DEF PunchForwarded, LogInv, TypeOK
        <4> QED
          BY <4>1, <4>2
      <3> QED
        BY <3>2, <3>3
    <2>3. CASE UNCHANGED vars
      BY <2>3 DEF vars, Covered, SamePair
    <2> QED
      BY <2>1, <2>2, <2>3
      DEF Next, RegisterPeer, PunchRefused, OnlineRequest, ClearPunchRequests, Tick, Forget
  <1> QED
    BY LogInit, LogStep, <1>1, <1>2, PTL DEF Spec

-----------------------------------------------------------------------------
(* Online status *)

\* The last answer, if it was the last thing that happened, is the one that
\* memory gives now.
Current == states = States(peers) \/ (peers = << >> /\ states = << >>)

StatusInv == TypeOK /\ Current

(***************************************************************************)
(* The conversion to i32 keeps a time that fits.                           *)
(***************************************************************************)
LEMMA AsI32Keeps == \A ms \in 0 .. HALF - 1 : AsI32(ms) = ms
  BY ConstantsAssumption DEF AsI32

(***************************************************************************)
(* The answer is forgotten when anything changes that it depends on.       *)
(***************************************************************************)
LEMMA CurrentStep == TypeOK /\ Current /\ [Next]_vars => Current'
  <1> SUFFICES ASSUME TypeOK, Current, [Next]_vars PROVE Current'
    OBVIOUS
  <1>1. CASE peers' = << >> /\ states' = << >>
    BY <1>1 DEF Current
  <1>2. ASSUME NEW list \in Requests, OnlineRequest(list) PROVE Current'
    <2>1. memory' = memory /\ elapsed' = elapsed /\ peers' = list /\ states' = States(list)
      BY <1>2 DEF OnlineRequest
    <2> QED
      BY <2>1 DEF Current, States, ShownIn, Shown
  <1>3. CASE UNCHANGED vars
    <2>1. /\ memory' = memory /\ elapsed' = elapsed /\ peers' = peers /\ states' = states
      BY <1>3 DEF vars
    <2> QED
      BY <2>1 DEF Current, States, ShownIn, Shown
  <1> QED
    BY <1>1, <1>2, <1>3
    DEF Next, RegisterPeer, PunchRefused, PunchForwarded, ClearPunchRequests, Tick, Forget

(***************************************************************************)
(* A bit of the answer is 1 exactly where handle_online_request takes the  *)
(* peer of that place for online: no other place sets it.                  *)
(***************************************************************************)
LEMMA BitMeansShown ==
    ASSUME TypeOK, states = States(peers), NEW i \in 0 .. 8 * Len(states) - 1
    PROVE  BitSet(i) <=> i < Len(peers) /\ Shown(peers[i + 1])
  <1> DEFINE n == Len(peers)
             last == (n + 7) \div 8
             b == i \div 8 + 1
  <1>1. n \in Nat /\ last \in Nat
    BY LenProperties DEF TypeOK
  <1>2. Len(states) = last
    BY <1>1 DEF States
  <1>3. b \in 1 .. last /\ i \in 8 * (b - 1) .. 8 * b - 1 /\ i \in Nat /\ b \in Nat
    BY <1>1, <1>2
  <1>4. states[b] = {BitOf(k) : k \in ShownIn(peers, b)}
    <2> HIDE DEF b
    <2> QED
      BY <1>3 DEF States
  <1>5. BitSet(i) <=> \E k \in ShownIn(peers, b) : BitOf(k) = 7 - (i % 8)
    BY <1>4 DEF BitSet
  <1>6. ASSUME NEW k \in 8 * (b - 1) .. 8 * b - 1, BitOf(k) = 7 - (i % 8) PROVE k = i
    BY <1>3, <1>6 DEF BitOf
  <1>7. BitOf(i) = 7 - (i % 8)
    BY DEF BitOf
  <1> HIDE DEF b, n, last
  <1> QED
    BY <1>3, <1>5, <1>6, <1>7 DEF ShownIn

LEMMA StatusAlways == Spec => []StatusInv
  <1>1. Init => Current
    BY DEF Init, Current
  <1>2. LogInv => TypeOK
    BY DEF LogInv
  <1> QED
    BY LogInit, LogStep, CurrentStep, <1>1, <1>2, PTL DEF Spec, StatusInv

(***************************************************************************)
(* An answer that is still current has a byte for every eight peers, so    *)
(* that every place of the request has its bit.                            *)
(***************************************************************************)
LEMMA PlacesHaveBits ==
    ASSUME TypeOK, states = States(peers), NEW i \in 0 .. Len(peers) - 1
    PROVE  i \in 0 .. 8 * Len(states) - 1
  <1>1. Len(peers) \in Nat
    BY LenProperties DEF TypeOK
  <1>2. Len(states) = (Len(peers) + 7) \div 8
    BY <1>1 DEF States
  <1> QED
    BY <1>1, <1>2

(***************************************************************************)
(* handle_online_request shows every peer that registered in time, at its  *)
(* place, for requests of every length.                                    *)
(***************************************************************************)
THEOREM RecentAreOnline == Spec => []RecentShownOnline
  <1>1. StatusInv => RecentShownOnline
    <2> SUFFICES ASSUME StatusInv, NEW i \in 0 .. Len(peers) - 1,
                        peers[i + 1] \in memory, elapsed[peers[i + 1]] < REG_TIMEOUT
                 PROVE  BitSet(i)
      BY DEF RecentShownOnline
    <2>1. Len(peers) \in Nat /\ Len(peers) > 0
      BY LenProperties DEF StatusInv, TypeOK
    <2>2. states = States(peers)
      BY <2>1 DEF StatusInv, Current
    <2>3. elapsed[peers[i + 1]] \in 0 .. HALF - 1
      BY ConstantsAssumption DEF StatusInv, TypeOK
    <2>4. Shown(peers[i + 1])
      BY <2>3, AsI32Keeps DEF Shown
    <2> QED
      BY <2>1, <2>2, <2>4, PlacesHaveBits, BitMeansShown DEF StatusInv
  <1> QED
    BY <1>1, StatusAlways, PTL

(***************************************************************************)
(* It shows no peer that is not in memory, and none that was silent for    *)
(* REG_TIMEOUT, while the time fits an i32; bits after the last are 0.     *)
(***************************************************************************)
THEOREM SilentAreOffline == Spec => []SilentShownOffline
  <1>1. StatusInv => SilentShownOffline
    <2> SUFFICES ASSUME StatusInv PROVE SilentShownOffline
      OBVIOUS
    <2>0. Len(peers) \in Nat
      BY LenProperties DEF StatusInv, TypeOK
    <2>1. CASE peers = << >> /\ states = << >>
      <3>1. Len(peers) = 0 /\ Len(states) = 0
        BY <2>1
      <3> QED
        BY <3>1 DEF SilentShownOffline
    <2>2. CASE states = States(peers)
      <3>1. ASSUME NEW i \in 0 .. Len(peers) - 1,
                   \/ peers[i + 1] \notin memory
                   \/ elapsed[peers[i + 1]] \in REG_TIMEOUT .. HALF - 1
            PROVE  ~ BitSet(i)
        <4>1. ~ Shown(peers[i + 1])
          BY <3>1, AsI32Keeps, ConstantsAssumption DEF Shown
        <4> QED
          BY <2>2, <4>1, PlacesHaveBits, BitMeansShown DEF StatusInv
      <3>2. ASSUME NEW i \in Len(peers) .. 8 * Len(states) - 1 PROVE ~ BitSet(i)
        <4>1. i \in 0 .. 8 * Len(states) - 1 /\ ~ (i < Len(peers))
          BY <2>0
        <4> QED
          BY <2>2, <4>1, BitMeansShown DEF StatusInv
      <3> QED
        BY <3>1, <3>2 DEF SilentShownOffline
    <2> QED
      BY <2>1, <2>2 DEF StatusInv, Current
  <1> QED
    BY <1>1, StatusAlways, PTL

-----------------------------------------------------------------------------
(* Relay servers *)

\* No result on its way to io_loop is empty.
NoEmptyResult == \A i \in 1 .. Len(rx) : rx[i].kind # "RelayServers0" => rx[i].list # << >>

RelayInv == (\E S : rx \in Seq(S)) /\ NoEmptyResult /\ NeverWithoutRelay

(***************************************************************************)
(* Sending a message that is not an empty result keeps the channel in      *)
(* order.                                                                  *)
(***************************************************************************)
LEMMA SendKeeps ==
    ASSUME NEW m, m.kind # "RelayServers0" => m.list # << >>,
           \E S : rx \in Seq(S), NoEmptyResult, Send(m)
    PROVE  (\E S : rx' \in Seq(S)) /\ NoEmptyResult'
  <1>1. PICK S : rx \in Seq(S)
    OBVIOUS
  <1> DEFINE T == S \cup {m}
  <1>2. rx \in Seq(T) /\ m \in T
    BY <1>1
  <1> HIDE DEF T
  <1>3. /\ rx' \in Seq(T) /\ Len(rx') = Len(rx) + 1
        /\ \A i \in 1 .. Len(rx) : rx'[i] = rx[i]
        /\ rx'[Len(rx) + 1] = m
    BY <1>2, AppendProperties DEF Send
  <1>4. Len(rx) \in Nat
    BY <1>2
  <1> QED
    BY <1>3, <1>4 DEF NoEmptyResult

(***************************************************************************)
(* A list is configured and used as one at first.                          *)
(***************************************************************************)
LEMMA RelayInvInit == RelayInit => RelayInv
  <1> SUFFICES ASSUME RelayInit PROVE RelayInv
    OBVIOUS
  <1>1. rx \in Seq({}) /\ Len(rx) = 0
    BY DEF RelayInit
  <1> QED
    BY <1>1 DEF RelayInit, RelayInv, NoEmptyResult, NeverWithoutRelay

(***************************************************************************)
(* Commands, checks and io_loop keep RelayInv.                                  *)
(***************************************************************************)
LEMMA RelayStep == RelayInv /\ [RelayNext]_relayVars => RelayInv'
  <1> SUFFICES ASSUME RelayInv, [RelayNext]_relayVars PROVE RelayInv'
    OBVIOUS
  <1> USE DEF RelayInv
  <1>1. ASSUME UNCHANGED <<rx, relay_servers0, relay_servers>> PROVE RelayInv'
    BY <1>1 DEF NoEmptyResult, NeverWithoutRelay
  <1>2. ASSUME NEW m, m.kind # "RelayServers0" => m.list # << >>, Send(m),
               UNCHANGED <<relay_servers0, relay_servers>>
        PROVE RelayInv'
    BY <1>2, SendKeeps DEF NeverWithoutRelay
  <1>3. ASSUME NEW list, CmdRelayServers(list) PROVE RelayInv'
    BY <1>2, <1>3 DEF CmdRelayServers
  <1>4. ASSUME NEW yes, CmdAlwaysUseRelay(yes) PROVE RelayInv'
    BY <1>2, <1>4 DEF CmdAlwaysUseRelay
  <1>5. ASSUME NEW k \in Checks, EndCheck(k) PROVE RelayInv'
    <2>1. CASE check[k].found # << >>
      BY <1>2, <1>5, <2>1 DEF EndCheck
    <2>2. CASE check[k].found = << >>
      BY <1>1, <1>5, <2>2 DEF EndCheck
    <2> QED
      BY <2>1, <2>2
  <1>6. ASSUME NEW resolved, Receive(resolved) PROVE RelayInv'
    <2>1. PICK S : rx \in Seq(S)
      OBVIOUS
    <2>2. /\ rx' \in Seq(S) /\ Len(rx') = Len(rx) - 1
          /\ \A i \in 1 .. Len(rx') : rx'[i] = rx[i + 1]
          /\ Len(rx) \in Nat /\ Len(rx) > 0 /\ Head(rx) = rx[1]
      BY <1>6, <2>1, HeadTailProperties DEF Receive
    <2>3. NoEmptyResult'
      BY <2>2 DEF NoEmptyResult
    <2>4. NeverWithoutRelay'
      <3>1. CASE Head(rx).kind = "RelayServers0"
        BY <1>6, <3>1 DEF Receive, ParseRelayServers, NeverWithoutRelay
      <3>2. CASE Head(rx).kind # "RelayServers0"
        BY <1>6, <2>2, <3>2 DEF Receive, NoEmptyResult, NeverWithoutRelay
      <3> QED
        BY <3>1, <3>2
    <2> QED
      BY <2>2, <2>3, <2>4
  <1>7. ASSUME NEW k \in Checks, StartCheck(k) PROVE RelayInv'
    BY <1>1, <1>7 DEF StartCheck
  <1>8. ASSUME NEW k \in Checks, NEW i, Probe(k, i) PROVE RelayInv'
    BY <1>1, <1>8 DEF Probe
  <1>9. ASSUME NEW s, Flip(s) PROVE RelayInv'
    BY <1>1, <1>9 DEF Flip
  <1>10. ASSUME UNCHANGED relayVars PROVE RelayInv'
    BY <1>1, <1>10 DEF relayVars
  <1> QED
    BY <1>3, <1>4, <1>5, <1>6, <1>7, <1>8, <1>9, <1>10 DEF RelayNext

(***************************************************************************)
(* check_relay_servers and io_loop: while a relay server is configured,    *)
(* there is one to hand out.                                               *)
(***************************************************************************)
THEOREM RelayAlways == RelaySpec => []NeverWithoutRelay
  <1>1. RelayInv => NeverWithoutRelay
    BY DEF RelayInv
  <1> QED
    BY RelayInvInit, RelayStep, <1>1, PTL DEF RelaySpec
=============================================================================
