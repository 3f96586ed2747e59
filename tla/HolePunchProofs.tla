-------------------------- MODULE HolePunchProofs ---------------------------
(***************************************************************************)
(* Proofs about HolePunch, for any number of connections, addresses and    *)
(* requests.  Inv says where a sink can be once an answer was written to   *)
(* it; ToldInv adds, for connections with addresses of their own, that a   *)
(* sink leaves tcp_punch only with an answer or with its task.             *)
(***************************************************************************)
EXTENDS HolePunch, TLAPS

Pcs == {"new", "reading", "punch", "refusing", "relay", "ending", "closed"}

Places == {"own", "parked", "taken", "dropped"}

OneAnswer(c) ==
    /\ got[c] = <<>> \/ Len(got[c]) = 1
    /\ got[c] # <<>> => sink[c] = "dropped" \/ (sink[c] = "own" /\ pc[c] = "ending")
    /\ sink[c] = "taken" <=> reply[c] # NoReply

Inv == TypeOK /\ EntriesAlive /\ \A c \in Conns : OneAnswer(c)

LEMMA InitInv == Init => Inv
  BY ConstantsAssumption DEF Init, Inv, TypeOK, EntriesAlive, SinkOf, OneAnswer, Answers, NoReply

LEMMA RepliesDiffer == NoReply \notin Answers /\ \A c \in Conns : ByHbbs(c) \in Answers
  BY ConstantsAssumption DEF NoReply, Answers, ByHbbs

(***************************************************************************)
(* What taking the entry of an address for an answer does: at most one     *)
(* sink, which had no answer, is taken for this one.                       *)
(***************************************************************************)
Sent(a, m) ==
    /\ sink' \in [Conns -> Places]
    /\ tcp_punch' \in [Addrs -> Conns \cup {None}]
    /\ reply' \in [Conns -> Answers \cup {NoReply}]
    /\ tcp_punch'[a] = None
    /\ \A b \in Addrs : b # a => tcp_punch'[b] = tcp_punch[b]
    /\ \A c \in Conns : \/ /\ c = tcp_punch[a] /\ sink'[c] = "taken"
                           /\ got[c] = <<>> /\ reply'[c] = m
                        \/ c # tcp_punch[a] /\ sink'[c] = sink[c] /\ reply'[c] = reply[c]

LEMMA SendKeeps ==
    ASSUME Inv, NEW a \in Addrs, NEW m \in Answers, SendToTcp(a, m)
    PROVE  Sent(a, m)
  <1> USE ConstantsAssumption
  <1>1. /\ sink' \in [Conns -> Places]
        /\ tcp_punch' \in [Addrs -> Conns \cup {None}]
        /\ tcp_punch'[a] = None
        /\ \A b \in Addrs : b # a => tcp_punch'[b] = tcp_punch[b]
    BY DEF Inv, TypeOK, SendToTcp, Places
  <1>2. reply' \in [Conns -> Answers \cup {NoReply}]
    BY DEF Inv, TypeOK, SendToTcp, RepliesWith
  <1>3. ASSUME NEW c \in Conns, c = tcp_punch[a]
        PROVE  sink'[c] = "taken" /\ got[c] = <<>> /\ reply'[c] = m
    <2>1. sink[c] = "parked" /\ got[c] = <<>>
      BY <1>3 DEF Inv, EntriesAlive, OneAnswer
    <2> QED
      BY <1>3, <2>1 DEF SendToTcp, RepliesWith
  <1>4. ASSUME NEW c \in Conns, c # tcp_punch[a]
        PROVE  sink'[c] = sink[c] /\ reply'[c] = reply[c]
    BY <1>4 DEF SendToTcp, RepliesWith
  <1> QED
    BY <1>1, <1>2, <1>3, <1>4 DEF Sent

(***************************************************************************)
(* Moving a sink into tcp_punch keeps the table in order.                  *)
(***************************************************************************)
LEMMA ParkKeeps ==
    ASSUME Inv, NEW c \in Conns, ParkSink(c)
    PROVE  /\ sink' \in [Conns -> Places]
           /\ tcp_punch' \in [Addrs -> Conns \cup {None}]
           /\ sink'[c] # "own"
           /\ sink[c] # "own" => sink' = sink /\ tcp_punch' = tcp_punch
           /\ sink[c] = "own" =>
                /\ sink'[c] = "parked" /\ tcp_punch'[AddrOf[c]] = c
                /\ \A b \in Addrs : b # AddrOf[c] => tcp_punch'[b] = tcp_punch[b]
                /\ \A d \in Conns : d # c => sink'[d] = IF d = tcp_punch[AddrOf[c]]
                                                        THEN "dropped" ELSE sink[d]
  <1>1. SinksWithout(AddrOf[c]) \in [Conns -> Places]
    BY DEF Inv, TypeOK, SinksWithout, Places
  <1>2. CASE sink[c] = "own"
    <2>1. /\ sink' = [SinksWithout(AddrOf[c]) EXCEPT ![c] = "parked"]
          /\ tcp_punch' = [tcp_punch EXCEPT ![AddrOf[c]] = c]
      BY <1>2 DEF ParkSink
    <2>2. \A d \in Conns : d # c => sink'[d] = SinksWithout(AddrOf[c])[d]
      BY <1>1, <2>1
    <2>3. \A d \in Conns : SinksWithout(AddrOf[c])[d] =
                            IF d = tcp_punch[AddrOf[c]] THEN "dropped" ELSE sink[d]
      BY DEF SinksWithout
    <2> QED
      BY <1>1, <1>2, <2>1, <2>2, <2>3, ConstantsAssumption DEF Inv, TypeOK, Places
  <1>3. CASE sink[c] # "own"
    BY <1>3 DEF ParkSink, Inv, TypeOK, Places
  <1> QED
    BY <1>2, <1>3

(***************************************************************************)
(* A step that sends an answer, and at most ends a punch request, keeps    *)
(* the invariant.                                                          *)
(***************************************************************************)
LEMMA SentInv ==
    ASSUME Inv, NEW a \in Addrs, NEW m \in Answers, Sent(a, m),
           got' = got, signals' = signals,
           pc' \in [Conns -> Pcs],
           \A c \in Conns : pc'[c] = pc[c] \/ (pc[c] = "punch" /\ pc'[c] = "refusing")
    PROVE  Inv'
  <1>1. TypeOK'
    BY DEF Inv, Sent, TypeOK, Pcs, Places
  <1>2. EntriesAlive'
    <2>1. AddrOf \in [Conns -> Addrs] /\ None \notin Conns
      BY ConstantsAssumption
    <2>2. /\ tcp_punch \in [Addrs -> Conns \cup {None}]
          /\ sink \in [Conns -> Places]
      BY DEF Inv, TypeOK, Places
    <2>3. ASSUME NEW b \in Addrs, tcp_punch'[b] # None
          PROVE  AddrOf[tcp_punch'[b]] = b /\ sink'[tcp_punch'[b]] = "parked"
      <3>1. b # a /\ tcp_punch'[b] = tcp_punch[b] /\ tcp_punch[b] \in Conns
        BY <2>2, <2>3 DEF Sent
      <3>2. AddrOf[tcp_punch[b]] = b /\ sink[tcp_punch[b]] = "parked"
        BY <2>3, <3>1 DEF Inv, EntriesAlive
      <3>3. tcp_punch[b] # tcp_punch[a]
        BY <2>1, <3>1, <3>2 DEF Inv, EntriesAlive
      <3> QED
        BY <3>1, <3>2, <3>3 DEF Sent
    <2>4. ASSUME NEW c \in Conns PROVE SinkOf(c)'
      <3>1. SinkOf(c) /\ AddrOf[c] \in Addrs
        BY <2>1 DEF Inv, EntriesAlive
      <3>2. CASE c = tcp_punch[a]
        BY <3>2 DEF Sent, SinkOf
      <3>3. CASE c # tcp_punch[a]
        BY <3>1, <3>3 DEF Sent, SinkOf
      <3> QED
        BY <3>2, <3>3
    <2> QED
      BY <2>3, <2>4 DEF EntriesAlive
  <1>3. ASSUME NEW c \in Conns PROVE OneAnswer(c)'
    <2>1. m # NoReply
      BY RepliesDiffer
    <2>2. CASE c = tcp_punch[a]
      BY <2>1, <2>2 DEF Sent, OneAnswer
    <2>3. CASE c # tcp_punch[a]
      BY <2>3 DEF Inv, Sent, OneAnswer
    <2> QED
      BY <2>2, <2>3
  <1> QED
    BY <1>1, <1>2, <1>3 DEF Inv

(***************************************************************************)
(* Writing an answer to a sink that was taken for it.                      *)
(***************************************************************************)
LEMMA WriteDoes ==
    ASSUME Inv, NEW c \in Conns, Write(c)
    PROVE  /\ got[c] = <<>> /\ sink[c] = "taken" /\ reply[c] \in Answers
           /\ got'[c] = <<reply[c]>> /\ sink'[c] = "dropped" /\ reply'[c] = NoReply
           /\ \A d \in Conns : d # c =>
                 sink'[d] = sink[d] /\ reply'[d] = reply[d] /\ got'[d] = got[d]
           /\ got' \in [Conns -> Seq(Answers)]
  <1>1. got[c] = <<>> /\ sink[c] = "taken" /\ reply[c] \in Answers
    BY DEF Inv, TypeOK, OneAnswer, Write
  <1>2. got'[c] = Append(got[c], reply[c]) /\ got' \in [Conns -> Seq(Answers)]
    BY <1>1 DEF Inv, TypeOK, Write
  <1>3. Append(<<>>, reply[c]) = <<reply[c]>>
    OBVIOUS
  <1> QED
    BY <1>1, <1>2, <1>3 DEF Inv, TypeOK, Write

LEMMA WriteInv == ASSUME Inv, NEW c \in Conns, Write(c) PROVE Inv'
  <1>1. TypeOK'
    BY WriteDoes DEF Inv, TypeOK, Write
  <1>2. EntriesAlive'
    <2>1. /\ pc' = pc /\ tcp_punch' = tcp_punch
          /\ \A d \in Conns : sink'[d] = "parked" <=> sink[d] = "parked"
          /\ \A d \in Conns : sink'[d] = "own" <=> sink[d] = "own"
      BY WriteDoes DEF Write
    <2>2. \A d \in Conns : SinkOf(d)'
      BY <2>1 DEF Inv, EntriesAlive, SinkOf
    <2>3. ASSUME NEW a \in Addrs, tcp_punch'[a] # None
          PROVE  AddrOf[tcp_punch'[a]] = a /\ sink'[tcp_punch'[a]] = "parked"
      <3>1. tcp_punch[a] \in Conns /\ AddrOf[tcp_punch[a]] = a /\ sink[tcp_punch[a]] = "parked"
        BY <2>1, <2>3 DEF Inv, TypeOK, EntriesAlive
      <3> QED
        BY <2>1, <3>1
    <2> QED
      BY <2>2, <2>3 DEF EntriesAlive
  <1>3. ASSUME NEW d \in Conns PROVE OneAnswer(d)'
    <2>1. Len(<<reply[c]>>) = 1
      OBVIOUS
    <2>2. CASE d = c
      BY <2>1, <2>2, WriteDoes DEF OneAnswer
    <2>3. CASE d # c
      BY <2>3, WriteDoes DEF Inv, OneAnswer, Write
    <2> QED
      BY <2>2, <2>3
  <1> QED
    BY <1>1, <1>2, <1>3 DEF Inv

LEMMA StepInv == Inv /\ [Next]_vars => Inv'
  <1> SUFFICES ASSUME Inv, [Next]_vars PROVE Inv'
    OBVIOUS
  <1> USE ConstantsAssumption
  <1>0. /\ TypeOK /\ \A c \in Conns : AddrOf[c] \in Addrs
        /\ \A c \in Conns : SinkOf(c) /\ OneAnswer(c)
    BY DEF Inv, EntriesAlive
  <1>1. ASSUME NEW c \in Conns, Accept(c) \/ Stop(c) \/ Refused(c) PROVE Inv'
    <2>1. TypeOK'
      BY <1>0, <1>1 DEF Accept, Stop, Refused, Goto, TypeOK
    <2>2. EntriesAlive'
      BY <1>0, <1>1 DEF Accept, Stop, Refused, Goto, Inv, TypeOK, EntriesAlive, SinkOf
    <2>3. \A d \in Conns : OneAnswer(d)'
      BY <1>0, <1>1 DEF Accept, Stop, Refused, Goto, TypeOK, OneAnswer
    <2> QED
      BY <2>1, <2>2, <2>3 DEF Inv
  <1>2. ASSUME NEW c \in Conns, NEW l \in {"punch", "relay"}, Ask(c, l) PROVE Inv'
    <2> ParkSink(c) /\ got' = got /\ signals' = signals /\ reply' = reply
      BY <1>2 DEF Ask
    <2>1. TypeOK'
      BY <1>0, <1>2, ParkKeeps DEF Ask, Goto, TypeOK, Pcs, Places
    <2>2. CASE sink[c] = "own"
      <3>1. got[c] = <<>>
        BY <1>0, <1>2, <2>2 DEF Ask, OneAnswer
      <3>2. EntriesAlive'
        <4> DEFINE a == AddrOf[c]
        <4>1. /\ sink'[c] = "parked" /\ tcp_punch'[a] = c
              /\ \A b \in Addrs : b # a => tcp_punch'[b] = tcp_punch[b]
              /\ \A d \in Conns : d # c =>
                    sink'[d] = IF d = tcp_punch[a] THEN "dropped" ELSE sink[d]
          BY <2>2, ParkKeeps
        <4>2. /\ pc'[c] \in {"punch", "relay"}
              /\ \A d \in Conns : d # c => pc'[d] = pc[d]
          BY <1>0, <1>2 DEF Ask, Goto, TypeOK
        <4>3. ASSUME NEW b \in Addrs, tcp_punch'[b] # None
              PROVE  AddrOf[tcp_punch'[b]] = b /\ sink'[tcp_punch'[b]] = "parked"
          <5>1. CASE b = a
            BY <4>1, <5>1
          <5>2. CASE b # a
            <6>1. /\ tcp_punch'[b] = tcp_punch[b] /\ tcp_punch[b] \in Conns
                  /\ AddrOf[tcp_punch[b]] = b /\ sink[tcp_punch[b]] = "parked"
              BY <1>0, <4>1, <4>3, <5>2 DEF Inv, EntriesAlive, TypeOK
            <6>2. tcp_punch[b] # c /\ tcp_punch[b] # tcp_punch[a]
              BY <2>2, <5>2, <6>1 DEF Inv, EntriesAlive
            <6> QED
              BY <4>1, <6>1, <6>2
          <5> QED
            BY <5>1, <5>2
        <4>4. ASSUME NEW d \in Conns PROVE SinkOf(d)'
          <5>1. CASE d = c
            BY <4>1, <4>2, <5>1 DEF SinkOf
          <5>2. CASE d # c
            BY <1>0, <4>1, <4>2, <5>2 DEF SinkOf
          <5> QED
            BY <5>1, <5>2
        <4> QED
          BY <4>3, <4>4 DEF EntriesAlive
      <3>3. \A d \in Conns : OneAnswer(d)'
        <4>1. ASSUME NEW d \in Conns, d # c PROVE OneAnswer(d)'
          <5>1. /\ pc'[d] = pc[d] /\ got'[d] = got[d] /\ reply'[d] = reply[d]
                /\ sink'[d] = IF d = tcp_punch[AddrOf[c]] THEN "dropped" ELSE sink[d]
            BY <1>0, <1>2, <2>2, <4>1, ParkKeeps DEF Ask, Goto, TypeOK
          <5>2. d = tcp_punch[AddrOf[c]] => sink[d] = "parked"
            BY <1>0, ConstantsAssumption DEF Inv, EntriesAlive
          <5> QED
            BY <1>0, <4>1, <5>1, <5>2 DEF OneAnswer
        <4>2. sink'[c] = "parked" /\ got'[c] = <<>> /\ reply'[c] = reply[c]
          BY <2>2, <3>1, ParkKeeps
        <4>3. OneAnswer(c)'
          BY <1>0, <2>2, <4>2 DEF OneAnswer
        <4> QED
          BY <4>1, <4>3
      <3> QED
        BY <2>1, <3>2, <3>3 DEF Inv
    <2>3. CASE sink[c] # "own"
      <3>1. UNCHANGED <<sink, tcp_punch>>
        BY <2>3, ParkKeeps
      <3>2. EntriesAlive'
        BY <1>0, <1>2, <2>3, <3>1 DEF Inv, Ask, Goto, TypeOK, EntriesAlive, SinkOf
      <3>3. \A d \in Conns : OneAnswer(d)'
        BY <1>0, <1>2, <2>3, <3>1 DEF Ask, Goto, TypeOK, OneAnswer
      <3> QED
        BY <2>1, <3>2, <3>3 DEF Inv
    <2> QED
      BY <2>2, <2>3
  <1>3. ASSUME NEW c \in Conns, NEW k \in Kinds, Forward(c, k) PROVE Inv'
    BY <1>0, <1>3 DEF Forward, Goto, Inv, TypeOK, EntriesAlive, SinkOf, OneAnswer
  <1>4. ASSUME NEW c \in Conns, ForwardRelay(c) PROVE Inv'
    BY <1>0, <1>4 DEF ForwardRelay, Goto, Inv, TypeOK, EntriesAlive, SinkOf, OneAnswer, Kinds
  <1>6. ASSUME NEW c \in Conns, Refuse(c) PROVE Inv'
    <2>1. ByHbbs(c) \in Answers
      BY RepliesDiffer
    <2>2. Sent(AddrOf[c], ByHbbs(c))
      BY <1>0, <1>6, <2>1, SendKeeps DEF Refuse
    <2>3. /\ got' = got /\ signals' = signals
          /\ pc' \in [Conns -> Pcs]
          /\ \A d \in Conns : pc'[d] = pc[d] \/ (pc[d] = "punch" /\ pc'[d] = "refusing")
      BY <1>0, <1>6 DEF Refuse, Goto, TypeOK, Pcs
    <2> QED
      BY <1>0, <2>1, <2>2, <2>3, SentInv
  <1>7. ASSUME NEW s \in signals, Answer(s) PROVE Inv'
    <2>1. s.asker \in Conns /\ [asker |-> s.asker, by |-> "peer"] \in Answers
      BY <1>0 DEF TypeOK, Answers
    <2>2. Sent(AddrOf[s.asker], [asker |-> s.asker, by |-> "peer"])
      BY <1>0, <1>7, <2>1, SendKeeps DEF Answer
    <2>3. /\ got' = got /\ signals' = signals /\ pc' = pc
          /\ pc' \in [Conns -> Pcs]
      BY <1>0, <1>7 DEF Answer, TypeOK, Pcs
    <2> QED
      BY <1>0, <2>1, <2>2, <2>3, SentInv
  <1>8. ASSUME NEW c \in Conns, OwnAnswer(c) PROVE Inv'
    <2>1. ByHbbs(c) \in Answers
      BY RepliesDiffer
    <2>2. sink[c] = "own" => got[c] = <<>>
      BY <1>0, <1>8 DEF OwnAnswer, OneAnswer
    <2>3. TypeOK'
      BY <1>0, <1>8, <2>1 DEF OwnAnswer, Goto, TypeOK
    <2>4. EntriesAlive'
      BY <1>0, <1>8 DEF OwnAnswer, Goto, Inv, TypeOK, EntriesAlive, SinkOf
    <2>5. \A d \in Conns : OneAnswer(d)'
      BY <1>0, <1>8, <2>1, <2>2 DEF OwnAnswer, Goto, TypeOK, OneAnswer
    <2> QED
      BY <2>3, <2>4, <2>5 DEF Inv
  <1>9. ASSUME NEW c \in Conns, End(c) PROVE Inv'
    <2>1. TypeOK'
      BY <1>0, <1>9 DEF End, Goto, TypeOK, SinksWithout
    <2>2. EntriesAlive'
      <3>1. CASE sink[c] = "own"
        BY <1>0, <1>9, <3>1 DEF End, Goto, Inv, TypeOK, EntriesAlive, SinkOf
      <3>2. CASE sink[c] # "own"
        <4> DEFINE a == AddrOf[c]
        <4>1. /\ tcp_punch'[a] = None
              /\ \A b \in Addrs : b # a => tcp_punch'[b] = tcp_punch[b]
              /\ \A d \in Conns : sink'[d] = IF d = tcp_punch[a] THEN "dropped" ELSE sink[d]
          BY <1>0, <1>9, <3>2 DEF End, SinksWithout, TypeOK
        <4>2. pc'[c] = "closed" /\ \A d \in Conns : d # c => pc'[d] = pc[d]
          BY <1>0, <1>9 DEF End, Goto, TypeOK
        <4>3. ASSUME NEW b \in Addrs, tcp_punch'[b] # None
              PROVE  AddrOf[tcp_punch'[b]] = b /\ sink'[tcp_punch'[b]] = "parked"
          <5>1. b # a /\ tcp_punch'[b] = tcp_punch[b]
            BY <4>1, <4>3
          <5>2. /\ tcp_punch[b] \in Conns
                /\ AddrOf[tcp_punch[b]] = b /\ sink[tcp_punch[b]] = "parked"
            BY <1>0, <4>3, <5>1 DEF Inv, EntriesAlive, TypeOK
          <5>3. tcp_punch[b] # tcp_punch[a]
            BY <5>1, <5>2 DEF Inv, EntriesAlive
          <5> QED
            BY <4>1, <5>1, <5>2, <5>3
        <4>4. ASSUME NEW d \in Conns PROVE SinkOf(d)'
          <5>1. CASE d = tcp_punch[a]
            <6>1. sink'[d] = "dropped"
              BY <4>1, <5>1
            <6> QED
              BY <6>1 DEF SinkOf
          <5>2. CASE d # tcp_punch[a] /\ d # c
            <6>1. sink[d] = "parked" => AddrOf[d] # a
              BY <1>0, <5>2 DEF SinkOf
            <6> QED
              BY <1>0, <4>1, <4>2, <5>2, <6>1 DEF SinkOf
          <5>3. CASE d # tcp_punch[a] /\ d = c
            <6>1. sink[c] \in {"taken", "dropped"}
              BY <1>0, <3>2, <5>3 DEF SinkOf, TypeOK
            <6> QED
              BY <4>1, <4>2, <5>3, <6>1 DEF SinkOf
          <5> QED
            BY <5>1, <5>2, <5>3
        <4> QED
          BY <4>3, <4>4 DEF EntriesAlive
      <3> QED
        BY <3>1, <3>2
    <2>3. \A d \in Conns : OneAnswer(d)'
      <3>1. ASSUME NEW d \in Conns PROVE OneAnswer(d)'
        <4>1. /\ pc'[d] = IF d = c THEN "closed" ELSE pc[d]
              /\ got'[d] = got[d] /\ reply'[d] = reply[d]
          BY <1>0, <1>9 DEF End, Goto, TypeOK
        <4>2. \/ sink'[d] = sink[d] /\ (d = c => sink[d] # "own")
              \/ sink[d] \in {"own", "parked"} /\ sink'[d] = "dropped"
          <5>1. CASE sink[c] = "own"
            BY <1>0, <1>9, <5>1 DEF End, TypeOK
          <5>2. CASE sink[c] # "own"
            <6>1. sink'[d] = IF d = tcp_punch[AddrOf[c]] THEN "dropped" ELSE sink[d]
              BY <1>9, <5>2 DEF End, SinksWithout
            <6>2. d = tcp_punch[AddrOf[c]] => sink[d] = "parked"
              BY <1>0 DEF Inv, EntriesAlive
            <6> QED
              BY <5>2, <6>1, <6>2
          <5> QED
            BY <5>1, <5>2
        <4> QED
          BY <1>0, <4>1, <4>2 DEF OneAnswer
      <3> QED
        BY <3>1
    <2> QED
      BY <2>1, <2>2, <2>3 DEF Inv
  <1>11. ASSUME NEW c \in Conns, Write(c) PROVE Inv'
    BY <1>11, WriteInv
  <1>10. CASE UNCHANGED vars
    BY <1>10 DEF vars, Inv, TypeOK, EntriesAlive, SinkOf, OneAnswer
  <1> QED
    BY <1>1, <1>2, <1>3, <1>4, <1>6, <1>7, <1>8, <1>9, <1>10, <1>11
    DEF Next, Task, Asks, HoleSent, LocalAddr, RelayResponse

(***************************************************************************)
(* tcp_punch leaks no connection, whoever shares an address.               *)
(***************************************************************************)
THEOREM NoLeakedSinks == Spec => []EntriesAlive
  <1>1. Inv => EntriesAlive
    BY DEF Inv
  <1> QED
    BY <1>1, InitInv, StepInv, PTL DEF Spec

(***************************************************************************)
(* No connection is answered twice.                                        *)
(***************************************************************************)
THEOREM NeverAnsweredTwice == Spec => []AtMostOneAnswer
  <1>1. ASSUME Inv PROVE AtMostOneAnswer
    <2>1. ASSUME NEW c \in Conns PROVE Len(got[c]) <= 1
      <3>1. got[c] = <<>> \/ Len(got[c]) = 1
        BY <1>1 DEF Inv, OneAnswer
      <3>2. CASE got[c] = <<>>
        BY <3>2
      <3>3. CASE Len(got[c]) = 1
        BY <3>3, 1 <= 1
      <3> QED
        BY <3>1, <3>2, <3>3
    <2> QED
      BY <2>1 DEF AtMostOneAnswer
  <1> QED
    BY <1>1, InitInv, StepInv, PTL DEF Spec

-----------------------------------------------------------------------------
(* Connections with addresses of their own *)

Told(c) ==
    /\ got[c] # <<>> => got[c][1].asker = c
    /\ reply[c] # NoReply => reply[c].asker = c
    /\ pc[c] = "refusing" => sink[c] # "parked"
    /\ sink[c] = "dropped" => got[c] # <<>> \/ pc[c] = "closed"

ToldInv == \A c \in Conns : Alone(c) => Told(c)

(***************************************************************************)
(* The sink under the address of a connection is its own.                  *)
(***************************************************************************)
LEMMA OwnEntry ==
    ASSUME Inv, NEW c \in Conns, NEW d \in Conns, tcp_punch[AddrOf[c]] = d,
           Alone(c) \/ Alone(d)
    PROVE  c = d
  BY ConstantsAssumption DEF Alone, Inv, TypeOK, EntriesAlive

(***************************************************************************)
(* An answer to a connection changes nothing for the others, and leaves it *)
(* told.                                                                   *)
(***************************************************************************)
LEMMA SentTold ==
    ASSUME Inv, ToldInv, NEW c \in Conns, NEW m \in Answers, m.asker = c,
           Sent(AddrOf[c], m),
           got' = got,
           \A d \in Conns : pc'[d] = pc[d] \/ (d = c /\ pc[d] = "punch" /\ pc'[d] = "refusing")
    PROVE  ToldInv'
  <1>1. ASSUME NEW d \in Conns, Alone(d) PROVE Told(d)'
    <2>1. CASE d = tcp_punch[AddrOf[c]]
      <3>1. got[d] = <<>> /\ reply'[d] = m /\ sink'[d] = "taken" /\ d = c
        BY <1>1, <2>1, OwnEntry DEF Sent
      <3> QED
        BY <3>1 DEF Told
    <2>2. CASE d # tcp_punch[AddrOf[c]]
      <3>1. reply'[d] = reply[d] /\ sink'[d] = sink[d]
        BY <2>2 DEF Sent
      <3>2. CASE d = c
        BY <1>1, <2>2, <3>1, <3>2 DEF ToldInv, Told, Inv, EntriesAlive, SinkOf
      <3>3. CASE d # c
        BY <1>1, <3>1, <3>3 DEF ToldInv, Told
      <3> QED
        BY <3>2, <3>3
    <2> QED
      BY <2>1, <2>2
  <1> QED
    BY <1>1 DEF ToldInv

LEMMA StepTold ==
    ASSUME Inv, ToldInv, [Next]_vars
    PROVE  ToldInv'
  <1> USE ConstantsAssumption
  <1>0. TypeOK /\ \A c \in Conns : AddrOf[c] \in Addrs /\ SinkOf(c) /\ OneAnswer(c)
    BY DEF Inv, EntriesAlive, ToldInv
  <1>1. ASSUME got' = got, sink' = sink, reply' = reply,
               \A d \in Conns : /\ pc[d] = "closed" => pc'[d] = "closed"
                                /\ pc'[d] = "refusing" => pc[d] = "refusing"
        PROVE  ToldInv'
    <2>1. ASSUME NEW d \in Conns, Alone(d) PROVE Told(d)'
      <3>1. Told(d)
        BY <2>1 DEF ToldInv
      <3>2. /\ pc[d] = "closed" => pc'[d] = "closed"
            /\ pc'[d] = "refusing" => pc[d] = "refusing"
        BY <1>1, Zenon
      <3>3. got' = got /\ sink' = sink /\ reply' = reply
        BY <1>1, Zenon
      <3> QED
        BY <3>1, <3>2, <3>3 DEF Told
    <2> QED
      BY <2>1 DEF ToldInv
  <1>2. ASSUME NEW c \in Conns, Accept(c) \/ Stop(c) \/ Refused(c) \/ ForwardRelay(c)
        PROVE  ToldInv'
    BY <1>0, <1>1, <1>2 DEF Accept, Stop, Refused, ForwardRelay, Goto, TypeOK
  <1>3. ASSUME NEW c \in Conns, NEW k \in Kinds, Forward(c, k) PROVE ToldInv'
    BY <1>0, <1>1, <1>3 DEF Forward, Goto, TypeOK
  <1>4. ASSUME NEW c \in Conns, NEW l \in {"punch", "relay"}, Ask(c, l) PROVE ToldInv'
    <2>1. /\ got' = got /\ reply' = reply /\ ParkSink(c) /\ pc'[c] # "refusing"
          /\ \A d \in Conns : /\ pc[d] = "closed" => pc'[d] = "closed"
                              /\ pc'[d] = "refusing" => pc[d] = "refusing"
      BY <1>0, <1>4 DEF Ask, Goto, TypeOK
    <2>2. CASE sink[c] # "own"
      BY <1>1, <2>1, <2>2, ParkKeeps
    <2>3. CASE sink[c] = "own"
      <3>1. ASSUME NEW d \in Conns, Alone(d) PROVE Told(d)'
        <4>1. d # tcp_punch[AddrOf[c]]
          <5>1. ASSUME d = tcp_punch[AddrOf[c]] PROVE FALSE
            <6>1. d = c
              BY <3>1, <5>1, OwnEntry
            <6>2. sink[d] = "parked"
              BY <1>0, <5>1 DEF Inv, EntriesAlive
            <6> QED
              BY <2>3, <6>1, <6>2
          <5> QED
            BY <5>1
        <4>2. sink'[c] = "parked" /\ (d # c => sink'[d] = sink[d])
          BY <2>1, <2>3, <4>1, ParkKeeps
        <4> QED
          BY <1>0, <2>1, <3>1, <4>2 DEF ToldInv, Told
      <3> QED
        BY <3>1 DEF ToldInv
    <2> QED
      BY <2>2, <2>3
  <1>5. ASSUME NEW c \in Conns, Refuse(c) PROVE ToldInv'
    <2>1. ByHbbs(c) \in Answers /\ ByHbbs(c).asker = c
      BY RepliesDiffer DEF ByHbbs
    <2>2. Sent(AddrOf[c], ByHbbs(c))
      BY <1>0, <1>5, <2>1, SendKeeps DEF Refuse
    <2>3. /\ got' = got
          /\ \A d \in Conns : \/ pc'[d] = pc[d]
                              \/ d = c /\ pc[d] = "punch" /\ pc'[d] = "refusing"
      BY <1>0, <1>5 DEF Refuse, Goto, TypeOK
    <2> QED
      BY <2>1, <2>2, <2>3, SentTold
  <1>6. ASSUME NEW s \in signals, Answer(s) PROVE ToldInv'
    <2>1. s.asker \in Conns /\ [asker |-> s.asker, by |-> "peer"] \in Answers
      BY <1>0 DEF TypeOK, Answers
    <2>2. Sent(AddrOf[s.asker], [asker |-> s.asker, by |-> "peer"])
      BY <1>0, <1>6, <2>1, SendKeeps DEF Answer
    <2>3. pc' = pc /\ got' = got
      BY <1>6 DEF Answer
    <2> QED
      BY <2>1, <2>2, <2>3, SentTold
  <1>7. ASSUME NEW c \in Conns, OwnAnswer(c) PROVE ToldInv'
    <2>1. sink' = sink /\ reply' = reply /\ pc'[c] = "ending" /\ \A d \in Conns : d # c => pc'[d] = pc[d]
      BY <1>0, <1>7 DEF OwnAnswer, Goto, TypeOK
    <2>2. CASE sink[c] # "own"
      BY <1>0, <1>1, <1>7, <2>1, <2>2 DEF OwnAnswer
    <2>3. CASE sink[c] = "own"
      <3> DEFINE m == ByHbbs(c)
      <3>1. got[c] = <<>> /\ reply[c] = NoReply
        BY <1>0, <1>7, <2>3 DEF OwnAnswer, OneAnswer
      <3>2. got'[c] = Append(got[c], m) /\ \A d \in Conns : d # c => got'[d] = got[d]
        BY <1>0, <1>7, <2>3 DEF OwnAnswer, TypeOK
      <3>3. Append(<<>>, m) = <<m>> /\ <<m>>[1] = m
        OBVIOUS
      <3>4. got'[c] = <<m>> /\ m.asker = c
        BY <3>1, <3>2, <3>3 DEF ByHbbs
      <3>5. Told(c)'
        BY <2>1, <2>3, <3>1, <3>3, <3>4 DEF Told
      <3>6. \A d \in Conns : d # c /\ Alone(d) => Told(d)'
        BY <1>0, <2>1, <3>2 DEF ToldInv, Told
      <3> QED
        BY <3>5, <3>6 DEF ToldInv
    <2> QED
      BY <2>2, <2>3
  <1>8. ASSUME NEW c \in Conns, End(c) PROVE ToldInv'
    <2>1. /\ got' = got /\ reply' = reply /\ pc'[c] = "closed"
          /\ \A d \in Conns : d # c => pc'[d] = pc[d]
      BY <1>0, <1>8 DEF End, Goto, TypeOK
    <2>2. ASSUME NEW d \in Conns, Alone(d), d # c PROVE sink'[d] = sink[d]
      <3>1. d # tcp_punch[AddrOf[c]]
        BY <2>2, OwnEntry
      <3> QED
        BY <1>0, <1>8, <2>2, <3>1 DEF End, SinksWithout, TypeOK
    <2> QED
      BY <1>0, <2>1, <2>2 DEF ToldInv, Told
  <1>10. ASSUME NEW c \in Conns, Write(c) PROVE ToldInv'
    <2>1. pc' = pc
      BY <1>10 DEF Write
    <2>2. ASSUME NEW d \in Conns, d # c, Alone(d) PROVE Told(d)'
      BY <1>10, <2>1, <2>2, WriteDoes DEF ToldInv, Told
    <2>3. ASSUME Alone(c) PROVE Told(c)'
      <3>1. <<reply[c]>>[1] = reply[c] /\ <<reply[c]>> # <<>>
        OBVIOUS
      <3>2. reply[c].asker = c
        BY <1>10, <2>3 DEF ToldInv, Told, Write
      <3> QED
        BY <1>10, <3>1, <3>2, WriteDoes DEF Told
    <2> QED
      BY <2>2, <2>3 DEF ToldInv
  <1>9. CASE UNCHANGED vars
    BY <1>1, <1>9 DEF vars
  <1> QED
    BY <1>2, <1>3, <1>4, <1>5, <1>6, <1>7, <1>8, <1>9, <1>10
    DEF Next, Task, Asks, HoleSent, LocalAddr, RelayResponse

(***************************************************************************)
(* A connection with an address of its own gets the answers to its own     *)
(* requests and no others, however the rest share addresses.               *)
(***************************************************************************)
THEOREM DirectAnswers == Spec => []AnswersReachAsker
  <1>1. Init => ToldInv
    BY DEF Init, ToldInv, Told
  <1>2. Inv /\ ToldInv /\ [Next]_vars => ToldInv'
    BY StepTold
  <1>3. ASSUME Inv, ToldInv PROVE AnswersReachAsker
    <2>1. ASSUME NEW c \in Conns, Alone(c), NEW i \in 1 .. Len(got[c])
          PROVE  got[c][i].asker = c
      <3>1. got[c] \in Seq(Answers) /\ got[c] # <<>>
        BY <1>3, <2>1 DEF Inv, TypeOK
      <3>2. Len(got[c]) = 1
        BY <1>3, <3>1 DEF Inv, OneAnswer
      <3>3. i = 1
        BY <2>1, <3>2
      <3> QED
        BY <1>3, <2>1, <3>1, <3>3 DEF ToldInv, Told
    <2> QED
      BY <2>1, Zenon DEF AnswersReachAsker
  <1> QED
    BY <1>1, <1>2, <1>3, InitInv, StepInv, PTL DEF Spec

(***************************************************************************)
(* A refused asker with an address of its own is never left waiting.       *)
(***************************************************************************)
THEOREM DirectRefusals == Spec => RefusalIsTold
  <1>1. Init => ToldInv
    BY DEF Init, ToldInv, Told
  <1>2. Inv /\ ToldInv /\ [Next]_vars => ToldInv'
    BY StepTold
  <1>3. ASSUME Inv, ToldInv, NEW c \in Conns, Alone(c), pc[c] = "refusing"
        PROVE  got[c] # <<>> \/ sink[c] = "taken"
    <2>1. sink[c] \in {"taken", "dropped"}
      BY <1>3 DEF ToldInv, Told, Inv, TypeOK, EntriesAlive, SinkOf
    <2> QED
      BY <1>3, <2>1 DEF ToldInv, Told
  <1>4. Inv /\ ToldInv /\ [Next]_vars =>
          [\A c \in Conns : pc[c] = "refusing" /\ pc'[c] # "refusing" /\ Alone(c)
                               => got[c] # <<>> \/ sink[c] = "taken"]_vars
    BY <1>3
  <1> QED
    BY <1>1, <1>2, <1>4, InitInv, StepInv, PTL DEF Spec, RefusalIsTold
=============================================================================
