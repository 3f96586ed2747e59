------------------------- MODULE PeerRegistryProofs -------------------------
(***************************************************************************)
(* Proofs about PeerRegistry, for every set of ids, clients, addresses and *)
(* spawned tasks.  Type correctness, OnlineHasAddress and the log of       *)
(* address changes hold whatever the database does; IdentityPinned needs   *)
(* lookups and inserts that do not fail, and the inductive invariant       *)
(* Pinned below.  What memory and database agree on rests on InStepInv,    *)
(* what the log agrees on with memory on LogInv.                           *)
(***************************************************************************)
EXTENDS PeerRegistry, TLAPS

(***************************************************************************)
(* The operators that build a peer return well-formed ones.                *)
(***************************************************************************)
LEMMA DefaultPeerType == DefaultPeer \in Peer
  BY ConstantsAssumption DEF DefaultPeer, ExpiredAge, Peer, Capped

LEMMA FromRowType == \A row \in Row : FromRow(row) \in Peer
  BY DefaultPeerType DEF FromRow, Row, Peer, DefaultPeer

LEMMA RefreshedType == \A p \in Peer, ip \in Ips : Refreshed(p, ip) \in Peer
  BY ConstantsAssumption DEF Refreshed, Peer

LEMMA AgedType == \A p \in Peer : Aged(p) \in Peer
  BY ConstantsAssumption DEF Aged, Peer, Capped

LEMMA WithGuidType == \A p \in Peer : WithGuid(p) \in Peer
  BY DEF WithGuid, Peer

(***************************************************************************)
(* A request that the limiter lets through leaves its counter in range:    *)
(* this is where RegisterPk depends on Throttled.                          *)
(***************************************************************************)
LEMMA CountedType ==
    \A p \in Peer : ~ Throttled(p) => Counted(p) \in Peer
  BY ConstantsAssumption DEF Counted, CountRegPk, Throttled, Peer

LEMMA WrittenType ==
    ASSUME io \in Request
    PROVE  \A p \in Peer : ~ Throttled(p) => Written(p) \in Peer
  BY ConstantsAssumption DEF Written, CountRegPk, Throttled, Peer, Request

(***************************************************************************)
(* While io_loop is in the second half of RegisterPk it has an object.     *)
(***************************************************************************)
IoHasPeer ==
    /\ io.obj # NoPeer => io.pc \in {"decide", "persist"}
    /\ io.pc \in {"decide", "persist"} => mem[io.id] # NoPeer
    /\ \A t \in Tasks : task[t].pc = "install" => task[t].row # NoRow

TypeInv == TypeOK /\ IoHasPeer

LEMMA IoCases ==
    ASSUME TypeOK
    PROVE  /\ io.pc # "idle" => io \in Request /\ io.id \in Ids /\ io.uuid \in Uuids
                                /\ io.pk \in Pks /\ io.ip \in Ips
           /\ io.pc = "idle" => io = IdleIo
           /\ io.obj \in Peer \cup {NoPeer}
  BY DEF TypeOK, Request, IdleIo

LEMMA AnswerCases ==
    ASSUME io \in Request
    PROVE  /\ ToAnswer \in Request /\ ToAnswer.pc = "answer" /\ ToAnswer.row = NoRow
           /\ ToAnswer.obj = NoPeer /\ ToAnswer.id = io.id /\ ToAnswer.uuid = io.uuid
           /\ ToAnswer.pk = io.pk /\ ToAnswer.ip = io.ip
  BY DEF ToAnswer, Request

LEMMA TaskCases ==
    ASSUME TypeOK, NEW t \in Tasks
    PROVE  task[t].pc # "idle" => task[t] \in Load /\ task[t].id \in Ids
                                  /\ task[t].row \in Row \cup {NoRow}
  BY DEF TypeOK, Load, IdleTask
(***************************************************************************)
(* The object io_loop works on is a peer.                                  *)
(***************************************************************************)
LEMMA IoPeerType ==
    ASSUME TypeInv, io.pc \in {"decide", "persist"}
    PROVE  IoPeer \in Peer /\ (io.obj = NoPeer => IoPeer = mem[io.id])
  BY IoCases DEF TypeInv, TypeOK, IoHasPeer, IoPeer

(***************************************************************************)
(* Every step keeps the types.                                             *)
(***************************************************************************)
LEMMA TypeInvStep == TypeInv /\ [Next]_vars => TypeInv'
  <1> SUFFICES ASSUME TypeInv, [Next]_vars PROVE TypeInv'
    OBVIOUS
  <1>0. DbFaults' = DbFaults /\ uptime' \in 0 .. MAX_UPTIME
    BY ConstantsAssumption DEF Next, vars, TypeInv, TypeOK, Restart, Tick, Capped, MAX_UPTIME
  <1> USE <1>0
  <1> USE DEF TypeInv, history
  <1>1. ASSUME NEW id \in Ids, NEW ip \in Ips, RegisterPeer(id, ip) PROVE TypeInv'
    <2>1. mem[id] \in Peer /\ io.obj = NoPeer
      BY <1>1, IoCases DEF RegisterPeer, TypeOK, IdleIo
    <2>2. Refreshed(mem[id], ip) \in Peer
      BY <2>1, RefreshedType
    <2> QED
      BY <1>1, <2>2, IoCases DEF RegisterPeer, TypeOK, IoHasPeer
  <1>2. ASSUME NEW id \in Ids, NEW cred \in Creds, NEW ip \in Ips, RegisterPk(id, cred, ip)
        PROVE  TypeInv'
    <2>1. cred.uuid \in Uuids /\ cred.pk \in Pks
      BY ConstantsAssumption
    <2>2. io' \in Request
      BY <1>2, <2>1 DEF RegisterPk, Request
    <2> QED
      BY <1>2, <2>2 DEF RegisterPk, TypeOK, IoHasPeer
  <1>3. CASE IoQuery
    <2>1. io \in Request /\ db[io.id] \in Row \cup {NoRow}
      BY <1>3, IoCases DEF IoQuery, TypeOK
    <2>2. io' \in Request /\ io'.pc = "install" /\ io'.obj = io.obj
      BY <1>3, <2>1 DEF IoQuery, Answers, Request
    <2> QED
      BY <1>3, <2>2 DEF IoQuery, TypeOK, IoHasPeer
  <1>4. CASE IoInstall
    <2>1. io \in Request /\ io.row \in Row \cup {NoRow} /\ io.id \in Ids
      BY <1>4, IoCases DEF IoInstall, Request
    <2>2. io' \in Request /\ io'.pc = "decide" /\ io'.obj = io.obj /\ io'.id = io.id
      BY <1>4, <2>1 DEF IoInstall, Request
    <2>3. mem' \in [Ids -> Peer \cup {NoPeer}] /\ mem'[io.id] # NoPeer
      BY <1>4, <2>1, FromRowType, DefaultPeerType, MarkersAssumption DEF IoInstall, TypeOK
    <2> QED
      BY <1>4, <2>2, <2>3 DEF IoInstall, TypeOK, IoHasPeer
  <1>5. CASE IoRefuse
    BY <1>5 DEF IoRefuse, TypeOK, IoHasPeer, IdleIo
  <1>6. CASE IoConfirm
    <2>1. /\ io \in Request /\ io.id \in Ids /\ io.uuid \in Uuids /\ io.pk \in Pks
          /\ IoPeer \in Peer /\ ~ Throttled(IoPeer)
      BY <1>6, IoCases, IoPeerType DEF IoConfirm
    <2>2. Counted(IoPeer) \in Peer
      BY <2>1, CountedType
    <2>3. mem' \in [Ids -> Peer \cup {NoPeer}]
      BY <1>6, <2>1, <2>2 DEF IoConfirm, IoPeer, TypeOK
    <2> QED
      BY <1>6, <2>1, <2>3, AnswerCases DEF IoConfirm, TypeOK, IoHasPeer
  <1>7. CASE IoWrite
    <2>1. /\ io \in Request /\ io.id \in Ids /\ io.ip \in Ips
          /\ IoPeer \in Peer /\ ~ Throttled(IoPeer) /\ io.obj \in Peer \cup {NoPeer}
      BY <1>7, IoCases, IoPeerType DEF IoWrite
    <2>2. Written(IoPeer) \in Peer
      BY <2>1, WrittenType
    <2>3. mem' \in [Ids -> Peer \cup {NoPeer}] /\ mem'[io.id] # NoPeer
      BY <1>7, <2>1, <2>2, MarkersAssumption DEF IoWrite, IoPeer, TypeOK, IoHasPeer
    <2>4. io' \in Request /\ io'.pc = "persist" /\ io'.id = io.id
      BY <1>7, <2>1, <2>2 DEF IoWrite, IoPeer, Request
    <2>5. \A log \in Log \cup {NoLog} : LogIpChange(log) \in Log
      BY <2>1, ConstantsAssumption DEF LogIpChange, Log
    <2>6. ipChanges' \in [Ids -> Log \cup {NoLog}]
      BY <1>7, <2>1, <2>5 DEF IoWrite, TypeOK
    <2> QED
      BY <1>7, <2>3, <2>4, <2>6 DEF IoWrite, TypeOK, IoHasPeer
  <1>8. CASE IoInsert
    <2>1. /\ io \in Request /\ io.id \in Ids /\ io.uuid \in Uuids /\ io.pk \in Pks
          /\ io.ip \in Ips /\ IoPeer \in Peer
      BY <1>8, IoCases, IoPeerType DEF IoInsert
    <2>2. WithGuid(IoPeer) \in Peer /\ [uuid |-> io.uuid, pk |-> io.pk, ip |-> io.ip] \in Row
      BY <2>1, WithGuidType DEF Row
    <2>3. mem' \in [Ids -> Peer \cup {NoPeer}]
      BY <1>8, <2>1, <2>2 DEF IoInsert, IoPeer, TypeOK
    <2>4. db' \in [Ids -> Row \cup {NoRow}]
      BY <1>8, <2>2 DEF IoInsert, TypeOK
    <2> QED
      BY <1>8, <2>1, <2>3, <2>4, AnswerCases DEF IoInsert, Stored, TypeOK, IoHasPeer
  <1>9. CASE IoUpdate
    <2>1. /\ io \in Request /\ io.id \in Ids /\ io.uuid \in Uuids /\ io.pk \in Pks
          /\ io.ip \in Ips
      BY <1>9, IoCases DEF IoUpdate
    <2>2. db[io.id] \in Row
      BY <1>9, <2>1 DEF IoUpdate, TypeOK
    <2>3. db' \in [Ids -> Row \cup {NoRow}]
      BY <1>9, <2>1, <2>2 DEF IoUpdate, TypeOK, Row
    <2> QED
      BY <1>9, <2>1, <2>3, AnswerCases DEF IoUpdate, Stored, TypeOK, IoHasPeer
  <1>10. CASE IoPersistError
    <2>1. io \in Request /\ io.id \in Ids /\ io.uuid \in Uuids /\ io.pk \in Pks
      BY <1>10, IoCases DEF IoPersistError
    <2> QED
      BY <1>10, <2>1, AnswerCases DEF IoPersistError, TypeOK, IoHasPeer
  <1>11. ASSUME NEW t \in Tasks, NEW id \in Ids, TaskGet(t, id) PROVE TypeInv'
    BY <1>11 DEF TaskGet, TypeOK, IoHasPeer, Load
  <1>12. ASSUME NEW t \in Tasks, TaskQuery(t) PROVE TypeInv'
    <2>1. task[t] \in Load /\ task[t].id \in Ids
      BY <1>12, TaskCases DEF TaskQuery
    <2>2. \A row \in Answers(task[t].id) : row \in Row \cup {NoRow}
      BY <2>1 DEF Answers, TypeOK
    <2>3. PICK row \in Answers(task[t].id) :
            task' = [task EXCEPT ![t] = IF row = NoRow THEN IdleTask
                       ELSE [pc |-> "install", id |-> task[t].id, row |-> row]]
      BY <1>12 DEF TaskQuery
    <2>4. task' \in [Tasks -> Load \cup {IdleTask}]
      BY <2>1, <2>2, <2>3 DEF TypeOK, Load
    <2>5. \A u \in Tasks : task'[u].pc = "install" => task'[u].row # NoRow
      BY <2>3 DEF TypeOK, IoHasPeer, IdleTask
    <2> QED
      BY <1>12, <2>4, <2>5 DEF TaskQuery, TypeOK, IoHasPeer
  <1>13. ASSUME NEW t \in Tasks, TaskInstall(t) PROVE TypeInv'
    <2>1. /\ task[t].id \in Ids /\ task[t].row \in Row
          /\ FromRow(task[t].row) \in Peer /\ FromRow(task[t].row) # NoPeer
      BY <1>13, TaskCases, FromRowType, MarkersAssumption DEF TaskInstall, IoHasPeer
    <2>2. mem' \in [Ids -> Peer \cup {NoPeer}] /\ \A id \in Ids : mem[id] # NoPeer => mem'[id] # NoPeer
      BY <1>13, <2>1 DEF TaskInstall, TypeOK
    <2>3. io' \in Request \cup {IdleIo} /\ io'.pc = io.pc /\ io'.id = io.id
      <3>1. CASE IoHolds(task[t].id)
        <4>1. io \in Request /\ mem[task[t].id] \in Peer \cup {NoPeer}
          BY <2>1, <3>1, IoCases DEF IoHolds, TypeOK
        <4> QED
          BY <1>13, <3>1, <4>1 DEF TaskInstall, Request
      <3>2. CASE ~ IoHolds(task[t].id)
        BY <1>13, <3>2 DEF TaskInstall, TypeOK
      <3> QED
        BY <3>1, <3>2
    <2>4. io'.obj # NoPeer => io.obj # NoPeer \/ io.pc \in {"decide", "persist"}
      BY <1>13 DEF TaskInstall, IoHolds
    <2>5. io.pc # "idle" => io.id \in Ids
      BY IoCases
    <2>6. task' \in [Tasks -> Load \cup {IdleTask}]
      BY <1>13 DEF TaskInstall, TypeOK
    <2>7. \A u \in Tasks : task'[u].pc = "install" => task'[u].row # NoRow
      BY <1>13 DEF TaskInstall, TypeOK, IoHasPeer, IdleTask
    <2>8. raced' \in [Ids -> BOOLEAN]
      BY <1>13, <2>1, Zenon DEF TaskInstall, TypeOK
    <2> QED
      BY <1>13, <2>2, <2>3, <2>4, <2>5, <2>6, <2>7, <2>8 DEF TaskInstall, TypeOK, IoHasPeer
  <1>14. CASE ListIpChanges
    BY <1>14 DEF ListIpChanges, KeptLogs, TypeOK, IoHasPeer
  <1>15. ASSUME NEW id \in Ids, RemoveIpChanges(id) PROVE TypeInv'
    BY <1>15 DEF RemoveIpChanges, KeptLogs, TypeOK, IoHasPeer
  <1>16. CASE Restart
    BY <1>16 DEF Restart, TypeOK, IoHasPeer, IdleIo, IdleTask
  <1>17. CASE Tick
    <2>1. mem' \in [Ids -> Peer \cup {NoPeer}] /\ \A id \in Ids : mem[id] # NoPeer => mem'[id] # NoPeer
      BY <1>17, AgedType, MarkersAssumption DEF Tick, TypeOK
    <2>2. io' \in Request \cup {IdleIo} /\ io'.pc = io.pc /\ io'.id = io.id
          /\ (io'.obj # NoPeer => io.obj # NoPeer)
      <3>1. CASE io.obj = NoPeer
        BY <1>17, <3>1 DEF Tick, TypeOK
      <3>2. CASE io.obj # NoPeer
        <4>1. io \in Request /\ Aged(io.obj) \in Peer
          BY <3>2, IoCases, AgedType DEF TypeOK, IdleIo
        <4> QED
          BY <1>17, <3>2, <4>1 DEF Tick, Request
      <3> QED
        BY <3>1, <3>2
    <2>3. ipChanges' \in [Ids -> Log \cup {NoLog}]
      BY <1>17, ConstantsAssumption DEF Tick, TypeOK, Log, Capped
    <2>4. io.pc # "idle" => io.id \in Ids
      BY IoCases
    <2> QED
      BY <1>17, <2>1, <2>2, <2>3, <2>4 DEF Tick, TypeOK, IoHasPeer
  <1>18. CASE UNCHANGED vars
    BY <1>18 DEF vars, TypeOK, IoHasPeer
  <1>19. CASE IoAnswer
    <2>1. io.id \in Ids /\ io.uuid \in Uuids /\ io.pk \in Pks
      BY <1>19, IoCases DEF IoAnswer
    <2> QED
      BY <1>19, <2>1 DEF IoAnswer, TypeOK, IoHasPeer, IdleIo
  <1>20. CASE IoAnswerLost
    BY <1>20 DEF IoAnswerLost, TypeOK, IoHasPeer, IdleIo
  <1> QED
    BY <1>1, <1>2, <1>3, <1>4, <1>5, <1>6, <1>7, <1>8, <1>9, <1>10, <1>11, <1>12, <1>13,
       <1>14, <1>15, <1>16, <1>17, <1>18, <1>19, <1>20 DEF Next, Work

LEMMA TypeInvInit == Init => TypeInv
  BY ConstantsAssumption DEF Init, TypeInv, TypeOK, IoHasPeer, IdleIo, IdleTask, MAX_UPTIME

(***************************************************************************)
(* The registry is well typed, and io_loop always finds the peer it is     *)
(* working on, under every fault of the database.                          *)
(***************************************************************************)
THEOREM RegistryTypes == Spec => []TypeInv
  BY TypeInvInit, TypeInvStep, PTL DEF Spec
-----------------------------------------------------------------------------
(* Online peers can be reached *)

\* A key comes with every address, and an online peer without one was made too early.
Reached(p) ==
    /\ p.sock # Null => p.pk # Null
    /\ p.sock = Null /\ p.regAge < REG_TIMEOUT => MadeTooEarly(p)

OnlineInv == \A id \in Ids : mem[id] # NoPeer => Reached(mem[id])

LEMMA NewIsReached ==
    /\ Reached(DefaultPeer)
    /\ \A row : Reached(FromRow(row))
  <1>1. /\ DefaultPeer.sock = Null /\ DefaultPeer.regAge = Capped(ExpiredAge, REG_TIMEOUT)
        /\ \A row : FromRow(row).sock = Null /\ FromRow(row).regAge = DefaultPeer.regAge
    BY DEF DefaultPeer, FromRow
  <1>2. CASE uptime < EXPIRED_AGE
    BY <1>1, <1>2, ConstantsAssumption DEF Reached, MadeTooEarly, ExpiredAge, Capped
  <1>3. CASE ~ (uptime < EXPIRED_AGE)
    BY <1>1, <1>3, ConstantsAssumption DEF Reached, ExpiredAge, Capped
  <1> QED
    BY <1>2, <1>3

(***************************************************************************)
(* One step of io_loop, a spawned task, an administrator or the clock      *)
(* keeps every peer in memory reachable, if it is online and was not made  *)
(* too early.                                                              *)
(***************************************************************************)
LEMMA OnlineStep == TypeInv /\ OnlineInv /\ [Next]_vars => OnlineInv'
  <1> SUFFICES ASSUME TypeInv, OnlineInv, [Next]_vars,
                      NEW q \in Ids, mem'[q] # NoPeer
               PROVE  Reached(mem[q])'
    BY DEF OnlineInv
  <1> USE DEF TypeInv, history
  <1>0. ASSUME uptime' = uptime, Reached(mem'[q]) PROVE Reached(mem[q])'
    BY <1>0 DEF Reached, MadeTooEarly
  <1>1. CASE mem'[q] = mem[q] /\ uptime' = uptime
    BY <1>0, <1>1 DEF OnlineInv
  <1>2. CASE Restart
    BY <1>2 DEF Restart
  <1>3. CASE Tick
    <2>1. mem[q] # NoPeer /\ mem[q] \in Peer /\ mem'[q] = Aged(mem[q])
      BY <1>3 DEF Tick, TypeOK
    <2>2. /\ mem'[q].sock = mem[q].sock /\ mem'[q].pk = mem[q].pk
          /\ mem[q].regAge \in 0 .. REG_TIMEOUT
          /\ mem'[q].regAge = Capped(mem[q].regAge + 1, REG_TIMEOUT)
      BY <2>1 DEF Aged, Peer
    <2>3. uptime \in Nat /\ uptime' = Capped(uptime + 1, MAX_UPTIME)
      BY <1>3, ConstantsAssumption DEF Tick, TypeOK, MAX_UPTIME
    <2>4. ASSUME mem'[q].regAge < REG_TIMEOUT
          PROVE  mem[q].regAge < REG_TIMEOUT /\ mem'[q].regAge = mem[q].regAge + 1
      BY <2>2, <2>4, ConstantsAssumption DEF Capped
    <2>5. ASSUME mem'[q].regAge < REG_TIMEOUT, uptime < EXPIRED_AGE + mem[q].regAge
          PROVE  uptime' < EXPIRED_AGE + mem'[q].regAge
      BY <2>2, <2>3, <2>4, <2>5, ConstantsAssumption DEF Capped
    <2> QED
      BY <2>1, <2>2, <2>4, <2>5 DEF OnlineInv, Reached, MadeTooEarly
  <1>4. ASSUME Work, uptime' = uptime PROVE Reached(mem'[q])
    <2>1. CASE mem'[q] = mem[q]
      BY <2>1 DEF OnlineInv
    <2>2. ASSUME NEW id \in Ids, NEW ip \in Ips, RegisterPeer(id, ip) PROVE Reached(mem'[q])
      <3>1. mem'[q] = mem[q] \/ (mem'[q] = Refreshed(mem[q], ip) /\ ~ RequestPk(mem[q], ip))
        BY <2>2 DEF RegisterPeer, TypeOK
      <3> QED
        BY <2>1, <3>1, ConstantsAssumption DEF Refreshed, RequestPk, Reached
    <2>3. CASE IoInstall
      <3>1. mem'[q] = mem[q] \/ mem'[q] = FromRow(io.row) \/ mem'[q] = DefaultPeer
        BY <2>3 DEF IoInstall, TypeOK
      <3> QED
        BY <2>1, <3>1, NewIsReached
    <2>4. CASE IoConfirm \/ IoInsert
      <3>1. \/ mem'[q] = mem[q]
            \/ mem[q] # NoPeer /\ (mem'[q] = Counted(mem[q]) \/ mem'[q] = WithGuid(mem[q]))
        BY <2>4 DEF IoConfirm, IoInsert, TypeOK, IoHasPeer
      <3> QED
        BY <2>1, <3>1 DEF Counted, WithGuid, OnlineInv, Reached, MadeTooEarly
    <2>5. CASE IoWrite
      <3>1. mem'[q] = mem[q] \/ mem'[q] = Written(mem[q])
        BY <2>5 DEF IoWrite, TypeOK
      <3>2. io.ip \in Ips /\ io.pk \in Pks
        BY <2>5, IoCases DEF IoWrite
      <3> QED
        BY <2>1, <3>1, <3>2, ConstantsAssumption DEF Written, Reached
    <2>6. ASSUME NEW t \in Tasks, TaskInstall(t) PROVE Reached(mem'[q])
      <3>1. mem'[q] = mem[q] \/ mem'[q] = FromRow(task[t].row)
        BY <2>6 DEF TaskInstall, TypeOK
      <3> QED
        BY <2>1, <3>1, NewIsReached
    <2>7. CASE mem' = mem
      BY <2>1, <2>7
    <2> QED
      BY <1>4, <2>2, <2>3, <2>4, <2>5, <2>6, <2>7
      DEF Work, RegisterPk, IoQuery, IoRefuse, IoUpdate, IoPersistError, IoAnswer,
          IoAnswerLost, TaskGet, TaskQuery, ListIpChanges, RemoveIpChanges
  <1> QED
    BY <1>0, <1>1, <1>2, <1>3, <1>4 DEF Next, vars

(***************************************************************************)
(* For every database, faulty or not, and every machine, just booted or    *)
(* not: a peer that hbbs takes for online has an address and a key, unless *)
(* it was made before the clock could go back an hour.                     *)
(***************************************************************************)
THEOREM OnlineReachable == Spec => []OnlineHasAddress
  <1>1. Init => OnlineInv
    BY DEF Init, OnlineInv
  <1>2. OnlineInv => OnlineHasAddress
    BY DEF OnlineInv, Reached, OnlineHasAddress, Online
  <1> QED
    BY <1>1, <1>2, RegistryTypes, OnlineStep, PTL DEF Spec

-----------------------------------------------------------------------------
(* An id belongs to one machine *)

\* A peer object of this id is backed by the row of the id: it knows the
\* row's uuid and that there is a row, or there is none and it has no uuid.
Backed(p, id) ==
    IF db[id] = NoRow THEN p.guid = FALSE /\ p.uuid = Null
    ELSE p.guid = TRUE /\ p.uuid = db[id].uuid

RowKnown(row, id) == row # NoRow => db[id] # NoRow /\ db[id].uuid = row.uuid

MemBacked ==
    \A id \in Ids : mem[id] # NoPeer /\ ~ (io.pc = "persist" /\ io.id = id)
                     => Backed(mem[id], id)

\* Between the two halves of update_pk the objects may run ahead of the row,
\* but only if there is none yet.
PersistAhead ==
    io.pc = "persist" =>
        /\ IoPeer.uuid = io.uuid /\ mem[io.id].uuid = io.uuid
        /\ db[io.id] = NoRow => /\ IoPeer.guid = FALSE /\ mem[io.id].guid = FALSE
                                /\ io.obj = NoPeer
        /\ db[io.id] # NoRow => /\ db[io.id].uuid = io.uuid
                                /\ IoPeer.guid = TRUE /\ mem[io.id].guid = TRUE

DecideBacked ==
    io.pc = "decide" => Backed(IoPeer, io.id) /\ (io.obj # NoPeer => db[io.id] # NoRow)

IoRowKnown ==
    io.pc = "install" => RowKnown(io.row, io.id) /\ (io.row = NoRow => db[io.id] = NoRow)

TaskRowsKnown ==
    \A t \in Tasks : task[t].pc = "install" => RowKnown(task[t].row, task[t].id)

AnswerBacked == io.pc = "answer" => db[io.id] # NoRow /\ db[io.id].uuid = io.uuid

Pinned ==
    /\ MemBacked /\ PersistAhead /\ DecideBacked
    /\ IoRowKnown /\ TaskRowsKnown /\ AnswerBacked

PinnedInv == Pinned /\ OwnersStored
(***************************************************************************)
(* A step that touches no row, no peer and no request of io_loop or of a   *)
(* task (beyond their ages) keeps the invariant.                           *)
(***************************************************************************)
LEMMA PinnedFrame ==
    ASSUME TypeInv, PinnedInv, db' = db, owners' = owners,
           io'.pc = io.pc, io'.id = io.id, io'.uuid = io.uuid, io'.row = io.row,
           task' = task,
           (io'.obj = NoPeer) <=> (io.obj = NoPeer),
           io.obj # NoPeer => io'.obj.uuid = io.obj.uuid /\ io'.obj.guid = io.obj.guid,
           \A id \in Ids : /\ (mem'[id] = NoPeer) <=> (mem[id] = NoPeer)
                           /\ mem[id] # NoPeer => /\ mem'[id].uuid = mem[id].uuid
                                                  /\ mem'[id].guid = mem[id].guid
    PROVE  PinnedInv'
  <1>1. io.pc # "idle" => io.id \in Ids
    BY IoCases DEF TypeInv
  <1>2. io.pc \in {"decide", "persist"} =>
            /\ mem[io.id] # NoPeer
            /\ IoPeer'.uuid = IoPeer.uuid /\ IoPeer'.guid = IoPeer.guid
    BY <1>1 DEF IoPeer, TypeInv, IoHasPeer
  <1>3. OwnersStored'
    BY DEF PinnedInv, OwnersStored
  <1>4. MemBacked'
    BY DEF PinnedInv, Pinned, MemBacked, Backed
  <1>5. PersistAhead'
    BY <1>1, <1>2 DEF PinnedInv, Pinned, PersistAhead
  <1>6. DecideBacked'
    BY <1>2 DEF PinnedInv, Pinned, DecideBacked, Backed
  <1>7. IoRowKnown' /\ TaskRowsKnown' /\ AnswerBacked'
    BY DEF PinnedInv, Pinned, IoRowKnown, TaskRowsKnown, RowKnown, AnswerBacked
  <1> QED
    BY <1>3, <1>4, <1>5, <1>6, <1>7 DEF PinnedInv, Pinned

LEMMA PinnedStep ==
    ReliableLookups /\ TypeInv /\ PinnedInv /\ [Next]_vars => PinnedInv'
  <1> SUFFICES ASSUME ReliableLookups, TypeInv, PinnedInv, [Next]_vars PROVE PinnedInv'
    OBVIOUS
  <1> USE DEF history
  <1>0. /\ \A id \in Ids : Answers(id) = {db[id]}
        /\ "insert" \notin DbFaults
    BY DEF ReliableLookups, Answers
  <1>1. ASSUME NEW id \in Ids, NEW ip \in Ips, RegisterPeer(id, ip) PROVE PinnedInv'
    <2>1. \A q \in Ids : /\ (mem'[q] = NoPeer) = (mem[q] = NoPeer)
                         /\ mem[q] # NoPeer => /\ mem'[q].uuid = mem[q].uuid
                                               /\ mem'[q].guid = mem[q].guid
      <3>1. mem[id] \in Peer /\ Refreshed(mem[id], ip) # NoPeer
        BY <1>1, RefreshedType, MarkersAssumption DEF RegisterPeer, TypeInv, TypeOK
      <3> QED
        BY <1>1, <3>1 DEF RegisterPeer, TypeInv, TypeOK, Refreshed
    <2> QED
      BY <1>1, <2>1, PinnedFrame DEF RegisterPeer
  <1>2. ASSUME NEW id \in Ids, NEW cred \in Creds, NEW ip \in Ips, RegisterPk(id, cred, ip)
        PROVE  PinnedInv'
    <2>1. /\ io.pc = "idle" /\ io'.pc \in {"query", "decide"} /\ io'.id = id
          /\ io'.obj = NoPeer /\ (io'.pc = "decide" => mem[id] # NoPeer)
          /\ mem' = mem /\ db' = db /\ task' = task /\ owners' = owners
      BY <1>2 DEF RegisterPk
    <2>2. Backed(mem[id], id) \/ mem[id] = NoPeer
      BY <2>1 DEF PinnedInv, Pinned, MemBacked, PersistAhead, DecideBacked, IoRowKnown,
          TaskRowsKnown, AnswerBacked
    <2> QED
      BY <2>1, <2>2 DEF PinnedInv, Pinned, MemBacked, PersistAhead, DecideBacked, IoRowKnown,
          TaskRowsKnown, AnswerBacked, OwnersStored, Backed, RowKnown, IoPeer
  <1>3. CASE IoQuery
    <2>1. /\ io.id \in Ids /\ io.obj = NoPeer
          /\ io' = [io EXCEPT !.pc = "install", !.row = db[io.id]]
      BY <1>0, <1>3, IoCases DEF IoQuery, TypeInv, IoHasPeer
    <2>2. /\ io'.pc = "install" /\ io'.id = io.id /\ io'.row = db[io.id] /\ io'.obj = NoPeer
          /\ mem' = mem /\ db' = db /\ task' = task /\ owners' = owners
      BY <1>3, <2>1, IoCases DEF IoQuery, TypeInv, Request
    <2> QED
      BY <1>3, <2>2 DEF IoQuery, PinnedInv, Pinned, MemBacked, PersistAhead, DecideBacked, IoRowKnown,
          TaskRowsKnown, AnswerBacked, OwnersStored, Backed, RowKnown
  <1>4. CASE IoInstall
    <2>1. /\ io \in Request /\ io.id \in Ids /\ io.obj = NoPeer
          /\ io.row \in Row \cup {NoRow}
      BY <1>4, IoCases DEF IoInstall, TypeInv, IoHasPeer, Request
    <2>2. /\ io'.pc = "decide" /\ io'.id = io.id /\ io'.obj = NoPeer
          /\ db' = db /\ task' = task /\ owners' = owners
      BY <1>4, <2>1 DEF IoInstall, Request
    <2>3. Backed(mem'[io.id], io.id)
      <3>1. CASE io.row # NoRow
        BY <1>4, <2>1, <3>1
        DEF IoInstall, TypeInv, TypeOK, PinnedInv, Pinned, MemBacked, PersistAhead, DecideBacked, IoRowKnown,
          TaskRowsKnown, AnswerBacked, RowKnown, Backed, FromRow
      <3>2. CASE io.row = NoRow /\ mem[io.id] = NoPeer
        BY <1>4, <2>1, <3>2
        DEF IoInstall, TypeInv, TypeOK, PinnedInv, Pinned, MemBacked, PersistAhead, DecideBacked, IoRowKnown,
          TaskRowsKnown, AnswerBacked, Backed, DefaultPeer
      <3>3. CASE io.row = NoRow /\ mem[io.id] # NoPeer
        BY <1>4, <2>1, <3>3 DEF IoInstall, TypeInv, TypeOK, PinnedInv, Pinned, MemBacked, PersistAhead, DecideBacked, IoRowKnown,
          TaskRowsKnown, AnswerBacked
      <3> QED
        BY <3>1, <3>2, <3>3
    <2>4. \A q \in Ids : q # io.id => mem'[q] = mem[q]
      BY <1>4 DEF IoInstall, TypeInv, TypeOK
    <2> QED
      BY <1>4, <2>1, <2>2, <2>3, <2>4
      DEF IoInstall, PinnedInv, Pinned, MemBacked, PersistAhead, DecideBacked, IoRowKnown,
          TaskRowsKnown, AnswerBacked, OwnersStored, Backed, RowKnown, IoPeer
  <1>5. CASE IoRefuse
    BY <1>5 DEF IoRefuse, IdleIo, PinnedInv, Pinned, MemBacked, PersistAhead, DecideBacked, IoRowKnown,
          TaskRowsKnown, AnswerBacked, OwnersStored, Backed, RowKnown
  <1>6. CASE IoConfirm
    <2>1. /\ io.id \in Ids /\ io.uuid \in Uuids /\ IoPeer \in Peer /\ Backed(IoPeer, io.id)
          /\ mem[io.id] # NoPeer /\ mem[io.id] \in Peer
      BY <1>6, IoCases, IoPeerType
      DEF IoConfirm, PinnedInv, Pinned, MemBacked, PersistAhead, DecideBacked, IoRowKnown,
          TaskRowsKnown, AnswerBacked, TypeInv, TypeOK, IoHasPeer
    <2>2. IoPeer.uuid = io.uuid
      BY <1>6, <2>1 DEF IoConfirm, Mismatch, Changed
    <2>3. db[io.id] # NoRow /\ db[io.id].uuid = io.uuid
      BY <2>1, <2>2, ConstantsAssumption DEF Backed
    <2>4. /\ io'.pc = "answer" /\ io'.id = io.id /\ io'.uuid = io.uuid
          /\ db' = db /\ task' = task /\ owners' = owners
      BY <1>6, IoCases, AnswerCases DEF IoConfirm, TypeInv
    <2>5. OwnersStored'
      BY <2>4 DEF PinnedInv, OwnersStored
    <2>6. \A q \in Ids : /\ mem[q] = NoPeer => mem'[q] = NoPeer
                         /\ mem[q] # NoPeer => /\ mem'[q].uuid = mem[q].uuid
                                               /\ mem'[q].guid = mem[q].guid
      BY <1>6, <2>1 DEF IoConfirm, Counted, TypeInv, TypeOK
    <2>7. \A q \in Ids : mem[q] # NoPeer => Backed(mem[q], q)
      BY <1>6 DEF IoConfirm, PinnedInv, Pinned, MemBacked, PersistAhead, DecideBacked, IoRowKnown,
          TaskRowsKnown
    <2> QED
      BY <2>3, <2>4, <2>5, <2>6, <2>7 DEF PinnedInv, Pinned, MemBacked, PersistAhead, DecideBacked, IoRowKnown,
          TaskRowsKnown, AnswerBacked, Backed, RowKnown
  <1>7. CASE IoWrite
    <2>1. /\ io \in Request /\ io.id \in Ids /\ io.uuid \in Uuids
          /\ IoPeer \in Peer /\ Backed(IoPeer, io.id)
          /\ mem[io.id] # NoPeer /\ mem[io.id] \in Peer /\ Backed(mem[io.id], io.id)
          /\ io.obj # NoPeer => db[io.id] # NoRow
      BY <1>7, IoCases, IoPeerType
      DEF IoWrite, PinnedInv, Pinned, MemBacked, PersistAhead, DecideBacked, IoRowKnown,
          TaskRowsKnown, AnswerBacked, TypeInv, TypeOK, IoHasPeer
    <2>2. db[io.id] # NoRow => db[io.id] \in Row /\ db[io.id].uuid = io.uuid
      BY <1>7, <2>1, ConstantsAssumption
      DEF IoWrite, Mismatch, Backed, TypeInv, TypeOK, Row
    <2>3. /\ io'.pc = "persist" /\ io'.id = io.id /\ io'.uuid = io.uuid
          /\ io'.obj = (IF io.obj = NoPeer THEN NoPeer ELSE Written(io.obj))
          /\ db' = db /\ task' = task /\ owners' = owners
      BY <1>7, <2>1 DEF IoWrite, Request
    <2>4. /\ \A p : Written(p).uuid = io.uuid /\ Written(p).guid = p.guid
          /\ Written(IoPeer) # NoPeer
      <3>1. Written(IoPeer) \in Peer
        BY <1>7, <2>1, WrittenType DEF IoWrite
      <3> QED
        BY <3>1, MarkersAssumption DEF Written
    <2>5. /\ io.obj = NoPeer => IoPeer' = Written(IoPeer) /\ mem'[io.id] = Written(mem[io.id])
          /\ io.obj # NoPeer => IoPeer' = Written(IoPeer) /\ mem'[io.id] = mem[io.id]
      BY <1>7, <2>1, <2>3, <2>4 DEF IoWrite, IoPeer, TypeInv, TypeOK
    <2>7. \A q \in Ids : q # io.id => mem'[q] = mem[q]
      BY <1>7 DEF IoWrite, TypeInv, TypeOK
    <2>8. PersistAhead'
      BY <2>1, <2>2, <2>3, <2>4, <2>5 DEF PersistAhead, Backed
    <2>9. MemBacked'
      BY <1>7, <2>3, <2>7 DEF IoWrite, PinnedInv, Pinned, MemBacked, Backed
    <2>10. TaskRowsKnown' /\ OwnersStored'
      BY <2>3 DEF PinnedInv, Pinned, TaskRowsKnown, RowKnown, OwnersStored
    <2> QED
      BY <2>3, <2>8, <2>9, <2>10 DEF PinnedInv, Pinned, DecideBacked, IoRowKnown, AnswerBacked
  <1>8. ASSUME io.pc = "persist", io.id \in Ids, io.uuid \in Uuids, io' = ToAnswer, task' = task,
               owners' = owners,
               \A q \in Ids : q # io.id => db'[q] = db[q] /\ mem'[q] = mem[q],
               db'[io.id] # NoRow, db'[io.id].uuid = io.uuid,
               db[io.id] # NoRow => db'[io.id].uuid = db[io.id].uuid,
               mem'[io.id].guid = TRUE, mem'[io.id].uuid = io.uuid
        PROVE  PinnedInv'
    <2>0. io'.pc = "answer" /\ io'.id = io.id /\ io'.uuid = io.uuid
      BY <1>8, IoCases, AnswerCases DEF TypeInv
    <2>1. OwnersStored'
      BY <1>8 DEF PinnedInv, OwnersStored
    <2>2. MemBacked'
      <3> SUFFICES ASSUME NEW q \in Ids, mem'[q] # NoPeer PROVE Backed(mem[q], q)'
        BY DEF MemBacked
      <3>1. CASE q = io.id
        BY <1>8, <3>1 DEF Backed
      <3>2. CASE q # io.id
        BY <1>8, <3>2 DEF PinnedInv, Pinned, MemBacked, Backed
      <3> QED
        BY <3>1, <3>2
    <2>3. TaskRowsKnown'
      BY <1>8, TaskCases DEF PinnedInv, Pinned, TaskRowsKnown, RowKnown, TypeInv
    <2> QED
      BY <1>8, <2>0, <2>1, <2>2, <2>3
      DEF PinnedInv, Pinned, PersistAhead, DecideBacked, IoRowKnown, AnswerBacked
  <1>9. CASE IoInsert
    <2>1. /\ io.pc = "persist" /\ io.id \in Ids /\ io.uuid \in Uuids /\ io.obj = NoPeer
          /\ db[io.id] = NoRow /\ mem[io.id] \in Peer /\ mem[io.id].uuid = io.uuid
      BY <1>9, IoCases
      DEF IoInsert, PinnedInv, Pinned, MemBacked, PersistAhead, DecideBacked, IoRowKnown,
          TaskRowsKnown, AnswerBacked, IoPeer, TypeInv, TypeOK, IoHasPeer
    <2>2. db'[io.id] = [uuid |-> io.uuid, pk |-> io.pk, ip |-> io.ip]
      BY <1>9, <2>1 DEF IoInsert, TypeInv, TypeOK
    <2>3. db'[io.id] # NoRow
      BY <1>9, <2>1, <2>2, IoCases, MarkersAssumption DEF TypeInv, Row, IoInsert
    <2>4. mem'[io.id] = WithGuid(mem[io.id])
      BY <1>9, <2>1 DEF IoInsert, TypeInv, TypeOK
    <2>5. mem'[io.id].guid = TRUE /\ mem'[io.id].uuid = io.uuid
      BY <2>1, <2>4 DEF WithGuid
    <2> QED
      BY <1>8, <1>9, <2>1, <2>2, <2>3, <2>5 DEF IoInsert, TypeInv, TypeOK
  <1>10. CASE IoUpdate
    <2>1. /\ io.pc = "persist" /\ io.id \in Ids /\ io.uuid \in Uuids
          /\ db[io.id] # NoRow /\ db[io.id].uuid = io.uuid
          /\ mem[io.id].guid = TRUE /\ mem[io.id].uuid = io.uuid
      BY <1>10, IoCases DEF IoUpdate, PinnedInv, Pinned, MemBacked, PersistAhead, DecideBacked, IoRowKnown,
          TaskRowsKnown, AnswerBacked, TypeInv
    <2>2. db'[io.id] = [uuid |-> io.uuid, pk |-> io.pk, ip |-> io.ip]
      BY <1>10, <2>1 DEF IoUpdate, TypeInv, TypeOK
    <2>3. db'[io.id] # NoRow
      BY <1>10, <2>1, <2>2, IoCases, MarkersAssumption DEF TypeInv, Row, IoUpdate
    <2> QED
      BY <1>8, <1>10, <2>1, <2>2, <2>3 DEF IoUpdate, TypeInv, TypeOK
  <1>11. CASE IoPersistError
    <2>1. /\ io.pc = "persist" /\ io.id \in Ids /\ io.uuid \in Uuids
          /\ db[io.id] # NoRow /\ db[io.id].uuid = io.uuid
          /\ mem[io.id].guid = TRUE /\ mem[io.id].uuid = io.uuid
      BY <1>0, <1>11, IoCases
      DEF IoPersistError, PersistFails, PinnedInv, Pinned, MemBacked, PersistAhead, DecideBacked, IoRowKnown,
          TaskRowsKnown, AnswerBacked, TypeInv
    <2> QED
      BY <1>8, <1>11, <2>1 DEF IoPersistError
  <1>12. ASSUME NEW t \in Tasks, NEW id \in Ids, TaskGet(t, id) PROVE PinnedInv'
    <2>1. \A u \in Tasks : task'[u].pc = "install" => task'[u] = task[u]
      BY <1>12 DEF TaskGet, TypeInv, TypeOK
    <2> QED
      BY <1>12, <2>1
      DEF TaskGet, PinnedInv, Pinned, MemBacked, PersistAhead, DecideBacked, IoRowKnown,
          TaskRowsKnown, AnswerBacked, OwnersStored, Backed, RowKnown, IoPeer
  <1>13. ASSUME NEW t \in Tasks, TaskQuery(t) PROVE PinnedInv'
    <2>1. task[t].id \in Ids
      BY <1>13, TaskCases DEF TaskQuery, TypeInv
    <2>2. task' = [task EXCEPT ![t] = IF db[task[t].id] = NoRow THEN IdleTask
                       ELSE [pc |-> "install", id |-> task[t].id, row |-> db[task[t].id]]]
      BY <1>0, <1>13, <2>1 DEF TaskQuery
    <2>3. \A u \in Tasks : task'[u].pc = "install" => RowKnown(task'[u].row, task'[u].id)
      BY <2>2 DEF PinnedInv, Pinned, MemBacked, PersistAhead, DecideBacked, IoRowKnown,
          TaskRowsKnown, AnswerBacked, RowKnown, TypeInv, TypeOK, IdleTask
    <2> QED
      BY <1>13, <2>3
      DEF TaskQuery, PinnedInv, Pinned, MemBacked, PersistAhead, DecideBacked, IoRowKnown,
          TaskRowsKnown, AnswerBacked, OwnersStored, Backed, RowKnown, IoPeer
  <1>14. ASSUME NEW t \in Tasks, TaskInstall(t) PROVE PinnedInv'
    <2> DEFINE id == task[t].id
               p == FromRow(task[t].row)
    <2>1. /\ id \in Ids /\ db[id] # NoRow /\ p.guid = TRUE /\ p.uuid = db[id].uuid
      BY <1>14, TaskCases
      DEF TaskInstall, TypeInv, IoHasPeer, PinnedInv, Pinned, TaskRowsKnown, RowKnown, FromRow
    <2>2. /\ mem'[id] = p /\ \A q \in Ids : q # id => mem'[q] = mem[q]
          /\ db' = db /\ owners' = owners
          /\ \A u \in Tasks : task'[u].pc = "install" => task'[u] = task[u]
      BY <1>14, <2>1 DEF TaskInstall, TypeInv, TypeOK, IdleTask
    <2>3. /\ io'.pc = io.pc /\ io'.id = io.id /\ io'.uuid = io.uuid /\ io'.row = io.row
          /\ io'.obj = IF IoHolds(id) THEN mem[id] ELSE io.obj
      <3>1. CASE IoHolds(id)
        BY <1>14, <3>1, IoCases DEF TaskInstall, IoHolds, TypeInv, Request
      <3>2. CASE ~ IoHolds(id)
        BY <1>14, <3>2 DEF TaskInstall
      <3> QED
        BY <3>1, <3>2
    <2> HIDE DEF p, id
    <2>4. io.pc \in {"decide", "persist"} => IoPeer' = IoPeer
      <3> SUFFICES ASSUME io.pc \in {"decide", "persist"} PROVE IoPeer' = IoPeer
        OBVIOUS
      <3>1. mem[io.id] # NoPeer /\ io.id \in Ids
        BY IoCases DEF TypeInv, IoHasPeer
      <3> QED
        BY <2>2, <2>3, <3>1 DEF IoPeer, IoHolds
    <2>5. MemBacked'
      <3> SUFFICES ASSUME NEW q \in Ids, mem'[q] # NoPeer,
                          ~ (io'.pc = "persist" /\ io'.id = q)
                   PROVE  Backed(mem[q], q)'
        BY DEF MemBacked
      <3>1. CASE q = id
        BY <2>1, <2>2, <3>1 DEF Backed
      <3>2. CASE q # id
        BY <2>2, <2>3, <3>2 DEF PinnedInv, Pinned, MemBacked, Backed
      <3> QED
        BY <3>1, <3>2
    <2>6. PersistAhead'
      <3> SUFFICES ASSUME io.pc = "persist" PROVE PersistAhead'
        BY <2>3 DEF PersistAhead
      <3>1. io.id \in Ids
        BY IoCases DEF TypeInv
      <3>2. CASE io.id = id
        BY <2>1, <2>2, <2>3, <2>4, <3>2 DEF PinnedInv, Pinned, PersistAhead
      <3>3. CASE io.id # id
        BY <2>2, <2>3, <2>4, <3>1, <3>3 DEF PinnedInv, Pinned, PersistAhead, IoHolds
      <3> QED
        BY <3>2, <3>3
    <2>7. DecideBacked'
      BY <2>1, <2>2, <2>3, <2>4 DEF PinnedInv, Pinned, DecideBacked, Backed, IoHolds
    <2>8. IoRowKnown' /\ TaskRowsKnown' /\ OwnersStored' /\ AnswerBacked'
      BY <2>2, <2>3
      DEF PinnedInv, Pinned, IoRowKnown, TaskRowsKnown, RowKnown, OwnersStored, AnswerBacked
    <2> QED
      BY <2>5, <2>6, <2>7, <2>8 DEF PinnedInv, Pinned
  <1>15. CASE ListIpChanges \/ \E id \in Ids : RemoveIpChanges(id)
    BY <1>15, PinnedFrame DEF ListIpChanges, RemoveIpChanges
  <1>16. CASE Restart
    BY <1>16 DEF Restart, IdleIo, IdleTask, PinnedInv, Pinned, MemBacked, PersistAhead,
                 DecideBacked, IoRowKnown, TaskRowsKnown, AnswerBacked, OwnersStored
  <1>17. CASE Tick
    <2>1. \A id \in Ids : /\ (mem'[id] = NoPeer) <=> (mem[id] = NoPeer)
                          /\ mem[id] # NoPeer => /\ mem'[id].uuid = mem[id].uuid
                                                 /\ mem'[id].guid = mem[id].guid
      <3>1. \A id \in Ids : mem[id] # NoPeer => Aged(mem[id]) # NoPeer
        BY AgedType, MarkersAssumption DEF TypeInv, TypeOK
      <3> QED
        BY <1>17, <3>1 DEF Tick, Aged
    <2>2. CASE io.obj = NoPeer
      BY <1>17, <2>1, <2>2, PinnedFrame DEF Tick
    <2>3. CASE io.obj # NoPeer
      <3>1. io \in Request /\ io.obj \in Peer /\ Aged(io.obj) \in Peer
        BY <2>3, IoCases, AgedType DEF TypeInv, IdleIo
      <3>2. /\ io'.pc = io.pc /\ io'.id = io.id /\ io'.uuid = io.uuid /\ io'.row = io.row
            /\ io'.obj = Aged(io.obj) /\ io'.obj # NoPeer
        BY <1>17, <2>3, <3>1, MarkersAssumption DEF Tick, Request
      <3>3. io'.obj.uuid = io.obj.uuid /\ io'.obj.guid = io.obj.guid
        BY <3>2 DEF Aged
      <3> QED
        BY <1>17, <2>1, <2>3, <3>2, <3>3, PinnedFrame DEF Tick
    <2> QED
      BY <2>2, <2>3
  <1>18. CASE UNCHANGED vars
    BY <1>18, PinnedFrame DEF vars
  <1>19. CASE IoAnswer
    <2>1. /\ io.id \in Ids /\ db[io.id] # NoRow /\ db[io.id].uuid = io.uuid
          /\ io'.pc = "idle" /\ db' = db /\ task' = task /\ mem' = mem
          /\ owners' = [owners EXCEPT ![io.id] = @ \cup {io.uuid}]
      BY <1>19, IoCases DEF IoAnswer, IdleIo, TypeInv, PinnedInv, Pinned, AnswerBacked
    <2>2. OwnersStored'
      BY <2>1 DEF PinnedInv, OwnersStored, TypeInv, TypeOK
    <2> QED
      BY <1>19, <2>1, <2>2
      DEF IoAnswer, PinnedInv, Pinned, MemBacked, PersistAhead, DecideBacked, IoRowKnown,
          TaskRowsKnown, AnswerBacked, Backed, RowKnown
  <1>20. CASE IoAnswerLost
    BY <1>20 DEF IoAnswerLost, IdleIo, PinnedInv, Pinned, MemBacked, PersistAhead, DecideBacked,
          IoRowKnown, TaskRowsKnown, AnswerBacked, OwnersStored, Backed, RowKnown
  <1> QED
    BY <1>1, <1>2, <1>3, <1>4, <1>5, <1>6, <1>7, <1>9, <1>10, <1>11, <1>12, <1>13, <1>14,
       <1>15, <1>16, <1>17, <1>18, <1>19, <1>20 DEF Next, Work

(***************************************************************************)
(* As long as lookups and inserts do not fail, an id that was confirmed    *)
(* for a machine stays that machine's, for any number of racing tasks,     *)
(* restarts and failed updates.                                            *)
(***************************************************************************)
THEOREM IdentityIsPinned == Spec => []IdentityPinned
  <1> DEFINE Inv == ReliableLookups => PinnedInv
  <1>1. Init => Inv
    BY DEF Init, IdleIo, IdleTask, PinnedInv, Pinned, MemBacked, PersistAhead,
           DecideBacked, IoRowKnown, TaskRowsKnown, AnswerBacked, OwnersStored
  <1>2. TypeInv /\ Inv /\ [Next]_vars => Inv'
    <2>1. [Next]_vars => DbFaults' = DbFaults
      BY DEF Next, vars
    <2> QED
      BY <2>1, PinnedStep DEF ReliableLookups
  <1>3. Inv => IdentityPinned
    BY DEF PinnedInv, IdentityPinned
  <1> QED
    BY <1>1, <1>2, <1>3, RegistryTypes, PTL DEF Spec

-----------------------------------------------------------------------------
(* KeysVouched, whatever fails *)

\* A machine's key came from the machine, and a peer with a guid has a row of
\* its machine.
PeerVouched(p, id) ==
    /\ p.uuid # Null => [uuid |-> p.uuid, pk |-> p.pk] \in Creds
    /\ p.guid => db[id] # NoRow /\ db[id].uuid = p.uuid

RowVouched(row, id) ==
    row # NoRow => /\ [uuid |-> row.uuid, pk |-> row.pk] \in Creds
                   /\ db[id] # NoRow /\ db[id].uuid = row.uuid

StoresVouched ==
    \A id \in Ids : /\ mem[id] # NoPeer => PeerVouched(mem[id], id)
                    /\ RowVouched(db[id], id)

IoVouched ==
    /\ io.obj # NoPeer => PeerVouched(io.obj, io.id)
    /\ io.pc # "idle" => /\ [uuid |-> io.uuid, pk |-> io.pk] \in Creds
                         /\ RowVouched(io.row, io.id)
    /\ io.pc = "persist" => IoPeer.uuid = io.uuid

TasksVouched == \A t \in Tasks : task[t].pc # "idle" => RowVouched(task[t].row, task[t].id)

VouchedInv == StoresVouched /\ IoVouched /\ TasksVouched

(***************************************************************************)
(* An io_loop that is idle, or has only its answer to send, is vouched for.*)
(***************************************************************************)
LEMMA VouchedFree ==
    ASSUME VouchedInv, io' = IdleIo \/ (io \in Request /\ io' = ToAnswer)
    PROVE  IoVouched'
  <1>1. CASE io' = IdleIo
    BY <1>1 DEF IoVouched, IdleIo
  <1>2. CASE io \in Request /\ io' = ToAnswer
    <2>1. [uuid |-> io.uuid, pk |-> io.pk] \in Creds
      BY <1>2 DEF VouchedInv, IoVouched, Request
    <2> QED
      BY <1>2, <2>1, AnswerCases DEF IoVouched, RowVouched
  <1> QED
    BY <1>1, <1>2

(***************************************************************************)
(* While no row is written, what was vouched for stays vouched for.        *)
(***************************************************************************)
LEMMA VouchedFrame ==
    ASSUME VouchedInv, db' = db
    PROVE  /\ \A id \in Ids : RowVouched(db[id], id)'
           /\ \A id \in Ids : mem'[id] = mem[id] => (mem[id] # NoPeer => PeerVouched(mem[id], id))'
           /\ task' = task => TasksVouched'
           /\ io' = io /\ (io.pc = "persist" /\ io.obj = NoPeer => mem'[io.id].uuid = mem[io.id].uuid)
                => IoVouched'
           /\ io' = IdleIo \/ (io \in Request /\ io' = ToAnswer) => IoVouched'
           /\ (\A id \in Ids : mem'[id] # NoPeer => PeerVouched(mem'[id], id)) => StoresVouched'
  <1>1. \A id \in Ids : RowVouched(db[id], id)'
    BY DEF VouchedInv, StoresVouched, RowVouched
  <1>2. \A id \in Ids : mem'[id] = mem[id] => (mem[id] # NoPeer => PeerVouched(mem[id], id))'
    BY DEF VouchedInv, StoresVouched, PeerVouched
  <1>3. task' = task => TasksVouched'
    BY DEF VouchedInv, TasksVouched, RowVouched
  <1>4. ASSUME io' = io, io.pc = "persist" /\ io.obj = NoPeer => mem'[io.id].uuid = mem[io.id].uuid
        PROVE  IoVouched'
    <2>1. (io.obj # NoPeer => PeerVouched(io.obj, io.id))'
      BY <1>4 DEF VouchedInv, IoVouched, PeerVouched
    <2>2. (io.pc # "idle" => /\ [uuid |-> io.uuid, pk |-> io.pk] \in Creds
                             /\ RowVouched(io.row, io.id))'
      BY <1>4 DEF VouchedInv, IoVouched, RowVouched
    <2>3. (io.pc = "persist" => IoPeer.uuid = io.uuid)'
      BY <1>4 DEF VouchedInv, IoVouched, IoPeer
    <2> QED
      BY <2>1, <2>2, <2>3 DEF IoVouched
  <1>5. ASSUME io' = IdleIo \/ (io \in Request /\ io' = ToAnswer) PROVE IoVouched'
    BY <1>5, AnswerCases, VouchedFree
  <1>6. (\A id \in Ids : mem'[id] # NoPeer => PeerVouched(mem'[id], id)) => StoresVouched'
    BY <1>1 DEF StoresVouched, PeerVouched
  <1> QED
    BY <1>1, <1>2, <1>3, <1>4, <1>5, <1>6

(***************************************************************************)
(* Every step keeps keys and machines together, also one whose query       *)
(* fails.                                                                  *)
(***************************************************************************)
LEMMA VouchedStep == TypeInv /\ VouchedInv /\ [Next]_vars => VouchedInv'
  <1> SUFFICES ASSUME TypeInv, VouchedInv, [Next]_vars PROVE VouchedInv'
    OBVIOUS
  <1> USE DEF history
  <1>1. ASSUME NEW id \in Ids, NEW ip \in Ips, RegisterPeer(id, ip) PROVE VouchedInv'
    <2>1. /\ db' = db /\ task' = task /\ io' = io /\ io.pc = "idle"
          /\ mem' = [mem EXCEPT ![id] = Refreshed(mem[id], ip)] /\ mem[id] # NoPeer
      BY <1>1 DEF RegisterPeer
    <2>2. PeerVouched(mem[id], id)
      BY <2>1 DEF VouchedInv, StoresVouched
    <2>3. (PeerVouched(mem[id], id))'
      BY <2>1, <2>2 DEF PeerVouched, Refreshed, TypeInv, TypeOK
    <2> QED
      BY <2>1, <2>3, VouchedFrame DEF VouchedInv, StoresVouched, TypeInv, TypeOK
  <1>2. ASSUME NEW id \in Ids, NEW cred \in Creds, NEW ip \in Ips, RegisterPk(id, cred, ip)
        PROVE  VouchedInv'
    <2>1. /\ mem' = mem /\ db' = db /\ task' = task
          /\ io'.pc \in {"query", "decide"} /\ io'.obj = NoPeer /\ io'.row = NoRow
          /\ io'.uuid = cred.uuid /\ io'.pk = cred.pk
      BY <1>2 DEF RegisterPk
    <2>2. [uuid |-> cred.uuid, pk |-> cred.pk] = cred
      BY ConstantsAssumption
    <2> QED
      BY <2>1, <2>2, VouchedFrame DEF VouchedInv, StoresVouched, IoVouched, RowVouched
  <1>3. CASE IoQuery
    <2>1. PICK row \in Answers(io.id) : io' = [io EXCEPT !.pc = "install", !.row = row]
      BY <1>3 DEF IoQuery
    <2>2. /\ mem' = mem /\ db' = db /\ task' = task /\ io.id \in Ids /\ io \in Request
          /\ io.obj = NoPeer
      BY <1>3, IoCases DEF IoQuery, TypeInv, IoHasPeer
    <2>3. /\ io'.pc = "install" /\ io'.obj = NoPeer /\ io'.row = row /\ io'.id = io.id
          /\ io'.uuid = io.uuid /\ io'.pk = io.pk
      BY <2>1, <2>2 DEF Request
    <2>4. row = db[io.id] \/ row = NoRow
      BY DEF Answers
    <2>5. RowVouched(row, io.id)
      BY <2>2, <2>4 DEF VouchedInv, StoresVouched, RowVouched
    <2> QED
      BY <1>3, <2>2, <2>3, <2>5, VouchedFrame
      DEF IoQuery, VouchedInv, StoresVouched, IoVouched, RowVouched
  <1>4. CASE IoInstall
    <2>1. io \in Request /\ io.id \in Ids /\ io.obj = NoPeer
      BY <1>4, IoCases DEF IoInstall, TypeInv, IoHasPeer
    <2>2. /\ io'.pc = "decide" /\ io'.id = io.id /\ io'.obj = NoPeer /\ io'.row = NoRow
          /\ io'.uuid = io.uuid /\ io'.pk = io.pk
          /\ db' = db /\ task' = task
          /\ \A q \in Ids : q # io.id => mem'[q] = mem[q]
      BY <1>4, <2>1 DEF IoInstall, Request, TypeInv, TypeOK
    <2>3. mem'[io.id] = IF io.row # NoRow THEN FromRow(io.row)
                        ELSE IF mem[io.id] = NoPeer THEN DefaultPeer ELSE mem[io.id]
      BY <1>4, <2>1 DEF IoInstall, TypeInv, TypeOK
    <2>4. PeerVouched(mem'[io.id], io.id)
      <3>1. CASE io.row # NoRow
        <4>1. RowVouched(io.row, io.id)
          BY <1>4 DEF IoInstall, VouchedInv, IoVouched
        <4> QED
          BY <2>3, <3>1, <4>1 DEF RowVouched, PeerVouched, FromRow
      <3>2. CASE io.row = NoRow /\ mem[io.id] = NoPeer
        BY <2>3, <3>2 DEF PeerVouched, DefaultPeer
      <3>3. CASE io.row = NoRow /\ mem[io.id] # NoPeer
        BY <2>1, <2>3, <3>3 DEF VouchedInv, StoresVouched
      <3> QED
        BY <3>1, <3>2, <3>3
    <2> QED
      BY <1>4, <2>1, <2>2, <2>4, VouchedFrame
      DEF IoInstall, VouchedInv, StoresVouched, IoVouched, PeerVouched, RowVouched
  <1>5. CASE IoRefuse
    BY <1>5, VouchedFrame DEF IoRefuse, VouchedInv, StoresVouched
  <1>6. CASE IoConfirm
    <2>1. /\ io.id \in Ids /\ mem[io.id] # NoPeer
          /\ db' = db /\ task' = task /\ io \in Request /\ io' = ToAnswer
          /\ \A q \in Ids : q # io.id => mem'[q] = mem[q]
          /\ mem'[io.id] = mem[io.id] \/ mem'[io.id] = Counted(mem[io.id])
      BY <1>6, IoCases DEF IoConfirm, TypeInv, TypeOK, IoHasPeer
    <2>2. PeerVouched(mem'[io.id], io.id)
      BY <2>1 DEF VouchedInv, StoresVouched, PeerVouched, Counted
    <2> QED
      BY <2>1, <2>2, VouchedFrame DEF VouchedInv, StoresVouched, PeerVouched
  <1>7. CASE IoWrite
    <2>1. /\ io \in Request /\ io.id \in Ids /\ io.uuid \in Uuids /\ mem[io.id] # NoPeer
          /\ IoPeer \in Peer /\ PeerVouched(IoPeer, io.id)
      BY <1>7, IoCases, IoPeerType
      DEF IoWrite, TypeInv, IoHasPeer, VouchedInv, StoresVouched, IoVouched, IoPeer
    <2>2. /\ db' = db /\ task' = task
          /\ io'.pc = "persist" /\ io'.id = io.id /\ io'.row = io.row
          /\ io'.uuid = io.uuid /\ io'.pk = io.pk
          /\ io'.obj = IF io.obj = NoPeer THEN NoPeer ELSE Written(io.obj)
          /\ \A q \in Ids : q # io.id => mem'[q] = mem[q]
          /\ mem'[io.id] = IF io.obj = NoPeer THEN Written(mem[io.id]) ELSE mem[io.id]
      BY <1>7, <2>1 DEF IoWrite, Request, TypeInv, TypeOK
    <2>3. IoPeer.guid => db[io.id] # NoRow /\ db[io.id].uuid = io.uuid
      <3>1. IoPeer.guid => IoPeer.uuid \in Uuids
        BY <2>1 DEF PeerVouched, TypeInv, TypeOK, Row
      <3> QED
        BY <1>7, <2>1, <3>1, ConstantsAssumption DEF IoWrite, Mismatch, PeerVouched
    <2>4. /\ Written(IoPeer).uuid = io.uuid /\ Written(IoPeer).pk = io.pk
          /\ Written(IoPeer).guid = IoPeer.guid /\ Written(IoPeer) # NoPeer
      BY <1>7, <2>1, WrittenType, MarkersAssumption DEF IoWrite, Written
    <2>5. PeerVouched(Written(IoPeer), io.id)
      BY <1>7, <2>3, <2>4 DEF IoWrite, PeerVouched, VouchedInv, IoVouched
    <2>6. StoresVouched'
      <3>1. \A q \in Ids : mem'[q] # NoPeer => PeerVouched(mem'[q], q)
        BY <2>1, <2>2, <2>5 DEF VouchedInv, StoresVouched, IoPeer
      <3> QED
        BY <2>2, <3>1, VouchedFrame
    <2>7. IoVouched'
      BY <1>7, <2>1, <2>2, <2>4, <2>5
      DEF IoWrite, VouchedInv, IoVouched, PeerVouched, RowVouched, IoPeer
    <2> QED
      BY <2>2, <2>6, <2>7, VouchedFrame DEF VouchedInv
  <1>8. CASE IoInsert
    <2>1. /\ io.id \in Ids /\ io.uuid \in Uuids /\ io.pk \in Pks /\ io.ip \in Ips
          /\ mem[io.id] # NoPeer /\ db[io.id] = NoRow /\ IoPeer.uuid = io.uuid
          /\ [uuid |-> io.uuid, pk |-> io.pk] \in Creds
      BY <1>8, IoCases DEF IoInsert, TypeInv, IoHasPeer, VouchedInv, IoVouched
    <2>2. /\ task' = task /\ io \in Request /\ io' = ToAnswer
          /\ db'[io.id] = [uuid |-> io.uuid, pk |-> io.pk, ip |-> io.ip]
          /\ \A q \in Ids : q # io.id => mem'[q] = mem[q] /\ db'[q] = db[q]
          /\ mem'[io.id] = IF io.obj = NoPeer THEN WithGuid(mem[io.id]) ELSE mem[io.id]
      BY <1>8, <2>1, IoCases DEF IoInsert, TypeInv, TypeOK
    <2>3. db'[io.id] # NoRow
      BY <2>1, <2>2, MarkersAssumption DEF Row
    <2>4. /\ mem'[io.id].uuid # Null => [uuid |-> mem'[io.id].uuid, pk |-> mem'[io.id].pk] \in Creds
          /\ mem'[io.id].guid => mem'[io.id].uuid = io.uuid
      BY <2>1, <2>2 DEF VouchedInv, StoresVouched, PeerVouched, WithGuid, IoPeer
    <2>5. StoresVouched'
      BY <2>1, <2>2, <2>3, <2>4 DEF VouchedInv, StoresVouched, PeerVouched, RowVouched
    <2>6. TasksVouched'
      <3>1. \A t \in Tasks : task[t].pc # "idle" => task[t].id \in Ids
        BY TaskCases DEF TypeInv
      <3> QED
        BY <2>1, <2>2, <2>3, <3>1 DEF VouchedInv, TasksVouched, RowVouched
    <2>7. IoVouched'
      BY <2>2, VouchedFree
    <2> QED
      BY <2>5, <2>6, <2>7 DEF VouchedInv
  <1>9. CASE IoUpdate
    <2>1. /\ io.id \in Ids /\ io.pk \in Pks /\ io.ip \in Ips
          /\ mem[io.id] # NoPeer /\ db[io.id] # NoRow /\ db[io.id] \in Row
          /\ [uuid |-> io.uuid, pk |-> io.pk] \in Creds
          /\ db[io.id].uuid = io.uuid
      BY <1>9, IoCases, IoPeerType
      DEF IoUpdate, TypeInv, TypeOK, IoHasPeer, VouchedInv, StoresVouched, IoVouched,
          PeerVouched, IoPeer
    <2>2. /\ task' = task /\ io \in Request /\ io' = ToAnswer /\ mem' = mem
          /\ db'[io.id] = [uuid |-> db[io.id].uuid, pk |-> io.pk, ip |-> io.ip]
          /\ \A q \in Ids : q # io.id => db'[q] = db[q]
      BY <1>9, <2>1, IoCases DEF IoUpdate, TypeInv, TypeOK
    <2>3. db'[io.id] # NoRow
      BY <2>1, <2>2, MarkersAssumption DEF Row
    <2>4. StoresVouched'
      <3>1. \A q \in Ids : (mem[q] # NoPeer => PeerVouched(mem[q], q))'
        <4> SUFFICES ASSUME NEW q \in Ids, mem[q] # NoPeer PROVE PeerVouched(mem[q], q)'
          BY <2>2
        <4>1. PeerVouched(mem[q], q)
          BY DEF VouchedInv, StoresVouched
        <4>2. db[q] # NoRow => db'[q] # NoRow /\ db'[q].uuid = db[q].uuid
          BY <2>2, <2>3
        <4> QED
          BY <2>2, <4>1, <4>2 DEF PeerVouched
      <3>2. \A q \in Ids : RowVouched(db[q], q)'
        BY <2>1, <2>2 DEF VouchedInv, StoresVouched, RowVouched
      <3> QED
        BY <3>1, <3>2 DEF StoresVouched
    <2>5. TasksVouched'
      <3>1. \A t \in Tasks : task[t].pc # "idle" => task[t].id \in Ids
        BY TaskCases DEF TypeInv
      <3> QED
        BY <2>1, <2>2, <2>3, <3>1 DEF VouchedInv, TasksVouched, RowVouched
    <2>6. IoVouched'
      BY <2>2, VouchedFree
    <2> QED
      BY <2>4, <2>5, <2>6 DEF VouchedInv
  <1>10. CASE IoPersistError
    BY <1>10, IoCases, VouchedFrame DEF IoPersistError, TypeInv, VouchedInv, StoresVouched
  <1>11. ASSUME NEW t \in Tasks, NEW id \in Ids, TaskGet(t, id) PROVE VouchedInv'
    <2>1. \A s \in Tasks : task'[s] = task[s] \/ task'[s].row = NoRow
      BY <1>11 DEF TaskGet, TypeInv, TypeOK
    <2> QED
      BY <1>11, <2>1, VouchedFrame
      DEF TaskGet, VouchedInv, StoresVouched, TasksVouched, RowVouched
  <1>12. ASSUME NEW t \in Tasks, TaskQuery(t) PROVE VouchedInv'
    <2>1. task[t].id \in Ids
      BY <1>12, TaskCases DEF TaskQuery, TypeInv
    <2>2. PICK row \in Answers(task[t].id) :
             task' = [task EXCEPT ![t] = IF row = NoRow THEN IdleTask
                        ELSE [pc |-> "install", id |-> task[t].id, row |-> row]]
      BY <1>12 DEF TaskQuery
    <2>3. row = db[task[t].id] \/ row = NoRow
      BY DEF Answers
    <2>4. /\ \A s \in Tasks : s # t => task'[s] = task[s]
          /\ \/ task'[t].pc = "idle"
             \/ task'[t].id = task[t].id /\ task'[t].row = db[task[t].id]
      BY <2>2, <2>3 DEF TypeInv, TypeOK, IdleTask
    <2> QED
      BY <1>12, <2>1, <2>4, VouchedFrame
      DEF TaskQuery, VouchedInv, StoresVouched, TasksVouched, RowVouched
  <1>13. ASSUME NEW t \in Tasks, TaskInstall(t) PROVE VouchedInv'
    <2> DEFINE id == task[t].id
    <2>1. id \in Ids /\ task[t].row \in Row /\ RowVouched(task[t].row, id)
      BY <1>13, TaskCases DEF TaskInstall, TypeInv, IoHasPeer, VouchedInv, TasksVouched
    <2>2. /\ db' = db /\ mem'[id] = FromRow(task[t].row)
          /\ \A q \in Ids : q # id => mem'[q] = mem[q]
          /\ \A s \in Tasks : task'[s] = task[s] \/ task'[s].pc = "idle"
          /\ io' = IF IoHolds(id) THEN [io EXCEPT !.obj = mem[id]] ELSE io
      BY <1>13, <2>1 DEF TaskInstall, TypeInv, TypeOK, IdleTask
    <2>3. PeerVouched(mem'[id], id)
      BY <2>1, <2>2, MarkersAssumption DEF RowVouched, PeerVouched, FromRow
    <2>4. StoresVouched'
      BY <2>1, <2>2, <2>3, VouchedFrame DEF VouchedInv, StoresVouched, PeerVouched
    <2>5. TasksVouched'
      BY <2>2 DEF VouchedInv, TasksVouched, RowVouched
    <2>6. IoVouched'
      <3>1. CASE IoHolds(id)
        <4>1. io \in Request /\ io.id = id /\ mem[id] # NoPeer /\ io.obj = NoPeer
          BY <3>1, IoCases DEF IoHolds, TypeInv, IoHasPeer
        <4>2. /\ io'.obj = mem[id] /\ io'.pc = io.pc /\ io'.id = id /\ io'.row = io.row
              /\ io'.uuid = io.uuid /\ io'.pk = io.pk
          BY <2>2, <3>1, <4>1 DEF Request
        <4> QED
          <5>1. PeerVouched(mem[id], id)
            BY <2>1, <4>1 DEF VouchedInv, StoresVouched
          <5>2. (io.obj # NoPeer => PeerVouched(io.obj, io.id))'
            BY <2>2, <4>2, <5>1 DEF PeerVouched
          <5>3. (io.pc # "idle" => /\ [uuid |-> io.uuid, pk |-> io.pk] \in Creds
                                   /\ RowVouched(io.row, io.id))'
            BY <2>2, <4>1, <4>2 DEF VouchedInv, IoVouched, RowVouched
          <5>4. (io.pc = "persist" => IoPeer.uuid = io.uuid)'
            BY <4>1, <4>2 DEF VouchedInv, IoVouched, IoPeer
          <5> QED
            BY <5>2, <5>3, <5>4 DEF IoVouched
      <3>2. CASE ~ IoHolds(id)
        <4>1. io' = io
          BY <2>2, <3>2
        <4>2. io.pc = "persist" /\ io.obj = NoPeer => io.id \in Ids /\ io.id # id
          BY <3>2, IoCases DEF IoHolds, TypeInv
        <4> QED
          BY <2>2, <4>1, <4>2, VouchedFrame
      <3> QED
        BY <3>1, <3>2
    <2> QED
      BY <2>4, <2>5, <2>6 DEF VouchedInv
  <1>14. CASE ListIpChanges \/ \E id \in Ids : RemoveIpChanges(id)
    BY <1>14, VouchedFrame DEF ListIpChanges, RemoveIpChanges, VouchedInv, StoresVouched
  <1>15. CASE Restart
    <2>1. /\ db' = db /\ io' = IdleIo /\ \A id \in Ids : mem'[id] = NoPeer
          /\ \A t \in Tasks : task'[t].pc = "idle"
      BY <1>15 DEF Restart, IdleTask
    <2> QED
      BY <2>1, VouchedFrame DEF VouchedInv, StoresVouched, TasksVouched
  <1>16. CASE Tick
    <2>1. /\ db' = db /\ task' = task
          /\ \A id \in Ids : mem'[id] = IF mem[id] = NoPeer THEN NoPeer ELSE Aged(mem[id])
      BY <1>16 DEF Tick
    <2>2. \A id \in Ids : mem[id] # NoPeer => /\ mem'[id].uuid = mem[id].uuid
                            /\ mem'[id].pk = mem[id].pk /\ mem'[id].guid = mem[id].guid
      <3>1. \A p : Aged(p).uuid = p.uuid /\ Aged(p).pk = p.pk /\ Aged(p).guid = p.guid
        BY DEF Aged
      <3> QED
        BY <2>1, <3>1
    <2>3. StoresVouched'
      BY <2>1, <2>2, VouchedFrame DEF VouchedInv, StoresVouched, PeerVouched
    <2>4. io.pc # "idle" => io \in Request /\ io.id \in Ids
      BY IoCases DEF TypeInv
    <2>5. CASE io.obj = NoPeer
      <3>1. io' = io
        BY <1>16, <2>5 DEF Tick
      <3>2. io.pc = "persist" => mem'[io.id].uuid = mem[io.id].uuid
        BY <2>2, <2>4 DEF TypeInv, IoHasPeer
      <3> QED
        BY <2>1, <2>3, <3>1, <3>2, VouchedFrame DEF VouchedInv
    <2>6. CASE io.obj # NoPeer
      <3>1. io \in Request /\ io.obj \in Peer
        BY <2>4, <2>6, IoCases DEF TypeInv, IoHasPeer
      <3>2. /\ io'.obj = Aged(io.obj) /\ io'.pc = io.pc /\ io'.id = io.id /\ io'.row = io.row
            /\ io'.uuid = io.uuid /\ io'.pk = io.pk
        BY <1>16, <2>6, <3>1 DEF Tick, Request
      <3>3. /\ Aged(io.obj).uuid = io.obj.uuid /\ Aged(io.obj).pk = io.obj.pk
            /\ Aged(io.obj).guid = io.obj.guid /\ Aged(io.obj) # NoPeer
        BY <3>1, AgedType, MarkersAssumption DEF Aged
      <3>4. IoVouched'
        BY <2>1, <2>6, <3>2, <3>3
        DEF VouchedInv, IoVouched, PeerVouched, RowVouched, IoPeer
      <3> QED
        BY <2>1, <2>3, <3>4, VouchedFrame DEF VouchedInv
    <2> QED
      BY <2>5, <2>6
  <1>17. CASE UNCHANGED vars
    BY <1>17, VouchedFrame DEF vars, VouchedInv, StoresVouched
  <1>18. CASE IoAnswer \/ IoAnswerLost
    BY <1>18, VouchedFrame DEF IoAnswer, IoAnswerLost, VouchedInv, StoresVouched
  <1> QED
    BY <1>1, <1>2, <1>3, <1>4, <1>5, <1>6, <1>7, <1>8, <1>9, <1>10, <1>11, <1>12, <1>13, <1>14,
       <1>15, <1>16, <1>17, <1>18 DEF Next, Work

(***************************************************************************)
(* No key is held or stored by hbbs for a machine that did not send it,    *)
(* for any number of machines, ids and racing loads, whatever fails.       *)
(***************************************************************************)
THEOREM KeysAreVouched == Spec => []KeysVouched
  <1>1. Init => VouchedInv
    BY DEF Init, IdleIo, IdleTask, VouchedInv, StoresVouched, IoVouched, TasksVouched, RowVouched
  <1>2. VouchedInv => KeysVouched
    BY DEF VouchedInv, StoresVouched, PeerVouched, RowVouched, KeysVouched
  <1> QED
    BY <1>1, <1>2, VouchedStep, RegistryTypes, PTL DEF Spec

-----------------------------------------------------------------------------
(* Memory and database, as long as no load replaced a newer entry *)

IoAt(id, pcs) == io.id = id /\ io.pc \in pcs

\* What io_loop is about to store for an id is what it wrote into memory: an
\* insert if there is no row, and else an update of the key or of the address.
StoresWritten(id) ==
    /\ mem[id].uuid = io.uuid /\ mem[id].pk = io.pk /\ mem[id].ip = io.ip
    /\ mem[id].guid <=> db[id] # NoRow
    /\ db[id] # NoRow => /\ db[id].uuid = io.uuid
                         /\ db[id].pk = io.pk \/ db[id].ip = io.ip

\* Every copy of a peer that can still reach memory or database is the stored one.
InStep(id) ==
    /\ mem[id] # NoPeer /\ ~ IoAt(id, {"persist"}) => Agrees(mem[id], db[id])
    /\ IoAt(id, {"decide", "persist"}) => io.obj = NoPeer
    /\ IoAt(id, {"persist"}) => StoresWritten(id)
    /\ IoAt(id, {"install"}) => io.row = db[id]
    /\ mem[id] = NoPeer =>
          \A t \in Tasks : task[t].pc = "install" /\ task[t].id = id => task[t].row = db[id]
    /\ IoAt(id, {"answer"}) => db[id] # NoRow /\ db[id].pk = io.pk
    /\ lastPk[id] # Null => db[id] # NoRow /\ db[id].pk = LatestKey(id)

InStepInv == DbFaults = {} => \A id \in Ids : ~ raced[id] => InStep(id)

\* Two entries of the map that are the same but for times, counters and sock.
SamePeer(p, q) ==
    /\ p = NoPeer <=> q = NoPeer
    /\ q # NoPeer => p.uuid = q.uuid /\ p.pk = q.pk /\ p.ip = q.ip /\ p.guid = q.guid

(***************************************************************************)
(* The next-state relation keeps the set of calls that may fail, and no    *)
(* step forgets a race.                                                    *)
(***************************************************************************)
LEMMA RacesStay ==
    ASSUME TypeInv, [Next]_vars
    PROVE  DbFaults' = DbFaults /\ \A id \in Ids : raced[id] => raced'[id]
  <1>1. DbFaults' = DbFaults
    BY DEF Next, vars
  <1>2. ASSUME NEW id \in Ids, raced[id] PROVE raced'[id]
    <2> USE <1>2 DEF TypeInv, TypeOK, history
    <2>1. ASSUME NEW t \in Tasks, TaskInstall(t) PROVE raced'[id]
      BY <2>1 DEF TaskInstall
    <2>2. ASSUME raced' = raced PROVE raced'[id]
      BY <2>2
    <2> QED
      BY <2>1, <2>2
      DEF Next, RegisterPeer, RegisterPk, IoQuery, IoInstall, IoRefuse, IoConfirm, IoWrite,
          IoInsert, IoUpdate, IoPersistError, IoAnswer, IoAnswerLost, TaskGet, TaskQuery,
          ListIpChanges, RemoveIpChanges, Work, Restart, Tick, vars
  <1> QED
    BY <1>1, <1>2

(***************************************************************************)
(* A step that leaves the peer, the row and the requests of an id alone    *)
(* keeps them in step.                                                     *)
(***************************************************************************)
LEMMA InStepFrame ==
    ASSUME NEW id \in Ids, InStep(id),
           SamePeer(mem'[id], mem[id]), db'[id] = db[id],
           lastPk'[id] = lastPk[id], unanswered'[id] = unanswered[id],
           IoAt(id, {"answer"})' => IoAt(id, {"answer"}) /\ io'.pk = io.pk,
           IoAt(id, {"persist"})' <=> IoAt(id, {"persist"}),
           IoAt(id, {"persist"}) => io'.uuid = io.uuid /\ io'.pk = io.pk /\ io'.ip = io.ip,
           IoAt(id, {"decide", "persist"})' => io'.obj = NoPeer,
           IoAt(id, {"install"})' => io'.row = db[id],
           \A t \in Tasks : task'[t].pc = "install" /\ task'[t].id = id =>
               task'[t] = task[t] \/ task'[t].row = db[id]
    PROVE  InStep(id)'
  <1>1. (mem[id] # NoPeer /\ ~ IoAt(id, {"persist"}) => Agrees(mem[id], db[id]))'
    BY DEF InStep, SamePeer, Agrees, SameIdentity
  <1>2. (IoAt(id, {"persist"}) => StoresWritten(id))'
    <2> SUFFICES ASSUME IoAt(id, {"persist"})' PROVE StoresWritten(id)'
      OBVIOUS
    <2>1. StoresWritten(id) /\ io'.uuid = io.uuid /\ io'.pk = io.pk /\ io'.ip = io.ip
      BY DEF InStep
    <2>2. CASE mem[id] # NoPeer
      BY <2>1, <2>2 DEF StoresWritten, SamePeer
    <2>3. CASE mem[id] = NoPeer
      <3>1. mem'[id] = mem[id]
        BY <2>3 DEF SamePeer
      <3> QED
        BY <2>1, <3>1 DEF StoresWritten
    <2> QED
      BY <2>2, <2>3
  <1>3. (mem[id] = NoPeer =>
          \A t \in Tasks : task[t].pc = "install" /\ task[t].id = id => task[t].row = db[id])'
    BY DEF InStep, SamePeer
  <1>4. (lastPk[id] # Null => db[id] # NoRow /\ db[id].pk = LatestKey(id))'
    BY DEF InStep, LatestKey
  <1> QED
    BY <1>1, <1>2, <1>3, <1>4 DEF InStep

(***************************************************************************)
(* Every step of io_loop, a spawned task, an administrator or the clock    *)
(* that does not let a load replace a newer entry keeps memory and         *)
(* database in step, if no call fails.                                     *)
(***************************************************************************)
LEMMA InStepStep == TypeInv /\ VouchedInv /\ InStepInv /\ [Next]_vars => InStepInv'
  <1> SUFFICES ASSUME TypeInv, VouchedInv, InStepInv, [Next]_vars, DbFaults = {},
                      NEW id \in Ids, ~ raced'[id]
               PROVE  InStep(id)'
    BY RacesStay DEF InStepInv
  <1>0. InStep(id)
    BY RacesStay DEF InStepInv
  <1> USE DEF TypeInv, history
  <1>a. io.pc # "idle" => io \in Request /\ io.id \in Ids /\ io.uuid \in Uuids
                          /\ io.pk \in Pks /\ io.ip \in Ips
    BY IoCases
  <1>b. IdleIo.pc = "idle" /\ IdleTask.pc = "idle"
    BY DEF IdleIo, IdleTask
  <1>1. ASSUME NEW q \in Ids, NEW ip \in Ips, RegisterPeer(q, ip) PROVE InStep(id)'
    <2>1. mem[q] \in Peer /\ Refreshed(mem[q], ip) # NoPeer
      BY <1>1, RefreshedType, MarkersAssumption DEF RegisterPeer, TypeOK
    <2>2. SamePeer(mem'[id], mem[id])
      BY <1>1, <2>1 DEF RegisterPeer, TypeOK, SamePeer, Refreshed
    <2> QED
      BY <1>0, <1>1, <2>2, InStepFrame DEF RegisterPeer, IoAt
  <1>2. ASSUME NEW q \in Ids, NEW cred \in Creds, NEW ip \in Ips, RegisterPk(q, cred, ip)
        PROVE  InStep(id)'
    <2>1. /\ mem' = mem /\ db' = db /\ task' = task /\ io.pc = "idle"
          /\ lastPk' = lastPk /\ unanswered' = unanswered
          /\ io'.pc \in {"query", "decide"} /\ io'.obj = NoPeer
      BY <1>2 DEF RegisterPk
    <2> QED
      BY <1>0, <2>1, InStepFrame DEF IoAt, SamePeer
  <1>3. CASE IoQuery
    <2>1. io'.pc = "install" /\ io'.id = io.id /\ io'.row = db[io.id]
      BY <1>3, <1>a DEF IoQuery, Answers, Request
    <2> QED
      BY <1>0, <1>3, <2>1, InStepFrame DEF IoQuery, IoAt, SamePeer
  <1>4. CASE IoInstall
    <2>1. io'.pc = "decide" /\ io'.id = io.id /\ io'.obj = NoPeer /\ io.pc = "install"
      BY <1>4, <1>a DEF IoInstall, Request, IoHasPeer
    <2>2. CASE io.id # id
      BY <1>0, <1>4, <2>1, <2>2, InStepFrame DEF IoInstall, IoAt, SamePeer, TypeOK
    <2>3. CASE io.id = id
      <3>1. io.row = db[id] /\ (mem[id] # NoPeer => Agrees(mem[id], db[id]))
        BY <1>0, <2>1, <2>3 DEF InStep, IoAt
      <3>2. mem'[id] = IF db[id] # NoRow THEN FromRow(db[id])
                       ELSE IF mem[id] = NoPeer THEN DefaultPeer ELSE mem[id]
        BY <1>4, <2>3, <3>1 DEF IoInstall, TypeOK
      <3>3. mem'[id] # NoPeer /\ Agrees(mem'[id], db[id])
        <4>1. CASE db[id] # NoRow
          <5>1. FromRow(db[id]) # NoPeer
            BY <4>1, FromRowType, MarkersAssumption DEF TypeOK
          <5> QED
            BY <3>2, <4>1, <5>1 DEF Agrees, SameIdentity, FromRow
        <4>2. CASE db[id] = NoRow
          <5>1. DefaultPeer # NoPeer /\ DefaultPeer.uuid = Null
            BY DefaultPeerType, MarkersAssumption DEF DefaultPeer
          <5> QED
            BY <3>1, <3>2, <4>2, <5>1 DEF Agrees
        <4> QED
          BY <4>1, <4>2
      <3>4. db' = db /\ lastPk' = lastPk /\ unanswered' = unanswered
        BY <1>4 DEF IoInstall
      <3> QED
        BY <1>0, <2>1, <2>3, <3>3, <3>4 DEF InStep, IoAt, Agrees, SameIdentity, LatestKey
    <2> QED
      BY <2>2, <2>3
  <1>5. CASE IoRefuse
    BY <1>0, <1>5, <1>b, InStepFrame DEF IoRefuse, IoAt, SamePeer
  <1>6. CASE IoConfirm
    <2>1. /\ io.pc = "decide" /\ io.id \in Ids /\ io.pk \in Pks /\ mem[io.id] # NoPeer
          /\ io'.pc = "answer" /\ io'.id = io.id /\ io'.pk = io.pk
          /\ db' = db /\ task' = task /\ lastPk' = lastPk /\ unanswered' = unanswered
      BY <1>6, <1>a, AnswerCases DEF IoConfirm, IoHasPeer
    <2>2. CASE io.id # id
      BY <1>0, <1>6, <2>1, <2>2, InStepFrame
      DEF IoConfirm, IoAt, SamePeer, TypeOK
    <2>3. CASE io.id = id
      <3>1. io.obj = NoPeer /\ Agrees(mem[id], db[id]) /\ IoPeer = mem[id]
        BY <1>0, <2>1, <2>3 DEF InStep, IoAt, IoPeer
      <3>2. mem[id].uuid # Null /\ mem[id].pk = io.pk /\ db[id] # NoRow
        BY <1>6, <3>1 DEF IoConfirm, Changed, Agrees
      <3>3. mem'[id] = Counted(mem[id])
        BY <1>6, <2>3, <3>1 DEF IoConfirm, TypeOK
      <3>4. Counted(mem[id]) # NoPeer
        BY <1>6, <2>1, <2>3, <3>1, CountedType, MarkersAssumption DEF IoConfirm, TypeOK
      <3>5. Agrees(mem'[id], db'[id])
        BY <2>1, <3>1, <3>3 DEF Agrees, SameIdentity, Counted
      <3>6. db[id].pk = io.pk
        BY <3>1, <3>2 DEF Agrees, SameIdentity
      <3> QED
        BY <1>0, <2>1, <3>2, <3>3, <3>4, <3>5, <3>6
        DEF InStep, IoAt, Agrees, SameIdentity, LatestKey
    <2> QED
      BY <2>2, <2>3
  <1>7. CASE IoWrite
    <2>1. /\ io.pc = "decide" /\ io.id \in Ids /\ mem[io.id] # NoPeer /\ io'.pc = "persist"
          /\ io'.id = io.id /\ io'.uuid = io.uuid /\ io'.pk = io.pk /\ io'.ip = io.ip
          /\ db' = db /\ task' = task /\ lastPk' = lastPk /\ unanswered' = unanswered
      BY <1>7, <1>a DEF IoWrite, IoHasPeer, Request
    <2>2. CASE io.id # id
      BY <1>0, <1>7, <2>1, <2>2, InStepFrame DEF IoWrite, IoAt, SamePeer, TypeOK
    <2>3. CASE io.id = id
      <3>1. io.obj = NoPeer /\ Agrees(mem[id], db[id]) /\ IoPeer = mem[id]
        BY <1>0, <2>1, <2>3 DEF InStep, IoAt, IoPeer
      <3>2. io'.obj = NoPeer /\ mem'[id] = Written(mem[id])
        BY <1>7, <1>a, <2>3, <3>1 DEF IoWrite, Request, TypeOK
      <3>3. Written(mem[id]) # NoPeer
        BY <1>7, <1>a, <2>1, <2>3, <3>1, WrittenType, MarkersAssumption DEF IoWrite, TypeOK
      <3>4. mem[id].guid <=> db[id] # NoRow
        <4>1. mem[id].guid => db[id] # NoRow
          BY <2>1, <2>3 DEF VouchedInv, StoresVouched, PeerVouched
        <4>2. db[id] # NoRow => mem[id].guid
          BY <3>1 DEF Agrees
        <4> QED
          BY <4>1, <4>2
      <3>5. db[id] # NoRow => /\ db[id].uuid = io.uuid
                              /\ db[id].pk = io.pk \/ db[id].ip = io.ip
        <4> SUFFICES ASSUME db[id] # NoRow
                     PROVE  /\ db[id].uuid = io.uuid
                            /\ db[id].pk = io.pk \/ db[id].ip = io.ip
          OBVIOUS
        <4>1. db[id] \in Row /\ db[id].uuid # Null
          BY ConstantsAssumption DEF TypeOK, Row
        <4>2. SameIdentity(mem[id], db[id])
          BY <3>1 DEF Agrees
        <4>3. ~ Mismatch(mem[id])
          BY <1>7, <3>1 DEF IoWrite
        <4> QED
          BY <4>1, <4>2, <4>3 DEF Mismatch, SameIdentity
      <3>6. StoresWritten(id)'
        BY <2>1, <3>2, <3>4, <3>5 DEF StoresWritten, Written
      <3> QED
        BY <1>0, <2>1, <2>3, <3>2, <3>3, <3>6 DEF InStep, IoAt, LatestKey
    <2> QED
      BY <2>2, <2>3
  <1>8. CASE IoInsert
    <2>1. /\ io.pc = "persist" /\ io.id \in Ids /\ io.uuid \in Uuids /\ io.pk \in Pks
          /\ io.ip \in Ips /\ mem[io.id] # NoPeer /\ task' = task /\ lastPk' = lastPk
          /\ io'.pc = "answer" /\ io'.id = io.id /\ io'.pk = io.pk
      BY <1>8, <1>a, AnswerCases DEF IoInsert, IoHasPeer
    <2>2. CASE io.id # id
      BY <1>0, <1>8, <2>1, <2>2, InStepFrame
      DEF IoInsert, Stored, IoAt, SamePeer, TypeOK
    <2>3. CASE io.id = id
      <3>1. io.obj = NoPeer /\ StoresWritten(id)
        BY <1>0, <2>1, <2>3 DEF InStep, IoAt
      <3>2. /\ mem'[id] = WithGuid(mem[id]) /\ unanswered'[id] = io.pk
            /\ db'[id] = [uuid |-> io.uuid, pk |-> io.pk, ip |-> io.ip]
        BY <1>8, <2>3, <3>1 DEF IoInsert, Stored, TypeOK
      <3>3. WithGuid(mem[id]) # NoPeer /\ db'[id] # NoRow
        BY <2>1, <2>3, <3>2, WithGuidType, MarkersAssumption DEF TypeOK, Row
      <3>4. Agrees(mem'[id], db'[id])
        BY <3>1, <3>2, <3>3 DEF Agrees, SameIdentity, WithGuid, StoresWritten
      <3> QED
        BY <2>1, <3>2, <3>3, <3>4, ConstantsAssumption
        DEF InStep, IoAt, Agrees, SameIdentity, LatestKey
    <2> QED
      BY <2>2, <2>3
  <1>9. CASE IoUpdate
    <2>1. /\ io.pc = "persist" /\ io.id \in Ids /\ io.uuid \in Uuids /\ io.pk \in Pks
          /\ io.ip \in Ips /\ mem[io.id] # NoPeer /\ task' = task /\ lastPk' = lastPk
          /\ io'.pc = "answer" /\ io'.id = io.id /\ io'.pk = io.pk
          /\ mem' = mem
      BY <1>9, <1>a, AnswerCases DEF IoUpdate, IoHasPeer
    <2>2. CASE io.id # id
      BY <1>0, <1>9, <2>1, <2>2, InStepFrame
      DEF IoUpdate, Stored, IoAt, SamePeer, TypeOK
    <2>3. CASE io.id = id
      <3>1. StoresWritten(id) /\ db[id] # NoRow /\ mem[id].guid
        BY <1>0, <1>9, <2>1, <2>3 DEF InStep, IoAt, IoUpdate, StoresWritten
      <3>2. /\ unanswered'[id] = io.pk
            /\ db'[id] = [uuid |-> db[id].uuid, pk |-> io.pk, ip |-> io.ip]
        BY <1>9, <2>3 DEF IoUpdate, Stored, TypeOK
      <3>3. db'[id] # NoRow
        BY <2>1, <3>1, <3>2, MarkersAssumption DEF TypeOK, Row
      <3>4. Agrees(mem'[id], db'[id])
        BY <2>1, <3>1, <3>2, <3>3 DEF Agrees, SameIdentity, StoresWritten
      <3> QED
        BY <2>1, <2>3, <3>2, <3>3, <3>4, ConstantsAssumption
        DEF InStep, IoAt, Agrees, SameIdentity, LatestKey
    <2> QED
      BY <2>2, <2>3
  <1>10. CASE IoPersistError
    <2>1. io.pc = "persist" /\ PersistFails
      BY <1>10 DEF IoPersistError
    <2>2. io.id # id
      <3> SUFFICES ASSUME io.id = id PROVE FALSE
        OBVIOUS
      <3>1. io.obj = NoPeer /\ StoresWritten(id)
        BY <1>0, <2>1 DEF InStep, IoAt
      <3> QED
        BY <2>1, <3>1 DEF PersistFails, IoPeer, StoresWritten
    <2> QED
      BY <1>0, <1>10, <1>a, <2>1, <2>2, AnswerCases, InStepFrame
      DEF IoPersistError, IoAt, SamePeer, TypeOK
  <1>11. ASSUME NEW t \in Tasks, NEW q \in Ids, TaskGet(t, q) PROVE InStep(id)'
    <2>1. \A s \in Tasks : task'[s] = task[s] \/ task'[s].pc = "query"
      BY <1>11 DEF TaskGet, TypeOK
    <2> QED
      BY <1>0, <1>11, <2>1, InStepFrame DEF TaskGet, InStep, IoAt, SamePeer
  <1>12. ASSUME NEW t \in Tasks, TaskQuery(t) PROVE InStep(id)'
    <2>1. \A s \in Tasks : task'[s].pc = "install" /\ task'[s].id = id =>
               task'[s] = task[s] \/ task'[s].row = db[id]
      BY <1>12, <1>b DEF TaskQuery, Answers, TypeOK
    <2> QED
      BY <1>0, <1>12, <2>1, InStepFrame DEF TaskQuery, InStep, IoAt, SamePeer
  <1>13. ASSUME NEW t \in Tasks, TaskInstall(t) PROVE InStep(id)'
    <2>1. /\ task[t].id \in Ids /\ task[t].row \in Row
          /\ task[t].row # NoRow /\ FromRow(task[t].row) # NoPeer
      BY <1>13, TaskCases, FromRowType, MarkersAssumption DEF TaskInstall, IoHasPeer
    <2>2. /\ db' = db /\ lastPk' = lastPk /\ unanswered' = unanswered
          /\ \A s \in Tasks : task'[s] = task[s] \/ task'[s].pc = "idle"
      BY <1>13, <1>b DEF TaskInstall, TypeOK
    <2>3. CASE task[t].id # id
      <3>1. /\ mem'[id] = mem[id]
            /\ IoAt(id, {"query", "install", "decide", "persist", "answer"})'
                  \/ IoAt(id, {"persist"}) => io' = io
        <4>1. CASE IoHolds(task[t].id)
          <5>1. io'.id = io.id /\ io.id # id
            BY <1>13, <1>a, <2>3, <4>1 DEF TaskInstall, IoHolds, Request
          <5> QED
            BY <1>13, <2>3, <5>1 DEF TaskInstall, IoAt, TypeOK
        <4>2. CASE ~ IoHolds(task[t].id)
          BY <1>13, <2>3, <4>2 DEF TaskInstall, TypeOK
        <4> QED
          BY <4>1, <4>2
      <3> QED
        BY <1>0, <2>2, <3>1, InStepFrame DEF InStep, IoAt, SamePeer
    <2>4. CASE task[t].id = id
      <3>1. /\ ~ IoHolds(id) /\ io' = io /\ mem'[id] = FromRow(task[t].row)
            /\ mem[id] # NoPeer => SameIdentity(mem[id], task[t].row)
        BY <1>13, <2>4 DEF TaskInstall, TypeOK
      <3>2. ~ IoAt(id, {"decide", "persist"})
        BY <1>0, <3>1 DEF InStep, IoAt, IoHolds
      <3>3. CASE mem[id] = NoPeer
        <4>1. task[t].row = db[id]
          BY <1>0, <1>13, <2>4, <3>3 DEF InStep, TaskInstall
        <4>2. Agrees(mem'[id], db[id])
          BY <2>1, <3>1, <4>1 DEF Agrees, SameIdentity, FromRow
        <4> QED
          BY <1>0, <2>1, <2>2, <3>1, <3>2, <4>2
          DEF InStep, IoAt, Agrees, SameIdentity, LatestKey
      <3>4. CASE mem[id] # NoPeer
        <4>1. Agrees(mem[id], db[id]) /\ SameIdentity(mem[id], task[t].row)
          BY <1>0, <3>1, <3>2, <3>4 DEF InStep, IoAt
        <4>2. mem[id].uuid # Null
          BY <2>1, <4>1, ConstantsAssumption DEF SameIdentity, Row
        <4>3. Agrees(mem'[id], db[id])
          BY <2>1, <3>1, <4>1, <4>2 DEF Agrees, SameIdentity, FromRow
        <4> QED
          BY <1>0, <2>1, <2>2, <3>1, <3>2, <4>3
          DEF InStep, IoAt, Agrees, SameIdentity, LatestKey
      <3> QED
        BY <3>3, <3>4
    <2> QED
      BY <2>3, <2>4
  <1>14. CASE ListIpChanges \/ \E q \in Ids : RemoveIpChanges(q)
    BY <1>0, <1>14, InStepFrame DEF ListIpChanges, RemoveIpChanges, InStep, IoAt, SamePeer
  <1>15. CASE Restart
    <2>1. /\ db' = db /\ lastPk' = lastPk /\ unanswered' = unanswered
          /\ io'.pc = "idle" /\ mem'[id] = NoPeer
          /\ \A t \in Tasks : task'[t].pc = "idle"
      BY <1>15, <1>b DEF Restart
    <2> QED
      BY <1>0, <2>1 DEF InStep, IoAt, LatestKey
  <1>16. CASE Tick
    <2>1. SamePeer(mem'[id], mem[id])
      BY <1>16, AgedType, MarkersAssumption DEF Tick, SamePeer, Aged, TypeOK
    <2>2. /\ io'.pc = io.pc /\ io'.id = io.id /\ io'.row = io.row /\ io'.uuid = io.uuid
          /\ io'.pk = io.pk /\ io'.ip = io.ip /\ (io.obj = NoPeer => io'.obj = NoPeer)
      <3>1. io.obj # NoPeer => io \in Request
        BY <1>a DEF IoHasPeer
      <3> QED
        BY <1>16, <3>1 DEF Tick, Request
    <2> QED
      BY <1>0, <1>16, <2>1, <2>2, InStepFrame DEF Tick, InStep, IoAt
  <1>17. CASE UNCHANGED vars
    BY <1>0, <1>17, InStepFrame DEF vars, InStep, IoAt, SamePeer
  <1>18. CASE IoAnswer
    <2>1. /\ io.pc = "answer" /\ io.id \in Ids /\ io.pk \in Pks /\ io'.pc = "idle"
          /\ mem' = mem /\ db' = db /\ task' = task
      BY <1>18, <1>a, <1>b DEF IoAnswer
    <2>2. CASE io.id # id
      BY <1>0, <1>18, <2>1, <2>2, InStepFrame DEF IoAnswer, IoAt, SamePeer, TypeOK
    <2>3. CASE io.id = id
      <3>1. lastPk'[id] = io.pk /\ unanswered'[id] = Null
        BY <1>18, <2>3 DEF IoAnswer, TypeOK
      <3>2. db[id] # NoRow /\ db[id].pk = io.pk
        BY <1>0, <2>1, <2>3 DEF InStep, IoAt
      <3> QED
        BY <1>0, <2>1, <3>1, <3>2 DEF InStep, IoAt, LatestKey, Agrees, SameIdentity
    <2> QED
      BY <2>2, <2>3
  <1>19. CASE IoAnswerLost
    BY <1>0, <1>19, <1>b, InStepFrame DEF IoAnswerLost, InStep, IoAt, SamePeer
  <1> QED
    BY <1>1, <1>2, <1>3, <1>4, <1>5, <1>6, <1>7, <1>8, <1>9, <1>10, <1>11, <1>12, <1>13, <1>14,
       <1>15, <1>16, <1>17, <1>18, <1>19 DEF Next, Work

(***************************************************************************)
(* The invariant that the three theorems below are read off.               *)
(***************************************************************************)
LEMMA InStepAlways == Spec => [](TypeInv /\ InStepInv)
  <1>1. Init => VouchedInv
    BY DEF Init, IdleIo, IdleTask, VouchedInv, StoresVouched, IoVouched, TasksVouched, RowVouched
  <1>2. Init => InStepInv
    BY DEF Init, IdleIo, IdleTask, InStepInv, InStep, IoAt
  <1> QED
    BY <1>1, <1>2, VouchedStep, InStepStep, RegistryTypes, PTL DEF Spec

(***************************************************************************)
(* hbbs serves the stored peer, for any number of ids, machines, spawned   *)
(* loads and restarts: only a load that replaces a newer entry of the map, *)
(* or a database call that fails, can part memory and database.            *)
(***************************************************************************)
THEOREM MemoryIsTheDatabase == Spec => []MemoryMatchesDb
  <1>1. InStepInv => MemoryMatchesDb
    BY DEF InStepInv, InStep, IoAt, MemoryMatchesDb
  <1> QED
    BY <1>1, InStepAlways, PTL

(***************************************************************************)
(* A key that RegisterPk answered OK for is in the peer table, so that a   *)
(* restart does not lose it, until another is stored there; and what is    *)
(* there then is the key of the last request whose OK was not sent.        *)
(***************************************************************************)
THEOREM ConfirmedKeysAreStored == Spec => []ConfirmedKeyStored
  <1>1. InStepInv => ConfirmedKeyStored
    BY DEF InStepInv, InStep, ConfirmedKeyStored
  <1> QED
    BY <1>1, InStepAlways, PTL

(***************************************************************************)
(* No step changes key and address of a row at once: the comparison that   *)
(* RegisterPk makes with the entry in memory holds for the row as well.    *)
(***************************************************************************)
THEOREM RowsChangeByHalves == Spec => KeyOrAddressKept
  <1> DEFINE Kept == DbFaults = {} => \A id \in Ids : db[id] # NoRow /\ ~ raced[id] =>
                        /\ db'[id] # NoRow
                        /\ db'[id].pk = db[id].pk \/ db'[id].ip = db[id].ip
  <1>1. TypeInv /\ InStepInv /\ [Next]_vars => Kept
    <2> SUFFICES ASSUME TypeInv, InStepInv, [Next]_vars, DbFaults = {},
                        NEW id \in Ids, db[id] # NoRow, ~ raced[id]
                 PROVE  /\ db'[id] # NoRow
                        /\ db'[id].pk = db[id].pk \/ db'[id].ip = db[id].ip
      OBVIOUS
    <2> USE DEF TypeInv
    <2>1. CASE db'[id] = db[id]
      BY <2>1
    <2>2. CASE IoInsert
      BY <2>1, <2>2 DEF IoInsert, TypeOK
    <2>3. CASE IoUpdate /\ io.id = id
      <3>1. io.pk \in Pks /\ io.ip \in Ips
        BY <2>3, IoCases DEF IoUpdate
      <3>2. db'[id] = [uuid |-> db[id].uuid, pk |-> io.pk, ip |-> io.ip]
        BY <2>3 DEF IoUpdate, TypeOK
      <3>3. db'[id] # NoRow
        BY <3>1, <3>2, MarkersAssumption DEF TypeOK, Row
      <3>4. db[id].pk = io.pk \/ db[id].ip = io.ip
        BY <2>3 DEF IoUpdate, InStepInv, InStep, IoAt, StoresWritten
      <3> QED
        BY <3>2, <3>3, <3>4
    <2>4. CASE IoUpdate /\ io.id # id
      BY <2>1, <2>4 DEF IoUpdate, TypeOK
    <2> QED
      BY <2>1, <2>2, <2>3, <2>4
      DEF Next, RegisterPeer, RegisterPk, IoQuery, IoInstall, IoRefuse, IoConfirm, IoWrite,
          IoPersistError, IoAnswer, IoAnswerLost, TaskGet, TaskQuery, TaskInstall,
          ListIpChanges, RemoveIpChanges, Work, Restart, Tick, vars, history
  <1>2. KeyOrAddressKept <=> [][Kept]_vars
    BY DEF KeyOrAddressKept
  <1> QED
    BY <1>1, <1>2, InStepAlways, PTL DEF Spec

-----------------------------------------------------------------------------
(* The log of address changes *)

\* A log exists only for a registered peer in memory, and holds its address; it
\* does not while io_loop fetches the peer, so that what it fetches needs no log.
Logged(id) ==
    /\ ipChanges[id] # NoLog => /\ mem[id] # NoPeer /\ mem[id].uuid # Null
                                /\ mem[id].ip \in ipChanges[id].ips
    /\ IoAt(id, {"query", "install"}) => ipChanges[id] = NoLog
    /\ IoAt(id, {"decide", "persist"}) => io.obj = NoPeer

LogInv == \A id \in Ids : ~ raced[id] => Logged(id)

(***************************************************************************)
(* A step that keeps the identity of a peer and does not touch the         *)
(* addresses of its log keeps the log current; so does one that drops it.  *)
(***************************************************************************)
LEMMA LoggedFrame ==
    ASSUME NEW id \in Ids, Logged(id),
           \/ ipChanges'[id] = NoLog
           \/ /\ ipChanges[id] # NoLog /\ ipChanges'[id].ips = ipChanges[id].ips
              /\ SamePeer(mem'[id], mem[id]),
           IoAt(id, {"query", "install"})' => ipChanges'[id] = NoLog,
           IoAt(id, {"decide", "persist"})' => io'.obj = NoPeer
    PROVE  Logged(id)'
  BY DEF Logged, SamePeer

(***************************************************************************)
(* Every step keeps the log of an id current, until a load replaces a      *)
(* newer entry of the map.                                                 *)
(***************************************************************************)
LEMMA LogStep == TypeInv /\ LogInv /\ [Next]_vars => LogInv'
  <1> SUFFICES ASSUME TypeInv, LogInv, [Next]_vars, NEW id \in Ids, ~ raced'[id]
               PROVE  Logged(id)'
    BY DEF LogInv
  <1>0. Logged(id)
    BY RacesStay DEF LogInv
  <1> USE DEF TypeInv, history
  <1>a. io.pc # "idle" => io \in Request /\ io.id \in Ids /\ io.uuid \in Uuids /\ io.ip \in Ips
    BY IoCases
  <1>b. IdleIo.pc = "idle" /\ IdleTask.pc = "idle"
    BY DEF IdleIo, IdleTask
  <1>1. ASSUME NEW q \in Ids, NEW ip \in Ips, RegisterPeer(q, ip) PROVE Logged(id)'
    <2>1. mem[q] \in Peer /\ Refreshed(mem[q], ip) # NoPeer
      BY <1>1, RefreshedType, MarkersAssumption DEF RegisterPeer, TypeOK
    <2>2. SamePeer(mem'[id], mem[id])
      BY <1>1, <2>1 DEF RegisterPeer, TypeOK, SamePeer, Refreshed
    <2> QED
      BY <1>0, <1>1, <2>2, LoggedFrame DEF RegisterPeer, IoAt
  <1>2. ASSUME NEW q \in Ids, NEW cred \in Creds, NEW ip \in Ips, RegisterPk(q, cred, ip)
        PROVE  Logged(id)'
    <2>1. /\ mem' = mem /\ ipChanges' = ipChanges /\ io'.obj = NoPeer
          /\ IoAt(id, {"query", "install"})' => mem[id] = NoPeer
      BY <1>2 DEF RegisterPk, IoAt
    <2> QED
      BY <1>0, <2>1 DEF Logged
  <1>3. CASE IoQuery
    <2>1. io.pc = "query" /\ io'.pc = "install" /\ io'.id = io.id
      BY <1>3, <1>a DEF IoQuery, Request
    <2> QED
      BY <1>0, <1>3, <2>1 DEF IoQuery, Logged, IoAt
  <1>4. CASE IoInstall
    <2>1. io'.pc = "decide" /\ io'.id = io.id /\ io'.obj = NoPeer /\ io.pc = "install"
      BY <1>4, <1>a DEF IoInstall, Request, IoHasPeer
    <2>2. mem'[id] = mem[id] \/ IoAt(id, {"query", "install"})
      BY <1>4, <2>1 DEF IoInstall, TypeOK, IoAt
    <2> QED
      BY <1>0, <1>4, <2>1, <2>2 DEF IoInstall, Logged, IoAt
  <1>5. CASE IoRefuse
    BY <1>0, <1>5, <1>b DEF IoRefuse, Logged, IoAt
  <1>6. CASE IoConfirm
    <2>1. IoPeer \in Peer /\ Counted(IoPeer) # NoPeer /\ mem[io.id] # NoPeer
      BY <1>6, IoPeerType, CountedType, MarkersAssumption DEF IoConfirm, IoHasPeer
    <2>2. SamePeer(mem'[id], mem[id])
      BY <1>6, <2>1 DEF IoConfirm, IoPeer, TypeOK, SamePeer, Counted
    <2> QED
      BY <1>0, <1>6, <1>a, <2>2, AnswerCases, LoggedFrame DEF IoConfirm, IoAt, Logged
  <1>7. CASE IoWrite
    <2>1. /\ io.pc = "decide" /\ io.id \in Ids /\ io'.pc = "persist"
          /\ io'.id = io.id /\ (io.obj = NoPeer => io'.obj = NoPeer)
      BY <1>7, <1>a DEF IoWrite, Request
    <2>2. CASE io.id # id
      BY <1>0, <1>7, <2>1, <2>2 DEF IoWrite, TypeOK, Logged, IoAt
    <2>3. CASE io.id = id
      <3>1. io.obj = NoPeer /\ IoPeer = mem[id]
        BY <1>0, <2>1, <2>3 DEF Logged, IoAt, IoPeer
      <3>2. mem'[id] = Written(mem[id]) /\ Written(mem[id]) # NoPeer
        BY <1>7, <1>a, <2>1, <2>3, <3>1, WrittenType, MarkersAssumption
        DEF IoWrite, TypeOK, IoHasPeer
      <3>3. mem'[id].uuid # Null /\ mem'[id].ip = io.ip
        BY <1>a, <2>1, <3>2, ConstantsAssumption DEF Written
      <3>4. ipChanges'[id] # NoLog => io.ip \in ipChanges'[id].ips
        <4>1. CASE mem[id].uuid # Null /\ mem[id].ip # io.ip
          <5>1. ipChanges'[id] = LogIpChange(ipChanges[id])
            BY <1>7, <2>3, <3>1, <4>1 DEF IoWrite, TypeOK
          <5> QED
            BY <5>1 DEF LogIpChange
        <4>2. CASE ~ (mem[id].uuid # Null /\ mem[id].ip # io.ip)
          <5>1. ipChanges'[id] = ipChanges[id]
            BY <1>7, <2>3, <3>1, <4>2 DEF IoWrite, TypeOK
          <5> QED
            BY <1>0, <4>2, <5>1 DEF Logged
        <4> QED
          BY <4>1, <4>2
      <3> QED
        BY <2>1, <3>1, <3>2, <3>3, <3>4 DEF Logged, IoAt
    <2> QED
      BY <2>2, <2>3
  <1>8. CASE IoInsert
    <2>1. IoPeer \in Peer /\ WithGuid(IoPeer) # NoPeer /\ mem[io.id] # NoPeer
      BY <1>8, IoPeerType, WithGuidType, MarkersAssumption DEF IoInsert, IoHasPeer
    <2>2. /\ mem[id] # NoPeer <=> mem'[id] # NoPeer
          /\ mem[id] # NoPeer => mem'[id].uuid = mem[id].uuid /\ mem'[id].ip = mem[id].ip
      BY <1>8, <2>1 DEF IoInsert, IoPeer, TypeOK, WithGuid
    <2> QED
      BY <1>0, <1>8, <1>a, <2>2, AnswerCases DEF IoInsert, Logged, IoAt
  <1>9. CASE IoUpdate \/ IoPersistError
    BY <1>0, <1>9, <1>a, AnswerCases DEF IoUpdate, IoPersistError, Logged, IoAt
  <1>10. CASE \E t \in Tasks : (\E q \in Ids : TaskGet(t, q)) \/ TaskQuery(t)
    BY <1>0, <1>10 DEF TaskGet, TaskQuery, Logged, IoAt
  <1>11. ASSUME NEW t \in Tasks, TaskInstall(t) PROVE Logged(id)'
    <2>1. /\ task[t].id \in Ids /\ task[t].row \in Row /\ FromRow(task[t].row) # NoPeer
      BY <1>11, TaskCases, FromRowType, MarkersAssumption DEF TaskInstall, IoHasPeer
    <2>2. ipChanges' = ipChanges
      BY <1>11 DEF TaskInstall
    <2>3. CASE task[t].id # id
      <3>1. /\ mem'[id] = mem[id] /\ io'.id = io.id /\ io'.pc = io.pc
            /\ io' = io \/ io.id # id
        <4>1. CASE IoHolds(task[t].id)
          BY <1>11, <1>a, <2>3, <4>1 DEF TaskInstall, IoHolds, Request, TypeOK
        <4>2. CASE ~ IoHolds(task[t].id)
          BY <1>11, <2>3, <4>2 DEF TaskInstall, TypeOK
        <4> QED
          BY <4>1, <4>2
      <3> QED
        BY <1>0, <2>2, <3>1 DEF Logged, IoAt
    <2>4. CASE task[t].id = id
      <3>1. /\ io' = io /\ mem'[id] = FromRow(task[t].row)
            /\ mem[id] # NoPeer => SameIdentity(mem[id], task[t].row)
        BY <1>11, <2>4 DEF TaskInstall, TypeOK
      <3>2. mem[id] # NoPeer => mem'[id].uuid = mem[id].uuid /\ mem'[id].ip = mem[id].ip
        BY <3>1 DEF SameIdentity, FromRow
      <3> QED
        BY <1>0, <2>1, <2>2, <3>1, <3>2 DEF Logged, IoAt
    <2> QED
      BY <2>3, <2>4
  <1>12. CASE ListIpChanges \/ \E q \in Ids : RemoveIpChanges(q)
    <2>1. ipChanges'[id] = ipChanges[id] \/ ipChanges'[id] = NoLog
      BY <1>12 DEF ListIpChanges, RemoveIpChanges, KeptLogs
    <2>2. mem' = mem /\ io' = io
      BY <1>12 DEF ListIpChanges, RemoveIpChanges
    <2> QED
      BY <1>0, <2>1, <2>2 DEF Logged, IoAt
  <1>13. CASE Restart
    BY <1>0, <1>13, <1>b DEF Restart, Logged, IoAt
  <1>14. CASE Tick
    <2>1. SamePeer(mem'[id], mem[id])
      BY <1>14, AgedType, MarkersAssumption DEF Tick, SamePeer, Aged, TypeOK
    <2>2. io'.pc = io.pc /\ io'.id = io.id /\ (io.obj = NoPeer => io'.obj = NoPeer)
      <3>1. io.obj # NoPeer => io \in Request
        BY <1>a DEF IoHasPeer
      <3> QED
        BY <1>14, <3>1 DEF Tick, Request
    <2>3. /\ ipChanges[id] = NoLog => ipChanges'[id] = NoLog
          /\ ipChanges[id] # NoLog => ipChanges'[id].ips = ipChanges[id].ips
      BY <1>14 DEF Tick
    <2> QED
      BY <1>0, <2>1, <2>2, <2>3, LoggedFrame DEF Logged, IoAt
  <1>15. CASE UNCHANGED vars
    BY <1>0, <1>15 DEF vars, Logged, IoAt
  <1>16. CASE IoAnswer \/ IoAnswerLost
    BY <1>0, <1>16, <1>b DEF IoAnswer, IoAnswerLost, Logged, IoAt
  <1> QED
    BY <1>1, <1>2, <1>3, <1>4, <1>5, <1>6, <1>7, <1>8, <1>9, <1>10, <1>11, <1>12, <1>13, <1>14,
       <1>15, <1>16 DEF Next, Work

(***************************************************************************)
(* The log that the ip-changes command shows for an id has the address the *)
(* id is registered under now, whatever the database does, as long as no   *)
(* load replaces a newer entry.                                            *)
(***************************************************************************)
THEOREM LogsAreCurrent == Spec => []LogIsCurrent
  <1>1. Init => LogInv
    BY DEF Init, IdleIo, LogInv, Logged, IoAt
  <1>2. LogInv => LogIsCurrent
    BY DEF LogInv, Logged, LogIsCurrent
  <1> QED
    BY <1>1, <1>2, LogStep, RegistryTypes, PTL DEF Spec
=============================================================================
