---------------------------- MODULE PeerRegistry ----------------------------
(***************************************************************************)
(* The peers hbbs knows: PeerMap (peer.rs) in front of the peer table of   *)
(* the database (database.rs), and the two datagrams that write them,      *)
(* RegisterPeer and RegisterPk (rendezvous_server.rs).                     *)
(*                                                                         *)
(* One task, io_loop, handles every datagram to its end before it takes    *)
(* the next; it is the only writer of peers and rows.  Any number of       *)
(* spawned tasks (TCP connections, punch-hole requests for peers that are  *)
(* not in memory) run PeerMap::get beside it, which loads a row and puts   *)
(* it into the map unconditionally.  Every await on the database is a step *)
(* of its own, and so is the answer OK, which may never be sent; locks are *)
(* held only within a step.                                                *)
(*                                                                         *)
(* A map entry is an Arc: io_loop keeps working on the object it obtained  *)
(* even if a spawned task replaces the entry.  io.obj is that object once  *)
(* it is detached from the map, NoPeer while it is the entry itself.       *)
(*                                                                         *)
(* Operators named Mut_... are never used: each is a plausible bug in the  *)
(* definition that follows, and shows that a property can fail.            *)
(***************************************************************************)
EXTENDS Integers

CONSTANTS
    Ids,            \* ids of at least six characters: shorter ones are refused
    Uuids, Pks,     \* machine uuids and public keys, never empty
    Creds,          \* the (uuid, pk) pairs clients send
    Ips, Loopback,  \* source addresses, and those among them that are loopback
    Tasks,          \* spawned tasks
    FaultModels,    \* sets of database calls that may fail: "get", "insert", "update"
    REG_TIMEOUT,    \* how long a registration counts as online (30 s)
    EXPIRED_AGE,    \* how old get_expired_time() makes a new peer (an hour), if it can
    BootUptimes,    \* how far Instant can go back when the machine has just booted:
                    \* {0}, or (Linux, where it may be negative) any time
    REG_PK_DUR,     \* window of the reg_pk limiter (6 s)
    MaxRegPk,       \* the literal 2 the reg_pk counter is compared with
    IP_CHANGE_DUR,  \* window of the IP_CHANGES log (180 s)
    Null,           \* an empty uuid, pk or ip, and the address 0.0.0.0:0
    NoPeer, NoRow, NoLog

ASSUME ConstantsAssumption ==
    /\ Creds \subseteq [uuid : Uuids, pk : Pks]
    /\ Loopback \subseteq Ips
    /\ FaultModels \subseteq SUBSET {"get", "insert", "update"}
    /\ REG_TIMEOUT \in Nat \ {0} /\ REG_PK_DUR \in Nat
    /\ EXPIRED_AGE \in Nat /\ EXPIRED_AGE >= REG_TIMEOUT
    /\ BootUptimes \subseteq 0 .. EXPIRED_AGE + REG_TIMEOUT
    /\ MaxRegPk \in Nat /\ IP_CHANGE_DUR \in Nat
    /\ Null \notin Uuids \cup Pks \cup Ips

\* struct Peer.  sock keeps the IP only; guid says whether one was assigned.
Peer == [sock : Ips \cup {Null}, regAge : 0 .. REG_TIMEOUT, guid : BOOLEAN,
         uuid : Uuids \cup {Null}, pk : Pks \cup {Null}, ip : Ips \cup {Null},
         reqs : 0 .. MaxRegPk + 1, reqAge : 0 .. REG_PK_DUR + 1]

\* A row of the peer table; the id is unique (index_peer_id).
Row == [uuid : Uuids, pk : Pks, ip : Ips]

\* An entry of IP_CHANGES: when the window began, and the new addresses.
Log == [age : 0 .. 2 * IP_CHANGE_DUR + 1, ips : SUBSET Ips]

ASSUME MarkersAssumption == NoPeer \notin Peer /\ NoRow \notin Row /\ NoLog \notin Log

VARIABLES
    DbFaults,   \* the database calls that may fail in this behaviour
    uptime,     \* how far Instant can go back, counted up to MAX_UPTIME
    mem,        \* PeerMap::map
    db,         \* the peer table
    ipChanges,  \* IP_CHANGES
    io,         \* the RegisterPk that io_loop is handling
    task,       \* the PeerMap::get that each spawned task is in
    owners,     \* history: the uuids an id was confirmed under (answer OK)
    lastPk,     \* history: the key last confirmed for an id
    unanswered, \* history: the key stored since then, whose OK was not sent
    raced       \* history: a spawned load replaced a newer entry of the map

vars == <<DbFaults, uptime, mem, db, ipChanges, io, task, owners, lastPk, unanswered, raced>>
history == <<owners, lastPk, unanswered, raced>>

MAX_UPTIME == EXPIRED_AGE + REG_TIMEOUT

IdleIo == [pc |-> "idle", id |-> Null, uuid |-> Null, pk |-> Null, ip |-> Null,
           row |-> NoRow, obj |-> NoPeer]
IdleTask == [pc |-> "idle", id |-> Null, row |-> NoRow]

Request == [pc : {"query", "install", "decide", "persist", "answer"}, id : Ids, uuid : Uuids,
            pk : Pks, ip : Ips, row : Row \cup {NoRow}, obj : Peer \cup {NoPeer}]
Load == [pc : {"query", "install"}, id : Ids, row : Row \cup {NoRow}]

TypeOK ==
    /\ DbFaults \in FaultModels
    /\ uptime \in 0 .. MAX_UPTIME
    /\ mem \in [Ids -> Peer \cup {NoPeer}]
    /\ db \in [Ids -> Row \cup {NoRow}]
    /\ ipChanges \in [Ids -> Log \cup {NoLog}]
    /\ io \in Request \cup {IdleIo}
    /\ task \in [Tasks -> Load \cup {IdleTask}]
    /\ owners \in [Ids -> SUBSET Uuids]
    /\ lastPk \in [Ids -> Pks \cup {Null}]
    /\ unanswered \in [Ids -> Pks \cup {Null}]
    /\ raced \in [Ids -> BOOLEAN]

Init ==
    /\ DbFaults \in FaultModels
    /\ uptime \in BootUptimes
    /\ mem = [id \in Ids |-> NoPeer]
    /\ db = [id \in Ids |-> NoRow]
    /\ ipChanges = [id \in Ids |-> NoLog]
    /\ io = IdleIo
    /\ task = [t \in Tasks |-> IdleTask]
    /\ owners = [id \in Ids |-> {}]
    /\ lastPk = [id \in Ids |-> Null]
    /\ unanswered = [id \in Ids |-> Null]
    /\ raced = [id \in Ids |-> FALSE]

-----------------------------------------------------------------------------
(* Peers *)

Capped(age, max) == IF age < max THEN age ELSE max

Mut_NeverExpired == 0

\* get_expired_time: an Instant an hour ago, or now where the clock began later.
ExpiredAge == IF uptime < EXPIRED_AGE THEN 0 ELSE EXPIRED_AGE

\* Peer::default
DefaultPeer ==
    [sock |-> Null, regAge |-> Capped(ExpiredAge, REG_TIMEOUT), guid |-> FALSE,
     uuid |-> Null, pk |-> Null, ip |-> Null,
     reqs |-> 0, reqAge |-> Capped(ExpiredAge, REG_PK_DUR + 1)]

Mut_InfoNotLoaded(row) ==
    [sock |-> Null, regAge |-> DefaultPeer.regAge, guid |-> TRUE,
     uuid |-> row.uuid, pk |-> row.pk, ip |-> Null,
     reqs |-> 0, reqAge |-> DefaultPeer.reqAge]

\* What PeerMap::get builds from a row.
FromRow(row) ==
    [sock |-> Null, regAge |-> DefaultPeer.regAge, guid |-> TRUE,
     uuid |-> row.uuid, pk |-> row.pk, ip |-> row.ip,
     reqs |-> 0, reqAge |-> DefaultPeer.reqAge]

\* The test of handle_online_request and of handle_punch_hole_request.  Ages
\* stop at REG_TIMEOUT here; that the count of ms wraps is in PunchRequests.
Online(id) == mem[id] # NoPeer /\ mem[id].regAge < REG_TIMEOUT

-----------------------------------------------------------------------------
(* RegisterPeer: the heartbeat *)

IpChange(p, ip) == (IF p.sock # Null THEN ip # p.sock ELSE ip # p.ip) /\ ip \notin Loopback

\* The client is asked to send RegisterPk.
RequestPk(p, ip) == p.pk = Null \/ IpChange(p, ip)

Refreshed(p, ip) ==
    [sock |-> ip, regAge |-> 0, guid |-> p.guid, uuid |-> p.uuid, pk |-> p.pk,
     ip |-> p.ip, reqs |-> p.reqs, reqAge |-> p.reqAge]

\* update_addr, when it changes something: otherwise it only answers.
RegisterPeer(id, ip) ==
    /\ io.pc = "idle"
    /\ mem[id] # NoPeer
    /\ ~ RequestPk(mem[id], ip)
    /\ mem' = [mem EXCEPT ![id] = Refreshed(@, ip)]
    /\ UNCHANGED <<db, ipChanges, io, task, history>>

-----------------------------------------------------------------------------
(* RegisterPk, from the end of check_ip_blocker (module IpBlocker) *)

RegisterPk(id, cred, ip) ==
    /\ io.pc = "idle"
    /\ io' = [pc |-> IF mem[id] = NoPeer THEN "query" ELSE "decide", id |-> id,
              uuid |-> cred.uuid, pk |-> cred.pk, ip |-> ip, row |-> NoRow, obj |-> NoPeer]
    /\ UNCHANGED <<mem, db, ipChanges, task, history>>

\* get: db.get_peer.  An error is treated like a missing row.
Answers(id) == {db[id]} \cup IF "get" \in DbFaults THEN {NoRow} ELSE {}

IoQuery ==
    /\ io.pc = "query"
    /\ \E row \in Answers(io.id) : io' = [io EXCEPT !.pc = "install", !.row = row]
    /\ UNCHANGED <<mem, db, ipChanges, task, history>>

\* get puts the row into the map; without one get_or creates a peer, unless
\* another task has filled the entry meanwhile.
IoInstall ==
    /\ io.pc = "install"
    /\ mem' = [mem EXCEPT ![io.id] = IF io.row # NoRow THEN FromRow(io.row)
                                     ELSE IF @ = NoPeer THEN DefaultPeer ELSE @]
    /\ io' = [io EXCEPT !.pc = "decide", !.row = NoRow]
    /\ UNCHANGED <<db, ipChanges, task, history>>

\* The object io_loop works on, and writing it.
IoPeer == IF io.obj = NoPeer THEN mem[io.id] ELSE io.obj

Mut_UuidUnchecked(p) == p.uuid # Null /\ p.ip # io.ip /\ p.pk # io.pk
Mut_IpPkUnchecked(p) == p.uuid # Null /\ p.uuid # io.uuid

Mismatch(p) ==
    /\ p.uuid # Null
    /\ p.uuid # io.uuid \/ (p.ip # io.ip /\ p.pk # io.pk)

Throttled(p) == p.reqAge <= REG_PK_DUR /\ p.reqs > MaxRegPk

\* UUID_MISMATCH or TOO_FREQUENT
IoRefuse ==
    /\ io.pc = "decide"
    /\ Mismatch(IoPeer) \/ Throttled(IoPeer)
    /\ io' = IdleIo
    /\ UNCHANGED <<mem, db, ipChanges, task, history>>

Mut_NewKeyIgnored(p) == p.uuid = Null \/ p.ip # io.ip

Changed(p) == p.uuid = Null \/ p.pk # io.pk \/ p.ip # io.ip

\* The reg_pk counter after a request it lets through.
CountRegPk(p) == IF p.reqAge > REG_PK_DUR THEN 1 ELSE p.reqs + 1

Counted(p) ==
    [sock |-> p.sock, regAge |-> p.regAge, guid |-> p.guid, uuid |-> p.uuid,
     pk |-> p.pk, ip |-> p.ip, reqs |-> CountRegPk(p), reqAge |-> 0]

\* The same, and what the first half of update_pk writes.
Written(p) ==
    [sock |-> io.ip, regAge |-> 0, guid |-> p.guid, uuid |-> io.uuid,
     pk |-> io.pk, ip |-> io.ip, reqs |-> CountRegPk(p), reqAge |-> 0]

\* Only the answer OK is left to send.
ToAnswer == [io EXCEPT !.pc = "answer", !.row = NoRow, !.obj = NoPeer]

\* Nothing to store: count the request.
IoConfirm ==
    /\ io.pc = "decide"
    /\ ~ Mismatch(IoPeer) /\ ~ Throttled(IoPeer) /\ ~ Changed(IoPeer)
    /\ mem' = IF io.obj = NoPeer THEN [mem EXCEPT ![io.id] = Counted(@)] ELSE mem
    /\ io' = ToAnswer
    /\ UNCHANGED <<db, ipChanges, task, history>>

Mut_RestartedWindowEmpty(log) ==
    IF log = NoLog THEN [age |-> 0, ips |-> {io.ip}]
    ELSE IF log.age > IP_CHANGE_DUR THEN [age |-> 0, ips |-> {}]
    ELSE [age |-> log.age, ips |-> log.ips \cup {io.ip}]

LogIpChange(log) ==
    IF log = NoLog THEN [age |-> 0, ips |-> {io.ip}]
    ELSE IF log.age > IP_CHANGE_DUR THEN [age |-> 0, ips |-> {io.ip}]
    ELSE [age |-> log.age, ips |-> log.ips \cup {io.ip}]

\* Count the request, log a change of address, write the object in memory.
IoWrite ==
    /\ io.pc = "decide"
    /\ ~ Mismatch(IoPeer) /\ ~ Throttled(IoPeer) /\ Changed(IoPeer)
    /\ ipChanges' = [ipChanges EXCEPT ![io.id] =
            IF IoPeer.uuid # Null /\ IoPeer.ip # io.ip THEN LogIpChange(@) ELSE @]
    /\ mem' = IF io.obj = NoPeer THEN [mem EXCEPT ![io.id] = Written(@)] ELSE mem
    /\ io' = [io EXCEPT !.pc = "persist", !.obj = IF @ = NoPeer THEN @ ELSE Written(@)]
    /\ UNCHANGED <<db, task, history>>

\* The second half of update_pk: insert_peer, which the unique index on the
\* id may refuse, or database.rs' update_pk, which leaves the uuid alone.
WithGuid(p) ==
    [sock |-> p.sock, regAge |-> p.regAge, guid |-> TRUE, uuid |-> p.uuid,
     pk |-> p.pk, ip |-> p.ip, reqs |-> p.reqs, reqAge |-> p.reqAge]

Stored == unanswered' = [unanswered EXCEPT ![io.id] = io.pk]

IoInsert ==
    /\ io.pc = "persist"
    /\ ~ IoPeer.guid /\ db[io.id] = NoRow
    /\ db' = [db EXCEPT ![io.id] = [uuid |-> io.uuid, pk |-> io.pk, ip |-> io.ip]]
    /\ mem' = IF io.obj = NoPeer THEN [mem EXCEPT ![io.id] = WithGuid(@)] ELSE mem
    /\ io' = ToAnswer
    /\ Stored
    /\ UNCHANGED <<ipChanges, task, owners, lastPk, raced>>

IoUpdate ==
    /\ io.pc = "persist"
    /\ IoPeer.guid /\ db[io.id] # NoRow
    /\ db' = [db EXCEPT ![io.id] = [uuid |-> @.uuid, pk |-> io.pk, ip |-> io.ip]]
    /\ io' = ToAnswer
    /\ Stored
    /\ UNCHANGED <<mem, ipChanges, task, owners, lastPk, raced>>

\* The call fails.  handle_udp drops the SERVER_ERROR and answers OK as well.
PersistFails ==
    IF IoPeer.guid THEN "update" \in DbFaults
    ELSE "insert" \in DbFaults \/ db[io.id] # NoRow

IoPersistError ==
    /\ io.pc = "persist"
    /\ PersistFails
    /\ io' = ToAnswer
    /\ UNCHANGED <<mem, db, ipChanges, task, history>>

\* The answer OK leaves.
IoAnswer ==
    /\ io.pc = "answer"
    /\ owners' = [owners EXCEPT ![io.id] = @ \cup {io.uuid}]
    /\ lastPk' = [lastPk EXCEPT ![io.id] = io.pk]
    /\ unanswered' = [unanswered EXCEPT ![io.id] = Null]
    /\ io' = IdleIo
    /\ UNCHANGED <<mem, db, ipChanges, task, raced>>

\* It cannot be sent: handle_udp returns the error, and run binds a new socket.
IoAnswerLost ==
    /\ io.pc = "answer"
    /\ io' = IdleIo
    /\ UNCHANGED <<mem, db, ipChanges, task, history>>

-----------------------------------------------------------------------------
(* PeerMap::get in a spawned task: handle_punch_hole_request, get_pk.  A   *)
(* hit changes nothing.                                                    *)

TaskGet(t, id) ==
    /\ task[t].pc = "idle"
    /\ mem[id] = NoPeer
    /\ task' = [task EXCEPT ![t] = [pc |-> "query", id |-> id, row |-> NoRow]]
    /\ UNCHANGED <<mem, db, ipChanges, io, history>>

TaskQuery(t) ==
    /\ task[t].pc = "query"
    /\ \E row \in Answers(task[t].id) :
          task' = [task EXCEPT ![t] =
                     IF row = NoRow THEN IdleTask
                     ELSE [pc |-> "install", id |-> task[t].id, row |-> row]]
    /\ UNCHANGED <<mem, db, ipChanges, io, history>>

\* io_loop has taken the entry of this id out of the map and works on it.
IoHolds(id) == io.pc \in {"decide", "persist"} /\ io.id = id /\ io.obj = NoPeer

SameIdentity(p, row) == p.uuid = row.uuid /\ p.pk = row.pk /\ p.ip = row.ip

TaskInstall(t) ==
    LET id == task[t].id
        row == task[t].row
    IN  /\ task[t].pc = "install"
        /\ mem' = [mem EXCEPT ![id] = FromRow(row)]
        /\ io' = IF IoHolds(id) THEN [io EXCEPT !.obj = mem[id]] ELSE io
        /\ task' = [task EXCEPT ![t] = IdleTask]
        /\ raced' = [raced EXCEPT ![id] =
                @ \/ IoHolds(id) \/ (mem[id] # NoPeer /\ ~ SameIdentity(mem[id], row))]
        /\ UNCHANGED <<db, ipChanges, owners, lastPk, unanswered>>

-----------------------------------------------------------------------------
(* The ip-changes (ic) command, restarts and time *)

KeptLogs == [id \in Ids |->
    IF ipChanges[id] # NoLog /\ ipChanges[id].age < 2 * IP_CHANGE_DUR
                             /\ \E i, j \in ipChanges[id].ips : i # j
    THEN ipChanges[id] ELSE NoLog]

ListIpChanges ==
    /\ ipChanges' = KeptLogs
    /\ UNCHANGED <<mem, db, io, task, history>>

RemoveIpChanges(id) ==
    /\ ipChanges' = [KeptLogs EXCEPT ![id] = NoLog]
    /\ UNCHANGED <<mem, db, io, task, history>>

\* The process ends anywhere and is started again, the machine with it or not:
\* only the database is left.
Restart ==
    /\ uptime' \in {uptime} \cup BootUptimes
    /\ mem' = [id \in Ids |-> NoPeer]
    /\ ipChanges' = [id \in Ids |-> NoLog]
    /\ io' = IdleIo
    /\ task' = [t \in Tasks |-> IdleTask]
    /\ UNCHANGED <<db, history>>

Aged(p) ==
    [sock |-> p.sock, regAge |-> Capped(p.regAge + 1, REG_TIMEOUT), guid |-> p.guid,
     uuid |-> p.uuid, pk |-> p.pk, ip |-> p.ip,
     reqs |-> p.reqs, reqAge |-> Capped(p.reqAge + 1, REG_PK_DUR + 1)]

\* Time passes.
Tick ==
    /\ uptime' = Capped(uptime + 1, MAX_UPTIME)
    /\ mem' = [id \in Ids |-> IF mem[id] = NoPeer THEN NoPeer ELSE Aged(mem[id])]
    /\ io' = IF io.obj = NoPeer THEN io ELSE [io EXCEPT !.obj = Aged(io.obj)]
    /\ ipChanges' = [id \in Ids |->
            IF ipChanges[id] = NoLog THEN NoLog
            ELSE [age |-> Capped(ipChanges[id].age + 1, 2 * IP_CHANGE_DUR + 1),
                  ips |-> ipChanges[id].ips]]
    /\ UNCHANGED <<db, task, history>>

Work ==
    \/ \E id \in Ids, ip \in Ips : RegisterPeer(id, ip)
    \/ \E id \in Ids, cred \in Creds, ip \in Ips : RegisterPk(id, cred, ip)
    \/ IoQuery \/ IoInstall \/ IoRefuse \/ IoConfirm \/ IoWrite
    \/ IoInsert \/ IoUpdate \/ IoPersistError \/ IoAnswer \/ IoAnswerLost
    \/ \E t \in Tasks : (\E id \in Ids : TaskGet(t, id)) \/ TaskQuery(t) \/ TaskInstall(t)
    \/ ListIpChanges \/ \E id \in Ids : RemoveIpChanges(id)

Next ==
    /\ UNCHANGED DbFaults
    /\ (Work /\ UNCHANGED uptime) \/ Restart \/ Tick

Spec == Init /\ [][Next]_vars

-----------------------------------------------------------------------------
\* Every uuid an id was confirmed under is the stored one.
OwnersStored == \A id \in Ids : \A u \in owners[id] : db[id] # NoRow /\ db[id].uuid = u

ReliableLookups == DbFaults \cap {"get", "insert"} = {}

(***************************************************************************)
(* As long as no get_peer or insert_peer fails, an id that was confirmed   *)
(* (RegisterPk answered OK) under a uuid is stored under that uuid for     *)
(* ever: no race, restart or failed update lets another machine be         *)
(* confirmed under the id.                                                 *)
(***************************************************************************)
IdentityPinned == ReliableLookups => OwnersStored

(***************************************************************************)
(* A peer that handle_online_request and handle_punch_hole_request take    *)
(* for online has an address to send to and a key, with one exception: a   *)
(* peer made or loaded, and not heard of since, while the clock was        *)
(* younger than the hour get_expired_time wants to go back.                *)
(***************************************************************************)
MadeTooEarly(p) == uptime < EXPIRED_AGE + p.regAge
OnlineHasAddress ==
    \A id \in Ids : Online(id) =>
        \/ mem[id].sock # Null /\ mem[id].pk # Null
        \/ mem[id].sock = Null /\ MadeTooEarly(mem[id])

(***************************************************************************)
(* Whatever fails or races, a key is never held or stored for a machine    *)
(* that did not send it: update_pk writes uuid and key together but stores *)
(* only the key of a known row.                                            *)
(***************************************************************************)
KeysVouched ==
    \A id \in Ids :
        /\ mem[id] # NoPeer /\ mem[id].uuid # Null
                => [uuid |-> mem[id].uuid, pk |-> mem[id].pk] \in Creds
        /\ db[id] # NoRow => [uuid |-> db[id].uuid, pk |-> db[id].pk] \in Creds

(***************************************************************************)
(* The key last confirmed for an id is the stored one, so that it survives *)
(* a restart, unless a later key was stored whose OK was not sent (or a    *)
(* spawned load replaced a newer entry): then it is that later key.  Only  *)
(* where DbFaults = {}: a failed insert or update is answered OK as well.  *)
(***************************************************************************)
LatestKey(id) == IF unanswered[id] = Null THEN lastPk[id] ELSE unanswered[id]
ConfirmedKeyStored ==
    DbFaults = {} => \A id \in Ids : lastPk[id] # Null /\ ~ raced[id] =>
        db[id] # NoRow /\ db[id].pk = LatestKey(id)

(***************************************************************************)
(* Memory and database describe the same peer whenever io_loop is not      *)
(* between its two writes: only a spawned load that replaces a newer entry *)
(* makes hbbs serve anything but the stored peer (DbFaults = {}).          *)
(***************************************************************************)
Agrees(p, row) ==
    IF row = NoRow THEN p.uuid = Null ELSE p.guid /\ SameIdentity(p, row)
MemoryMatchesDb ==
    DbFaults = {} => \A id \in Ids : mem[id] # NoPeer /\ ~ raced[id] =>
        Agrees(mem[id], db[id]) \/ (io.pc = "persist" /\ io.id = id)

(***************************************************************************)
(* A stored peer never changes its key and its address in one step: the    *)
(* ip/pk mismatch test of RegisterPk holds against the row, not only       *)
(* against the entry in memory (DbFaults = {}, no racing load).            *)
(***************************************************************************)
KeyOrAddressKept ==
    [][DbFaults = {} => \A id \in Ids : db[id] # NoRow /\ ~ raced[id] =>
          /\ db'[id] # NoRow
          /\ db'[id].pk = db[id].pk \/ db'[id].ip = db[id].ip]_vars

(***************************************************************************)
(* The IP_CHANGES entry of an id, if there is one, contains the address    *)
(* the id has now: restarting an expired window does not lose the change   *)
(* that restarts it.                                                       *)
(***************************************************************************)
LogIsCurrent ==
    \A id \in Ids : mem[id] # NoPeer /\ ~ raced[id] /\ ipChanges[id] # NoLog
        => mem[id].ip \in ipChanges[id].ips
=============================================================================
