---------------------------- MODULE RelayPairing ----------------------------
(***************************************************************************)
(* How hbbr pairs relay connections (handle_connection, make_pair,         *)
(* make_pair_ and the tables PEERS and USAGE of relay_server.rs).  Every   *)
(* connection has a task.  The task of the first connection of a uuid      *)
(* parks its stream in PEERS, sleeps, and then drops whatever PEERS holds  *)
(* under the uuid; the task of the second takes the parked stream and      *)
(* relays until either side ends.  The lookup, the parking and the drop    *)
(* take the lock of PEERS separately.                                      *)
(*                                                                         *)
(* A connection c names both a task (pc[c]) and a stream (stream[c]); the  *)
(* name is used again once both are gone.  What happens inside a relay     *)
(* (bytes, limiters, silence) is module RelayTraffic: here a relay reports *)
(* at any time and ends at any time.                                       *)
(*                                                                         *)
(* Operators named Mut_... are never used: each is a plausible bug in the  *)
(* definition that follows, and shows that a property can fail.            *)
(***************************************************************************)
EXTENDS Naturals

CONSTANTS
    Conns,      \* connections alive at one time
    Uuids,      \* uuids of RequestRelay
    Ips,
    Sources,    \* where connections come from: effective address, websocket
    SLEEP,      \* how long a stream stays parked (30 s)
    None

ASSUME ConstantsAssumption ==
    /\ Sources \subseteq [ip : Ips, ws : BOOLEAN]
    /\ SLEEP \in Nat
    /\ None \notin Conns /\ Uuids # {} /\ Sources # {}
    /\ Conns \cap Ips = {}

VARIABLES
    pc,         \* where the task of a connection is
    stream,     \* where its stream is
    uuid,       \* the uuid it asks for
    source,     \* where it comes from
    age,        \* how long its task has slept
    partner,    \* the parked stream its task has taken
    PEERS,      \* the parked stream of each uuid
    USAGE       \* ids of the relays reported

vars == <<pc, stream, uuid, source, age, partner, PEERS, USAGE>>

TypeOK ==
    /\ pc \in [Conns -> {"free", "reading", "park", "sleep", "enter", "relay", "leave"}]
    /\ stream \in [Conns -> {"closed", "own", "parked", "taken"}]
    /\ uuid \in [Conns -> Uuids]
    /\ source \in [Conns -> Sources]
    /\ age \in [Conns -> 0 .. SLEEP]
    /\ partner \in [Conns -> Conns \cup {None}]
    /\ PEERS \in [Uuids -> Conns \cup {None}]
    /\ USAGE \subseteq Conns \cup Ips

Init ==
    /\ pc = [c \in Conns |-> "free"]
    /\ stream = [c \in Conns |-> "closed"]
    /\ uuid = [c \in Conns |-> CHOOSE u \in Uuids : TRUE]
    /\ source = [c \in Conns |-> CHOOSE s \in Sources : TRUE]
    /\ age = [c \in Conns |-> 0]
    /\ partner = [c \in Conns |-> None]
    /\ PEERS = [u \in Uuids |-> None]
    /\ USAGE = {}

-----------------------------------------------------------------------------
(* Connections *)

\* handle_connection lets the connection in.  Behind a proxy a websocket
\* connection takes the address of a header, with port 0.
Accept(c, u, s) ==
    /\ pc[c] = "free" /\ stream[c] = "closed"
    /\ pc' = [pc EXCEPT ![c] = "reading"]
    /\ stream' = [stream EXCEPT ![c] = "own"]
    /\ uuid' = [uuid EXCEPT ![c] = u]
    /\ source' = [source EXCEPT ![c] = s]
    /\ UNCHANGED <<age, partner, PEERS, USAGE>>

\* No request within 30 s, no RequestRelay, a wrong key or no uuid.
Reject(c) ==
    /\ pc[c] = "reading"
    /\ pc' = [pc EXCEPT ![c] = "free"]
    /\ stream' = [stream EXCEPT ![c] = "closed"]
    /\ UNCHANGED <<uuid, source, age, partner, PEERS, USAGE>>

\* PEERS.remove: nobody waits under the uuid.
LookupMiss(c) ==
    /\ pc[c] = "reading"
    /\ PEERS[uuid[c]] = None
    /\ pc' = [pc EXCEPT ![c] = "park"]
    /\ UNCHANGED <<stream, uuid, source, age, partner, PEERS, USAGE>>

Mut_HitLeavesEntry(c) ==
    /\ pc[c] = "reading"
    /\ PEERS[uuid[c]] # None
    /\ pc' = [pc EXCEPT ![c] = "enter"]
    /\ partner' = [partner EXCEPT ![c] = PEERS[uuid[c]]]
    /\ stream' = [stream EXCEPT ![PEERS[uuid[c]]] = "taken"]
    /\ UNCHANGED <<uuid, source, age, PEERS, USAGE>>

\* PEERS.remove: take the stream that waits under the uuid.
LookupHit(c) ==
    /\ pc[c] = "reading"
    /\ PEERS[uuid[c]] # None
    /\ pc' = [pc EXCEPT ![c] = "enter"]
    /\ partner' = [partner EXCEPT ![c] = PEERS[uuid[c]]]
    /\ stream' = [stream EXCEPT ![PEERS[uuid[c]]] = "taken"]
    /\ PEERS' = [PEERS EXCEPT ![uuid[c]] = None]
    /\ UNCHANGED <<uuid, source, age, USAGE>>

\* The streams after the entry of PEERS under u is dropped.
DropEntry(u) ==
    [c \in Conns |-> IF PEERS[u] = c THEN "closed" ELSE stream[c]]

\* PEERS.insert, which drops a stream that was parked since the lookup.
Park(c) ==
    /\ pc[c] = "park"
    /\ pc' = [pc EXCEPT ![c] = "sleep"]
    /\ stream' = [DropEntry(uuid[c]) EXCEPT ![c] = "parked"]
    /\ PEERS' = [PEERS EXCEPT ![uuid[c]] = c]
    /\ age' = [age EXCEPT ![c] = 0]
    /\ UNCHANGED <<uuid, source, partner, USAGE>>

Mut_WakeOnlyIfTaken(c) ==
    /\ pc[c] = "sleep" /\ age[c] = SLEEP /\ stream[c] # "parked"
    /\ pc' = [pc EXCEPT ![c] = "free"]
    /\ age' = [age EXCEPT ![c] = 0]
    /\ UNCHANGED <<stream, uuid, source, partner, PEERS, USAGE>>

Mut_WakeAtOnce(c) ==
    /\ pc[c] = "sleep"
    /\ pc' = [pc EXCEPT ![c] = "free"]
    /\ stream' = DropEntry(uuid[c])
    /\ PEERS' = [PEERS EXCEPT ![uuid[c]] = None]
    /\ age' = [age EXCEPT ![c] = 0]
    /\ UNCHANGED <<uuid, source, partner, USAGE>>

\* The sleep is over: PEERS.remove, whoever is parked under the uuid by now.
Wake(c) ==
    /\ pc[c] = "sleep"
    /\ age[c] = SLEEP
    /\ pc' = [pc EXCEPT ![c] = "free"]
    /\ stream' = DropEntry(uuid[c])
    /\ PEERS' = [PEERS EXCEPT ![uuid[c]] = None]
    /\ age' = [age EXCEPT ![c] = 0]
    /\ UNCHANGED <<uuid, source, partner, USAGE>>

-----------------------------------------------------------------------------
(* Relays *)

\* The key of USAGE, <ip>:<port>.  The port is 0 behind a proxy, so that all
\* relays of one such address share a key.
Mut_UsageByIp(c) == source[c].ip

UsageId(c) == IF source[c].ws THEN source[c].ip ELSE c

EnterRelay(c) ==
    /\ pc[c] = "enter"
    /\ pc' = [pc EXCEPT ![c] = "relay"]
    /\ USAGE' = USAGE \cup {UsageId(c)}
    /\ UNCHANGED <<stream, uuid, source, age, partner, PEERS>>

\* Once a second the relay reports.
Report(c) ==
    /\ pc[c] = "relay"
    /\ USAGE' = USAGE \cup {UsageId(c)}
    /\ UNCHANGED <<pc, stream, uuid, source, age, partner, PEERS>>

\* A side closes, an error, a blocked address or 30 s of silence.
RelayEnd(c) ==
    /\ pc[c] = "relay"
    /\ pc' = [pc EXCEPT ![c] = "leave"]
    /\ UNCHANGED <<stream, uuid, source, age, partner, PEERS, USAGE>>

Mut_LeaveUnreported(c) ==
    /\ pc[c] = "leave"
    /\ pc' = [pc EXCEPT ![c] = "free"]
    /\ stream' = [stream EXCEPT ![c] = "closed", ![partner[c]] = "closed"]
    /\ partner' = [partner EXCEPT ![c] = None]
    /\ UNCHANGED <<uuid, source, age, PEERS, USAGE>>

\* The end of make_pair_: USAGE.remove, and both streams are dropped.
Leave(c) ==
    /\ pc[c] = "leave"
    /\ pc' = [pc EXCEPT ![c] = "free"]
    /\ USAGE' = USAGE \ {UsageId(c)}
    /\ stream' = [stream EXCEPT ![c] = "closed", ![partner[c]] = "closed"]
    /\ partner' = [partner EXCEPT ![c] = None]
    /\ UNCHANGED <<uuid, source, age, PEERS>>

-----------------------------------------------------------------------------
Tick ==
    /\ age' = [c \in Conns |-> IF pc[c] = "sleep" /\ age[c] < SLEEP THEN age[c] + 1 ELSE age[c]]
    /\ UNCHANGED <<pc, stream, uuid, source, partner, PEERS, USAGE>>

Task(c) ==
    \/ Reject(c) \/ LookupMiss(c) \/ LookupHit(c) \/ Park(c) \/ Wake(c)
    \/ EnterRelay(c) \/ Report(c) \/ RelayEnd(c) \/ Leave(c)

Next ==
    \/ \E c \in Conns : (\E u \in Uuids, s \in Sources : Accept(c, u, s)) \/ Task(c)
    \/ Tick

\* Time passes, and tokio runs every task that can run.  Clients owe nothing,
\* so that a relay need not end.
Fairness ==
    /\ WF_vars(Tick)
    /\ \A c \in Conns : WF_vars(Park(c)) /\ WF_vars(Wake(c))

Spec == Init /\ [][Next]_vars /\ Fairness
-----------------------------------------------------------------------------
(***************************************************************************)
(* Where everything is: a stream is in one place, PEERS holds exactly the  *)
(* parked streams, and a relay exactly the stream it took, which asked for *)
(* the same uuid.  This is the inductive invariant behind the refinement.  *)
(***************************************************************************)
PlacesOfTask(c) ==
    /\ pc[c] \in {"reading", "park", "enter", "relay", "leave"} => stream[c] = "own"
    /\ pc[c] = "free" => stream[c] \in {"closed", "taken"}
    /\ pc[c] = "sleep" => stream[c] # "own"
    /\ (pc[c] \in {"enter", "relay", "leave"}) <=> (partner[c] # None)

PlacesOfStream(c) ==
    /\ stream[c] = "parked" => PEERS[uuid[c]] = c
    /\ partner[c] # None => stream[partner[c]] = "taken" /\ uuid[partner[c]] = uuid[c]
    /\ \A d \in Conns : partner[c] # None /\ partner[c] = partner[d] => c = d

(***************************************************************************)
(* A parked stream is dropped in the end: the task that parked it is still *)
(* asleep and has its timer, whatever took, replaced or removed other      *)
(* entries of the uuid.                                                    *)
(***************************************************************************)
ParkedByOwner ==
    \A u \in Uuids : PEERS[u] # None =>
        /\ uuid[PEERS[u]] = u
        /\ stream[PEERS[u]] = "parked" /\ pc[PEERS[u]] = "sleep"

Places == ParkedByOwner /\ \A c \in Conns : PlacesOfTask(c) /\ PlacesOfStream(c)

(***************************************************************************)
(* make_pair_ and its tables implement RelayMatch: PEERS is who waits, and *)
(* a task between lookup and end is a link.                                *)
(***************************************************************************)
LinkOf(c) == [first |-> partner[c], second |-> c, uuid |-> uuid[c]]
Match == INSTANCE RelayMatch WITH
    waiting <- PEERS,
    links <- {LinkOf(c) : c \in {d \in Conns : partner[d] # None}}
RefinesMatch == Match!Spec

(***************************************************************************)
(* In every state of make_pair_ and its tables, no connection is in two    *)
(* relays, or parked and in a relay, or parked twice: no client receives   *)
(* the bytes of another pair.                                              *)
(***************************************************************************)
NoCrossTalk == Match!Exclusive

(***************************************************************************)
(* USAGE never keeps a relay that is over, although relays behind one      *)
(* proxy address share a key and report at any moment of each other's end. *)
(***************************************************************************)
UsageActive ==
    USAGE \subseteq {UsageId(c) : c \in {d \in Conns : pc[d] \in {"relay", "leave"}}}

(***************************************************************************)
(* A relay between plain TCP connections is reported as long as it runs:   *)
(* only relays behind a proxy can remove each other's report.              *)
(***************************************************************************)
TcpRelayReported ==
    \A c \in Conns : pc[c] = "relay" /\ ~ source[c].ws => UsageId(c) \in USAGE

(***************************************************************************)
(* A stream that is parked for less than the 30 s of make_pair_ is dropped *)
(* only if another connection uses the same uuid: an earlier one whose     *)
(* timer is still running, or a simultaneous one that missed it.           *)
(***************************************************************************)
EarlyDropMeansReuse ==
    [][\A c \in Conns :
         stream[c] = "parked" /\ stream'[c] = "closed" /\ age[c] < SLEEP =>
            \E d \in Conns \ {c} : uuid[d] = uuid[c] /\ pc[d] \in {"park", "sleep"}]_vars

(***************************************************************************)
(* No stream stays in PEERS for ever, even if no second connection comes.  *)
(***************************************************************************)
ParkedLeaves ==
    \A u \in Uuids, c \in Conns : PEERS[u] = c ~> PEERS[u] # c

=============================================================================
