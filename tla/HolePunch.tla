----------------------------- MODULE HolePunch ------------------------------
(***************************************************************************)
(* How hbbs carries the answer of B back to A when A asks over TCP or      *)
(* websocket (handle_listener_inner, handle_tcp, handle_hole_sent,         *)
(* handle_local_addr, send_to_tcp and the table tcp_punch of               *)
(* rendezvous_server.rs).                                                  *)
(*                                                                         *)
(* The task of A's connection moves the writing half of the connection     *)
(* (its sink) into tcp_punch under the address of A, and sends the request *)
(* to B by UDP.  B answers on a connection of its own, naming the address  *)
(* of A; the sink is taken out of tcp_punch, and later written to.  When   *)
(* the task of A ends it removes the entry of its address.  Every access   *)
(* to the table takes its lock for itself.                                 *)
(*                                                                         *)
(* A connection is used once.  Requests and answers by UDP never touch     *)
(* tcp_punch and are left out.                                             *)
(*                                                                         *)
(* Operators named Mut_... are never used: each is a plausible bug in the  *)
(* definition that follows, and shows that a property can fail.            *)
(***************************************************************************)
EXTENDS Naturals, Sequences

CONSTANTS
    Conns,      \* connections of askers
    Addrs,
    AddrOf,     \* the address of each connection; <ip>:0 behind a proxy
    Ws,         \* the connections that are websockets
    None

ASSUME ConstantsAssumption ==
    /\ AddrOf \in [Conns -> Addrs]
    /\ Ws \subseteq Conns
    /\ None \notin Conns

\* A connection that shares its address with no other.
Alone(c) == \A d \in Conns : AddrOf[d] = AddrOf[c] => d = c

Kinds == {"PunchHole", "FetchLocalAddr", "RequestRelay"}

\* An answer: who asked, and who answers, hbbs itself or the peer.
Answers == [asker : Conns, by : {"hbbs", "peer"}]

ByHbbs(c) == [asker |-> c, by |-> "hbbs"]

NoReply == [asker |-> None, by |-> "hbbs"]

VARIABLES
    pc,         \* where the task of a connection is
    sink,       \* where its sink is: with the task, in tcp_punch, taken, or dropped
    tcp_punch,  \* the connection whose sink waits under an address
    signals,    \* what was sent to peers by UDP: the asker, and the kind
    reply,      \* the answer a taken sink was taken for
    got         \* the answers written to a sink

vars == <<pc, sink, tcp_punch, signals, reply, got>>

TypeOK ==
    /\ pc \in [Conns -> {"new", "reading", "punch", "refusing", "relay", "ending", "closed"}]
    /\ sink \in [Conns -> {"own", "parked", "taken", "dropped"}]
    /\ tcp_punch \in [Addrs -> Conns \cup {None}]
    /\ reply \in [Conns -> Answers \cup {NoReply}]
    /\ signals \subseteq [asker : Conns, kind : Kinds]
    /\ got \in [Conns -> Seq(Answers)]

Init ==
    /\ pc = [c \in Conns |-> "new"]
    /\ sink = [c \in Conns |-> "own"]
    /\ tcp_punch = [a \in Addrs |-> None]
    /\ reply = [c \in Conns |-> NoReply]
    /\ signals = {}
    /\ got = [c \in Conns |-> <<>>]

Goto(c, l) == pc' = [pc EXCEPT ![c] = l]

-----------------------------------------------------------------------------
(* The table *)

\* The sinks once the entry of an address is taken out and dropped.
SinksWithout(a) ==
    [c \in Conns |-> IF c = tcp_punch[a] THEN "dropped" ELSE sink[c]]

\* The answers to be written once a sink that waits under a is taken for answer.
RepliesWith(a, answer) ==
    [c \in Conns |-> IF c = tcp_punch[a] THEN answer ELSE reply[c]]

Mut_AnswerKeepsEntry(a, answer) ==
    /\ reply' = RepliesWith(a, answer)
    /\ UNCHANGED <<sink, tcp_punch>>

\* send_to_tcp, send_to_tcp_sync: take the sink that waits under a; the answer
\* is still to be written to it.  Nothing happens if none waits.
SendToTcp(a, answer) ==
    /\ reply' = RepliesWith(a, answer)
    /\ sink' = [c \in Conns |-> IF c = tcp_punch[a] THEN "taken" ELSE sink[c]]
    /\ tcp_punch' = [tcp_punch EXCEPT ![a] = None]

\* send_to_sink: whoever took the sink writes the answer to it and drops it.
Write(c) ==
    /\ reply[c] # NoReply
    /\ got' = [got EXCEPT ![c] = Append(@, reply[c])]
    /\ reply' = [reply EXCEPT ![c] = NoReply]
    /\ sink' = [sink EXCEPT ![c] = "dropped"]
    /\ UNCHANGED <<pc, tcp_punch, signals>>

Mut_ParkByIp(c) ==
    IF sink[c] = "own"
    THEN LET a == CHOOSE x \in Addrs : TRUE
         IN /\ sink' = [SinksWithout(a) EXCEPT ![c] = "parked"]
            /\ tcp_punch' = [tcp_punch EXCEPT ![a] = c]
    ELSE UNCHANGED <<sink, tcp_punch>>

\* The first request on a connection moves its sink to tcp_punch; insert drops
\* a sink that waits under the same address.  Later requests find no sink.
ParkSink(c) ==
    IF sink[c] = "own"
    THEN /\ sink' = [SinksWithout(AddrOf[c]) EXCEPT ![c] = "parked"]
         /\ tcp_punch' = [tcp_punch EXCEPT ![AddrOf[c]] = c]
    ELSE UNCHANGED <<sink, tcp_punch>>

-----------------------------------------------------------------------------
(* The task of A *)

Accept(c) ==
    /\ pc[c] = "new"
    /\ Goto(c, "reading")
    /\ UNCHANGED <<sink, tcp_punch, signals, reply, got>>

\* A PunchHoleRequest or a RequestRelay arrives, which restarts the 30 s of the
\* read; what follows waits for the peer map.
Ask(c, l) ==
    /\ pc[c] = "reading"
    /\ Goto(c, l)
    /\ ParkSink(c)
    /\ UNCHANGED <<signals, reply, got>>

\* handle_punch_hole_request finds B online: PunchHole or, in the same intranet
\* and not for a websocket, FetchLocalAddr goes to B with the address of A.
Forward(c, kind) ==
    /\ pc[c] = "punch"
    /\ kind \in {"PunchHole", "FetchLocalAddr"}
    /\ kind = "FetchLocalAddr" => c \notin Ws
    /\ signals' = signals \cup {[asker |-> c, kind |-> kind]}
    /\ Goto(c, "reading")
    /\ UNCHANGED <<sink, tcp_punch, reply, got>>

Mut_RefuseSilently(c) ==
    /\ pc[c] = "punch"
    /\ Goto(c, "refusing")
    /\ UNCHANGED <<sink, tcp_punch, signals, reply, got>>

\* Wrong key, B unknown or offline: the answer goes to A through tcp_punch.
Refuse(c) ==
    /\ pc[c] = "punch"
    /\ SendToTcp(AddrOf[c], ByHbbs(c))
    /\ Goto(c, "refusing")
    /\ UNCHANGED <<signals, got>>

\* The task writes the refusal itself and reads on when that is done.
Refused(c) ==
    /\ pc[c] = "refusing"
    /\ \A d \in Conns : reply[d] # ByHbbs(c)
    /\ Goto(c, "reading")
    /\ UNCHANGED <<sink, tcp_punch, signals, reply, got>>

\* RequestRelay goes to B if B is in memory, and nowhere otherwise.
ForwardRelay(c) ==
    /\ pc[c] = "relay"
    /\ \/ signals' = signals \cup {[asker |-> c, kind |-> "RequestRelay"]}
       \/ UNCHANGED signals
    /\ Goto(c, "reading")
    /\ UNCHANGED <<sink, tcp_punch, reply, got>>

\* TestNatRequest and RegisterPk are answered on the task's own sink, if it
\* still has it; these, and any other message, end the loop.
OwnAnswer(c) ==
    /\ pc[c] = "reading"
    /\ got' = IF sink[c] = "own" THEN [got EXCEPT ![c] = Append(@, ByHbbs(c))] ELSE got
    /\ Goto(c, "ending")
    /\ UNCHANGED <<sink, tcp_punch, signals, reply>>

\* A closes the connection, or sends nothing for 30 s.
Stop(c) ==
    /\ pc[c] = "reading"
    /\ Goto(c, "ending")
    /\ UNCHANGED <<sink, tcp_punch, signals, reply, got>>

Mut_EndLeavesEntry(c) ==
    /\ pc[c] = "ending"
    /\ Goto(c, "closed")
    /\ UNCHANGED <<sink, tcp_punch, signals, reply, got>>

\* The end of handle_listener_inner: a task without its sink removes the entry
\* of its address, whoever put it there.
End(c) ==
    /\ pc[c] = "ending"
    /\ IF sink[c] = "own"
       THEN sink' = [sink EXCEPT ![c] = "dropped"] /\ UNCHANGED tcp_punch
       ELSE /\ sink' = SinksWithout(AddrOf[c])
            /\ tcp_punch' = [tcp_punch EXCEPT ![AddrOf[c]] = None]
    /\ Goto(c, "closed")
    /\ UNCHANGED <<signals, reply, got>>

-----------------------------------------------------------------------------
(* The answers of B, on a connection of B's own.  What was sent to B by UDP *)
(* may be lost, delayed or doubled, so B answers each any number of times.  *)

Answer(s) ==
    /\ SendToTcp(AddrOf[s.asker], [asker |-> s.asker, by |-> "peer"])
    /\ UNCHANGED <<pc, signals, got>>

HoleSent(s) == s.kind = "PunchHole" /\ Answer(s)

LocalAddr(s) == s.kind = "FetchLocalAddr" /\ Answer(s)

RelayResponse(s) == s.kind \in {"PunchHole", "RequestRelay"} /\ Answer(s)

-----------------------------------------------------------------------------
\* What the task of a connection does without a further request.
Task(c) ==
    \/ \E k \in Kinds : Forward(c, k)
    \/ Refuse(c) \/ Refused(c) \/ ForwardRelay(c) \/ OwnAnswer(c) \/ Stop(c) \/ End(c)

Asks(c) == Ask(c, "punch") \/ Ask(c, "relay")

Next ==
    \/ \E c \in Conns : Accept(c) \/ Asks(c) \/ Task(c) \/ Write(c)
    \/ \E s \in signals : HoleSent(s) \/ LocalAddr(s) \/ RelayResponse(s)

Spec == Init /\ [][Next]_vars

-----------------------------------------------------------------------------
(***************************************************************************)
(* tcp_punch leaks no connection: a sink waits under its own address, once *)
(* and only while its task runs, which will remove it.  Tasks of one       *)
(* address displace and remove each other's entries at any moment.         *)
(***************************************************************************)
SinkOf(c) ==
    /\ sink[c] = "parked" => tcp_punch[AddrOf[c]] = c /\ pc[c] \notin {"new", "closed"}
    /\ pc[c] \in {"punch", "refusing", "relay"} => sink[c] # "own"

EntriesAlive ==
    /\ \A a \in Addrs : tcp_punch[a] # None =>
          AddrOf[tcp_punch[a]] = a /\ sink[tcp_punch[a]] = "parked"
    /\ \A c \in Conns : SinkOf(c)

(***************************************************************************)
(* However often A asks and B answers, through handle_hole_sent,           *)
(* handle_local_addr, RelayResponse or a refusal, at most one answer is    *)
(* written to a connection.                                                *)
(***************************************************************************)
AtMostOneAnswer == \A c \in Conns : Len(got[c]) <= 1

(***************************************************************************)
(* What is written to a connection with an address of its own, the answer  *)
(* of a peer or a refusal, is for its own request, whatever others do that *)
(* share theirs.                                                           *)
(***************************************************************************)
AnswersReachAsker ==
    \A c \in Conns : Alone(c) => \A i \in 1 .. Len(got[c]) : got[c][i].asker = c

(***************************************************************************)
(* "punch hole sent from B, tell A that B is ready to be connected": what  *)
(* the peer of a request answers is told to the connection that asked.     *)
(***************************************************************************)
PeerReachesAsker ==
    \A c \in Conns : \A i \in 1 .. Len(got[c]) :
        got[c][i].by = "peer" => got[c][i].asker = c

(***************************************************************************)
(* An asker with an address of its own that handle_punch_hole_request      *)
(* refuses is not left waiting: when the handler is done the refusal, or   *)
(* an earlier answer, is on its connection or about to be written to it.   *)
(***************************************************************************)
RefusalIsTold ==
    [][\A c \in Conns : pc[c] = "refusing" /\ pc'[c] # "refusing" /\ Alone(c)
                          => got[c] # <<>> \/ sink[c] = "taken"]_vars
=============================================================================
