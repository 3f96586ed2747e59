---------------------------- MODULE RelayServers ----------------------------
(***************************************************************************)
(* Which relay servers hbbs hands out (parse_relay_servers,                *)
(* check_relay_servers, the timer and the Data channel of io_loop, and the *)
(* commands relay-servers and always-use-relay of check_cmd in             *)
(* rendezvous_server.rs).                                                  *)
(*                                                                         *)
(* relay_servers0 is the list that was configured, relay_servers the part  *)
(* of it that answered.  Every 3 s a task probes the configured list and   *)
(* sends what it found back to io_loop, through the channel that also      *)
(* carries new lists from commands.  The result of a check says nothing of *)
(* the list it is about.                                                   *)
(*                                                                         *)
(* Operators named Mut_... are never used: each is a plausible bug in the  *)
(* definition that follows, and shows that a property can fail.            *)
(***************************************************************************)
EXTENDS Naturals, Sequences, FiniteSets, SequencesExt

CONSTANTS
    Servers,        \* host names that commands can give
    Lists,          \* the lists the operator configures
    Word,           \* the argument of always-use-relay
    Checks,         \* bound: checks that run at the same time
    MAX_QUEUE,      \* bound: messages in the channel
    MAX_COMMANDS,   \* bound: commands given
    MAX_FLIPS       \* bound: times a server goes up or down

ASSUME RelayAssumption ==
    /\ Word \in Servers
    /\ Lists \subseteq Seq(Servers)
    /\ MAX_QUEUE \in Nat /\ MAX_COMMANDS \in Nat /\ MAX_FLIPS \in Nat

VARIABLES
    relay_servers0,     \* as configured
    relay_servers,      \* as found by the last check
    ALWAYS_USE_RELAY,
    rx,                 \* the channel to io_loop: messages with a kind and a list
    check,              \* the running checks
    up,                 \* the servers that accept connections
    commands, flips

relayVars == <<relay_servers0, relay_servers, ALWAYS_USE_RELAY, rx, check, up, commands, flips>>

\* A check: the list it is about, the positions not yet probed, and the
\* servers that answered, in the order they did.
Idle == [of |-> <<>>, todo |-> {}, found |-> <<>>, running |-> FALSE]

-----------------------------------------------------------------------------
(* Configured lists *)

\* get_servers: the servers of the list whose names resolve.
GetServers(list, resolved) == SelectSeq(list, LAMBDA s : s \in resolved)

ParseRelayServers(list, resolved) ==
    /\ relay_servers0' = GetServers(list, resolved)
    /\ relay_servers' = relay_servers0'

\* start, with the list of the command line.
RelayInit ==
    /\ \E list \in Lists : relay_servers0 = list /\ relay_servers = list
    /\ ALWAYS_USE_RELAY \in BOOLEAN
    /\ rx = <<>>
    /\ check = [k \in Checks |-> Idle]
    /\ up \in SUBSET (Servers \ {Word})
    /\ commands = 0
    /\ flips = 0

Send(m) == Len(rx) < MAX_QUEUE /\ rx' = Append(rx, m)

\* relay-servers <list>
CmdRelayServers(list) ==
    /\ commands < MAX_COMMANDS
    /\ commands' = commands + 1
    /\ Send([kind |-> "RelayServers0", list |-> list])
    /\ UNCHANGED <<relay_servers0, relay_servers, ALWAYS_USE_RELAY, check, up, flips>>

\* always-use-relay <word>, which sends its argument as a list of servers too.
CmdAlwaysUseRelay(yes) ==
    /\ commands < MAX_COMMANDS
    /\ commands' = commands + 1
    /\ ALWAYS_USE_RELAY' = yes
    /\ Send([kind |-> "RelayServers0", list |-> <<Word>>])
    /\ UNCHANGED <<relay_servers0, relay_servers, check, up, flips>>

-----------------------------------------------------------------------------
(* Checks *)

Mut_CheckListInUse(k) ==
    /\ ~ check[k].running
    /\ Len(relay_servers) > 1
    /\ check' = [check EXCEPT ![k] =
          [of |-> relay_servers, todo |-> 1 .. Len(relay_servers), found |-> <<>>,
           running |-> TRUE]]
    /\ UNCHANGED <<relay_servers0, relay_servers, ALWAYS_USE_RELAY, rx, up, commands, flips>>

\* timer_check_relay: a list of one server is never checked.
StartCheck(k) ==
    /\ ~ check[k].running
    /\ Len(relay_servers0) > 1
    /\ check' = [check EXCEPT ![k] =
          [of |-> relay_servers0, todo |-> 1 .. Len(relay_servers0), found |-> <<>>,
           running |-> TRUE]]
    /\ UNCHANGED <<relay_servers0, relay_servers, ALWAYS_USE_RELAY, rx, up, commands, flips>>

\* One task per server connects to it, and adds it to the result if it answers.
Probe(k, i) ==
    /\ i \in check[k].todo
    /\ LET s == check[k].of[i]
       IN check' = [check EXCEPT ![k].todo = @ \ {i},
                                 ![k].found = IF s \in up THEN Append(@, s) ELSE @]
    /\ UNCHANGED <<relay_servers0, relay_servers, ALWAYS_USE_RELAY, rx, up, commands, flips>>

Mut_SendEmptyResult(k) ==
    /\ check[k].running /\ check[k].todo = {}
    /\ check' = [check EXCEPT ![k] = Idle]
    /\ Send([kind |-> "RelayServers", list |-> check[k].found])
    /\ UNCHANGED <<relay_servers0, relay_servers, ALWAYS_USE_RELAY, up, commands, flips>>

\* All are probed: an empty result is not sent.
EndCheck(k) ==
    /\ check[k].running /\ check[k].todo = {}
    /\ check' = [check EXCEPT ![k] = Idle]
    /\ IF check[k].found # <<>>
       THEN Send([kind |-> "RelayServers", list |-> check[k].found])
       ELSE UNCHANGED rx
    /\ UNCHANGED <<relay_servers0, relay_servers, ALWAYS_USE_RELAY, up, commands, flips>>

\* io_loop takes the next message of the channel.
Receive(resolved) ==
    /\ rx # <<>>
    /\ rx' = Tail(rx)
    /\ IF Head(rx).kind = "RelayServers0"
       THEN ParseRelayServers(Head(rx).list, resolved)
       ELSE relay_servers' = Head(rx).list /\ UNCHANGED relay_servers0
    /\ UNCHANGED <<ALWAYS_USE_RELAY, check, up, commands, flips>>

\* A relay server goes up or down.
Flip(s) ==
    /\ flips < MAX_FLIPS
    /\ flips' = flips + 1
    /\ up' = IF s \in up THEN up \ {s} ELSE up \cup {s}
    /\ UNCHANGED <<relay_servers0, relay_servers, ALWAYS_USE_RELAY, rx, check, commands>>

-----------------------------------------------------------------------------
RelayNext ==
    \/ \E list \in Lists : CmdRelayServers(list)
    \/ \E yes \in BOOLEAN : CmdAlwaysUseRelay(yes)
    \/ \E k \in Checks : StartCheck(k) \/ EndCheck(k) \/ \E i \in check[k].todo : Probe(k, i)
    \/ \E resolved \in SUBSET Servers : Receive(resolved)
    \/ \E s \in Servers \ {Word} : Flip(s)

\* The timer ticks, connecting takes at most 3 s, and io_loop reads its
\* channel.  Operator and servers owe nothing.
RelayFairness ==
    /\ WF_relayVars(\E resolved \in SUBSET Servers : Receive(resolved))
    /\ \A k \in Checks : /\ WF_relayVars(StartCheck(k)) /\ WF_relayVars(EndCheck(k))
                         /\ WF_relayVars(\E i \in check[k].todo : Probe(k, i))

RelaySpec == RelayInit /\ [][RelayNext]_relayVars /\ RelayFairness

-----------------------------------------------------------------------------
(***************************************************************************)
(* A check never takes the last relay server away: as long as one is       *)
(* configured hbbs has one to hand out, even if none answers.              *)
(***************************************************************************)
NeverWithoutRelay == relay_servers0 # <<>> => relay_servers # <<>>

(***************************************************************************)
(* Once commands and servers come to rest, a configured list of two or     *)
(* more servers, of which one answers, settles on exactly the ones that    *)
(* answer: results of checks of earlier lists, and of earlier states of    *)
(* the servers, are overwritten in the end.                                *)
(***************************************************************************)
SettlesOnAnswering ==
    LET answering == ToSet(relay_servers0) \cap up
    IN <>[](Len(relay_servers0) > 1 /\ answering # {} => ToSet(relay_servers) = answering)

(***************************************************************************)
(* The command relay-servers sets the servers: once commands come to rest, *)
(* only servers of the configured list are handed out.                     *)
(***************************************************************************)
HandsOutConfigured == <>[](ToSet(relay_servers) \subseteq ToSet(relay_servers0))
=============================================================================
