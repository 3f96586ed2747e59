---------------------------- MODULE PunchRequests ----------------------------
(***************************************************************************)
(* Who hbbs takes for online, and the punch hole requests it records       *)
(* (handle_online_request, handle_punch_hole_request and PUNCH_REQS in     *)
(* rendezvous_server.rs).                                                  *)
(*                                                                         *)
(* The time since a peer last registered is a count of milliseconds cast   *)
(* to i32, which wraps after 2^31 ms (25 days); peers stay in memory for   *)
(* as long as hbbs runs.  The answer to an OnlineRequest has one bit per   *)
(* peer asked for, the first in the highest bit of the first byte.  A      *)
(* request for an online peer is recorded for the operator, but not again  *)
(* for PUNCH_REQ_DEDUPE_SEC, and only the last entries are searched for an *)
(* earlier one.                                                            *)
(*                                                                         *)
(* Operators named Mut_... are never used: each is a plausible bug in the  *)
(* definition that follows, and shows that a property can fail.            *)
(***************************************************************************)
EXTENDS Integers, Sequences

CONSTANTS
    Ips,            \* who asks
    Ids,            \* for whom
    Requests,       \* the lists of ids that clients ask the status of
    HALF,           \* half the values of the integer type (2^31)
    REG_TIMEOUT,    \* a peer silent for so long is offline (30 s)
    EXPIRED_AGE,    \* the age given to a peer loaded from the database (1 h)
    TAIL,           \* how many entries of the log are searched (30)
    PUNCH_REQ_DEDUPE_SEC,
    MAX_AGE,        \* bound: time since a registration
    MAX_LOG         \* bound: entries of the log

ASSUME ConstantsAssumption ==
    /\ HALF \in Nat /\ REG_TIMEOUT \in 1 .. HALF - 1
    /\ EXPIRED_AGE \in REG_TIMEOUT .. HALF - 1
    /\ TAIL \in Nat /\ PUNCH_REQ_DEDUPE_SEC \in Nat \ {0}
    /\ MAX_AGE \in Nat /\ MAX_LOG \in Nat
    /\ Requests \subseteq Seq(Ids)

VARIABLES
    memory,     \* the peers in memory
    elapsed,    \* the time since each last registered
    PUNCH_REQS, \* the recorded requests, oldest first
    peers,      \* the OnlineRequest answered last, if nothing happened since
    states,     \* the answer: its bytes, each the set of its bits that are 1
    punched     \* the punch hole request forwarded last, if nothing happened since

vars == <<memory, elapsed, PUNCH_REQS, peers, states, punched>>

\* An entry's age stops at PUNCH_REQ_DEDUPE_SEC: nothing looks further back.
Entry == [age : 0 .. PUNCH_REQ_DEDUPE_SEC, from : Ips, to : Ids]

Init ==
    /\ memory = {}
    /\ elapsed = [id \in Ids |-> 0]
    /\ PUNCH_REQS = <<>>
    /\ peers = <<>> /\ states = <<>>
    /\ punched = {}

\* The last answers say nothing of a later time.
Forget == peers' = <<>> /\ states' = <<>> /\ punched' = {}

-----------------------------------------------------------------------------
(* Online status *)

Mut_AsNarrower(ms) == LET m == ms % HALF IN IF 2 * m < HALF THEN m ELSE m - HALF

\* ms as i32
AsI32(ms) == LET m == ms % (2 * HALF) IN IF m < HALF THEN m ELSE m - 2 * HALF

Shown(id) == id \in memory /\ AsI32(elapsed[id]) < REG_TIMEOUT

Mut_LowestBitFirst(i) == i % 8

\* The bit of the peer at position i, counted from 0, within its byte.
BitOf(i) == 7 - (i % 8)

\* The positions of byte b, counted from 1, at which a peer is shown online.
ShownIn(list, b) ==
    {i \in 8 * (b - 1) .. 8 * b - 1 : i < Len(list) /\ Shown(list[i + 1])}

\* A byte is the set of its bits that are 1: |= adds one.
States(list) ==
    [b \in 1 .. (Len(list) + 7) \div 8 |-> {BitOf(i) : i \in ShownIn(list, b)}]

\* Any id may register at any time: update_addr or update_pk sets the time of
\* the last registration.  Which of them does, and for whom, is in PeerRegistry.
RegisterPeer(id) ==
    /\ memory' = memory \cup {id}
    /\ elapsed' = [elapsed EXCEPT ![id] = 0]
    /\ Forget
    /\ UNCHANGED PUNCH_REQS

\* The lookups of one request are taken as one step: the code awaits a lock for
\* each peer, so that the bits may be of slightly different moments, but each
\* is computed from its own peer alone.
OnlineRequest(list) ==
    /\ peers' = list
    /\ states' = States(list)
    /\ punched' = {}
    /\ UNCHANGED <<memory, elapsed, PUNCH_REQS>>

-----------------------------------------------------------------------------
(* Punch hole requests *)

SamePair(i, from, to) == PUNCH_REQS[i].from = from /\ PUNCH_REQS[i].to = to

\* The entries that are searched.
Searched == {i \in 1 .. Len(PUNCH_REQS) : i + TAIL > Len(PUNCH_REQS)}

Mut_OldestDecides(from, to) ==
    \E i \in Searched :
        /\ SamePair(i, from, to)
        /\ \A j \in Searched : SamePair(j, from, to) => j >= i
        /\ PUNCH_REQS[i].age < PUNCH_REQ_DEDUPE_SEC

Mut_AnySearchedIsDup(from, to) == \E i \in Searched : SamePair(i, from, to)

\* The latest entry of the pair among the searched ones decides.
Duplicate(from, to) ==
    \E i \in Searched :
        /\ SamePair(i, from, to)
        /\ \A j \in Searched : SamePair(j, from, to) => j <= i
        /\ PUNCH_REQS[i].age < PUNCH_REQ_DEDUPE_SEC

\* PeerMap::get keeps a peer in memory and loads others with an expired time.
AgeOf(id) == IF id \in memory THEN elapsed[id] ELSE EXPIRED_AGE

Load(id) ==
    /\ memory' = memory \cup {id}
    /\ elapsed' = [elapsed EXCEPT ![id] = AgeOf(id)]

\* The peer's time is up: OFFLINE, and nothing is recorded.
PunchRefused(id) ==
    /\ AsI32(AgeOf(id)) >= REG_TIMEOUT
    /\ Load(id)
    /\ Forget
    /\ UNCHANGED PUNCH_REQS

\* The request is recorded unless it is a duplicate, and forwarded.
PunchForwarded(from, id) ==
    /\ AsI32(AgeOf(id)) < REG_TIMEOUT
    /\ Load(id)
    /\ IF Duplicate(from, id)
       THEN UNCHANGED PUNCH_REQS
       ELSE /\ Len(PUNCH_REQS) < MAX_LOG
            /\ PUNCH_REQS' = Append(PUNCH_REQS, [age |-> 0, from |-> from, to |-> id])
    /\ peers' = <<>> /\ states' = <<>>
    /\ punched' = {<<from, id>>}

\* The command punch-requests -
ClearPunchRequests ==
    /\ PUNCH_REQS' = <<>>
    /\ Forget
    /\ UNCHANGED <<memory, elapsed>>

Older(entry) ==
    [entry EXCEPT !.age = IF @ < PUNCH_REQ_DEDUPE_SEC THEN @ + 1 ELSE @]

Tick ==
    /\ \A id \in memory : elapsed[id] < MAX_AGE
    /\ elapsed' = [id \in Ids |-> IF id \in memory THEN elapsed[id] + 1 ELSE 0]
    /\ PUNCH_REQS' = [i \in DOMAIN PUNCH_REQS |-> Older(PUNCH_REQS[i])]
    /\ Forget
    /\ UNCHANGED memory

Next ==
    \/ \E id \in Ids : RegisterPeer(id) \/ PunchRefused(id)
    \/ \E list \in Requests : OnlineRequest(list)
    \/ \E from \in Ips, id \in Ids : PunchForwarded(from, id)
    \/ ClearPunchRequests
    \/ Tick

Spec == Init /\ [][Next]_vars

-----------------------------------------------------------------------------
\* What a client reads for the peer at position i.
BitSet(i) == 7 - (i % 8) \in states[i \div 8 + 1]

(***************************************************************************)
(* handle_online_request shows every peer that registered within           *)
(* REG_TIMEOUT, at its place in the request.                               *)
(***************************************************************************)
RecentShownOnline ==
    \A i \in 0 .. Len(peers) - 1 :
        peers[i + 1] \in memory /\ elapsed[peers[i + 1]] < REG_TIMEOUT => BitSet(i)

(***************************************************************************)
(* handle_online_request shows no other: a peer not in memory, or silent   *)
(* for REG_TIMEOUT or longer, is shown offline until the milliseconds no   *)
(* longer fit; bits after the last peer are zero.  After 2^31 ms nothing   *)
(* is promised.                                                            *)
(***************************************************************************)
SilentShownOffline ==
    /\ \A i \in 0 .. Len(peers) - 1 :
          LET id == peers[i + 1]
          IN id \notin memory \/ elapsed[id] \in REG_TIMEOUT .. HALF - 1 => ~ BitSet(i)
    /\ \A i \in Len(peers) .. 8 * Len(states) - 1 : ~ BitSet(i)

(***************************************************************************)
(* Two entries of PUNCH_REQS for one pair within PUNCH_REQ_DEDUPE_SEC have *)
(* at least TAIL others between them: the search of the tail suppresses    *)
(* every nearer repetition.                                                *)
(***************************************************************************)
Deduped ==
    \A i, j \in 1 .. Len(PUNCH_REQS) :
        /\ i < j
        /\ SamePair(i, PUNCH_REQS[j].from, PUNCH_REQS[j].to)
        /\ PUNCH_REQS[i].age < PUNCH_REQ_DEDUPE_SEC
        => j > i + TAIL

(***************************************************************************)
(* No forwarded request goes unseen: PUNCH_REQS then has an entry of its   *)
(* pair that is younger than PUNCH_REQ_DEDUPE_SEC.                         *)
(***************************************************************************)
Covered ==
    \A r \in punched : \E i \in 1 .. Len(PUNCH_REQS) :
        SamePair(i, r[1], r[2]) /\ PUNCH_REQS[i].age < PUNCH_REQ_DEDUPE_SEC
=============================================================================
