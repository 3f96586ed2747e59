------------------------------ MODULE IpBlocker ------------------------------
(***************************************************************************)
(* IP_BLOCKER: the table hbbs consults before it looks at a RegisterPk     *)
(* datagram (check_ip_blocker in rendezvous_server.rs, the map and its     *)
(* durations in peer.rs).  For every source IP it keeps                    *)
(*   - a request counter and the time of the last request it let through,  *)
(*   - the set of ids the IP registered and the time of the last change.   *)
(* Instants are modelled by ages, in seconds, that Tick advances; an age   *)
(* stops one second past the last duration the code compares it with.      *)
(*                                                                         *)
(* Operators named Mut_... are never used: each is a plausible bug in the  *)
(* definition that follows it, and shows that a property can fail.         *)
(***************************************************************************)
EXTENDS Integers, FiniteSets

CONSTANTS
    Ips,            \* source addresses
    Ids,            \* device ids of at least six characters
    IP_BLOCK_DUR,   \* seconds a burst of requests is remembered (60)
    DAY_SECONDS,    \* seconds the set of ids is remembered (86400)
    MaxReqs,        \* the literal 30 of check_ip_blocker
    MaxIds,         \* the literal 300 of check_ip_blocker
    NoEntry         \* no entry for this IP

Entry == [reqs : Nat, reqAge : 0 .. IP_BLOCK_DUR + 1,
          ids : SUBSET Ids, idAge : 0 .. DAY_SECONDS + 1]

ASSUME DurationsAssumption ==
    /\ IP_BLOCK_DUR \in Nat
    /\ DAY_SECONDS \in Nat
    /\ MaxReqs \in Nat
    /\ MaxIds \in Nat
    /\ IsFiniteSet(Ids)

ASSUME NoEntryAssumption == NoEntry \notin Entry

VARIABLES
    ipBlocker,  \* IP_BLOCKER, locked for the whole of each operation
    burst,      \* history: requests let through since the last lull
    lull,       \* history: seconds since the last request let through
    seen        \* history: ids let through since the id window was opened

vars == <<ipBlocker, burst, lull, seen>>

TypeOK ==
    /\ ipBlocker \in [Ips -> Entry \cup {NoEntry}]
    /\ burst \in [Ips -> Nat]
    /\ lull \in [Ips -> 0 .. IP_BLOCK_DUR + 1]
    /\ seen \in [Ips -> SUBSET Ids]

Init ==
    /\ ipBlocker = [ip \in Ips |-> NoEntry]
    /\ burst = [ip \in Ips |-> 0]
    /\ lull = [ip \in Ips |-> IP_BLOCK_DUR + 1]
    /\ seen = [ip \in Ips |-> {}]

-----------------------------------------------------------------------------
(* check_ip_blocker, as a function of the IP's entry and the id asked for. *)

FreshEntry == [reqs |-> 0, reqAge |-> 0, ids |-> {}, idAge |-> 0]

\* The burst is still remembered and already too long.
RateBlocked(e) == e.reqAge <= IP_BLOCK_DUR /\ e.reqs > MaxReqs

\* The day is not over and the IP has used up its ids.
IdsFull(e) == e.idAge <= DAY_SECONDS /\ Cardinality(e.ids) > MaxIds

\* First half: count the request, forgetting a burst that is over.
CountRequest(e) ==
    [reqs |-> IF e.reqAge > IP_BLOCK_DUR THEN 1 ELSE e.reqs + 1,
     reqAge |-> 0, ids |-> e.ids, idAge |-> e.idAge]

\* Second half: remember the id.  is_new is computed before the set is
\* cleared, so a known id is not put back into a set that has expired.
RecordId(e, id) ==
    LET kept == IF e.idAge > DAY_SECONDS THEN {} ELSE e.ids
    IN  [reqs |-> e.reqs, reqAge |-> e.reqAge,
         ids |-> kept \cup ({id} \ e.ids), idAge |-> 0]

Mut_FullStillPasses(e, id) == e = NoEntry \/ ~ RateBlocked(e)

Passes(e, id) ==
    \/ e = NoEntry
    \/ ~ RateBlocked(e) /\ (IdsFull(e) => id \in e.ids)

Mut_RefusalRefreshes(e, id) ==
    IF e = NoEntry THEN FreshEntry
    ELSE IF RateBlocked(e) THEN [e EXCEPT !.reqAge = 0]
    ELSE RecordId(CountRequest(e), id)

\* The entry the call leaves behind, whatever it answers.
AfterCheck(e, id) ==
    IF e = NoEntry THEN FreshEntry
    ELSE IF RateBlocked(e) THEN e
    ELSE IF IdsFull(e) THEN CountRequest(e)
    ELSE RecordId(CountRequest(e), id)

\* The id window starts over: a new entry, or a day since the last change.
OpensWindow(e) == e = NoEntry \/ e.idAge > DAY_SECONDS

CheckIpBlocker(ip, id) ==
    LET ok == Passes(ipBlocker[ip], id)
    IN  /\ ipBlocker' = [ipBlocker EXCEPT ![ip] = AfterCheck(@, id)]
        /\ burst' = [burst EXCEPT ![ip] =
                        IF ~ ok THEN @
                        ELSE IF lull[ip] > IP_BLOCK_DUR THEN 1 ELSE @ + 1]
        /\ lull' = [lull EXCEPT ![ip] = IF ok THEN 0 ELSE @]
        /\ seen' = [seen EXCEPT ![ip] =
                        IF ~ ok THEN @
                        ELSE IF OpensWindow(ipBlocker[ip]) THEN {id}
                        ELSE @ \cup {id}]

-----------------------------------------------------------------------------
(* The ip-blocker (ib) command: every form first drops the entries both of *)
(* whose windows are over; "ib <ip> -" then removes one entry.             *)

Mut_RetainByIdsOnly(e) == e # NoEntry /\ e.idAge <= DAY_SECONDS

Retained(e) == e # NoEntry /\ (e.reqAge <= IP_BLOCK_DUR \/ e.idAge <= DAY_SECONDS)

Purged == [ip \in Ips |-> IF Retained(ipBlocker[ip]) THEN ipBlocker[ip] ELSE NoEntry]

ListIpBlocker ==
    /\ ipBlocker' = Purged
    /\ UNCHANGED <<burst, lull, seen>>

\* The administrator forgives the IP: its history starts again.
RemoveIpBlocker(ip) ==
    /\ ipBlocker' = [Purged EXCEPT ![ip] = NoEntry]
    /\ burst' = [burst EXCEPT ![ip] = 0]
    /\ lull' = [lull EXCEPT ![ip] = IP_BLOCK_DUR + 1]
    /\ seen' = [seen EXCEPT ![ip] = {}]

-----------------------------------------------------------------------------
Older(age, dur) == IF age > dur THEN age ELSE age + 1

Aged(e) == [reqs |-> e.reqs, reqAge |-> Older(e.reqAge, IP_BLOCK_DUR),
            ids |-> e.ids, idAge |-> Older(e.idAge, DAY_SECONDS)]

\* One second passes.
Tick ==
    /\ ipBlocker' = [ip \in Ips |-> IF ipBlocker[ip] = NoEntry THEN NoEntry
                                    ELSE Aged(ipBlocker[ip])]
    /\ lull' = [ip \in Ips |-> Older(lull[ip], IP_BLOCK_DUR)]
    /\ UNCHANGED <<burst, seen>>

Next ==
    \/ \E ip \in Ips, id \in Ids : CheckIpBlocker(ip, id)
    \/ ListIpBlocker
    \/ \E ip \in Ips : RemoveIpBlocker(ip)
    \/ Tick

\* Time never stops: the only fairness the limiter needs.
Spec == Init /\ [][Next]_vars /\ WF_vars(Tick)

-----------------------------------------------------------------------------
(***************************************************************************)
(* However requests, expiries and the clean-up of the ib command           *)
(* interleave, an IP gets at most MaxReqs + 2 requests through             *)
(* check_ip_blocker before a lull longer than IP_BLOCK_DUR: the request    *)
(* that creates the entry is not counted, and the counter is compared      *)
(* before it is incremented.                                               *)
(***************************************************************************)
BurstBounded == \A ip \in Ips : burst[ip] <= MaxReqs + 2

(***************************************************************************)
(* Between two expiries of its id window an IP registers at most           *)
(* MaxIds + 2 different ids through check_ip_blocker: the id that creates  *)
(* the entry, or a known id that finds the window expired, is let through  *)
(* unrecorded, and the size is compared before the id is added.            *)
(***************************************************************************)
DistinctIdsBounded == \A ip \in Ips : Cardinality(seen[ip]) <= MaxIds + 2

RateLimited(ip) == ipBlocker[ip] # NoEntry /\ RateBlocked(ipBlocker[ip])
IdLimited(ip) == ipBlocker[ip] # NoEntry /\ IdsFull(ipBlocker[ip])

(***************************************************************************)
(* Both limits of check_ip_blocker end even if the IP never stops asking:  *)
(* a refusal for the rate leaves the time of the counter alone, and while  *)
(* the set of ids is full, known ids that are let through do not refresh   *)
(* its time.                                                               *)
(***************************************************************************)
LimitsLift ==
    \A ip \in Ips : /\ RateLimited(ip) ~> ~ RateLimited(ip)
                    /\ IdLimited(ip) ~> ~ IdLimited(ip)

(***************************************************************************)
(* The inductive invariant behind the two bounds: the counter dominates    *)
(* the history of the burst as long as the burst lasts, and all but one of *)
(* the ids let through in the window are recorded.                         *)
(***************************************************************************)
BurstCounted(ip) ==
    lull[ip] <= IP_BLOCK_DUR =>
        /\ ipBlocker[ip] # NoEntry
        /\ ipBlocker[ip].reqAge <= lull[ip]
        /\ burst[ip] <= ipBlocker[ip].reqs + 1

IdsRecorded(ip) ==
    ipBlocker[ip] # NoEntry =>
        \E x \in Ids : seen[ip] \subseteq ipBlocker[ip].ids \cup {x}

CountersBounded(ip) ==
    ipBlocker[ip] # NoEntry =>
        /\ ipBlocker[ip].reqs <= MaxReqs + 1
        /\ Cardinality(ipBlocker[ip].ids) <= MaxIds + 1

\* What check_ip_blocker and the ib command keep true of every IP.
Accounting ==
    \A ip \in Ips : BurstCounted(ip) /\ IdsRecorded(ip) /\ CountersBounded(ip)
=============================================================================
