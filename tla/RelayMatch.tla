----------------------------- MODULE RelayMatch -----------------------------
(***************************************************************************)
(* What hbbr promises about relay connections, whatever its tasks and      *)
(* timers do: at most one connection waits per uuid, a connection is       *)
(* linked with the one that waits under its uuid, and no connection is in  *)
(* two places at once.                                                     *)
(***************************************************************************)
CONSTANTS Conns, Uuids, None

VARIABLES
    waiting,    \* the connection waiting under each uuid, or None
    links       \* the linked connections: who waited, who came, under which uuid

vars == <<waiting, links>>

Init == waiting = [u \in Uuids |-> None] /\ links = {}

Linked(c) == \E l \in links : c \in {l.first, l.second}
Waits(c) == \E u \in Uuids : waiting[u] = c

\* A connection begins to wait, displacing one that waits under the uuid.
Wait(c, u) ==
    /\ ~ Linked(c) /\ ~ Waits(c)
    /\ waiting' = [waiting EXCEPT ![u] = c]
    /\ UNCHANGED links

\* A connection is linked with the one that waits under its uuid.
Meet(c, u) ==
    /\ waiting[u] # None
    /\ ~ Linked(c) /\ ~ Waits(c)
    /\ waiting' = [waiting EXCEPT ![u] = None]
    /\ links' = links \cup {[first |-> waiting[u], second |-> c, uuid |-> u]}

Forget(u) ==
    /\ waiting[u] # None
    /\ waiting' = [waiting EXCEPT ![u] = None]
    /\ UNCHANGED links

Part(l) == links' = links \ {l} /\ UNCHANGED waiting

Next ==
    \/ \E c \in Conns, u \in Uuids : Wait(c, u) \/ Meet(c, u)
    \/ \E u \in Uuids : Forget(u)
    \/ \E l \in links : Part(l)

Spec == Init /\ [][Next]_vars

(***************************************************************************)
(* No connection is in two links, or waits while it is linked, or waits    *)
(* under two uuids: no client of hbbr ever receives another pair's bytes.  *)
(***************************************************************************)
Exclusive ==
    /\ \A l, m \in links : {l.first, l.second} \cap {m.first, m.second} # {} => l = m
    /\ \A l \in links : l.first # l.second
    /\ \A c \in Conns : ~ (Linked(c) /\ Waits(c))
    /\ \A u, v \in Uuids : waiting[u] # None /\ waiting[u] = waiting[v] => u = v
=============================================================================
