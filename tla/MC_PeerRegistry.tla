-------------------------- MODULE MC_PeerRegistry --------------------------
(***************************************************************************)
(* One id that two machines claim, one of which also changes its key; an   *)
(* address and the loopback address; every window at its smallest.  One    *)
(* spawned task races io_loop.  No query fails, updates may, or any may.   *)
(* Instant counts from the machine's boot.                                 *)
(***************************************************************************)
EXTENDS PeerRegistry, TLC
CONSTANTS d, u1, u2, k1, k2, k3, a, lo, t1
MCIds == {d}
MCUuids == {u1, u2}
MCPks == {k1, k2, k3}
MCCreds == {[uuid |-> u1, pk |-> k1], [uuid |-> u1, pk |-> k2], [uuid |-> u2, pk |-> k3]}
MCIps == {a, lo}
MCLoopback == {lo}
OneTask == {t1}
KeysOfOne == Permutations({k1, k2})
EveryModel == {{}, {"update"}, {"get", "insert", "update"}}
SinceBoot == {0}
=============================================================================
