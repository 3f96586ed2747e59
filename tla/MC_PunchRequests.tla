-------------------------- MODULE MC_PunchRequests --------------------------
(***************************************************************************)
(* Two peers, two askers, and status requests at the edges of the bytes:   *)
(* empty, one peer, a full byte and one more.  HALF is small enough for    *)
(* the time to wrap and come round; the tail of two entries is shorter     *)
(* than the number of pairs and than the log, so that an earlier entry can *)
(* be out of reach.                                                        *)
(***************************************************************************)
EXTENDS PunchRequests

CONSTANTS p, q

\* n peers, all p but the one at position i
OneOther(n, i) == [j \in 1 .. n |-> IF j = i THEN q ELSE p]

ClientRequests ==
    {<<>>, <<q>>, <<p, q>>, OneOther(8, 8), OneOther(9, 1), OneOther(9, 9)}
=============================================================================
