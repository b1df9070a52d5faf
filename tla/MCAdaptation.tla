----------------------------- MODULE MCAdaptation -----------------------------
(***************************************************************************)
(* Adaptation with two connections and browsers at two addresses, neither  *)
(* of which is a part of the other, that play one video.                    *)
(***************************************************************************)
EXTENDS Adaptation, TLC

CONSTANTS c1, c2, ip1, ip2, v1

\* Addresses that only contain themselves.
Unrelated == {<<ip, ip>> : ip \in Ips}

\* The bitrates are out of order, one element has none, one is repeated.
Manifests == [v \in Videos |-> <<4, NoBitrate, 2, 8, 4>>]

\* A rate of 20, and a chunk that came within a millisecond.
FastOrInstant == {<<5, 2>>, <<1, 0>>}

\* Unrelated addresses, and connections, can be swapped in an invariant's run.
Swaps == Permutations({c1, c2}) \cup Permutations({ip1, ip2})
=============================================================================
