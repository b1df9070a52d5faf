---------------------------- MODULE MCLsaTopology ----------------------------
(***************************************************************************)
(* LsaTopology over small networks.                                        *)
(***************************************************************************)
EXTENDS LsaTopology

CONSTANTS c1, c2, r1, r2, s1, s2

TwoServers == <<s1, s2>>

\* A line of six nodes and a chord that makes a ring of three of them, any of
\* whose links may be missing.
Ring == {{c1, r1}, {r1, s1}, {c1, r2}, {r2, c2}, {c2, s2}, {r1, r2}}

\* Ordered(order, set): the members of set as they come in order.
Ordered(order, set) == SelectSeq(order, LAMBDA n : n \in set)

\* Announced(order, links): every node announces its links.
Announced(order, links) ==
  [n \in Nodes |-> Ordered(order, {m \in Nodes : {m, n} \in links})]

Order == <<c1, c2, r1, r2, s1, s2>>

\* The network does not change.
SteadyNetworks ==
  {[n \in Nodes |-> [s \in 0 .. MaxSeq |-> Announced(Order, links)[n]]] :
     links \in SUBSET Ring}

\* One link goes away, another one comes.
Changing(before, after) ==
  [n \in Nodes |-> [s \in 0 .. MaxSeq |->
     Announced(Order, IF s = 0 THEN before ELSE after)[n]]]

SmallRing == {{c1, r1}, {r1, s1}, {c1, r2}, {r2, s1}}

ChangingNetworks ==
  {Changing(SmallRing \ {l}, SmallRing \ {m}) : l, m \in SmallRing}

Networks == SteadyNetworks \cup ChangingNetworks

\* The link of c1 with r1 goes away.
ClientMoves ==
  LET after == {{c1, r2}, {r2, s1}, {r1, s2}, {c2, r2}}
  IN  {Changing(after \cup {{c1, r1}}, after)}
=============================================================================
