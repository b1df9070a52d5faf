------------------------------- MODULE Dijkstra -------------------------------
(***************************************************************************)
(* The nearest server according to a file of announcements                 *)
(* (bitrate-project/dns/dijkstra.py).  A line of the file is a sender, a   *)
(* sequence number and the sender's neighbours.                            *)
(***************************************************************************)
EXTENDS Integers, Sequences, FiniteSets

\* The file is split into strings, and the numbers are compared as such.
Digits[n \in Nat] == IF n < 10 THEN <<n>> ELSE Append(Digits[n \div 10], n % 10)

StringLess(s, t) ==
  \E k \in 1 .. Len(t) :
    /\ \A i \in 1 .. k - 1 : i <= Len(s) /\ s[i] = t[i]
    /\ k > Len(s) \/ s[k] < t[k]

OlderThan(old, new) == StringLess(Digits[old], Digits[new])

\* The line that counts for a node, among the first n lines: CURRENT_STATUS.
Senders(lines) == {lines[i].sender : i \in DOMAIN lines}

Status(lines) ==
  LET After[n \in 0 .. Len(lines)] ==
        IF n = 0 THEN [s \in Senders(lines) |-> 0]
        ELSE LET new == lines[n]
                 old == After[n - 1][new.sender]
             IN  IF old = 0 THEN [After[n - 1] EXCEPT ![new.sender] = n]
                 ELSE IF OlderThan(lines[old].seqnum, new.seqnum)
                 THEN [After[n - 1] EXCEPT ![new.sender] = n] ELSE After[n - 1]
  IN  [s \in Senders(lines) |-> lines[After[Len(lines)][s]]]

\* NEIGHBORS: what a node announced, or who announced it if it did not.
Mentioned(status) == DOMAIN status \cup UNION {status[s].neighbors : s \in DOMAIN status}

Neighbors_Bug(status) == [n \in DOMAIN status |-> status[n].neighbors]

Neighbors(status) ==
  [n \in Mentioned(status) |->
    IF n \in DOMAIN status THEN status[n].neighbors
    ELSE {s \in DOMAIN status : n \in status[s].neighbors}]

\* A defaultdict has no neighbours for a node nobody mentioned.
NeighborsOf(graph, n) == IF n \in DOMAIN graph THEN graph[n] ELSE {}

-----------------------------------------------------------------------------

SearchFrom(source) == [dist |-> [n \in {source} |-> 0], visited |-> {}, Q |-> {source}]

\* One turn of the main loop: a node of Q with the smallest distance.
Visit(graph, search) ==
  LET dist == search.dist
      u == CHOOSE v \in search.Q : \A w \in search.Q : dist[v] <= dist[w]
      alt == dist[u] + 1
      visited == search.visited \cup {u}
      closer == {v \in NeighborsOf(graph, u) \ visited : v \notin DOMAIN dist \/ alt < dist[v]}
  IN  [dist |-> [v \in DOMAIN dist \cup closer |-> IF v \in closer THEN alt ELSE dist[v]],
       visited |-> visited, Q |-> (search.Q \ {u}) \cup closer]

\* Every node is visited once, so that there are no more turns than nodes.
Distances(graph, source) ==
  LET After[n \in 0 .. Cardinality(DOMAIN graph \cup {source})] ==
        IF n = 0 THEN SearchFrom(source)
        ELSE IF After[n - 1].Q = {} THEN After[n - 1] ELSE Visit(graph, After[n - 1])
  IN  After[Cardinality(DOMAIN graph \cup {source})].dist

\* A defaultdict says -1 of a node the search has not found.
Dist(distances, n) == IF n \in DOMAIN distances THEN distances[n] ELSE -1

\* The first server with the smallest distance.
BestServer(client, servers, lines) ==
  LET distances == Distances(Neighbors(Status(lines)), client)
      Best[i \in 1 .. Len(servers)] ==
        IF i = 1 THEN 1
        ELSE IF Dist(distances, servers[i]) < Dist(distances, servers[Best[i - 1]])
        THEN i ELSE Best[i - 1]
  IN  servers[Best[Len(servers)]]
=============================================================================
