------------------------------ MODULE LsaTopology ------------------------------
(***************************************************************************)
(* The routing table of the name server: the node lists that               *)
(* src/src/dns/parse.c builds from the server file and from link state     *)
(* announcements, and the table that src/src/dns/load_balance.c makes of   *)
(* them with one breadth-first search for every client.                    *)
(*                                                                         *)
(* A list whose nodes are prepended is a sequence, newest first.  An       *)
(* announcement is a node and a sequence number; what it lists is fixed by *)
(* announced.  The LSA file holds announcements in any order, any of them  *)
(* missing or repeated (genlsa.py loses them).                             *)
(***************************************************************************)
EXTENDS Integers, Sequences, FiniteSets

CONSTANTS Nodes,        \* the addresses, and the names of routers
          Routers,      \* names that begin with "r"
          ServerFile,   \* the addresses in the server file
          Topologies,   \* the values announced may have
          MaxSeq,       \* bound: sequence numbers
          MaxLines,     \* bound: lines of the LSA file
          FreshHeap     \* malloc's memory reads as 0

Elements(s) == {s[i] : i \in DOMAIN s}
NoRepeats(s) == \A i, j \in DOMAIN s : s[i] = s[j] => i = j

ASSUME FilesAssumption ==
  /\ IsFiniteSet(Nodes) /\ Routers \subseteq Nodes
  /\ ServerFile \in Seq(Nodes \ Routers) /\ NoRepeats(ServerFile)
ASSUME BoundsAssumption == MaxSeq \in Nat /\ MaxLines \in Nat /\ FreshHeap \in BOOLEAN
Unset == "unset"

ASSUME UnsetAssumption == Unset \notin Nodes
ASSUME TopologiesAssumption ==
  \A t \in Topologies : \A n \in Nodes, s \in 0 .. MaxSeq :
    t[n][s] \in Seq(Nodes \ {n}) /\ NoRepeats(t[n][s])

VARIABLES
  announced, \* what every node announces under every sequence number
  pc,        \* "lines", "build", "bfs", "done", "failed" or "crashed"
  lines,     \* how many lines were read
  nodes,     \* the list nodes
  clients,   \* the list clients
  seq_num,   \* a node's seq_num
  neighbors, \* a node's neighbors, neighbor_num of them
  garbage,   \* nodes whose neighbor_num was never assigned and is not 0
  heard,     \* history: the announcements that were read
  pt,        \* the position of build_routing_table's client in nodes
  routing_table, \* the entries written, the one at cnt being the last
  queue,     \* the nodes between header and tail
  visited    \* the nodes whose visited is 1

parsed == <<nodes, clients, seq_num, neighbors, garbage, heard>>
search == <<queue, visited>>
vars == <<announced, pc, lines, parsed, pt, routing_table, search>>

Reversed(s) == [i \in 1 .. Len(s) |-> s[Len(s) + 1 - i]]

\* The members of set, as a loop through list comes to them.
Kept(list, set) ==
  LET kept[i \in 0 .. Len(list)] ==
        IF i = 0 THEN <<>>
        ELSE IF list[i] \in set THEN Append(kept[i - 1], list[i]) ELSE kept[i - 1]
  IN  kept[Len(list)]

servers == ServerFile

\* The lists after parse_server_file.  Its list servers is turned over at its
\* end, the list nodes is not.
Init == /\ announced \in Topologies
        /\ pc = "lines" /\ lines = 0
        /\ nodes = Reversed(servers) /\ clients = <<>>
        /\ seq_num = [n \in Nodes |-> -1] /\ neighbors = [n \in Nodes |-> <<>>]
        /\ garbage \in IF FreshHeap THEN {{}} ELSE SUBSET Elements(servers)
        /\ heard = {}
        /\ pt = 1 /\ routing_table = <<>> /\ queue = <<>> /\ visited = {}

-----------------------------------------------------------------------------
(* parse_LSA_file                                                          *)

\* add_node_by_ip_with_num, for one node and for a list of them.
Added(list, n) == IF n \in Elements(list) THEN list ELSE <<n>> \o list
AddedAll(list, ns) == Reversed(Kept(ns, Nodes \ Elements(list))) \o list

\* The last line counts, whatever its sequence number.
Newer_Bug(n, s) == TRUE
Newer(n, s) == s > seq_num[n]

\* The node does not become a neighbour of what it announces, or is listed
\* once more each time.
AddReverse_Bug(n, m) == neighbors[n]
AddReverse(n, m) == IF m \in Elements(neighbors[n]) THEN neighbors[n]
                    ELSE Append(neighbors[n], m)

\* neighbors and the reverse neighbours after n announced list.
Linked(n, list) ==
  [m \in Nodes |-> IF m = n THEN list
                   ELSE IF m \in Elements(list) THEN AddReverse(m, n)
                   ELSE neighbors[m]]

\* One line: its node, the node as a client, and, if it is newer than what is
\* known, its neighbours.  add_reverse_neighbor reads neighbor_num, which
\* nobody assigned before the node's own announcement.
ParseLine(n, s) ==
  LET list  == announced[n][s]
      known == Added(nodes, n)
      fresh == (Elements(list) \cup {n}) \ Elements(nodes)
  IN  /\ pc = "lines" /\ lines < MaxLines /\ list # <<>>
      /\ lines' = lines + 1 /\ heard' = heard \cup {<<n, s>>}
      /\ clients' = IF n \in Elements(servers) \cup Routers THEN clients
                    ELSE Added(clients, n)
      /\ IF Newer(n, s)
         THEN /\ nodes' = AddedAll(known, list)
              /\ seq_num' = [seq_num EXCEPT ![n] = s]
              /\ neighbors' = Linked(n, list)
              /\ \E junk \in IF FreshHeap THEN {{}} ELSE SUBSET fresh :
                   /\ garbage' = (garbage \cup junk) \ {n}
                   /\ pc' = IF garbage' \cap Elements(list) = {} THEN pc ELSE "crashed"
         ELSE UNCHANGED <<pc, nodes, seq_num, neighbors, garbage>>
      /\ UNCHANGED <<announced, pt, routing_table, search>>

-----------------------------------------------------------------------------
(* build_routing_table                                                     *)

\* The file ends, or a line has fewer than three words.
EndOfFile ==
  /\ pc = "lines"
  /\ pc' = IF clients = <<>> \/ servers = <<>> THEN "failed" ELSE "build"
  /\ UNCHANGED <<announced, lines, parsed, pt, routing_table, search>>

\* A node gets no entry of its own.
Skipped_Bug(n) == n \in Elements(servers) \/ neighbors[n] = <<>>
Skipped(n) == n \in Elements(servers) \cup Routers
              \/ (neighbors[n] = <<>> /\ n \notin garbage)

\* client_ip is written for every node, cnt counts the entries with a server:
\* a skipped node's is overwritten by the next one.
Written(n) ==
  LET cnt == Cardinality({i \in DOMAIN routing_table : routing_table[i].server_ip # Unset})
  IN  Append(SubSeq(routing_table, 1, cnt), [client_ip |-> n, server_ip |-> Unset])

NextClient ==
  /\ pc = "build" /\ pt <= Len(nodes)
  /\ routing_table' = Written(nodes[pt])
  /\ IF Skipped(nodes[pt])
     THEN /\ pt' = pt + 1 /\ UNCHANGED <<pc, search>>
     ELSE /\ pc' = "bfs" /\ pt' = pt
          /\ queue' = <<nodes[pt]>> /\ visited' = {nodes[pt]}
  /\ UNCHANGED <<announced, lines, parsed>>

TableBuilt == /\ pc = "build" /\ pt > Len(nodes) /\ pc' = "done"
              /\ UNCHANGED <<announced, lines, parsed, pt, routing_table, search>>

\* The search is over: its client has its server.
Found(s) == /\ routing_table' = [routing_table EXCEPT ![Len(routing_table)].server_ip = s]
            /\ pt' = pt + 1 /\ pc' = "build"
            /\ UNCHANGED search

\* The neighbours of n that were not visited, last one first.
Unvisited(n) == Kept(Reversed(neighbors[n]), Nodes \ visited)

\* Nodes are pushed in front, or the first one stays.
Pushed_Bug(ns) == ns \o Tail(queue)
Pushed_Stuck(ns) == queue \o ns
Pushed(ns) == Tail(queue) \o ns

\* The first node of the queue: it ends the search if one of its neighbours is
\* a server, otherwise they are queued.
BfsPop ==
  /\ pc = "bfs" /\ queue # <<>>
  /\ LET next == Unvisited(Head(queue))
         near == Kept(next, Elements(servers))
     IN  CASE Head(queue) \in garbage ->
                pc' = "crashed" /\ UNCHANGED <<pt, routing_table, search>>
           [] Head(queue) \notin garbage /\ near # <<>> -> Found(near[1])
           [] OTHER -> /\ queue' = Pushed(next)
                       /\ visited' = visited \cup Elements(next)
                       /\ UNCHANGED <<pc, pt, routing_table>>
  /\ UNCHANGED <<announced, lines, parsed>>

Default == servers[1]

BfsEmpty == /\ pc = "bfs" /\ queue = <<>> /\ Found(Default)
            /\ UNCHANGED <<announced, lines, parsed>>

Stopped == pc \in {"done", "failed", "crashed"} /\ UNCHANGED vars

Next == \/ \E n \in Nodes, s \in 0 .. MaxSeq : ParseLine(n, s)
        \/ EndOfFile \/ NextClient \/ TableBuilt \/ BfsPop \/ BfsEmpty \/ Stopped

Spec == Init /\ [][Next]_vars

\* The program runs on, and its file ends.
FairSpec == Spec /\ WF_vars(Next)

-----------------------------------------------------------------------------
(* Properties                                                              *)

\* The lists hold every node once, every neighbour is in the list nodes, and
\* every entry belongs to a node.
TypeOK ==
  /\ pc \in {"lines", "build", "bfs", "done", "failed", "crashed"}
  /\ lines \in 0 .. MaxLines /\ heard \subseteq Nodes \X (0 .. MaxSeq)
  /\ nodes \in Seq(Nodes) /\ NoRepeats(nodes)
  /\ clients \in Seq(Elements(nodes)) /\ NoRepeats(clients)
  /\ seq_num \in [Nodes -> -1 .. MaxSeq]
  /\ \A n \in Nodes : neighbors[n] \in Seq(Elements(nodes) \ {n}) /\ NoRepeats(neighbors[n])
  /\ garbage \subseteq Elements(nodes)
  /\ pt \in 1 .. Len(nodes) + 1
  /\ \A e \in Elements(routing_table) :
       e.client_ip \in Elements(nodes) /\ e.server_ip \in Elements(servers) \cup {Unset}
  /\ Elements(queue) \subseteq visited /\ visited \subseteq Elements(nodes)

\* The network does not change, and a link is announced by both its ends.
Steady ==
  \A m, n \in Nodes, s, t \in 0 .. MaxSeq :
    n \in Elements(announced[m][s]) => m \in Elements(announced[n][t])

\* Links(n): what n's neighbours are if the network is steady.
Links(n) == Elements(announced[n][0])

\* Which links are known depends only on which nodes were heard: a node that
\* was heard has all its links, any other those to nodes that were heard.  The
\* order of the announcements, repetitions, and losses play no part in it.
LinksRecovered ==
  Steady => \A n \in Nodes :
    Elements(neighbors[n]) = IF seq_num[n] >= 0 THEN Links(n)
                             ELSE {m \in Links(n) : seq_num[m] >= 0}

\* A node's newest announcement is the one that counts, however late an older
\* one comes: all it lists are neighbours.
NewestCounts ==
  \A n \in Nodes :
    LET seqs == {s \in 0 .. MaxSeq : <<n, s>> \in heard}
    IN  IF seqs = {} THEN seq_num[n] = -1
        ELSE /\ seq_num[n] \in seqs /\ \A s \in seqs : s <= seq_num[n]
             /\ Elements(announced[n][seq_num[n]]) \subseteq Elements(neighbors[n])

\* IsNearest(graph, c, s): s is a server at the least distance from c, or the
\* first one if c reaches none.
IsNearest(graph, c, s) ==
  LET S == Elements(servers)
      within[k \in 0 .. Cardinality(Nodes)] ==
        IF k = 0 THEN {c}
        ELSE LET w == within[k - 1] IN w \cup UNION {graph[n] : n \in w}
      reached == {k \in DOMAIN within : within[k] \cap S # {}}
  IN  IF reached = {} THEN s = servers[1]
      ELSE \E k \in reached : (\A j \in reached : k <= j) /\ s \in within[k]

\* Every client is given a nearest server in the graph that was read, though
\* the search stops at the first server it sees and walks neighbours backwards.
NearestServer ==
  pc = "done" =>
    \A e \in Elements(routing_table) : e.server_ip # Unset =>
      IsNearest([n \in Nodes |-> Elements(neighbors[n])], e.client_ip, e.server_ip)

\* build_routing_table never writes behind the total_num entries it allocated,
\* and there is a node after every client it finished, whose ip it prints.
InBounds == /\ Len(routing_table) <= Len(nodes)
            /\ pc = "bfs" => pt < Len(nodes)

\* Every node but servers, routers and nodes without neighbours has one entry
\* with a server, and no other entry, not the one written last and left, has
\* its address; nobody else has an entry with a server.  On the way there the
\* lists keep their shape and nothing is written out of bounds.
TableComplete ==
  /\ TypeOK /\ InBounds
  /\ pc = "done" =>
      \A n \in Nodes :
        LET own    == {i \in DOMAIN routing_table : routing_table[i].client_ip = n}
            served == {i \in own : routing_table[i].server_ip # Unset}
        IN  IF n \in Elements(nodes) \ (Elements(servers) \cup Routers) /\ neighbors[n] # <<>>
            THEN Cardinality(own) = 1 /\ served = own
            ELSE served = {}

\* Reading, building and every search end, if only with a crash.
Terminates == <>(pc \in {"done", "failed", "crashed"})

\* The links in the newest announcement of an end, and of all ends heard.
Latest(n) == IF seq_num[n] = -1 THEN {} ELSE Elements(announced[n][seq_num[n]])
Claimed == [n \in Nodes |-> Latest(n) \cup {m \in Nodes : n \in Latest(m)}]
Agreed == [n \in Nodes |-> {m \in Claimed[n] : /\ seq_num[n] >= 0 => m \in Latest(n)
                                               /\ seq_num[m] >= 0 => n \in Latest(m)}]

\* "IP of nearest server of this client node": nearest over the links that are
\* announced now, whether the two ends of a link have to agree or not.
NearestNow ==
  pc = "done" =>
    \A e \in Elements(routing_table) : e.server_ip # Unset =>
      \/ IsNearest(Claimed, e.client_ip, e.server_ip)
      \/ IsNearest(Agreed, e.client_ip, e.server_ip)
=============================================================================
