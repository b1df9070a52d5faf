----------------------------- MODULE RefNameServer -----------------------------
(***************************************************************************)
(* The reference name server (bitrate-project/dns/nameserver, dns_common.py *)
(* and dijkstra.py), the clients that ask it by sendDNSQuery, the network   *)
(* between them, and the generator of the file of announcements             *)
(* (bitrate-project/lsa/genlsa.py), which the server reads anew for every   *)
(* query.                                                                   *)
(***************************************************************************)
EXTENDS DnsCommon, Dijkstra, FiniteSetsExt, SequencesExt

CONSTANTS Clients,      \* processes and threads that ask
          NodeOf,       \* the node a client asks from
          TransId,      \* the number a client's process chose for its messages
          Servers,      \* the server file: nodes
          AddressOf,    \* the four octets of a server
          Names,        \* what is asked for
          Links,        \* the links file: pairs of nodes
          SinkNode, Rounds,   \* arguments of genlsa.py
          MaxQueries,   \* bound: queries of each client
          MaxAnswers    \* bound: datagrams the server answers

ASSUME ServersAssumption ==
  Servers \in Seq({Servers[i] : i \in DOMAIN Servers}) /\ Servers # <<>>

\* The file is a list.
ASSUME LinksAssumption == Links \in Seq({Links[i] : i \in DOMAIN Links})

ASSUME SinkAssumption == \E i \in DOMAIN Links : SinkNode \in {Links[i][1], Links[i][2]}

\* An address has four octets, a number of messages two, and a name is at most
\* 255 octets long.
ASSUME MessagesAssumption ==
  /\ \A i \in DOMAIN Servers : AddressOf[Servers[i]] \in [1 .. 4 -> Octets]
  /\ TransId \in [Clients -> Words]
  /\ \A name \in Names : name \in Seq(Octets) /\ Len(name) <= 255

VARIABLES
  roundRobin,   \* -r
  server,       \* up: not ended by an exception; SERV_CURR; the globals
  client,       \* the sockets and results of the clients
  queries, replies,   \* datagrams under way
  lines,        \* the file of announcements
  gen,          \* the generator: the round, and the search within it
  given         \* history: the answers, with what the file told of the links

rnsVars == <<roundRobin, server, client, queries, replies, lines, gen, given>>

-----------------------------------------------------------------------------
(* genlsa.py *)

\* read_links
NeighborsIn(n) ==
  {Links[i][2] : i \in {j \in DOMAIN Links : Links[j][1] = n}}
    \cup {Links[i][1] : i \in {j \in DOMAIN Links : Links[j][2] = n}}

Nodes == UNION {{Links[i][1], Links[i][2]} : i \in DOMAIN Links}

\* The lists are as in the file, so that a link given twice is in them twice;
\* their order is left out.
ToVisitFirst == SetToSeq(NeighborsIn(SinkNode))

NewRound(round) == [round |-> round, visited |-> {SinkNode}, toVisit |-> ToVisitFirst]

\* The next node of the search announces its neighbours, and is heard or not.
Queued(n) ==
  NeighborsIn(n) \ (gen.visited \cup {n} \cup ToSet(gen.toVisit))

LsaString(n) == [sender |-> n, seqnum |-> gen.round, neighbors |-> NeighborsIn(n)]

Announce(heard) ==
  /\ gen.round < Rounds /\ gen.toVisit # <<>>
  /\ LET n == Head(gen.toVisit)
     IN  /\ gen' = [gen EXCEPT !.visited = @ \cup {n},
                               !.toVisit = Tail(@) \o SetToSeq(Queued(n))]
         /\ lines' = IF heard THEN Append(lines, LsaString(n)) ELSE lines
  /\ UNCHANGED <<roundRobin, server, client, queries, replies, given>>

NextRound ==
  /\ gen.round < Rounds /\ gen.toVisit = <<>>
  /\ gen' = NewRound(gen.round + 1)
  /\ UNCHANGED <<roundRobin, server, client, queries, replies, lines, given>>

-----------------------------------------------------------------------------

NoAnswer == [none |-> TRUE]

Idle == [waits |-> 0, asked |-> 0, name |-> <<>>, answer |-> NoAnswer]

Init ==
  /\ roundRobin \in BOOLEAN
  /\ server = [up |-> TRUE, curr |-> 0, globals |-> Fresh(0)]
  /\ client = [c \in Clients |-> Idle]
  /\ queries = {} /\ replies = {}
  /\ lines = <<>> /\ gen = NewRound(0)
  /\ given = <<>>

-----------------------------------------------------------------------------
(* sendDNSQuery *)

Waiting(c) == client[c].waits > 0

\* Every query has a socket of its own, which the number stands for.
Socket(c) == <<c, client[c].asked>>

IsOpen(socket) == socket = Socket(socket[1]) /\ Waiting(socket[1])

\* Twice a second, before the client gives up.
Selects == 2

Ask(c, name) ==
  /\ ~Waiting(c) /\ client[c].asked < MaxQueries[c]
  /\ client' = [client EXCEPT ![c] = [waits |-> Selects, asked |-> @.asked + 1, name |-> name,
                                      answer |-> NoAnswer]]
  /\ queries' = queries \cup {[from |-> Socket(c)', data |-> GenQuery(Fresh(TransId[c]), name)]}
  /\ UNCHANGED <<roundRobin, server, replies, lines, gen, given>>

\* What comes to a socket that is closed is lost.
RepliesTo(c) == {reply \in replies : reply.to = Socket(c)}

\* The first datagram is the answer.
Get(c) ==
  /\ Waiting(c)
  /\ \E reply \in RepliesTo(c) :
       client' = [client EXCEPT ![c].waits = 0, ![c].answer = ParseMessage(reply.data, FALSE)]
  /\ replies' = replies \ RepliesTo(c)
  /\ UNCHANGED <<roundRobin, server, queries, lines, gen, given>>

TimedOut_Bug(c) == client' = client /\ UNCHANGED replies
TimedOut(c) ==
  /\ client' = [client EXCEPT ![c].waits = @ - 1]
  /\ replies' = IF client[c].waits = 1 THEN replies \ RepliesTo(c) ELSE replies

TimeOut(c) ==
  /\ Waiting(c) /\ TimedOut(c)
  /\ UNCHANGED <<roundRobin, server, queries, lines, gen, given>>

-----------------------------------------------------------------------------
(* The loop of nameserver *)

\* Of every link, one end has been heard.
Covered ==
  LET heard == {lines[i].sender : i \in DOMAIN lines}
  IN  \A i \in DOMAIN Links : {Links[i][1], Links[i][2]} \cap heard # {}

NextCurr_Bug == (server.curr + 1) % (Len(Servers) - 1)
NextCurr == (server.curr + 1) % Len(Servers)

Chosen(c) ==
  IF roundRobin THEN Servers[server.curr + 1] ELSE BestServer(NodeOf[c], Servers, lines)

Serve ==
  /\ server.up /\ Len(given) < MaxAnswers
  /\ \E query \in queries :
       LET message == ParseMessage(query.data, TRUE)
           globals == GenFlags([server.globals EXCEPT !.transId = message.transId], FALSE)
           best == Chosen(query.from[1])
       IN  /\ queries' = queries \ {query}
           /\ message # Raised
           /\ server' = [server EXCEPT !.globals = globals,
                                       !.curr = IF roundRobin THEN NextCurr ELSE @]
           /\ replies' = IF ~IsOpen(query.from) THEN replies ELSE replies \cup
                {[to |-> query.from, data |-> GenResponse(globals, message.name, AddressOf[best])]}
           /\ given' = Append(given, [client |-> query.from[1], server |-> best, covered |-> Covered])
  /\ UNCHANGED <<roundRobin, client, lines, gen>>

\* An exception ends the program.
ServeRaises ==
  /\ server.up
  /\ \E query \in queries :
       ParseMessage(query.data, TRUE) = Raised /\ queries' = queries \ {query}
  /\ server' = [server EXCEPT !.up = FALSE]
  /\ UNCHANGED <<roundRobin, client, replies, lines, gen, given>>

-----------------------------------------------------------------------------
(* The network.  A datagram that is lost is one that nobody ever takes.     *)

\* Something else sends the server a header and nothing behind it.
Stray ==
  /\ queries = {} /\ server.up
  /\ \E c \in Clients :
       queries' = {[from |-> <<c, 0>>, data |-> Header(Fresh(TransId[c]))]}
  /\ UNCHANGED <<roundRobin, server, client, replies, lines, gen, given>>

Generate == ~roundRobin /\ (NextRound \/ \E heard \in BOOLEAN : Announce(heard))

Next ==
  \/ \E c \in Clients : Get(c) \/ TimeOut(c) \/ \E name \in Names : Ask(c, name)
  \/ Serve \/ ServeRaises \/ Stray \/ Generate

Spec == Init /\ [][Next]_rnsVars

\* Time passes for a client that waits.
FairSpec == Spec /\ \A c \in Clients : WF_rnsVars(TimeOut(c))

-----------------------------------------------------------------------------
(* Properties *)

Answered(c) == client[c].answer # NoAnswer

\* An answer to a well-formed name is what test_dns_simple expects, and names a
\* server, whatever was lost, repeated or late before.
Understood ==
  \A c \in Clients :
    Answered(c) /\ WellFormed(client[c].name) =>
      /\ client[c].answer # Raised
      /\ Expected(client[c].answer, TransId[c], client[c].name)
      /\ \E i \in DOMAIN Servers : client[c].answer.record.address = AddressOf[Servers[i]]

\* With -r the answers, to whomever, go round: RoundRobin, which is what
\* test_dns_rr expects of a client that is alone.
ServersGiven == IF roundRobin THEN [i \in DOMAIN given |-> given[i].server] ELSE <<>>

Abstract == INSTANCE RoundRobin WITH answers <- ServersGiven

ImplementsRoundRobin == Abstract!Spec

\* The distance of two nodes by the links themselves.
HopsApart(m, n) ==
  LET Within[k \in 0 .. Cardinality(Nodes)] ==
        IF k = 0 THEN {m} ELSE Within[k - 1] \cup UNION {NeighborsIn(x) : x \in Within[k - 1]}
  IN  Min({k \in 0 .. Cardinality(Nodes) : n \in Within[k]})

\* As soon as one end of every link was heard, in whatever round, with whatever
\* losses, a client is sent to a server than which none is nearer.
NearestKnown ==
  ~roundRobin /\ given # <<>> /\ Last(given).covered =>
    \A i \in DOMAIN Servers :
      HopsApart(NodeOf[Last(given).client], Last(given).server)
        <= HopsApart(NodeOf[Last(given).client], Servers[i])

\* No query waits for ever, the server's end included.
QueryEnds == \A c \in Clients : Waiting(c) ~> ~Waiting(c)
=============================================================================
