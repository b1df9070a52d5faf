------------------------------ MODULE NameServer ------------------------------
(***************************************************************************)
(* The name server (src/src/dns/nameserver.c) between the resolvers of the *)
(* proxies (resolve, src/src/mydns.c), over UDP: datagrams are lost,       *)
(* duplicated and reordered.  A message is what the code reads of it: the  *)
(* address it came from and whether dns_parse_request accepts it; the      *)
(* number of the query is the model's, the code's dns_id is always 5.      *)
(***************************************************************************)
EXTENDS Integers, Sequences, FiniteSets

CONSTANTS Clients,      \* addresses the proxies resolve from
          Servers,      \* the server file, without duplicates
          Table,        \* the routing table of a complete topology
          IsRoundRobin, \* config.is_round_robin: -r
          FilesReadable, \* both files exist and every line can be scanned
          Losing, Duplicating, \* what the network does
          MalformedSent, \* datagrams come that are no queries
          MaxQueries,   \* bound: queries of a client
          MaxAnswers    \* bound: datagrams the server receives

Addresses == {Servers[i] : i \in DOMAIN Servers}

ASSUME ServersAssumption ==
  /\ Servers \in Seq(Addresses) /\ Servers # <<>>
  /\ \A i, j \in DOMAIN Servers : Servers[i] = Servers[j] => i = j
ASSUME TableAssumption ==
  Table \in UNION {[S -> Addresses] : S \in SUBSET Clients}
ASSUME FlagsAssumption ==
  {IsRoundRobin, FilesReadable, Losing, Duplicating, MalformedSent} \subseteq BOOLEAN
ASSUME BoundsAssumption == MaxQueries \in Nat /\ MaxAnswers \in Nat

VARIABLES
  pc,        \* "start", "run", or at an end: "exit", "crashed", "overrun"
  files,     \* which files were read: fields servers and lsa
  routing_table, \* what build_routing_table made of them
  round_robin_pt, \* the position in Servers, 0 for NULL
  requests,  \* datagrams on the way to the server
  responses, \* datagrams on the way back
  answers,   \* every answer sent: its request and its server_ip
  asked,     \* the number of a client's last query
  waiting,   \* whether a client is in resolve's recvfrom
  resolved   \* what a client's resolves returned

server == <<pc, files, routing_table, round_robin_pt, answers>>
clients == <<asked, waiting, resolved>>
vars == <<server, clients, requests, responses>>

Init == /\ pc = "start" /\ files = [servers |-> FALSE, lsa |-> FALSE]
        /\ routing_table = <<>> /\ round_robin_pt = 0
        /\ requests = {} /\ responses = {} /\ answers = <<>>
        /\ asked = [c \in Clients |-> 0] /\ waiting = [c \in Clients |-> FALSE]
        /\ resolved = [c \in Clients |-> <<>>]

-----------------------------------------------------------------------------
(* nameserver_run, up to its loop.                                         *)

\* The walk over the nodes ends behind the first client.
TableOf_Bug(read, known) ==
  IF read.servers /\ known # {} THEN [c \in {CHOOSE x \in known : TRUE} |-> Table[c]] ELSE <<>>

\* The entries build_routing_table makes: none without servers or topology.
TableOf(read, known) ==
  IF read.servers /\ known # {} THEN [c \in known |-> Table[c]] ELSE <<>>

\* The three results are added: -1 from a file that is missing or malformed,
\* 1 from a table that cannot be built.  They may cancel out.
StartResult(read, known) ==
  (IF read.servers THEN 0 ELSE -1) + (IF read.lsa THEN 0 ELSE -1)
  + (IF read.servers /\ known # {} THEN 0 ELSE 1)

\* An LSA file that is malformed has been read up to a line: some clients are
\* known.
Start ==
  /\ pc = "start"
  /\ \E read \in [servers : BOOLEAN, lsa : BOOLEAN], known \in SUBSET DOMAIN Table :
       /\ FilesReadable => read.servers /\ read.lsa
       /\ read.lsa => known = DOMAIN Table
       /\ files' = read
       /\ routing_table' = TableOf(read, known)
       /\ round_robin_pt' = IF read.servers THEN 1 ELSE 0
       /\ pc' = IF StartResult(read, known) > 0 THEN "exit" ELSE "run"
  /\ UNCHANGED <<requests, responses, answers, clients>>

-----------------------------------------------------------------------------
(* The loop of nameserver_run.                                             *)

\* The wrap at the end of the list comes too early.
NextServer_Early == IF round_robin_pt + 1 = Len(Servers) THEN 1 ELSE round_robin_pt + 1
NextServer == IF round_robin_pt = Len(Servers) THEN 1 ELSE round_robin_pt + 1

\* The servers the lookup of an address may end with; the bug compares a prefix
\* of the addresses only.  An address without an entry leaves server_ip without
\* a value: what it points at is anything.
Lookup_Bug(from) == Addresses
Lookup(from) == IF from \in DOMAIN routing_table
                THEN {routing_table[from]} ELSE Addresses

ServerIps(from) == IF IsRoundRobin THEN {Servers[round_robin_pt]} ELSE Lookup(from)

\* There is no list to take a server from, or no value in server_ip.
MayCrash(from) == IF IsRoundRobin THEN round_robin_pt = 0
                  ELSE from \notin DOMAIN routing_table

\* The ends of a server that runs: what it looks up is not there, or parse_name
\* wrote a name that is no query's over more than qname.
Broken == {"crashed", "overrun"}

\* A datagram that was duplicated is received again.
Consumed(m) == \/ requests' = requests \ {m}
               \/ Duplicating /\ requests' = requests

\* The response goes to whoever has sent the most queries.
ReplyTo_Bug(m) == CHOOSE c \in Clients : \A d \in Clients : asked[c] >= asked[d]
ReplyTo(m) == m.from

\* One datagram, from recvfrom to sendto.  A datagram that dns_parse_request
\* refuses is answered like any other, for its result is kept in retval2 and
\* retval is tested; but its name was copied without a bound.
Answer(m) ==
  /\ pc = "run" /\ m \in requests /\ Len(answers) < MaxAnswers
  /\ Consumed(m)
  /\ \/ /\ \/ MayCrash(m.from) /\ pc' = "crashed"
           \/ ~m.valid /\ pc' = "overrun"
        /\ UNCHANGED <<round_robin_pt, responses, answers>>
     \/ /\ IsRoundRobin => round_robin_pt # 0
        /\ pc' = pc
        /\ \E ip \in ServerIps(m.from) :
             /\ answers' = Append(answers, [query |-> m, server_ip |-> ip])
             /\ responses' = responses \cup
                  {[to |-> ReplyTo(m), query |-> m, server_ip |-> ip, at |-> Len(answers) + 1]}
        /\ round_robin_pt' = IF IsRoundRobin THEN NextServer ELSE round_robin_pt
  /\ UNCHANGED <<files, routing_table, clients>>

-----------------------------------------------------------------------------
(* resolve, in the proxies.                                                *)

\* resolve sends its query and blocks in recvfrom.
Resolve(c) ==
  /\ ~waiting[c] /\ asked[c] < MaxQueries
  /\ waiting' = [waiting EXCEPT ![c] = TRUE]
  /\ asked' = [asked EXCEPT ![c] = @ + 1]
  /\ requests' = requests \cup {[from |-> c, number |-> asked[c] + 1, valid |-> TRUE]}
  /\ UNCHANGED <<server, responses, resolved>>

\* The first datagram that arrives at the resolver's socket is the answer: its
\* id is not looked at.  Other programs have sockets of their own.
Accepts(c, r) == r.to = c /\ r.query.valid

Return(c, r) ==
  /\ waiting[c] /\ r \in responses /\ Accepts(c, r)
  /\ waiting' = [waiting EXCEPT ![c] = FALSE]
  /\ resolved' = [resolved EXCEPT ![c] = Append(@, r)]
  /\ responses' = responses \ {r}
  /\ UNCHANGED <<server, requests, asked>>

-----------------------------------------------------------------------------
(* The network, and other programs at the clients' addresses.              *)

Lose == /\ Losing
        /\ \/ \E m \in requests : requests' = requests \ {m} /\ UNCHANGED responses
           \/ \E r \in responses : responses' = responses \ {r} /\ UNCHANGED requests
        /\ UNCHANGED <<server, clients>>

\* A datagram that is no query (bound: one at a time, and one is answered, with
\* its duplicates).
Malformed(c) ==
  /\ MalformedSent
  /\ LET m == [from |-> c, number |-> 0, valid |-> FALSE]
     IN  /\ \A n \in requests \cup {answers[i].query : i \in DOMAIN answers} : n.valid
         /\ requests' = requests \cup {m}
  /\ UNCHANGED <<server, responses, clients>>

AnswerAny == \E m \in requests : Answer(m)
ReturnAny == \E c \in Clients : \E r \in responses : Return(c, r)

Next == \/ Start \/ AnswerAny \/ ReturnAny \/ Lose
        \/ \E c \in Clients : Resolve(c) \/ Malformed(c)

Spec == Init /\ [][Next]_vars

\* select reports a datagram that has come, and a resolver that is woken runs.
FairSpec == Spec /\ WF_vars(Start) /\ WF_vars(AnswerAny) /\ WF_vars(ReturnAny)

-----------------------------------------------------------------------------
(* Properties                                                              *)

Query == [from : Clients, number : 0 .. MaxQueries, valid : BOOLEAN]

Response == [to : Clients, query : Query, server_ip : Addresses, at : Nat]

\* The shape of the state; round_robin_pt points into the list or is NULL.
TypeOK ==
  /\ pc \in {"start", "run", "exit"} \cup Broken
  /\ files \in [servers : BOOLEAN, lsa : BOOLEAN]
  /\ \A c \in DOMAIN routing_table :    \* a part of Table
       c \in DOMAIN Table /\ routing_table[c] = Table[c]
  /\ round_robin_pt \in 0 .. Len(Servers)
  /\ requests \subseteq Query /\ responses \subseteq Response
  /\ answers \in Seq([query : Query, server_ip : Addresses])
  /\ asked \in [Clients -> 0 .. MaxQueries] /\ waiting \in [Clients -> BOOLEAN]
  /\ resolved \in [Clients -> Seq(Response)]

Given == [i \in 1 .. Len(answers) |-> answers[i].server_ip]
Abstract == INSTANCE RoundRobin WITH answers <- Given

\* With -r the answers go round through the server file, whoever asks, whatever
\* the network does and however the files were read.
ImplementsRoundRobin == Abstract!Spec

\* Without -r a client that has an entry is sent to the server of that entry,
\* whatever server_ip held before and whoever asked in between.
OwnServer ==
  ~IsRoundRobin => \A c \in DOMAIN routing_table : \A i \in 1 .. Len(resolved[c]) :
                     resolved[c][i].server_ip = Table[c]

\* The server survives every query of a resolver: it crashes only if there was no
\* server file, or, without -r, if a file was not read or a client is not in the
\* topology; anything else that stops it was a datagram that is no query.
Survives ==
  /\ pc = "crashed" => \/ ~files.servers
                       \/ ~IsRoundRobin /\ (~files.lsa \/ DOMAIN Table # Clients)
  /\ pc = "overrun" => MalformedSent

\* The n-th resolve of a client returns the answer to its n-th query, though no
\* id is compared: a resolver that waits for ever for what was lost cannot take
\* an old answer for a new one, unless a datagram is duplicated.
FreshAnswer ==
  ~Duplicating => \A c \in Clients : \A n \in 1 .. Len(resolved[c]) :
                    resolved[c][n].query = [from |-> c, number |-> n, valid |-> TRUE]

\* No datagram of a client's query is left: the network lost one.
Lost(c) == \A m \in requests \cup {r.query : r \in responses} : m.from # c \/ ~m.valid

\* resolve returns, unless the network loses its query or the answer, or there
\* is no server.
Resolved == \A c \in Clients :
  waiting[c] ~> ~waiting[c] \/ Lost(c) \/ pc \in {"exit"} \cup Broken

=============================================================================
