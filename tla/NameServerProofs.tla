-------------------------- MODULE NameServerProofs --------------------------
(***************************************************************************)
(* Proofs about NameServer, for every number of clients, servers and       *)
(* queries, every table and every behaviour of the network.                *)
(***************************************************************************)
EXTENDS NameServer, TLAPS

USE DEF Addresses, Broken

(***************************************************************************)
(* Type correctness.                                                       *)
(***************************************************************************)

\* The server list is not empty.
LEMMA ServersFacts ==
  /\ Len(Servers) \in Nat /\ Len(Servers) > 0
  /\ \A i \in 1 .. Len(Servers) : Servers[i] \in Addresses
BY ServersAssumption

\* The routing table maps clients to addresses.
LEMMA TableFacts == \A c \in DOMAIN Table : c \in Clients /\ Table[c] \in Addresses
BY TableAssumption

\* The type invariant holds at first.
LEMMA TypeInit == Init => TypeOK
BY BoundsAssumption, ServersFacts DEF Init, TypeOK

\* Reading the files keeps the types.
LEMMA TypeStart == TypeOK /\ Start => TypeOK'
<1> SUFFICES ASSUME TypeOK, Start PROVE TypeOK'
  OBVIOUS
<1> PICK read \in [servers : BOOLEAN, lsa : BOOLEAN], known \in SUBSET DOMAIN Table :
      /\ files' = read /\ routing_table' = TableOf(read, known)
      /\ round_robin_pt' = IF read.servers THEN 1 ELSE 0
      /\ pc' = IF StartResult(read, known) > 0 THEN "exit" ELSE "run"
  BY DEF Start
<1>1. \A c \in DOMAIN routing_table' :
        c \in DOMAIN Table /\ routing_table'[c] = Table[c]
  BY DEF TableOf
<1>2. round_robin_pt' \in 0 .. Len(Servers) /\ pc' \in {"start", "run", "exit"} \cup Broken
  BY ServersFacts
<1> QED
  BY <1>1, <1>2 DEF TypeOK, Start, clients

\* What a step that answers does, without the ways it may crash.
LEMMA AnswerStep ==
  ASSUME TypeOK, NEW m \in requests, Answer(m), pc' \notin Broken
  PROVE  \E ip \in Addresses :
           /\ ip \in ServerIps(m.from)
           /\ IsRoundRobin => round_robin_pt # 0
           /\ answers' = Append(answers, [query |-> m, server_ip |-> ip])
           /\ responses' = responses \cup
                {[to |-> m.from, query |-> m, server_ip |-> ip, at |-> Len(answers) + 1]}
           /\ round_robin_pt' = IF IsRoundRobin THEN NextServer ELSE round_robin_pt
<1>1. PICK ip \in ServerIps(m.from) :
           /\ IsRoundRobin => round_robin_pt # 0
           /\ answers' = Append(answers, [query |-> m, server_ip |-> ip])
           /\ responses' = responses \cup
                {[to |-> m.from, query |-> m, server_ip |-> ip, at |-> Len(answers) + 1]}
           /\ round_robin_pt' = IF IsRoundRobin THEN NextServer ELSE round_robin_pt
  BY DEF Answer, ReplyTo
<1>2. ip \in Addresses
  <2>1. CASE IsRoundRobin
    BY <1>1, <2>1, ServersFacts DEF ServerIps, TypeOK
  <2>2. CASE ~IsRoundRobin
    BY <1>1, <2>2, TableFacts DEF ServerIps, Lookup, TypeOK
  <2> QED
    BY <2>1, <2>2
<1> QED
  BY <1>1, <1>2

\* The round-robin pointer's next server is one of the list.
LEMMA NextServerInList ==
  ASSUME TypeOK, round_robin_pt # 0 PROVE NextServer \in 1 .. Len(Servers)
BY ServersFacts DEF TypeOK, NextServer

\* Answering keeps the types.
LEMMA TypeAnswer ==
  ASSUME TypeOK, NEW m \in requests, Answer(m) PROVE TypeOK'
<1>1. requests' \subseteq Query
  BY DEF Answer, Consumed, TypeOK
<1>2. CASE pc' \in Broken /\ UNCHANGED <<round_robin_pt, responses, answers>>
  BY <1>1, <1>2 DEF Answer, TypeOK, clients
<1>3. CASE pc' \notin Broken
  <2>1. PICK ip \in Addresses :
           /\ IsRoundRobin => round_robin_pt # 0
           /\ answers' = Append(answers, [query |-> m, server_ip |-> ip])
           /\ responses' = responses \cup
                {[to |-> m.from, query |-> m, server_ip |-> ip, at |-> Len(answers) + 1]}
           /\ round_robin_pt' = IF IsRoundRobin THEN NextServer ELSE round_robin_pt
    BY <1>3, AnswerStep
  <2>2. m \in Query /\ Len(answers) \in Nat
    BY DEF TypeOK
  <2>3. /\ answers' \in Seq([query : Query, server_ip : Addresses])
        /\ responses' \subseteq Response
    BY <2>1, <2>2 DEF TypeOK, Query, Response
  <2>4. round_robin_pt' \in 0 .. Len(Servers)
    BY <2>1, NextServerInList, ServersFacts DEF TypeOK
  <2> QED
    BY <1>1, <1>3, <2>3, <2>4 DEF Answer, TypeOK, clients
<1> QED
  BY <1>2, <1>3 DEF Answer

\* A query keeps the types.
LEMMA TypeResolve ==
  ASSUME TypeOK, NEW c \in Clients, Resolve(c) PROVE TypeOK'
<1>1. asked[c] + 1 \in 0 .. MaxQueries
  BY BoundsAssumption DEF Resolve, TypeOK
<1>2. requests' \subseteq Query
  <2>1. [from |-> c, number |-> asked[c] + 1, valid |-> TRUE] \in Query
    BY <1>1 DEF Query
  <2> QED
    BY <2>1 DEF Resolve, TypeOK
<1>4. asked' \in [Clients -> 0 .. MaxQueries] /\ waiting' \in [Clients -> BOOLEAN]
  BY <1>1 DEF Resolve, TypeOK
<1>3. UNCHANGED <<pc, files, routing_table, round_robin_pt, answers, responses, resolved>>
  BY DEF Resolve, server
<1> QED
  BY <1>2, <1>3, <1>4 DEF TypeOK

\* An answer that arrives, or a timeout, keeps the types.
LEMMA TypeReturn ==
  ASSUME TypeOK, NEW c \in Clients, NEW r \in responses, Return(c, r) PROVE TypeOK'
<1>1. Append(resolved[c], r) \in Seq(Response)
  BY DEF TypeOK
<1> QED
  BY <1>1 DEF Return, TypeOK, server

\* A malformed query keeps the types.
LEMMA TypeMalformed ==
  ASSUME TypeOK, NEW c \in Clients, Malformed(c) PROVE TypeOK'
<1>1. requests' \subseteq Query
  <2>1. [from |-> c, number |-> 0, valid |-> FALSE] \in Query
    BY BoundsAssumption DEF Query
  <2> QED
    BY <2>1 DEF Malformed, TypeOK
<1>2. UNCHANGED <<pc, files, routing_table, round_robin_pt, answers, responses,
                  asked, waiting, resolved>>
  BY DEF Malformed, server, clients
<1> QED
  BY <1>1, <1>2 DEF TypeOK

\* Every step keeps the types.
LEMMA TypeNext == TypeOK /\ [Next]_vars => TypeOK'
<1> SUFFICES ASSUME TypeOK, [Next]_vars PROVE TypeOK'
  OBVIOUS
<1>1. CASE Start
  BY <1>1, TypeStart
<1>2. CASE AnswerAny
  BY <1>2, TypeAnswer DEF AnswerAny
<1>3. CASE ReturnAny
  BY <1>3, TypeReturn DEF ReturnAny
<1>4. CASE Lose
  BY <1>4 DEF Lose, TypeOK, server, clients
<1>5. ASSUME NEW c \in Clients, Resolve(c) \/ Malformed(c) PROVE TypeOK'
  BY <1>5, TypeResolve, TypeMalformed
<1>6. CASE UNCHANGED vars
  BY <1>6 DEF TypeOK, vars, server, clients
<1> QED
  BY <1>1, <1>2, <1>3, <1>4, <1>5, <1>6 DEF Next

\* The state keeps its shape, and round_robin_pt stays within the server list
\* (nameserver_run).
THEOREM TypeCorrect == Spec => []TypeOK
BY TypeInit, TypeNext, PTL DEF Spec

(***************************************************************************)
(* Round robin.  The pointer is the abstract turn, once the loop runs with *)
(* a server list; before that nothing has been answered.                   *)
(***************************************************************************)

TurnOK == /\ pc = "start" => answers = <<>>
          /\ IsRoundRobin /\ round_robin_pt # 0 =>
               \E rounds \in 0 .. Len(answers) :
                 Len(answers) + 1 = rounds * Len(Servers) + round_robin_pt

\* The pointer starts at the first server.
LEMMA TurnStart == TypeOK /\ TurnOK /\ Start => TurnOK'
<1> SUFFICES ASSUME TypeOK, TurnOK, Start PROVE TurnOK'
  OBVIOUS
<1>1. answers = <<>> /\ answers' = <<>> /\ pc' # "start" /\ round_robin_pt' \in {0, 1}
  BY DEF Start, TurnOK
<1>2. Len(answers') = 0 /\ Len(answers') + 1 = 0 * Len(Servers) + 1
  BY <1>1, ServersFacts
<1> QED
  BY <1>1, <1>2 DEF TurnOK

\* One more round is as many answers as there are servers.
LEMMA OneMore == \A a, b \in Nat : a * b \in Nat /\ (a + 1) * b = a * b + b
OBVIOUS

\* An answer moves the pointer by one, around the list.
LEMMA TurnAnswer ==
  ASSUME TypeOK, TurnOK, NEW m \in requests, Answer(m) PROVE TurnOK'
<1>1. pc # "start" /\ pc' # "start"
  BY DEF Answer
<1>2. CASE pc' \in Broken /\ UNCHANGED <<round_robin_pt, responses, answers>>
  BY <1>1, <1>2 DEF TurnOK
<1>3. CASE pc' \notin Broken
  <2>1. PICK ip \in Addresses :
           /\ IsRoundRobin => round_robin_pt # 0
           /\ answers' = Append(answers, [query |-> m, server_ip |-> ip])
           /\ round_robin_pt' = IF IsRoundRobin THEN NextServer ELSE round_robin_pt
    BY <1>3, AnswerStep
  <2>2. Len(answers) \in Nat /\ Len(answers') = Len(answers) + 1
    BY <2>1 DEF TypeOK
  <2>3. SUFFICES ASSUME IsRoundRobin
                 PROVE  \E rounds \in 0 .. Len(answers') :
                          Len(answers') + 1 = rounds * Len(Servers) + round_robin_pt'
    BY <1>1 DEF TurnOK
  <2>4. PICK rounds \in 0 .. Len(answers) :
          Len(answers) + 1 = rounds * Len(Servers) + round_robin_pt
    BY <2>1, <2>3 DEF TurnOK
  <2>5. CASE round_robin_pt = Len(Servers)
    <3>1. /\ rounds * Len(Servers) \in Nat
          /\ (rounds + 1) * Len(Servers) = rounds * Len(Servers) + Len(Servers)
      BY OneMore, ServersFacts
    <3>2. Len(answers) + 2 = (rounds + 1) * Len(Servers) + 1
      BY <2>2, <2>4, <2>5, <3>1, ServersFacts
    <3>3. round_robin_pt' = 1
      BY <2>1, <2>3, <2>5 DEF NextServer
    <3>4. rounds + 1 \in 0 .. Len(answers')
      BY <2>2
    <3> WITNESS rounds + 1 \in 0 .. Len(answers')
    <3> QED
      BY <2>2, <3>2, <3>3
  <2>6. CASE round_robin_pt # Len(Servers)
    <3>1. rounds * Len(Servers) \in Nat /\ round_robin_pt \in Nat
      BY ServersFacts DEF TypeOK
    <3>2. Len(answers) + 2 = rounds * Len(Servers) + (round_robin_pt + 1)
      BY <2>2, <2>4, <3>1
    <3> QED
      BY <2>1, <2>2, <2>3, <2>6, <3>2 DEF NextServer
  <2> QED
    BY <2>5, <2>6
<1> QED
  BY <1>2, <1>3 DEF Answer

\* Every step keeps the pointer at the number of answers.
LEMMA TurnNext == TypeOK /\ TurnOK /\ [Next]_vars => TurnOK'
<1> SUFFICES ASSUME TypeOK, TurnOK, [Next]_vars PROVE TurnOK'
  OBVIOUS
<1>1. CASE Start
  BY <1>1, TurnStart
<1>2. CASE AnswerAny
  BY <1>2, TurnAnswer DEF AnswerAny
<1>3. CASE UNCHANGED <<pc, answers, round_robin_pt>>
  BY <1>3 DEF TurnOK
<1>4. ReturnAny \/ Lose \/ (\E c \in Clients : Resolve(c) \/ Malformed(c)) \/ UNCHANGED vars
        => UNCHANGED <<pc, answers, round_robin_pt>>
  BY DEF ReturnAny, Return, Lose, Resolve, Malformed, vars, server
<1> QED
  BY <1>1, <1>2, <1>3, <1>4 DEF Next

\* An answer adds its server to those that were given.
LEMMA GivenAppend ==
  ASSUME TypeOK, NEW a, answers' = Append(answers, a)
  PROVE  Given' = Append(Given, a.server_ip)
<1>1. Len(answers) \in Nat /\ Len(answers') = Len(answers) + 1
  BY DEF TypeOK
<1>2. \A i \in 1 .. Len(answers') :
        answers'[i] = IF i = Len(answers) + 1 THEN a ELSE answers[i]
  BY DEF TypeOK
<1> QED
  BY <1>1, <1>2 DEF Given

\* With -r nameserver_run implements the rotation the grader tests: the i-th
\* answer is server i modulo their number, for every list of servers.
THEOREM RoundRobinCorrect == ASSUME IsRoundRobin PROVE Spec => ImplementsRoundRobin
<1>1. Init => TurnOK /\ Abstract!Init
  BY DEF Init, TurnOK, Abstract!Init, Given
<1>2. TypeOK /\ TurnOK /\ [Next]_vars => [Abstract!Answer]_Given
  <2> SUFFICES ASSUME TypeOK, TurnOK, [Next]_vars PROVE [Abstract!Answer]_Given
    OBVIOUS
  <2>1. CASE UNCHANGED answers
    BY <2>1 DEF Given
  <2>2. ASSUME NEW m \in requests, Answer(m), pc' \notin Broken
        PROVE  Abstract!Answer
    <3>1. PICK ip \in Addresses :
             /\ ip \in ServerIps(m.from) /\ round_robin_pt # 0
             /\ answers' = Append(answers, [query |-> m, server_ip |-> ip])
      BY <2>2, AnswerStep
    <3>2. /\ ip = Servers[round_robin_pt] /\ round_robin_pt \in 1 .. Len(Servers)
          /\ \E rounds \in 0 .. Len(answers) :
               Len(answers) + 1 = rounds * Len(Servers) + round_robin_pt
      BY <3>1, ServersFacts DEF ServerIps, TurnOK, TypeOK
    <3>3. Len(Given) = Len(answers)
      BY DEF Given, TypeOK
    <3>4. Given' = Append(Given, ip)
      BY <3>1, GivenAppend
    <3> QED
      BY <3>2, <3>3, <3>4, ServersAssumption DEF Abstract!Answer, Abstract!Turn
  <2>3. AnswerAny => UNCHANGED answers \/ \E m \in requests : Answer(m) /\ pc' \notin Broken
    BY DEF AnswerAny, Answer
  <2>4. Start \/ ReturnAny \/ Lose \/ (\E c \in Clients : Resolve(c) \/ Malformed(c))
          \/ UNCHANGED vars => UNCHANGED answers
    BY DEF Start, ReturnAny, Return, Lose, Resolve, Malformed, vars, server
  <2> QED
    BY <2>1, <2>2, <2>3, <2>4 DEF Next
<1> QED
  BY <1>1, <1>2, TurnNext, TypeCorrect, PTL DEF Spec, ImplementsRoundRobin, Abstract!Spec

(***************************************************************************)
(* The lookup.  What is on its way back to a client with an entry, or was  *)
(* taken by it, names the server of the entry; before the loop runs        *)
(* nothing is.                                                             *)
(***************************************************************************)

Own(r) == ~IsRoundRobin /\ r.to \in DOMAIN routing_table => r.server_ip = Table[r.to]

OwnInv == /\ pc = "start" => responses = {} /\ \A c \in Clients : resolved[c] = <<>>
          /\ \A r \in responses : Own(r)
          /\ \A c \in Clients : \A i \in 1 .. Len(resolved[c]) :
               resolved[c][i].to = c /\ Own(resolved[c][i])

\* An answer carries the server of the query's own client.
LEMMA OwnAnswer ==
  ASSUME TypeOK, OwnInv, NEW m \in requests, Answer(m) PROVE OwnInv'
<1>1. /\ UNCHANGED <<routing_table, resolved>> /\ pc # "start" /\ pc' # "start"
  BY DEF Answer, clients
<1>2. CASE responses' = responses
  BY <1>1, <1>2 DEF OwnInv, Own
<1>3. CASE pc' \notin Broken
  <2>1. PICK ip \in Addresses :
           /\ ip \in ServerIps(m.from)
           /\ responses' = responses \cup
                {[to |-> m.from, query |-> m, server_ip |-> ip, at |-> Len(answers) + 1]}
    BY <1>3, AnswerStep
  <2>2. ~IsRoundRobin /\ m.from \in DOMAIN routing_table => ip = Table[m.from]
    BY <2>1 DEF ServerIps, Lookup, TypeOK
  <2>3. \A r \in responses' : Own(r)'
    BY <1>1, <2>1, <2>2 DEF OwnInv, Own
  <2> QED
    BY <1>1, <2>3 DEF OwnInv, Own
<1> QED
  BY <1>2, <1>3 DEF Answer

\* A client takes over what its response says.
LEMMA OwnReturn ==
  ASSUME TypeOK, OwnInv, NEW c \in Clients, NEW r \in responses, Return(c, r)
  PROVE  OwnInv'
<1>1. /\ UNCHANGED <<pc, routing_table>> /\ responses' \subseteq responses
      /\ resolved' = [resolved EXCEPT ![c] = Append(resolved[c], r)] /\ r.to = c
  BY DEF Return, server, Accepts
<1>2. pc # "start"
  BY DEF OwnInv
<1>3. ASSUME NEW d \in Clients, NEW i \in 1 .. Len(resolved'[d])
      PROVE  resolved'[d][i].to = d /\ Own(resolved'[d][i])
  <2>1. CASE d # c
    BY <1>1, <2>1 DEF OwnInv, TypeOK
  <2>2. CASE d = c
    <3>1. resolved[c] \in Seq(Response) /\ resolved'[c] = Append(resolved[c], r)
      BY <1>1 DEF TypeOK
    <3>2. resolved'[c][i] = r \/ (i \in 1 .. Len(resolved[c]) /\ resolved'[c][i] = resolved[c][i])
      BY <2>2, <3>1
    <3> QED
      BY <1>1, <2>2, <3>2 DEF OwnInv
  <2> QED
    BY <2>1, <2>2
<1> QED
  BY <1>1, <1>2, <1>3 DEF OwnInv, Own

\* Every step keeps responses and results their client's own.
LEMMA OwnNext == TypeOK /\ OwnInv /\ [Next]_vars => OwnInv'
<1> SUFFICES ASSUME TypeOK, OwnInv, [Next]_vars PROVE OwnInv'
  OBVIOUS
<1>1. CASE Start
  BY <1>1 DEF Start, OwnInv, clients
<1>2. CASE AnswerAny
  BY <1>2, OwnAnswer DEF AnswerAny
<1>3. CASE ReturnAny
  BY <1>3, OwnReturn DEF ReturnAny
<1>4. CASE UNCHANGED <<pc, routing_table, resolved>> /\ responses' \subseteq responses
  BY <1>4 DEF OwnInv, Own
<1>5. Lose \/ (\E c \in Clients : Resolve(c) \/ Malformed(c)) \/ UNCHANGED vars
        => UNCHANGED <<pc, routing_table, resolved>> /\ responses' \subseteq responses
  BY DEF Lose, Resolve, Malformed, vars, server, clients
<1> QED
  BY <1>1, <1>2, <1>3, <1>4, <1>5 DEF Next

\* Without -r every client with an entry in the routing table is only ever given
\* the server of its entry (nameserver_run, resolve).
THEOREM OwnServerCorrect == Spec => []OwnServer
<1>1. Init => OwnInv
  BY DEF Init, OwnInv
<1>2. TypeOK /\ OwnInv => OwnServer
  <2>1. TypeOK => DOMAIN routing_table \subseteq Clients
    BY TableFacts DEF TypeOK
  <2>2. ASSUME TypeOK, OwnInv, ~IsRoundRobin, NEW c \in DOMAIN routing_table,
               NEW i \in 1 .. Len(resolved[c])
        PROVE  resolved[c][i].server_ip = Table[c]
    <3>1. resolved[c][i].to = c /\ Own(resolved[c][i])
      BY <2>1, <2>2 DEF OwnInv
    <3> QED
      BY <2>2, <3>1 DEF Own
  <2> QED
    BY <2>2 DEF OwnServer
<1> QED
  BY <1>1, <1>2, OwnNext, TypeCorrect, PTL DEF Spec

(***************************************************************************)
(* Fresh answers.  Of a client's query at most one datagram is about, its  *)
(* request or its answer, and only while the client waits; what it has     *)
(* taken before answers its queries in order.                              *)
(***************************************************************************)

Requested(c) == {m \in requests : m.valid /\ m.from = c}
Responded(c) == {r \in responses : r.query.valid /\ r.to = c}
LastQuery(c) == [from |-> c, number |-> asked[c], valid |-> TRUE]

FreshInv ==
  ~Duplicating => \A c \in Clients :
    /\ waiting[c] => Len(resolved[c]) = asked[c] - 1
    /\ ~waiting[c] => Len(resolved[c]) = asked[c]
    /\ \A n \in 1 .. Len(resolved[c]) :
         resolved[c][n].query = [from |-> c, number |-> n, valid |-> TRUE]
    /\ ~waiting[c] => Requested(c) = {} /\ Responded(c) = {}
    /\ Requested(c) = {} \/ Responded(c) = {}
    /\ \A m \in Requested(c) : m = LastQuery(c)
    /\ \A r, t \in Responded(c) : r.query = LastQuery(c) /\ r = t

\* An answer belongs to the one query that waits.
LEMMA FreshAnswerStep ==
  ASSUME TypeOK, FreshInv, ~Duplicating, NEW m \in requests, Answer(m) PROVE FreshInv'
<1>1. requests' = requests \ {m} /\ UNCHANGED <<asked, waiting, resolved>>
  BY DEF Answer, Consumed, clients
<1>2. \A c \in Clients : /\ Requested(c)' = Requested(c) \ {m}
                         /\ LastQuery(c)' = LastQuery(c)
  BY <1>1 DEF Requested, LastQuery
<1>3. CASE responses' = responses
  <2>1. \A c \in Clients : Responded(c)' = Responded(c)
    BY <1>3 DEF Responded
  <2> QED
    BY <1>1, <1>2, <2>1 DEF FreshInv
<1>4. CASE pc' \notin Broken
  <2> PICK ip \in Addresses :
        responses' = responses \cup
          {[to |-> m.from, query |-> m, server_ip |-> ip, at |-> Len(answers) + 1]}
    BY <1>4, AnswerStep
  <2> DEFINE r == [to |-> m.from, query |-> m, server_ip |-> ip, at |-> Len(answers) + 1]
  <2>1. responses' = responses \cup {r} /\ r.to = m.from /\ r.query = m
    OBVIOUS
  <2> HIDE DEF r
  <2>2. ASSUME NEW c \in Clients, ~(m.valid /\ m.from = c)
        PROVE  Responded(c)' = Responded(c) /\ Requested(c)' = Requested(c)
    BY <1>2, <2>1, <2>2 DEF Responded, Requested
  <2>3. ASSUME NEW c \in Clients, m.valid /\ m.from = c
        PROVE  /\ m \in Requested(c) /\ Requested(c)' = {}
               /\ Responded(c) = {} /\ Responded(c)' = {r} /\ r.query = LastQuery(c)
               /\ waiting[c]
    <3>1. m \in Requested(c) /\ m = LastQuery(c)
      BY <2>3 DEF Requested, FreshInv
    <3>2. Responded(c) = {} /\ Requested(c) = {m} /\ waiting[c]
      BY <3>1 DEF FreshInv
    <3>3. Responded(c)' = {r}
      BY <2>1, <2>3, <3>2 DEF Responded
    <3> QED
      BY <1>2, <2>1, <3>1, <3>2, <3>3
  <2>4. ASSUME NEW c \in Clients PROVE
          /\ ~waiting[c] => Requested(c)' = {} /\ Responded(c)' = {}
          /\ Requested(c)' = {} \/ Responded(c)' = {}
          /\ \A k \in Requested(c)' : k = LastQuery(c)
          /\ \A k, t \in Responded(c)' : k.query = LastQuery(c) /\ k = t
    <3>1. CASE m.valid /\ m.from = c
      BY <2>3, <3>1
    <3>2. CASE ~(m.valid /\ m.from = c)
      BY <2>2, <3>2 DEF FreshInv
    <3> QED
      BY <3>1, <3>2
  <2> QED
    BY <1>1, <1>2, <2>4 DEF FreshInv
<1> QED
  BY <1>3, <1>4 DEF Answer

\* A new query is the only one its client waits for.
LEMMA FreshResolve ==
  ASSUME TypeOK, FreshInv, ~Duplicating, NEW c \in Clients, Resolve(c) PROVE FreshInv'
<1> DEFINE m == [from |-> c, number |-> asked[c] + 1, valid |-> TRUE]
<1>1. /\ ~waiting[c] /\ requests' = requests \cup {m}
      /\ UNCHANGED <<responses, resolved>> /\ asked[c] \in Nat
      /\ asked'[c] = asked[c] + 1 /\ waiting'[c]
      /\ \A d \in Clients : d # c => asked'[d] = asked[d] /\ waiting'[d] = waiting[d]
  BY DEF Resolve, TypeOK
<1>2. m.valid /\ m.from = c
  OBVIOUS
<1>3. LastQuery(c)' = m
  BY <1>1 DEF LastQuery
<1> HIDE DEF m
<1>4. ASSUME NEW d \in Clients, d # c
      PROVE  /\ Responded(d)' = Responded(d) /\ Requested(d)' = Requested(d)
             /\ LastQuery(d)' = LastQuery(d)
  BY <1>1, <1>2, <1>4 DEF Responded, Requested, LastQuery
<1>5. Requested(c) = {} /\ Responded(c) = {} /\ Len(resolved[c]) = asked[c]
  BY <1>1 DEF FreshInv
<1>6. Requested(c)' = {m} /\ Responded(c)' = {}
  BY <1>1, <1>2, <1>5 DEF Responded, Requested
<1>7. ASSUME NEW d \in Clients
      PROVE  /\ waiting'[d] => Len(resolved'[d]) = asked'[d] - 1
             /\ ~waiting'[d] => Len(resolved'[d]) = asked'[d]
             /\ \A n \in 1 .. Len(resolved'[d]) :
                  resolved'[d][n].query = [from |-> d, number |-> n, valid |-> TRUE]
             /\ ~waiting'[d] => Requested(d)' = {} /\ Responded(d)' = {}
             /\ Requested(d)' = {} \/ Responded(d)' = {}
             /\ \A k \in Requested(d)' : k = LastQuery(d)'
             /\ \A r, t \in Responded(d)' : r.query = LastQuery(d)' /\ r = t
  <2>1. CASE d = c
    <3>1. /\ Len(resolved'[c]) = asked'[c] - 1 /\ waiting'[c]
          /\ \A n \in 1 .. Len(resolved'[c]) :
               resolved'[c][n].query = [from |-> c, number |-> n, valid |-> TRUE]
      BY <1>1, <1>5 DEF FreshInv
    <3> QED
      BY <1>3, <1>6, <2>1, <3>1
  <2>2. CASE d # c
    BY <1>1, <1>4, <2>2 DEF FreshInv
  <2> QED
    BY <2>1, <2>2
<1> QED
  BY <1>7 DEF FreshInv

\* Without duplicates nothing is left of a query that returned.
LEMMA FreshReturn ==
  ASSUME TypeOK, FreshInv, ~Duplicating, NEW c \in Clients, NEW a \in responses,
         Return(c, a)
  PROVE  FreshInv'
<1>1. /\ waiting[c] /\ responses' = responses \ {a} /\ a \in Responded(c)
      /\ UNCHANGED <<requests, asked>> /\ ~waiting'[c]
      /\ resolved'[c] = Append(resolved[c], a)
      /\ \A d \in Clients : d # c => resolved'[d] = resolved[d] /\ waiting'[d] = waiting[d]
  BY DEF Return, Accepts, Responded, TypeOK
<1>2. ASSUME NEW d \in Clients, d # c
      PROVE  /\ Responded(d)' = Responded(d) /\ Requested(d)' = Requested(d)
             /\ LastQuery(d)' = LastQuery(d)
  BY <1>1, <1>2 DEF Responded, Requested, LastQuery
<1>3. /\ Requested(c)' = {} /\ Responded(c)' = {}
      /\ a.query = LastQuery(c) /\ Len(resolved[c]) = asked[c] - 1
  <2>1. /\ Requested(c) = {} /\ Responded(c) = {a}
        /\ a.query = LastQuery(c) /\ Len(resolved[c]) = asked[c] - 1
    BY <1>1 DEF FreshInv
  <2> QED
    BY <1>1, <2>1 DEF Responded, Requested
<1>4. resolved[c] \in Seq(Response) /\ asked[c] \in Nat
  BY DEF TypeOK
<1>5. /\ Len(resolved'[c]) = asked[c]
      /\ \A n \in 1 .. Len(resolved'[c]) :
           resolved'[c][n].query = [from |-> c, number |-> n, valid |-> TRUE]
  <2>1. Len(resolved'[c]) = asked[c] /\ resolved'[c][asked[c]] = a
    BY <1>1, <1>3, <1>4
  <2>2. \A n \in 1 .. Len(resolved[c]) :
          /\ resolved'[c][n] = resolved[c][n]
          /\ resolved[c][n].query = [from |-> c, number |-> n, valid |-> TRUE]
    BY <1>1, <1>4 DEF FreshInv
  <2>3. a.query = [from |-> c, number |-> asked[c], valid |-> TRUE]
    BY <1>3 DEF LastQuery
  <2>4. \A n \in 1 .. asked[c] : n \in 1 .. Len(resolved[c]) \/ n = asked[c]
    BY <1>3, <1>4
  <2> QED
    BY <2>1, <2>2, <2>3, <2>4
<1>6. ASSUME NEW d \in Clients
      PROVE  /\ waiting'[d] => Len(resolved'[d]) = asked'[d] - 1
             /\ ~waiting'[d] => Len(resolved'[d]) = asked'[d]
             /\ \A n \in 1 .. Len(resolved'[d]) :
                  resolved'[d][n].query = [from |-> d, number |-> n, valid |-> TRUE]
             /\ ~waiting'[d] => Requested(d)' = {} /\ Responded(d)' = {}
             /\ Requested(d)' = {} \/ Responded(d)' = {}
             /\ \A k \in Requested(d)' : k = LastQuery(d)'
             /\ \A r, t \in Responded(d)' : r.query = LastQuery(d)' /\ r = t
  <2>1. CASE d = c
    BY <1>1, <1>3, <1>5, <2>1
  <2>2. CASE d # c
    BY <1>1, <1>2, <2>2 DEF FreshInv
  <2> QED
    BY <2>1, <2>2
<1> QED
  BY <1>6 DEF FreshInv

\* Datagrams that are lost, and those that are no queries, only shrink what is
\* under way about a query.
LEMMA FreshFewer ==
  ASSUME FreshInv, UNCHANGED clients,
         \A c \in Clients : /\ Requested(c)' \subseteq Requested(c)
                           /\ Responded(c)' \subseteq Responded(c)
  PROVE  FreshInv'
<1>1. UNCHANGED <<asked, waiting, resolved>>
      /\ \A c \in Clients : LastQuery(c)' = LastQuery(c)
  BY DEF clients, LastQuery
<1> QED
  BY <1>1 DEF FreshInv

\* Every step keeps queries, responses and results in step.
LEMMA FreshNext == TypeOK /\ FreshInv /\ [Next]_vars => FreshInv'
<1> SUFFICES ASSUME TypeOK, FreshInv, [Next]_vars, ~Duplicating PROVE FreshInv'
  BY DEF FreshInv
<1>1. CASE AnswerAny
  BY <1>1, FreshAnswerStep DEF AnswerAny
<1>2. CASE ReturnAny
  BY <1>2, FreshReturn DEF ReturnAny
<1>3. ASSUME NEW c \in Clients, Resolve(c) PROVE FreshInv'
  BY <1>3, FreshResolve
<1>4. CASE Start \/ Lose \/ (\E c \in Clients : Malformed(c)) \/ UNCHANGED vars
  <2>1. UNCHANGED clients /\ responses' \subseteq responses
    BY <1>4 DEF Start, Lose, Malformed, vars
  <2>2. \A m \in requests' : m \in requests \/ ~m.valid
    <3>1. CASE Start \/ Lose \/ UNCHANGED vars
      BY <3>1 DEF Start, Lose, vars
    <3>2. ASSUME NEW c \in Clients, Malformed(c)
          PROVE  \A m \in requests' : m \in requests \/ ~m.valid
      <4> DEFINE k == [from |-> c, number |-> 0, valid |-> FALSE]
      <4>1. requests' = requests \cup {k} /\ ~k.valid
        BY <3>2 DEF Malformed
      <4> QED
        BY <4>1
    <3> QED
      BY <1>4, <3>1, <3>2
  <2>3. \A c \in Clients : Requested(c)' \subseteq Requested(c)
                           /\ Responded(c)' \subseteq Responded(c)
    BY <2>1, <2>2 DEF Requested, Responded
  <2> QED
    BY <2>1, <2>3, FreshFewer
<1> QED
  BY <1>1, <1>2, <1>3, <1>4 DEF Next

\* As long as the network duplicates nothing, the n-th resolve of a client returns
\* the answer to its n-th query, though resolve compares no ids.
THEOREM FreshAnswerCorrect == Spec => []FreshAnswer
<1>1. Init => FreshInv
  BY DEF Init, FreshInv, Requested, Responded
<1>2. FreshInv => FreshAnswer
  BY DEF FreshInv, FreshAnswer
<1> QED
  BY <1>1, <1>2, FreshNext, TypeCorrect, PTL DEF Spec

(***************************************************************************)
(* Survival.  A server that got past its start-up with a server file has a *)
(* list, and with both files a complete table, and keeps them; where only  *)
(* queries are sent, every datagram is one.                                *)
(***************************************************************************)

Equipped == /\ pc # "crashed"
            /\ pc = "run" => /\ round_robin_pt # 0
                             /\ files.lsa => DOMAIN Table \subseteq DOMAIN routing_table

\* Start fails or leaves a list, and a table if it could read the topology.
LEMMA EquippedStart ==
  ASSUME Start, files'.servers PROVE Equipped'
<1>1. PICK read \in [servers : BOOLEAN, lsa : BOOLEAN], known \in SUBSET DOMAIN Table :
        /\ read.servers /\ files' = read /\ (read.lsa => known = DOMAIN Table)
        /\ routing_table' = TableOf(read, known) /\ round_robin_pt' = 1
        /\ pc' = IF StartResult(read, known) > 0 THEN "exit" ELSE "run"
  BY DEF Start
<1>2. CASE ~read.lsa
  BY <1>1, <1>2 DEF Equipped
<1>3. CASE read.lsa /\ known = {}
  BY <1>1, <1>3 DEF StartResult, Equipped
<1>4. CASE read.lsa /\ known # {}
  BY <1>1, <1>4 DEF TableOf, Equipped
<1> QED
  BY <1>2, <1>3, <1>4

\* Answering keeps the list and the table.
LEMMA EquippedAnswer ==
  ASSUME TypeOK, Equipped, IsRoundRobin \/ (files.lsa /\ DOMAIN Table = Clients),
         NEW m \in requests, Answer(m)
  PROVE  Equipped'
<1>0. pc = "run" /\ routing_table' = routing_table /\ files' = files
  BY DEF Answer
<1>1. round_robin_pt # 0
  BY <1>0 DEF Equipped
<1>2. m.from \in Clients
  BY DEF TypeOK, Query
<1>3. ~MayCrash(m.from)
  BY <1>0, <1>1, <1>2 DEF MayCrash, Equipped
<1>4. NextServer # 0
  BY <1>1, NextServerInList, ServersFacts
<1> QED
  BY <1>0, <1>1, <1>3, <1>4 DEF Answer, Equipped

\* Every step of a server that has what it needs keeps it.
LEMMA EquippedNext ==
  ASSUME TypeOK, [Next]_vars,
         files.servers /\ (IsRoundRobin \/ (files.lsa /\ DOMAIN Table = Clients)) => Equipped,
         files'.servers, IsRoundRobin \/ (files'.lsa /\ DOMAIN Table = Clients)
  PROVE  Equipped'
<1>1. CASE Start
  BY <1>1, EquippedStart
<1>2. CASE AnswerAny
  <2>1. UNCHANGED files
    BY <1>2 DEF AnswerAny, Answer
  <2> QED
    BY <1>2, <2>1, EquippedAnswer DEF AnswerAny
<1>3. ReturnAny \/ Lose \/ (\E c \in Clients : Resolve(c) \/ Malformed(c)) \/ UNCHANGED vars
        => UNCHANGED <<pc, files, round_robin_pt, routing_table>>
  BY DEF ReturnAny, Return, Lose, Resolve, Malformed, vars, server
<1>4. CASE UNCHANGED <<pc, files, round_robin_pt, routing_table>>
  BY <1>4 DEF Equipped
<1> QED
  BY <1>1, <1>2, <1>3, <1>4 DEF Next

OnlyQueries == ~MalformedSent => pc # "overrun" /\ \A m \in requests : m.valid

\* Where nothing else is sent, whatever the server receives is a query.
LEMMA OnlyQueriesNext == OnlyQueries /\ [Next]_vars => OnlyQueries'
<1> SUFFICES ASSUME ~MalformedSent, pc # "overrun", \A m \in requests : m.valid, [Next]_vars
             PROVE  pc' # "overrun" /\ \A m \in requests' : m.valid
  BY DEF OnlyQueries
<1>1. CASE Start
  BY <1>1 DEF Start
<1>2. CASE AnswerAny
  BY <1>2 DEF AnswerAny, Answer, Consumed
<1>3. ASSUME NEW c \in Clients, Resolve(c)
      PROVE  pc' # "overrun" /\ \A m \in requests' : m.valid
  <2> DEFINE k == [from |-> c, number |-> asked[c] + 1, valid |-> TRUE]
  <2>1. requests' = requests \cup {k} /\ k.valid /\ pc' = pc
    BY <1>3 DEF Resolve, server
  <2> QED
    BY <2>1
<1>4. CASE ReturnAny \/ Lose \/ UNCHANGED vars
  BY <1>4 DEF ReturnAny, Return, Lose, vars, server
<1> QED
  BY <1>1, <1>2, <1>3, <1>4 DEF Next, Malformed

\* A name server with a server file and -r, or with both files and an entry for
\* every client, is stopped by no query, and by no datagram at all where nobody
\* sends what is not a query (nameserver_run, parse_name).
THEOREM SurvivesCorrect == Spec => []Survives
<1> DEFINE Premise == files.servers /\ (IsRoundRobin \/ (files.lsa /\ DOMAIN Table = Clients))
           Inv == Premise => Equipped
<1>1. Init => Inv /\ OnlyQueries
  BY DEF Init, Equipped, OnlyQueries
<1>2. TypeOK /\ Inv /\ [Next]_vars => Inv'
  BY EquippedNext
<1>3. Inv /\ OnlyQueries => Survives
  BY DEF Equipped, OnlyQueries, Survives
<1> QED
  BY <1>1, <1>2, <1>3, OnlyQueriesNext, TypeCorrect, PTL DEF Spec
=============================================================================
