--------------------------- MODULE ProxyLoopProofs ---------------------------
(***************************************************************************)
(* The safety theorems about ProxyLoop, for every number of connections    *)
(* and descriptors.  All of them follow from the inductive invariant IInv. *)
(* There is one lemma per conjunct of IInv, and in each lemma one step per *)
(* kind of action.                                                         *)
(***************************************************************************)
EXTENDS ProxyLoop, FiniteSetTheorems, TLAPS

\* The subsets of the descriptor range are finite, so they can be counted.
LEMMA FdSubsetFinite ==
  ASSUME NEW S \in SUBSET Fd
  PROVE  IsFiniteSet(S) /\ Cardinality(S) \in Nat
<1>1. IsFiniteSet(Fd)
  BY FS_Interval, ConstantsAssumption DEF Fd
<1> QED
  BY <1>1, FS_Subset, FS_CardinalityType

\* IInv holds before the first pass.
LEMMA InitIInv == Init => IInv
<1> SUFFICES ASSUME Init PROVE IInv
  OBVIOUS
<1> USE ConstantsAssumption
<1>1. TypeOK
  <2>1. stuck \in Fd \cup {NoFd} /\ room \in BOOLEAN
    BY DEF Init
  <2> QED
    BY <2>1 DEF Init, TypeOK, Conn, Fd, NullConn, NoFd, ListenFd
<1>2. Live = {} /\ Connected = {} /\ ~Admitting
  BY DEF Init, Live, Connected, FdsOf, Admitting
<1>3. Owed = {}
  BY DEF Init, Owed
<1>4. CountdownExact
  BY <1>2, <1>3, FS_EmptySet DEF Init, CountdownExact
<1>5. FdsOK
  BY <1>2 DEF Init, FdsOK, FdsOf, NoFd, ListenFd
<1>6. ListOK /\ StructsOK /\ CurrOK /\ ReadyOK /\ NeverExits
  BY <1>2, <1>3 DEF Init, ListOK, StructsOK, CurrOK, ReadyOK, NeverExits,
                   HandlerHasInput, FdsOf
<1> QED
  BY <1>1, <1>4, <1>5, <1>6 DEF IInv

\* The handler whose send waits for a peer: the loop only sleeps.
SendBlocks == /\ pc \in {"browser", "server"}
              /\ \E from, to \in {browser_fd[curr], server_fd[curr]} : Blocks(from, to)

-----------------------------------------------------------------------------
(* Types *)

\* Every step keeps the types.
LEMMA TypeNext == IInv /\ [Next]_vars => TypeOK'
<1> SUFFICES ASSUME IInv, [Next]_vars PROVE TypeOK'
  OBVIOUS
<1> USE ConstantsAssumption DEF Conn, Fd, NullConn, NoFd, ListenFd
<1>0. TypeOK /\ (Admitting => created \in Conn) /\ (pc = "accept" => backlog > 0)
      /\ (pc \in {"browser", "server"} => curr \in Conn)
      /\ (pc = "dial" => sock # NoFd)
  BY DEF IInv, StructsOK, CurrOK, ReadyOK, Live
<1>1. CASE Select
  <2>1. Snapshot \in SUBSET Fd
    BY <1>0 DEF TypeOK, Snapshot
  <2>2. Cardinality(Snapshot) \in Int
    BY <2>1, FdSubsetFinite
  <2> QED
    BY <1>0, <1>1, <2>1, <2>2
    DEF TypeOK, Select, AfterSelect, conns, watch, peers
<1>2. CASE MallocFails
  BY <1>0, <1>2 DEF TypeOK, MallocFails, StartScan, conns, watch, peers
<1>3. CASE AcceptFails
  BY <1>0, <1>3 DEF TypeOK, AcceptFails, CanMalloc, StartScan, watch, peers
<1>4. CASE Query \/ Resolved \/ EndScan
  BY <1>0, <1>4 DEF TypeOK, Query, Resolved, EndScan, conns, watch, peers, round
<1>5. ASSUME NEW f \in Fd, Accept(f) PROVE TypeOK'
  BY <1>0, <1>5 DEF TypeOK, Accept, CanMalloc, Watch, round, peers
<1>6. ASSUME NEW f \in Fd, ServerSocket(f) PROVE TypeOK'
  BY <1>0, <1>6 DEF TypeOK, ServerSocket, conns, watch, round, peers
<1>7. ASSUME LinkWithoutServer, UNCHANGED dns, created \in Conn PROVE TypeOK'
  BY <1>0, <1>7 DEF TypeOK, LinkWithoutServer, LinkHead, StartScan, watch, peers
<1>8. CASE NoServerSocket \/ QueryFails \/ ConnectFails
  BY <1>0, <1>7, <1>8 DEF NoServerSocket, QueryFails, ConnectFails, Admitting
<1>9. CASE Connect
  BY <1>0, <1>9 DEF TypeOK, Connect, LinkHead, StartScan, Watch, Admitting, peers
<1>10. CASE Scan
  <2>1. Flagged(curr) \in SUBSET Fd
    BY <1>0 DEF TypeOK, Flagged
  <2>2. CountDown(curr) \in Int
    BY <1>0, <2>1, FdSubsetFinite DEF TypeOK, CountDown
  <2> QED
    BY <1>0, <1>10, <2>2 DEF TypeOK, Scan, conns, watch, peers
<1>11. CASE HandleBrowser \/ HandleServer
  <2>1. curr \in Conn
    BY <1>0, <1>11 DEF HandleBrowser, HandleServer
  <2>2. CASE CloseAndAdvance
    BY <1>0, <2>1, <2>2 DEF TypeOK, CloseAndAdvance, RemoveConn, Unwatch
  <2>3. CASE Killed
    BY <1>0, <2>3 DEF TypeOK, Killed, conns, watch, peers, round
  <2>4. ASSUME NEW f, Drain(f), pc' \in {"scan", "server"},
               curr' \in {curr, next[curr]}
        PROVE  TypeOK'
    BY <1>0, <2>1, <2>4 DEF TypeOK, Drain, conns, watch
  <2>5. CASE SendBlocks
    <3>1. PICK from, to \in {browser_fd[curr], server_fd[curr]} : Blocks(from, to)
      BY <2>5 DEF SendBlocks
    <3>2. to \in Fd \cup {NoFd}
      BY <1>0, <2>1, <3>1 DEF TypeOK
    <3> QED
      BY <1>0, <3>1, <3>2 DEF TypeOK, Blocks, conns, watch, round
  <2> QED
    BY <1>11, <2>2, <2>3, <2>4, <2>5 DEF HandleBrowser, HandleServer, Failed, SendBlocks
<1>12. CASE ClientConnects
  BY <1>0, <1>12 DEF TypeOK, ClientConnects, local, conns, watch, round, peers
<1>13. CASE DnsAnswers \/ DnsLoses
  BY <1>0, <1>13 DEF TypeOK, DnsAnswers, DnsLoses, local, conns, watch, round,
     peers
<1>14. ASSUME NEW f \in Fd, PeerSends(f) \/ PeerCloses(f) PROVE TypeOK'
  BY <1>0, <1>14 DEF TypeOK, PeerSends, PeerCloses, local, conns, watch, round
<1>15. CASE UNCHANGED vars
  BY <1>0, <1>15 DEF TypeOK, vars, conns, watch, round, peers
<1>16. CASE PeerReads
  <2>1. room' \in BOOLEAN
    BY <1>16 DEF PeerReads
  <2> QED
    BY <1>0, <1>16, <2>1 DEF TypeOK, PeerReads, local, conns, watch, round
<1> QED
  BY <1>1, <1>2, <1>3, <1>4, <1>5, <1>6, <1>8, <1>9, <1>10, <1>11, <1>12,
     <1>13, <1>14, <1>15, <1>16 DEF Next, Loop, Admit, Environment, Stopped

-----------------------------------------------------------------------------
(* The list *)

\* Linking a connection younger than all live ones keeps the list in order.
LEMMA LinkKeepsList ==
  ASSUME TypeOK, ListOK, NEW c \in Conn, LinkHead(c), prev[c] = NullConn,
         \A d \in Live : d < c, Live' = Live \cup {c}
  PROVE  ListOK'
<1> USE DEF TypeOK, ListOK, IsOlder, IsYounger, LinkHead, Conn, NullConn
<1>0. Live \subseteq Conn
  BY DEF Live
<1>1. list_conn' = c /\ list_conn' \in Live' /\ \A d \in Live' : d <= c
  BY <1>0
<1>2. IsOlder(next[c], c)' /\ IsYounger(prev[c], c)'
  <2>1. next'[c] = list_conn /\ prev'[c] = NullConn
    BY <1>0
  <2> QED
    BY <1>0, <1>1, <2>1
<1>3. ASSUME NEW d \in Live PROVE IsOlder(next[d], d)' /\ IsYounger(prev[d], d)'
  <2>1. d \in Conn /\ d < c /\ next'[d] = next[d]
        /\ prev'[d] = IF d = list_conn THEN c ELSE prev[d]
    BY <1>0
  <2>2. IsOlder(next[d], d)'
    BY <1>0, <2>1
  <2>3. CASE d = list_conn
    BY <1>0, <2>1, <2>3
  <2>4. CASE d # list_conn
    BY <1>0, <2>1, <2>4
  <2> QED
    BY <2>2, <2>3, <2>4
<1> QED
  BY <1>1, <1>2, <1>3

\* Unlinking a live connection keeps the others in order.
LEMMA RemoveKeepsList ==
  ASSUME TypeOK, ListOK, NEW c \in Live, RemoveConn(c), Live' = Live \ {c}
  PROVE  ListOK'
<1> USE DEF TypeOK, ListOK, IsOlder, IsYounger, RemoveConn, Conn, NullConn
<1>0. Live \subseteq Conn
  BY DEF Live
<1>1. IF list_conn' = NullConn THEN Live' = {}
      ELSE list_conn' \in Live' /\ \A d \in Live' : d <= list_conn'
  BY <1>0
<1>2. ASSUME NEW d \in Live' PROVE IsOlder(next[d], d)' /\ IsYounger(prev[d], d)'
  <2>1. d \in Conn /\ d \in Live /\ d # c
    BY <1>0
  <2>2. next'[d] = IF d = prev[c] THEN next[c] ELSE next[d]
    BY <1>0, <2>1
  <2>3. prev'[d] = IF d = next[c] THEN prev[c] ELSE prev[d]
    BY <1>0, <2>1
  <2>4. IsOlder(next[d], d)'
    <3>1. CASE d = prev[c]
      BY <1>0, <2>1, <2>2, <3>1
    <3>2. CASE d # prev[c]
      BY <1>0, <2>1, <2>2, <3>2
    <3> QED
      BY <3>1, <3>2
  <2>5. IsYounger(prev[d], d)'
    <3>1. CASE d = next[c]
      BY <1>0, <2>1, <2>3, <3>1
    <3>2. CASE d # next[c]
      BY <1>0, <2>1, <2>3, <3>2
    <3> QED
      BY <3>1, <3>2
  <2> QED
    BY <2>4, <2>5
<1> QED
  BY <1>1, <1>2

-----------------------------------------------------------------------------
(* The kinds of step.  Most of them touch neither the list nor the         *)
(* descriptors of a connection.                                            *)

Quiet == /\ UNCHANGED <<list_conn, next, prev, browser_fd, server_fd>>
         /\ UNCHANGED <<config_ready, fd_max>>
         /\ Admitting' = Admitting
         /\ created' = created \/ (~Admitting /\ created' = created + 1)
         /\ \/ UNCHANGED <<open, sock>>
               /\ (pc \in {"query", "resolve", "dial"})'
                     = (pc \in {"query", "resolve", "dial"})
            \/ \E f \in Fd : ServerSocket(f)

Linked == /\ Admitting
          /\ \/ LinkWithoutServer
             \/ pc = "dial" /\ Connect

Dropped == pc \in {"browser", "server"} /\ CloseAndAdvance

\* To the list, a step is quiet, links, drops, or accepts one connection.
LEMMA StepKinds ==
  ASSUME IInv, [Next]_vars
  PROVE  Quiet \/ Linked \/ Dropped \/ \E f \in Fd : Accept(f)
<1> USE DEF Admitting
<1>1. CASE Select
  BY <1>1 DEF Select, AfterSelect, Quiet, conns, watch
<1>2. CASE MallocFails \/ AcceptFails
  BY <1>2 DEF MallocFails, AcceptFails, StartScan, Quiet, conns, watch
<1>3. CASE Query \/ Resolved
  BY <1>3 DEF Query, Resolved, Quiet, conns, watch
<1>4. CASE EndScan \/ Scan
  BY <1>4 DEF EndScan, Scan, Quiet, conns, watch
<1>5. CASE NoServerSocket \/ QueryFails \/ ConnectFails \/ Connect
  BY <1>5 DEF NoServerSocket, QueryFails, ConnectFails, Connect, Linked
<1>6. ASSUME NEW f \in Fd, Accept(f) \/ ServerSocket(f)
      PROVE  Quiet \/ \E g \in Fd : Accept(g)
  BY <1>6 DEF ServerSocket, Quiet, conns, watch
<1>7. CASE HandleBrowser \/ HandleServer
  <2>1. CASE CloseAndAdvance
    BY <1>7, <2>1 DEF HandleBrowser, HandleServer, Dropped
  <2>2. CASE Killed
    BY <1>7, <2>2 DEF HandleBrowser, HandleServer, Killed, Quiet, conns, watch
  <2>3. ASSUME NEW f, Drain(f), pc' \in {"scan", "server"} PROVE Quiet
    BY <1>7, <2>3 DEF HandleBrowser, HandleServer, Drain, Quiet, conns, watch
  <2>4. ASSUME NEW from, NEW to, Blocks(from, to) PROVE Quiet
    BY <2>4 DEF Blocks, Quiet, conns, watch
  <2> QED
    BY <1>7, <2>1, <2>2, <2>3, <2>4 DEF HandleBrowser, HandleServer, Failed
<1>8. CASE ClientConnects \/ DnsAnswers \/ DnsLoses \/ PeerReads
  BY <1>8 DEF ClientConnects, PeerReads, DnsAnswers, DnsLoses, Quiet, local, conns, watch
<1>9. ASSUME NEW f \in Fd, PeerSends(f) \/ PeerCloses(f) PROVE Quiet
  BY <1>9 DEF PeerSends, PeerCloses, Quiet, local, conns, watch
<1>10. CASE UNCHANGED vars
  BY <1>10 DEF vars, Quiet, conns, watch
<1> QED
  BY <1>1, <1>2, <1>3, <1>4, <1>5, <1>6, <1>7, <1>8, <1>9, <1>10
  DEF Next, Loop, Admit, Environment, Stopped

\* What each kind of step does to the set of live connections.
LEMMA LiveNext ==
  ASSUME IInv
  PROVE  /\ Quiet => Live' = Live
         /\ \A f \in Fd : Accept(f) => Live' = Live
         /\ Linked => Live' = Live \cup {created}
         /\ Dropped => Live' = Live \ {curr}
<1> USE DEF IInv, TypeOK, Live, Conn, NoFd
<1>1. Quiet => Live' = Live
  BY DEF Quiet
<1>2. ASSUME NEW f \in Fd, Accept(f) PROVE Live' = Live
  <2>1. created \in Nat /\ created + 1 \in Conn
    BY <1>2, ConstantsAssumption DEF Accept, CanMalloc
  <2>2. FdsOf(created + 1) = {}
    BY <2>1 DEF StructsOK
  <2>3. browser_fd[created + 1] = NoFd
    BY <2>2 DEF FdsOf
  <2> QED
    BY <1>2, <2>1, <2>3 DEF Accept, Admitting
<1>3. ASSUME Linked PROVE Live' = Live \cup {created}
  <2>1. ~Admitting' /\ browser_fd' = browser_fd
    BY <1>3 DEF Linked, LinkWithoutServer, Connect, StartScan, Admitting
  <2> QED
    BY <1>3, <2>1 DEF StructsOK, Linked
<1>4. ASSUME Dropped PROVE Live' = Live \ {curr}
  BY <1>4 DEF Dropped, CloseAndAdvance, Admitting, CurrOK
<1> QED
  BY <1>1, <1>2, <1>3, <1>4

\* Every step keeps the list linked in the order of arrival.
LEMMA ListNext == IInv /\ [Next]_vars => ListOK'
<1> SUFFICES ASSUME IInv, [Next]_vars PROVE ListOK'
  OBVIOUS
<1>1. CASE Quiet \/ \E f \in Fd : Accept(f)
  <2>1. Live' = Live /\ UNCHANGED <<list_conn, next, prev>>
    BY <1>1, LiveNext DEF Quiet, Accept
  <2> QED
    BY <2>1 DEF IInv, ListOK, IsOlder, IsYounger
<1>2. CASE Linked
  <2>1. created \in Conn /\ prev[created] = NullConn
    BY <1>2 DEF IInv, StructsOK, Linked
  <2>2. \A d \in Live : d < created
    BY <1>2, <2>1 DEF Linked, Live, IInv, StructsOK, FdsOf, Conn
  <2>3. LinkHead(created)
    BY <1>2 DEF Linked, LinkWithoutServer, Connect
  <2> QED
    BY <1>2, <2>1, <2>2, <2>3, LiveNext, LinkKeepsList DEF IInv
<1>3. CASE Dropped
  <2>1. curr \in Live /\ RemoveConn(curr)
    BY <1>3 DEF Dropped, CloseAndAdvance, IInv, CurrOK
  <2> QED
    BY <1>3, <2>1, LiveNext, RemoveKeepsList DEF IInv
<1> QED
  BY <1>1, <1>2, <1>3, StepKinds

-----------------------------------------------------------------------------
(* Descriptors *)

\* A connection gets a descriptor nobody has.
LEMMA GiveFd ==
  ASSUME FdsOK, NEW c \in Conn, NEW f \in Fd, f \notin config_ready,
         FdsOf(c)' = FdsOf(c) \cup {f},
         \A d \in Conn : d # c => FdsOf(d)' = FdsOf(d)
  PROVE  /\ \A a, b \in Conn : a # b => FdsOf(a)' \cap FdsOf(b)' = {}
         /\ Connected' = Connected \cup {f}
<1>1. \A d \in Conn : f \notin FdsOf(d)
  BY DEF FdsOK, Connected
<1>2. ASSUME NEW a \in Conn, NEW b \in Conn, a # b
      PROVE  FdsOf(a)' \cap FdsOf(b)' = {}
  BY <1>1, <1>2 DEF FdsOK
<1>3. Connected' = Connected \cup {f}
  BY DEF Connected
<1> QED
  BY <1>2, <1>3

\* Every step keeps descriptors apart and watched.
LEMMA FdsNext == IInv /\ [Next]_vars => FdsOK'
<1> SUFFICES ASSUME IInv, [Next]_vars PROVE FdsOK'
  OBVIOUS
<1> USE ConstantsAssumption DEF Fd, NoFd, ListenFd
<1>0. TypeOK /\ FdsOK /\ StructsOK
  BY DEF IInv
<1>1. CASE Quiet
  <2>1. (\A c \in Conn : FdsOf(c)' = FdsOf(c)) /\ Connected' = Connected
    BY <1>1 DEF Quiet, FdsOf, Connected
  <2>2. CASE UNCHANGED <<open, sock>>
    BY <1>0, <1>1, <2>1, <2>2 DEF Quiet, FdsOK
  <2>3. ASSUME NEW f \in Fd, ServerSocket(f) PROVE FdsOK'
    <3>1. sock = NoFd /\ sock' = f /\ open' = open \cup {f} /\ f \notin open
      BY <1>0, <2>3 DEF ServerSocket, IsLowestFree, StructsOK
    <3> QED
      BY <1>0, <1>1, <2>1, <3>1 DEF Quiet, FdsOK
  <2> QED
    BY <1>1, <2>2, <2>3 DEF Quiet
<1>2. ASSUME NEW f \in Fd, Accept(f) PROVE FdsOK'
  <2>1. PICK c \in Conn : c = created + 1 /\ FdsOf(c) = {}
    BY <1>0, <1>2 DEF Accept, CanMalloc, TypeOK, StructsOK, Conn
  <2>2. f \notin open /\ f \notin config_ready /\ sock = NoFd /\ sock' = NoFd
    BY <1>0, <1>2 DEF Accept, IsLowestFree, FdsOK, StructsOK
  <2>3. browser_fd[c] = NoFd /\ server_fd[c] = NoFd
    BY <2>1 DEF FdsOf
  <2>4. /\ browser_fd' = [browser_fd EXCEPT ![c] = f]
        /\ server_fd' = server_fd
        /\ config_ready' = config_ready \cup {f} /\ open' = open \cup {f}
        /\ fd_max' = IF f >= fd_max THEN f + 1 ELSE fd_max
    BY <1>2, <2>1 DEF Accept, Watch
  <2>5. /\ browser_fd'[c] = f /\ server_fd'[c] = NoFd
        /\ \A d \in Conn : d # c => browser_fd'[d] = browser_fd[d]
    BY <1>0, <2>3, <2>4 DEF TypeOK
  <2>6. /\ FdsOf(c)' = FdsOf(c) \cup {f}
        /\ \A d \in Conn : d # c => FdsOf(d)' = FdsOf(d)
    BY <2>3, <2>4, <2>5 DEF FdsOf
  <2>7. /\ \A a, b \in Conn : a # b => FdsOf(a)' \cap FdsOf(b)' = {}
        /\ Connected' = Connected \cup {f}
    BY <1>0, <2>2, <2>6, GiveFd
  <2>8. \A d \in Conn : browser_fd'[d] = server_fd'[d] => browser_fd'[d] = NoFd
    BY <1>0, <2>4, <2>5 DEF FdsOK
  <2>9. \A g \in config_ready' : g < fd_max'
    BY <1>0, <2>4 DEF FdsOK, TypeOK
  <2> QED
    BY <1>0, <2>2, <2>4, <2>7, <2>8, <2>9 DEF FdsOK
<1>3. CASE Linked /\ LinkWithoutServer
  <2>1. (\A c \in Conn : FdsOf(c)' = FdsOf(c)) /\ Connected' = Connected
    BY <1>3 DEF LinkWithoutServer, LinkHead, FdsOf, Connected
  <2>2. /\ sock' = NoFd /\ open' = open \ {sock}
        /\ UNCHANGED <<config_ready, fd_max, browser_fd, server_fd>>
    BY <1>3 DEF LinkWithoutServer, LinkHead, watch
  <2> QED
    BY <1>0, <2>1, <2>2 DEF FdsOK, TypeOK
<1>4. CASE Linked /\ pc = "dial" /\ Connect
  <2>1. PICK c \in Conn : c = created /\ server_fd[c] = NoFd
    BY <1>0, <1>4 DEF Linked, StructsOK
  <2>2. PICK f \in Fd : f = sock /\ f \notin config_ready
    BY <1>0, <1>4 DEF StructsOK, TypeOK, FdsOK
  <2>3. /\ server_fd' = [server_fd EXCEPT ![c] = f]
        /\ UNCHANGED <<browser_fd, open>> /\ sock' = NoFd
        /\ config_ready' = config_ready \cup {f}
        /\ fd_max' = IF f >= fd_max THEN f + 1 ELSE fd_max
    BY <1>4, <2>1, <2>2 DEF Connect, Watch
  <2>4. /\ server_fd'[c] = f
        /\ \A d \in Conn : d # c => server_fd'[d] = server_fd[d]
    BY <1>0, <2>3 DEF TypeOK
  <2>5. /\ FdsOf(c)' = FdsOf(c) \cup {f}
        /\ \A d \in Conn : d # c => FdsOf(d)' = FdsOf(d)
    BY <2>1, <2>3, <2>4 DEF FdsOf
  <2>6. /\ \A a, b \in Conn : a # b => FdsOf(a)' \cap FdsOf(b)' = {}
        /\ Connected' = Connected \cup {f}
    BY <1>0, <2>2, <2>5, GiveFd
  <2>7. browser_fd[c] # f
    BY <1>0, <2>2 DEF FdsOK, Connected, FdsOf
  <2>8. \A d \in Conn : browser_fd'[d] = server_fd'[d] => browser_fd'[d] = NoFd
    BY <1>0, <2>3, <2>4, <2>7 DEF FdsOK
  <2>9. \A g \in config_ready' : g < fd_max'
    BY <1>0, <2>3 DEF FdsOK, TypeOK
  <2>10. config_ready' = {ListenFd} \cup Connected' /\ ListenFd \notin Connected'
    BY <1>0, <2>2, <2>3, <2>6 DEF FdsOK
  <2>11. sock' \notin config_ready'
    BY <1>0, <2>3 DEF TypeOK
  <2>12. open' = config_ready' \cup ({sock'} \ {NoFd})
    BY <1>0, <2>2, <2>3, <2>11 DEF FdsOK
  <2> QED
    BY <2>6, <2>8, <2>9, <2>10, <2>11, <2>12 DEF FdsOK
<1>5. CASE Dropped
  <2>1. PICK c \in Conn : c = curr
    BY <1>5 DEF Dropped, IInv, CurrOK, Live
  <2>2. /\ browser_fd' = [browser_fd EXCEPT ![c] = NoFd]
        /\ server_fd' = [server_fd EXCEPT ![c] = NoFd]
        /\ open' = open \ FdsOf(c) /\ config_ready' = config_ready \ FdsOf(c)
        /\ UNCHANGED <<fd_max, sock>>
    BY <1>5, <2>1 DEF Dropped, CloseAndAdvance, Unwatch
  <2>3. /\ browser_fd'[c] = NoFd /\ server_fd'[c] = NoFd
        /\ \A d \in Conn : d # c => /\ browser_fd'[d] = browser_fd[d]
                                    /\ server_fd'[d] = server_fd[d]
    BY <1>0, <2>2 DEF TypeOK
  <2>4. /\ FdsOf(c)' = {}
        /\ \A d \in Conn : d # c => FdsOf(d)' = FdsOf(d)
    BY <2>3 DEF FdsOf
  <2>5. Connected' = Connected \ FdsOf(c)
    BY <1>0, <2>4 DEF Connected, FdsOK
  <2>6. sock = NoFd
    BY <1>0, <1>5 DEF Dropped, StructsOK
  <2>7. ASSUME NEW a \in Conn, NEW b \in Conn, a # b
        PROVE  FdsOf(a)' \cap FdsOf(b)' = {}
    BY <1>0, <2>4, <2>7 DEF FdsOK
  <2>8. \A d \in Conn : browser_fd'[d] = server_fd'[d] => browser_fd'[d] = NoFd
    BY <1>0, <2>3 DEF FdsOK
  <2>9. ListenFd \notin FdsOf(c) /\ NoFd \notin open
    BY <1>0, <2>1 DEF FdsOK, Connected, TypeOK
  <2> QED
    BY <1>0, <2>2, <2>5, <2>6, <2>7, <2>8, <2>9 DEF FdsOK
<1> QED
  BY <1>1, <1>2, <1>3, <1>4, <1>5, StepKinds DEF Linked

-----------------------------------------------------------------------------
(* Structs and the iterator *)

\* Every step keeps the linked structs the live ones.
LEMMA StructsNext == IInv /\ [Next]_vars => StructsOK'
<1> SUFFICES ASSUME IInv, [Next]_vars PROVE StructsOK'
  OBVIOUS
<1> USE DEF Conn, NoFd, NullConn
<1>0. TypeOK /\ ListOK /\ StructsOK
  BY DEF IInv
<1>1. CASE Quiet
  <2>1. \A c \in Conn : FdsOf(c)' = FdsOf(c)
    BY <1>1 DEF Quiet, FdsOf
  <2>2. \A c \in Conn : c > created' => c > created
    BY <1>0, <1>1 DEF Quiet, TypeOK
  <2>3. sock' # NoFd <=> pc' \in {"query", "resolve", "dial"}
    BY <1>0, <1>1 DEF Quiet, StructsOK, ServerSocket, Fd
  <2>4. Admitting' => created' = created
    BY <1>1 DEF Quiet
  <2> QED
    BY <1>0, <1>1, <2>1, <2>2, <2>3, <2>4 DEF Quiet, StructsOK
<1>2. ASSUME NEW f \in Fd, Accept(f) PROVE StructsOK'
  <2>1. PICK c \in Conn : c = created + 1 /\ FdsOf(c) = {} /\ next[c] = NullConn
                          /\ prev[c] = NullConn
    <3>1. created \in Nat /\ created + 1 \in Conn /\ created + 1 > created
      BY <1>0, <1>2, ConstantsAssumption DEF Accept, CanMalloc, TypeOK
    <3> QED
      BY <1>0, <3>1 DEF StructsOK
  <2>2. server_fd[c] = NoFd
    BY <2>1 DEF FdsOf
  <2>3. /\ created' = c /\ browser_fd' = [browser_fd EXCEPT ![c] = f]
        /\ pc' = "connect" /\ UNCHANGED <<server_fd, next, prev, sock>>
    BY <1>2, <2>1 DEF Accept
  <2>4. sock' = NoFd
    BY <1>0, <1>2, <2>3 DEF Accept, StructsOK
  <2>5. \A d \in Conn : d > c => d # c /\ d > created /\ browser_fd'[d] = browser_fd[d]
    BY <1>0, <2>1, <2>3 DEF TypeOK
  <2>6. \A d \in Conn : d > created' => FdsOf(d)' = {} /\ next'[d] = NullConn
                                       /\ prev'[d] = NullConn
    BY <1>0, <2>3, <2>5 DEF StructsOK, FdsOf
  <2>7. browser_fd'[c] = f /\ f # NoFd
    BY <1>0, <2>3 DEF TypeOK, Fd
  <2>8. \A d \in Conn : server_fd'[d] # NoFd => browser_fd'[d] # NoFd
    BY <1>0, <2>3, <2>7 DEF StructsOK, TypeOK
  <2> QED
    BY <2>1, <2>2, <2>3, <2>4, <2>6, <2>7, <2>8 DEF StructsOK
<1>3. CASE Linked
  <2>1. PICK c \in Conn : c = created /\ browser_fd[c] # NoFd
    BY <1>0, <1>3 DEF Linked, StructsOK
  <2>2. /\ created' = created /\ browser_fd' = browser_fd /\ ~Admitting'
        /\ pc' = "scan" /\ sock' = NoFd
        /\ server_fd' = server_fd \/ server_fd' = [server_fd EXCEPT ![c] = sock]
        /\ LinkHead(c)
    BY <1>3, <2>1 DEF Linked, LinkWithoutServer, Connect, StartScan, Admitting
  <2>3. \A d \in Conn : d > created => d # c /\ d # list_conn
    BY <1>0, <2>1 DEF TypeOK, ListOK, Live, StructsOK, FdsOf
  <2>4. \A d \in Conn : d > created' => FdsOf(d)' = {} /\ next'[d] = NullConn
                                       /\ prev'[d] = NullConn
    BY <1>0, <2>2, <2>3 DEF TypeOK, StructsOK, FdsOf, LinkHead
  <2>5. \A d \in Conn : server_fd'[d] # NoFd => browser_fd'[d] # NoFd
    BY <1>0, <2>1, <2>2 DEF TypeOK, StructsOK
  <2> QED
    BY <2>2, <2>4, <2>5 DEF StructsOK
<1>4. CASE Dropped
  <2>1. PICK c \in Live : c = curr
    BY <1>4 DEF Dropped, IInv, CurrOK
  <2>2. /\ browser_fd' = [browser_fd EXCEPT ![c] = NoFd]
        /\ server_fd' = [server_fd EXCEPT ![c] = NoFd]
        /\ UNCHANGED <<created, sock>> /\ RemoveConn(c) /\ pc' = "scan"
    BY <1>4, <2>1 DEF Dropped, CloseAndAdvance
  <2>3. c \in Conn /\ next[c] \in Live \cup {NullConn} /\ prev[c] \in Live \cup {NullConn}
    BY <1>0, <2>1 DEF ListOK, Live, IsOlder, IsYounger
  <2>4. \A d \in Live : ~(d > created)
    BY <1>0 DEF Live, StructsOK, FdsOf
  <2>5. \A d \in Conn : d > created => d # c /\ d # next[c] /\ d # prev[c]
    BY <1>0, <2>1, <2>3, <2>4 DEF TypeOK
  <2>6. \A d \in Conn : d > created' => FdsOf(d)' = {} /\ next'[d] = NullConn
                                       /\ prev'[d] = NullConn
    BY <1>0, <2>2, <2>5 DEF TypeOK, StructsOK, FdsOf, RemoveConn
  <2>7. \A d \in Conn : server_fd'[d] # NoFd => browser_fd'[d] # NoFd
    BY <1>0, <2>2 DEF TypeOK, StructsOK
  <2>8. ~Admitting' /\ sock' = NoFd
    BY <1>0, <1>4, <2>2 DEF Dropped, StructsOK, Admitting
  <2> QED
    BY <2>2, <2>6, <2>7, <2>8 DEF StructsOK
<1> QED
  BY <1>1, <1>2, <1>3, <1>4, StepKinds

\* The successor of a live connection is live, and what lies from it on is
\* what lies behind the connection.
LEMMA NextInList ==
  ASSUME TypeOK, ListOK, NEW c \in Live
  PROVE  /\ next[c] \in Live \cup {NullConn} /\ next[c] # c
         /\ {d \in Live : d <= next[c]} = {d \in Live : d < c}
<1> USE DEF TypeOK, ListOK, IsOlder, Conn, NullConn
<1>1. Live \subseteq Conn
  BY DEF Live
<1>2. next[c] \in Live \cup {NullConn} /\ next[c] # c
  BY <1>1
<1>3. \A d \in Live : d <= next[c] <=> d < c
  BY <1>1
<1> QED
  BY <1>2, <1>3

\* The list starts at the newest live connection.
LEMMA HeadOfList ==
  ASSUME TypeOK, ListOK
  PROVE  list_conn \in Live \cup {NullConn} /\ {d \in Live : d <= list_conn} = Live
BY DEF TypeOK, ListOK, Live

\* Every step leaves the scan at a linked connection or at the end.
LEMMA CurrNext == IInv /\ [Next]_vars => CurrOK'
<1> SUFFICES ASSUME IInv, [Next]_vars PROVE CurrOK'
  OBVIOUS
<1> USE DEF CurrOK
<1>0. TypeOK /\ ListOK /\ CurrOK
  BY DEF IInv
<1>1. CASE Quiet
  <2>0. Live' = Live /\ browser_fd' = browser_fd /\ server_fd' = server_fd
    BY <1>1, LiveNext DEF Quiet
  <2>1. CASE Select
    BY <1>0, <2>0, <2>1, HeadOfList DEF Select, AfterSelect
  <2>2. CASE MallocFails \/ AcceptFails
    BY <1>0, <2>0, <2>2, HeadOfList DEF MallocFails, AcceptFails, StartScan
  <2>3. CASE Query \/ Resolved \/ EndScan \/ \E f \in Fd : ServerSocket(f)
    BY <2>3 DEF Query, Resolved, EndScan, ServerSocket
  <2>4. CASE Scan
    <3>1. curr \in Live /\ ready' = ready
      BY <1>0, <2>4 DEF Scan
    <3>2. CASE Flagged(curr) = {}
      BY <1>0, <2>0, <2>4, <3>1, <3>2, NextInList DEF Scan
    <3>3. CASE Flagged(curr) # {}
      BY <1>0, <2>0, <2>4, <3>1, <3>3 DEF Scan, Flagged
    <3> QED
      BY <3>2, <3>3
  <2>5. CASE HandleBrowser \/ HandleServer
    <3>1. curr \in Live
      BY <1>0, <2>5 DEF HandleBrowser, HandleServer
    <3>2. CASE pc' = "scan" /\ curr' = next[curr]
      BY <1>0, <2>0, <3>1, <3>2, NextInList
    <3>3. CASE pc' = "server" /\ curr' = curr /\ server_fd[curr] \in ready /\ ready' = ready
      BY <1>0, <2>0, <3>1, <3>3
    <3>4. CASE pc' = "killed"
      BY <3>4
    <3>5. CASE SendBlocks
      BY <1>0, <2>0, <3>5 DEF SendBlocks, Blocks, round
    <3> QED
      BY <2>5, <3>2, <3>3, <3>4, <3>5 DEF HandleBrowser, HandleServer, Failed,
         CloseAndAdvance, Killed, Drain, SendBlocks
  <2>6. CASE Environment \/ Stopped \/ UNCHANGED vars
    <3>1. UNCHANGED <<pc, curr, ready>>
      BY <2>6 DEF Environment, ClientConnects, DnsAnswers, DnsLoses, PeerSends,
         PeerCloses, PeerReads, Stopped, vars, local, round
    <3> QED
      BY <1>0, <2>0, <3>1
  <2>7. CASE \E f \in Fd : Accept(f)
    BY <2>7 DEF Accept
  <2>8. CASE NoServerSocket \/ QueryFails \/ ConnectFails \/ Connect
    BY <1>1, <2>8 DEF Quiet, NoServerSocket, QueryFails, ConnectFails, Connect,
       LinkWithoutServer, StartScan, Admitting
  <2> QED
    BY <2>1, <2>2, <2>3, <2>4, <2>5, <2>6, <2>7, <2>8 DEF Next, Loop, Admit
<1>2. CASE \E f \in Fd : Accept(f)
  BY <1>2 DEF Accept
<1>3. CASE Linked
  <2>1. curr' = created /\ pc' = "scan" /\ Live' = Live \cup {created}
    BY <1>3, LiveNext DEF Linked, LinkWithoutServer, Connect, StartScan
  <2> QED
    BY <2>1
<1>4. CASE Dropped
  <2>1. curr' = next[curr] /\ pc' = "scan" /\ Live' = Live \ {curr} /\ curr \in Live
    BY <1>0, <1>4, LiveNext DEF Dropped, CloseAndAdvance
  <2> QED
    BY <1>0, <2>1, NextInList
<1> QED
  BY <1>1, <1>2, <1>3, <1>4, StepKinds

-----------------------------------------------------------------------------
(* What the round still owes *)

\* A handler that succeeds, and goes on to the other socket or to the next
\* connection.
HandlerOk == /\ pc \in {"browser", "server"}
             /\ \/ pc' = "server" /\ pc = "browser" /\ curr' = curr
                                  /\ Drain(browser_fd[curr])
                \/ /\ pc' = "scan" /\ curr' = next[curr]
                   /\ \/ pc = "browser" /\ Drain(browser_fd[curr])
                                        /\ server_fd[curr] \notin ready
                      \/ pc = "server" /\ Drain(server_fd[curr])

\* A handler succeeds, drops its connection, sleeps in send, or the program is
\* killed.
LEMMA HandlerKinds ==
  ASSUME HandleBrowser \/ HandleServer
  PROVE  \/ HandlerOk \/ Dropped \/ SendBlocks
         \/ pc \in {"browser", "server"} /\ Killed
<1>1. CASE HandleBrowser
  BY <1>1 DEF HandleBrowser, HandlerOk, Dropped, Failed, SendBlocks
<1>2. CASE HandleServer
  BY <1>2 DEF HandleServer, HandlerOk, Dropped, Failed, SendBlocks
<1> QED
  BY <1>1, <1>2

\* Steps that neither move the scan nor touch what a connection holds.
OwedSame == /\ ready' = ready /\ Ahead' = Ahead
            /\ \A c \in Ahead : FdsOf(c)' = FdsOf(c)

\* Such a step changes no one's turn.
LEMMA OwedSameOwed == OwedSame => Owed' = Owed
BY DEF OwedSame, Owed

\* While a browser is admitted every live connection is ahead of the scan.
LEMMA AdmitOwed ==
  ASSUME IInv,
         MallocFails \/ AcceptFails \/ Query \/ Resolved \/ Linked
           \/ \E f \in Fd : Accept(f) \/ ServerSocket(f)
  PROVE  Owed' = Owed
<1> USE DEF Ahead, Admitting
<1>0. TypeOK /\ ListOK /\ FdsOK /\ StructsOK /\ ReadyOK
  BY DEF IInv
<1>1. CASE MallocFails \/ AcceptFails
  <2>1. Quiet /\ pc = "accept" /\ pc' = "scan" /\ curr' = list_conn /\ ready' = ready
    BY <1>1 DEF MallocFails, AcceptFails, StartScan, Quiet, conns, watch
  <2>2. Live' = Live /\ \A c \in Conn : FdsOf(c)' = FdsOf(c)
    BY <2>1, LiveNext DEF Quiet, FdsOf
  <2>3. Ahead = Live /\ Ahead' = Live
    BY <1>0, <2>1, <2>2, HeadOfList
  <2> QED
    BY <2>1, <2>2, <2>3, OwedSameOwed DEF OwedSame, Live
<1>2. CASE Query \/ Resolved \/ \E f \in Fd : ServerSocket(f)
  <2>1. Quiet /\ Admitting /\ Admitting' /\ ready' = ready
    BY <1>2 DEF Query, Resolved, ServerSocket, Quiet, conns, watch, round
  <2>2. Live' = Live /\ \A c \in Conn : FdsOf(c)' = FdsOf(c)
    BY <2>1, LiveNext DEF Quiet, FdsOf
  <2> QED
    BY <2>1, <2>2, OwedSameOwed DEF OwedSame, Live
<1>3. ASSUME NEW f \in Fd, Accept(f) PROVE Owed' = Owed
  <2>1. /\ pc = "accept" /\ pc' = "connect" /\ ready' = ready
        /\ browser_fd' = [browser_fd EXCEPT ![created + 1] = f]
        /\ server_fd' = server_fd /\ created' = created + 1
    BY <1>3 DEF Accept, round
  <2>2. Live' = Live
    BY <1>3, LiveNext
  <2>3. \A c \in Live : c # created + 1
    BY <2>1, <2>2 DEF Live
  <2>4. \A c \in Live : FdsOf(c)' = FdsOf(c)
    BY <1>0, <2>1, <2>3 DEF TypeOK, Live, FdsOf
  <2> QED
    BY <2>1, <2>2, <2>4, OwedSameOwed DEF OwedSame
<1>4. CASE Linked
  <2>1. PICK n \in Conn : n = created /\ ready \cap FdsOf(n) = {}
    BY <1>0, <1>4 DEF Linked, StructsOK, ReadyOK
  <2>2. /\ pc' = "scan" /\ curr' = n /\ ready' = ready /\ browser_fd' = browser_fd
        /\ server_fd' = server_fd \/ server_fd' = [server_fd EXCEPT ![n] = sock]
    BY <1>4, <2>1 DEF Linked, LinkWithoutServer, Connect, StartScan
  <2>3. Live' = Live \cup {n} /\ n \notin Live
    BY <1>4, <2>1, LiveNext DEF Linked, Live
  <2>4. \A c \in Live : FdsOf(c)' = FdsOf(c)
    BY <1>0, <2>2, <2>3 DEF TypeOK, Live, FdsOf
  <2>5. \A c \in Live : c <= n
    BY <1>0, <2>1 DEF StructsOK, Live, FdsOf, Conn, TypeOK
  <2>6. Ahead = Live /\ Ahead' = Live \cup {n}
    BY <1>4, <2>1, <2>2, <2>3, <2>5 DEF Linked, Conn
  <2>7. sock \notin ready
    BY <1>0, <1>4 DEF Linked, ReadyOK, FdsOK
  <2>8. ready \cap FdsOf(n)' = {}
    BY <1>0, <2>1, <2>2, <2>7 DEF TypeOK, FdsOf
  <2> QED
    BY <2>2, <2>4, <2>6, <2>8 DEF Owed
<1> QED
  BY <1>1, <1>2, <1>3, <1>4

\* select owes a turn to every connection whose descriptor it reports.
LEMMA SelectOwed ==
  ASSUME IInv, Select
  PROVE  pc' \in {"accept", "scan"} /\ Owed' = Snapshot \ {ListenFd}
<1>0. TypeOK /\ ListOK /\ FdsOK /\ StructsOK
  BY DEF IInv
<1>1. Quiet /\ pc = "select" /\ ready' = Snapshot /\ curr' = list_conn
  BY DEF Select, AfterSelect, Quiet, Admitting, conns, watch
<1>2. Live' = Live /\ \A c \in Conn : FdsOf(c)' = FdsOf(c)
  BY <1>1, LiveNext DEF Quiet, FdsOf
<1>3. pc' \in {"accept", "scan"}
  BY <1>0 DEF Select, AfterSelect, FdsOK
<1>4. Ahead' = Live
  BY <1>0, <1>1, <1>2, <1>3, HeadOfList DEF Ahead
<1>5. \A c \in Conn : FdsOf(c) # {} => c \in Live
  BY <1>0, <1>1 DEF StructsOK, FdsOf, Live, Admitting
<1>6. Snapshot \ {ListenFd} \subseteq Connected /\ ListenFd \notin Connected
  BY <1>0 DEF FdsOK, Snapshot
<1>7. \A f \in Connected : \E c \in Live : f \in FdsOf(c)
  BY <1>5 DEF Connected
<1>8. \A c \in Live : FdsOf(c) \subseteq Connected /\ c \in Conn
  BY DEF Connected, Live
<1>9. Owed' = {f \in Snapshot : \E c \in Live : f \in FdsOf(c)}
  BY <1>1, <1>2, <1>4, <1>8 DEF Owed
<1> QED
  BY <1>3, <1>6, <1>7, <1>8, <1>9

\* The scan.
LEMMA ScanOwed ==
  ASSUME IInv, Scan
  PROVE  Owed' = Owed \ Flagged(curr) /\ Flagged(curr) \subseteq Owed
<1> USE DEF Ahead
<1>0. TypeOK /\ ListOK /\ FdsOK /\ curr \in Live /\ pc = "scan" /\ ready' = ready
  BY DEF IInv, CurrOK, Scan
<1>1. Quiet
  BY DEF Scan, Quiet, Admitting, conns, watch
<1>2. Live' = Live /\ \A c \in Conn : FdsOf(c)' = FdsOf(c)
  BY <1>1, LiveNext DEF Quiet, FdsOf
<1>3. Flagged(curr) = FdsOf(curr) \cap ready
  BY <1>0 DEF Flagged, FdsOf, TypeOK, Fd, NoFd
<1>4. Ahead = {c \in Live : c <= curr} /\ Ahead' = {c \in Live : c < curr}
  <2>1. CASE pc' = "scan" /\ curr' = next[curr]
    BY <1>0, <1>2, <2>1, NextInList
  <2>2. CASE pc' \in {"browser", "server"} /\ curr' = curr
    BY <1>0, <1>2, <2>2
  <2> QED
    BY <1>0, <2>1, <2>2 DEF Scan
<1>5. Ahead = Ahead' \cup {curr}
  BY <1>0, <1>4 DEF Live, Conn
<1>6. curr \in Conn /\ \A c \in Ahead' : c \in Conn /\ c # curr
  BY <1>0, <1>4 DEF Live, Conn
<1>7. \A c \in Ahead' : FdsOf(c) \cap FdsOf(curr) = {}
  BY <1>0, <1>6 DEF FdsOK
<1>8. Owed' = {f \in ready : \E c \in Ahead' : f \in FdsOf(c)}
  BY <1>0, <1>2, <1>6 DEF Owed
<1>9. Owed = {f \in ready : f \in FdsOf(curr) \/ \E c \in Ahead' : f \in FdsOf(c)}
  BY <1>5 DEF Owed
<1> QED
  BY <1>3, <1>7, <1>8, <1>9

\* A turn owes nothing itself: what is ahead stays as it was.
LEMMA TurnOwed ==
  ASSUME IInv, HandlerOk \/ Dropped
  PROVE  Owed' = Owed
<1> USE DEF Ahead
<1>0. TypeOK /\ ListOK /\ FdsOK /\ pc \in {"browser", "server"}
  BY DEF IInv, HandlerOk, Dropped
<1>1. PICK n \in Live : n = curr
  BY <1>0 DEF IInv, CurrOK
<1>2. ready' = ready
  BY DEF HandlerOk, Dropped, Drain, CloseAndAdvance
<1>3. Ahead = {c \in Live : c < n}
  BY <1>0, <1>1
<1>4. CASE HandlerOk
  <2>1. Quiet
    BY <1>4 DEF HandlerOk, Quiet, Drain, Admitting, conns, watch
  <2>2. Live' = Live /\ \A c \in Conn : FdsOf(c)' = FdsOf(c)
    BY <2>1, LiveNext DEF Quiet, FdsOf
  <2>3. Ahead' = {c \in Live : c < n}
    BY <1>0, <1>1, <1>4, <2>2, NextInList DEF HandlerOk
  <2> QED
    BY <1>2, <1>3, <2>2, <2>3, OwedSameOwed DEF OwedSame, Live
<1>5. CASE Dropped
  <2>1. /\ Live' = Live \ {n} /\ pc' = "scan" /\ curr' = next[n]
        /\ browser_fd' = [browser_fd EXCEPT ![n] = NoFd]
        /\ server_fd' = [server_fd EXCEPT ![n] = NoFd]
    BY <1>1, <1>5, LiveNext DEF Dropped, CloseAndAdvance
  <2>2. Ahead' = {c \in Live : c <= next[n]} \ {n}
    BY <2>1
  <2>3. Ahead' = {c \in Live : c < n}
    BY <1>0, <1>1, <2>2, NextInList DEF Live, Conn
  <2>4. \A c \in Ahead : FdsOf(c)' = FdsOf(c)
    BY <1>0, <1>3, <2>1 DEF TypeOK, Live, Conn, FdsOf
  <2> QED
    BY <1>2, <1>3, <2>3, <2>4, OwedSameOwed DEF OwedSame
<1> QED
  BY <1>4, <1>5

\* The environment, and a send that sleeps, do not change what is owed.
LEMMA EnvironmentOwed ==
  ASSUME IInv, Environment \/ Stopped \/ SendBlocks \/ UNCHANGED vars
  PROVE  Owed' = Owed /\ UNCHANGED local
<1>1. UNCHANGED local
  BY DEF Environment, ClientConnects, DnsAnswers, DnsLoses, PeerSends, PeerCloses,
     PeerReads, SendBlocks, Blocks, Stopped, vars, local
<1>2. UNCHANGED <<pc, curr, ready, browser_fd, server_fd, created>>
  BY <1>1 DEF local, conns, round
<1> QED
  BY <1>1, <1>2 DEF Owed, Ahead, Live, Admitting, FdsOf

\* Every step keeps the descriptors that are owed a turn ready.
LEMMA ReadyNext == IInv /\ [Next]_vars => ReadyOK'
<1> SUFFICES ASSUME IInv, [Next]_vars PROVE ReadyOK'
  OBVIOUS
<1> USE DEF Admitting
<1>0. TypeOK /\ FdsOK /\ StructsOK /\ CurrOK /\ ReadyOK
  BY DEF IInv
<1>1. CASE Select
  <2>1. pc' \in {"accept", "scan"} /\ Owed' = Snapshot \ {ListenFd}
    BY <1>1, SelectOwed
  <2>2. UNCHANGED <<data, gone, backlog, config_ready>> /\ ready' = Snapshot
        /\ (pc' = "accept" => ListenFd \in Snapshot)
    BY <1>1, <2>1 DEF Select, AfterSelect, peers, watch
  <2> QED
    BY <2>1, <2>2 DEF ReadyOK, HandlerHasInput, Snapshot, Readable
<1>2. CASE MallocFails \/ AcceptFails \/ Linked
  <2>1. pc' = "scan" /\ Owed' = Owed /\ UNCHANGED <<data, gone>>
    BY <1>2, AdmitOwed DEF MallocFails, AcceptFails, Linked, LinkWithoutServer,
       Connect, StartScan, peers
  <2> QED
    BY <1>0, <2>1 DEF ReadyOK, HandlerHasInput
<1>3. ASSUME NEW f \in Fd, Accept(f) PROVE ReadyOK'
  <2>1. Owed' = Owed
    BY <1>3, AdmitOwed
  <2>2. PICK n \in Conn : n = created + 1 /\ FdsOf(n) = {}
    BY <1>0, <1>3, ConstantsAssumption DEF Accept, CanMalloc, TypeOK, StructsOK, Conn
  <2>3. /\ pc = "accept" /\ pc' = "connect" /\ created' = n
        /\ browser_fd' = [browser_fd EXCEPT ![n] = f]
        /\ UNCHANGED <<server_fd, ready, data, gone>>
        /\ config_ready' = config_ready \cup {f} /\ f \notin open
    BY <1>3, <2>2 DEF Accept, Watch, IsLowestFree, round, peers
  <2>4. ready \subseteq config_ready /\ f \notin ready
    BY <1>0, <2>3 DEF ReadyOK, FdsOK
  <2>5. FdsOf(created)' \subseteq {f}
    BY <1>0, <2>2, <2>3 DEF FdsOf, TypeOK
  <2> QED
    BY <1>0, <2>1, <2>3, <2>4, <2>5 DEF ReadyOK, HandlerHasInput
<1>4. CASE Query \/ Resolved \/ \E f \in Fd : ServerSocket(f)
  <2>1. Owed' = Owed
    BY <1>4, AdmitOwed
  <2>2. /\ Admitting /\ Admitting'
        /\ UNCHANGED <<ready, data, gone, browser_fd, server_fd, created, config_ready>>
    BY <1>4 DEF Query, Resolved, ServerSocket, conns, round, watch, peers
  <2>3. FdsOf(created)' = FdsOf(created)
    BY <2>2 DEF FdsOf
  <2> QED
    BY <1>0, <2>1, <2>2, <2>3 DEF ReadyOK, HandlerHasInput
<1>5. CASE EndScan \/ (pc \in {"browser", "server"} /\ Killed)
  <2>1. Owed' = {} /\ pc' \in {"select", "killed"}
    BY <1>5 DEF EndScan, Killed, Owed, Ahead
  <2> QED
    BY <2>1 DEF ReadyOK, HandlerHasInput
<1>6. CASE Scan
  <2>1. Owed' = Owed \ Flagged(curr) /\ Flagged(curr) \subseteq Owed
    BY <1>6, ScanOwed
  <2>2. /\ UNCHANGED <<ready, data, gone, browser_fd, server_fd>>
        /\ pc' \in {"scan", "browser", "server"}
        /\ pc' \in {"browser", "server"} => curr' = curr
        /\ pc' = "browser" => browser_fd[curr] \in Flagged(curr)
        /\ pc' = "server" => server_fd[curr] \in Flagged(curr)
        /\ server_fd[curr] \in ready => server_fd[curr] \in Flagged(curr)
    BY <1>6 DEF Scan, Flagged, conns, peers
  <2>3. Owed \subseteq data \cup gone
    BY <1>0 DEF ReadyOK
  <2> QED
    BY <2>1, <2>2, <2>3 DEF ReadyOK, HandlerHasInput
<1>7. CASE HandlerOk
  <2>1. Owed' = Owed
    BY <1>7, TurnOwed
  <2>2. PICK n \in Live : n = curr
    BY <1>0, <1>7 DEF HandlerOk, CurrOK
  <2>3. \A c \in Ahead : c \in Conn /\ c # n
    BY <1>7, <2>2 DEF HandlerOk, Ahead, Live, Conn
  <2>4. FdsOf(n) \cap Owed = {}
    BY <1>0, <2>2, <2>3 DEF FdsOK, Owed, Live
  <2>5. PICK f : /\ data' = data \ {f} /\ f \in {browser_fd[n], server_fd[n]}
                 /\ (pc' = "server" => f = browser_fd[n] /\ pc = "browser" /\ curr' = n)
    BY <1>7, <2>2 DEF HandlerOk, Drain
  <2>6. UNCHANGED <<gone, ready, browser_fd, server_fd>> /\ pc' \in {"scan", "server"}
    BY <1>7 DEF HandlerOk, Drain, conns
  <2>7. f \notin Owed
    BY <1>0, <2>4, <2>5 DEF FdsOf, Owed, TypeOK, Fd, NoFd
  <2>8. pc' = "server" => server_fd[n] \in data' \cup gone'
    <3> SUFFICES ASSUME pc' = "server" PROVE server_fd[n] \in data' \cup gone'
      OBVIOUS
    <3>1. server_fd[n] \in ready /\ server_fd[n] \in data \cup gone
      <4>1. CurrOK'
        BY CurrNext
      <4>2. server_fd[n] \in ready
        BY <2>5, <2>6, <4>1 DEF CurrOK
      <4> QED
        BY <1>0, <2>2, <2>5, <4>2 DEF ReadyOK
    <3>2. server_fd[n] # browser_fd[n]
      BY <1>0, <2>2, <3>1 DEF FdsOK, TypeOK, Fd, NoFd, Live
    <3> QED
      BY <2>5, <2>6, <3>1, <3>2
  <2> QED
    BY <1>0, <2>1, <2>5, <2>6, <2>7, <2>8 DEF ReadyOK, HandlerHasInput
<1>8. CASE Dropped
  <2>1. Owed' = Owed
    BY <1>8, TurnOwed
  <2>2. PICK n \in Live : n = curr
    BY <1>0, <1>8 DEF Dropped, CurrOK
  <2>3. \A c \in Ahead : c \in Conn /\ c # n
    BY <1>8, <2>2 DEF Dropped, Ahead, Live, Conn
  <2>4. FdsOf(n) \cap Owed = {}
    BY <1>0, <2>2, <2>3 DEF FdsOK, Owed, Live
  <2>5. data' = data \ FdsOf(n) /\ gone' = gone \ FdsOf(n) /\ pc' = "scan"
    BY <1>8, <2>2 DEF Dropped, CloseAndAdvance
  <2> QED
    BY <1>0, <2>1, <2>4, <2>5 DEF ReadyOK, HandlerHasInput
<1>9. CASE Environment \/ Stopped \/ SendBlocks \/ UNCHANGED vars
  <2>1. Owed' = Owed /\ UNCHANGED local
    BY <1>9, EnvironmentOwed
  <2>2. /\ UNCHANGED <<pc, curr, created, ready, browser_fd, server_fd, config_ready>>
        /\ FdsOf(created)' = FdsOf(created)
    BY <2>1 DEF local, conns, round, watch, FdsOf
  <2>3. data \subseteq data' /\ gone \subseteq gone'
    BY <1>9 DEF Environment, ClientConnects, DnsAnswers, DnsLoses, PeerSends,
       PeerCloses, PeerReads, SendBlocks, Blocks, Stopped, vars, peers
  <2>4. backlog > 0 => backlog' > 0
    BY <1>0, <1>9 DEF Environment, ClientConnects, DnsAnswers, DnsLoses, PeerSends,
       PeerCloses, PeerReads, SendBlocks, Blocks, Stopped, vars, TypeOK
  <2> QED
    BY <1>0, <2>1, <2>2, <2>3, <2>4 DEF ReadyOK, HandlerHasInput
<1> QED
  BY <1>1, <1>2, <1>3, <1>4, <1>5, <1>6, <1>7, <1>8, <1>9, HandlerKinds
  DEF Next, Loop, Admit, Linked, NoServerSocket, QueryFails, ConnectFails, Connect

\* Every step keeps the countdown at the number of descriptors owed a turn.
LEMMA CountNext == IInv /\ [Next]_vars => CountdownExact'
<1> SUFFICES ASSUME IInv, [Next]_vars PROVE CountdownExact'
  OBVIOUS
<1> USE DEF Admitting, Running
<1>0. TypeOK /\ FdsOK /\ CountdownExact
  BY DEF IInv
<1>1. Owed \in SUBSET Fd /\ IsFiniteSet(Owed) /\ Cardinality(Owed) \in Nat
  BY <1>0, FdSubsetFinite DEF Owed, TypeOK
<1>2. CASE Select
  <2>1. pc' \in {"accept", "scan"} /\ Owed' = Snapshot \ {ListenFd}
    BY <1>2, SelectOwed
  <2>2. ready_num' = Cardinality(Snapshot)
        /\ (pc' = "accept" <=> ListenFd \in Snapshot)
    BY <1>2, <2>1 DEF Select, AfterSelect
  <2>3. IsFiniteSet(Snapshot) /\ Cardinality(Snapshot) \in Nat
    BY <1>0, FdSubsetFinite DEF Snapshot, TypeOK
  <2>4. Cardinality(Snapshot \ {ListenFd}) =
          Cardinality(Snapshot) - (IF ListenFd \in Snapshot THEN 1 ELSE 0)
    BY <2>3, FS_RemoveElement
  <2> QED
    BY <2>1, <2>2, <2>3, <2>4 DEF CountdownExact
<1>3. CASE MallocFails \/ AcceptFails \/ Linked
  <2>1. /\ pc = "accept" \/ Admitting
        /\ pc' = "scan" /\ Owed' = Owed /\ ready_num' = ready_num - 1
    BY <1>3, AdmitOwed DEF MallocFails, AcceptFails, Linked, LinkWithoutServer,
       Connect, StartScan
  <2> QED
    BY <1>0, <1>1, <2>1 DEF CountdownExact
<1>4. CASE Query \/ Resolved \/ \E f \in Fd : Accept(f) \/ ServerSocket(f)
  <2>1. /\ pc = "accept" \/ Admitting
        /\ Admitting' /\ Owed' = Owed /\ ready_num' = ready_num
    BY <1>4, AdmitOwed DEF Query, Resolved, Accept, ServerSocket, round
  <2> QED
    BY <1>0, <1>1, <2>1 DEF CountdownExact
<1>5. CASE EndScan
  <2>1. pc' = "select" /\ Owed' = {} /\ ready_num' = ready_num
    BY <1>5 DEF EndScan, Owed, Ahead, round
  <2>2. ready_num = Cardinality(Owed)
    BY <1>0, <1>1, <1>5 DEF EndScan, CountdownExact
  <2>3. curr = NullConn => Owed = {}
    BY <1>5 DEF EndScan, Owed, Ahead, Live, Conn, NullConn
  <2>4. ready_num = 0
    BY <1>1, <1>5, <2>2, <2>3, FS_EmptySet DEF EndScan
  <2> QED
    BY <2>1, <2>4, FS_EmptySet DEF CountdownExact
<1>6. CASE pc \in {"browser", "server"} /\ Killed
  BY <1>6 DEF Killed, CountdownExact
<1>7. CASE Scan
  <2>1. Owed' = Owed \ Flagged(curr) /\ Flagged(curr) \subseteq Owed
    BY <1>7, ScanOwed
  <2>2. Cardinality(Owed') = Cardinality(Owed) - Cardinality(Flagged(curr))
    <3>1. Owed \cap Flagged(curr) = Flagged(curr)
      BY <2>1
    <3>2. Cardinality(Owed \ Flagged(curr)) = Cardinality(Owed) - Cardinality(Owed \cap Flagged(curr))
      BY <1>1, FS_Difference
    <3> QED
      BY <2>1, <3>1, <3>2
  <2>3. pc = "scan" /\ pc' \in {"scan", "browser", "server"}
        /\ ready_num' = ready_num - Cardinality(Flagged(curr))
    BY <1>7 DEF Scan, CountDown
  <2>4. Cardinality(Flagged(curr)) \in Nat
    BY <1>1, <2>1, FS_Subset, FS_CardinalityType
  <2> QED
    BY <1>0, <1>1, <2>1, <2>2, <2>3, <2>4 DEF CountdownExact
<1>8. CASE HandlerOk \/ Dropped
  <2>1. /\ Owed' = Owed /\ ready_num' = ready_num
        /\ pc \in {"browser", "server"} /\ pc' \in {"scan", "server"}
    BY <1>8, TurnOwed DEF HandlerOk, Dropped, Drain, CloseAndAdvance
  <2> QED
    BY <1>0, <1>1, <2>1 DEF CountdownExact
<1>9. CASE Environment \/ Stopped \/ SendBlocks \/ UNCHANGED vars
  <2>1. Owed' = Owed /\ UNCHANGED <<pc, ready_num>>
    BY <1>9, EnvironmentOwed DEF local, round
  <2> QED
    BY <1>0, <2>1 DEF CountdownExact
<1> QED
  BY <1>2, <1>3, <1>4, <1>5, <1>6, <1>7, <1>8, <1>9, HandlerKinds
  DEF Next, Loop, Admit, Linked, NoServerSocket, QueryFails, ConnectFails, Connect

\* IInv is inductive.
LEMMA NextIInv == IInv /\ [Next]_vars => IInv'
<1> SUFFICES ASSUME IInv, [Next]_vars PROVE IInv'
  OBVIOUS
<1>1. NeverExits'
  <2>1. CASE Select
    BY <2>1, SelectOwed DEF NeverExits
  <2>2. CASE ~Select
    <3>1. pc # "exited"
      BY DEF IInv, NeverExits
    <3>2. CASE Environment \/ Stopped \/ SendBlocks \/ UNCHANGED vars
      BY <3>1, <3>2, EnvironmentOwed DEF local, NeverExits
    <3>3. CASE Loop
      BY <2>2, <3>3, <3>2, HandlerKinds DEF Loop, Admit, MallocFails, AcceptFails,
         NoServerSocket, QueryFails, Query, Resolved, ConnectFails, Connect,
         Accept, ServerSocket, LinkWithoutServer, StartScan, EndScan, Scan,
         HandlerOk, Dropped, Killed, CloseAndAdvance, NeverExits
    <3> QED
      BY <3>2, <3>3 DEF Next
  <2> QED
    BY <2>1, <2>2
<1> QED
  BY <1>1, TypeNext, ListNext, FdsNext, StructsNext, CurrNext, ReadyNext, CountNext
  DEF IInv

-----------------------------------------------------------------------------
(* The theorems *)

\* IInv holds in every reachable state of the proxy's loop.
THEOREM Invariant == Spec => []IInv
BY InitIInv, NextIInv, PTL DEF Spec

\* Every variable of the loop keeps to its type.
THEOREM TypeCorrect == Spec => []TypeOK
<1>1. IInv => TypeOK
  BY DEF IInv
<1> QED
  BY <1>1, Invariant, PTL

\* config.list_conn always links exactly the live connections, newest first,
\* in both directions, although connections are removed while it is walked.
THEOREM ListCorrect == Spec => []ListOK
<1>1. IInv => ListOK
  BY DEF IInv
<1> QED
  BY <1>1, Invariant, PTL

\* No descriptor is shared, leaked, left in select's set after close, or
\* above fd_max; hence proxy_run never leaves its loop on EBADF.
THEOREM DescriptorsCorrect == Spec => [](FdsOK /\ NeverExits)
<1>1. IInv => FdsOK /\ NeverExits
  BY DEF IInv
<1> QED
  BY <1>1, Invariant, PTL

\* A scan that stops on ready_num = 0 has skipped no readable connection.
THEOREM CountdownCorrect == Spec => []CountdownExact
<1>1. IInv => CountdownExact
  BY DEF IInv
<1> QED
  BY <1>1, Invariant, PTL

\* recv is called only on a socket with input or an end of file.
THEOREM InputCorrect == Spec => []HandlerHasInput
<1>1. IInv => HandlerHasInput
  BY DEF IInv, ReadyOK
<1> QED
  BY <1>1, Invariant, PTL
=============================================================================
