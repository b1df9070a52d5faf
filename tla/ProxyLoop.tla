------------------------------ MODULE ProxyLoop ------------------------------
(***************************************************************************)
(* The single-threaded select loop of the proxy (src/src/proxy2.c,         *)
(* proxy_run) with everything a pass of it touches: the doubly linked list *)
(* of connections, the descriptor set select watches, the kernel's         *)
(* descriptor table, the blocking steps of accepting a browser (socket,    *)
(* bind, resolve, connect), the countdown that ends a scan early, and the  *)
(* removal of a connection while the list is being walked.                 *)
(*                                                                         *)
(* What travels over a connection is abstracted to "there is input" and    *)
(* "the peer is gone"; ProxyStream models the bytes of one connection.     *)
(***************************************************************************)
EXTENDS Integers, FiniteSets

CONSTANTS MaxConn,     \* bound: proxy_conn_t structs malloc can deliver
          MaxFd,       \* RLIMIT_NOFILE: highest descriptor (below FD_SETSIZE)
          MaxBacklog,  \* bound: browsers waiting in the listen queue
          NeedDns,     \* config.need_dns: no www-ip on the command line
          DnsMayLose   \* the network may lose a DNS datagram

ASSUME ConstantsAssumption ==
  /\ MaxConn \in Nat /\ MaxFd \in Nat \ {0} /\ MaxBacklog \in Nat
  /\ NeedDns \in BOOLEAN /\ DnsMayLose \in BOOLEAN

\* A proxy_conn_t is named by the order of its malloc.  No struct is ever
\* freed, so a name is never reused.
Conn     == 1 .. MaxConn
NullConn == 0
Fd       == 1 .. MaxFd
NoFd     == 0        \* a zeroed struct's fd: "no socket" to proxy_conn_close
ListenFd == 1        \* the first descriptor the process opens

VARIABLES
  pc,            \* where proxy_run is
  created,       \* structs malloc'ed so far
  list_conn,     \* config.list_conn
  next, prev,    \* conn->next, conn->prev
  browser_fd,    \* conn->browser.fd
  server_fd,     \* conn->server.fd
  config_ready,  \* config.ready
  fd_max,        \* config.fd_max
  ready,         \* the local copy select has reduced to the readable ones
  ready_num,     \* select's result, counted down
  curr,          \* the iterator of the scan
  sock,          \* proxy_connect_server's socket before it is connected
  open,          \* kernel: this process's open sockets
  backlog,       \* kernel: browsers connected and not yet accepted
  data,          \* kernel: sockets with bytes to read
  gone,          \* kernel: sockets whose peer has closed or reset
  stuck,         \* kernel: the full socket send sleeps for, as its peer does not
                 \*   read
  room,          \* kernel: that peer has read since
  dns            \* the one outstanding DNS query

conns == <<created, list_conn, next, prev, browser_fd, server_fd>>
round == <<ready, ready_num, curr>>
watch == <<config_ready, fd_max>>
peers == <<data, gone, stuck, room>>
vars  == <<pc, conns, round, watch, sock, open, backlog, peers, dns>>

-----------------------------------------------------------------------------
Init ==
  /\ pc = "select" /\ created = 0 /\ list_conn = NullConn
  /\ next = [c \in Conn |-> NullConn] /\ prev = [c \in Conn |-> NullConn]
  /\ browser_fd = [c \in Conn |-> NoFd] /\ server_fd = [c \in Conn |-> NoFd]
  /\ config_ready = {ListenFd} /\ fd_max = ListenFd + 1
  /\ ready = {} /\ ready_num = 0 /\ curr = NullConn
  /\ sock = NoFd /\ open = {ListenFd} /\ backlog = 0
  /\ data = {} /\ gone = {} /\ stuck = NoFd /\ room = FALSE /\ dns = "idle"

Readable(f) == IF f = ListenFd THEN backlog > 0 ELSE f \in data \cup gone

\* A new descriptor is the lowest one that is free.
IsLowestFree(f) == f \in Fd \ open /\ \A g \in Fd \ open : f <= g

\* The mutants named *_Bug are one-line mistakes the properties must catch.

\* The descriptors select reports.
Snapshot == {f \in config_ready : f < fd_max /\ Readable(f)}

\* New browsers are looked at only when no connection has input.
AfterSelect_Bug == IF Snapshot = {ListenFd} THEN "accept" ELSE "scan"
AfterSelect     == IF ListenFd \in Snapshot THEN "accept" ELSE "scan"

\* select blocks until something is readable; it fails with EBADF, which ends
\* proxy_run, when it is asked to watch a closed descriptor.
Select ==
  /\ pc = "select"
  /\ Snapshot # {}
  /\ ready' = Snapshot
  /\ ready_num' = Cardinality(Snapshot)
  /\ curr' = list_conn
  /\ pc' = IF {f \in config_ready : f < fd_max} \subseteq open
           THEN AfterSelect ELSE "exited"
  /\ UNCHANGED <<conns, watch, sock, open, backlog, peers, dns>>

-----------------------------------------------------------------------------
(* A new browser: malloc, accept, and a server connection of its own.      *)

\* The new connection is counted too.
StartScan_Bug(head) == /\ ready_num' = ready_num - 2
                       /\ curr' = head
                       /\ pc' = "scan"
\* The countdown for the listening socket, and the scan that follows.
StartScan(head) == /\ ready_num' = ready_num - 1
                   /\ curr' = head
                   /\ pc' = "scan"

CanMalloc     == created < MaxConn

MallocFails ==
  /\ pc = "accept" /\ ~CanMalloc
  /\ StartScan(list_conn)
  /\ UNCHANGED <<conns, ready, watch, sock, open, backlog, peers, dns>>

\* accept fails at the descriptor limit: the struct is lost, the browser
\* stays in the listen queue.
AcceptFails ==
  /\ pc = "accept" /\ CanMalloc /\ Fd \subseteq open
  /\ created' = created + 1
  /\ StartScan(list_conn)
  /\ UNCHANGED <<list_conn, next, prev, browser_fd, server_fd, ready, watch,
                 sock, open, backlog, peers, dns>>

\* The test is on the wrong side of fd_max.
Watch_Bug(f) == /\ config_ready' = config_ready \cup {f}
                /\ fd_max' = IF f > fd_max THEN f + 1 ELSE fd_max
\* FD_SET(f, &config.ready), and fd_max kept above f.
Watch(f) == /\ config_ready' = config_ready \cup {f}
            /\ fd_max' = IF f >= fd_max THEN f + 1 ELSE fd_max

Accept(f) ==
  /\ pc = "accept" /\ CanMalloc /\ IsLowestFree(f)
  /\ created' = created + 1
  /\ browser_fd' = [browser_fd EXCEPT ![created + 1] = f]
  /\ open' = open \cup {f}
  /\ backlog' = backlog - 1
  /\ Watch(f)
  /\ pc' = "connect"
  /\ UNCHANGED <<list_conn, next, prev, server_fd, round, sock, peers, dns>>

\* The old head is not told about its new predecessor.
LinkHead_Bug(c) == /\ list_conn' = c
                   /\ next' = [next EXCEPT ![c] = list_conn]
                   /\ prev' = prev
\* The list part of proxy_insert_conn.
LinkHead(c) ==
  /\ list_conn' = c
  /\ next' = [next EXCEPT ![c] = list_conn]
  /\ prev' = IF list_conn = NullConn THEN prev
             ELSE [prev EXCEPT ![list_conn] = c]

\* proxy_connect_server gave up and proxy_insert_conn ignores its result: the
\* connection is linked without a server.
LinkWithoutServer == /\ LinkHead(created)
                     /\ StartScan(created)
                     /\ sock' = NoFd
                     /\ open' = open \ {sock}
                     /\ UNCHANGED <<created, browser_fd, server_fd, ready,
                                    watch, backlog, peers>>

\* socket fails at the limit; bind to the fake ip fails at any time.
NoServerSocket == pc = "connect" /\ LinkWithoutServer /\ UNCHANGED dns

ServerSocket(f) ==
  /\ pc = "connect" /\ IsLowestFree(f)
  /\ sock' = f
  /\ open' = open \cup {f}
  /\ pc' = IF NeedDns THEN "query" ELSE "dial"
  /\ UNCHANGED <<conns, round, watch, backlog, peers, dns>>

\* resolve: sendto, which may fail, then a recvfrom that has no timeout.
QueryFails == pc = "query" /\ LinkWithoutServer /\ UNCHANGED dns

Query ==
  /\ pc = "query" /\ dns' = "asked" /\ pc' = "resolve"
  /\ UNCHANGED <<conns, round, watch, sock, open, backlog, peers>>

Resolved ==
  /\ pc = "resolve" /\ dns = "answered"
  /\ dns' = "idle" /\ pc' = "dial"
  /\ UNCHANGED <<conns, round, watch, sock, open, backlog, peers>>

ConnectFails == pc = "dial" /\ LinkWithoutServer /\ UNCHANGED dns

Connect ==
  /\ pc = "dial"
  /\ server_fd' = [server_fd EXCEPT ![created] = sock]
  /\ Watch(sock)
  /\ sock' = NoFd
  /\ LinkHead(created)
  /\ StartScan(created)
  /\ UNCHANGED <<created, browser_fd, ready, open, backlog, peers, dns>>

-----------------------------------------------------------------------------
(* The scan of the list.                                                   *)

Flagged(c) == {browser_fd[c], server_fd[c]} \cap ready

EndScan ==
  /\ pc = "scan" /\ (curr = NullConn \/ ready_num <= 0)
  /\ pc' = "select"
  /\ UNCHANGED <<conns, round, watch, sock, open, backlog, peers, dns>>

\* One count per connection, although both of its sockets are readable.
CountDown_Bug(c) == ready_num - (IF Flagged(c) = {} THEN 0 ELSE 1)
CountDown(c) == ready_num - Cardinality(Flagged(c))

\* fd_flag is computed and, when it is 0, the scan moves on.
Scan ==
  /\ pc = "scan" /\ curr # NullConn /\ ready_num > 0
  /\ ready_num' = CountDown(curr)
  /\ IF Flagged(curr) = {}
     THEN curr' = next[curr] /\ pc' = "scan"
     ELSE /\ curr' = curr
          /\ pc' = IF browser_fd[curr] \in ready THEN "browser" ELSE "server"
  /\ UNCHANGED <<conns, ready, watch, sock, open, backlog, peers, dns>>

\* The successor's prev still points at the removed connection.
RemoveConn_Bug(c) ==
  /\ next' = IF prev[c] = NullConn THEN next
             ELSE [next EXCEPT ![prev[c]] = next[c]]
  /\ prev' = prev
  /\ list_conn' = IF prev[c] = NullConn THEN next[c] ELSE list_conn
\* proxy_remove_conn.  The removed struct keeps its own next and prev.
RemoveConn(c) ==
  /\ next' = IF prev[c] = NullConn THEN next
             ELSE [next EXCEPT ![prev[c]] = next[c]]
  /\ prev' = IF next[c] = NullConn THEN prev
             ELSE [prev EXCEPT ![next[c]] = prev[c]]
  /\ list_conn' = IF prev[c] = NullConn THEN next[c] ELSE list_conn

FdsOf(c) == {browser_fd[c], server_fd[c]} \ {NoFd}

\* Without the FD_CLRs.
Unwatch_Bug(fds) == config_ready' = config_ready
Unwatch(fds) == config_ready' = config_ready \ fds

\* proxy_conn_close, and the step to the next connection of the scan.
CloseAndAdvance ==
  /\ open' = open \ FdsOf(curr)
  /\ data' = data \ FdsOf(curr)
  /\ gone' = gone \ FdsOf(curr)
  /\ stuck' = NoFd /\ room' = FALSE
  /\ Unwatch(FdsOf(curr))
  /\ browser_fd' = [browser_fd EXCEPT ![curr] = NoFd]
  /\ server_fd' = [server_fd EXCEPT ![curr] = NoFd]
  /\ RemoveConn(curr)
  /\ curr' = next[curr]
  /\ pc' = "scan"
  /\ UNCHANGED <<created, ready, ready_num, fd_max, sock, backlog, dns>>

\* The two sends of a response, or one to a server: to a peer that is gone
\* they succeed, fail, or raise SIGPIPE, as the reset arrives late or early;
\* without a server fd 0 is not a socket.
SendFates(f) == CASE f = NoFd   -> {"failed"}
                  [] f \in gone -> {"ok", "failed", "killed"}
                  [] OTHER      -> {"ok"}

\* A send that waits for its peer to read goes on when it does, or is gone.
WakeFates == IF room \/ stuck \in gone THEN SendFates(stuck) ELSE {}

\* recv without waiting fails when there is nothing to read; it fails on a
\* full buffer or a reset even if there is.
RecvFates(f, after) == IF f \in data THEN {"ok", "failed"} \cup after
                       ELSE {"failed"}

BrowserFates == IF stuck # NoFd THEN WakeFates
                ELSE RecvFates(browser_fd[curr], SendFates(server_fd[curr]))
ServerFates  == IF stuck # NoFd THEN WakeFates
                ELSE RecvFates(server_fd[curr], SendFates(browser_fd[curr])
                                                \cup SendFates(server_fd[curr]))

\* The handler has received, and its send fills the buffers of a peer that does
\* not read.  (What was received leaves data when the handler is done.)
Blocks(from, to) ==
  /\ stuck = NoFd /\ from \in data /\ to \notin gone \cup {NoFd}
  /\ stuck' = to
  /\ UNCHANGED <<pc, conns, round, watch, sock, open, backlog, data, gone, room, dns>>

\* A failed handler does not remove the connection.
Failed_Bug == /\ curr' = next[curr] /\ pc' = "scan"
              /\ stuck' = NoFd /\ room' = FALSE
              /\ UNCHANGED <<conns, ready, ready_num, watch, sock, open,
                             backlog, data, gone, dns>>
Failed == CloseAndAdvance

Killed == /\ pc' = "killed"
          /\ UNCHANGED <<conns, round, watch, sock, open, backlog, peers, dns>>

Drain(f) == /\ data' = data \ {f} /\ stuck' = NoFd /\ room' = FALSE
            /\ UNCHANGED <<conns, ready, ready_num, watch, sock, open, backlog,
                           gone, dns>>

HandleBrowser ==
  /\ pc = "browser"
  /\ \/ /\ "ok" \in BrowserFates
        /\ Drain(browser_fd[curr])
        /\ IF server_fd[curr] \in ready
           THEN curr' = curr /\ pc' = "server"
           ELSE curr' = next[curr] /\ pc' = "scan"
     \/ "failed" \in BrowserFates /\ Failed
     \/ "killed" \in BrowserFates /\ Killed
     \/ Blocks(browser_fd[curr], server_fd[curr])

HandleServer ==
  /\ pc = "server"
  /\ \/ /\ "ok" \in ServerFates
        /\ Drain(server_fd[curr])
        /\ curr' = next[curr] /\ pc' = "scan"
     \/ "failed" \in ServerFates /\ Failed
     \/ "killed" \in ServerFates /\ Killed
     \/ \E to \in {browser_fd[curr], server_fd[curr]} : Blocks(server_fd[curr], to)

-----------------------------------------------------------------------------
(* The environment: browsers, servers and the DNS server.                  *)

Running   == pc \notin {"killed", "exited"}
Connected == UNION {FdsOf(c) : c \in Conn}
local     == <<pc, conns, round, watch, sock, open>>

ClientConnects == /\ Running /\ backlog < MaxBacklog
                  /\ backlog' = backlog + 1
                  /\ UNCHANGED <<local, peers, dns>>

PeerSends(f) == /\ Running /\ f \in Connected \ (data \cup gone)
                /\ data' = data \cup {f}
                /\ UNCHANGED <<local, backlog, gone, stuck, room, dns>>

PeerCloses(f) == /\ Running /\ f \in Connected \ gone
                 /\ gone' = gone \cup {f}
                 /\ UNCHANGED <<local, backlog, data, stuck, room, dns>>

\* The peer whose buffers are full reads, which it need not do.
PeerReads == /\ Running /\ stuck # NoFd /\ ~room
             /\ room' = TRUE
             /\ UNCHANGED <<local, backlog, data, gone, stuck, dns>>

DnsAnswers == dns = "asked" /\ dns' = "answered"
              /\ UNCHANGED <<local, backlog, peers>>

DnsLoses == DnsMayLose /\ dns = "asked" /\ dns' = "lost"
            /\ UNCHANGED <<local, backlog, peers>>

\* A dead process takes no step; its stuttering is not a deadlock.
Stopped == ~Running /\ UNCHANGED vars

-----------------------------------------------------------------------------
Admit == \/ MallocFails \/ AcceptFails \/ NoServerSocket \/ QueryFails
         \/ Query \/ Resolved \/ ConnectFails \/ Connect
         \/ \E f \in Fd : Accept(f) \/ ServerSocket(f)

Loop == Select \/ Admit \/ EndScan \/ Scan \/ HandleBrowser \/ HandleServer

Environment == \/ ClientConnects \/ DnsAnswers \/ DnsLoses \/ PeerReads
               \/ \E f \in Fd : PeerSends(f) \/ PeerCloses(f)

Next == Loop \/ Environment \/ Stopped

Spec == Init /\ [][Next]_vars

\* The process is scheduled; a query the network has not lost is answered.
\* Nothing is assumed of browsers and web servers, which need not even read.
FairSpec == Spec /\ WF_vars(Loop) /\ WF_vars(DnsAnswers)

-----------------------------------------------------------------------------
(* Properties                                                              *)

\* Every variable ranges over the values its C type and its use allow.
TypeOK ==
  /\ pc \in {"select", "accept", "connect", "query", "resolve", "dial",
             "scan", "browser", "server", "killed", "exited"}
  /\ created \in 0 .. MaxConn
  /\ list_conn \in Conn \cup {NullConn}
  /\ next \in [Conn -> Conn \cup {NullConn}]
  /\ prev \in [Conn -> Conn \cup {NullConn}]
  /\ browser_fd \in [Conn -> Fd \cup {NoFd}]
  /\ server_fd \in [Conn -> Fd \cup {NoFd}]
  /\ config_ready \subseteq Fd /\ fd_max \in Nat
  /\ ready \subseteq Fd /\ ready_num \in Int
  /\ curr \in Conn \cup {NullConn}
  /\ sock \in Fd \cup {NoFd} /\ open \subseteq Fd /\ backlog \in Nat
  /\ data \subseteq Fd /\ gone \subseteq Fd
  /\ stuck \in Fd \cup {NoFd} /\ room \in BOOLEAN
  /\ dns \in {"idle", "asked", "answered", "lost"}

Admitting == pc \in {"connect", "query", "resolve", "dial"}

\* The connections the loop looks after: those with a browser, without the
\* one still being set up.
Live == {c \in Conn : browser_fd[c] # NoFd /\ (Admitting => c # created)}

\* n is the first live connection older than c, p the first younger one.
IsOlder(n, c)   == IF n = NullConn THEN \A d \in Live : d >= c
                   ELSE n \in Live /\ n < c /\ \A d \in Live : d >= c \/ d <= n
IsYounger(p, c) == IF p = NullConn THEN \A d \in Live : d <= c
                   ELSE p \in Live /\ p > c /\ \A d \in Live : d <= c \/ d >= p

\* config.list_conn links exactly the live connections, newest first, in both
\* directions, whatever was closed while the list was being walked.
ListOK ==
  /\ IF list_conn = NullConn THEN Live = {}
     ELSE list_conn \in Live /\ \A d \in Live : d <= list_conn
  /\ \A c \in Live : IsOlder(next[c], c) /\ IsYounger(prev[c], c)

\* A descriptor belongs to one socket of one connection, is open exactly as
\* long as it belongs to one, and is watched by select once it is connected.
FdsOK ==
  /\ \A c, d \in Conn : c # d => FdsOf(c) \cap FdsOf(d) = {}
  /\ \A c \in Conn : browser_fd[c] = server_fd[c] => browser_fd[c] = NoFd
  /\ config_ready = {ListenFd} \cup Connected
  /\ ListenFd \notin Connected
  /\ sock \notin config_ready
  /\ open = config_ready \cup ({sock} \ {NoFd})
  /\ \A f \in config_ready : f < fd_max

\* proxy_run never leaves its loop: select is never asked about a closed
\* descriptor.
NeverExits == pc # "exited"

\* The connections the scan has not reached.
Ahead == CASE pc \in {"select", "killed", "exited"} -> {}
           [] pc = "scan" -> {c \in Live : c <= curr}
           [] pc \in {"browser", "server"} -> {c \in Live : c < curr}
           [] OTHER -> Live

\* The descriptors select reported that the scan has not reached.
Owed == {f \in ready : \E c \in Ahead : f \in FdsOf(c)}

\* The countdown is exact: ready_num is the number of descriptors select
\* reported that the round has still to handle, so a scan that ends on
\* ready_num = 0 has skipped nobody.
CountdownExact ==
  Running => ready_num =
    Cardinality(Owed) + (IF pc = "accept" \/ Admitting THEN 1 ELSE 0)

\* A handler calls recv only on a socket that has input or an end of file:
\* the non-blocking recv never closes a connection, in particular one that
\* was accepted in this round, merely because it is idle.
HandlerHasInput ==
  /\ pc = "browser" => browser_fd[curr] \in data \cup gone
  /\ pc = "server"  => server_fd[curr] \in data \cup gone

\* Abstraction: the connections with a flag that the scan has not reached,
\* the one whose handlers run, and those with input.
Todo    == {c \in Ahead : Flagged(c) # {}}
Turn    == IF pc \in {"browser", "server"} THEN {curr} ELSE {}
Waiting == {c \in Live : FdsOf(c) \cap (data \cup gone) # {}}
Rounds == INSTANCE SelectRound
            WITH live <- Live, waiting <- Waiting, todo <- Todo,
                 turn <- Turn, up <- (pc # "killed")
\* The loop implements the rounds of SelectRound.
ImplementsRounds == Rounds!Spec

\* The loop does no more work: its process has ended, or waits in resolve for
\* a datagram the network has lost.
Over == ~Running \/ dns = "lost"

\* The one peer the loop waits for, in send, never makes room.
HeldUp == [](stuck # NoFd)

\* A connection whose browser or server has closed is removed, unless another
\* peer that never reads holds up the loop for ever.
Reaped == \A c \in Conn :
  (FdsOf(c) \cap gone # {}) ~> (browser_fd[c] = NoFd \/ Over \/ HeldUp)

\* Input that arrives on a connection is read, or the connection is closed,
\* unless a peer that never reads holds up the loop for ever.
Served == \A f \in Fd : (f \in data) ~> (f \notin data \/ Over \/ HeldUp)

\* What the properties above rest on.  A struct not yet malloc'ed is zeroed,
\* the one being set up has a browser and no links, and the socket meant for
\* its server exists from socket() to connect().
StructsOK ==
  /\ \A c \in Conn : c > created => /\ FdsOf(c) = {}
                                    /\ next[c] = NullConn /\ prev[c] = NullConn
  /\ \A c \in Conn : server_fd[c] # NoFd => browser_fd[c] # NoFd
  /\ Admitting => /\ created \in Conn /\ browser_fd[created] # NoFd
                  /\ server_fd[created] = NoFd
                  /\ next[created] = NullConn /\ prev[created] = NullConn
  /\ sock # NoFd <=> pc \in {"query", "resolve", "dial"}

\* The scan stands on a live connection, and a handler on one it was flagged
\* for.
CurrOK ==
  /\ pc = "scan" => curr \in Live \cup {NullConn}
  /\ pc \in {"browser", "server"} => curr \in Live
  /\ pc = "browser" => browser_fd[curr] \in ready
  /\ pc = "server" => server_fd[curr] \in ready

\* What select reported and is not handled yet still has input; what is opened
\* after select returned is not among it.
ReadyOK ==
  /\ pc = "accept" => backlog > 0
  /\ pc = "accept" \/ Admitting => ready \subseteq config_ready
  /\ Admitting => ready \cap FdsOf(created) = {}
  /\ Owed \subseteq data \cup gone
  /\ pc = "browser" /\ server_fd[curr] \in ready
       => server_fd[curr] \in data \cup gone
  /\ HandlerHasInput

\* The inductive invariant.
IInv == /\ TypeOK /\ ListOK /\ FdsOK /\ StructsOK /\ CurrOK /\ ReadyOK
        /\ CountdownExact /\ NeverExits

\* A waiting browser is accepted, unless the process is out of descriptors
\* or of memory, or held up for ever by a peer that never reads.
Admitted == (backlog > 0) ~>
  (backlog = 0 \/ created = MaxConn \/ Fd \subseteq open \/ Over \/ HeldUp)

=============================================================================
