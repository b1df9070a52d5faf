------------------------- MODULE ProxyLoopRefinement -------------------------
(***************************************************************************)
(* ProxyLoop implements SelectRound, for every number of connections and   *)
(* descriptors: under the mapping of Rounds in ProxyLoop every step of the *)
(* loop is a step of a round or changes nothing a round can see.           *)
(***************************************************************************)
EXTENDS ProxyLoopProofs

RoundVars == <<Live, Waiting, Todo, Turn, pc # "killed">>

\* What the mapping reads, unchanged.
LEMMA SameRound ==
  ASSUME Live' = Live, ready' = ready, UNCHANGED <<data, gone>>,
         \A c \in Live : /\ browser_fd'[c] = browser_fd[c]
                         /\ server_fd'[c] = server_fd[c]
  PROVE  /\ \A c \in Live : Flagged(c)' = Flagged(c) /\ FdsOf(c)' = FdsOf(c)
         /\ Waiting' = Waiting
<1>1. \A c \in Live : Flagged(c)' = Flagged(c) /\ FdsOf(c)' = FdsOf(c)
  BY DEF Flagged, FdsOf
<1> QED
  BY <1>1 DEF Waiting

\* The empty program is a round that has not begun.
LEMMA RoundInit == Init => Rounds!Init
<1> SUFFICES ASSUME Init PROVE Rounds!Init
  OBVIOUS
<1>1. Live = {} /\ Todo = {} /\ Waiting = {} /\ Turn = {}
  BY DEF Init, Live, Todo, Waiting, Ahead, Turn
<1> QED
  BY <1>1 DEF Rounds!Init, Init

\* select begins a round with everyone who waits.
LEMMA RoundSelect == IInv /\ Select => Rounds!Begin
<1> SUFFICES ASSUME IInv, Select PROVE Rounds!Begin
  OBVIOUS
<1>0. TypeOK /\ ListOK /\ FdsOK /\ StructsOK
  BY DEF IInv
<1>1. Quiet /\ pc = "select" /\ ready' = Snapshot /\ curr' = list_conn
      /\ UNCHANGED <<data, gone, browser_fd, server_fd>> /\ pc' \in {"accept", "scan"}
  BY SelectOwed DEF Select, AfterSelect, Quiet, Admitting, conns, watch, peers
<1>2. Live' = Live /\ Ahead' = Live
  BY <1>0, <1>1, LiveNext, HeadOfList DEF Ahead
<1>3. Waiting' = Waiting
  BY <1>1, <1>2 DEF Waiting, FdsOf
<1>4. ASSUME NEW c \in Live
      PROVE  Flagged(c)' # {} <=> FdsOf(c) \cap (data \cup gone) # {}
  <2>1. FdsOf(c) \subseteq Connected /\ ListenFd \notin Connected
    BY <1>0 DEF FdsOK, Connected, Live
  <2>2. \A f \in Connected : f \in Snapshot <=> f \in data \cup gone
    BY <1>0, <2>1 DEF Snapshot, Readable, FdsOK
  <2>3. Flagged(c)' = FdsOf(c) \cap Snapshot
    BY <1>0, <1>1 DEF Flagged, FdsOf, Snapshot, TypeOK, Fd, NoFd
  <2> QED
    BY <2>1, <2>2, <2>3
<1>5. Todo' = Waiting
  BY <1>1, <1>2, <1>4 DEF Todo, Waiting
<1>6. Todo = {} /\ Turn = {} /\ Turn' = {}
  BY <1>1 DEF Todo, Ahead, Turn
<1> QED
  BY <1>1, <1>2, <1>3, <1>5, <1>6 DEF Rounds!Begin

\* Until the new connection is linked nothing is seen of it.
LEMMA RoundAdmit ==
  ASSUME IInv,
         MallocFails \/ AcceptFails \/ Query \/ Resolved
           \/ \E f \in Fd : Accept(f) \/ ServerSocket(f)
  PROVE  UNCHANGED RoundVars
<1>0. TypeOK /\ ListOK
  BY DEF IInv
<1>1. ready' = ready /\ UNCHANGED <<data, gone>> /\ pc # "killed" /\ pc' # "killed"
  BY DEF MallocFails, AcceptFails, Query, Resolved, Accept, ServerSocket,
     StartScan, round, peers
<1>2. Live' = Live /\ \A c \in Live : /\ browser_fd'[c] = browser_fd[c]
                                      /\ server_fd'[c] = server_fd[c]
  <2>1. CASE MallocFails \/ AcceptFails \/ Query \/ Resolved
             \/ \E f \in Fd : ServerSocket(f)
    <3>1. Quiet
      BY <2>1 DEF MallocFails, AcceptFails, Query, Resolved, ServerSocket,
         StartScan, Quiet, Admitting, conns, watch
    <3> QED
      BY <3>1, LiveNext DEF Quiet
  <2>2. ASSUME NEW f \in Fd, Accept(f)
        PROVE  Live' = Live /\ \A c \in Live : /\ browser_fd'[c] = browser_fd[c]
                                               /\ server_fd'[c] = server_fd[c]
    <3>1. Live' = Live
      BY <2>2, LiveNext
    <3>2. \A c \in Live : c \in Conn /\ c # created + 1
      BY <2>2, <3>1 DEF Live, Accept, Admitting
    <3> QED
      BY <1>0, <2>2, <3>1, <3>2 DEF Accept, TypeOK
  <2> QED
    BY <2>1, <2>2
<1>3. Ahead = Live /\ Ahead' = Live
  BY <1>0, <1>2, HeadOfList DEF MallocFails, AcceptFails, Query, Resolved, Accept,
     ServerSocket, StartScan, Ahead
<1>4. Todo' = Todo
  BY <1>1, <1>2, <1>3, SameRound DEF Todo
<1>5. Turn = {} /\ Turn' = {}
  BY DEF MallocFails, AcceptFails, Query, Resolved, Accept, ServerSocket, StartScan,
     Turn
<1> QED
  BY <1>1, <1>2, <1>4, <1>5, SameRound DEF RoundVars

\* The linked connection joins, without a turn in this round.
LEMMA RoundLink == IInv /\ Linked => \E c \in Conn : Rounds!Join(c)
<1> SUFFICES ASSUME IInv, Linked PROVE \E c \in Conn : Rounds!Join(c)
  OBVIOUS
<1>0. TypeOK /\ ListOK /\ FdsOK /\ StructsOK /\ ReadyOK
  BY DEF IInv
<1>1. PICK n \in Conn : n = created /\ ready \cap FdsOf(n) = {}
  BY <1>0 DEF Linked, StructsOK, ReadyOK
<1>2. /\ pc' = "scan" /\ curr' = n /\ ready' = ready /\ browser_fd' = browser_fd
      /\ server_fd' = server_fd \/ server_fd' = [server_fd EXCEPT ![n] = sock]
      /\ UNCHANGED <<data, gone>> /\ pc # "killed"
  BY <1>1 DEF Linked, LinkWithoutServer, Connect, StartScan, Admitting, peers
<1>3. Live' = Live \cup {n} /\ n \notin Live
  BY <1>1, LiveNext DEF Linked, Live
<1>4. \A c \in Live : browser_fd'[c] = browser_fd[c] /\ server_fd'[c] = server_fd[c]
  BY <1>0, <1>2, <1>3 DEF TypeOK, Live
<1>5. \A c \in Live : Flagged(c)' = Flagged(c) /\ FdsOf(c)' = FdsOf(c)
  BY <1>2, <1>4 DEF Flagged, FdsOf
<1>6. Waiting' \in {Waiting, Waiting \cup {n}}
  BY <1>2, <1>3, <1>5 DEF Waiting
<1>7. Ahead = Live /\ Ahead' = Live \cup {n}
  <2>1. \A c \in Live : c <= n
    BY <1>0, <1>1 DEF StructsOK, Live, FdsOf, Conn, TypeOK
  <2> QED
    BY <1>1, <1>2, <1>3, <2>1 DEF Linked, Ahead, Admitting, Conn
<1>8. Flagged(n)' = {}
  <2>1. sock \notin ready /\ NoFd \notin ready
    BY <1>0 DEF Linked, ReadyOK, FdsOK, TypeOK, Fd, NoFd
  <2> QED
    BY <1>0, <1>1, <1>2, <2>1 DEF Flagged, FdsOf, TypeOK
<1>9. Todo' = Todo /\ Turn = {} /\ Turn' = {}
  BY <1>2, <1>5, <1>7, <1>8 DEF Todo, Turn, Linked, Admitting
<1>10. Rounds!Join(n)
  BY <1>2, <1>3, <1>6, <1>9 DEF Rounds!Join
<1> QED
  BY <1>10

\* Walking over a connection without a flag, and ending the walk, is invisible;
\* a flagged connection takes its turn.
LEMMA RoundScan ==
  IInv /\ (Scan \/ EndScan) => UNCHANGED RoundVars \/ \E c \in Conn : Rounds!Take(c)
<1> SUFFICES ASSUME IInv, Scan \/ EndScan
             PROVE  UNCHANGED RoundVars \/ \E c \in Conn : Rounds!Take(c)
  OBVIOUS
<1>0. TypeOK /\ ListOK /\ FdsOK /\ CurrOK /\ CountdownExact /\ pc = "scan"
  BY DEF IInv, Scan, EndScan
<1>1. /\ Quiet /\ ready' = ready /\ UNCHANGED <<data, gone, browser_fd, server_fd>>
      /\ pc' \in {"select", "scan", "browser", "server"}
  BY DEF Scan, EndScan, Quiet, Admitting, conns, watch, round, peers
<1>2. Live' = Live /\ Waiting' = Waiting
      /\ \A c \in Live : Flagged(c)' = Flagged(c) /\ FdsOf(c)' = FdsOf(c)
  BY <1>1, LiveNext, SameRound
<1>3. Turn = {}
  BY <1>0 DEF Turn
<1>4. CASE EndScan
  <2>1. Owed = {}
    <3>1. Owed \in SUBSET Fd /\ IsFiniteSet(Owed) /\ Cardinality(Owed) \in Nat
      BY <1>0, FdSubsetFinite DEF Owed, TypeOK
    <3>2. CASE curr = NullConn
      BY <1>0, <3>2 DEF Owed, Ahead, Live, Conn, NullConn
    <3>3. CASE ready_num <= 0
      <4>1. Cardinality(Owed) = 0
        BY <1>0, <3>1, <3>3 DEF CountdownExact, Running, Admitting
      <4> QED
        BY <3>1, <4>1, FS_EmptySet
    <3> QED
      BY <1>4, <3>2, <3>3 DEF EndScan
  <2>2. Todo = {}
    BY <1>0, <2>1 DEF Todo, Owed, Flagged, FdsOf, TypeOK, Fd, NoFd
  <2>3. Todo' = {} /\ Turn' = {}
    BY <1>4 DEF EndScan, Todo, Ahead, Turn
  <2> QED
    BY <1>0, <1>1, <1>2, <1>3, <2>2, <2>3 DEF RoundVars
<1>5. CASE Scan
  <2>1. curr \in Live /\ Ahead = {c \in Live : c <= curr}
    BY <1>0, <1>5 DEF Scan, CurrOK, Ahead
  <2>2. Ahead' = {c \in Live : c < curr}
    <3>1. CASE pc' = "scan" /\ curr' = next[curr]
      BY <1>0, <1>2, <2>1, <3>1, NextInList DEF Ahead
    <3>2. CASE pc' \in {"browser", "server"} /\ curr' = curr
      BY <1>2, <3>2 DEF Ahead
    <3> QED
      BY <1>5, <3>1, <3>2 DEF Scan
  <2>3. Ahead = Ahead' \cup {curr} /\ curr \notin Ahead'
    BY <2>1, <2>2 DEF Live, Conn
  <2>4. Todo' = {c \in Ahead' : Flagged(c) # {}} /\ Todo = {c \in Ahead : Flagged(c) # {}}
    BY <1>2, <2>2 DEF Todo
  <2>5. CASE Flagged(curr) = {}
    <3>1. pc' = "scan" /\ Turn' = {}
      BY <1>5, <2>5 DEF Scan, Turn
    <3> QED
      BY <1>0, <1>2, <1>3, <2>3, <2>4, <2>5, <3>1 DEF RoundVars
  <2>6. CASE Flagged(curr) # {}
    <3>1. PICK n \in Conn : n = curr
      BY <2>1 DEF Live
    <3>2. pc' \in {"browser", "server"} /\ Turn' = {n}
      BY <1>5, <2>6, <3>1 DEF Scan, Turn
    <3>3. Todo' = Todo \ {n} /\ n \in Todo
      BY <2>3, <2>4, <2>6, <3>1
    <3>4. Rounds!Take(n)
      BY <1>0, <1>2, <1>3, <3>2, <3>3 DEF Rounds!Take
    <3> QED
      BY <3>4
  <2> QED
    BY <2>5, <2>6
<1> QED
  BY <1>4, <1>5

\* A handler serves the connection, once per round; between its two sockets
\* the round sees nothing.
LEMMA RoundServe ==
  IInv /\ IInv' /\ HandlerOk
    => UNCHANGED RoundVars \/ \E c \in Conn : Rounds!Serve(c)
<1> SUFFICES ASSUME IInv, IInv', HandlerOk
             PROVE  UNCHANGED RoundVars \/ \E c \in Conn : Rounds!Serve(c)
  OBVIOUS
<1>0. TypeOK /\ ListOK /\ FdsOK /\ CurrOK /\ pc \in {"browser", "server"}
  BY DEF IInv, HandlerOk
<1>1. PICK n \in Live : n = curr /\ n \in Conn
  BY <1>0 DEF CurrOK, Live
<1>2. /\ Quiet /\ UNCHANGED <<ready, gone, browser_fd, server_fd>>
      /\ pc' \in {"scan", "server"}
  BY DEF HandlerOk, Quiet, Drain, Admitting, conns, watch
<1>3. Live' = Live /\ \A c \in Live : Flagged(c)' = Flagged(c) /\ FdsOf(c)' = FdsOf(c)
  BY <1>2, LiveNext DEF Flagged, FdsOf
<1>4. Ahead = {c \in Live : c < n} /\ n \notin Ahead
  BY <1>0, <1>1 DEF Ahead, Conn
<1>5. Todo = {c \in Ahead : Flagged(c) # {}} /\ Turn = {n}
  BY <1>0, <1>1 DEF Todo, Turn
<1>6. Ahead' = Ahead
  <2>1. CASE pc' = "server" /\ curr' = n
    BY <1>3, <1>4, <2>1 DEF Ahead
  <2>2. CASE pc' = "scan" /\ curr' = next[n]
    BY <1>0, <1>3, <1>4, <2>2, NextInList DEF Ahead
  <2> QED
    BY <1>1, <2>1, <2>2 DEF HandlerOk
<1>7. PICK f : data' = data \ {f} /\ f \in {browser_fd[n], server_fd[n]}
  BY <1>1 DEF HandlerOk, Drain
<1>8. ASSUME NEW c \in Live, c # n
      PROVE  (FdsOf(c) \cap (data \cup gone))' = FdsOf(c) \cap (data \cup gone)
  <2>1. f \notin FdsOf(c)
    BY <1>0, <1>1, <1>7, <1>8 DEF FdsOK, FdsOf, Live
  <2> QED
    BY <1>2, <1>3, <1>7, <2>1
<1>9. Waiting' \in {Waiting, Waiting \ {n}}
  <2>1. \A c \in Live \ {n} : c \in Waiting' <=> c \in Waiting
    BY <1>3, <1>8 DEF Waiting
  <2>2. n \in Waiting' => n \in Waiting
    BY <1>1, <1>2, <1>3, <1>7 DEF Waiting
  <2> QED
    BY <1>3, <2>1, <2>2 DEF Waiting
<1>10. Todo' = Todo
  BY <1>3, <1>4, <1>5, <1>6 DEF Todo
<1>11. CASE pc' = "server"
  <2>1. curr' = curr /\ Turn' = {n}
    BY <1>1, <1>11 DEF HandlerOk, Turn
  <2>2. server_fd[n] \in FdsOf(n) /\ server_fd[n] \in data' \cup gone'
    BY <1>0, <1>1, <1>2, <1>11, <2>1 DEF IInv, ReadyOK, HandlerHasInput, CurrOK,
       FdsOf, TypeOK, Fd, NoFd
  <2>3. n \in Waiting' /\ n \in Waiting
    BY <1>2, <1>3, <1>7, <2>2 DEF Waiting
  <2>4. Waiting' = Waiting
    BY <1>9, <2>3
  <2> QED
    BY <1>0, <1>3, <1>5, <1>10, <1>11, <2>1, <2>4 DEF RoundVars
<1>12. CASE pc' = "scan"
  <2>1. Turn' = {}
    BY <1>12 DEF Turn
  <2>2. Rounds!Serve(n)
    BY <1>0, <1>3, <1>5, <1>9, <1>10, <1>12, <2>1 DEF Rounds!Serve
  <2> QED
    BY <1>1, <2>2
<1> QED
  BY <1>2, <1>11, <1>12

\* A handler that fails drops the connection it was called for.
LEMMA RoundDrop == IInv /\ Dropped => \E c \in Conn : Rounds!Drop(c)
<1> SUFFICES ASSUME IInv, Dropped PROVE \E c \in Conn : Rounds!Drop(c)
  OBVIOUS
<1>0. TypeOK /\ ListOK /\ FdsOK /\ CurrOK /\ pc \in {"browser", "server"}
  BY DEF IInv, Dropped
<1>1. PICK n \in Live : n = curr /\ n \in Conn
  BY <1>0 DEF CurrOK, Live
<1>2. /\ Live' = Live \ {n} /\ pc' = "scan" /\ curr' = next[n] /\ ready' = ready
      /\ browser_fd' = [browser_fd EXCEPT ![n] = NoFd]
      /\ server_fd' = [server_fd EXCEPT ![n] = NoFd]
      /\ data' = data \ FdsOf(n) /\ gone' = gone \ FdsOf(n)
  BY <1>1, LiveNext DEF Dropped, CloseAndAdvance
<1>3. ASSUME NEW c \in Live, c # n
      PROVE  /\ Flagged(c)' = Flagged(c) /\ FdsOf(c)' = FdsOf(c)
             /\ FdsOf(c) \cap FdsOf(n) = {}
  <2>1. browser_fd'[c] = browser_fd[c] /\ server_fd'[c] = server_fd[c]
    BY <1>0, <1>2, <1>3 DEF TypeOK, Live
  <2> QED
    BY <1>0, <1>1, <1>2, <1>3, <2>1 DEF Flagged, FdsOf, FdsOK, Live
<1>4. Ahead = {c \in Live : c < n} /\ n \notin Ahead
  BY <1>0, <1>1 DEF Ahead, Conn
<1>5. Ahead' = Ahead
  <2>1. Ahead' = {c \in Live : c <= next[n]} \ {n}
    BY <1>2 DEF Ahead
  <2> QED
    BY <1>0, <1>1, <1>4, <2>1, NextInList
<1>6. Turn = {n} /\ Turn' = {}
  BY <1>0, <1>1, <1>2 DEF Turn
<1>7. Todo' = Todo
  BY <1>3, <1>4, <1>5 DEF Todo
<1>8. Waiting' = Waiting \ {n}
  BY <1>2, <1>3 DEF Waiting
<1>9. Rounds!Drop(n)
  BY <1>0, <1>2, <1>6, <1>7, <1>8 DEF Rounds!Drop
<1> QED
  BY <1>1, <1>9

\* A handler that is killed ends the rounds.
LEMMA RoundDie == IInv /\ pc \in {"browser", "server"} /\ Killed => Rounds!Die
<1> SUFFICES ASSUME IInv, pc \in {"browser", "server"}, Killed PROVE Rounds!Die
  OBVIOUS
<1>1. Live' = Live /\ Waiting' = Waiting
  BY DEF Killed, Live, Waiting, FdsOf, Admitting, conns, peers
<1>2. Todo' = {} /\ Turn # {} /\ Turn' = {}
  BY DEF Killed, Todo, Ahead, Turn
<1> QED
  BY <1>1, <1>2 DEF Rounds!Die, Killed

\* Input reaches a live connection, or one that is still being set up.
LEMMA RoundEnvironment ==
  IInv /\ (Environment \/ Stopped \/ SendBlocks \/ UNCHANGED vars)
    => UNCHANGED RoundVars \/ \E c \in Conn : Rounds!Arrive(c)
<1> SUFFICES ASSUME IInv, Environment \/ Stopped \/ SendBlocks \/ UNCHANGED vars
             PROVE  UNCHANGED RoundVars \/ \E c \in Conn : Rounds!Arrive(c)
  OBVIOUS
<1>1. UNCHANGED <<pc, curr, ready, browser_fd, server_fd, created>>
  BY EnvironmentOwed DEF local, conns, round
<1>2. Live' = Live /\ Todo' = Todo /\ Turn' = Turn
      /\ \A c \in Conn : FdsOf(c)' = FdsOf(c)
  BY <1>1 DEF Live, Todo, Turn, Ahead, Flagged, FdsOf, Admitting
<1>3. CASE UNCHANGED <<data, gone>>
  BY <1>1, <1>2, <1>3 DEF RoundVars, Waiting, Live
<1>4. ASSUME NEW f \in Fd, PeerSends(f) \/ PeerCloses(f)
      PROVE  UNCHANGED RoundVars \/ \E c \in Conn : Rounds!Arrive(c)
  <2>1. Running /\ (data \cup gone)' = data \cup gone \cup {f}
    BY <1>4 DEF PeerSends, PeerCloses
  <2>2. PICK c \in Conn : f \in FdsOf(c)
    BY <1>4 DEF PeerSends, PeerCloses, Connected
  <2>3. \A d \in Conn : d # c => f \notin FdsOf(d)
    BY <2>2 DEF IInv, FdsOK
  <2>4. Waiting' = IF c \in Live THEN Waiting \cup {c} ELSE Waiting
    BY <1>2, <2>1, <2>2, <2>3 DEF Waiting, Live
  <2>5. CASE c \in Live
    BY <1>1, <1>2, <2>1, <2>4, <2>5 DEF Rounds!Arrive, Running
  <2>6. CASE c \notin Live
    BY <1>1, <1>2, <2>4, <2>6 DEF RoundVars
  <2> QED
    BY <2>5, <2>6
<1> QED
  BY <1>3, <1>4 DEF Environment, ClientConnects, DnsAnswers, DnsLoses, PeerReads,
     SendBlocks, Blocks, Stopped, vars, peers

\* The select loop implements rounds: every connection that has input when a
\* round begins is served, or dropped, exactly once before the next begins.
THEOREM ImplementsRoundsCorrect == Spec => ImplementsRounds
<1>1. Init => Rounds!Init
  BY RoundInit
<1>2. IInv /\ IInv' /\ [Next]_vars => [Rounds!Next]_(Rounds!vars)
  <2> SUFFICES ASSUME IInv, IInv', [Next]_vars
               PROVE  Rounds!Next \/ UNCHANGED RoundVars
    BY DEF RoundVars, Rounds!vars
  <2>1. CASE Select
    BY <2>1, RoundSelect DEF Rounds!Next
  <2>2. CASE MallocFails \/ AcceptFails \/ Query \/ Resolved
             \/ \E f \in Fd : Accept(f) \/ ServerSocket(f)
    BY <2>2, RoundAdmit
  <2>3. CASE NoServerSocket \/ QueryFails \/ ConnectFails \/ Connect
    BY <2>3, RoundLink DEF NoServerSocket, QueryFails, ConnectFails, Connect,
       Linked, Admitting, Rounds!Next
  <2>4. CASE Scan \/ EndScan
    BY <2>4, RoundScan DEF Rounds!Next
  <2>5. CASE HandleBrowser \/ HandleServer
    BY <2>5, HandlerKinds, RoundServe, RoundDrop, RoundDie, RoundEnvironment DEF Rounds!Next
  <2>6. CASE Environment \/ Stopped \/ UNCHANGED vars
    BY <2>6, RoundEnvironment DEF Rounds!Next
  <2> QED
    BY <2>1, <2>2, <2>3, <2>4, <2>5, <2>6 DEF Next, Loop, Admit
<1> QED
  BY <1>1, <1>2, Invariant, PTL DEF Spec, ImplementsRounds, Rounds!Spec
=============================================================================
