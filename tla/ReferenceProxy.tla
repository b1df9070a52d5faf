---------------------------- MODULE ReferenceProxy ----------------------------
(***************************************************************************)
(* The reference proxy (bitrate-project/proxy/proxy): a thread for every    *)
(* connection, the average, the bitrates and the server's address shared    *)
(* by all of them without a lock.  A thread that finds no address is a      *)
(* client of RefNameServer.                                                *)
(* Floating point is exact.  getBR reads the average in one step.           *)
(***************************************************************************)
EXTENDS RefNameServer

CONSTANTS VideoName,    \* NAME
          Bitrates,     \* BR: those of the manifest, in ascending order
          AlphaNum, AlphaDen,   \* <alpha>
          Rates,        \* what a clock can make of a chunk, in kbit/s
          Scale,        \* the average is counted in parts of 1 / Scale
          MaxConnections,   \* bound: connections of each place
          WebAnswers    \* what a web server sends: sequences of pieces

ASSUME BitratesAssumption ==
  /\ Bitrates \in Seq(Nat) /\ Len(Bitrates) > 0
  /\ \A i, j \in DOMAIN Bitrates : i < j => Bitrates[i] < Bitrates[j]

\* Every update of the average divides by AlphaDen once.
ASSUME AlphaAssumption == Scale \in Nat \ {0} /\ AlphaDen \in Nat \ {0} /\ AlphaNum \in 0 .. AlphaDen

ASSUME RatesAssumption == Rates \subseteq Nat

\* A piece is what one recv returns: its length, what stands behind a
\* Content-Length in it, and how much follows the blank line in it.
Nothing == -1       \* no such line, no blank line
Malformed == -2     \* the line ends before the number

ASSUME WebAnswersAssumption ==
  /\ WebAnswers \subseteq Seq([length : Nat \ {0}, cl : Nat \cup {Nothing, Malformed},
                              after : Nat \cup {Nothing}]) \ {<<>>}
  /\ \A answer \in WebAnswers : \A i \in DOMAIN answer : answer[i].after <= answer[i].length

VARIABLES
  AVG, RR_ADDR,     \* the globals
  thread,           \* the threads, in the places of the clients
  accepted          \* connections so far, of each place

proxyVars == <<AVG, RR_ADDR, thread, accepted>>

NoAddress == <<>>

Free == [pc |-> "free"]

\* alone and before are history: whether no other thread ran beside this one,
\* and the average it started with.
NewThread(isSeg, alone) ==
  [pc |-> "resolve", isSeg |-> isSeg, server |-> NoAddress, chunk |-> 0, rest |-> <<>>, cl |-> Nothing,
   left |-> 0, whole |-> FALSE, counted |-> FALSE, rate |-> 0, b |-> 0, read |-> 0,
   held |-> FALSE, line |-> Free, alone |-> alone, before |-> IF alone THEN AVG ELSE 0]

\* start_server, with and without <www-ip>.
ProxyInit ==
  /\ AVG = Bitrates[1] * Scale
  /\ RR_ADDR \in {NoAddress} \cup {AddressOf[Servers[i]] : i \in DOMAIN Servers}
  /\ thread = [c \in Clients |-> Free] /\ accepted = [c \in Clients |-> 0]

getBR ==
  LET low == {i \in DOMAIN Bitrates : 3 * Bitrates[i] * Scale < 2 * AVG}
  IN  IF low = {} THEN Bitrates[1] ELSE Bitrates[Max(low)]

Goes(c, t) == thread' = [thread EXCEPT ![c] = t]

\* An exception ends the thread, and its sockets are closed.
Dies(c) == Goes(c, Free)

-----------------------------------------------------------------------------

\* accept, and get_base_header when the first line has come.
Accept(c) ==
  /\ thread[c] = Free /\ accepted[c] < MaxConnections[c]
  /\ accepted' = [accepted EXCEPT ![c] = @ + 1]
  /\ \E isSeg \in BOOLEAN :
       thread' = [d \in Clients |->
         IF d = c THEN NewThread(isSeg, \A e \in Clients : thread[e] = Free)
         ELSE IF thread[d] = Free THEN Free ELSE [thread[d] EXCEPT !.alone = FALSE, !.before = 0]]
  /\ UNCHANGED <<AVG, RR_ADDR, rnsVars>>

\* _connect_target: the name server is asked by whoever finds no address.
Resolve(c) ==
  /\ thread[c].pc = "resolve" /\ RR_ADDR = NoAddress
  /\ Goes(c, [thread[c] EXCEPT !.pc = "asking"])
  /\ Ask(c, VideoName)
  /\ UNCHANGED <<AVG, RR_ADDR, accepted>>

Resolved(c) ==
  /\ thread[c].pc = "asking" /\ Get(c)
  /\ LET answer == client'[c].answer
     IN  IF answer = Raised THEN Dies(c) /\ UNCHANGED RR_ADDR
         ELSE /\ RR_ADDR' = answer.record.address
              /\ Goes(c, [thread[c] EXCEPT !.pc = "resolve"])
  /\ UNCHANGED <<AVG, accepted>>

\* sendDNSQuery raises an exception when it gives up.
NotResolved(c) ==
  /\ thread[c].pc = "asking" /\ TimeOut(c)
  /\ IF client'[c].waits = 0 THEN Dies(c) ELSE UNCHANGED thread
  /\ UNCHANGED <<AVG, RR_ADDR, accepted>>

Connect(c) ==
  /\ thread[c].pc = "resolve" /\ RR_ADDR # NoAddress
  /\ \/ Goes(c, [thread[c] EXCEPT !.pc = "choose", !.server = RR_ADDR])
     \/ Dies(c)
  /\ UNCHANGED <<AVG, RR_ADDR, accepted, rnsVars>>

\* method_others: the request is sent with the bitrate in its path.
Choose(c) ==
  /\ thread[c].pc = "choose"
  /\ \E answer \in WebAnswers :
       Goes(c, [thread[c] EXCEPT !.pc = "reading", !.chunk = getBR, !.rest = answer,
                                 !.whole = answer[1].after # Nothing])
  /\ UNCHANGED <<AVG, RR_ADDR, accepted, rnsVars>>

-----------------------------------------------------------------------------
(* _read_write *)

AfterRead(t) == IF t.isSeg THEN [t EXCEPT !.pc = "measure"] ELSE Free

ContentLength(t, piece) == IF piece.cl # Nothing THEN piece.cl ELSE t.cl

\* What is left of the body when its beginning has come.
BodyLeft_Bug(t, piece) == ContentLength(t, piece) - piece.length
BodyLeft(t, piece) == ContentLength(t, piece) - piece.after

\* 0 while the head has not come, and also when nothing is left.
Left(t, piece) == IF t.left # 0 THEN t.left - piece.length ELSE 0

\* A piece is sent on; the count ends the loop, or the blank line sets it.
Relayed(t, piece) ==
  LET next == [t EXCEPT !.rest = Tail(t.rest), !.cl = ContentLength(t, piece), !.left = Left(t, piece)]
  IN  IF t.left # 0 /\ next.left <= 0 THEN AfterRead([next EXCEPT !.counted = TRUE])
      ELSE IF piece.after = Nothing THEN next
      ELSE IF next.cl < 0 THEN Free
      ELSE [next EXCEPT !.left = BodyLeft(t, piece)]

Reading(c) == thread[c].pc = "reading" /\ UNCHANGED <<AVG, RR_ADDR, accepted, rnsVars>>

Unheld(t) == [t EXCEPT !.held = FALSE]

\* The browser may have gone, which raises an exception.
Relays(c) ==
  /\ Reading(c) /\ thread[c].rest # <<>>
  /\ Dies(c) \/ Goes(c, Relayed(Unheld(thread[c]), Head(thread[c].rest)))

ReadPiece(c) == Relays(c) /\ ~thread[c].held

\* The sockets block: send waits while an open browser does not read.
SendBlocks(c) ==
  /\ Reading(c) /\ thread[c].rest # <<>> /\ ~thread[c].held
  /\ Goes(c, [thread[c] EXCEPT !.held = TRUE])

\* It reads again, or goes.
Released(c) == Relays(c) /\ thread[c].held

\* A server that nothing counts sends more.
Byte == [length |-> 1, cl |-> Nothing, after |-> Nothing]

Trickle(c) ==
  /\ Reading(c) /\ thread[c].rest = <<>> /\ thread[c].left = 0
  /\ Goes(c, [thread[c] EXCEPT !.rest = <<Byte>>])

\* Three seconds of silence, an error, or the end of the stream: every piece
\* sets the count to 0, so that one turn without data makes it timeout / 3.
Quiet_Bug(c) == UNCHANGED thread
Quiet(c) == Goes(c, AfterRead(thread[c]))

ReadNothing(c) == Reading(c) /\ ~thread[c].held /\ Quiet(c)

-----------------------------------------------------------------------------
(* __init__ *)

\* t_new, and the bitrate read again.  Without a Content-Length, an exception.
Measure(c) ==
  /\ thread[c].pc = "measure"
  /\ IF thread[c].cl < 0 THEN Dies(c)
     ELSE \E rate \in Rates :
            Goes(c, [thread[c] EXCEPT !.pc = "load", !.rate = rate, !.b = getBR,
                                      !.rest = <<>>, !.cl = 0, !.left = 0])
  /\ UNCHANGED <<AVG, RR_ADDR, accepted, rnsVars>>

Load(c) ==
  /\ thread[c].pc = "load"
  /\ Goes(c, [thread[c] EXCEPT !.pc = "store", !.read = AVG])
  /\ UNCHANGED <<AVG, RR_ADDR, accepted, rnsVars>>

Average_Bug(avg, rate) == (AlphaNum * avg + AlphaNum * rate * Scale) \div AlphaDen
Average(avg, rate) == ((AlphaDen - AlphaNum) * avg + AlphaNum * rate * Scale) \div AlphaDen

Store(c) ==
  /\ thread[c].pc = "store"
  /\ AVG' = Average(thread[c].read, thread[c].rate)
  /\ Goes(c, [thread[c] EXCEPT !.pc = "log", !.read = 0])
  /\ UNCHANGED <<RR_ADDR, accepted, rnsVars>>

LogLine_Bug(c) == [average |-> AVG, bitrate |-> getBR, server |-> RR_ADDR]
LogLine(c) == [average |-> AVG, bitrate |-> thread[c].b, server |-> RR_ADDR]

WriteLog(c) ==
  /\ thread[c].pc = "log"
  /\ Goes(c, [thread[c] EXCEPT !.pc = "close", !.line = LogLine(c)])
  /\ UNCHANGED <<AVG, RR_ADDR, accepted, rnsVars>>

Close(c) ==
  /\ thread[c].pc = "close"
  /\ Goes(c, Free)
  /\ UNCHANGED <<AVG, RR_ADDR, accepted, rnsVars>>

\* What a thread does whether or not anything comes.
ThreadStep(c) ==
  \/ Resolve(c) \/ NotResolved(c) \/ Connect(c) \/ Choose(c)
  \/ ReadPiece(c) \/ ReadNothing(c)
  \/ Measure(c) \/ Load(c) \/ Store(c) \/ WriteLog(c) \/ Close(c)

\* What its browser and its web server do to a thread that reads.
Outside(c) == SendBlocks(c) \/ Released(c) \/ Trickle(c)

ProxyNext ==
  \/ \E c \in Clients : Accept(c) \/ ThreadStep(c) \/ Resolved(c) \/ Outside(c)
  \/ Serve /\ UNCHANGED proxyVars

ProxySpec == Init /\ ProxyInit /\ [][ProxyNext]_<<rnsVars, proxyVars>>

-----------------------------------------------------------------------------
(* Properties *)

Known == {Bitrates[1]} \cup Rates

\* Whatever updates are lost between two threads, the average stays between the
\* lowest and the highest of the first bitrate and the rates of chunks.
EstimateBounded ==
  \E low, high \in Known : low * Scale <= AVG /\ AVG <= high * Scale

\* The count of a body whose beginning came with the whole head never ends the
\* loop before the last piece was sent on, so that the rate is the chunk's.
WholeAnswer ==
  \A c \in Clients :
    thread[c].pc = "measure" /\ thread[c].whole /\ thread[c].counted
      => thread[c].rest = <<>>

\* The line of a thread that ran alone tells the bitrate it requested, the
\* server it was connected to, and the average with its rate and no other.
AloneLogged ==
  \A c \in Clients :
    LET t == thread[c] IN
    t.pc = "close" /\ t.alone =>
      t.line = [average |-> Average(t.before, t.rate), bitrate |-> t.chunk, server |-> t.server]

\* Every thread that has read its first line ends, unless its browser stays and
\* reads no more, or its web server never stops sending.
HeldUp(c) == thread[c].pc = "reading" /\ thread[c].held

ThreadsEnd ==
  \A c \in Clients :
    \/ <>[]HeldUp(c)
    \/ []<><<Trickle(c)>>_<<rnsVars, proxyVars>>
    \/ thread[c] # Free ~> thread[c] = Free

\* README.pdf of the line's bitrate: the one the proxy requested for this chunk.
LoggedBitrate ==
  \A c \in Clients : thread[c].pc = "close" => thread[c].line.bitrate = thread[c].chunk
=============================================================================
