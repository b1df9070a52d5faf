----------------------------- MODULE ProxyStream -----------------------------
(***************************************************************************)
(* One connection of the proxy, between its browser and its web server:    *)
(* handler_browser and handler_server of src/src/proxy2.c, with the two    *)
(* receive buffers, the incremental parsing of heads, the assembly of      *)
(* bodies, and the state that says what the next response is for.          *)
(*                                                                         *)
(* A byte stream is a sequence of units.  The head of a message is the two *)
(* units 1 and HeadEnd (the one with the blank line), so that a segment    *)
(* can end inside it; every further unit is a part of the body.            *)
(***************************************************************************)
EXTENDS Integers, Sequences, FiniteSets

CONSTANTS Requests,     \* bound: requests the browser sends
          Cap,          \* MAX_REQ_SIZE, in units
          Traffics      \* what browser and server may send: records of
                        \*   kinds     the kinds of request
                        \*   lengths   the lengths of bodies
                        \*   pipeline  how many requests wait for their answers
                        \*   splits    segments may end inside heads
                        \*   tails     a manifest request may be too short to
                        \*             cover the copy of the one before it
                        \*   first     chunks are asked for after a manifest only
                        \*   listed    every manifest lists bitrates

AllKinds == {"html", "f4m", "chunk"}
HeadEnd  == 2

ASSUME StreamAssumption ==
  /\ Requests \in Nat /\ Cap \in Nat /\ Cap >= HeadEnd
  /\ \A t \in Traffics :
       /\ t.kinds \subseteq AllKinds /\ t.lengths \subseteq Nat
       /\ t.pipeline \in Nat \ {0}
       /\ {t.splits, t.tails, t.first, t.listed} \subseteq BOOLEAN
       /\ "f4m" \in t.kinds => t.pipeline = 1    \* a manifest is waited for

VARIABLES
  traffic,       \* which of Traffics this connection carries
  pc,            \* "select", in handler_server's loop, or at an end: "closed",
                 \*   "crashed", "undefined" (the code has no say any more)
  browser,       \* conn->browser: offset and buf
  server,        \* conn->server: offset, buf, request, to_send_length,
                 \*   response_body, response (the head), f4m_request
  recvlen,       \* handler_server's local of that name
  state,         \* conn->state
  bitrate_list,  \* whether conn->bitrate_list is not NULL
  default_list,  \* whether config.default_list is not NULL
  t_s,           \* the request conn->t_s was taken for
  kind,          \* the browser's requests so far
  to_proxy,      \* units on the way from the browser
  to_server,     \* requests on the way to the server
  from_server,   \* units on the way from the server
  delivered,     \* responses sent to the browser
  measured       \* chunk measurements: response, and the request t_s was for

conn == <<browser, server, recvlen, state, bitrate_list, default_list, t_s>>
vars == <<traffic, pc, conn, kind, to_proxy, to_server, from_server, delivered, measured>>

-----------------------------------------------------------------------------
(* Buffers                                                                 *)

Zero == [of |-> 0, part |-> 0]
Buf(units) == [i \in 1 .. Cap |-> IF i <= Len(units) THEN units[i] ELSE Zero]

\* recv into buf + offset.
Receive(buf, offset, units) ==
  [i \in 1 .. Cap |-> IF offset < i /\ i <= offset + Len(units)
                      THEN units[i - offset] ELSE buf[i]]

\* memmove(buf, buf + n, rest): what lies behind rest stays as it was.
Shift(buf, n, rest) == [i \in 1 .. Cap |-> IF i <= rest THEN buf[i + n] ELSE buf[i]]

\* The position behind the first blank line within size, 0 if there is none.
Position(buf, size) ==
  LET ends == {i \in 1 .. size : buf[i].part = HeadEnd}
  IN  IF ends = {} THEN 0 ELSE CHOOSE i \in ends : \A j \in ends : i <= j

Prefix(buf, n) == [i \in 1 .. n |-> buf[i]]

\* The segments recv may return: a stream's first units that fit.
Segments(stream, space, split) ==
  {n \in 1 .. Len(stream) : n <= space /\ (split \/ stream[n].part # 1)}

NoMessage == [status |-> "null"]

Init ==
  /\ traffic \in Traffics
  /\ pc = "select" /\ recvlen = 0 /\ state = "html" /\ t_s = 0
  /\ browser = [offset |-> 0, buf |-> Buf(<<>>)]
  /\ server = [offset |-> 0, buf |-> Buf(<<>>), request |-> NoMessage,
               to_send_length |-> 0, response_body |-> <<>>, response |-> <<>>,
               f4m_request |-> <<>>]
  /\ bitrate_list = FALSE /\ default_list = FALSE
  /\ kind = <<>> /\ to_proxy = <<>> /\ to_server = <<>> /\ from_server = <<>>
  /\ delivered = <<>> /\ measured = <<>>

Close == /\ pc' = "closed"
         /\ UNCHANGED <<conn, kind, to_proxy, to_server, from_server,
                        delivered, measured>>

-----------------------------------------------------------------------------
(* handler_browser                                                         *)

\* What is forwarded for the browser's request i: a chunk request with its
\* bitrate replaced, anything else as it came.
Forwarded(i) == [of |-> i, nolist |-> FALSE, residue |-> FALSE]

\* The copy of a manifest request; the tail of an earlier copy, which has
\* grown by "_nolist", stays behind it unless the new one is long enough.
SavedManifests(i) ==
  {<<i, residue>> : residue \in {FALSE, traffic.tails /\ server.f4m_request # <<>>}}

\* select_bitrate reads the head of the list.
NoBitrates == ~bitrate_list /\ ~default_list

\* parse is given the length of the last segment, not what the buffer holds.
ParsedSize_Bug(off, n) == n - 1
ParsedSize(off, n) == n

\* The timer is not restarted.
StartTimer_Bug(i) == t_s' = IF t_s = 0 THEN i ELSE t_s
StartTimer(i) == t_s' = IF kind[i] = "chunk" THEN i ELSE t_s

ForwardRequest(i) ==
  /\ to_server' = Append(to_server, Forwarded(i))
  /\ state' = kind[i]
  /\ bitrate_list' = (bitrate_list \/ (kind[i] = "chunk" /\ default_list))
  /\ StartTimer(i)
  /\ IF kind[i] = "f4m"
     THEN \E m \in SavedManifests(i) : server' = [server EXCEPT !.f4m_request = m]
     ELSE server' = server

HandlerBrowser(n) ==
  /\ pc = "select" /\ n \in Segments(to_proxy, Cap - browser.offset, traffic.splits)
  /\ LET held == browser.offset + n
         buf  == Receive(browser.buf, browser.offset, SubSeq(to_proxy, 1, n))
         pos  == Position(buf, ParsedSize(browser.offset, n))
     IN  /\ to_proxy' = SubSeq(to_proxy, n + 1, Len(to_proxy))
         /\ IF pos = 0
            THEN /\ browser' = [offset |-> held, buf |-> buf]
                 /\ pc' = pc
                 /\ UNCHANGED <<to_server, state, bitrate_list, t_s, server>>
            ELSE /\ browser' = [offset |-> held - pos,
                                buf |-> Shift(buf, pos, held - pos)]
                 /\ IF kind[buf[pos].of] = "chunk" /\ NoBitrates
                    THEN /\ pc' = "crashed"
                         /\ UNCHANGED <<to_server, state, bitrate_list, t_s, server>>
                    ELSE pc' = pc /\ ForwardRequest(buf[pos].of)
  /\ UNCHANGED <<recvlen, default_list, kind, from_server, delivered, measured>>

\* recv with no space left returns 0.
BrowserFull == pc = "select" /\ to_proxy # <<>> /\ browser.offset = Cap /\ Close

-----------------------------------------------------------------------------
(* handler_server: recv, and then its loop, one action for each part.      *)

\* The loop's condition.
Continues(srv) == srv.offset > 0 /\ srv.request.status # "needmore"

ReceiveAt == server.offset

HandlerServer(n) ==
  /\ pc = "select" /\ n \in Segments(from_server, Cap - server.offset, traffic.splits)
  /\ server' = [server EXCEPT
       !.buf = Receive(server.buf, ReceiveAt, SubSeq(from_server, 1, n)),
       !.offset = server.offset + n]
  /\ from_server' = SubSeq(from_server, n + 1, Len(from_server))
  /\ recvlen' = n
  /\ pc' = IF Continues(server') THEN "body" ELSE "select"
  /\ UNCHANGED <<browser, state, bitrate_list, default_list, t_s, kind,
                 to_proxy, to_server, delivered, measured>>

ServerFull == pc = "select" /\ from_server # <<>> /\ server.offset = Cap /\ Close

\* All that is in the buffer is taken for body.
BodyPart_Bug == server.offset
BodyPart == IF server.to_send_length > server.offset
            THEN server.offset ELSE server.to_send_length

\* The part of the body the buffer holds, if any is still to come.
TakeBody ==
  /\ pc = "body" /\ pc' = "dispatch"
  /\ server' = [server EXCEPT
       !.response_body = @ \o Prefix(server.buf, BodyPart),
       !.to_send_length = @ - BodyPart,
       !.offset = @ - BodyPart,
       !.buf = Shift(@, BodyPart, server.offset - BodyPart)]
  /\ UNCHANGED <<browser, recvlen, state, bitrate_list, default_list, t_s, kind,
                 to_proxy, to_server, from_server, delivered, measured>>

Complete == server.request.status = "success" /\ server.to_send_length = 0

\* What the two sends of a response put on the browser's connection.
Message == server.response \o server.response_body

Freed(srv) == [srv EXCEPT !.request = NoMessage, !.response_body = <<>>]

\* handle_resp_html and handle_resp_f4m_nolist.
Relay == /\ state \in {"html", "f4m_nolist"}
         /\ delivered' = Append(delivered, Message)
         /\ server' = Freed(server)
         /\ UNCHANGED <<state, bitrate_list, default_list, to_server, measured>>

\* The manifest goes to the browser as well.
RelayManifest_Bug == delivered' = Append(delivered, Message)
RelayManifest == delivered' = delivered

\* The list that was parsed is dropped.
KeepBitrates_Bug == UNCHANGED <<bitrate_list, default_list>>
KeepBitrates == /\ bitrate_list' = server.request.listed
                /\ default_list' = (default_list \/ server.request.listed)

\* handle_resp_f4m: the manifest stays here, and the version without bitrates
\* is asked for in its place.
LearnBitrates ==
  /\ state = "f4m" /\ state' = "f4m_nolist"
  /\ KeepBitrates
  /\ to_server' = Append(to_server, [of |-> server.f4m_request[1], nolist |-> TRUE,
                                     residue |-> server.f4m_request[2]])
  /\ RelayManifest
  /\ server' = Freed(server)
  /\ UNCHANGED measured

\* handle_resp_chunk.
Measurements == Append(measured, [response |-> server.request.of, since |-> t_s])

MeasureChunk ==
  /\ state = "chunk"
  /\ measured' = Measurements
  /\ delivered' = Append(delivered, Message)
  /\ server' = Freed(server)
  /\ UNCHANGED <<state, bitrate_list, default_list, to_server>>

\* A complete response is handled as conn->state says; the loop ends when the
\* buffer is empty.
Dispatch ==
  /\ pc = "dispatch"
  /\ \/ Complete /\ (Relay \/ LearnBitrates \/ MeasureChunk)
     \/ ~Complete /\ UNCHANGED <<server, state, bitrate_list, default_list,
                                 to_server, delivered, measured>>
  /\ pc' = IF server.offset <= 0 THEN "select" ELSE "parse"
  /\ UNCHANGED <<browser, recvlen, t_s, kind, to_proxy, from_server>>

\* A send to the browser fails; a chunk has been measured by then.
SendFails ==
  /\ pc = "dispatch" /\ Complete /\ state # "f4m" /\ pc' = "closed"
  /\ measured' = IF state = "chunk" THEN Measurements ELSE measured
  /\ UNCHANGED <<conn, kind, to_proxy, to_server, from_server, delivered>>

\* The next head is looked for in as much of the buffer as the last recv
\* filled, which may reach behind what is left in it.
ParseSize == recvlen

ParseHead ==
  /\ pc = "parse"
  /\ LET pos == Position(server.buf, ParseSize)
     IN  \/ /\ pos = 0
            /\ server' = [server EXCEPT !.request = [status |-> "needmore"]]
            /\ pc' = "select"
         \/ pos > server.offset /\ pc' = "undefined" /\ server' = server
         \/ /\ pos # 0 /\ pos <= server.offset
            /\ server' = [server EXCEPT
                 !.request = [status |-> "success", of |-> server.buf[pos].of,
                              listed |-> server.buf[pos].listed],
                 !.to_send_length = server.buf[pos].length,
                 !.response_body = <<>>,
                 !.response = Prefix(server.buf, pos),
                 !.offset = server.offset - pos,
                 !.buf = Shift(server.buf, pos, server.offset - pos)]
            /\ pc' = IF Continues(server') THEN "body" ELSE "select"
  /\ UNCHANGED <<browser, recvlen, state, bitrate_list, default_list, t_s, kind,
                 to_proxy, to_server, from_server, delivered, measured>>

-----------------------------------------------------------------------------
(* The browser and the web server.                                         *)

Ends == {"closed", "crashed", "undefined"}
Running == pc \notin Ends

\* The browser or the server closes its end; recv returns 0.
HangUp == pc = "select" /\ Close

MaySend(k) == k = "chunk" /\ traffic.first =>
                \E i \in 1 .. Len(kind) : kind[i] = "f4m" /\ i <= Len(delivered)

BrowserSends(k) ==
  /\ Running /\ Len(kind) < Requests /\ MaySend(k)
  /\ Len(kind) < Len(delivered) + traffic.pipeline
  /\ LET i == Len(kind) + 1
     IN  /\ kind' = Append(kind, k)
         /\ to_proxy' = to_proxy \o <<[of |-> i, part |-> 1], [of |-> i, part |-> HeadEnd]>>
  /\ UNCHANGED <<pc, conn, to_server, from_server, delivered, measured>>

\* The units of a response to request q.
Response(q, length, listed) ==
  [p \in 1 .. HeadEnd + length |-> [of |-> q.of, part |-> p, nolist |-> q.nolist,
                                    length |-> length, listed |-> listed]]

\* The tail of an older manifest request behind a request is another one, a bad
\* one, and is answered like one, unless it is blank lines only.  (The model
\* names its answer after the request it came with.)
TailAnswers(q) ==
  {<<>>} \cup IF q.residue
             THEN {Response([q EXCEPT !.nolist = FALSE], length, FALSE) :
                     length \in traffic.lengths}
             ELSE {}

ServerAnswers(length) ==
  /\ Running /\ to_server # <<>>
  /\ LET q == Head(to_server)
         lists == kind[q.of] = "f4m" /\ ~q.nolist
     IN  \E listed \in IF ~lists THEN {FALSE} ELSE IF traffic.listed THEN {TRUE}
                                                  ELSE BOOLEAN :
           \E tail \in TailAnswers(q) :
             from_server' = (from_server \o Response(q, length, listed)) \o tail
  /\ to_server' = Tail(to_server)
  /\ UNCHANGED <<pc, conn, kind, to_proxy, delivered, measured>>

\* Another connection of the proxy sees its first manifest.
OtherConnLearns == /\ Running /\ default_list' = TRUE /\ ~default_list
                   /\ UNCHANGED <<pc, browser, server, recvlen, state, bitrate_list,
                                  t_s, kind, to_proxy, to_server, from_server,
                                  delivered, measured>>

Done == (~Running \/ Len(delivered) = Requests) /\ UNCHANGED vars

Proxy == \/ \E n \in 1 .. Cap : HandlerBrowser(n) \/ HandlerServer(n)
         \/ BrowserFull \/ ServerFull \/ TakeBody \/ Dispatch \/ ParseHead

Answers == \E length \in traffic.lengths : ServerAnswers(length)

Step == \/ Proxy \/ SendFails \/ Answers \/ OtherConnLearns \/ HangUp \/ Done
        \/ \E k \in traffic.kinds : BrowserSends(k)

Next == Step /\ UNCHANGED traffic

Spec == Init /\ [][Next]_vars

\* select reports what there is to read, and the web server answers.
FairSpec == Spec /\ WF_vars(Proxy /\ UNCHANGED traffic)
                 /\ WF_vars(Answers /\ UNCHANGED traffic)

-----------------------------------------------------------------------------
(* Properties                                                              *)

RequestUnits  == [of : 1 .. Requests, part : 1 .. HeadEnd]
ResponseUnits == [of : 1 .. Requests, part : Nat \ {0}, nolist : BOOLEAN,
                  length : Nat, listed : BOOLEAN]

\* The shape of the state, and that both offsets stay within their buffers.
TypeOK ==
  /\ pc \in {"select", "body", "dispatch", "parse"} \cup Ends
  /\ browser.offset \in 0 .. Cap /\ server.offset \in 0 .. Cap
  /\ \A i \in 1 .. Cap : /\ browser.buf[i] \in RequestUnits \cup {Zero}
                         /\ server.buf[i] \in ResponseUnits \cup {Zero}
  /\ server.to_send_length \in Nat    \* no more is assembled than was announced
  /\ recvlen \in 0 .. Cap
  /\ state \in AllKinds \cup {"f4m_nolist"} /\ t_s \in 0 .. Requests
  /\ kind \in Seq(AllKinds) /\ Len(kind) <= Requests
  /\ {bitrate_list, default_list} \subseteq BOOLEAN

\* A stream of units that begins with a head and ends nowhere within a
\* response, every response complete and in order.
WholeResponses(units) ==
  LET Ended(u) == u.part = HeadEnd + u.length
  IN  units # <<>> =>
        /\ units[1].part = 1 /\ Ended(units[Len(units)])
        /\ \A i \in 2 .. Len(units) :
             LET u == units[i - 1]  v == units[i]
             IN  IF Ended(u) THEN v.part = 1 /\ v # [u EXCEPT !.part = 1]
                             ELSE v = [u EXCEPT !.part = @ + 1]

\* What the server sent and the proxy has not dealt with yet.
Pending ==
  (IF server.request.status = "success"
     THEN server.response \o server.response_body ELSE <<>>)
  \o Prefix(server.buf, server.offset) \o from_server

\* Between the head it keeps, the body it assembles, its buffer and the
\* connection, handler_server loses, repeats and reorders nothing, however the
\* segments fall.
NothingLost == pc # "undefined" => WholeResponses(Pending)

\* Up to the i-th request no tail can have been sent: none is left behind
\* manifest requests, or at most one of the requests is for a manifest.
Undisturbed(i) == traffic.tails =>
  \A j, l \in 1 .. Len(kind) :
    j <= i /\ l <= i /\ kind[j] = "f4m" /\ kind[l] = "f4m" => j = l

\* The browser's i-th answer is the answer to its i-th request, whole; of a
\* manifest it is the version without bitrates, never the one the proxy read.
RightAnswer(i) ==
  /\ WholeResponses(delivered[i]) /\ delivered[i] # <<>>
  /\ \A p \in 1 .. Len(delivered[i]) :
       /\ delivered[i][p].of = i /\ delivered[i][p].part = p
       /\ delivered[i][p].nolist = (kind[i] = "f4m")

\* Every answer is the right one; where manifest requests leave tails, up to
\* the second manifest.
AnswersInOrder == \A i \in 1 .. Len(delivered) : Undisturbed(i) => RightAnswer(i)

\* A throughput is measured from the request for the chunk it is about, once
\* for every chunk that was delivered.
FromItsRequest ==
  /\ \A m \in 1 .. Len(measured) :
       /\ measured[m].since = measured[m].response
       /\ \A l \in 1 .. m - 1 : measured[l].response < measured[m].response
  /\ \A i \in 1 .. Len(delivered) : kind[i] = "chunk" <=>
       \E m \in 1 .. Len(measured) : measured[m].response = i /\ i <= Len(delivered)

\* It is so as long as no tail disturbs the answers.
MeasuresItsChunk == Undisturbed(Len(kind)) => FromItsRequest

\* The handlers stay within what is defined: the offsets within the buffers, and
\* no more of a body assembled than was announced (TypeOK); before its beginning
\* an offset gets only if answers are under way together, as pipelining or a tail
\* makes them, and segments end inside heads; and select_bitrate has a list to
\* choose from if the browser begins with a manifest that lists bitrates.
Defined ==
  /\ TypeOK
  /\ pc = "undefined" => traffic.splits /\ (traffic.pipeline > 1 \/ traffic.tails)
  /\ pc = "crashed" => ~traffic.first \/ ~traffic.listed

\* A response without a body was parsed last: it is handled when the server
\* sends again.
Held == pc = "select" /\ Complete /\ server.offset = 0

\* A request that is whole in the buffer: its segment brought another one before
\* it, or only its end.  It waits for the browser to send again.
Overlooked == /\ traffic.splits \/ traffic.pipeline > 1
              /\ Position(browser.buf, browser.offset) # 0

\* A response head came in two segments: nothing clears what it left.
Wedged == traffic.splits /\ server.request.status = "needmore"

\* Every request is answered, unless the connection ends or waits for ever with
\* a request or a response at hand that it overlooks.
Answered == \A i \in 1 .. Requests :
  Len(kind) >= i ~> (Len(delivered) >= i \/ ~Running \/ [](Held \/ Overlooked \/ Wedged))

\* "Incomplete request" (handler_browser): what is left in the buffer when the
\* handler returns is no complete request.
LeftIsIncomplete == pc = "select" => Position(browser.buf, browser.offset) = 0
=============================================================================
