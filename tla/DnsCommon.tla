------------------------------ MODULE DnsCommon -------------------------------
(***************************************************************************)
(* DNS messages as the Python programs write and read them                 *)
(* (bitrate-project/dns/dns_common.py): sequences of octets.  A name is a  *)
(* sequence of the codes of its characters, of up to 255 of them.  Python  *)
(* raises an exception where a message is too short; the result of reading *)
(* it is then Raised.                                                      *)
(***************************************************************************)
EXTENDS Integers, Sequences, FiniteSets

\* What one octet and two of them hold.
Octets == 0 .. 255
Words == 0 .. 65535

\* s and us: a number of two octets, the high one first.
S(n) == <<n \div 256, n % 256>>

US(data, i) == data[i] * 256 + data[i + 1]

\* The letters of a name are codes above this one.
Dot == 46

NUM_QUESTIONS == 1
QType == 1      \* A record
QClass == 1     \* IN
RR_NAME == 49164
FLAGS_AA == 1

\* The globals of a process: the number it uses for messages, and what genFlags
\* sets with the first response and nothing sets back.
Fresh(transId) == [transId |-> transId, qr |-> 0, answers |-> 0]

GenFlags(globals, query) ==
  IF query THEN globals ELSE [globals EXCEPT !.qr = 1, !.answers = 1]

Flags(globals) == (globals.qr * 128 + FLAGS_AA * 4) * 256

-----------------------------------------------------------------------------
(* Writing *)

Dots(name) == {i \in DOMAIN name : name[i] = Dot}

\* The end of the label that begins at place i.
LabelEnd(name, i) ==
  IF \E d \in Dots(name) : d >= i
  THEN CHOOSE d \in Dots(name) : d >= i /\ \A e \in Dots(name) : e >= i => d <= e
  ELSE Len(name) + 1

\* The length of the label that begins at place i.
LabelLength_Bug(name, i) == Len(name) + 1 - i
LabelLength(name, i) == LabelEnd(name, i) - i

\* A length in front of the first label and in place of every dot, and 0.
Question(name) ==
  <<LabelLength(name, 1)>>
    \o [i \in DOMAIN name |-> IF name[i] = Dot THEN LabelLength(name, i + 1) ELSE name[i]]
    \o <<0>> \o S(QType) \o S(QClass)

Header(globals) ==
  S(globals.transId) \o S(Flags(globals)) \o S(NUM_QUESTIONS) \o S(globals.answers) \o S(0) \o S(0)

\* The answer points to the name of the question and must not be cached.
Record(address) == S(RR_NAME) \o S(1) \o S(1) \o <<0, 0, 0, 0>> \o S(4) \o address

GenQuery(globals, name) == Header(globals) \o Question(name)

GenResponse(globals, name, address) == Header(globals) \o Question(name) \o Record(address)

-----------------------------------------------------------------------------
(* Reading *)

Raised == [raised |-> TRUE]

\* The name whose first length is at place p, and where it ends.
ParseName(data, p) ==
  LET At[q \in 1 .. Len(data) + 256] ==
        IF q > Len(data) THEN Raised
        ELSE IF data[q] = 0 THEN [text |-> <<>>, next |-> q + 1]
        ELSE LET rest == At[q + data[q] + 1]
                 label == SubSeq(data, q + 1, q + data[q])
             IN  IF rest = Raised THEN Raised
                 ELSE [text |-> IF rest.text = <<>> THEN label ELSE label \o <<Dot>> \o rest.text,
                       next |-> rest.next]
  IN  At[p]

HeaderLength == 12

\* The name of the record: the pointer, or a name of its own.
RecordName(data, p) ==
  IF p + 1 > Len(data) THEN Raised
  ELSE IF US(data, p) = RR_NAME THEN [text |-> <<>>, next |-> p + 2]
  ELSE ParseName(data, p)

NoRecord == [rrQtype |-> 0, rrQclass |-> 0, rrTtl |-> 0, rrDl |-> 0, address |-> <<>>]

ParseRecord(data, p) ==
  LET name == RecordName(data, p)
      n == name.next
  IN  IF name = Raised THEN Raised
      ELSE IF n + 13 > Len(data) THEN Raised
      ELSE [rrQtype |-> US(data, n), rrQclass |-> US(data, n + 2),
            rrTtl |-> US(data, n + 4) * 256 + US(data, n + 6), rrDl |-> US(data, n + 8),
            address |-> SubSeq(data, n + 10, n + 13)]

\* The number of bits to the right of a field is given by the power of two.
Field(octet, power, size) == (octet \div power) % size

ParseFlags(data) ==
  [qr |-> Field(data[3], 128, 2), opcode |-> Field(data[3], 8, 16), aa |-> Field(data[3], 4, 2),
   tc |-> Field(data[3], 2, 2), rd |-> Field(data[3], 1, 2), ra |-> Field(data[4], 128, 2),
   z |-> Field(data[4], 16, 8), rcode |-> Field(data[4], 1, 16)]

Counts(data) ==
  [questions |-> US(data, 5), answers |-> US(data, 7), authority |-> US(data, 9),
   additional |-> US(data, 11)]

\* parseMessage.  The client's branch uses the record's fields, which do not
\* exist in a message without answers.
ParseMessage(data, query) ==
  IF Len(data) <= HeaderLength THEN Raised
  ELSE LET name == ParseName(data, HeaderLength + 1)
           hasAnswers == Counts(data).answers # 0
           record == IF hasAnswers THEN ParseRecord(data, name.next + 4) ELSE NoRecord
       IN  IF name = Raised THEN Raised
           ELSE IF name.next + 3 > Len(data) THEN Raised
           ELSE IF record = Raised \/ (~query /\ ~hasAnswers) THEN Raised
           ELSE [transId |-> US(data, 1), flags |-> ParseFlags(data), counts |-> Counts(data),
                 name |-> name.text, qtype |-> US(data, name.next), qclass |-> US(data, name.next + 2),
                 record |-> record]

-----------------------------------------------------------------------------

\* Labels, none of them empty, with dots between them.
WellFormed(name) ==
  /\ name # <<>> /\ name[1] # Dot /\ name[Len(name)] # Dot
  /\ \A i \in 1 .. Len(name) - 1 : name[i] # Dot \/ name[i + 1] # Dot

\* What test_dns_simple requires of a response.
Expected(message, transId, name) ==
  /\ message.transId = transId /\ message.name = name
  /\ message.flags = [qr |-> 1, opcode |-> 0, aa |-> 1, tc |-> 0, rd |-> 0, ra |-> 0, z |-> 0,
                      rcode |-> 0]
  /\ message.counts = [questions |-> 1, answers |-> 1, authority |-> 0, additional |-> 0]
  /\ message.qtype = 1 /\ message.qclass = 1
  /\ message.record.rrQtype = 1 /\ message.record.rrQclass = 1
  /\ message.record.rrTtl = 0 /\ message.record.rrDl = 4
=============================================================================
