-------------------------- MODULE ProxyStreamProofs --------------------------
(***************************************************************************)
(* One connection of the proxy, for any capacity of the buffers, any       *)
(* number of requests, and any kinds, lengths, pipelining and segments of  *)
(* the Traffics: between the head it keeps, the body it assembles, its     *)
(* buffer and the connection, handler_server loses nothing; the browser's  *)
(* answers come in order; where chunks are awaited, a chunk's throughput   *)
(* is measured from its own request; and the handlers stay within what is  *)
(* defined, but where heads are split and requests pipelined or chunks     *)
(* asked for without a manifest.  Where requests for manifests leave tails *)
(* all this is so up to the second manifest (Clean).                       *)
(*                                                                         *)
(* The argument: what the web server has sent and the proxy has not dealt  *)
(* with (Pending) is a sequence of whole responses, one block of units for *)
(* each request.  Every step of handler_server moves units from one end of *)
(* its parts to another and leaves Pending as it is, but for Dispatch,     *)
(* which takes the first block away whole, and the server, which appends   *)
(* one.  IInv says so, and what the numbers of the requests are.           *)
(***************************************************************************)
EXTENDS ProxyStream, SequenceTheorems, WellFoundedInduction, TLAPS

-----------------------------------------------------------------------------
(* Sequences                                                               *)

\* The elements of a concatenation.
LEMMA Concat ==
  ASSUME NEW T, NEW A \in Seq(T), NEW B \in Seq(T)
  PROVE  /\ A \o B \in Seq(T) /\ Len(A \o B) = Len(A) + Len(B)
         /\ Len(A) \in Nat /\ Len(B) \in Nat
         /\ \A i \in 1 .. Len(A) : (A \o B)[i] = A[i]
         /\ \A i \in 1 .. Len(B) : (A \o B)[Len(A) + i] = B[i]
         /\ \A i \in 1 .. Len(A) + Len(B) :
              (A \o B)[i] = IF i <= Len(A) THEN A[i] ELSE B[i - Len(A)]
<1>1. /\ A \o B \in Seq(T) /\ Len(A \o B) = Len(A) + Len(B)
      /\ \A i \in 1 .. Len(A) + Len(B) :
           (A \o B)[i] = IF i <= Len(A) THEN A[i] ELSE B[i - Len(A)]
  BY ConcatProperties
<1>2. Len(A) \in Nat /\ Len(B) \in Nat
  BY LenProperties
<1>3. \A i \in 1 .. Len(A) : (A \o B)[i] = A[i]
  BY <1>1, <1>2
<1>4. ASSUME NEW i \in 1 .. Len(B) PROVE (A \o B)[Len(A) + i] = B[i]
  <2>1. Len(A) + i \in 1 .. Len(A) + Len(B) /\ ~(Len(A) + i <= Len(A))
        /\ (Len(A) + i) - Len(A) = i
    BY <1>2
  <2> QED
    BY <2>1, <1>1
<1> QED
  BY <1>1, <1>2, <1>3, <1>4

\* Its type and its length.
LEMMA ConcatLen ==
  ASSUME NEW T, NEW A \in Seq(T), NEW B \in Seq(T)
  PROVE  A \o B \in Seq(T) /\ Len(A \o B) = Len(A) + Len(B)
BY Concat

\* A sequence made of two is their concatenation.
LEMMA Joined ==
  ASSUME NEW T, NEW A \in Seq(T), NEW B \in Seq(T), NEW P \in Seq(T),
         Len(P) = Len(A) + Len(B),
         \A i \in 1 .. Len(A) : P[i] = A[i],
         \A i \in 1 .. Len(B) : P[Len(A) + i] = B[i]
  PROVE  P = A \o B
<1>1. /\ A \o B \in Seq(T) /\ Len(A \o B) = Len(A) + Len(B)
      /\ \A i \in 1 .. Len(A) + Len(B) :
           (A \o B)[i] = IF i <= Len(A) THEN A[i] ELSE B[i - Len(A)]
  BY ConcatProperties
<1>2. Len(A) \in Nat /\ Len(B) \in Nat
  BY LenProperties
<1>3. \A i \in 1 .. Len(P) : P[i] = (A \o B)[i]
  <2> SUFFICES ASSUME NEW i \in 1 .. Len(P) PROVE P[i] = (A \o B)[i]
    OBVIOUS
  <2>1. CASE i <= Len(A)
    BY <2>1, <1>1, <1>2
  <2>2. CASE i > Len(A)
    <3>1. i - Len(A) \in 1 .. Len(B) /\ Len(A) + (i - Len(A)) = i
      BY <2>2, <1>2
    <3>2. P[Len(A) + (i - Len(A))] = B[i - Len(A)]
      BY <3>1
    <3> QED
      BY <3>1, <3>2, <2>2, <1>1, <1>2
  <2> QED
    BY <2>1, <2>2, <1>2
<1> QED
  BY <1>1, <1>3, SeqEqual

\* Concatenation is associative.
LEMMA Associative ==
  ASSUME NEW T, NEW A \in Seq(T), NEW B \in Seq(T), NEW C \in Seq(T)
  PROVE  (A \o B) \o C = A \o (B \o C)
<1>1. /\ A \o B \in Seq(T) /\ Len(A \o B) = Len(A) + Len(B)
      /\ Len(A) \in Nat /\ Len(B) \in Nat
      /\ \A i \in 1 .. Len(A) : (A \o B)[i] = A[i]
      /\ \A i \in 1 .. Len(B) : (A \o B)[Len(A) + i] = B[i]
  BY Concat
<1>2. /\ B \o C \in Seq(T) /\ Len(B \o C) = Len(B) + Len(C) /\ Len(C) \in Nat
      /\ \A i \in 1 .. Len(B) : (B \o C)[i] = B[i]
      /\ \A i \in 1 .. Len(C) : (B \o C)[Len(B) + i] = C[i]
  BY Concat
<1> DEFINE L == (A \o B) \o C
           M == B \o C
<1>3. /\ L \in Seq(T) /\ Len(L) = Len(A) + Len(B) + Len(C)
      /\ \A i \in 1 .. Len(A) + Len(B) : L[i] = (A \o B)[i]
      /\ \A i \in 1 .. Len(C) : L[Len(A) + Len(B) + i] = C[i]
  <2>1. PICK D \in Seq(T) : D = A \o B
    BY <1>1
  <2>2. /\ D \o C \in Seq(T) /\ Len(D \o C) = Len(D) + Len(C)
        /\ \A i \in 1 .. Len(D) : (D \o C)[i] = D[i]
        /\ \A i \in 1 .. Len(C) : (D \o C)[Len(D) + i] = C[i]
    BY Concat
  <2> QED
    BY <1>1, <2>1, <2>2
<1>4. M \in Seq(T) /\ Len(M) = Len(B) + Len(C)
  BY <1>2
<1>5. \A i \in 1 .. Len(A) : L[i] = A[i]
  BY <1>1, <1>3
<1>6. ASSUME NEW i \in 1 .. Len(M) PROVE L[Len(A) + i] = M[i]
  <2>1. CASE i <= Len(B)
    <3>1. i \in 1 .. Len(B) /\ Len(A) + i \in 1 .. Len(A) + Len(B)
      BY <2>1, <1>4, <1>1
    <3> QED
      BY <3>1, <1>1, <1>2, <1>3
  <2>2. CASE i > Len(B)
    <3>1. PICK j \in 1 .. Len(C) : i = Len(B) + j
      <4>1. i - Len(B) \in 1 .. Len(C) /\ i = Len(B) + (i - Len(B))
        BY <2>2, <1>4, <1>1, <1>2
      <4> QED
        BY <4>1
    <3>2. Len(A) + i = Len(A) + Len(B) + j
      BY <3>1, <1>1
    <3>3. L[Len(A) + i] = C[j] /\ M[i] = C[j]
      BY <3>1, <3>2, <1>2, <1>3
    <3> QED
      BY <3>3
  <2> QED
    BY <2>1, <2>2, <1>1
<1>7. Len(L) = Len(A) + Len(M)
  BY <1>1, <1>2, <1>3, <1>4
<1> HIDE DEF L, M
<1>8. L = A \o M
  BY <1>3, <1>4, <1>5, <1>6, <1>7, Joined
<1> QED
  BY <1>8 DEF L, M

\* The empty sequence adds nothing.
LEMMA Neutral ==
  ASSUME NEW T, NEW A \in Seq(T)
  PROVE  A \o <<>> = A /\ <<>> \o A = A
BY ConcatEmptySeq

\* The elements of a sequence one has been appended to.
LEMMA Appended ==
  ASSUME NEW T, NEW s \in Seq(T), NEW e \in T
  PROVE  /\ Append(s, e) \in Seq(T) /\ Len(Append(s, e)) = Len(s) + 1
         /\ Len(s) \in Nat
         /\ \A i \in 1 .. Len(s) : Append(s, e)[i] = s[i]
         /\ Append(s, e)[Len(s) + 1] = e
BY AppendProperties, LenProperties

\* The first of a queue, and the others.
LEMMA Queue ==
  ASSUME NEW T, NEW s \in Seq(T), s # <<>>
  PROVE  /\ Head(s) = s[1] /\ s[1] \in T /\ Len(s) \in Nat /\ Len(s) >= 1
         /\ Tail(s) \in Seq(T) /\ Len(Tail(s)) = Len(s) - 1
         /\ \A i \in 1 .. Len(s) - 1 : Tail(s)[i] = s[i + 1]
<1>1. /\ Tail(s) \in Seq(T) /\ Len(Tail(s)) = Len(s) - 1
      /\ \A i \in 1 .. Len(Tail(s)) : Tail(s)[i] = s[i + 1]
  BY HeadTailProperties
<1>2. Len(s) \in Nat /\ Len(s) >= 1
  BY LenProperties, EmptySeq
<1>3. s[1] \in T
  BY <1>2, ElementOfSeq
<1> QED
  BY <1>1, <1>2, <1>3, HeadTailProperties

\* A set of naturals has a least element.
LEMMA LeastElement ==
  ASSUME NEW T, T \subseteq Nat, T # {}
  PROVE  \E i \in T : \A j \in T : i <= j
<1>1. \E i \in T : \A j \in T : ~(<<j, i>> \in OpToRel(<, Nat))
  BY NatLessThanWellFounded, WFMin
<1>2. \A i, j \in Nat : j < i => <<j, i>> \in OpToRel(<, Nat)
  BY DEF OpToRel
<1>3. \A i, j \in Nat : i <= j \/ j < i
  OBVIOUS
<1> QED
  BY <1>1, <1>2, <1>3

-----------------------------------------------------------------------------
(* The buffers                                                             *)

\* What a buffer holds is a sequence.
LEMMA PrefixSeq ==
  ASSUME NEW T, NEW n \in Nat, NEW buf, \A i \in 1 .. n : buf[i] \in T
  PROVE  /\ Prefix(buf, n) \in Seq(T) /\ Len(Prefix(buf, n)) = n
         /\ \A i \in 1 .. n : Prefix(buf, n)[i] = buf[i]
<1>1. Prefix(buf, n) \in [1 .. n -> T]
  BY DEF Prefix
<1>2. Prefix(buf, n) \in Seq(T)
  BY <1>1, SeqDef
<1>3. Len(Prefix(buf, n)) = n
  BY <1>1, <1>2, LenProperties
<1> QED
  BY <1>2, <1>3 DEF Prefix

\* An empty buffer holds the empty sequence.
LEMMA PrefixEmpty == ASSUME NEW buf PROVE Prefix(buf, 0) = <<>>
<1>1. Prefix(buf, 0) \in Seq({}) /\ Len(Prefix(buf, 0)) = 0
  BY PrefixSeq
<1> QED
  BY <1>1, EmptySeq, SeqEqual

\* recv fills cells with units.
LEMMA ReceiveType ==
  ASSUME NEW T, NEW U, T \subseteq U, NEW buf \in [1 .. Cap -> U],
         NEW off \in 0 .. Cap, NEW seg \in Seq(T),
         \A i \in 1 .. off : buf[i] \in T
  PROVE  /\ Receive(buf, off, seg) \in [1 .. Cap -> U]
         /\ off + Len(seg) <= Cap => 
              \A i \in 1 .. off + Len(seg) : Receive(buf, off, seg)[i] \in T
<1> DEFINE R == Receive(buf, off, seg)
           n == off + Len(seg)
<1>0. Len(seg) \in Nat /\ off \in Nat /\ n \in Nat
  BY LenProperties
<1>e. \A i \in 1 .. Len(seg) : seg[i] \in T
  BY ElementOfSeq
<1>1. \A i \in 1 .. Cap : R[i] = IF off < i /\ i <= n THEN seg[i - off] ELSE buf[i]
  BY DEF Receive
<1>c. Cap \in Int
  BY StreamAssumption DEF StreamAssumption
<1>2. n <= Cap => \A i \in 1 .. n : R[i] \in T
  BY <1>0, <1>1, <1>e, <1>c
<1>3. R \in [1 .. Cap -> U]
  <2>1. \A i \in 1 .. Cap : R[i] \in U
    BY <1>0, <1>1, <1>e, <1>c
  <2> QED
    BY <2>1 DEF Receive
<1> QED
  BY <1>2, <1>3

\* After recv, the buffer holds what it held and the segment behind it.
LEMMA ReceivePrefix ==
  ASSUME NEW T, NEW U, T \subseteq U, NEW buf \in [1 .. Cap -> U],
         NEW off \in 0 .. Cap, NEW seg \in Seq(T), off + Len(seg) <= Cap,
         \A i \in 1 .. off : buf[i] \in T
  PROVE  Prefix(Receive(buf, off, seg), off + Len(seg)) = Prefix(buf, off) \o seg
<1> DEFINE R == Receive(buf, off, seg)
           n == off + Len(seg)
<1>0. Len(seg) \in Nat /\ off \in Nat /\ n \in Nat
  BY LenProperties
<1>1. \A i \in 1 .. Cap : R[i] = IF off < i /\ i <= n THEN seg[i - off] ELSE buf[i]
  BY DEF Receive
<1>c. Cap \in Int
  BY StreamAssumption DEF StreamAssumption
<1>2. \A i \in 1 .. n : R[i] \in T
  BY ReceiveType
<1>4. /\ Prefix(buf, off) \in Seq(T) /\ Len(Prefix(buf, off)) = off
      /\ \A i \in 1 .. off : Prefix(buf, off)[i] = buf[i]
  <2>1. \A f : (\A i \in 1 .. off : f[i] \in T) =>
            /\ Prefix(f, off) \in Seq(T) /\ Len(Prefix(f, off)) = off
            /\ \A i \in 1 .. off : Prefix(f, off)[i] = f[i]
    BY <1>0, PrefixSeq
  <2> QED
    BY <2>1
<1>5. /\ Prefix(R, n) \in Seq(T) /\ Len(Prefix(R, n)) = n
      /\ \A i \in 1 .. n : Prefix(R, n)[i] = R[i]
  <2> HIDE DEF R, n
  <2> QED
    BY <1>0, <1>2, PrefixSeq
<1> DEFINE P == Prefix(R, n)
           Q == Prefix(buf, off) \o seg
<1>6. /\ Q \in Seq(T) /\ Len(Q) = n
      /\ \A i \in 1 .. n : Q[i] = IF i <= off THEN Prefix(buf, off)[i] ELSE seg[i - off]
  BY <1>4, <1>0, ConcatProperties
<1>7. \A i \in 1 .. n : P[i] = Q[i]
  BY <1>6, <1>5, <1>1, <1>4, <1>0, <1>c
<1> HIDE DEF P, Q, n, R
<1>8. P = Q
  BY <1>6, <1>7, <1>5, SeqEqual DEF P
<1> QED
  BY <1>8 DEF P, Q, R, n

\* memmove leaves units in the cells it fills.
LEMMA ShiftType ==
  ASSUME Cap \in Nat, NEW T, NEW U, NEW buf \in [1 .. Cap -> U],
         NEW n \in Nat, NEW rest \in Nat, n + rest <= Cap,
         \A i \in 1 .. n + rest : buf[i] \in T
  PROVE  /\ Shift(buf, n, rest) \in [1 .. Cap -> U]
         /\ \A i \in 1 .. rest : Shift(buf, n, rest)[i] \in T
<1> DEFINE R == Shift(buf, n, rest)
<1>1. \A i \in 1 .. Cap : R[i] = IF i <= rest THEN buf[i + n] ELSE buf[i]
  BY DEF Shift
<1>2. \A i \in 1 .. rest : R[i] \in T
  BY <1>1
<1>3. \A i \in 1 .. Cap : R[i] \in U
  BY <1>1
<1> QED
  BY <1>2, <1>3 DEF Shift

\* What memmove takes off the front and what it keeps are what the buffer held.
LEMMA ShiftPrefix ==
  ASSUME Cap \in Nat, NEW buf, NEW n \in Nat, NEW rest \in Nat, n + rest <= Cap
  PROVE  Prefix(buf, n + rest) = Prefix(buf, n) \o Prefix(Shift(buf, n, rest), rest)
<1> DEFINE R == Shift(buf, n, rest)
<1>1. \A i \in 1 .. Cap : R[i] = IF i <= rest THEN buf[i + n] ELSE buf[i]
  BY DEF Shift
<1>0. PICK T : T = {buf[i] : i \in 1 .. n + rest}
  OBVIOUS
<1>2. \A i \in 1 .. rest : R[i] = buf[n + i] /\ R[i] \in T
  <2>1. \A i \in 1 .. rest : R[i] = buf[n + i] /\ n + i \in 1 .. n + rest
    BY <1>1
  <2> QED
    BY <2>1, <1>0
<1>3. /\ \A i \in 1 .. n : buf[i] \in T
      /\ \A i \in 1 .. n + rest : buf[i] \in T
  BY <1>0
<1>a. \A f, m : m \in Nat /\ (\A i \in 1 .. m : f[i] \in T) =>
            /\ Prefix(f, m) \in Seq(T) /\ Len(Prefix(f, m)) = m
            /\ \A i \in 1 .. m : Prefix(f, m)[i] = f[i]
  BY PrefixSeq
<1>4. /\ Prefix(buf, n) \in Seq(T) /\ Len(Prefix(buf, n)) = n
      /\ \A i \in 1 .. n : Prefix(buf, n)[i] = buf[i]
  BY <1>a, <1>3
<1>5. /\ Prefix(R, rest) \in Seq(T) /\ Len(Prefix(R, rest)) = rest
      /\ \A i \in 1 .. rest : Prefix(R, rest)[i] = R[i]
  <2>1. \A i \in 1 .. rest : R[i] \in T
    BY <1>2
  <2> HIDE DEF R
  <2> QED
    BY <1>a, <2>1
<1>6. /\ Prefix(buf, n + rest) \in Seq(T) /\ Len(Prefix(buf, n + rest)) = n + rest
      /\ \A i \in 1 .. n + rest : Prefix(buf, n + rest)[i] = buf[i]
  BY <1>a, <1>3
<1> DEFINE A == Prefix(buf, n)
           B == Prefix(R, rest)
           P == Prefix(buf, n + rest)
<1>7. \A i \in 1 .. n : P[i] = A[i]
  BY <1>4, <1>6
<1>8. \A i \in 1 .. rest : P[n + i] = B[i]
  <2>1. \A i \in 1 .. rest : n + i \in 1 .. n + rest
    OBVIOUS
  <2>2. \A i \in 1 .. rest : P[n + i] = buf[n + i]
    BY <2>1, <1>6
  <2>3. \A i \in 1 .. rest : B[i] = buf[n + i]
    BY <1>5, <1>2
  <2> HIDE DEF B, P, R
  <2> QED
    BY <2>2, <2>3
<1>9. /\ A \in Seq(T) /\ Len(A) = n /\ B \in Seq(T) /\ Len(B) = rest
      /\ P \in Seq(T) /\ Len(P) = n + rest
  BY <1>4, <1>5, <1>6
<1> HIDE DEF A, B, P
<1>10. P = A \o B
  BY <1>9, <1>7, <1>8, Joined
<1> QED
  BY <1>10 DEF A, B, P, R

\* A segment and the rest of the stream are the stream.
LEMMA SegmentSplit ==
  ASSUME NEW T, NEW stream \in Seq(T), NEW n \in 0 .. Len(stream)
  PROVE  /\ SubSeq(stream, 1, n) \in Seq(T) /\ Len(SubSeq(stream, 1, n)) = n
         /\ SubSeq(stream, n + 1, Len(stream)) \in Seq(T)
         /\ stream = SubSeq(stream, 1, n) \o SubSeq(stream, n + 1, Len(stream))
<1> DEFINE L == Len(stream)
<1>1. L \in Nat /\ \A i \in 1 .. L : stream[i] \in T
  BY LenProperties, ElementOfSeq
<1>2. /\ SubSeq(stream, 1, n) \in Seq(T)
      /\ Len(SubSeq(stream, 1, n)) = IF 1 <= n THEN n - 1 + 1 ELSE 0
      /\ \A i \in 1 .. n - 1 + 1 : SubSeq(stream, 1, n)[i] = stream[1 + i - 1]
  <2>1. \A i \in 1 .. n : stream[i] \in T
    BY <1>1
  <2> HIDE DEF L
  <2> QED
    BY <2>1, <1>1, SubSeqProperties
<1>3. /\ SubSeq(stream, n + 1, L) \in Seq(T)
      /\ Len(SubSeq(stream, n + 1, L)) = IF n + 1 <= L THEN L - (n + 1) + 1 ELSE 0
      /\ \A i \in 1 .. L - (n + 1) + 1 : SubSeq(stream, n + 1, L)[i] = stream[n + 1 + i - 1]
  <2>1. n + 1 \in Int /\ L \in Int /\ \A i \in n + 1 .. L : stream[i] \in T
    BY <1>1
  <2> HIDE DEF L
  <2> QED
    BY <2>1, <1>1, SubSeqProperties
<1>4. stream = SubSeq(stream, 1, n) \o SubSeq(stream, n + 1, L)
  <2> DEFINE A == SubSeq(stream, 1, n)
             B == SubSeq(stream, n + 1, L)
  <2>1. A \in Seq(T) /\ B \in Seq(T) /\ Len(A) = n /\ Len(B) = L - n
    BY <1>1, <1>2, <1>3
  <2>a. /\ \A i \in 1 .. n : A[i] = stream[i]
        /\ \A i \in 1 .. L - n : B[i] = stream[n + i]
    BY <1>1, <1>2, <1>3
  <2> HIDE DEF A, B
  <2>2. /\ A \o B \in Seq(T) /\ Len(A \o B) = Len(A) + Len(B)
        /\ \A i \in 1 .. Len(A) + Len(B) :
             (A \o B)[i] = IF i <= Len(A) THEN A[i] ELSE B[i - Len(A)]
    BY <2>1, ConcatProperties
  <2>3. Len(A \o B) = Len(stream)
    BY <2>1, <2>2, <1>1
  <2>4. \A i \in 1 .. Len(stream) : (A \o B)[i] = stream[i]
    BY <2>1, <2>2, <2>a, <1>1
  <2>5. A \o B = stream
    BY <2>2, <2>3, <2>4, SeqEqual
  <2> QED
    BY <2>5 DEF A, B
<1>5. n \in Nat /\ Len(SubSeq(stream, 1, n)) = n
  BY <1>1, <1>2
<1>6. SubSeq(stream, n + 1, Len(stream)) \in Seq(T)
  BY <1>3
<1> QED
  BY <1>2, <1>4, <1>5, <1>6, Zenon

RequestCells  == RequestUnits \cup {Zero}

\* Position finds the first blank line, or there is none.
LEMMA PositionIs ==
  ASSUME NEW buf, NEW size \in Nat
  PROVE  \/ /\ Position(buf, size) = 0
            /\ \A i \in 1 .. size : buf[i].part # HeadEnd
         \/ /\ Position(buf, size) \in 1 .. size
            /\ buf[Position(buf, size)].part = HeadEnd
            /\ \A i \in 1 .. size : buf[i].part = HeadEnd => Position(buf, size) <= i
<1> DEFINE ends == {i \in 1 .. size : buf[i].part = HeadEnd}
<1>1. CASE ends = {}
  BY <1>1 DEF Position
<1>2. CASE ends # {}
  <2>1. \E i \in ends : \A j \in ends : i <= j
    <3>1. ends \subseteq Nat
      OBVIOUS
    <3> HIDE DEF ends
    <3> QED
      BY <3>1, <1>2, LeastElement
  <2>2. Position(buf, size) = CHOOSE i \in ends : \A j \in ends : i <= j
    BY <1>2 DEF Position
  <2>3. Position(buf, size) \in ends /\ \A j \in ends : Position(buf, size) <= j
    <3> HIDE DEF ends
    <3> QED
      BY <2>1, <2>2
  <2> QED
    BY <2>3
<1> QED
  BY <1>1, <1>2

-----------------------------------------------------------------------------
(* Whole responses                                                         *)

\* A cell of a buffer: a unit, or what it was cleared to.
ResponseCells == ResponseUnits \cup {Zero}

\* Unit p of the response u is a part of.
Part(u, p) == [of |-> u.of, part |-> p, nolist |-> u.nolist,
               length |-> u.length, listed |-> u.listed]

\* The units of the response u is a part of.
Size(u) == HeadEnd + u.length

\* A sequence of whole responses, one after the other: from any unit its
\* whole response can be read off, and the requests they answer are
\* consecutive.  WholeResponses says this of neighbours only.
Blocks(P) ==
  /\ \A i \in 1 .. Len(P) :
       /\ P[i].part <= i /\ P[i].part <= Size(P[i])
       /\ i - P[i].part + Size(P[i]) <= Len(P)
       /\ \A p \in 1 .. Size(P[i]) : P[i - P[i].part + p] = Part(P[i], p)
       /\ i < Len(P) /\ P[i].part = Size(P[i]) => P[i + 1].of = P[i].of + 1
  /\ \A i, j \in 1 .. Len(P) : i <= j =>
       /\ P[i].of <= P[j].of
       /\ P[i].of = P[j].of => i - P[i].part = j - P[j].part

\* The fields of a unit, and of the other units of its response.
LEMMA UnitFacts ==
  ASSUME NEW u \in ResponseUnits
  PROVE  /\ u.of \in Int /\ u.part \in Nat /\ u.part >= 1 /\ u.length \in Nat
         /\ u.nolist \in BOOLEAN /\ u.listed \in BOOLEAN
         /\ Size(u) \in Nat /\ Size(u) >= HeadEnd /\ Size(u) = HeadEnd + u.length
         /\ HeadEnd = 2
         /\ \A p : /\ Part(u, p).of = u.of /\ Part(u, p).part = p
                   /\ Part(u, p).length = u.length /\ Part(u, p).nolist = u.nolist
                   /\ Part(u, p).listed = u.listed
                   /\ Size(Part(u, p)) = Size(u)
                   /\ [u EXCEPT !.part = p] = Part(u, p)
<1>1. StreamAssumption
  BY StreamAssumption
<1>2. u \in [of : 1 .. Requests, part : Nat \ {0}, nolist : BOOLEAN,
                  length : Nat, listed : BOOLEAN]
  BY DEF ResponseUnits
<1> QED
  BY <1>1, <1>2 DEF StreamAssumption, Size, Part, HeadEnd

\* The response a unit is a part of lies within the sequence.
LEMMA BlockRange ==
  ASSUME NEW P \in Seq(ResponseUnits), Blocks(P), NEW i \in 1 .. Len(P)
  PROVE  /\ P[i] \in ResponseUnits /\ Len(P) \in Nat
         /\ P[i].of \in Int /\ P[i].part \in Nat /\ Size(P[i]) \in Nat
         /\ 1 <= P[i].part /\ P[i].part <= i /\ P[i].part <= Size(P[i])
         /\ i - P[i].part + Size(P[i]) <= Len(P)
         /\ Size(P[i]) = HeadEnd + P[i].length
<1>1. P[i] \in ResponseUnits /\ Len(P) \in Nat
  BY LenProperties, ElementOfSeq
<1>2. /\ P[i].part <= i /\ P[i].part <= Size(P[i])
      /\ i - P[i].part + Size(P[i]) <= Len(P)
  BY DEF Blocks
<1> QED
  BY <1>1, <1>2, UnitFacts

\* The other units of the response of unit i.
LEMMA BlockCopy ==
  ASSUME NEW P \in Seq(ResponseUnits), Blocks(P), NEW i \in 1 .. Len(P),
         NEW k \in Int, 1 <= k - i + P[i].part, k - i + P[i].part <= Size(P[i])
  PROVE  k \in 1 .. Len(P) /\ P[k] = Part(P[i], k - i + P[i].part)
<1>1. /\ P[i].part \in Nat /\ Size(P[i]) \in Nat /\ P[i].part <= i /\ Len(P) \in Nat
      /\ i - P[i].part + Size(P[i]) <= Len(P)
  BY BlockRange
<1>2. PICK a \in Nat, p \in Int : a = P[i].part /\ p = k - i + a
  BY <1>1
<1>3. p \in 1 .. Size(P[i])
  BY <1>1, <1>2
<1>4. i - a + p = k
  BY <1>2
<1>5. P[i - a + p] = Part(P[i], p)
  BY <1>2, <1>3 DEF Blocks
<1>6. k \in 1 .. Len(P)
  BY <1>1, <1>2, <1>3
<1> QED
  BY <1>2, <1>4, <1>5, <1>6

\* Behind the last unit of a response begins the next request's.
LEMMA BlockNext ==
  ASSUME NEW P \in Seq(ResponseUnits), Blocks(P), NEW i \in 1 .. Len(P),
         i < Len(P), P[i].part = Size(P[i])
  PROVE  P[i + 1].of = P[i].of + 1
BY DEF Blocks

\* The requests answered do not decrease, and each has one response.
LEMMA BlockOrder ==
  ASSUME NEW P \in Seq(ResponseUnits), Blocks(P),
         NEW i \in 1 .. Len(P), NEW j \in 1 .. Len(P), i <= j
  PROVE  /\ P[i].of <= P[j].of
         /\ P[i].of = P[j].of => i - P[i].part = j - P[j].part
BY DEF Blocks

\* Whole responses in the sense of the property.
LEMMA BlocksWhole ==
  ASSUME NEW P \in Seq(ResponseUnits), Blocks(P)
  PROVE  WholeResponses(P)
<1>1. Len(P) \in Nat /\ \A i \in 1 .. Len(P) : P[i] \in ResponseUnits
  BY LenProperties, ElementOfSeq
<1>2. ASSUME P # <<>> PROVE Len(P) >= 1
  BY <1>2, EmptySeq
<1>4. ASSUME P # <<>> PROVE P[1].part = 1 /\ P[Len(P)].part = HeadEnd + P[Len(P)].length
  <2>1. 1 \in 1 .. Len(P) /\ Len(P) \in 1 .. Len(P)
    BY <1>4, <1>2, <1>1
  <2>2. 1 <= P[1].part /\ P[1].part <= 1 /\ P[1].part \in Nat
    BY <2>1, BlockRange
  <2>3. P[Len(P)].part = Size(P[Len(P)]) /\ Size(P[Len(P)]) = HeadEnd + P[Len(P)].length
    <3> DEFINE u == P[Len(P)]
    <3>1. /\ u.part \in Nat /\ Size(u) \in Nat /\ u.part <= Size(u)
          /\ Len(P) - u.part + Size(u) <= Len(P)
          /\ Size(u) = HeadEnd + u.length
      BY <2>1, BlockRange
    <3> HIDE DEF u
    <3>2. u.part = Size(u)
      BY <3>1, <1>1
    <3> QED
      BY <3>1, <3>2 DEF u
  <2> QED
    BY <2>2, <2>3
<1>3. ASSUME NEW i \in 2 .. Len(P), NEW h \in Int, h = i - 1
      PROVE  LET u == P[h]  v == P[i]
             IN  IF u.part = HeadEnd + u.length
                   THEN v.part = 1 /\ v # [u EXCEPT !.part = 1]
                   ELSE v = [u EXCEPT !.part = @ + 1]
  <2> DEFINE u == P[h]
             v == P[i]
  <2>1. h \in 1 .. Len(P) /\ i \in 1 .. Len(P) /\ h < Len(P) /\ h + 1 = i
    BY <1>1, <1>3
  <2>2. /\ u \in ResponseUnits /\ u.of \in Int /\ u.part \in Nat /\ Size(u) \in Nat
        /\ 1 <= u.part /\ u.part <= h /\ u.part <= Size(u)
        /\ Size(u) = HeadEnd + u.length
    BY <2>1, BlockRange
  <2>2a. /\ v \in ResponseUnits /\ v.of \in Int /\ v.part \in Nat /\ Size(v) \in Nat
         /\ 1 <= v.part /\ v.part <= i /\ v.part <= Size(v)
    BY <2>1, BlockRange
  <2>3. CASE u.part = Size(u)
    <3>1. v.of = u.of + 1
      BY <2>1, <2>3, BlockNext
    <3>2. ASSUME v.part # 1 PROVE FALSE
      <4>0. \A a, b \in Nat : 1 <= a /\ a # 1 /\ a <= b => 1 <= h - i + a /\ h - i + a <= b
        BY <2>1
      <4>1. 1 <= h - i + v.part /\ h - i + v.part <= Size(v)
        BY <4>0, <3>2, <2>2a
      <4>2. P[h] = Part(v, h - i + v.part)
        BY <4>1, <2>1, BlockCopy
      <4>3. u.of = v.of
        BY <4>1, <4>2, <2>2a, UnitFacts
      <4> QED
        BY <4>3, <3>1, <2>2
    <3>3. v # [u EXCEPT !.part = 1]
      <4>1. [u EXCEPT !.part = 1] = Part(u, 1) /\ Part(u, 1).of = u.of
        BY <2>2, UnitFacts
      <4> HIDE DEF u, v
      <4> QED
        BY <3>1, <4>1, <2>2
    <3> QED
      BY <3>2, <3>3, <2>3, <2>2
  <2>4. CASE u.part # Size(u)
    <3>0. \A a, b \in Nat : a # b /\ a <= b =>
             1 <= i - h + a /\ i - h + a <= b /\ i - h + a = a + 1
      BY <2>1
    <3>1. /\ 1 <= i - h + u.part /\ i - h + u.part <= Size(u)
          /\ i - h + u.part = u.part + 1
      BY <3>0, <2>4, <2>2
    <3>a. PICK k \in Int : k = i
      BY <2>1
    <3>b. 1 <= k - h + P[h].part /\ k - h + P[h].part <= Size(P[h])
      BY <3>1, <3>a
    <3>c. P[k] = Part(P[h], k - h + P[h].part)
      BY <3>b, <2>1, BlockCopy
    <3>2. P[i] = Part(P[h], i - h + P[h].part)
      BY <3>a, <3>c
    <3>3. [u EXCEPT !.part = u.part + 1] = Part(u, u.part + 1)
      BY <2>2, UnitFacts
    <3>4. v = [u EXCEPT !.part = u.part + 1]
      BY <3>1, <3>2, <3>3
    <3> QED
      BY <3>4, <2>4, <2>2
  <2> QED
    BY <2>3, <2>4
<1>5. ASSUME NEW i \in 2 .. Len(P)
      PROVE  LET u == P[i - 1]  v == P[i]
             IN  IF u.part = HeadEnd + u.length
                   THEN v.part = 1 /\ v # [u EXCEPT !.part = 1]
                   ELSE v = [u EXCEPT !.part = @ + 1]
  <2>1. i - 1 \in Int
    OBVIOUS
  <2> QED
    BY <2>1, <1>3
<1> QED
  BY <1>4, <1>5 DEF WholeResponses

\* Q is what P has behind its first m units, which are its first response.
Behind(P, m, Q) ==
  /\ P \in Seq(ResponseUnits) /\ Blocks(P) /\ P # <<>>
  /\ Q \in Seq(ResponseUnits) /\ m = Size(P[1]) /\ Len(P) = m + Len(Q)
  /\ \A i \in 1 .. Len(Q) : P[m + i] = Q[i]

\* R is the whole response u is a part of.
Copies(R, u) == Len(R) = Size(u) /\ \A p \in 1 .. Len(R) : R[p] = Part(u, p)

\* Without its first response, what is left are whole responses.
LEMMA BlocksBehind ==
  ASSUME NEW P, NEW Q, NEW m \in Nat, NEW l \in Nat, Len(Q) = l, Behind(P, m, Q)
  PROVE  /\ Blocks(Q)
         /\ \A p \in 1 .. m : P[p] = Part(P[1], p)
         /\ Q # <<>> => Q[1].of = P[1].of + 1
         /\ \A j \in 1 .. l : Q[j].of > P[1].of
<1>0. P \in Seq(ResponseUnits) /\ Blocks(P) /\ P # <<>>
  BY DEF Behind
<1>1. Q \in Seq(ResponseUnits) /\ m = Size(P[1]) /\ Len(P) = m + l
  BY DEF Behind
<1>2. ASSUME NEW i \in 1 .. l, NEW k \in Int, k = m + i PROVE Q[i] = P[k]
  BY <1>2 DEF Behind
<1>6. /\ 1 \in 1 .. Len(P) /\ m \in 1 .. Len(P) /\ m >= 1
      /\ P[1] \in ResponseUnits /\ P[1].part = 1 /\ P[1].of \in Int
  <2>1. 1 \in 1 .. Len(P)
    BY <1>0, EmptySeq
  <2>2. /\ 1 <= P[1].part /\ P[1].part <= 1 /\ P[1].part \in Nat
        /\ P[1] \in ResponseUnits /\ P[1].of \in Int
    BY <1>0, <2>1, BlockRange
  <2>3. m >= 1
    BY <1>1, <2>2, UnitFacts
  <2>4. m \in 1 .. Len(P)
    BY <1>1, <2>3
  <2> QED
    BY <2>1, <2>2, <2>3, <2>4
<1>7. ASSUME NEW p \in 1 .. m PROVE P[p] = Part(P[1], p)
  <2>0. PICK i \in 1 .. Len(P) : i = 1
    BY <1>6
  <2>1. p - i + P[i].part = p /\ p <= Size(P[i])
    BY <1>1, <1>6, <2>0
  <2> QED
    BY <1>0, <2>0, <2>1, BlockCopy
<1>8. P[m].part = m /\ P[m].of = P[1].of /\ Size(P[m]) = m
  <2>1. P[m] = Part(P[1], m)
    BY <1>7, <1>6
  <2> QED
    BY <2>1, <1>1, <1>6, UnitFacts
<1>9. ASSUME NEW j \in 1 .. l, NEW k \in Int, k = m + j
      PROVE  /\ k \in 1 .. Len(P) /\ Q[j] = P[k] /\ Q[j] \in ResponseUnits
             /\ Q[j].of \in Int /\ Q[j].part \in Nat /\ Size(Q[j]) \in Nat
             /\ 1 <= Q[j].part /\ Q[j].part <= Size(Q[j])
             /\ j - Q[j].part + Size(Q[j]) <= l
             /\ Q[j].part <= j
  <2>1. k \in 1 .. Len(P) /\ m <= k
    BY <1>1, <1>9
  <2>2. Q[j] = P[k]
    BY <1>2, <1>9
  <2>3. /\ P[k] \in ResponseUnits /\ P[k].part \in Nat /\ 1 <= P[k].part
        /\ P[k].part <= Size(P[k]) /\ P[k].of \in Int /\ Size(P[k]) \in Nat
        /\ k - P[k].part + Size(P[k]) <= Len(P)
    BY <1>0, <2>1, BlockRange
  <2>4. PICK a \in Nat, s \in Nat : a = P[k].part /\ s = Size(P[k])
    BY <2>3
  <2>5. a <= s /\ k - a + s <= m + l
    BY <2>3, <2>4, <1>1
  <2>6. ASSUME a > j PROVE FALSE
    <3>1. 1 <= m - k + a /\ m - k + a <= s
      BY <2>5, <2>6, <1>9
    <3>2. P[m] = Part(P[k], m - k + P[k].part)
      BY <3>1, <2>4, <1>0, <2>1, BlockCopy
    <3>3. P[m].of = P[k].of /\ Size(P[m]) = Size(P[k])
      <4>1. /\ Part(P[k], m - k + P[k].part).of = P[k].of
            /\ Size(Part(P[k], m - k + P[k].part)) = Size(P[k])
        BY <2>3, UnitFacts
      <4> QED
        BY <4>1, <3>2
    <3>4. P[m].of = P[k].of => m - P[m].part = k - P[k].part
      BY <1>0, <1>6, <2>1, BlockOrder
    <3>5. m - m = k - a /\ s = m
      BY <3>3, <3>4, <1>8, <2>4
    <3> QED
      BY <3>5, <2>5, <1>9
  <2>7. j - a + s <= l /\ a <= j
    BY <2>5, <2>6, <1>9
  <2> QED
    BY <2>1, <2>2, <2>3, <2>4, <2>7
<1>10. ASSUME NEW j \in 1 .. l PROVE Q[j].of > P[1].of
  <2>0. PICK k \in Int : k = m + j /\ 1 <= k
    OBVIOUS
  <2>1. /\ k \in 1 .. Len(P) /\ Q[j] = P[k]
        /\ Q[j].part \in Nat /\ Q[j].part <= j /\ Q[j].of \in Int
    BY <1>9, <2>0
  <2>2. /\ P[1].of <= P[k].of
        /\ P[1].of = P[k].of => 1 - P[1].part = k - P[k].part
    BY <1>0, <2>0, <2>1, <1>6, BlockOrder
  <2>3. /\ P[1].of <= Q[j].of
        /\ P[1].of = Q[j].of => 0 = k - Q[j].part
    BY <2>1, <2>2, <1>6
  <2> QED
    BY <2>0, <2>1, <2>3, <1>6
<1>11. ASSUME Q # <<>> PROVE Q[1].of = P[1].of + 1
  <2>1. l >= 1 /\ 1 \in 1 .. l
    BY <1>1, <1>11, EmptySeq
  <2>2. m < Len(P)
    BY <2>1, <1>1
  <2>3. P[m + 1].of = P[m].of + 1
    BY <1>0, <2>2, <1>6, <1>8, BlockNext
  <2>4. Q[1] = P[m + 1]
    BY <2>1, <1>2
  <2> QED
    BY <2>3, <2>4, <1>8
<1>12. ASSUME NEW i \in 1 .. l
       PROVE  /\ \A p \in 1 .. Size(Q[i]) : Q[i - Q[i].part + p] = Part(Q[i], p)
              /\ i < l /\ Q[i].part = Size(Q[i]) => Q[i + 1].of = Q[i].of + 1
  <2>0. PICK k \in Int : k = m + i
    OBVIOUS
  <2>1. /\ k \in 1 .. Len(P) /\ Q[i] = P[k] /\ Q[i] \in ResponseUnits
        /\ Q[i].part \in Nat /\ Size(Q[i]) \in Nat
        /\ Q[i].part <= i /\ i - Q[i].part + Size(Q[i]) <= l
    BY <1>9, <2>0
  <2>2. PICK a \in Nat, s \in Nat : a = Q[i].part /\ s = Size(Q[i])
    BY <2>1
  <2>3. ASSUME NEW p \in 1 .. s PROVE Q[i - a + p] = Part(Q[i], p)
    <3>1. PICK q \in Int : q = i - a + p
      OBVIOUS
    <3>2. PICK r \in Int : r = m + q
      OBVIOUS
    <3>3. q \in 1 .. l
      BY <3>1, <2>1, <2>2
    <3>4. r - k + a = p
      BY <3>1, <3>2, <2>0
    <3>5. P[r] = Part(P[k], r - k + P[k].part)
      BY <3>4, <2>1, <2>2, <1>0, BlockCopy
    <3>6. Q[q] = P[r]
      BY <3>2, <3>3, <1>2
    <3>7. Q[q] = Part(Q[i], p)
      BY <3>4, <3>5, <3>6, <2>1, <2>2
    <3> QED
      BY <3>1, <3>7
  <2>4. ASSUME i < l, a = s PROVE Q[i + 1].of = Q[i].of + 1
    <3>1. PICK h \in 1 .. l : h = i + 1
      BY <2>4
    <3>2. k < Len(P) /\ m + h = k + 1
      BY <3>1, <2>0, <1>1
    <3>3. Q[h] = P[k + 1]
      BY <3>2, <1>2
    <3>4. P[k + 1].of = P[k].of + 1
      BY <3>2, <2>1, <2>2, <2>4, <1>0, BlockNext
    <3> QED
      BY <3>1, <3>3, <3>4, <2>1
  <2> QED
    BY <2>2, <2>3, <2>4
<1>13. ASSUME NEW i \in 1 .. l, NEW j \in 1 .. l, i <= j
       PROVE  /\ Q[i].of <= Q[j].of
              /\ Q[i].of = Q[j].of => i - Q[i].part = j - Q[j].part
  <2>k. PICK k \in Int : k = m + i
    OBVIOUS
  <2>n. PICK n \in Int : n = m + j
    OBVIOUS
  <2>0. k <= n
    BY <1>13, <2>k, <2>n
  <2>1. /\ k \in 1 .. Len(P) /\ Q[i] = P[k] /\ Q[i].part \in Nat
        /\ n \in 1 .. Len(P) /\ Q[j] = P[n] /\ Q[j].part \in Nat
    BY <1>9, <2>k, <2>n
  <2>2. PICK a \in Nat, b \in Nat : a = Q[i].part /\ b = Q[j].part
    BY <2>1
  <2>3. /\ P[k].of <= P[n].of
        /\ P[k].of = P[n].of => k - P[k].part = n - P[n].part
    BY <2>0, <2>1, <1>0, BlockOrder
  <2>4. Q[i].of = Q[j].of => k - a = n - b
    BY <2>1, <2>2, <2>3
  <2>5. k - a = n - b => i - a = j - b
    BY <2>k, <2>n
  <2> QED
    BY <2>1, <2>2, <2>3, <2>4, <2>5
<1>14. ASSUME NEW j \in 1 .. l
       PROVE  /\ Q[j].part <= Size(Q[j]) /\ j - Q[j].part + Size(Q[j]) <= l
              /\ Q[j].part <= j
  <2>1. m + j \in Int
    OBVIOUS
  <2> QED
    BY <2>1, <1>9
<1>15. Blocks(Q)
  BY <1>12, <1>13, <1>14 DEF Blocks
<1> QED
  BY <1>7, <1>10, <1>11, <1>15

\* A response to the next request may be appended.
LEMMA BlocksAppend ==
  ASSUME NEW P \in Seq(ResponseUnits), Blocks(P),
         NEW u \in ResponseUnits, NEW R \in Seq(ResponseUnits),
         Copies(R, u),
         P # <<>> => u.of = P[Len(P)].of + 1
  PROVE  Blocks(P \o R)
<1> DEFINE C == P \o R
           m == Len(P)
           n == Len(R)
<1>1. /\ C \in Seq(ResponseUnits) /\ Len(C) = m + n
      /\ m \in Nat /\ n \in Nat
      /\ \A i \in 1 .. m : C[i] = P[i]
      /\ \A i \in 1 .. n : C[m + i] = R[i]
  BY Concat
<1>3. n = Size(u) /\ n >= 2 /\ Size(u) \in Nat /\ u.of \in Int
  BY UnitFacts DEF Copies
<1>4. ASSUME NEW i \in 1 .. m
      PROVE  /\ C[i] = P[i] /\ i \in 1 .. Len(C)
             /\ P[i] \in ResponseUnits /\ P[i].of \in Int /\ P[i].part \in Nat
             /\ Size(P[i]) \in Nat
             /\ 1 <= P[i].part /\ P[i].part <= i /\ P[i].part <= Size(P[i])
             /\ i - P[i].part + Size(P[i]) <= m
  <2>1. C[i] = P[i] /\ i \in 1 .. Len(C)
    BY <1>1
  <2> QED
    BY <2>1, BlockRange
<1>5. ASSUME NEW j \in 1 .. n
      PROVE  /\ m + j \in 1 .. Len(C) /\ C[m + j] = Part(u, j)
             /\ C[m + j].of = u.of /\ C[m + j].part = j /\ Size(C[m + j]) = n
             /\ \A p : Part(C[m + j], p) = Part(u, p)
  <2>1. m + j \in 1 .. Len(C) /\ C[m + j] = Part(u, j)
    BY <1>1 DEF Copies
  <2>2. /\ Part(u, j).of = u.of /\ Part(u, j).part = j /\ Size(Part(u, j)) = n
        /\ \A p : Part(Part(u, j), p) = Part(u, p)
    BY <1>3, UnitFacts DEF Part
  <2> QED
    BY <2>1, <2>2
<1>6. ASSUME NEW i \in 1 .. Len(C), i \notin 1 .. m
      PROVE  \E j \in 1 .. n : i = m + j
  <2>1. i - m \in 1 .. n /\ i = m + (i - m)
    BY <1>6, <1>1
  <2> QED
    BY <2>1
<1>9. ASSUME NEW i \in 1 .. m PROVE P[i].of < u.of /\ u.of = P[m].of + 1
  <2>1. m \in 1 .. m /\ i <= m /\ P # <<>>
    BY <1>1, EmptySeq
  <2>2. u.of = P[m].of + 1
    BY <2>1
  <2>3. P[i].of <= P[m].of
    BY <2>1, BlockOrder
  <2>4. P[i].of \in Int /\ P[m].of \in Int
    BY <2>1, <1>4
  <2> QED
    BY <2>2, <2>3, <2>4
<1>10. ASSUME NEW i \in 1 .. Len(C)
       PROVE  /\ C[i].part <= i /\ C[i].part <= Size(C[i])
              /\ i - C[i].part + Size(C[i]) <= Len(C)
              /\ \A p \in 1 .. Size(C[i]) : C[i - C[i].part + p] = Part(C[i], p)
              /\ i < Len(C) /\ C[i].part = Size(C[i]) => C[i + 1].of = C[i].of + 1
  <2>1. CASE i \in 1 .. m
    <3>1. /\ C[i] = P[i] /\ Size(P[i]) \in Nat /\ P[i].part \in Nat
          /\ P[i].part <= i /\ P[i].part <= Size(P[i])
          /\ i - P[i].part + Size(P[i]) <= m
      BY <2>1, <1>4
    <3>2. ASSUME NEW p \in 1 .. Size(P[i]) PROVE C[i - P[i].part + p] = Part(P[i], p)
      <4>1. i - P[i].part + p \in 1 .. m /\ P[i - P[i].part + p] = Part(P[i], p)
        BY <2>1, <3>1 DEF Blocks
      <4> QED
        BY <4>1, <1>1
    <3>3. ASSUME P[i].part = Size(P[i]) PROVE C[i + 1].of = P[i].of + 1
      <4>1. CASE i < m
        <5>1. i + 1 \in 1 .. m
          BY <4>1, <2>1, <1>1
        <5>2. P[i + 1].of = P[i].of + 1
          BY <4>1, <2>1, <3>3, BlockNext
        <5> QED
          BY <5>1, <5>2, <1>1
      <4>2. CASE i = m
        <5>1. 1 \in 1 .. n /\ C[m + 1].of = u.of
          BY <1>5, <1>3
        <5> QED
          BY <5>1, <4>2, <2>1, <1>9
      <4>3. i < m \/ i = m
        BY <2>1, <1>1
      <4> QED
        BY <4>1, <4>2, <4>3
    <3>4. i - P[i].part + Size(P[i]) <= Len(C)
      BY <3>1, <1>1
    <3> QED
      BY <3>1, <3>2, <3>3, <3>4
  <2>2. ASSUME NEW j \in 1 .. n, i = m + j
        PROVE  /\ C[i].part <= i /\ C[i].part <= Size(C[i])
               /\ i - C[i].part + Size(C[i]) <= Len(C)
               /\ \A p \in 1 .. Size(C[i]) : C[i - C[i].part + p] = Part(C[i], p)
               /\ i < Len(C) /\ C[i].part = Size(C[i]) => C[i + 1].of = C[i].of + 1
    <3>1. /\ C[i] = Part(u, j) /\ C[i].part = j /\ Size(C[i]) = n /\ C[i].of = u.of
          /\ \A p : Part(C[i], p) = Part(u, p)
      BY <2>2, <1>5
    <3>2. ASSUME NEW p \in 1 .. n PROVE C[i - C[i].part + p] = Part(C[i], p)
      <4>1. i - C[i].part + p = m + p
        BY <3>1, <2>2, <1>1
      <4> QED
        BY <4>1, <3>1, <1>5
    <3>3. i < Len(C) => C[i].part # Size(C[i])
      BY <3>1, <2>2, <1>1
    <3>4. /\ C[i].part <= i /\ C[i].part <= Size(C[i])
          /\ i - C[i].part + Size(C[i]) <= Len(C)
      BY <3>1, <2>2, <1>1
    <3> QED
      BY <3>1, <3>2, <3>3, <3>4
  <2>3. CASE i \notin 1 .. m
    BY <2>2, <2>3, <1>6
  <2> QED
    BY <2>1, <2>3
<1>11. ASSUME NEW i \in 1 .. Len(C), NEW j \in 1 .. Len(C), i <= j
       PROVE  /\ C[i].of <= C[j].of
              /\ C[i].of = C[j].of => i - C[i].part = j - C[j].part
  <2>1. CASE i \in 1 .. m /\ j \in 1 .. m
    <3>1. C[i] = P[i] /\ C[j] = P[j]
      BY <2>1, <1>4
    <3>2. /\ P[i].of <= P[j].of
          /\ P[i].of = P[j].of => i - P[i].part = j - P[j].part
      BY <2>1, <1>11, BlockOrder
    <3> QED
      BY <3>1, <3>2
  <2>2. CASE i \in 1 .. m /\ j \notin 1 .. m
    <3>0. PICK k \in 1 .. n : j = m + k
      BY <2>2, <1>6
    <3>1. C[j].of = u.of
      BY <3>0, <1>5
    <3>2. C[i] = P[i] /\ P[i].of < u.of /\ P[i].of \in Int
      BY <2>2, <1>4, <1>9
    <3> QED
      BY <3>1, <3>2, <1>3
  <2>3. CASE i \notin 1 .. m
    <3>1. j \notin 1 .. m
      BY <2>3, <1>11, <1>1
    <3>2. PICK k \in 1 .. n : i = m + k
      BY <2>3, <1>6
    <3>3. PICK l \in 1 .. n : j = m + l
      BY <3>1, <1>6
    <3>4. C[i].of = u.of /\ C[j].of = u.of /\ C[i].part = k /\ C[j].part = l
      BY <3>2, <3>3, <1>5
    <3> QED
      BY <3>2, <3>3, <3>4, <1>1, <1>3
  <2> QED
    BY <2>1, <2>2, <2>3
<1>12. Blocks(C)
  BY <1>10, <1>11 DEF Blocks
<1> QED
  BY <1>12

-----------------------------------------------------------------------------
(* conn->server                                                            *)

\* server.request, server.f4m_request and conn->server as a whole.
Messages == [status : {"null", "needmore"}]
            \cup [status : {"success"}, of : 1 .. Requests, listed : BOOLEAN]

Saved == {<<>>} \cup ((1 .. Requests) \X BOOLEAN)

Servers == [offset : 0 .. Cap, buf : [1 .. Cap -> ResponseCells],
            request : Messages, to_send_length : Nat,
            response_body : Seq(ResponseUnits), response : Seq(ResponseUnits),
            f4m_request : Saved]

\* conn->server, field by field.
Fields(o, b, q, l, body, head, f) ==
  [offset |-> o, buf |-> b, request |-> q, to_send_length |-> l,
   response_body |-> body, response |-> head, f4m_request |-> f]

\* Its fields, and its type.
LEMMA GetField ==
  ASSUME NEW o, NEW b, NEW q, NEW l, NEW body, NEW head, NEW f, NEW s,
         s = Fields(o, b, q, l, body, head, f)
  PROVE  /\ s.offset = o /\ s.buf = b /\ s.request = q /\ s.to_send_length = l
         /\ s.response_body = body /\ s.response = head /\ s.f4m_request = f
         /\ s \in Servers <=> /\ o \in 0 .. Cap /\ b \in [1 .. Cap -> ResponseCells]
                             /\ q \in Messages /\ l \in Nat /\ body \in Seq(ResponseUnits)
                             /\ head \in Seq(ResponseUnits) /\ f \in Saved
<1>1. /\ s.offset = o /\ s.buf = b /\ s.request = q /\ s.to_send_length = l
      /\ s.response_body = body /\ s.response = head /\ s.f4m_request = f
  BY DEF Fields
<1>2. s \in Servers => /\ o \in 0 .. Cap /\ b \in [1 .. Cap -> ResponseCells]
                       /\ q \in Messages /\ l \in Nat /\ body \in Seq(ResponseUnits)
                       /\ head \in Seq(ResponseUnits) /\ f \in Saved
  BY <1>1 DEF Servers
<1>3. ASSUME /\ o \in 0 .. Cap /\ b \in [1 .. Cap -> ResponseCells]
             /\ q \in Messages /\ l \in Nat /\ body \in Seq(ResponseUnits)
             /\ head \in Seq(ResponseUnits) /\ f \in Saved
      PROVE  s \in Servers
  <2> DEFINE B == [1 .. Cap -> ResponseCells]
             T == Seq(ResponseUnits)
  <2>1. Servers = [offset : 0 .. Cap, buf : B, request : Messages, to_send_length : Nat,
                   response_body : T, response : T, f4m_request : Saved]
    BY DEF Servers
  <2> HIDE DEF B, T
  <2>2. o \in 0 .. Cap /\ b \in B /\ q \in Messages /\ l \in Nat /\ body \in T
        /\ head \in T /\ f \in Saved
        => Fields(o, b, q, l, body, head, f)
             \in [offset : 0 .. Cap, buf : B, request : Messages, to_send_length : Nat,
                  response_body : T, response : T, f4m_request : Saved]
    BY DEF Fields
  <2>3. o \in 0 .. Cap /\ b \in B /\ q \in Messages /\ l \in Nat /\ body \in T
        /\ head \in T /\ f \in Saved => s \in Servers
    BY <2>1, <2>2, Zenon
  <2> QED
    BY <1>3, <2>3, Zenon DEF B, T
<1> QED
  BY <1>1, <1>2, <1>3

\* Its type, from that of the fields.
LEMMA FieldsType ==
  ASSUME NEW o \in 0 .. Cap, NEW b \in [1 .. Cap -> ResponseCells], NEW q \in Messages,
         NEW l \in Nat, NEW body \in Seq(ResponseUnits), NEW head \in Seq(ResponseUnits),
         NEW f \in Saved
  PROVE  Fields(o, b, q, l, body, head, f) \in Servers
BY GetField

\* It has no other fields.
LEMMA ServerFields ==
  ASSUME NEW s \in Servers
  PROVE  s = Fields(s.offset, s.buf, s.request, s.to_send_length, s.response_body,
                    s.response, s.f4m_request)
BY DEF Servers, Fields

\* What recv, the assembly of a body and the parse of a head make of conn->server.
Receiving(s, b, o) == [s EXCEPT !.buf = b, !.offset = o]

Assembling(s, body, l, o, b) ==
  [s EXCEPT !.response_body = body, !.to_send_length = l, !.offset = o, !.buf = b]

Parsing(s, q, l, body, head, o, b) ==
  [s EXCEPT !.request = q, !.to_send_length = l, !.response_body = body,
            !.response = head, !.offset = o, !.buf = b]

\* What recv makes of it,
LEMMA Received ==
  ASSUME NEW s \in Servers, NEW b, NEW o
  PROVE  Receiving(s, b, o)
           = Fields(o, b, s.request, s.to_send_length, s.response_body, s.response, s.f4m_request)
<1> DEFINE s1 == [s EXCEPT !.buf = b]
<1>1. Receiving(s, b, o) = [s1 EXCEPT !.offset = o]
  BY DEF Receiving
<1>2. s1 = Fields(s.offset, b, s.request, s.to_send_length, s.response_body, s.response, s.f4m_request)
  BY ServerFields DEF Fields
<1> HIDE DEF s1
<1>3. [s1 EXCEPT !.offset = o]
        = Fields(o, b, s.request, s.to_send_length, s.response_body, s.response, s.f4m_request)
  BY <1>2 DEF Fields
<1> QED
  BY <1>1, <1>3, Zenon

\* what the assembly of a body makes of it,
LEMMA Assembled ==
  ASSUME NEW s \in Servers, NEW body, NEW l, NEW o, NEW b
  PROVE  Assembling(s, body, l, o, b)
           = Fields(o, b, s.request, l, body, s.response, s.f4m_request)
<1> DEFINE s1 == [s EXCEPT !.response_body = body]
           s2 == [s1 EXCEPT !.to_send_length = l]
           s3 == [s2 EXCEPT !.offset = o]
<1>1. Assembling(s, body, l, o, b) = [s3 EXCEPT !.buf = b]
  BY DEF Assembling
<1>2. s1 = Fields(s.offset, s.buf, s.request, s.to_send_length, body, s.response, s.f4m_request)
  BY ServerFields DEF Fields
<1> HIDE DEF s1
<1>3. s2 = Fields(s.offset, s.buf, s.request, l, body, s.response, s.f4m_request)
  BY <1>2 DEF Fields
<1> HIDE DEF s2
<1>4. s3 = Fields(o, s.buf, s.request, l, body, s.response, s.f4m_request)
  BY <1>3 DEF Fields
<1> HIDE DEF s3
<1>5. [s3 EXCEPT !.buf = b] = Fields(o, b, s.request, l, body, s.response, s.f4m_request)
  BY <1>4 DEF Fields
<1> QED
  BY <1>1, <1>5, Zenon

\* what freeing the request makes of it,
LEMMA FreedIs ==
  ASSUME NEW s \in Servers
  PROVE  Freed(s) = Fields(s.offset, s.buf, NoMessage, s.to_send_length, <<>>,
                           s.response, s.f4m_request)
<1> DEFINE s1 == [s EXCEPT !.request = NoMessage]
<1>1. Freed(s) = [s1 EXCEPT !.response_body = <<>>]
  BY DEF Freed
<1>2. s1 = Fields(s.offset, s.buf, NoMessage, s.to_send_length, s.response_body, s.response, s.f4m_request)
  BY ServerFields DEF Fields
<1> HIDE DEF s1
<1>3. [s1 EXCEPT !.response_body = <<>>]
        = Fields(s.offset, s.buf, NoMessage, s.to_send_length, <<>>, s.response, s.f4m_request)
  BY <1>2 DEF Fields
<1> QED
  BY <1>1, <1>3, Zenon

\* and what the parse of a head makes of it.
LEMMA Parsed ==
  ASSUME NEW s \in Servers, NEW q, NEW l, NEW body, NEW head, NEW o, NEW b
  PROVE  Parsing(s, q, l, body, head, o, b)
           = Fields(o, b, q, l, body, head, s.f4m_request)
<1> DEFINE s1 == [s EXCEPT !.request = q]
           s2 == [s1 EXCEPT !.to_send_length = l]
           s3 == [s2 EXCEPT !.response_body = body]
           s4 == [s3 EXCEPT !.response = head]
           s5 == [s4 EXCEPT !.offset = o]
<1>1. Parsing(s, q, l, body, head, o, b) = [s5 EXCEPT !.buf = b]
  BY DEF Parsing
<1>2. s1 = Fields(s.offset, s.buf, q, s.to_send_length, s.response_body, s.response, s.f4m_request)
  BY ServerFields DEF Fields
<1> HIDE DEF s1
<1>3. s2 = Fields(s.offset, s.buf, q, l, s.response_body, s.response, s.f4m_request)
  BY <1>2 DEF Fields
<1> HIDE DEF s2
<1>4. s3 = Fields(s.offset, s.buf, q, l, body, s.response, s.f4m_request)
  BY <1>3 DEF Fields
<1> HIDE DEF s3
<1>5. s4 = Fields(s.offset, s.buf, q, l, body, head, s.f4m_request)
  BY <1>4 DEF Fields
<1> HIDE DEF s4
<1>6. s5 = Fields(o, s.buf, q, l, body, head, s.f4m_request)
  BY <1>5 DEF Fields
<1> HIDE DEF s5
<1>7. [s5 EXCEPT !.buf = b] = Fields(o, b, q, l, body, head, s.f4m_request)
  BY <1>6 DEF Fields
<1> QED
  BY <1>1, <1>7, Zenon

-----------------------------------------------------------------------------
(* The invariant                                                           *)

\* The requests on the way to the server.
QueuedRequests == [of : 1 .. Requests, nolist : BOOLEAN, residue : BOOLEAN]

\* The shape of the state: TypeOK, and the types of what TypeOK leaves out.
Shape ==
  /\ traffic \in Traffics
  /\ pc \in {"select", "body", "dispatch", "parse"} \cup Ends
  /\ browser \in [offset : 0 .. Cap, buf : [1 .. Cap -> RequestCells]]
  /\ \A i \in 1 .. browser.offset : browser.buf[i] \in RequestUnits
  /\ server \in Servers
  /\ \A i \in 1 .. server.offset : server.buf[i] \in ResponseUnits
  /\ recvlen \in 0 .. Cap
  /\ state \in AllKinds \cup {"f4m_nolist"} /\ t_s \in 0 .. Requests
  /\ bitrate_list \in BOOLEAN /\ default_list \in BOOLEAN
  /\ kind \in Seq(AllKinds) /\ Len(kind) <= Requests
  /\ to_proxy \in Seq(RequestUnits) /\ to_server \in Seq(QueuedRequests)
  /\ from_server \in Seq(ResponseUnits)
  /\ delivered \in Seq(Seq(ResponseUnits))

\* The last request the server has answered, and the last that was forwarded.
LastAnswered == IF Pending = <<>> THEN Len(delivered) ELSE Pending[Len(Pending)].of

Sent == LastAnswered + Len(to_server)

\* What is pending are whole responses, the first to the next request to be
\* answered; behind them come the requests the server has yet to answer.
Order ==
  /\ Blocks(Pending)
  /\ Pending # <<>> => Pending[1].of = Len(delivered) + 1
  /\ \A j \in 1 .. Len(to_server) : to_server[j].of = LastAnswered + j
  /\ Sent <= Len(kind)
  /\ Len(kind) <= Len(delivered) + traffic.pipeline
  /\ \A i \in 1 .. Len(kind) : kind[i] \in traffic.kinds

\* What of the browser's requests is not forwarded yet,
Arriving == Prefix(browser.buf, browser.offset) \o to_proxy

\* which are the requests behind Sent, two units each.
Requested ==
  pc # "crashed" =>
    /\ Len(Arriving) = 2 * (Len(kind) - Sent)
    /\ \A j \in 1 .. Len(Arriving) : 2 * (Arriving[j].of - Sent) = j + 2 - Arriving[j].part

\* The copy of a manifest request is of one that was forwarded, and as long as
\* there is none but that it has no tail.
Saves == server.f4m_request # <<>> =>
  /\ server.f4m_request[1] \in 1 .. Sent /\ kind[server.f4m_request[1]] = "f4m"
  /\ server.f4m_request[2] = FALSE

\* conn->state is about the request forwarded last; no request has a tail.
StateOf ==
  /\ Sent = 0 => state = "html"
  /\ Sent > 0 => \/ state = kind[Sent]
                 \/ state = "f4m_nolist" /\ kind[Sent] = "f4m"
  /\ state = "f4m" => server.f4m_request # <<>> /\ server.f4m_request[1] = Sent
  /\ \A i \in 1 .. Len(Pending) : Pending[i].nolist = (state = "f4m_nolist")
  /\ \A j \in 1 .. Len(to_server) : to_server[j].nolist = (state = "f4m_nolist")
  /\ Saves /\ \A j \in 1 .. Len(to_server) : to_server[j].residue = FALSE

\* Where the loop of handler_server stands: how much of the response in hand
\* is taken, and what that leaves in the buffer.
Progress ==
  /\ server.request.status # "success" => server.to_send_length = 0
  /\ server.request.status = "success" =>
       /\ Len(server.response) = HeadEnd
       /\ Len(Message) + server.to_send_length = Size(Pending[1])
       /\ server.request.of = Pending[1].of
       /\ server.request.listed = Pending[1].listed
  /\ pc \in {"body", "dispatch", "parse"} => server.request.status # "needmore"
  /\ pc = "dispatch" /\ server.to_send_length > 0 => server.offset = 0
  /\ pc = "parse" => server.request.status = "null" /\ server.offset > 0

\* Every answer so far is the right one.
InOrder == \A i \in 1 .. Len(delivered) : RightAnswer(i)

\* The requests and the responses under way are the same as before.
StreamKept == Pending' = Pending /\ Sent' = Sent

\* No request can have left a tail yet.
Clean == Undisturbed(Len(kind))

\* The inductive invariant of a connection no tail disturbs.
IInv == Shape /\ Order /\ Requested /\ StateOf /\ Progress /\ InOrder

\* What is taken of the response in hand.
Taken == IF server.request.status = "success" THEN Message ELSE <<>>

-----------------------------------------------------------------------------
(* What follows from it                                                    *)

\* Types and lengths of what is pending.
LEMMA PendingType ==
  ASSUME server \in Servers, from_server \in Seq(ResponseUnits),
         \A i \in 1 .. server.offset : server.buf[i] \in ResponseUnits
  PROVE  /\ Pending = (Taken \o Prefix(server.buf, server.offset)) \o from_server
         /\ Message \in Seq(ResponseUnits) /\ Taken \in Seq(ResponseUnits)
         /\ Len(Message) = Len(server.response) + Len(server.response_body)
         /\ Len(Message) \in Nat
         /\ Len(server.response) \in Nat /\ Len(server.response_body) \in Nat
         /\ Prefix(server.buf, server.offset) \in Seq(ResponseUnits)
         /\ Len(Prefix(server.buf, server.offset)) = server.offset
         /\ Pending \in Seq(ResponseUnits) /\ Len(Pending) \in Nat
         /\ Len(Pending) = Len(Taken) + server.offset + Len(from_server)
<1>1. Pending = (Taken \o Prefix(server.buf, server.offset)) \o from_server
  BY DEF Pending, Taken, Message
<1>2. /\ server.response \in Seq(ResponseUnits) /\ server.response_body \in Seq(ResponseUnits)
      /\ server.offset \in Nat
  BY StreamAssumption DEF Servers, StreamAssumption
<1>3. /\ Message \in Seq(ResponseUnits)
      /\ Len(Message) = Len(server.response) + Len(server.response_body)
      /\ Len(server.response) \in Nat /\ Len(server.response_body) \in Nat
  BY <1>2, ConcatLen DEF Message
<1>4. Taken \in Seq(ResponseUnits)
  BY <1>3, EmptySeq DEF Taken
<1>5. /\ Prefix(server.buf, server.offset) \in Seq(ResponseUnits)
      /\ Len(Prefix(server.buf, server.offset)) = server.offset
  <2>1. ASSUME NEW b, NEW n \in Nat, \A i \in 1 .. n : b[i] \in ResponseUnits
        PROVE  Prefix(b, n) \in Seq(ResponseUnits) /\ Len(Prefix(b, n)) = n
    BY <2>1, PrefixSeq
  <2> QED
    BY <2>1, <1>2
<1>6. /\ Taken \o Prefix(server.buf, server.offset) \in Seq(ResponseUnits)
      /\ Len(Taken \o Prefix(server.buf, server.offset)) = Len(Taken) + server.offset
  BY <1>4, <1>5, ConcatLen
<1>7. /\ Pending \in Seq(ResponseUnits)
      /\ Len(Pending) = Len(Taken) + server.offset + Len(from_server)
  BY <1>1, <1>6, ConcatLen
<1>8. Len(Message) \in Nat /\ Len(Pending) \in Nat
  BY <1>3, <1>7, LenProperties
<1> QED
  BY <1>1, <1>3, <1>4, <1>5, <1>7, <1>8

\* The numbers of requests answered, forwarded and made.
LEMMA Counts ==
  ASSUME Shape, Order
  PROVE  /\ Pending \in Seq(ResponseUnits) /\ Len(Pending) \in Nat
         /\ Pending # <<>> => Len(Pending) >= 1
         /\ LastAnswered \in Nat /\ LastAnswered >= Len(delivered)
         /\ Pending # <<>> => LastAnswered >= Len(delivered) + 1
         /\ Len(delivered) \in Nat /\ Len(to_server) \in Nat /\ Len(kind) \in Nat
         /\ Sent \in Nat /\ Sent = LastAnswered + Len(to_server)
         /\ Len(delivered) <= Len(kind)
<1>1. Pending \in Seq(ResponseUnits) /\ Len(Pending) \in Nat
  BY PendingType DEF Shape
<1>2. Len(delivered) \in Nat /\ Len(to_server) \in Nat /\ Len(kind) \in Nat
  BY LenProperties DEF Shape
<1>3. ASSUME Pending # <<>>
      PROVE  /\ Len(Pending) >= 1
             /\ LastAnswered \in Nat /\ LastAnswered >= Len(delivered) + 1
  <2>1. Len(Pending) >= 1 /\ 1 \in 1 .. Len(Pending) /\ Len(Pending) \in 1 .. Len(Pending)
    BY <1>1, <1>3, EmptySeq
  <2>2. Blocks(Pending) /\ Pending[1].of = Len(delivered) + 1
    BY <1>3 DEF Order
  <2>3. Pending[1].of <= Pending[Len(Pending)].of
    BY <2>1, <2>2, <1>1, BlockOrder
  <2>4. Pending[Len(Pending)].of \in Int
    BY <2>1, <2>2, <1>1, BlockRange
  <2>5. LastAnswered = Pending[Len(Pending)].of
    BY <1>3 DEF LastAnswered
  <2> QED
    BY <2>1, <2>2, <2>3, <2>4, <2>5, <1>2
<1>4. ASSUME Pending = <<>> PROVE LastAnswered = Len(delivered)
  BY <1>4 DEF LastAnswered
<1>5. LastAnswered \in Nat /\ LastAnswered >= Len(delivered)
  BY <1>2, <1>3, <1>4
<1>6. Sent \in Nat /\ Sent <= Len(kind) /\ Sent = LastAnswered + Len(to_server)
  BY <1>2, <1>5 DEF Sent, Order
<1> QED
  BY <1>1, <1>2, <1>3, <1>5, <1>6

\* What the assumption says of the traffic at hand.
LEMMA TrafficIs ==
  ASSUME Shape
  PROVE  /\ traffic.kinds \subseteq AllKinds /\ traffic.lengths \subseteq Nat
         /\ traffic.pipeline \in Nat /\ traffic.pipeline >= 1
         /\ "f4m" \in traffic.kinds => traffic.pipeline = 1
         /\ traffic.splits \in BOOLEAN /\ traffic.tails \in BOOLEAN
         /\ traffic.first \in BOOLEAN /\ traffic.listed \in BOOLEAN
BY StreamAssumption DEF StreamAssumption, Shape

\* While a manifest is asked for, there is nothing else.
LEMMA Alone ==
  ASSUME Shape, Order, traffic.pipeline = 1
  PROVE  /\ Sent < Len(kind) => Pending = <<>> /\ to_server = <<>>
         /\ Len(kind) <= Len(delivered) + 1
         /\ Pending # <<>> => /\ LastAnswered = Len(delivered) + 1 /\ Sent = LastAnswered
                              /\ to_server = <<>> /\ Sent = Len(kind)
         /\ to_server # <<>> => Sent = Len(kind) /\ Sent = Len(delivered) + 1
<1>1. Len(kind) <= Len(delivered) + 1 /\ Sent <= Len(kind)
  BY DEF Order
<1>2. to_server # <<>> => Len(to_server) >= 1
  BY EmptySeq DEF Shape
<1> QED
  BY <1>1, <1>2, Counts

\* conn->state is f4m_nolist only where nothing is pipelined.
LEMMA ManifestAlone ==
  ASSUME Shape, Order, StateOf, state \in {"f4m", "f4m_nolist"}
  PROVE  Sent > 0 /\ kind[Sent] = "f4m" /\ traffic.pipeline = 1
<1>1. Sent \in Nat /\ Sent <= Len(kind) /\ Len(kind) \in Nat
  BY Counts DEF Order
<1>2. Sent > 0
  BY <1>1 DEF StateOf
<1>3. Sent \in 1 .. Len(kind)
  BY <1>1, <1>2
<1>4. kind[Sent] \in AllKinds /\ kind[Sent] \in traffic.kinds
  BY <1>3, ElementOfSeq DEF Shape, Order
<1>5. kind[Sent] = "f4m"
  BY <1>2, <1>4 DEF StateOf, AllKinds
<1> QED
  BY <1>2, <1>4, <1>5, TrafficIs

-----------------------------------------------------------------------------
(* What a step leaves alone                                                *)

\* Parts of the invariant a step leaves alone if it leaves these variables alone.
LEMMA SameOrder ==
  ASSUME Order, UNCHANGED <<Pending, delivered, to_server, kind, traffic>>
  PROVE  Order' /\ LastAnswered' = LastAnswered /\ Sent' = Sent
<1>1. LastAnswered' = LastAnswered
  BY DEF LastAnswered
<1>2. Sent' = Sent
  BY <1>1 DEF Sent
<1> QED
  BY <1>1, <1>2 DEF Order

LEMMA SameRequested ==
  ASSUME Requested, UNCHANGED <<browser, to_proxy, kind>>, Sent' = Sent,
         pc' = "crashed" \/ pc # "crashed"
  PROVE  Requested'
<1>1. Arriving' = Arriving
  BY DEF Arriving
<1> QED
  BY <1>1 DEF Requested

LEMMA SameStateOf ==
  ASSUME StateOf, UNCHANGED <<Pending, to_server, kind, state>>, Sent' = Sent,
         server'.f4m_request = server.f4m_request
  PROVE  StateOf'
BY DEF StateOf, Saves

LEMMA SameAnswers ==
  ASSUME InOrder, UNCHANGED delivered, Len(delivered) \in Nat,
         \A i \in 1 .. Len(delivered) : kind'[i] = kind[i]
  PROVE  InOrder'
BY DEF InOrder, RightAnswer

LEMMA SamePending ==
  ASSUME UNCHANGED <<from_server, server>>
  PROVE  Pending' = Pending /\ Message' = Message
BY DEF Pending, Message

\* The connection ends.
LEMMA Closing ==
  ASSUME IInv, UNCHANGED traffic, pc' \in Ends, pc' # "crashed", pc # "crashed",
         UNCHANGED <<conn, kind, to_proxy, to_server, from_server, delivered>>
  PROVE  IInv' /\ StreamKept
<1>1. Pending' = Pending /\ Message' = Message
  BY SamePending DEF conn
<1>2. Order' /\ Sent' = Sent
  BY <1>1, SameOrder DEF IInv, conn
<1>3. Requested'
  BY <1>2, SameRequested DEF IInv, conn
<1>4. StateOf'
  BY <1>1, <1>2, SameStateOf DEF IInv, conn
<1>5. Shape'
  BY DEF IInv, Shape, conn
<1>6. Progress'
  BY <1>1 DEF IInv, Progress, conn, Ends
<1>7. InOrder'
  BY Counts, SameAnswers DEF IInv
<1> QED
  BY <1>1, <1>2, <1>3, <1>4, <1>5, <1>6, <1>7 DEF IInv, StreamKept

-----------------------------------------------------------------------------
(* handler_server                                                          *)

\* recv moves units from the connection into the buffer.
LEMMA HandlerServerStep ==
  ASSUME IInv, UNCHANGED traffic, NEW n, HandlerServer(n)
  PROVE  /\ IInv' /\ StreamKept
         /\ server'.offset = server.offset + n /\ server'.request = server.request
         /\ server'.buf[server'.offset] = from_server[n] /\ n \in 1 .. Cap
<1> USE DEF ReceiveAt
<1>1. Shape /\ Order /\ Requested /\ StateOf /\ Progress /\ InOrder
  BY DEF IInv
<1>2. /\ pc = "select" /\ n \in Segments(from_server, Cap - server.offset, traffic.splits)
      /\ server' = [server EXCEPT
           !.buf = Receive(server.buf, server.offset, SubSeq(from_server, 1, n)),
           !.offset = server.offset + n]
      /\ from_server' = SubSeq(from_server, n + 1, Len(from_server))
      /\ recvlen' = n
      /\ pc' = IF Continues(server') THEN "body" ELSE "select"
      /\ UNCHANGED <<browser, state, bitrate_list, default_list, t_s, kind,
                     to_proxy, to_server, delivered, measured>>
  BY DEF HandlerServer
<1>3. Cap \in Nat /\ server \in Servers /\ from_server \in Seq(ResponseUnits)
      /\ Len(from_server) \in Nat
  BY <1>1, StreamAssumption, LenProperties DEF Shape, StreamAssumption
<1>4. server.offset \in 0 .. Cap /\ server.buf \in [1 .. Cap -> ResponseCells]
  BY <1>3 DEF Servers
<1>5. n \in 1 .. Len(from_server) /\ n \in 0 .. Len(from_server) /\ server.offset + n <= Cap
      /\ n \in 0 .. Cap /\ server.offset + n \in 0 .. Cap
  BY <1>2, <1>3, <1>4 DEF Segments
<1> DEFINE seg  == SubSeq(from_server, 1, n)
           rest == SubSeq(from_server, n + 1, Len(from_server))
           buf  == Receive(server.buf, server.offset, seg)
           o    == server.offset + n
<1>6. seg \in Seq(ResponseUnits) /\ Len(seg) = n /\ rest \in Seq(ResponseUnits)
      /\ from_server = seg \o rest
  BY <1>3, <1>5, SegmentSplit
<1>7. /\ buf \in [1 .. Cap -> ResponseCells]
      /\ \A i \in 1 .. o : buf[i] \in ResponseUnits
      /\ Prefix(buf, o) = Prefix(server.buf, server.offset) \o seg
  <2>1. ResponseUnits \subseteq ResponseCells
    BY DEF ResponseCells
  <2>2. \A i \in 1 .. server.offset : server.buf[i] \in ResponseUnits
    BY <1>1 DEF Shape
  <2>3. ASSUME NEW b \in [1 .. Cap -> ResponseCells], NEW m \in 0 .. Cap,
               NEW s \in Seq(ResponseUnits), m + Len(s) <= Cap,
               \A i \in 1 .. m : b[i] \in ResponseUnits
        PROVE  /\ Receive(b, m, s) \in [1 .. Cap -> ResponseCells]
               /\ \A i \in 1 .. m + Len(s) : Receive(b, m, s)[i] \in ResponseUnits
               /\ Prefix(Receive(b, m, s), m + Len(s)) = Prefix(b, m) \o s
    BY <1>3, <2>1, <2>3, ReceivePrefix, ReceiveType
  <2> HIDE DEF seg, rest
  <2>4. server.offset + Len(seg) <= Cap
    BY <1>5, <1>6
  <2> QED
    BY <1>4, <1>6, <2>2, <2>3, <2>4
<1>8. server' = Fields(o, buf, server.request, server.to_send_length,
                       server.response_body, server.response, server.f4m_request)
  <2>1. server' = Receiving(server, buf, o)
    BY <1>2, Zenon DEF Receiving
  <2> QED
    BY <2>1, <1>3, Received, Zenon
<1>9. from_server' = rest
  BY <1>2
<1> HIDE DEF seg, rest, buf, o
<1>10. /\ server'.offset = o /\ server'.buf = buf /\ server'.request = server.request
       /\ server'.to_send_length = server.to_send_length
       /\ server'.response_body = server.response_body
       /\ server'.response = server.response /\ server'.f4m_request = server.f4m_request
  BY <1>8, GetField
<1>11. server' \in Servers
  <2>1. /\ server.request \in Messages /\ server.to_send_length \in Nat
        /\ server.response_body \in Seq(ResponseUnits)
        /\ server.response \in Seq(ResponseUnits) /\ server.f4m_request \in Saved
    BY <1>3 DEF Servers
  <2>2. o \in 0 .. Cap
    BY <1>5 DEF o
  <2> QED
    BY <1>7, <1>8, <2>1, <2>2, GetField
<1>12. Shape'
  <2>1. from_server' \in Seq(ResponseUnits)
    BY <1>6, <1>9
  <2>2. \A i \in 1 .. server'.offset : server'.buf[i] \in ResponseUnits
    BY <1>7, <1>10
  <2>3. pc' \in {"select", "body", "dispatch", "parse"} \cup Ends /\ recvlen' \in 0 .. Cap
    BY <1>2, <1>5
  <2> QED
    BY <1>1, <1>2, <1>11, <2>1, <2>2, <2>3 DEF Shape
<1>13. Pending' = Pending /\ Message' = Message
  <2>1. Message' = Message /\ Taken' = Taken
    BY <1>10 DEF Message, Taken
  <2>2. PICK A \in Seq(ResponseUnits), B \in Seq(ResponseUnits),
            g \in Seq(ResponseUnits), h \in Seq(ResponseUnits) :
          A = Taken /\ B = Prefix(server.buf, server.offset) /\ g = seg /\ h = rest
    BY <1>1, <1>6, PendingType DEF Shape
  <2>3. Pending = (A \o B) \o (g \o h)
    BY <1>1, <1>6, <2>2, PendingType DEF Shape
  <2>4. Pending' = (Taken' \o Prefix(server'.buf, server'.offset)) \o from_server'
    BY DEF Pending, Taken, Message
  <2>5. Prefix(server'.buf, server'.offset) = B \o g
    BY <1>7, <1>10, <2>2
  <2>6. PICK D \in Seq(ResponseUnits) : D = A \o B
    BY ConcatLen
  <2>7. A \o (B \o g) = D \o g /\ (D \o g) \o h = D \o (g \o h)
    <3>1. (A \o B) \o g = A \o (B \o g)
      BY Associative
    <3>2. (D \o g) \o h = D \o (g \o h)
      BY Associative
    <3> QED
      BY <2>6, <3>1, <3>2, Zenon
  <2> QED
    BY <2>1, <2>2, <2>3, <2>4, <2>5, <2>6, <2>7, <1>9
<1>14. Order' /\ Sent' = Sent
  BY <1>1, <1>2, <1>13, SameOrder
<1>15. Requested'
  BY <1>1, <1>2, <1>14, SameRequested
<1>16. StateOf'
  BY <1>1, <1>2, <1>10, <1>13, <1>14, SameStateOf
<1>17. Progress'
  <2>1. pc' = "body" => server.request.status # "needmore"
    BY <1>2, <1>10 DEF Continues
  <2>2. pc' \in {"body", "select"}
    BY <1>2
  <2> QED
    BY <1>1, <1>10, <1>13, <2>1, <2>2 DEF Progress
<1>18. InOrder'
  BY <1>1, <1>2, Counts, SameAnswers
<1>19. server'.buf[server'.offset] = from_server[n] /\ n \in 1 .. Cap
  <2>1. o \in 1 .. Cap /\ n \in 1 .. Cap /\ server.offset < o /\ o <= server.offset + Len(seg)
    BY <1>3, <1>4, <1>5, <1>6 DEF o
  <2>2. buf[o] = seg[o - server.offset]
    BY <2>1 DEF buf, Receive
  <2>3. o - server.offset = n
    BY <1>3, <1>4, <1>5 DEF o
  <2>4. seg[n] = from_server[n]
    BY <1>5 DEF seg
  <2> QED
    BY <1>10, <2>1, <2>2, <2>3, <2>4
<1>20. server'.offset = server.offset + n
  BY <1>10 DEF o
<1> QED
  BY <1>10, <1>12, <1>13, <1>14, <1>15, <1>16, <1>17, <1>18, <1>19, <1>20
  DEF IInv, StreamKept

\* A step of handler_server that moves units between its buffer, the head and
\* the body it keeps and the connection, and deals with none.
LEMMA Moving ==
  ASSUME IInv, UNCHANGED traffic, pc # "crashed",
         UNCHANGED <<browser, state, bitrate_list, default_list, t_s, kind,
                     to_proxy, to_server, delivered>>,
         pc' \in {"select", "body", "dispatch", "parse"},
         recvlen' \in 0 .. Cap, server' \in Servers,
         \A i \in 1 .. server'.offset : server'.buf[i] \in ResponseUnits,
         server'.f4m_request = server.f4m_request,
         from_server' \in Seq(ResponseUnits), Pending' = Pending, Progress'
  PROVE  IInv' /\ StreamKept
<1>1. Shape /\ Order /\ Requested /\ StateOf /\ Progress /\ InOrder
  BY DEF IInv
<1>2. Shape'
  BY <1>1 DEF Shape
<1>3. Order' /\ Sent' = Sent
  BY <1>1, SameOrder
<1>4. Requested'
  BY <1>1, <1>3, SameRequested
<1>5. StateOf'
  BY <1>1, <1>3, SameStateOf
<1>6. InOrder'
  BY <1>1, Counts, SameAnswers
<1> QED
  BY <1>2, <1>3, <1>4, <1>5, <1>6 DEF IInv, StreamKept

\* Of what the buffer holds, the first n units go elsewhere.
LEMMA BufferSplit ==
  ASSUME server \in Servers, \A i \in 1 .. server.offset : server.buf[i] \in ResponseUnits,
         NEW n \in Nat, n <= server.offset, NEW rest, rest = server.offset - n
  PROVE  /\ Shift(server.buf, n, rest) \in [1 .. Cap -> ResponseCells]
         /\ \A i \in 1 .. rest : Shift(server.buf, n, rest)[i] \in ResponseUnits
         /\ Prefix(server.buf, n) \in Seq(ResponseUnits)
         /\ Len(Prefix(server.buf, n)) = n
         /\ Prefix(Shift(server.buf, n, rest), rest) \in Seq(ResponseUnits)
         /\ Prefix(server.buf, server.offset)
              = Prefix(server.buf, n) \o Prefix(Shift(server.buf, n, rest), rest)
         /\ rest \in 0 .. Cap
<1>1. /\ Cap \in Nat /\ server.offset \in 0 .. Cap
      /\ server.buf \in [1 .. Cap -> ResponseCells]
  BY StreamAssumption DEF StreamAssumption, Servers
<1>2. rest \in Nat /\ n + rest = server.offset /\ n + rest <= Cap /\ rest \in 0 .. Cap
  BY <1>1
<1>3. ASSUME NEW b \in [1 .. Cap -> ResponseCells],
             \A i \in 1 .. n + rest : b[i] \in ResponseUnits
      PROVE  /\ Shift(b, n, rest) \in [1 .. Cap -> ResponseCells]
             /\ \A i \in 1 .. rest : Shift(b, n, rest)[i] \in ResponseUnits
  BY <1>1, <1>2, <1>3, ShiftType, Zenon
<1>4. ASSUME NEW b, NEW m \in Nat, \A i \in 1 .. m : b[i] \in ResponseUnits
      PROVE  Prefix(b, m) \in Seq(ResponseUnits) /\ Len(Prefix(b, m)) = m
  BY <1>4, PrefixSeq
<1>5. \A i \in 1 .. n : server.buf[i] \in ResponseUnits
  BY <1>1
<1>6. Prefix(server.buf, n + rest)
        = Prefix(server.buf, n) \o Prefix(Shift(server.buf, n, rest), rest)
  BY <1>1, <1>2, ShiftPrefix
<1>7. /\ Shift(server.buf, n, rest) \in [1 .. Cap -> ResponseCells]
      /\ \A i \in 1 .. rest : Shift(server.buf, n, rest)[i] \in ResponseUnits
  BY <1>1, <1>2, <1>3
<1>8. /\ Prefix(server.buf, n) \in Seq(ResponseUnits)
      /\ Len(Prefix(server.buf, n)) = n
      /\ Prefix(Shift(server.buf, n, rest), rest) \in Seq(ResponseUnits)
  BY <1>2, <1>4, <1>5, <1>7
<1> QED
  BY <1>2, <1>6, <1>7, <1>8

\* The assembly of a body takes units from the buffer.
LEMMA TakeBodyStep ==
  ASSUME IInv, UNCHANGED traffic, TakeBody
  PROVE  /\ IInv' /\ StreamKept
         /\ server'.request = server.request /\ server'.offset <= server.offset
         /\ server.to_send_length = 0 => server'.offset = server.offset
         /\ server'.offset > 0 => server'.buf[server'.offset] = server.buf[server.offset]
<1>0. \A A, B, C \in Seq(ResponseUnits) : (A \o B) \o C = A \o (B \o C)
  BY Associative
<1>1. Shape /\ Order /\ Requested /\ StateOf /\ Progress /\ InOrder
  BY DEF IInv
<1>2. server \in Servers /\ \A i \in 1 .. server.offset : server.buf[i] \in ResponseUnits
  BY <1>1 DEF Shape
<1>3. /\ server.offset \in 0 .. Cap /\ server.to_send_length \in Nat /\ Cap \in Nat
      /\ server.response_body \in Seq(ResponseUnits)
      /\ server.response \in Seq(ResponseUnits)
      /\ server.request \in Messages /\ server.f4m_request \in Saved
  BY <1>2, StreamAssumption DEF Servers, StreamAssumption
<1>4. PICK n \in Nat, rest \in Nat, l \in Nat :
        /\ n = BodyPart /\ rest = server.offset - n /\ l = server.to_send_length - n
        /\ n <= server.offset /\ n <= server.to_send_length
        /\ l > 0 => rest = 0
  <2>1. /\ BodyPart \in Nat /\ server.offset - BodyPart \in Nat
        /\ server.to_send_length - BodyPart \in Nat
        /\ BodyPart <= server.offset /\ BodyPart <= server.to_send_length
        /\ server.to_send_length - BodyPart > 0 => server.offset - BodyPart = 0
    BY <1>3 DEF BodyPart
  <2> QED
    BY <2>1
<1>5. /\ Shift(server.buf, n, rest) \in [1 .. Cap -> ResponseCells]
      /\ \A i \in 1 .. rest : Shift(server.buf, n, rest)[i] \in ResponseUnits
      /\ Prefix(server.buf, n) \in Seq(ResponseUnits)
      /\ Len(Prefix(server.buf, n)) = n
      /\ Prefix(Shift(server.buf, n, rest), rest) \in Seq(ResponseUnits)
      /\ Prefix(server.buf, server.offset)
           = Prefix(server.buf, n) \o Prefix(Shift(server.buf, n, rest), rest)
      /\ rest \in 0 .. Cap
  BY <1>2, <1>4, BufferSplit
<1>6. PICK X \in Seq(ResponseUnits), Y \in Seq(ResponseUnits),
           b \in [1 .. Cap -> ResponseCells] :
        /\ X = Prefix(server.buf, n) /\ b = Shift(server.buf, n, rest)
        /\ Y = Prefix(b, rest)
  BY <1>5
<1>8. PICK body \in Seq(ResponseUnits) : body = server.response_body \o X
  BY <1>3, <1>6, ConcatLen
<1>7. /\ pc = "body" /\ pc' = "dispatch"
      /\ server' = Assembling(server, body, l, rest, b)
      /\ UNCHANGED <<browser, recvlen, state, bitrate_list, default_list, t_s, kind,
                     to_proxy, to_server, from_server, delivered, measured>>
  <2>1. /\ pc = "body" /\ pc' = "dispatch"
        /\ server' = Assembling(server, server.response_body \o Prefix(server.buf, BodyPart),
                                server.to_send_length - BodyPart, server.offset - BodyPart,
                                Shift(server.buf, BodyPart, server.offset - BodyPart))
        /\ UNCHANGED <<browser, recvlen, state, bitrate_list, default_list, t_s, kind,
                       to_proxy, to_server, from_server, delivered, measured>>
    BY Zenon DEF TakeBody, Assembling
  <2> QED
    BY <2>1, <1>4, <1>6, <1>8, Zenon
<1>9. server' = Fields(rest, b, server.request, l, body, server.response, server.f4m_request)
  BY <1>2, <1>7, Assembled, Zenon
<1>10. /\ server'.offset = rest /\ server'.buf = b /\ server'.request = server.request
       /\ server'.to_send_length = l /\ server'.response_body = body
       /\ server'.response = server.response /\ server'.f4m_request = server.f4m_request
  BY <1>9, GetField
<1>11. server' \in Servers
  <2>1. /\ rest \in 0 .. Cap /\ b \in [1 .. Cap -> ResponseCells]
        /\ server.request \in Messages /\ l \in Nat /\ body \in Seq(ResponseUnits)
        /\ server.response \in Seq(ResponseUnits) /\ server.f4m_request \in Saved
    BY <1>3, <1>4, <1>5, <1>6, <1>8
  <2> QED
    BY <2>1, <1>9, GetField
<1>12. Taken' = Taken \o X /\ Len(Message') = Len(Message) + n
  <2>1. PICK H \in Seq(ResponseUnits), G \in Seq(ResponseUnits), Z \in Seq(ResponseUnits) :
          H = server.response /\ G = server.response_body /\ Z = X
    BY <1>3, <1>6
  <2>2. (H \o G) \o Z = H \o (G \o Z)
    BY <1>0
  <2>3. Message' = Message \o X /\ Message \in Seq(ResponseUnits)
    BY <1>8, <1>10, <2>1, <2>2, ConcatLen DEF Message
  <2>4. PICK M \in Seq(ResponseUnits) : M = Message
    BY <2>3
  <2>5. Len(M \o X) = Len(M) + n
    BY <1>5, <1>6, <2>4, ConcatLen
  <2>6. CASE server.request.status = "success"
    BY <2>3, <2>4, <2>5, <2>6, <1>10 DEF Taken
  <2>7. CASE server.request.status # "success"
    <3>1. n = 0
      BY <1>1, <1>4, <1>3, <2>7 DEF Progress
    <3>2. X = <<>>
      BY <3>1, <1>6, PrefixEmpty
    <3>3. Taken = <<>> /\ Taken' = <<>>
      BY <1>10, <2>7 DEF Taken
    <3>4. <<>> \o <<>> = <<>>
      BY <3>2, Neutral
    <3> QED
      BY <3>2, <3>3, <3>4, <2>3, <2>4, <2>5
  <2> QED
    BY <2>6, <2>7
<1>13. Pending' = Pending
  <2>1. PICK A \in Seq(ResponseUnits) : A = Taken
    BY <1>2, <1>1, PendingType DEF Shape
  <2>2. Pending = (A \o (X \o Y)) \o from_server
    BY <1>1, <1>5, <1>6, <2>1, PendingType DEF Shape
  <2>3. Pending' = (Taken' \o Prefix(server'.buf, server'.offset)) \o from_server'
    BY DEF Pending, Taken, Message
  <2>4. (A \o X) \o Y = A \o (X \o Y)
    BY <1>0, <1>6, <2>1
  <2> QED
    BY <1>6, <1>7, <1>10, <1>12, <2>1, <2>2, <2>3, <2>4
<1>14. Progress'
  <2>1. server.request.status # "success" => l = 0
    BY <1>1, <1>3, <1>4 DEF Progress
  <2>2. server.request.status = "success" =>
          Len(Message) + server.to_send_length = Len(Message') + l
    <3>1. Len(Message) \in Nat
      BY <1>1, PendingType DEF Shape
    <3> QED
      BY <3>1, <1>3, <1>4, <1>12
  <2>3. server.request.status # "needmore"
    BY <1>1, <1>7 DEF Progress
  <2>4. l > 0 => rest = 0
    BY <1>4
  <2> QED
    BY <1>1, <1>7, <1>10, <1>13, <2>1, <2>2, <2>3, <2>4 DEF Progress
<1>15. /\ server'.offset <= server.offset
       /\ server.to_send_length = 0 => server'.offset = server.offset
  BY <1>3, <1>4, <1>10
<1>16. server'.offset > 0 => server'.buf[server'.offset] = server.buf[server.offset]
  <2> SUFFICES ASSUME rest > 0 PROVE b[rest] = server.buf[server.offset]
    BY <1>10
  <2>1. rest \in 1 .. Cap /\ rest + n = server.offset
    <3>1. rest \in 0 .. Cap /\ Cap \in Nat
      BY <1>3, <1>5
    <3>2. PICK o \in Nat : o = server.offset
      BY <1>3
    <3>3. rest = o - n
      BY <1>4, <3>2
    <3>4. o - n + n = o
      BY <3>2
    <3>5. rest \in 1 .. Cap
      BY <3>1
    <3> QED
      BY <3>2, <3>3, <3>4, <3>5, Zenon
  <2>2. b[rest] = server.buf[rest + n]
    BY <2>1, <1>6 DEF Shift
  <2> QED
    BY <2>1, <2>2
<1>17. IInv' /\ StreamKept
  BY <1>5, <1>6, <1>7, <1>10, <1>11, <1>13, <1>14, <1>1, Moving DEF Shape
<1> QED
  BY <1>10, <1>15, <1>16, <1>17

\* Between two responses, a buffer that holds a head's last unit holds it second.
LEMMA HeadIsWhole ==
  ASSUME IInv, pc = "parse", NEW pos, pos = Position(server.buf, ParseSize),
         pos # 0, pos <= server.offset
  PROVE  /\ pos = 2 /\ server.offset >= 2
         /\ server.buf[2] \in ResponseUnits
         /\ Pending # <<>> /\ Pending[1] \in ResponseUnits
         /\ server.buf[2] = Part(Pending[1], 2)
<1>1. Shape /\ Order /\ Progress
  BY DEF IInv
<1>2. /\ server \in Servers /\ \A i \in 1 .. server.offset : server.buf[i] \in ResponseUnits
      /\ from_server \in Seq(ResponseUnits) /\ recvlen \in Nat
  BY <1>1, StreamAssumption DEF Shape, StreamAssumption
<1>3. server.offset \in Nat /\ server.offset > 0 /\ server.request.status = "null"
  BY <1>1, <1>2, StreamAssumption DEF Progress, Servers, StreamAssumption
<1>4. /\ pos \in 1 .. recvlen /\ server.buf[pos].part = HeadEnd
      /\ \A i \in 1 .. recvlen : server.buf[i].part = HeadEnd => pos <= i
  BY <1>2, PositionIs DEF ParseSize
<1>5. pos <= server.offset /\ pos \in 1 .. server.offset
  BY <1>3, <1>4
<1>6. Blocks(Pending) /\ Pending \in Seq(ResponseUnits) /\ Len(Pending) \in Nat
      /\ Len(Pending) = server.offset + Len(from_server)
  <2>1. Taken = <<>> /\ Len(Taken) = 0
    BY <1>3 DEF Taken
  <2>2. Blocks(Pending)
    BY <1>1 DEF Order
  <2>3. Len(Pending) = Len(Taken) + server.offset + Len(from_server)
    BY <1>2, PendingType
  <2>4. Pending \in Seq(ResponseUnits) /\ Len(Pending) \in Nat
    BY <1>2, PendingType
  <2>5. Len(from_server) \in Nat
    BY <1>2, LenProperties
  <2> QED
    BY <2>1, <2>2, <2>3, <2>4, <2>5, <1>3
<1>7. ASSUME NEW i \in 1 .. server.offset
      PROVE  i \in 1 .. Len(Pending) /\ Pending[i] = server.buf[i]
  <2> DEFINE b == server.buf
             o == server.offset
  <2>1. PICK B \in Seq(ResponseUnits) : B = Prefix(server.buf, server.offset)
    BY <1>2, PendingType
  <2>2. Len(B) = server.offset
    BY <1>2, <2>1, PendingType
  <2>3. Pending = (<<>> \o B) \o from_server /\ <<>> \o B = B
    <3>1. Taken = <<>>
      BY <1>3 DEF Taken
    <3>2. Pending = (Taken \o Prefix(server.buf, server.offset)) \o from_server
      BY <1>2, PendingType
    <3>3. <<>> \o B = B
      BY Neutral
    <3> QED
      BY <3>1, <3>2, <3>3, <2>1
  <2>4. i \in 1 .. Len(B)
    BY <2>2
  <2>5. (B \o from_server)[i] = B[i] /\ Len(B \o from_server) = Len(B) + Len(from_server)
        /\ Len(from_server) \in Nat
    BY <2>4, <1>2, Concat
  <2>6. B[i] = server.buf[i]
    BY <2>1 DEF Prefix
  <2> QED
    BY <2>2, <2>3, <2>5, <2>6
<1>8. 1 \in 1 .. Len(Pending) /\ Pending # <<>>
  BY <1>3, <1>6
<1>9. /\ Pending[1] \in ResponseUnits /\ Pending[1].part = 1
      /\ Size(Pending[1]) \in Nat /\ Size(Pending[1]) >= 2
  <2>1. /\ Pending[1] \in ResponseUnits /\ Pending[1].part \in Nat
        /\ 1 <= Pending[1].part /\ Pending[1].part <= 1
    BY <1>6, <1>8, BlockRange
  <2> QED
    BY <2>1, UnitFacts
<1>10. pos >= 2
  <2>1. pos \in 1 .. Len(Pending) /\ Pending[pos].part = 2
    BY <1>4, <1>5, <1>7 DEF HeadEnd
  <2>2. Pending[pos].part <= pos
    BY <2>1, <1>6, BlockRange
  <2> QED
    BY <2>1, <2>2
<1>11. 2 \in 1 .. server.offset /\ 2 \in 1 .. recvlen
  BY <1>4, <1>5, <1>10, <1>3, <1>2
<1>12. Pending[2] = Part(Pending[1], 2)
  <2>1. PICK i \in 1 .. Len(Pending) : i = 1
    BY <1>8
  <2>2. 2 - i + Pending[i].part = 2 /\ 2 <= Size(Pending[i])
    BY <1>9, <2>1
  <2> QED
    BY <1>6, <2>1, <2>2, BlockCopy
<1>13. server.buf[2] = Pending[2] /\ server.buf[2] \in ResponseUnits
  BY <1>2, <1>7, <1>11
<1>14. server.buf[2].part = 2
  BY <1>9, <1>12, <1>13, UnitFacts
<1>15. pos <= 2
  BY <1>4, <1>11, <1>14 DEF HeadEnd
<1> QED
  BY <1>5, <1>8, <1>9, <1>10, <1>11, <1>12, <1>13, <1>15

\* What ParseHead makes of the buffer.
HeadTaken ==
  \/ /\ pc' = "select" /\ server'.request.status = "needmore"
     /\ server'.offset = server.offset /\ server'.buf = server.buf
  \/ /\ pc' = "undefined" /\ Position(server.buf, ParseSize) > server.offset
     /\ server' = server
  \/ /\ pc' \in {"body", "select"} /\ (pc' = "select" => ~(server'.offset > 0))
     /\ server'.request.status = "success" /\ server'.offset <= server.offset
     /\ server'.offset > 0 => server'.buf[server'.offset] = server.buf[server.offset]

\* The parse of a head takes it from the buffer, whole.
LEMMA ParseHeadStep ==
  ASSUME IInv, UNCHANGED traffic, ParseHead
  PROVE  IInv' /\ StreamKept /\ HeadTaken
<1>1. Shape /\ Order /\ Requested /\ StateOf /\ Progress /\ InOrder
  BY DEF IInv
<1>2. server \in Servers /\ \A i \in 1 .. server.offset : server.buf[i] \in ResponseUnits
  BY <1>1 DEF Shape
<1>3. /\ server.offset \in 0 .. Cap /\ server.to_send_length \in Nat /\ Cap \in Nat
      /\ server.response_body \in Seq(ResponseUnits)
      /\ server.response \in Seq(ResponseUnits)
      /\ server.buf \in [1 .. Cap -> ResponseCells]
      /\ server.request \in Messages /\ server.f4m_request \in Saved
  BY <1>2, StreamAssumption DEF Servers, StreamAssumption
<1>4. PICK pos :
        /\ pos = Position(server.buf, ParseSize)
        /\ \/ /\ pos = 0
              /\ server' = [server EXCEPT !.request = [status |-> "needmore"]]
              /\ pc' = "select"
           \/ pos > server.offset /\ pc' = "undefined" /\ server' = server
           \/ /\ pos # 0 /\ pos <= server.offset
              /\ server' = Parsing(server,
                   [status |-> "success", of |-> server.buf[pos].of,
                    listed |-> server.buf[pos].listed],
                   server.buf[pos].length, <<>>, Prefix(server.buf, pos),
                   server.offset - pos, Shift(server.buf, pos, server.offset - pos))
              /\ pc' = IF Continues(server') THEN "body" ELSE "select"
  BY Zenon DEF ParseHead, Parsing
<1>5. /\ pc = "parse"
      /\ UNCHANGED <<browser, recvlen, state, bitrate_list, default_list, t_s, kind,
                     to_proxy, to_server, from_server, delivered, measured>>
  BY Zenon DEF ParseHead
<1>6. server.request.status = "null" /\ server.to_send_length = 0 /\ Taken = <<>>
  BY <1>1, <1>5 DEF Progress, Taken
<1>7. CASE server' = [server EXCEPT !.request = [status |-> "needmore"]] /\ pc' = "select"
  <2>1. server' = [server EXCEPT !.request = [status |-> "needmore"]] /\ pc' = "select"
    BY <1>7
  <2>2. server' = Fields(server.offset, server.buf, [status |-> "needmore"],
                         server.to_send_length, server.response_body, server.response,
                         server.f4m_request)
    BY <1>2, <2>1, ServerFields DEF Fields
  <2>3. /\ server'.offset = server.offset /\ server'.buf = server.buf
        /\ server'.request = [status |-> "needmore"]
        /\ server'.to_send_length = server.to_send_length
        /\ server'.response_body = server.response_body
        /\ server'.response = server.response /\ server'.f4m_request = server.f4m_request
    BY <2>2, GetField
  <2>4. server' \in Servers
    <3>1. [status |-> "needmore"] \in Messages
      BY DEF Messages
    <3> QED
      BY <3>1, <1>3, <2>2, GetField
  <2>5. Taken' = <<>>
    BY <2>3 DEF Taken
  <2>6. Pending' = Pending
    <3>1. Pending = (Taken \o Prefix(server.buf, server.offset)) \o from_server
      BY <1>1, PendingType DEF Shape
    <3>2. Pending' = (Taken' \o Prefix(server'.buf, server'.offset)) \o from_server'
      BY DEF Pending, Taken, Message
    <3> QED
      BY <3>1, <3>2, <1>5, <1>6, <2>3, <2>5
  <2>7. Progress'
    BY <2>1, <2>3, <1>6 DEF Progress
  <2>8. \A i \in 1 .. server'.offset : server'.buf[i] \in ResponseUnits
    BY <1>2, <2>3
  <2>9. IInv' /\ StreamKept
    BY <1>1, <1>5, <2>1, <2>3, <2>4, <2>6, <2>7, <2>8, Moving DEF Shape
  <2>10. HeadTaken
    BY <2>1, <2>3 DEF HeadTaken
  <2> QED
    BY <2>9, <2>10
<1>8. CASE pos > server.offset /\ pc' = "undefined" /\ server' = server
  <2>1. IInv' /\ StreamKept
    BY <1>5, <1>8, Closing DEF conn, Ends
  <2>2. HeadTaken
    BY <1>4, <1>8 DEF HeadTaken
  <2> QED
    BY <2>1, <2>2
<1>9. CASE /\ pos # 0 /\ pos <= server.offset
           /\ server' = Parsing(server,
                [status |-> "success", of |-> server.buf[pos].of,
                 listed |-> server.buf[pos].listed],
                server.buf[pos].length, <<>>, Prefix(server.buf, pos),
                server.offset - pos, Shift(server.buf, pos, server.offset - pos))
           /\ pc' = IF Continues(server') THEN "body" ELSE "select"
  <2>1. /\ pos = 2 /\ server.offset >= 2
        /\ server.buf[2] \in ResponseUnits
        /\ Pending # <<>> /\ Pending[1] \in ResponseUnits
        /\ server.buf[2] = Part(Pending[1], 2)
    BY <1>4, <1>5, <1>9, HeadIsWhole
  <2>2. PICK rest \in Nat : rest = server.offset - 2
    BY <1>3, <2>1
  <2>3. /\ Shift(server.buf, 2, rest) \in [1 .. Cap -> ResponseCells]
        /\ \A i \in 1 .. rest : Shift(server.buf, 2, rest)[i] \in ResponseUnits
        /\ Prefix(server.buf, 2) \in Seq(ResponseUnits)
        /\ Len(Prefix(server.buf, 2)) = 2
        /\ Prefix(Shift(server.buf, 2, rest), rest) \in Seq(ResponseUnits)
        /\ Prefix(server.buf, server.offset)
             = Prefix(server.buf, 2) \o Prefix(Shift(server.buf, 2, rest), rest)
        /\ rest \in 0 .. Cap
    BY <1>2, <2>1, <2>2, BufferSplit
  <2>4. PICK X \in Seq(ResponseUnits), Y \in Seq(ResponseUnits),
             b \in [1 .. Cap -> ResponseCells] :
          /\ X = Prefix(server.buf, 2) /\ b = Shift(server.buf, 2, rest)
          /\ Y = Prefix(b, rest)
    BY <2>3
  <2>5. PICK q, l : q = [status |-> "success", of |-> server.buf[2].of,
                         listed |-> server.buf[2].listed]
                    /\ l = server.buf[2].length
    OBVIOUS
  <2>6. q \in Messages /\ l \in Nat /\ q.status = "success"
        /\ q.of = server.buf[2].of /\ q.listed = server.buf[2].listed
    BY <2>1, <2>5 DEF Messages, ResponseUnits
  <2>7. /\ server' = Parsing(server, q, l, <<>>, X, rest, b)
        /\ pc' = IF Continues(server') THEN "body" ELSE "select"
    BY <1>9, <2>1, <2>2, <2>4, <2>5, Zenon
  <2>8. server' = Fields(rest, b, q, l, <<>>, X, server.f4m_request)
    BY <1>2, <2>7, Parsed, Zenon
  <2>9. /\ server'.offset = rest /\ server'.buf = b /\ server'.request = q
        /\ server'.to_send_length = l /\ server'.response_body = <<>>
        /\ server'.response = X /\ server'.f4m_request = server.f4m_request
    BY <2>8, GetField
  <2>10. server' \in Servers
    <3>1. /\ rest \in 0 .. Cap /\ b \in [1 .. Cap -> ResponseCells]
          /\ <<>> \in Seq(ResponseUnits) /\ server.f4m_request \in Saved
          /\ q \in Messages /\ l \in Nat /\ X \in Seq(ResponseUnits)
      BY <1>3, <2>3, <2>6
    <3> QED
      BY <3>1, <2>8, FieldsType
  <2>11. Message' = X /\ Taken' = X
    <3>1. X \o <<>> = X
      BY Neutral
    <3> QED
      BY <3>1, <2>6, <2>9 DEF Message, Taken
  <2>12. Pending' = Pending
    <3>1. Pending = (<<>> \o (X \o Y)) \o from_server
      BY <1>1, <1>6, <2>3, <2>4, PendingType DEF Shape
    <3>2. Pending' = (Taken' \o Prefix(server'.buf, server'.offset)) \o from_server'
      BY DEF Pending, Taken, Message
    <3>3. X \o Y \in Seq(ResponseUnits)
      BY ConcatLen
    <3>4. <<>> \o (X \o Y) = X \o Y
      BY <3>3, Neutral
    <3> QED
      BY <3>1, <3>2, <3>4, <1>5, <2>4, <2>9, <2>11
  <2>13. Progress'
    <3>1. /\ Len(X) = HeadEnd /\ Len(X) = 2
      BY <2>3, <2>4 DEF HeadEnd
    <3>2. /\ server.buf[2].length = Pending[1].length /\ server.buf[2].of = Pending[1].of
          /\ server.buf[2].listed = Pending[1].listed
          /\ Size(Pending[1]) = 2 + Pending[1].length
      BY <2>1, UnitFacts
    <3>3. 2 + l = Size(Pending[1]) /\ q.of = Pending[1].of /\ q.listed = Pending[1].listed
      BY <3>2, <2>5, <2>6
    <3>4. pc' \in {"body", "select"}
      BY <2>7
    <3> QED
      BY <3>1, <3>3, <3>4, <2>6, <2>9, <2>11, <2>12 DEF Progress
  <2>14. \A i \in 1 .. server'.offset : server'.buf[i] \in ResponseUnits
    BY <2>3, <2>4, <2>9
  <2>15. pc' \in {"select", "body", "dispatch", "parse"} /\ recvlen' \in 0 .. Cap
         /\ from_server' \in Seq(ResponseUnits)
    BY <1>1, <1>5, <2>7 DEF Shape
  <2>16. IInv' /\ StreamKept
    BY <1>5, <2>9, <2>10, <2>12, <2>13, <2>14, <2>15, Moving
  <2>17. HeadTaken
    <3>1. rest > 0 => b[rest] = server.buf[server.offset]
      <4> SUFFICES ASSUME rest > 0 PROVE b[rest] = server.buf[server.offset]
        OBVIOUS
      <4>1. rest \in 1 .. Cap /\ rest + 2 = server.offset
        <5>1. rest \in 0 .. Cap /\ Cap \in Nat
          BY <1>3, <2>3
        <5>2. PICK o \in Nat : o = server.offset
          BY <1>3
        <5>3. rest = o - 2
          BY <2>2, <5>2
        <5> QED
          BY <5>1, <5>2, <5>3
      <4>2. b[rest] = server.buf[rest + 2]
        BY <4>1, <2>4 DEF Shift
      <4> QED
        BY <4>1, <4>2
    <3>2. server'.request.status = "success" /\ rest <= server.offset
      BY <1>3, <2>2, <2>6, <2>9
    <3>3. pc' \in {"body", "select"} /\ (pc' = "select" => ~(rest > 0))
      BY <2>7, <2>9, <3>2 DEF Continues
    <3> QED
      BY <3>1, <3>2, <3>3, <2>9 DEF HeadTaken
  <2> QED
    BY <2>16, <2>17
<1> QED
  BY <1>4, <1>7, <1>8, <1>9, Zenon

-----------------------------------------------------------------------------
(* The ends of the connection                                              *)

\* The ends of a connection,
LEMMA ClosingStep ==
  ASSUME IInv, UNCHANGED traffic, BrowserFull \/ ServerFull \/ HangUp \/ SendFails
  PROVE  IInv' /\ StreamKept
<1>1. /\ pc' = "closed" /\ pc # "crashed"
      /\ UNCHANGED <<conn, kind, to_proxy, to_server, from_server, delivered>>
  BY DEF BrowserFull, ServerFull, HangUp, Close, SendFails
<1> QED
  BY <1>1, Closing DEF Ends

\* another connection's manifest,
LEMMA LearnsStep ==
  ASSUME IInv, UNCHANGED traffic, OtherConnLearns
  PROVE  IInv' /\ StreamKept
<1>1. /\ pc # "crashed" /\ pc' = pc /\ default_list' = TRUE
      /\ UNCHANGED <<browser, server, recvlen, state, bitrate_list, t_s, kind,
                     to_proxy, to_server, from_server, delivered, measured>>
  BY DEF OtherConnLearns, Running, Ends
<1>2. Shape /\ Order /\ Requested /\ StateOf /\ Progress /\ InOrder
  BY DEF IInv
<1>3. Pending' = Pending /\ Message' = Message
  BY <1>1, SamePending
<1>4. Order' /\ Sent' = Sent
  BY <1>1, <1>2, <1>3, SameOrder
<1>5. Requested'
  BY <1>1, <1>2, <1>4, SameRequested
<1>6. StateOf'
  BY <1>1, <1>2, <1>3, <1>4, SameStateOf
<1>7. Shape'
  BY <1>1, <1>2 DEF Shape
<1>8. Progress'
  BY <1>1, <1>2, <1>3 DEF Progress
<1>9. InOrder'
  BY <1>1, <1>2, Counts, SameAnswers
<1> QED
  BY <1>3, <1>4, <1>5, <1>6, <1>7, <1>8, <1>9 DEF IInv, StreamKept

\* and the steps in which nothing happens.
LEMMA Stuttering ==
  ASSUME IInv, UNCHANGED vars
  PROVE  IInv' /\ StreamKept
<1>1. UNCHANGED <<traffic, pc, browser, server, recvlen, state, bitrate_list, default_list,
                  t_s, kind, to_proxy, to_server, from_server, delivered, measured>>
  BY DEF vars, conn
<1>2. Shape /\ Order /\ Requested /\ StateOf /\ Progress /\ InOrder
  BY DEF IInv
<1>3. Pending' = Pending /\ Message' = Message
  BY <1>1, SamePending
<1>4. Order' /\ Sent' = Sent
  BY <1>1, <1>2, <1>3, SameOrder
<1>5. Requested'
  BY <1>1, <1>2, <1>4, SameRequested
<1>6. StateOf'
  BY <1>1, <1>2, <1>3, <1>4, SameStateOf
<1>7. Shape'
  BY <1>1, <1>2 DEF Shape
<1>8. Progress'
  BY <1>1, <1>2, <1>3 DEF Progress
<1>9. InOrder'
  BY <1>1, <1>2, Counts, SameAnswers
<1> QED
  BY <1>3, <1>4, <1>5, <1>6, <1>7, <1>8, <1>9 DEF IInv, StreamKept

-----------------------------------------------------------------------------
(* The browser and the web server                                          *)

\* The type of what arrives.
LEMMA ArrivingType ==
  ASSUME Shape
  PROVE  /\ Arriving \in Seq(RequestUnits) /\ Len(Arriving) \in Nat
         /\ Prefix(browser.buf, browser.offset) \in Seq(RequestUnits)
         /\ Len(Prefix(browser.buf, browser.offset)) = browser.offset
         /\ Len(Arriving) = browser.offset + Len(to_proxy)
         /\ browser.offset \in 0 .. Cap /\ browser.offset \in Nat /\ Cap \in Nat
         /\ browser.buf \in [1 .. Cap -> RequestCells]
         /\ \A i \in 1 .. browser.offset : Arriving[i] = browser.buf[i]
<1>1. /\ browser.offset \in 0 .. Cap /\ browser.offset \in Nat /\ Cap \in Nat
      /\ browser.buf \in [1 .. Cap -> RequestCells]
      /\ \A i \in 1 .. browser.offset : browser.buf[i] \in RequestUnits
      /\ to_proxy \in Seq(RequestUnits)
  BY StreamAssumption DEF Shape, StreamAssumption
<1>2. ASSUME NEW b, NEW m \in Nat, \A i \in 1 .. m : b[i] \in RequestUnits
      PROVE  /\ Prefix(b, m) \in Seq(RequestUnits) /\ Len(Prefix(b, m)) = m
  BY <1>2, PrefixSeq
<1>3. PICK B \in Seq(RequestUnits) :
        B = Prefix(browser.buf, browser.offset) /\ Len(B) = browser.offset
  BY <1>1, <1>2
<1>4. Arriving = B \o to_proxy
  BY <1>3 DEF Arriving
<1>5. /\ B \o to_proxy \in Seq(RequestUnits)
      /\ Len(B \o to_proxy) = Len(B) + Len(to_proxy)
      /\ \A i \in 1 .. Len(B) : (B \o to_proxy)[i] = B[i]
  BY <1>1, Concat
<1>6. \A i \in 1 .. browser.offset : B[i] = browser.buf[i]
  BY <1>3 DEF Prefix
<1>7. Len(Arriving) \in Nat
  BY <1>4, <1>5, LenProperties
<1> QED
  BY <1>1, <1>3, <1>4, <1>5, <1>6, <1>7

\* The browser sends a request.
LEMMA BrowserSendsStep ==
  ASSUME IInv, UNCHANGED traffic, NEW k \in traffic.kinds, BrowserSends(k)
  PROVE  /\ IInv' /\ StreamKept
         /\ Len(kind') = Len(kind) + 1 /\ kind'[Len(kind) + 1] = k
         /\ \A i \in 1 .. Len(kind) : kind'[i] = kind[i]
<1>1. Shape /\ Order /\ Requested /\ StateOf /\ Progress /\ InOrder
  BY DEF IInv
<1>2. /\ pc # "crashed" /\ pc' = pc /\ Len(kind) < Requests
      /\ Len(kind) < Len(delivered) + traffic.pipeline
      /\ kind' = Append(kind, k)
      /\ to_proxy' = to_proxy \o <<[of |-> Len(kind) + 1, part |-> 1],
                                   [of |-> Len(kind) + 1, part |-> HeadEnd]>>
      /\ UNCHANGED <<pc, browser, server, recvlen, state, bitrate_list, default_list, t_s,
                     to_server, from_server, delivered, measured>>
  BY DEF BrowserSends, Running, Ends, conn
<1>3. /\ kind \in Seq(AllKinds) /\ k \in AllKinds /\ Len(kind) \in Nat
      /\ Requests \in Nat /\ to_proxy \in Seq(RequestUnits)
  BY <1>1, StreamAssumption, TrafficIs, LenProperties DEF Shape, StreamAssumption
<1>4. /\ kind' \in Seq(AllKinds) /\ Len(kind') = Len(kind) + 1
      /\ \A i \in 1 .. Len(kind) : kind'[i] = kind[i]
      /\ kind'[Len(kind) + 1] = k
  BY <1>2, <1>3, Appended
<1>5. PICK a \in RequestUnits, b \in RequestUnits :
        /\ a = [of |-> Len(kind) + 1, part |-> 1] /\ b = [of |-> Len(kind) + 1, part |-> HeadEnd]
        /\ a.of = Len(kind) + 1 /\ b.of = Len(kind) + 1 /\ a.part = 1 /\ b.part = 2
  <2>1. Len(kind) + 1 \in 1 .. Requests
    BY <1>2, <1>3
  <2>2. /\ [of |-> Len(kind) + 1, part |-> 1] \in RequestUnits
        /\ [of |-> Len(kind) + 1, part |-> HeadEnd] \in RequestUnits
    BY <2>1 DEF RequestUnits, HeadEnd
  <2> QED
    BY <2>2 DEF HeadEnd
<1>6. PICK two \in Seq(RequestUnits) :
        /\ two = <<a, b>> /\ Len(two) = 2 /\ two[1] = a /\ two[2] = b
  <2>1. /\ <<a, b>> \in Seq(RequestUnits)
        /\ Len(<<a, b>>) = 2 /\ <<a, b>>[1] = a /\ <<a, b>>[2] = b
    OBVIOUS
  <2> QED
    BY <2>1
<1>7. to_proxy' = to_proxy \o two
  BY <1>2, <1>5, <1>6
<1>8. to_proxy' \in Seq(RequestUnits)
  BY <1>3, <1>7, ConcatLen
<1>9. Shape'
  BY <1>1, <1>2, <1>3, <1>4, <1>8 DEF Shape
<1>10. Pending' = Pending /\ Message' = Message
  BY <1>2, SamePending
<1>11. /\ LastAnswered' = LastAnswered /\ Sent' = Sent
  BY <1>2, <1>10 DEF LastAnswered, Sent
<1>12. /\ Sent \in Nat /\ Sent <= Len(kind) /\ Len(delivered) \in Nat
       /\ Len(delivered) <= Len(kind) /\ traffic.pipeline \in Nat
  BY <1>1, Counts, TrafficIs DEF Order
<1>13. Order'
  <2>1. \A i \in 1 .. Len(kind') : kind'[i] \in traffic'.kinds
    <3> SUFFICES ASSUME NEW i \in 1 .. Len(kind') PROVE kind'[i] \in traffic.kinds
      OBVIOUS
    <3>1. i \in 1 .. Len(kind) \/ i = Len(kind) + 1
      BY <1>3, <1>4
    <3>2. \A j \in 1 .. Len(kind) : kind[j] \in traffic.kinds
      BY <1>1 DEF Order
    <3> QED
      BY <3>1, <3>2, <1>4
  <2>2. Sent' <= Len(kind') /\ Len(kind') <= Len(delivered') + traffic'.pipeline
    BY <1>2, <1>4, <1>11, <1>12, <1>3
  <2> QED
    BY <1>1, <1>2, <1>10, <1>11, <2>1, <2>2 DEF Order
<1>14. Requested'
  <2>1. PICK B \in Seq(RequestUnits), W \in Seq(RequestUnits) :
          B = Prefix(browser.buf, browser.offset) /\ W = to_proxy
    BY <1>1, <1>3, ArrivingType
  <2>2. Arriving = B \o W /\ Arriving' = B \o (W \o two)
    BY <1>2, <1>7, <2>1 DEF Arriving
  <2>3. (B \o W) \o two = B \o (W \o two)
    BY Associative
  <2>4. PICK A \in Seq(RequestUnits) : A = Arriving
    BY <1>1, ArrivingType
  <2>5. Arriving' = A \o two
    BY <2>2, <2>3, <2>4
  <2>6. /\ Len(A \o two) = Len(A) + 2 /\ Len(A) \in Nat
        /\ \A i \in 1 .. Len(A) : (A \o two)[i] = A[i]
        /\ \A i \in 1 .. 2 : (A \o two)[Len(A) + i] = two[i]
    BY <1>6, Concat
  <2>7. /\ Len(A) = 2 * (Len(kind) - Sent)
        /\ \A j \in 1 .. Len(A) : 2 * (A[j].of - Sent) = j + 2 - A[j].part
    BY <1>1, <1>2, <2>4 DEF Requested
  <2>8. PICK c \in Nat, m \in Nat, s \in Nat : c = Len(A) /\ m = Len(kind) /\ s = Sent
    BY <2>6, <1>3, <1>12
  <2>9. ASSUME NEW j \in 1 .. c + 2
        PROVE  2 * ((A \o two)[j].of - s) = j + 2 - (A \o two)[j].part
    <3>1. CASE j <= c
      BY <3>1, <2>6, <2>7, <2>8
    <3>2. CASE j = c + 1
      <4>1. (A \o two)[j] = a
        BY <3>2, <2>6, <2>8, <1>6
      <4> QED
        BY <4>1, <3>2, <2>7, <2>8, <1>5
    <3>3. CASE j = c + 2
      <4>1. (A \o two)[j] = b
        BY <3>3, <2>6, <2>8, <1>6
      <4> QED
        BY <4>1, <3>3, <2>7, <2>8, <1>5
    <3>4. j <= c \/ j = c + 1 \/ j = c + 2
      OBVIOUS
    <3> QED
      BY <3>1, <3>2, <3>3, <3>4, Zenon
  <2>10. Len(Arriving') = 2 * (Len(kind') - Sent')
    BY <1>4, <1>11, <2>5, <2>6, <2>7, <2>8
  <2>11. \A j \in 1 .. Len(Arriving') : 2 * (Arriving'[j].of - Sent') = j + 2 - Arriving'[j].part
    BY <1>11, <2>5, <2>6, <2>8, <2>9
  <2> QED
    BY <2>10, <2>11 DEF Requested
<1>15. StateOf'
  <2>1. Sent > 0 => kind'[Sent] = kind[Sent]
    BY <1>4, <1>12
  <2>2. Saves'
    <3>1. \A i \in 1 .. Sent : kind'[i] = kind[i]
      BY <1>4, <1>12
    <3> QED
      BY <1>1, <1>2, <1>11, <3>1 DEF StateOf, Saves
  <2> QED
    BY <1>1, <1>2, <1>10, <1>11, <2>1, <2>2 DEF StateOf
<1>16. Progress'
  BY <1>1, <1>2, <1>10 DEF Progress
<1>17. InOrder'
  <2>1. \A i \in 1 .. Len(delivered) : kind'[i] = kind[i]
    BY <1>4, <1>12
  <2> QED
    BY <1>1, <1>2, <1>12, <2>1, SameAnswers
<1> QED
  BY <1>4, <1>9, <1>10, <1>11, <1>13, <1>14, <1>15, <1>16, <1>17 DEF IInv, StreamKept

\* What the server answers is a whole response.
LEMMA ResponseIs ==
  ASSUME NEW q \in QueuedRequests, NEW length \in Nat, NEW listed \in BOOLEAN
  PROVE  \E u \in ResponseUnits :
           /\ u.of = q.of /\ u.nolist = q.nolist /\ u.listed = listed
           /\ Response(q, length, listed) \in Seq(ResponseUnits)
           /\ Copies(Response(q, length, listed), u)
<1> DEFINE u == [of |-> q.of, part |-> 1, nolist |-> q.nolist,
                 length |-> length, listed |-> listed]
           R == Response(q, length, listed)
<1>1. q.of \in 1 .. Requests /\ q.nolist \in BOOLEAN
  BY DEF QueuedRequests
<1>2. u \in ResponseUnits
  BY <1>1 DEF ResponseUnits
<1>3. R = [p \in 1 .. HeadEnd + length |-> Part(u, p)]
  BY DEF Response, Part
<1>4. Size(u) = HeadEnd + length /\ HeadEnd + length \in Nat
  BY DEF Size, HeadEnd
<1>5. \A p \in 1 .. HeadEnd + length : Part(u, p) \in ResponseUnits
  BY <1>1 DEF Part, ResponseUnits, HeadEnd
<1>6. R \in [1 .. HeadEnd + length -> ResponseUnits]
  BY <1>3, <1>5
<1>7. R \in Seq(ResponseUnits) /\ Len(R) = HeadEnd + length
  <2>1. PICK n \in Nat : n = HeadEnd + length
    BY <1>4
  <2>2. R \in [1 .. n -> ResponseUnits]
    BY <1>6, <2>1
  <2> HIDE DEF R
  <2>3. R \in Seq(ResponseUnits)
    BY <2>2, SeqDef
  <2>4. Len(R) = n
    BY <2>2, <2>3, LenProperties
  <2> QED
    BY <2>1, <2>3, <2>4
<1>8. Copies(R, u)
  BY <1>3, <1>4, <1>7 DEF Copies
<1> QED
  BY <1>2, <1>7, <1>8

\* The server answers the request it got first; a manifest lists its bitrates.
LEMMA ServerAnswersStep ==
  ASSUME IInv, UNCHANGED traffic, NEW length \in traffic.lengths, ServerAnswers(length)
  PROVE  /\ IInv' /\ Sent' = Sent
         /\ traffic.listed /\ state = "f4m" =>
              \A i \in 1 .. Len(Pending') : Pending'[i].listed
<1>0. \A A, B, C \in Seq(ResponseUnits) : (A \o B) \o C = A \o (B \o C)
  BY Associative
<1>1. Shape /\ Order /\ Requested /\ StateOf /\ Progress /\ InOrder
  BY DEF IInv
<1>2. PICK listed \in BOOLEAN, tail \in TailAnswers(Head(to_server)) :
        /\ pc # "crashed" /\ pc' = pc /\ to_server # <<>>
        /\ from_server' = (from_server \o Response(Head(to_server), length, listed)) \o tail
        /\ traffic.listed /\ kind[Head(to_server).of] = "f4m" /\ ~Head(to_server).nolist
             => listed
        /\ to_server' = Tail(to_server)
        /\ UNCHANGED <<browser, server, recvlen, state, bitrate_list, default_list, t_s,
                       kind, to_proxy, delivered, measured>>
  <2>1. traffic.listed \in BOOLEAN
    BY <1>1, TrafficIs
  <2> QED
    BY <2>1 DEF ServerAnswers, Running, Ends, conn
<1>3. PICK q \in QueuedRequests : q = to_server[1] /\ Head(to_server) = q
  BY <1>1, <1>2, Queue DEF Shape
<1>4. /\ Len(to_server) \in Nat /\ Len(to_server) >= 1
      /\ to_server' \in Seq(QueuedRequests) /\ Len(to_server') = Len(to_server) - 1
      /\ \A i \in 1 .. Len(to_server) - 1 : to_server'[i] = to_server[i + 1]
  BY <1>1, <1>2, Queue DEF Shape
<1>5. PICK u \in ResponseUnits, R \in Seq(ResponseUnits) :
        /\ u.of = q.of /\ u.nolist = q.nolist /\ u.listed = listed
        /\ R = Response(q, length, listed) /\ Copies(R, u)
  <2>1. length \in Nat
    BY <1>1, TrafficIs
  <2> QED
    BY <2>1, ResponseIs
<1>6. from_server' = from_server \o R
  <2>1. q.residue = FALSE
    <3>1. to_server[1].residue = FALSE
      BY <1>1, <1>4 DEF StateOf
    <3> QED
      BY <3>1, <1>3
  <2>2. tail = <<>>
    BY <1>2, <1>3, <2>1 DEF TailAnswers
  <2>3. PICK F \in Seq(ResponseUnits) : F = from_server \o R
    BY <1>1, ConcatLen DEF Shape
  <2>4. F \o <<>> = F
    BY Neutral
  <2> QED
    BY <1>2, <1>3, <1>5, <2>2, <2>3, <2>4
<1>7. from_server' \in Seq(ResponseUnits)
  BY <1>1, <1>6, ConcatLen DEF Shape
<1>8. PICK P \in Seq(ResponseUnits) : P = Pending
  BY <1>1, PendingType DEF Shape
<1>9. Pending' = P \o R
  <2>1. PICK A \in Seq(ResponseUnits), B \in Seq(ResponseUnits) :
          A = Taken /\ B = Prefix(server.buf, server.offset)
    BY <1>1, PendingType DEF Shape
  <2>2. PICK D \in Seq(ResponseUnits) : D = A \o B
    BY ConcatLen
  <2>3. Pending = D \o from_server
    BY <1>1, <2>1, <2>2, PendingType DEF Shape
  <2>4. Pending' = D \o (from_server \o R)
    <3>1. Pending' = (Taken' \o Prefix(server'.buf, server'.offset)) \o from_server'
      BY DEF Pending, Taken, Message
    <3>2. Taken' = Taken
      BY <1>2 DEF Taken, Message
    <3> QED
      BY <3>1, <3>2, <1>2, <1>6, <2>1, <2>2
  <2>5. (D \o from_server) \o R = D \o (from_server \o R)
    <3>1. from_server \in Seq(ResponseUnits)
      BY <1>1 DEF Shape
    <3> QED
      BY <3>1, <1>0
  <2> QED
    BY <1>8, <2>3, <2>4, <2>5
<1>10. Message' = Message
  BY <1>2 DEF Message
<1>11. /\ Len(R) = Size(u) /\ Len(R) \in Nat /\ Len(R) >= 2
       /\ \A p \in 1 .. Len(R) : R[p].of = u.of /\ R[p].nolist = u.nolist
  BY <1>5, UnitFacts DEF Copies
<1>12. /\ P \o R \in Seq(ResponseUnits) /\ Len(P \o R) = Len(P) + Len(R)
       /\ Len(P) \in Nat
       /\ \A i \in 1 .. Len(P) : (P \o R)[i] = P[i]
       /\ \A i \in 1 .. Len(R) : (P \o R)[Len(P) + i] = R[i]
  BY Concat
<1>13. /\ u.of = LastAnswered + 1 /\ LastAnswered \in Nat
       /\ P # <<>> => LastAnswered = P[Len(P)].of
       /\ P = <<>> => LastAnswered = Len(delivered)
  <2>1. to_server[1].of = LastAnswered + 1
    BY <1>1, <1>4 DEF Order
  <2> QED
    BY <1>1, <1>3, <1>5, <1>8, <2>1, Counts DEF LastAnswered
<1>14. Blocks(P \o R)
  <2>1. Blocks(P) /\ (P # <<>> => u.of = P[Len(P)].of + 1)
    BY <1>1, <1>8, <1>13 DEF Order
  <2> QED
    BY <1>5, <2>1, BlocksAppend
<1>15. /\ Pending' # <<>> /\ Pending'[1].of = Len(delivered) + 1
       /\ P # <<>> => Pending'[1] = P[1]
       /\ Pending'[Len(Pending')].of = u.of
  <2>1. Len(Pending') >= 2 /\ Pending' # <<>>
    BY <1>9, <1>11, <1>12
  <2>2. Pending'[Len(Pending')] = R[Len(R)]
    BY <1>9, <1>11, <1>12
  <2>3. CASE P = <<>>
    <3>1. <<>> \o R = R
      BY Neutral
    <3>3. Pending'[1] = R[1]
      BY <3>1, <2>3, <1>9
    <3> QED
      BY <2>1, <2>2, <2>3, <3>3, <1>11, <1>13
  <2>4. CASE P # <<>>
    <3>1. 1 \in 1 .. Len(P)
      BY <2>4, <1>12, EmptySeq
    <3>2. Pending'[1] = P[1]
      BY <3>1, <1>9, <1>12
    <3>3. P[1].of = Len(delivered) + 1
      BY <1>1, <1>8, <2>4 DEF Order
    <3> QED
      BY <2>1, <2>2, <3>2, <3>3, <1>11
  <2> QED
    BY <2>3, <2>4
<1>16. LastAnswered' = LastAnswered + 1 /\ Sent' = Sent
  <2>1. LastAnswered' = LastAnswered + 1
    BY <1>13, <1>15 DEF LastAnswered
  <2> QED
    BY <2>1, <1>4, <1>13 DEF Sent
<1>17. Order'
  <2>1. \A j \in 1 .. Len(to_server') : to_server'[j].of = LastAnswered' + j
    <3> SUFFICES ASSUME NEW j \in 1 .. Len(to_server')
                 PROVE  to_server'[j].of = LastAnswered' + j
      OBVIOUS
    <3>1. j + 1 \in 1 .. Len(to_server) /\ to_server'[j] = to_server[j + 1]
      BY <1>4
    <3>2. to_server[j + 1].of = LastAnswered + (j + 1)
      BY <1>1, <3>1 DEF Order
    <3> QED
      BY <3>1, <3>2, <1>13, <1>16
  <2> QED
    BY <1>1, <1>2, <1>9, <1>14, <1>15, <1>16, <2>1 DEF Order
<1>18. Shape'
  BY <1>1, <1>2, <1>4, <1>7 DEF Shape
<1>19. Requested'
  BY <1>1, <1>2, <1>16, SameRequested
<1>20. StateOf'
  <2>1. q.nolist = (state = "f4m_nolist")
    BY <1>1, <1>3, <1>4 DEF StateOf
  <2>2. ASSUME NEW i \in 1 .. Len(Pending') PROVE Pending'[i].nolist = (state = "f4m_nolist")
    <3>1. CASE i \in 1 .. Len(P)
      BY <3>1, <1>1, <1>8, <1>9, <1>12 DEF StateOf
    <3>2. CASE i \notin 1 .. Len(P)
      <4>1. PICK j \in 1 .. Len(R) : i = Len(P) + j
        <5>1. i - Len(P) \in 1 .. Len(R) /\ i = Len(P) + (i - Len(P))
          BY <3>2, <1>9, <1>11, <1>12
        <5> QED
          BY <5>1
      <4>2. Pending'[i] = R[j]
        BY <4>1, <1>9, <1>12
      <4> QED
        BY <4>2, <1>5, <1>11, <2>1
    <3> QED
      BY <3>1, <3>2
  <2>3. ASSUME NEW j \in 1 .. Len(to_server')
        PROVE  to_server'[j].nolist = (state = "f4m_nolist")
    <3>1. j + 1 \in 1 .. Len(to_server) /\ to_server'[j] = to_server[j + 1]
      BY <1>4
    <3> QED
      BY <3>1, <1>1 DEF StateOf
  <2>4. ASSUME NEW j \in 1 .. Len(to_server') PROVE to_server'[j].residue = FALSE
    <3>1. j + 1 \in 1 .. Len(to_server) /\ to_server'[j] = to_server[j + 1]
      BY <1>4
    <3> QED
      BY <3>1, <1>1 DEF StateOf
  <2>5. Saves'
    BY <1>1, <1>2, <1>16 DEF StateOf, Saves
  <2> QED
    BY <1>1, <1>2, <1>16, <2>2, <2>3, <2>4, <2>5 DEF StateOf
<1>21. Progress'
  <2>1. server.request.status = "success" => Pending'[1] = Pending[1]
    <3> SUFFICES ASSUME server.request.status = "success" PROVE P # <<>>
      BY <1>8, <1>15
    <3>1. Len(Taken) >= 2 /\ Len(Taken) \in Nat
      <4>1. Len(server.response) = 2 /\ Taken = Message
        BY <1>1 DEF Progress, Taken, HeadEnd
      <4>2. /\ Len(Message) = Len(server.response) + Len(server.response_body)
            /\ Len(server.response_body) \in Nat
        BY <1>1, PendingType DEF Shape
      <4> QED
        BY <4>1, <4>2
    <3>2. Len(Pending) = Len(Taken) + server.offset + Len(from_server)
      BY <1>1, PendingType DEF Shape
    <3>3. server.offset \in Nat /\ Len(from_server) \in Nat
      BY <1>1, LenProperties, StreamAssumption DEF Shape, Servers, StreamAssumption
    <3>4. Len(P) # 0
      BY <3>1, <3>2, <3>3, <1>8
    <3> QED
      BY <3>4
  <2> QED
    BY <1>1, <1>2, <1>10, <2>1 DEF Progress
<1>22. InOrder'
  BY <1>1, <1>2, Counts, SameAnswers
<1>23. ASSUME traffic.listed, state = "f4m", NEW i \in 1 .. Len(Pending')
       PROVE  Pending'[i].listed
  <2>1. kind[Sent] = "f4m" /\ traffic.pipeline = 1
    BY <1>1, <1>23, ManifestAlone
  <2>2. Pending = <<>> /\ Sent = Len(delivered) + 1 /\ Len(delivered) \in Nat
    BY <1>1, <1>2, <2>1, Alone, Counts
  <2>3. q.of = Sent
    BY <1>5, <1>8, <1>13, <2>2
  <2>4. q.nolist = FALSE
    <3>1. q.nolist = (state = "f4m_nolist")
      BY <1>1, <1>3, <1>4 DEF StateOf
    <3> QED
      BY <3>1, <1>23
  <2>5. listed
    BY <1>2, <1>3, <1>23, <2>1, <2>3, <2>4
  <2>6. Pending' = R
    BY <1>8, <1>9, <2>2, Neutral
  <2>7. R[i] = Part(u, i)
    BY <1>5, <1>23, <2>6 DEF Copies
  <2> QED
    BY <1>5, <2>5, <2>6, <2>7 DEF Part
<1> QED
  BY <1>16, <1>17, <1>18, <1>19, <1>20, <1>21, <1>22, <1>23 DEF IInv

-----------------------------------------------------------------------------
(* handler_browser                                                         *)

\* A buffer that holds a request's last unit holds it second.
LEMMA RequestIsWhole ==
  ASSUME Shape, Order, Requested, pc # "crashed", NEW buf, NEW held \in Nat, NEW n \in Nat,
         held <= Len(Arriving), n <= held,
         \A i \in 1 .. held : buf[i] = Arriving[i],
         Position(buf, n) # 0
  PROVE  /\ Position(buf, n) = 2 /\ held >= 2 /\ buf[2].of = Sent + 1
         /\ Sent + 1 \in 1 .. Len(kind) /\ Len(Arriving) >= 2
<1>0. PICK pos : pos = Position(buf, n)
  OBVIOUS
<1>1. pos \in 1 .. n /\ buf[pos].part = 2 /\ \A i \in 1 .. n : buf[i].part = 2 => pos <= i
  BY <1>0, PositionIs DEF HeadEnd
<1>2. Arriving \in Seq(RequestUnits) /\ Len(Arriving) \in Nat /\ Sent \in Nat /\ Len(kind) \in Nat
  BY ArrivingType, Counts
<1>3. ASSUME NEW i \in 1 .. Len(Arriving)
      PROVE  /\ Arriving[i].of \in Int /\ Arriving[i].part \in {1, 2}
             /\ 2 * (Arriving[i].of - Sent) = i + 2 - Arriving[i].part
  <2>1. Arriving[i] \in RequestUnits
    BY <1>2, ElementOfSeq
  <2>2. Arriving[i].of \in 1 .. Requests /\ Arriving[i].part \in 1 .. 2 /\ Requests \in Nat
    BY <2>1, StreamAssumption DEF RequestUnits, HeadEnd, StreamAssumption
  <2>3. 2 * (Arriving[i].of - Sent) = i + 2 - Arriving[i].part
    BY DEF Requested
  <2> QED
    BY <2>2, <2>3
<1>4. \A a, s \in Int : 2 * (a - s) # 1
  OBVIOUS
<1>5. pos # 1
  <2> SUFFICES ASSUME pos = 1 PROVE FALSE
    OBVIOUS
  <2>1. 1 \in 1 .. Len(Arriving) /\ Arriving[1].part = 2
    BY <1>1, <1>2
  <2>2. 2 * (Arriving[1].of - Sent) = 1 /\ Arriving[1].of \in Int
    BY <2>1, <1>3
  <2> QED
    BY <2>2, <1>2, <1>4
<1>6. 2 \in 1 .. n /\ 2 \in 1 .. Len(Arriving) /\ held >= 2 /\ Len(Arriving) >= 2
      /\ buf[2] = Arriving[2]
  BY <1>1, <1>2, <1>5
<1>7. Arriving[2].part = 2 /\ Arriving[2].of = Sent + 1
  <2>1. /\ Arriving[2].of \in Int /\ Arriving[2].part \in {1, 2}
        /\ 2 * (Arriving[2].of - Sent) = 4 - Arriving[2].part
    BY <1>3, <1>6
  <2>2. \A a, s \in Int : 2 * (a - s) # 3
    OBVIOUS
  <2>3. Arriving[2].part # 1
    BY <2>1, <2>2, <1>2
  <2>4. PICK a \in Int, p \in {1, 2}, s \in Int :
          a = Arriving[2].of /\ p = Arriving[2].part /\ s = Sent
    BY <2>1, <1>2
  <2>5. p = 2 /\ 2 * (a - s) = 4 - p
    BY <2>1, <2>3, <2>4
  <2>6. a = s + 1
    BY <2>5
  <2> QED
    BY <2>4, <2>5, <2>6
<1>8. pos = 2
  BY <1>1, <1>5, <1>6, <1>7
<1>9. Sent + 1 \in 1 .. Len(kind)
  <2>1. Len(Arriving) = 2 * (Len(kind) - Sent)
    BY DEF Requested
  <2> QED
    BY <2>1, <1>2, <1>6
<1> QED
  BY <1>0, <1>6, <1>7, <1>8, <1>9

\* What the buffer and the connection hold once a segment is received.
LEMMA SegmentArrives ==
  ASSUME Shape, NEW n \in Segments(to_proxy, Cap - browser.offset, traffic.splits)
  PROVE  LET held == browser.offset + n
             buf  == Receive(browser.buf, browser.offset, SubSeq(to_proxy, 1, n))
             rest == SubSeq(to_proxy, n + 1, Len(to_proxy))
         IN  /\ n \in Nat /\ held \in 0 .. Cap /\ n <= held /\ held <= Len(Arriving)
             /\ buf \in [1 .. Cap -> RequestCells]
             /\ \A i \in 1 .. held : buf[i] \in RequestUnits /\ buf[i] = Arriving[i]
             /\ rest \in Seq(RequestUnits)
             /\ Prefix(buf, held) \in Seq(RequestUnits)
             /\ Arriving = Prefix(buf, held) \o rest
<1> DEFINE seg  == SubSeq(to_proxy, 1, n)
           rest == SubSeq(to_proxy, n + 1, Len(to_proxy))
           held == browser.offset + n
           buf  == Receive(browser.buf, browser.offset, seg)
<1>0. \A A, B, C \in Seq(RequestUnits) : (A \o B) \o C = A \o (B \o C)
  BY Associative
<1>1. /\ browser.offset \in 0 .. Cap /\ browser.offset \in Nat /\ Cap \in Nat
      /\ browser.buf \in [1 .. Cap -> RequestCells]
      /\ Arriving \in Seq(RequestUnits)
      /\ Prefix(browser.buf, browser.offset) \in Seq(RequestUnits)
      /\ Len(Arriving) = browser.offset + Len(to_proxy)
  BY ArrivingType
<1>2. to_proxy \in Seq(RequestUnits) /\ Len(to_proxy) \in Nat
      /\ \A i \in 1 .. browser.offset : browser.buf[i] \in RequestUnits
  BY LenProperties DEF Shape
<1>3. n \in 1 .. Len(to_proxy) /\ n <= Cap - browser.offset
  BY DEF Segments
<1>4. /\ n \in Nat /\ n \in 0 .. Len(to_proxy) /\ held \in 0 .. Cap /\ n <= held
      /\ held <= Len(Arriving) /\ held \in Nat
  BY <1>1, <1>2, <1>3
<1>5. /\ seg \in Seq(RequestUnits) /\ Len(seg) = n /\ rest \in Seq(RequestUnits)
      /\ to_proxy = seg \o rest
  BY <1>2, <1>4, SegmentSplit
<1>6. /\ buf \in [1 .. Cap -> RequestCells]
      /\ \A i \in 1 .. held : buf[i] \in RequestUnits
      /\ Prefix(buf, held) = Prefix(browser.buf, browser.offset) \o seg
  <2>1. RequestUnits \subseteq RequestCells
    BY DEF RequestCells
  <2>2. ASSUME NEW b \in [1 .. Cap -> RequestCells], NEW m \in 0 .. Cap,
               NEW s \in Seq(RequestUnits), m + Len(s) <= Cap,
               \A i \in 1 .. m : b[i] \in RequestUnits
        PROVE  /\ Receive(b, m, s) \in [1 .. Cap -> RequestCells]
               /\ \A i \in 1 .. m + Len(s) : Receive(b, m, s)[i] \in RequestUnits
               /\ Prefix(Receive(b, m, s), m + Len(s)) = Prefix(b, m) \o s
    BY <2>1, <2>2, ReceivePrefix, ReceiveType
  <2>3. browser.offset + Len(seg) <= Cap
    BY <1>1, <1>3, <1>5
  <2> HIDE DEF seg, rest
  <2> QED
    BY <1>1, <1>2, <1>5, <2>2, <2>3
<1> HIDE DEF seg, rest, buf
<1>7. Arriving = Prefix(buf, held) \o rest
  <2>1. Arriving = Prefix(browser.buf, browser.offset) \o to_proxy
    BY DEF Arriving
  <2>2. PICK A \in Seq(RequestUnits), B \in Seq(RequestUnits), C \in Seq(RequestUnits) :
          A = Prefix(browser.buf, browser.offset) /\ B = seg /\ C = rest
    BY <1>1, <1>5
  <2>3. (A \o B) \o C = A \o (B \o C)
    BY <1>0
  <2> QED
    BY <2>1, <2>2, <2>3, <1>5, <1>6
<1>8. /\ Prefix(buf, held) \in Seq(RequestUnits) /\ Len(Prefix(buf, held)) = held
  <2>1. ASSUME NEW b, NEW m \in Nat, \A i \in 1 .. m : b[i] \in RequestUnits
        PROVE  Prefix(b, m) \in Seq(RequestUnits) /\ Len(Prefix(b, m)) = m
    BY <2>1, PrefixSeq
  <2> QED
    BY <2>1, <1>4, <1>6
<1>9. \A i \in 1 .. held : Arriving[i] = buf[i]
  <2>1. PICK A \in Seq(RequestUnits), C \in Seq(RequestUnits) :
          A = Prefix(buf, held) /\ C = rest
    BY <1>5, <1>8
  <2>2. \A i \in 1 .. Len(A) : (A \o C)[i] = A[i]
    BY Concat
  <2>3. \A i \in 1 .. held : A[i] = buf[i]
    BY <2>1 DEF Prefix
  <2>4. Arriving = A \o C /\ Len(A) = held
    BY <1>7, <1>8, <2>1
  <2> QED
    BY <2>2, <2>3, <2>4
<1> QED
  BY <1>4, <1>5, <1>6, <1>7, <1>8, <1>9 DEF seg, rest, buf

\* Saving the copy of a manifest request changes no other field.
LEMMA SavedIs ==
  ASSUME NEW s \in Servers, NEW m \in Saved, NEW t, t = [s EXCEPT !.f4m_request = m]
  PROVE  /\ t \in Servers
         /\ t.offset = s.offset /\ t.buf = s.buf /\ t.request = s.request
         /\ t.to_send_length = s.to_send_length /\ t.response_body = s.response_body
         /\ t.response = s.response /\ t.f4m_request = m
<1>1. t = Fields(s.offset, s.buf, s.request, s.to_send_length, s.response_body,
                 s.response, m)
  BY ServerFields DEF Fields
<1>2. /\ s.offset \in 0 .. Cap /\ s.buf \in [1 .. Cap -> ResponseCells]
      /\ s.request \in Messages /\ s.to_send_length \in Nat
      /\ s.response_body \in Seq(ResponseUnits) /\ s.response \in Seq(ResponseUnits)
  BY DEF Servers
<1>3. t \in Servers
  BY <1>1, <1>2, FieldsType
<1> QED
  BY <1>1, <1>3, GetField

\* handler_browser keeps what it has no whole head of.
LEMMA Keeping ==
  ASSUME IInv, UNCHANGED traffic, pc # "crashed", pc' = pc,
         NEW held \in 0 .. Cap, NEW buf \in [1 .. Cap -> RequestCells],
         \A i \in 1 .. held : buf[i] \in RequestUnits,
         browser' = [offset |-> held, buf |-> buf],
         to_proxy' \in Seq(RequestUnits), Arriving = Prefix(buf, held) \o to_proxy',
         UNCHANGED <<server, recvlen, state, bitrate_list, default_list, t_s, kind,
                     to_server, from_server, delivered>>
  PROVE  IInv' /\ StreamKept
<1>1. Shape /\ Order /\ Requested /\ StateOf /\ Progress /\ InOrder
  BY DEF IInv
<1>2. browser'.offset = held /\ browser'.buf = buf
      /\ browser' \in [offset : 0 .. Cap, buf : [1 .. Cap -> RequestCells]]
  OBVIOUS
<1>3. Pending' = Pending /\ Message' = Message
  BY SamePending
<1>4. Order' /\ Sent' = Sent
  BY <1>1, <1>3, SameOrder
<1>5. Arriving' = Arriving
  BY <1>2 DEF Arriving
<1>6. Requested'
  BY <1>1, <1>4, <1>5 DEF Requested
<1>7. StateOf'
  BY <1>1, <1>3, <1>4, SameStateOf
<1>8. Shape'
  BY <1>1, <1>2 DEF Shape
<1>9. Progress'
  BY <1>1, <1>3 DEF Progress
<1>10. InOrder'
  BY <1>1, Counts, SameAnswers
<1> QED
  BY <1>3, <1>4, <1>6, <1>7, <1>8, <1>9, <1>10 DEF IInv, StreamKept

\* handler_browser leaves alone what the server's side has reached.
RequestKept ==
  /\ server'.offset = server.offset /\ server'.buf = server.buf
  /\ server'.request = server.request /\ server'.to_send_length = server.to_send_length

\* handler_browser forwards the request Sent + 1.
LEMMA Forwarding ==
  ASSUME IInv, Clean, UNCHANGED traffic, pc # "crashed", pc' = pc,
         Shape', UNCHANGED <<kind, from_server, delivered>>,
         Sent + 1 \in 1 .. Len(kind), ForwardRequest(Sent + 1),
         Len(Arriving') = Len(Arriving) - 2,
         \A j \in 1 .. Len(Arriving') : Arriving'[j] = Arriving[j + 2]
  PROVE  IInv' /\ Pending' = Pending /\ Sent' = Sent + 1 /\ RequestKept
<1>1. Shape /\ Order /\ Requested /\ StateOf /\ Progress /\ InOrder
  BY DEF IInv
<1>2. /\ Sent \in Nat /\ LastAnswered \in Nat /\ Len(kind) \in Nat /\ Sent < Len(kind)
      /\ Len(to_server) \in Nat /\ Sent = LastAnswered + Len(to_server)
  BY <1>1, Counts
<1>3. PICK i \in 1 .. Len(kind) : i = Sent + 1
  OBVIOUS
<1>4. /\ to_server' = Append(to_server, Forwarded(i)) /\ state' = kind[i]
      /\ \/ server' = server /\ kind[i] # "f4m"
         \/ /\ kind[i] = "f4m"
            /\ \E m \in SavedManifests(i) : server' = [server EXCEPT !.f4m_request = m]
  BY <1>3 DEF ForwardRequest
<1>t. kind[i] = "f4m" => SavedManifests(i) = {<<i, FALSE>>}
  <2>1. ASSUME kind[i] = "f4m", traffic.tails, server.f4m_request # <<>> PROVE FALSE
    <3>1. PICK j \in 1 .. Sent : kind[j] = "f4m"
      BY <1>1, <2>1 DEF StateOf, Saves
    <3>2. j \in 1 .. Len(kind) /\ j <= Len(kind) /\ i <= Len(kind) /\ j # i
      BY <1>2, <1>3
    <3> QED
      BY <2>1, <3>1, <3>2 DEF Clean, Undisturbed
  <2>2. traffic.tails \in BOOLEAN
    BY <1>1, TrafficIs
  <2> QED
    BY <2>1, <2>2 DEF SavedManifests
<1>5. /\ server'.offset = server.offset /\ server'.buf = server.buf
      /\ server'.request = server.request /\ server'.to_send_length = server.to_send_length
      /\ server'.response_body = server.response_body /\ server'.response = server.response
      /\ kind[i] = "f4m" => /\ server'.f4m_request # <<>> /\ server'.f4m_request[1] = i
                            /\ server'.f4m_request[2] = FALSE
      /\ kind[i] # "f4m" => server'.f4m_request = server.f4m_request
  <2>1. CASE server' = server /\ kind[i] # "f4m"
    BY <2>1
  <2>2. ASSUME kind[i] = "f4m", NEW m \in SavedManifests(i),
               server' = [server EXCEPT !.f4m_request = m]
        PROVE  /\ server'.offset = server.offset /\ server'.buf = server.buf
               /\ server'.request = server.request
               /\ server'.to_send_length = server.to_send_length
               /\ server'.response_body = server.response_body
               /\ server'.response = server.response
               /\ server'.f4m_request # <<>> /\ server'.f4m_request[1] = i
               /\ server'.f4m_request[2] = FALSE
    <3>1. m = <<i, FALSE>>
      BY <1>t, <2>2
    <3>2. m \in Saved /\ m # <<>> /\ m[1] = i /\ m[2] = FALSE
      <4>1. i \in 1 .. Requests
        BY <1>1, <1>2, StreamAssumption DEF Shape, StreamAssumption
      <4> QED
        BY <3>1, <4>1 DEF Saved
    <3>3. server \in Servers
      BY <1>1 DEF Shape
    <3>4. /\ server'.offset = server.offset /\ server'.buf = server.buf
          /\ server'.request = server.request
          /\ server'.to_send_length = server.to_send_length
          /\ server'.response_body = server.response_body
          /\ server'.response = server.response /\ server'.f4m_request = m
      BY <2>2, <3>2, <3>3, SavedIs
    <3> QED
      BY <3>2, <3>4
  <2> QED
    BY <1>4, <2>1, <2>2
<1>6. Pending' = Pending /\ Message' = Message
  BY <1>5 DEF Pending, Message
<1>7. /\ Forwarded(i).of = i /\ Forwarded(i).nolist = FALSE /\ Forwarded(i) \in QueuedRequests
      /\ Forwarded(i).residue = FALSE
  <2>1. i \in 1 .. Requests
    BY <1>1, <1>2, StreamAssumption DEF Shape, StreamAssumption
  <2> QED
    BY <2>1 DEF Forwarded, QueuedRequests
<1>8. /\ Len(to_server') = Len(to_server) + 1
      /\ \A j \in 1 .. Len(to_server) : to_server'[j] = to_server[j]
      /\ to_server'[Len(to_server) + 1] = Forwarded(i)
  BY <1>1, <1>4, <1>7, Appended DEF Shape
<1>9. LastAnswered' = LastAnswered /\ Sent' = i
  <2>1. LastAnswered' = LastAnswered
    BY <1>6 DEF LastAnswered
  <2> QED
    BY <2>1, <1>2, <1>3, <1>8 DEF Sent
<1>10. Order'
  <2>1. ASSUME NEW j \in 1 .. Len(to_server') PROVE to_server'[j].of = LastAnswered' + j
    <3>1. CASE j \in 1 .. Len(to_server)
      BY <3>1, <1>1, <1>8, <1>9 DEF Order
    <3>2. CASE j = Len(to_server) + 1
      BY <3>2, <1>2, <1>3, <1>7, <1>8, <1>9
    <3>3. j \in 1 .. Len(to_server) \/ j = Len(to_server) + 1
      BY <1>2, <1>8
    <3> QED
      BY <3>1, <3>2, <3>3
  <2>2. Sent' <= Len(kind')
    BY <1>3, <1>9
  <2> QED
    BY <1>1, <1>6, <2>1, <2>2 DEF Order
<1>11. Requested'
  <2>1. PICK a \in Nat, s \in Nat : a = Len(Arriving) /\ s = Sent
    BY <1>1, <1>2, ArrivingType
  <2>2. /\ a = 2 * (Len(kind) - s) /\ Len(Arriving') = a - 2
        /\ \A j \in 1 .. a : 2 * (Arriving[j].of - s) = j + 2 - Arriving[j].part
    BY <1>1, <2>1 DEF Requested
  <2>3. ASSUME NEW j \in 1 .. Len(Arriving')
        PROVE  2 * (Arriving'[j].of - i) = j + 2 - Arriving'[j].part
    <3>1. PICK l \in 1 .. a : l = j + 2
      BY <2>2
    <3>2. Arriving'[j] = Arriving[l]
      BY <3>1
    <3>3. 2 * (Arriving[l].of - s) = l + 2 - Arriving[l].part
      BY <2>2
    <3>4. PICK o \in Int, p \in Int : o = Arriving[l].of /\ p = Arriving[l].part
      <4>1. Arriving[l] \in RequestUnits
        BY <1>1, <2>1, ArrivingType, ElementOfSeq
      <4> QED
        BY <4>1, StreamAssumption DEF RequestUnits, StreamAssumption, HeadEnd
    <3>5. 2 * (o - i) = j + 2 - p
      <4>1. 2 * (o - s) = l + 2 - p
        BY <3>3, <3>4
      <4>2. i = s + 1
        BY <1>3, <2>1
      <4> QED
        BY <4>1, <4>2, <3>1
    <3> QED
      BY <3>2, <3>4, <3>5
  <2>4. Len(Arriving') = 2 * (Len(kind') - Sent')
    BY <1>2, <1>3, <1>9, <2>1, <2>2
  <2> QED
    BY <1>9, <2>3, <2>4 DEF Requested
<1>12. StateOf'
  <2>1. kind[i] \in AllKinds
    BY <1>1, ElementOfSeq DEF Shape
  <2>2. state' # "f4m_nolist"
    BY <1>4, <2>1 DEF AllKinds
  <2>3. /\ \A j \in 1 .. Len(Pending) : Pending[j].nolist = FALSE
        /\ \A j \in 1 .. Len(to_server) : to_server[j].nolist = FALSE
    <3>1. CASE state # "f4m_nolist"
      BY <3>1, <1>1 DEF StateOf
    <3>2. CASE state = "f4m_nolist"
      <4>1. Pending = <<>> /\ to_server = <<>>
        BY <3>2, <1>1, <1>2, ManifestAlone, Alone
      <4> QED
        BY <4>1
    <3> QED
      BY <3>1, <3>2
  <2>4. ASSUME NEW j \in 1 .. Len(to_server') PROVE to_server'[j].nolist = FALSE
    <3>1. CASE j \in 1 .. Len(to_server)
      BY <3>1, <2>3, <1>8
    <3>2. CASE j = Len(to_server) + 1
      BY <3>2, <1>7, <1>8
    <3>3. j \in 1 .. Len(to_server) \/ j = Len(to_server) + 1
      BY <1>2, <1>8
    <3> QED
      BY <3>1, <3>2, <3>3
  <2>5. i > 0 /\ state' = kind'[i]
    BY <1>3, <1>4
  <2>6. ASSUME NEW j \in 1 .. Len(to_server') PROVE to_server'[j].residue = FALSE
    <3>1. CASE j \in 1 .. Len(to_server)
      BY <3>1, <1>1, <1>8 DEF StateOf
    <3>2. CASE j = Len(to_server) + 1
      BY <3>2, <1>7, <1>8
    <3>3. j \in 1 .. Len(to_server) \/ j = Len(to_server) + 1
      BY <1>2, <1>8
    <3> QED
      BY <3>1, <3>2, <3>3
  <2>7. Saves'
    <3>1. CASE kind[i] = "f4m"
      <4>1. i \in 1 .. Sent'
        BY <1>2, <1>3, <1>9
      <4> QED
        BY <3>1, <4>1, <1>5 DEF Saves
    <3>2. CASE kind[i] # "f4m"
      <4>1. \A l \in 1 .. Sent : l \in 1 .. Sent'
        BY <1>2, <1>3, <1>9
      <4> QED
        BY <3>2, <4>1, <1>1, <1>5 DEF Saves, StateOf
    <3> QED
      BY <3>1, <3>2
  <2> QED
    <3>1. state' = "f4m" => server'.f4m_request # <<>> /\ server'.f4m_request[1] = Sent'
      BY <1>4, <1>5, <1>9
    <3>2. \A j \in 1 .. Len(Pending') : Pending'[j].nolist = (state' = "f4m_nolist")
      BY <1>6, <2>2, <2>3
    <3>3. \A j \in 1 .. Len(to_server') : to_server'[j].nolist = (state' = "f4m_nolist")
      BY <2>2, <2>4
    <3>4. Sent' > 0 /\ Sent' # 0 /\ state' = kind'[Sent']
      BY <1>9, <2>5
    <3> QED
      BY <2>6, <2>7, <3>1, <3>2, <3>3, <3>4 DEF StateOf
<1>13. Progress'
  BY <1>1, <1>5, <1>6 DEF Progress
<1>14. InOrder'
  BY <1>1, Counts, SameAnswers
<1> QED
  BY <1>3, <1>5, <1>6, <1>9, <1>10, <1>11, <1>12, <1>13, <1>14 DEF IInv, RequestKept

\* The request that was first in the buffer is gone.
LEMMA RequestLeaves ==
  ASSUME NEW held \in Nat, NEW buf \in [1 .. Cap -> RequestCells], NEW rest \in Seq(RequestUnits),
         held >= 2, held <= Cap, \A i \in 1 .. held : buf[i] \in RequestUnits
  PROVE  /\ Shift(buf, 2, held - 2) \in [1 .. Cap -> RequestCells] /\ held - 2 \in 0 .. Cap
         /\ \A i \in 1 .. held - 2 : Shift(buf, 2, held - 2)[i] \in RequestUnits
         /\ LET A == Prefix(buf, held) \o rest
                B == Prefix(Shift(buf, 2, held - 2), held - 2) \o rest
            IN  Len(B) = Len(A) - 2 /\ \A j \in 1 .. Len(B) : B[j] = A[j + 2]
<1>b. PICK b : b = Shift(buf, 2, held - 2)
  OBVIOUS
<1>0. \A A, B, C \in Seq(RequestUnits) : (A \o B) \o C = A \o (B \o C)
  BY Associative
<1>1. Cap \in Nat
  BY StreamAssumption DEF StreamAssumption
<1>2. PICK m \in Nat : m = held - 2 /\ held = 2 + m /\ m \in 0 .. Cap
  <2>1. held - 2 \in Nat /\ held = 2 + (held - 2) /\ held - 2 \in 0 .. Cap
    BY <1>1
  <2> QED
    BY <2>1
<1>3. b \in [1 .. Cap -> RequestCells] /\ \A i \in 1 .. m : b[i] \in RequestUnits
  <2>1. ASSUME NEW f \in [1 .. Cap -> RequestCells],
               \A i \in 1 .. 2 + m : f[i] \in RequestUnits
        PROVE  /\ Shift(f, 2, m) \in [1 .. Cap -> RequestCells]
               /\ \A i \in 1 .. m : Shift(f, 2, m)[i] \in RequestUnits
    <3>1. 2 \in Nat /\ 2 + m <= Cap
      BY <1>2
    <3> QED
      BY <1>1, <2>1, <3>1, ShiftType, Zenon
  <2> QED
    BY <1>2, <1>b, <2>1
<1>4. Prefix(buf, 2 + m) = Prefix(buf, 2) \o Prefix(b, m)
  BY <1>1, <1>2, <1>b, ShiftPrefix
<1>5. /\ Prefix(buf, 2) \in Seq(RequestUnits) /\ Len(Prefix(buf, 2)) = 2
      /\ Prefix(b, m) \in Seq(RequestUnits)
  <2>1. ASSUME NEW f, NEW l \in Nat, \A i \in 1 .. l : f[i] \in RequestUnits
        PROVE  Prefix(f, l) \in Seq(RequestUnits) /\ Len(Prefix(f, l)) = l
    BY <2>1, PrefixSeq
  <2>2. \A i \in 1 .. 2 : buf[i] \in RequestUnits
    OBVIOUS
  <2> QED
    BY <2>1, <2>2, <1>3
<1>6. PICK X \in Seq(RequestUnits), Y \in Seq(RequestUnits) :
        X = Prefix(buf, 2) /\ Y = Prefix(b, m) /\ Len(X) = 2
  BY <1>5
<1>7. Prefix(buf, held) \o rest = X \o (Y \o rest)
  <2>1. (X \o Y) \o rest = X \o (Y \o rest)
    BY <1>0
  <2> QED
    BY <2>1, <1>2, <1>4, <1>6
<1>8. PICK Z \in Seq(RequestUnits) : Z = Y \o rest
  BY ConcatLen
<1>9. /\ Len(X \o Z) = Len(X) + Len(Z) /\ Len(Z) \in Nat
      /\ \A j \in 1 .. Len(Z) : (X \o Z)[Len(X) + j] = Z[j]
  BY Concat
<1>10. Len(Z) = Len(X \o Z) - 2 /\ \A j \in 1 .. Len(Z) : Z[j] = (X \o Z)[j + 2]
  <2>1. Len(X) = 2
    BY <1>6
  <2>2. ASSUME NEW j \in 1 .. Len(Z) PROVE Z[j] = (X \o Z)[j + 2]
    <3>1. (X \o Z)[Len(X) + j] = Z[j]
      BY <1>9
    <3>2. Len(X) + j = j + 2
      BY <2>1, <1>9
    <3> QED
      BY <3>1, <3>2
  <2> QED
    BY <2>1, <2>2, <1>9
<1> QED
  BY <1>2, <1>3, <1>6, <1>7, <1>8, <1>10, <1>b

\* select_bitrate without a list.
LEMMA Crashing ==
  ASSUME IInv, UNCHANGED traffic, pc' = "crashed", Shape',
         UNCHANGED <<server, state, kind, to_server, from_server, delivered>>
  PROVE  IInv' /\ StreamKept
<1>1. Shape /\ Order /\ Requested /\ StateOf /\ Progress /\ InOrder
  BY DEF IInv
<1>2. Pending' = Pending /\ Message' = Message
  BY SamePending
<1>3. Order' /\ Sent' = Sent
  BY <1>1, <1>2, SameOrder
<1>4. Requested'
  BY DEF Requested
<1>5. StateOf'
  BY <1>1, <1>2, <1>3, SameStateOf
<1>6. Progress'
  BY <1>1, <1>2 DEF Progress
<1>7. InOrder'
  BY <1>1, Counts, SameAnswers
<1> QED
  BY <1>2, <1>3, <1>4, <1>5, <1>6, <1>7 DEF IInv, StreamKept

\* What handler_browser does with what it holds: nothing yet, nothing any more
\* (select_bitrate without a list), or it forwards the next request.
Handled ==
  \/ /\ pc' = pc /\ StreamKept /\ UNCHANGED <<server, state, bitrate_list, t_s>>
  \/ /\ pc' = "crashed" /\ StreamKept /\ UNCHANGED <<server, state, bitrate_list, t_s>>
     /\ NoBitrates /\ Sent + 1 \in 1 .. Len(kind) /\ kind[Sent + 1] = "chunk"
  \/ /\ pc' = pc /\ Pending' = Pending /\ Sent' = Sent + 1 /\ RequestKept
     /\ Sent + 1 \in 1 .. Len(kind) /\ state' = kind[Sent + 1] /\ StartTimer(Sent + 1)

\* handler_browser preserves the invariant.
LEMMA HandlerBrowserStep ==
  ASSUME IInv, Clean, UNCHANGED traffic, NEW n, HandlerBrowser(n)
  PROVE  /\ IInv' /\ Handled
         /\ UNCHANGED <<recvlen, default_list, kind, from_server, delivered, measured>>
<1>1. Shape /\ Order /\ Requested /\ StateOf /\ Progress /\ InOrder
  BY DEF IInv
<1>2. PICK held, buf, rest, pos :
        /\ held = browser.offset + n
        /\ buf = Receive(browser.buf, browser.offset, SubSeq(to_proxy, 1, n))
        /\ rest = SubSeq(to_proxy, n + 1, Len(to_proxy))
        /\ pos = Position(buf, n)
        /\ pc = "select" /\ n \in Segments(to_proxy, Cap - browser.offset, traffic.splits)
        /\ to_proxy' = rest
        /\ IF pos = 0
           THEN /\ browser' = [offset |-> held, buf |-> buf]
                /\ pc' = pc
                /\ UNCHANGED <<to_server, state, bitrate_list, t_s, server>>
           ELSE /\ browser' = [offset |-> held - pos, buf |-> Shift(buf, pos, held - pos)]
                /\ IF kind[buf[pos].of] = "chunk" /\ NoBitrates
                   THEN /\ pc' = "crashed"
                        /\ UNCHANGED <<to_server, state, bitrate_list, t_s, server>>
                   ELSE pc' = pc /\ ForwardRequest(buf[pos].of)
        /\ UNCHANGED <<recvlen, default_list, kind, from_server, delivered, measured>>
  BY Zenon DEF HandlerBrowser, ParsedSize
<1>3. /\ n \in Nat /\ held \in 0 .. Cap /\ n <= held /\ held <= Len(Arriving)
      /\ buf \in [1 .. Cap -> RequestCells]
      /\ \A i \in 1 .. held : buf[i] \in RequestUnits /\ buf[i] = Arriving[i]
      /\ rest \in Seq(RequestUnits)
      /\ Arriving = Prefix(buf, held) \o rest
  BY <1>1, <1>2, SegmentArrives
<1>4. Cap \in Nat /\ held \in Nat /\ held <= Cap
  BY <1>3, StreamAssumption DEF StreamAssumption
<1>5. CASE pos = 0
  <2>1. /\ browser' = [offset |-> held, buf |-> buf] /\ pc' = pc /\ pc = "select"
        /\ to_proxy' = rest
        /\ UNCHANGED <<server, recvlen, state, bitrate_list, default_list, t_s, kind,
                       to_server, from_server, delivered>>
    BY <1>2, <1>5
  <2>2. IInv' /\ StreamKept
    BY <1>3, <2>1, Keeping
  <2> QED
    BY <1>2, <2>1, <2>2 DEF Handled
<1>6. CASE pos # 0
  <2>1. /\ pos = 2 /\ held >= 2 /\ buf[2].of = Sent + 1
        /\ Sent + 1 \in 1 .. Len(kind) /\ Len(Arriving) >= 2
    <3>1. \A i \in 1 .. held : buf[i] = Arriving[i]
      BY <1>3
    <3>2. pc # "crashed" /\ pos = Position(buf, n)
      BY <1>2
    <3> QED
      BY <1>1, <1>3, <1>4, <1>6, <3>1, <3>2, RequestIsWhole
  <2>2. PICK b : b = Shift(buf, 2, held - 2)
    OBVIOUS
  <2>3. /\ browser' = [offset |-> held - 2, buf |-> b]
        /\ \/ /\ pc' = "crashed" /\ kind[Sent + 1] = "chunk" /\ NoBitrates
              /\ UNCHANGED <<to_server, state, bitrate_list, t_s, server>>
           \/ pc' = pc /\ ForwardRequest(Sent + 1)
    BY <1>2, <1>6, <2>1, <2>2, Zenon
  <2>4. /\ b \in [1 .. Cap -> RequestCells] /\ held - 2 \in 0 .. Cap
        /\ \A i \in 1 .. held - 2 : b[i] \in RequestUnits
    BY <1>3, <1>4, <2>1, <2>2, RequestLeaves
  <2>5. Len(Arriving') = Len(Arriving) - 2
        /\ \A j \in 1 .. Len(Arriving') : Arriving'[j] = Arriving[j + 2]
    <3>1. LET A == Prefix(buf, held) \o rest  B == Prefix(b, held - 2) \o rest
          IN  Len(B) = Len(A) - 2 /\ \A j \in 1 .. Len(B) : B[j] = A[j + 2]
      <4>1. \A i \in 1 .. held : buf[i] \in RequestUnits
        BY <1>3
      <4> QED
        BY <1>3, <1>4, <2>1, <2>2, <4>1, RequestLeaves
    <3>2. Arriving' = Prefix(b, held - 2) \o rest
      BY <1>2, <2>3 DEF Arriving
    <3> QED
      BY <3>1, <3>2, <1>3
  <2>6. browser'.offset = held - 2 /\ browser'.buf = b
        /\ browser' \in [offset : 0 .. Cap, buf : [1 .. Cap -> RequestCells]]
    BY <2>3, <2>4
  <2>7. CASE /\ pc' = "crashed" /\ kind[Sent + 1] = "chunk" /\ NoBitrates
             /\ UNCHANGED <<to_server, state, bitrate_list, t_s, server>>
    <3>1. Shape'
      BY <1>1, <1>2, <1>3, <2>4, <2>6, <2>7 DEF Shape, Ends
    <3>2. IInv' /\ StreamKept
      BY <1>2, <2>7, <3>1, Crashing
    <3> QED
      BY <1>2, <2>1, <2>7, <3>2 DEF Handled
  <2>8. CASE pc' = pc /\ ForwardRequest(Sent + 1)
    <3>1. PICK i \in 1 .. Len(kind) : i = Sent + 1 /\ i \in 1 .. Requests
      <4>1. Len(kind) \in Nat /\ Requests \in Nat /\ Len(kind) <= Requests
        BY <1>1, LenProperties, StreamAssumption DEF Shape, StreamAssumption
      <4> QED
        BY <2>1, <4>1
    <3>2. /\ to_server' = Append(to_server, Forwarded(i))
          /\ state' = kind[i]
          /\ bitrate_list' = (bitrate_list \/ (kind[i] = "chunk" /\ default_list))
          /\ t_s' = IF kind[i] = "chunk" THEN i ELSE t_s
          /\ \/ server' = server
             \/ \E m \in SavedManifests(i) : server' = [server EXCEPT !.f4m_request = m]
      BY <2>8, <3>1 DEF ForwardRequest, StartTimer
    <3>3. to_server' \in Seq(QueuedRequests)
      <4>1. Forwarded(i) \in QueuedRequests
        BY <3>1 DEF Forwarded, QueuedRequests
      <4> QED
        BY <4>1, <3>2, <1>1, Appended DEF Shape
    <3>4. state' \in AllKinds /\ bitrate_list' \in BOOLEAN /\ t_s' \in 0 .. Requests
      <4>1. kind[i] \in AllKinds
        BY <1>1, ElementOfSeq DEF Shape
      <4>2. t_s' \in 0 .. Requests
        BY <1>1, <3>1, <3>2 DEF Shape
      <4>3. bitrate_list' \in BOOLEAN
        BY <3>2
      <4> QED
        BY <4>1, <4>2, <4>3, <3>2
    <3>5. /\ server' \in Servers
          /\ server'.offset = server.offset /\ server'.buf = server.buf
      <4>1. server \in Servers
        BY <1>1 DEF Shape
      <4>2. ASSUME NEW m \in SavedManifests(i), server' = [server EXCEPT !.f4m_request = m]
            PROVE  /\ server' \in Servers
                   /\ server'.offset = server.offset /\ server'.buf = server.buf
        <5>1. m \in Saved
          <6>1. PICK r \in BOOLEAN : m = <<i, r>>
            BY DEF SavedManifests
          <6> QED
            BY <3>1, <6>1 DEF Saved
        <5> QED
          BY <4>1, <4>2, <5>1, SavedIs
      <4> QED
        BY <3>2, <4>1, <4>2
    <3>6. Shape'
      BY <1>1, <1>2, <1>3, <2>4, <2>6, <2>8, <3>3, <3>4, <3>5 DEF Shape
    <3>7. IInv' /\ Pending' = Pending /\ Sent' = Sent + 1 /\ RequestKept
      BY <1>2, <2>1, <2>5, <2>8, <3>6, Forwarding
    <3>8. state' = kind[Sent + 1] /\ StartTimer(Sent + 1)
      BY <2>8 DEF ForwardRequest
    <3> QED
      BY <1>2, <2>1, <2>8, <3>7, <3>8 DEF Handled
  <2> QED
    BY <2>3, <2>7, <2>8
<1> QED
  BY <1>2, <1>5, <1>6

-----------------------------------------------------------------------------
(* Dispatch                                                                *)

\* What follows the response that is complete.
Rest == Prefix(server.buf, server.offset) \o from_server

\* The response in hand is the first of those pending, whole.
LEMMA Completed ==
  ASSUME IInv, Complete
  PROVE  /\ Message \in Seq(ResponseUnits) /\ Message # <<>> /\ WholeResponses(Message)
         /\ Rest \in Seq(ResponseUnits) /\ Len(Rest) \in Nat /\ Blocks(Rest)
         /\ Pending # <<>> /\ Pending[1] \in ResponseUnits
         /\ Len(Pending) = Len(Message) + Len(Rest) /\ Len(Message) \in Nat
         /\ Len(Message) >= 2
         /\ \A i \in 1 .. Len(Rest) : Pending[Len(Message) + i] = Rest[i]
         /\ Copies(Message, Pending[1])
         /\ \A p \in 1 .. Len(Message) : Pending[p] = Part(Pending[1], p)
         /\ Rest # <<>> => Rest[1].of = Pending[1].of + 1
<1>0. \A A, B, C \in Seq(ResponseUnits) : (A \o B) \o C = A \o (B \o C)
  BY Associative
<1>1. Shape /\ Order /\ Requested /\ StateOf /\ Progress /\ InOrder
  BY DEF IInv
<1>2. server.request.status = "success" /\ server.to_send_length = 0
  BY DEF Complete
<1>3. PICK M \in Seq(ResponseUnits), B \in Seq(ResponseUnits) :
        M = Message /\ B = Prefix(server.buf, server.offset)
  BY <1>1, PendingType DEF Shape
<1>4. from_server \in Seq(ResponseUnits)
  BY <1>1 DEF Shape
<1>5. PICK R \in Seq(ResponseUnits) : R = B \o from_server /\ R = Rest
  BY <1>3, <1>4, ConcatLen DEF Rest
<1>6. Pending = M \o R
  <2>1. Pending = (M \o B) \o from_server
    BY <1>1, <1>2, <1>3, PendingType DEF Shape, Taken
  <2>2. (M \o B) \o from_server = M \o (B \o from_server)
    BY <1>0, <1>3, <1>4
  <2> QED
    BY <2>1, <2>2, <1>5
<1>7. PICK P \in Seq(ResponseUnits) : P = Pending /\ P = M \o R
  BY <1>6, ConcatLen
<1>8. /\ Len(P) = Len(M) + Len(R) /\ Len(M) \in Nat /\ Len(R) \in Nat
      /\ \A i \in 1 .. Len(M) : P[i] = M[i]
      /\ \A i \in 1 .. Len(R) : P[Len(M) + i] = R[i]
  BY <1>7, Concat
<1>9. Len(M) >= 2 /\ Len(M) = Size(P[1])
  <2>1. Len(server.response) = 2 /\ Len(M) + 0 = Size(P[1])
    BY <1>1, <1>2, <1>3, <1>7 DEF Progress, HeadEnd
  <2>2. /\ Len(M) = Len(server.response) + Len(server.response_body)
        /\ Len(server.response_body) \in Nat
    BY <1>1, <1>3, PendingType DEF Shape
  <2> QED
    BY <2>1, <2>2, <1>8
<1>10. P # <<>> /\ M # <<>> /\ P[1] \in ResponseUnits
  <2>1. P # <<>> /\ M # <<>>
    BY <1>8, <1>9
  <2> QED
    BY <2>1, <1>8, <1>9, ElementOfSeq
<1>11. PICK m \in Nat, l \in Nat : m = Len(M) /\ l = Len(R)
  BY <1>8
<1>12. Behind(P, m, R)
  BY <1>1, <1>7, <1>8, <1>9, <1>10, <1>11 DEF Behind, Order
<1>13. /\ Blocks(R) /\ \A p \in 1 .. m : P[p] = Part(P[1], p)
       /\ R # <<>> => R[1].of = P[1].of + 1
  BY <1>11, <1>12, BlocksBehind
<1>14. PICK u \in ResponseUnits : u = P[1]
  BY <1>10
<1>15. Copies(M, u)
  BY <1>8, <1>9, <1>11, <1>13, <1>14 DEF Copies
<1>16. WholeResponses(M)
  <2>1. PICK E \in Seq(ResponseUnits) : E = <<>>
    BY EmptySeq
  <2>2. Blocks(E)
    <3>1. \A i \in 1 .. Len(E) : FALSE
      BY <2>1
    <3> QED
      BY <3>1 DEF Blocks
  <2>3. Blocks(E \o M)
    BY <1>15, <2>1, <2>2, BlocksAppend
  <2>4. E \o M = M
    BY <2>1, Neutral
  <2> QED
    BY <2>3, <2>4, BlocksWhole
<1> QED
  BY <1>3, <1>5, <1>7, <1>8, <1>9, <1>10, <1>11, <1>13, <1>14, <1>15, <1>16

\* Where nothing is pipelined, nothing follows the response in hand.
LEMMA NothingFollows ==
  ASSUME IInv, Complete, traffic.pipeline = 1
  PROVE  /\ Rest = <<>> /\ server.offset = 0
         /\ LastAnswered = Len(delivered) + 1 /\ Sent = Len(delivered) + 1
         /\ to_server = <<>> /\ Len(kind) = Len(delivered) + 1
<1>1. Shape /\ Order
  BY DEF IInv
<1>2. PICK P \in Seq(ResponseUnits), M \in Seq(ResponseUnits), R \in Seq(ResponseUnits) :
        P = Pending /\ M = Message /\ R = Rest
  BY <1>1, PendingType, Completed DEF Shape
<1>3. /\ P # <<>> /\ Len(P) = Len(M) + Len(R)
      /\ Len(M) \in Nat /\ Len(R) \in Nat /\ Len(M) >= 2
      /\ \A i \in 1 .. Len(R) : P[Len(M) + i] = R[i]
      /\ R # <<>> => R[1].of = P[1].of + 1
  BY <1>2, Completed
<1>4. PICK d \in Nat : /\ d = Len(delivered) /\ Sent = d + 1 /\ LastAnswered = d + 1
                       /\ to_server = <<>> /\ Len(kind) = d + 1 /\ P[1].of = d + 1
                       /\ P[Len(P)].of = d + 1
  <2>1. Len(delivered) \in Nat
    BY <1>1, Counts
  <2>2. LastAnswered = Len(delivered) + 1 /\ Sent = LastAnswered /\ to_server = <<>>
        /\ Sent = Len(kind)
    BY <1>1, <1>2, <1>3, Alone
  <2>3. P[1].of = Len(delivered) + 1 /\ LastAnswered = P[Len(P)].of
    BY <1>1, <1>2, <1>3 DEF Order, LastAnswered
  <2> QED
    BY <2>1, <2>2, <2>3
<1>5. R = <<>>
  <2> SUFFICES ASSUME R # <<>> PROVE FALSE
    OBVIOUS
  <2>1. Len(R) >= 1 /\ 1 \in 1 .. Len(R)
    BY <1>3, EmptySeq
  <2>2. PICK j \in 1 .. Len(P) : j = Len(M) + 1 /\ j <= Len(P) /\ P[j] = R[1]
    BY <2>1, <1>3
  <2>3. P[j].of <= P[Len(P)].of
    <3>1. Blocks(P) /\ Len(P) \in 1 .. Len(P)
      BY <1>1, <1>2, <1>3 DEF Order
    <3> QED
      BY <3>1, <2>2, BlockOrder
  <2> QED
    BY <2>2, <2>3, <1>3, <1>4
<1>6. server.offset = 0
  <2>1. PICK B \in Seq(ResponseUnits) :
          B = Prefix(server.buf, server.offset) /\ Len(B) = server.offset
    BY <1>1, PendingType DEF Shape
  <2>2. from_server \in Seq(ResponseUnits) /\ Len(from_server) \in Nat
    BY <1>1, LenProperties DEF Shape
  <2>3. Len(B \o from_server) = Len(B) + Len(from_server) /\ Len(B) \in Nat
    BY <2>2, <2>1, ConcatLen, LenProperties
  <2>4. Len(B \o from_server) = 0
    BY <1>2, <1>5, <2>1, EmptySeq DEF Rest
  <2> QED
    BY <2>1, <2>2, <2>3, <2>4
<1> QED
  BY <1>2, <1>4, <1>5, <1>6

\* Once it is freed, the rest is pending.
LEMMA Freeing ==
  ASSUME Shape, server' = Freed(server), UNCHANGED from_server
  PROVE  /\ server' \in Servers
         /\ server'.offset = server.offset /\ server'.buf = server.buf
         /\ server'.request = NoMessage /\ server'.to_send_length = server.to_send_length
         /\ server'.f4m_request = server.f4m_request
         /\ NoMessage.status = "null"
         /\ Pending' = Rest
<1>0. server \in Servers
  BY DEF Shape
<1>1. server' = Fields(server.offset, server.buf, NoMessage, server.to_send_length, <<>>,
                       server.response, server.f4m_request)
  BY <1>0, FreedIs
<1>2. /\ server.offset \in 0 .. Cap /\ server.buf \in [1 .. Cap -> ResponseCells]
      /\ server.to_send_length \in Nat /\ server.response \in Seq(ResponseUnits)
      /\ server.f4m_request \in Saved
  BY <1>0 DEF Servers
<1>3. NoMessage \in Messages /\ NoMessage.status = "null"
  BY DEF NoMessage, Messages
<1>4. server' \in Servers
  <2>1. PICK E \in Seq(ResponseUnits) : E = <<>>
    BY EmptySeq
  <2>2. server' = Fields(server.offset, server.buf, NoMessage, server.to_send_length, E,
                         server.response, server.f4m_request)
    BY <1>1, <2>1
  <2> QED
    BY <1>2, <1>3, <2>2, FieldsType
<1>5. /\ server'.offset = server.offset /\ server'.buf = server.buf
      /\ server'.request = NoMessage /\ server'.to_send_length = server.to_send_length
      /\ server'.f4m_request = server.f4m_request
  BY <1>1, GetField
<1>6. Pending' = Rest
  <2>1. Pending' = (<<>> \o Prefix(server.buf, server.offset)) \o from_server
    BY <1>3, <1>5 DEF Pending
  <2>2. PICK B \in Seq(ResponseUnits) : B = Prefix(server.buf, server.offset)
    BY PendingType DEF Shape
  <2>3. <<>> \o B = B
    BY Neutral
  <2> QED
    BY <2>1, <2>2, <2>3 DEF Rest
<1> QED
  BY <1>3, <1>4, <1>5, <1>6

\* A whole response goes to the browser.
LEMMA HandedOver ==
  ASSUME IInv, UNCHANGED traffic, Complete, state # "f4m", pc # "crashed",
         pc' = "select" \/ (pc' = "parse" /\ server.offset > 0),
         server' = Freed(server), delivered' = Append(delivered, Message),
         UNCHANGED <<browser, recvlen, state, bitrate_list, default_list, t_s, kind,
                     to_proxy, to_server, from_server>>
  PROVE  IInv' /\ Sent' = Sent
<1>1. Shape /\ Order /\ Requested /\ StateOf /\ Progress /\ InOrder
  BY DEF IInv
<1>2. PICK P \in Seq(ResponseUnits), M \in Seq(ResponseUnits), R \in Seq(ResponseUnits) :
        P = Pending /\ M = Message /\ R = Rest
  BY <1>1, PendingType, Completed DEF Shape
<1>3. /\ M # <<>> /\ WholeResponses(M) /\ Blocks(R)
      /\ P # <<>> /\ P[1] \in ResponseUnits
      /\ Len(P) = Len(M) + Len(R) /\ Len(M) \in Nat /\ Len(R) \in Nat /\ Len(M) >= 2
      /\ \A i \in 1 .. Len(R) : P[Len(M) + i] = R[i]
      /\ \A p \in 1 .. Len(M) : M[p] = Part(P[1], p) /\ P[p] = Part(P[1], p)
      /\ R # <<>> => R[1].of = P[1].of + 1
  BY <1>2, Completed DEF Copies
<1>4. PICK u \in ResponseUnits : u = P[1]
  BY <1>3
<1>5. /\ server' \in Servers /\ server'.offset = server.offset /\ server'.buf = server.buf
      /\ server'.request.status = "null" /\ server'.to_send_length = 0
      /\ server'.f4m_request = server.f4m_request /\ Pending' = R
  BY <1>1, <1>2, Freeing DEF Complete
<1>6. /\ Len(delivered) \in Nat /\ LastAnswered \in Nat /\ Sent \in Nat /\ Sent <= Len(kind)
      /\ Len(to_server) \in Nat /\ Len(kind) \in Nat
      /\ Sent = LastAnswered + Len(to_server) /\ LastAnswered >= Len(delivered) + 1
  BY <1>1, <1>2, <1>3, Counts DEF Order
<1>7. PICK d \in Nat : d = Len(delivered) /\ u.of = d + 1 /\ d + 1 \in 1 .. Len(kind)
  <2>1. P[1].of = Len(delivered) + 1
    BY <1>1, <1>2, <1>3 DEF Order
  <2> QED
    BY <2>1, <1>4, <1>6
<1>8. /\ delivered' \in Seq(Seq(ResponseUnits)) /\ Len(delivered') = d + 1
      /\ \A i \in 1 .. d : delivered'[i] = delivered[i]
      /\ delivered'[d + 1] = M
  BY <1>1, <1>2, <1>7, Appended DEF Shape
<1>9. LastAnswered' = LastAnswered
  <2>1. CASE R = <<>>
    <3>1. Len(R) = 0 /\ Len(P) = Len(M)
      BY <2>1, <1>3
    <3>2. P[Len(P)] = Part(P[1], Len(M))
      BY <3>1, <1>3
    <3>3. P[Len(P)].of = u.of
      BY <3>2, <1>4, UnitFacts
    <3> QED
      BY <2>1, <3>3, <1>2, <1>3, <1>5, <1>7, <1>8 DEF LastAnswered
  <2>2. CASE R # <<>>
    <3>1. Len(R) \in 1 .. Len(R)
      BY <2>2, <1>3, EmptySeq
    <3>2. P[Len(P)] = R[Len(R)]
      BY <3>1, <1>3
    <3> QED
      BY <2>2, <3>2, <1>2, <1>3, <1>5 DEF LastAnswered
  <2> QED
    BY <2>1, <2>2
<1>10. Sent' = Sent
  BY <1>9 DEF Sent
<1>11. Order'
  <2>1. Pending' # <<>> => Pending'[1].of = Len(delivered') + 1
    BY <1>3, <1>4, <1>5, <1>7, <1>8
  <2>2. Len(kind) <= Len(delivered') + traffic.pipeline
    BY <1>1, <1>6, <1>7, <1>8, TrafficIs DEF Order
  <2> QED
    BY <1>1, <1>3, <1>5, <1>9, <1>10, <2>1, <2>2 DEF Order
<1>12. Requested'
  BY <1>1, <1>10, SameRequested
<1>13. StateOf'
  <2>1. ASSUME NEW i \in 1 .. Len(Pending') PROVE Pending'[i].nolist = (state = "f4m_nolist")
    <3>1. i \in 1 .. Len(R) /\ Pending'[i] = P[Len(M) + i] /\ Len(M) + i \in 1 .. Len(P)
      BY <1>3, <1>5
    <3> QED
      BY <3>1, <1>1, <1>2 DEF StateOf
  <2> QED
    BY <1>1, <1>5, <1>10, <2>1 DEF StateOf, Saves
<1>14. Shape'
  <2>1. pc' \in {"select", "body", "dispatch", "parse"} \cup Ends
    OBVIOUS
  <2> QED
    BY <1>1, <1>5, <1>8, <2>1 DEF Shape
<1>15. Progress'
  BY <1>5 DEF Progress
<1>16. \A p \in 1 .. Len(M) : M[p].of = d + 1 /\ M[p].part = p
                              /\ M[p].nolist = (kind[d + 1] = "f4m")
  <2>1. u.nolist = (kind[d + 1] = "f4m")
    <3>1. u.nolist = (state = "f4m_nolist")
      <4>1. 1 \in 1 .. Len(P)
        BY <1>3
      <4> QED
        BY <4>1, <1>1, <1>2, <1>4 DEF StateOf
    <3>2. CASE state = "f4m_nolist"
      <4>1. kind[Sent] = "f4m" /\ traffic.pipeline = 1
        BY <3>2, <1>1, ManifestAlone
      <4>2. Sent = d + 1
        BY <4>1, <1>1, <1>2, <1>3, <1>7, Alone
      <4> QED
        BY <3>1, <3>2, <4>1, <4>2
    <3>3. CASE state # "f4m_nolist"
      <4> SUFFICES ASSUME kind[d + 1] = "f4m" PROVE FALSE
        BY <3>1, <3>3
      <4>1. "f4m" \in traffic.kinds
        BY <1>1, <1>7 DEF Order
      <4>2. traffic.pipeline = 1
        BY <4>1, <1>1, TrafficIs
      <4>3. Sent = d + 1
        BY <4>2, <1>1, <1>2, <1>3, <1>7, Alone
      <4>4. state = kind[Sent]
        BY <4>3, <1>1, <1>6, <1>7, <3>3 DEF StateOf
      <4> QED
        BY <4>3, <4>4
    <3> QED
      BY <3>2, <3>3
  <2>2. \A p : Part(u, p).of = u.of /\ Part(u, p).part = p /\ Part(u, p).nolist = u.nolist
    BY DEF Part
  <2> QED
    BY <2>1, <2>2, <1>3, <1>4, <1>7
<1>17. InOrder'
  <2>1. ASSUME NEW i \in 1 .. Len(delivered')
        PROVE  RightAnswer(i)'
    <3>1. CASE i \in 1 .. d
      <4>1. delivered'[i] = delivered[i] /\ i \in 1 .. Len(delivered) /\ kind'[i] = kind[i]
        BY <3>1, <1>7, <1>8
      <4>2. RightAnswer(i)
        BY <1>1, <4>1, Zenon DEF InOrder
      <4> QED
        BY <4>1, <4>2, Zenon DEF RightAnswer
    <3>2. CASE i = d + 1
      BY <3>2, <1>3, <1>8, <1>16 DEF RightAnswer
    <3>3. i \in 1 .. d \/ i = d + 1
      BY <1>8
    <3> QED
      BY <3>1, <3>2, <3>3
  <2> QED
    BY <2>1 DEF InOrder
<1> QED
  BY <1>10, <1>11, <1>12, <1>13, <1>14, <1>15, <1>17 DEF IInv

\* A manifest stays with the proxy, which asks for the version without bitrates.
LEMMA Learning ==
  ASSUME IInv, UNCHANGED traffic, Complete, pc # "crashed", LearnBitrates,
         pc' = "select" \/ (pc' = "parse" /\ server.offset > 0),
         UNCHANGED <<browser, recvlen, t_s, kind, to_proxy, from_server>>
  PROVE  IInv' /\ Sent' = Sent
<1>1. Shape /\ Order /\ Requested /\ StateOf /\ Progress /\ InOrder
  BY DEF IInv
<1>2. PICK q : /\ q = [of |-> server.f4m_request[1], nolist |-> TRUE,
                       residue |-> server.f4m_request[2]]
               /\ state = "f4m" /\ state' = "f4m_nolist" /\ KeepBitrates
               /\ to_server' = Append(to_server, q) /\ delivered' = delivered
               /\ server' = Freed(server)
  BY DEF LearnBitrates, RelayManifest
<1>3. PICK P \in Seq(ResponseUnits), M \in Seq(ResponseUnits), R \in Seq(ResponseUnits) :
        P = Pending /\ M = Message /\ R = Rest
  BY <1>1, PendingType, Completed DEF Shape
<1>4. Blocks(R)
  BY <1>3, Completed
<1>5. /\ server' \in Servers /\ server'.offset = server.offset /\ server'.buf = server.buf
      /\ server'.request.status = "null" /\ server'.to_send_length = 0
      /\ server'.f4m_request = server.f4m_request /\ Pending' = R
  BY <1>1, <1>2, <1>3, Freeing DEF Complete
<1>6. /\ Sent > 0 /\ kind[Sent] = "f4m" /\ traffic.pipeline = 1
      /\ server.f4m_request # <<>> /\ server.f4m_request[1] = Sent
      /\ server.f4m_request[2] = FALSE
  BY <1>1, <1>2, ManifestAlone DEF StateOf, Saves
<1>7. PICK d \in Nat : /\ d = Len(delivered) /\ Sent = d + 1 /\ LastAnswered = d + 1
                       /\ to_server = <<>> /\ Len(kind) = d + 1
  BY <1>1, <1>6, NothingFollows, Counts
<1>8. R = <<>>
  BY <1>3, <1>6, NothingFollows
<1>9. q.of = d + 1 /\ q.nolist = TRUE /\ q.residue = FALSE /\ q \in QueuedRequests
  <2>1. server.f4m_request \in (1 .. Requests) \X BOOLEAN
    BY <1>1, <1>6 DEF Shape, Servers, Saved
  <2>2. server.f4m_request[1] \in 1 .. Requests /\ server.f4m_request[2] \in BOOLEAN
    BY <2>1
  <2> QED
    BY <2>2, <1>2, <1>6, <1>7 DEF QueuedRequests
<1>10. to_server' \in Seq(QueuedRequests) /\ Len(to_server') = 1 /\ to_server'[1] = q
  <2>1. to_server \in Seq(QueuedRequests) /\ Len(to_server) = 0
    BY <1>1, <1>7 DEF Shape
  <2> QED
    BY <2>1, <1>2, <1>9, Appended
<1>11. LastAnswered' = d /\ Sent' = d + 1
  <2>1. LastAnswered' = d
    BY <1>2, <1>5, <1>7, <1>8 DEF LastAnswered
  <2> QED
    BY <2>1, <1>10 DEF Sent
<1>12. Sent' = Sent
  BY <1>7, <1>11
<1>13. Order'
  <2>1. ASSUME NEW j \in 1 .. Len(to_server') PROVE to_server'[j].of = LastAnswered' + j
    BY <1>9, <1>10, <1>11
  <2>2. Len(kind) <= Len(delivered') + traffic.pipeline /\ Sent' <= Len(kind)
    BY <1>2, <1>6, <1>7, <1>11
  <2> QED
    BY <1>1, <1>4, <1>5, <1>8, <2>1, <2>2 DEF Order
<1>14. Requested'
  BY <1>1, <1>12, SameRequested
<1>15. StateOf'
  <2>1. \A i \in 1 .. Len(Pending') : FALSE
    BY <1>5, <1>8
  <2>2. \A j \in 1 .. Len(to_server') :
          to_server'[j].nolist = TRUE /\ to_server'[j].residue = FALSE
    BY <1>9, <1>10
  <2>3. Sent' > 0 /\ Sent' # 0 /\ kind[Sent'] = "f4m"
    BY <1>6, <1>12
  <2>4. Saves'
    BY <1>1, <1>5, <1>12 DEF StateOf, Saves
  <2> QED
    BY <1>2, <2>1, <2>2, <2>3, <2>4 DEF StateOf
<1>16. Shape'
  <2>1. pc' \in {"select", "body", "dispatch", "parse"} \cup Ends
    OBVIOUS
  <2>2. bitrate_list' \in BOOLEAN /\ default_list' \in BOOLEAN
    <3>1. server.request.listed \in BOOLEAN
      <4>1. server.request \in Messages /\ server.request.status = "success"
        BY <1>1 DEF Shape, Servers, Complete
      <4> QED
        BY <4>1 DEF Messages
    <3> QED
      BY <3>1, <1>1, <1>2 DEF KeepBitrates, Shape
  <2> QED
    BY <1>1, <1>2, <1>5, <1>10, <2>1, <2>2 DEF Shape
<1>17. Progress'
  BY <1>5 DEF Progress
<1>18. InOrder'
  BY <1>1, <1>2, Counts, SameAnswers
<1> QED
  BY <1>12, <1>13, <1>14, <1>15, <1>16, <1>17, <1>18 DEF IInv

\* Whatever conn->state is, Dispatch preserves the invariant.
LEMMA DispatchStep ==
  ASSUME IInv, UNCHANGED traffic, Dispatch
  PROVE  IInv' /\ Sent' = Sent
<1>1. Shape /\ Order /\ Requested /\ StateOf /\ Progress /\ InOrder
  BY DEF IInv
<1>2. /\ pc = "dispatch" /\ pc # "crashed"
      /\ pc' = IF server.offset <= 0 THEN "select" ELSE "parse"
      /\ UNCHANGED <<browser, recvlen, t_s, kind, to_proxy, from_server>>
      /\ \/ Complete /\ (Relay \/ LearnBitrates \/ MeasureChunk)
         \/ ~Complete /\ UNCHANGED <<server, state, bitrate_list, default_list,
                                     to_server, delivered, measured>>
  BY DEF Dispatch
<1>3. server.offset \in Nat
  BY <1>1, StreamAssumption DEF Shape, Servers, StreamAssumption
<1>4. pc' = "select" \/ (pc' = "parse" /\ server.offset > 0)
  BY <1>2, <1>3
<1>5. CASE Complete /\ (Relay \/ MeasureChunk)
  <2>1. /\ state # "f4m" /\ server' = Freed(server)
        /\ delivered' = Append(delivered, Message)
        /\ UNCHANGED <<state, bitrate_list, default_list, to_server>>
    BY <1>5 DEF Relay, MeasureChunk
  <2> QED
    BY <1>2, <1>4, <1>5, <2>1, HandedOver
<1>6. CASE Complete /\ LearnBitrates
  BY <1>2, <1>4, <1>6, Learning
<1>7. CASE ~Complete /\ UNCHANGED <<server, state, bitrate_list, default_list,
                                    to_server, delivered, measured>>
  <2>1. pc' = "parse" => server.request.status = "null"
    <3> SUFFICES ASSUME server.offset > 0 PROVE server.request.status = "null"
      BY <1>4
    <3>1. server.request.status # "needmore"
      BY <1>1, <1>2 DEF Progress
    <3>2. server.to_send_length \in Nat /\ server.request \in Messages
      BY <1>1 DEF Shape, Servers
    <3>3. server.request.status # "success"
      BY <1>1, <1>2, <1>3, <1>7, <3>2 DEF Progress, Complete
    <3> QED
      BY <3>1, <3>2, <3>3 DEF Messages
  <2>2. Pending' = Pending /\ Message' = Message
    BY <1>2, <1>7, SamePending
  <2>3. Order' /\ Sent' = Sent
    BY <1>1, <1>2, <1>7, <2>2, SameOrder
  <2>4. Requested'
    BY <1>1, <1>2, <1>7, <2>3, SameRequested
  <2>5. StateOf'
    BY <1>1, <1>2, <1>7, <2>2, <2>3, SameStateOf
  <2>6. Shape'
    BY <1>1, <1>2, <1>7 DEF Shape
  <2>7. Progress'
    BY <1>1, <1>4, <1>7, <2>1, <2>2 DEF Progress
  <2>8. InOrder'
    BY <1>1, <1>2, <1>7, Counts, SameAnswers
  <2> QED
    BY <2>3, <2>4, <2>5, <2>6, <2>7, <2>8 DEF IInv
<1> QED
  BY <1>2, <1>5, <1>6, <1>7

-----------------------------------------------------------------------------
(* The streams                                                             *)

\* The buffers are cleared.
LEMMA BuffersEmpty ==
  /\ \A i \in 1 .. 0 : FALSE
  /\ Buf(<<>>) \in [1 .. Cap -> RequestCells] /\ Buf(<<>>) \in [1 .. Cap -> ResponseCells]
<1>1. \A i \in 1 .. Cap : ~(i <= 0)
  OBVIOUS
<1>2. Len(<<>>) = 0
  BY EmptySeq
<1>3. Buf(<<>>) = [i \in 1 .. Cap |-> Zero]
  BY <1>1, <1>2 DEF Buf
<1> QED
  BY <1>3 DEF RequestCells, ResponseCells

\* A connection begins with nothing pending.
LEMMA InitIInv == Init => IInv
<1> SUFFICES ASSUME Init PROVE IInv
  OBVIOUS
<1>0. Requests \in Nat /\ Cap \in Nat
  BY StreamAssumption DEF StreamAssumption
<1>1. /\ traffic \in Traffics /\ pc = "select" /\ recvlen = 0 /\ state = "html" /\ t_s = 0
      /\ browser.offset = 0 /\ browser.buf = Buf(<<>>)
      /\ browser = [offset |-> 0, buf |-> Buf(<<>>)]
      /\ bitrate_list = FALSE /\ default_list = FALSE
      /\ kind = <<>> /\ to_proxy = <<>> /\ to_server = <<>> /\ from_server = <<>>
      /\ delivered = <<>>
  BY DEF Init
<1>2. server = Fields(0, Buf(<<>>), NoMessage, 0, <<>>, <<>>, <<>>)
  BY DEF Init, Fields
<1>3. /\ server.offset = 0 /\ server.buf = Buf(<<>>) /\ server.request.status = "null"
      /\ server.to_send_length = 0 /\ server.f4m_request = <<>>
  BY <1>2, GetField DEF NoMessage
<1>4. server \in Servers
  <2>1. NoMessage \in Messages /\ <<>> \in Saved
    BY DEF NoMessage, Messages, Saved
  <2>2. PICK E \in Seq(ResponseUnits) : E = <<>>
    BY EmptySeq
  <2>3. server = Fields(0, Buf(<<>>), NoMessage, 0, E, E, <<>>)
    BY <1>2, <2>2
  <2>4. 0 \in 0 .. Cap /\ 0 \in Nat /\ Buf(<<>>) \in [1 .. Cap -> ResponseCells]
    BY <1>0, BuffersEmpty
  <2> QED
    BY <2>1, <2>3, <2>4, FieldsType
<1>5. Prefix(server.buf, 0) = <<>> /\ Prefix(browser.buf, 0) = <<>>
  BY PrefixEmpty
<1>6. <<>> \o <<>> = <<>>
  <2>1. PICK E \in Seq(ResponseUnits) : E = <<>>
    BY EmptySeq
  <2> QED
    BY <2>1, Neutral
<1>7. Pending = <<>> /\ Arriving = <<>>
  BY <1>1, <1>3, <1>5, <1>6 DEF Pending, Arriving
<1>8. Len(<<>>) = 0 /\ \A T : <<>> \in Seq(T)
  BY EmptySeq
<1>9. LastAnswered = 0 /\ Sent = 0
  BY <1>1, <1>7, <1>8 DEF LastAnswered, Sent
<1>10. Shape
  <2>1. browser \in [offset : 0 .. Cap, buf : [1 .. Cap -> RequestCells]]
    BY <1>0, <1>1, BuffersEmpty
  <2>2. /\ \A i \in 1 .. browser.offset : browser.buf[i] \in RequestUnits
        /\ \A i \in 1 .. server.offset : server.buf[i] \in ResponseUnits
    <3>1. \A i \in 1 .. 0 : FALSE
      OBVIOUS
    <3> QED
      BY <3>1, <1>1, <1>3
  <2>3. recvlen \in 0 .. Cap /\ t_s \in 0 .. Requests /\ state \in AllKinds
    BY <1>0, <1>1 DEF AllKinds
  <2>4. /\ kind \in Seq(AllKinds) /\ Len(kind) <= Requests
        /\ to_proxy \in Seq(RequestUnits) /\ to_server \in Seq(QueuedRequests)
        /\ from_server \in Seq(ResponseUnits) /\ delivered \in Seq(Seq(ResponseUnits))
    BY <1>0, <1>1, <1>8
  <2> QED
    BY <1>1, <1>4, <2>1, <2>2, <2>3, <2>4 DEF Shape
<1>11. Order
  <2>1. Blocks(Pending)
    <3>1. \A i \in 1 .. Len(Pending) : FALSE
      BY <1>7, <1>8
    <3> QED
      BY <3>1 DEF Blocks
  <2>2. traffic.pipeline \in Nat
    BY <1>10, TrafficIs
  <2> QED
    BY <1>1, <1>7, <1>8, <1>9, <2>1, <2>2 DEF Order
<1>12. Requested
  BY <1>1, <1>7, <1>8, <1>9 DEF Requested
<1>13. StateOf
  BY <1>1, <1>3, <1>7, <1>8, <1>9 DEF StateOf, Saves
<1>14. Progress
  BY <1>1, <1>3 DEF Progress
<1>15. InOrder
  BY <1>1, <1>8 DEF InOrder
<1> QED
  BY <1>10, <1>11, <1>12, <1>13, <1>14, <1>15 DEF IInv

\* Every step preserves the invariant.
LEMMA NextIInv == IInv /\ Clean /\ [Next]_vars => IInv'
<1> SUFFICES ASSUME IInv, Clean, [Next]_vars PROVE IInv'
  OBVIOUS
<1>1. CASE UNCHANGED vars
  BY <1>1, Stuttering
<1>2. CASE Step /\ UNCHANGED traffic
  <2>1. ASSUME NEW n \in 1 .. Cap, HandlerBrowser(n) PROVE IInv'
    BY <1>2, <2>1, HandlerBrowserStep
  <2>2. ASSUME NEW n \in 1 .. Cap, HandlerServer(n) PROVE IInv'
    BY <1>2, <2>2, HandlerServerStep
  <2>3. CASE BrowserFull \/ ServerFull \/ SendFails \/ HangUp
    BY <1>2, <2>3, ClosingStep
  <2>4. CASE TakeBody
    BY <1>2, <2>4, TakeBodyStep
  <2>5. CASE Dispatch
    BY <1>2, <2>5, DispatchStep
  <2>6. CASE ParseHead
    BY <1>2, <2>6, ParseHeadStep
  <2>7. ASSUME NEW length \in traffic.lengths, ServerAnswers(length) PROVE IInv'
    BY <1>2, <2>7, ServerAnswersStep
  <2>8. CASE OtherConnLearns
    BY <1>2, <2>8, LearnsStep
  <2>9. CASE Done
    BY <2>9, Stuttering DEF Done
  <2>10. ASSUME NEW k \in traffic.kinds, BrowserSends(k) PROVE IInv'
    BY <1>2, <2>10, BrowserSendsStep
  <2> QED
    BY <1>2, <2>1, <2>2, <2>3, <2>4, <2>5, <2>6, <2>7, <2>8, <2>9, <2>10
    DEF Step, Proxy, Answers
<1> QED
  BY <1>1, <1>2 DEF Next

\* What is kept once a tail may have been sent: a manifest that leaves one is
\* asked for behind all answers so far, and they stay the right ones.
Disturbed ==
  /\ AnswersInOrder /\ ~Undisturbed(Len(delivered) + 1)
  /\ kind \in Seq(AllKinds) /\ traffic \in Traffics
  /\ \E T : delivered \in Seq(T)

\* The invariant of every connection.
Kept == (Clean => IInv) /\ (~Clean => Disturbed)

\* When the second manifest is asked for, everything before it is answered.
LEMMA Disturbing == IInv /\ ~Clean => Disturbed
<1> SUFFICES ASSUME IInv, ~Clean PROVE Disturbed
  OBVIOUS
<1>1. Shape /\ Order /\ InOrder
  BY DEF IInv
<1>2. PICK j \in 1 .. Len(kind), l \in 1 .. Len(kind) :
        traffic.tails /\ kind[j] = "f4m" /\ kind[l] = "f4m" /\ j # l
  BY DEF Clean, Undisturbed
<1>3. traffic.pipeline = 1
  <2>1. kind[j] \in traffic.kinds
    BY <1>1 DEF Order
  <2> QED
    BY <1>1, <1>2, <2>1, TrafficIs
<1>4. Len(kind) <= Len(delivered) + 1 /\ Len(kind) \in Nat /\ Len(delivered) \in Nat
  BY <1>1, <1>3, Counts DEF Order
<1>5. j <= Len(delivered) + 1 /\ l <= Len(delivered) + 1
  BY <1>4
<1>6. ~Undisturbed(Len(delivered) + 1)
  BY <1>2, <1>5 DEF Undisturbed
<1> QED
  BY <1>1, <1>6 DEF Disturbed, Shape, AnswersInOrder, InOrder

\* What a step may do with requests and answers: append to them.
LEMMA Grows ==
  ASSUME [Next]_vars
  PROVE  /\ traffic' = traffic
         /\ kind' = kind \/ \E k \in traffic.kinds : kind' = Append(kind, k)
         /\ delivered' = delivered \/ delivered' = Append(delivered, Message)
<1>1. CASE UNCHANGED vars
  BY <1>1 DEF vars
<1>2. CASE Step /\ UNCHANGED traffic
  <2>1. CASE \E n \in 1 .. Cap : HandlerBrowser(n) \/ HandlerServer(n)
    BY <1>2, <2>1 DEF HandlerBrowser, HandlerServer
  <2>2. CASE BrowserFull \/ ServerFull \/ SendFails \/ HangUp
    BY <1>2, <2>2 DEF BrowserFull, ServerFull, SendFails, HangUp, Close
  <2>3. CASE TakeBody
    BY <1>2, <2>3 DEF TakeBody
  <2>4. CASE ParseHead
    BY <1>2, <2>4, Zenon DEF ParseHead
  <2>5. CASE Dispatch
    BY <1>2, <2>5 DEF Dispatch, Relay, LearnBitrates, RelayManifest, MeasureChunk
  <2>6. CASE Answers \/ OtherConnLearns
    BY <1>2, <2>6 DEF Answers, ServerAnswers, OtherConnLearns
  <2>7. CASE Done
    BY <2>7, <1>1 DEF Done
  <2>8. CASE \E k \in traffic.kinds : BrowserSends(k)
    BY <1>2, <2>8 DEF BrowserSends
  <2> QED
    BY <1>2, <2>1, <2>2, <2>3, <2>4, <2>5, <2>6, <2>7, <2>8 DEF Step, Proxy
<1> QED
  BY <1>1, <1>2 DEF Next

\* What has been disturbed stays so.
LEMMA DisturbedStep ==
  ASSUME Disturbed, ~Clean, [Next]_vars
  PROVE  Disturbed' /\ ~Clean'
<1>1. PICK T : delivered \in Seq(T)
  BY DEF Disturbed
<1>2. PICK d \in Nat, c \in Nat : d = Len(delivered) /\ c = Len(kind)
  BY <1>1, LenProperties DEF Disturbed
<1>3. traffic' = traffic /\ traffic \in Traffics
  BY Grows DEF Disturbed
<1>4. /\ kind' \in Seq(AllKinds) /\ Len(kind') \in Nat /\ Len(kind') >= c
      /\ \A i \in 1 .. c : kind'[i] = kind[i]
  <2>1. kind \in Seq(AllKinds)
    BY DEF Disturbed
  <2>2. CASE kind' = kind
    BY <2>1, <2>2, <1>2
  <2>3. ASSUME NEW k \in traffic.kinds, kind' = Append(kind, k)
        PROVE  /\ kind' \in Seq(AllKinds) /\ Len(kind') = c + 1
               /\ \A i \in 1 .. c : kind'[i] = kind[i]
    <3>1. k \in AllKinds
      BY <1>3, StreamAssumption DEF StreamAssumption
    <3> QED
      BY <2>1, <2>3, <3>1, <1>2, Appended
  <2> QED
    BY <2>2, <2>3, <1>2, Grows
<1>5. PICK V : /\ delivered' \in Seq(V) /\ Len(delivered') \in Nat /\ Len(delivered') >= d
               /\ \A i \in 1 .. d : delivered'[i] = delivered[i]
  <2>1. CASE delivered' = delivered
    BY <2>1, <1>1, <1>2
  <2>2. CASE delivered' = Append(delivered, Message)
    <3>1. PICK W : W = T \cup {Message}
      OBVIOUS
    <3>2. delivered \in Seq(W) /\ Message \in W
      <4>1. delivered \in [1 .. d -> T]
        BY <1>1, <1>2, LenProperties
      <4>2. delivered \in [1 .. d -> W]
        BY <4>1, <3>1
      <4> QED
        BY <4>2, <3>1, SeqDef
    <3>3. /\ delivered' \in Seq(W) /\ Len(delivered') = d + 1
          /\ \A i \in 1 .. d : delivered'[i] = delivered[i]
      BY <2>2, <3>2, <1>2, Appended
    <3> QED
      BY <3>3
  <2> QED
    BY <2>1, <2>2, Grows
<1>6. ASSUME NEW n \in Nat, ~Undisturbed(n), NEW m \in Nat, m >= n
      PROVE  ~Undisturbed(m)'
  <2>1. PICK j \in 1 .. c, l \in 1 .. c :
          /\ traffic.tails /\ kind[j] = "f4m" /\ kind[l] = "f4m" /\ j # l
          /\ j <= n /\ l <= n
    BY <1>2, <1>6 DEF Undisturbed
  <2>2. /\ j \in 1 .. Len(kind') /\ l \in 1 .. Len(kind') /\ j <= m /\ l <= m
        /\ kind'[j] = "f4m" /\ kind'[l] = "f4m"
    BY <1>4, <1>6, <2>1
  <2> QED
    BY <1>3, <2>1, <2>2 DEF Undisturbed
<1>7. ~Undisturbed(d + 1) /\ ~Undisturbed(c)
  BY <1>2 DEF Disturbed, Clean
<1>8. ~Undisturbed(Len(delivered) + 1)'
  BY <1>5, <1>6, <1>7
<1>9. ~Clean'
  BY <1>4, <1>6, <1>7 DEF Clean
<1>10. AnswersInOrder'
  <2> SUFFICES ASSUME NEW i \in 1 .. Len(delivered'), Undisturbed(i)' PROVE RightAnswer(i)'
    BY DEF AnswersInOrder
  <2>1. i \in 1 .. d
    <3>1. i \in Nat /\ ~(i >= d + 1)
      BY <1>5, <1>6, <1>7
    <3> QED
      BY <3>1
  <2>2. ASSUME ~Undisturbed(i) PROVE FALSE
    BY <2>1, <2>2, <1>6
  <2>3. RightAnswer(i)
    BY <1>2, <2>1, <2>2 DEF Disturbed, AnswersInOrder
  <2>4. delivered'[i] = delivered[i]
    BY <1>5, <2>1
  <2>5. kind'[i] = kind[i]
    <3>1. PICK j \in 1 .. c, l \in 1 .. c :
            traffic.tails /\ kind[j] = "f4m" /\ kind[l] = "f4m" /\ j # l
      BY <1>2, <1>7 DEF Undisturbed
    <3>2. ~(j <= i /\ l <= i)
      BY <2>2, <3>1, <1>2 DEF Undisturbed
    <3>3. i \in 1 .. c
      BY <2>1, <3>2
    <3> QED
      BY <3>3, <1>4
  <2> QED
    BY <2>3, <2>4, <2>5 DEF RightAnswer
<1> QED
  BY <1>3, <1>4, <1>5, <1>8, <1>9, <1>10 DEF Disturbed

\* Every step preserves it: as long as no tail can have been sent the inductive
\* invariant, and behind that what the answers up to there were.
LEMMA KeptStep == Kept /\ [Next]_vars => Kept'
<1>0. (IInv /\ ~Clean => Disturbed)'
  BY Disturbing, PTL
<1> SUFFICES ASSUME Kept, [Next]_vars PROVE Kept'
  OBVIOUS
<1>1. CASE Clean
  <2>1. IInv'
    BY <1>1, NextIInv DEF Kept
  <2> QED
    BY <1>0, <2>1 DEF Kept
<1>2. CASE ~Clean
  BY <1>2, DisturbedStep DEF Kept
<1> QED
  BY <1>1, <1>2

\* So it is in every state of every connection.
LEMMA KeptAlways == Spec => []Kept
<1>1. Init => IInv /\ Clean
  <2>1. Init => kind = <<>> /\ \A i \in 1 .. Len(<<>>) : FALSE
    BY EmptySeq DEF Init
  <2> QED
    BY <2>1, InitIInv DEF Clean, Undisturbed
<1>2. Init => Kept
  BY <1>1 DEF Kept
<1> QED
  BY <1>2, KeptStep, PTL DEF Spec

\* The inductive invariant holds in every state of every connection, up to the
\* second manifest where requests for manifests leave tails.
THEOREM StreamInvariant == Spec => [](Clean => IInv)
<1>1. Kept => (Clean => IInv)
  BY DEF Kept
<1> QED
  BY <1>1, KeptAlways, PTL

\* NothingLost: as long as the connection is defined, what the server has sent
\* and handler_server has not dealt with is a sequence of whole responses, in
\* whatever segments they came and however the buffer was shifted.
THEOREM NothingLostHolds == Spec => [](Clean => NothingLost)
<1>1. IInv => NothingLost
  <2> SUFFICES ASSUME IInv PROVE WholeResponses(Pending)
    BY DEF NothingLost
  <2>1. Shape /\ Order
    BY DEF IInv
  <2> QED
    BY <2>1, PendingType, BlocksWhole DEF Shape, Order
<1> QED
  BY <1>1, StreamInvariant, PTL

\* AnswersInOrder: the browser's i-th answer is the whole answer to its i-th
\* request, of a manifest the version without bitrates; where requests for
\* manifests leave tails, every answer before the second manifest's.
THEOREM AnswersInOrderHolds == Spec => []AnswersInOrder
<1>1. Kept => AnswersInOrder
  BY DEF Kept, IInv, InOrder, AnswersInOrder, Disturbed
<1> QED
  BY <1>1, KeptAlways, PTL

-----------------------------------------------------------------------------
(* The measurements                                                        *)

\* The player waits for a chunk before it asks for anything else.
ChunksAwaited == \A t \in Traffics : "chunk" \in t.kinds => t.pipeline = 1

\* A measurement.
Measurement == [response : 1 .. Requests, since : 0 .. Requests]

\* The invariant about the measurements: the timer runs for the chunk asked
\* for last, and what is measured has been delivered, but at a close.
Measures ==
  /\ measured \in Seq(Measurement)
  /\ state = "chunk" => t_s = Sent
  /\ pc # "closed" => \A m \in 1 .. Len(measured) : measured[m].response <= Len(delivered)
  /\ FromItsRequest

\* A step that measures and delivers nothing preserves it.
LEMMA SameMeasures ==
  ASSUME Measures, UNCHANGED <<measured, delivered>>, Len(delivered) \in Nat,
         state' = "chunk" => t_s' = Sent', pc' # "closed" => pc # "closed",
         \A i \in 1 .. Len(delivered) : kind'[i] = kind[i]
  PROVE  Measures'
BY DEF Measures, FromItsRequest

\* Where a chunk is asked for, nothing is pipelined.
LEMMA ChunkAlone ==
  ASSUME Shape, Order, ChunksAwaited, NEW i \in 1 .. Len(kind), kind[i] = "chunk"
  PROVE  traffic.pipeline = 1
BY DEF Shape, Order, ChunksAwaited

\* What is answered next has been asked for.
LEMMA NextAnswer ==
  ASSUME IInv, Complete
  PROVE  /\ Len(delivered) \in Nat /\ Len(delivered) + 1 \in 1 .. Len(kind)
         /\ server.request.of = Len(delivered) + 1
         /\ traffic.pipeline = 1 => Sent = Len(delivered) + 1
         /\ Sent \in 1 .. Len(kind) /\ Pending # <<>>
<1>1. Shape /\ Order /\ Progress
  BY DEF IInv
<1>2. Pending # <<>>
  BY Completed
<1>3. /\ Len(delivered) \in Nat /\ LastAnswered >= Len(delivered) + 1 /\ LastAnswered \in Nat
      /\ Len(to_server) \in Nat /\ Len(kind) \in Nat
      /\ Sent = LastAnswered + Len(to_server) /\ Sent <= Len(kind)
  BY <1>1, <1>2, Counts DEF Order
<1>4. server.request.of = Len(delivered) + 1
  BY <1>1, <1>2 DEF Order, Progress, Complete
<1>5. traffic.pipeline = 1 => Sent = Len(delivered) + 1
  BY <1>1, <1>2, Alone
<1> QED
  BY <1>2, <1>3, <1>4, <1>5

\* The measurement of a chunk is about the chunk in hand.
LEMMA Measuring ==
  ASSUME IInv, Measures, ChunksAwaited, Complete, state = "chunk", pc # "closed",
         measured' = Measurements, UNCHANGED kind,
         \/ UNCHANGED delivered
         \/ Len(delivered') = Len(delivered) + 1
  PROVE  /\ measured' \in Seq(Measurement)
         /\ t_s = Sent /\ kind[Len(delivered) + 1] = "chunk"
         /\ pc' # "closed" /\ Len(delivered') = Len(delivered) + 1 =>
              \A m \in 1 .. Len(measured') : measured'[m].response <= Len(delivered')
         /\ FromItsRequest'
<1>1. Shape /\ Order /\ StateOf
  BY DEF IInv
<1>2. PICK d \in Nat : d = Len(delivered)
  BY NextAnswer
<1>3. d + 1 \in 1 .. Len(kind) /\ server.request.of = d + 1 /\ Sent \in 1 .. Len(kind)
  BY <1>2, NextAnswer
<1>4. Len(kind) \in Nat /\ Requests \in Nat /\ Len(kind) <= Requests
  BY <1>1, LenProperties, StreamAssumption DEF Shape, StreamAssumption
<1>5. kind[Sent] = "chunk"
  BY <1>1, <1>3, <1>4 DEF StateOf
<1>6. Sent = d + 1 /\ kind[d + 1] = "chunk" /\ t_s = d + 1
  BY <1>1, <1>2, <1>3, <1>5, ChunkAlone, NextAnswer DEF Measures
<1>7. PICK q \in Measurement : q = [response |-> d + 1, since |-> d + 1]
                               /\ q.response = d + 1 /\ q.since = d + 1
  <2>1. d + 1 \in 1 .. Requests /\ d + 1 \in 0 .. Requests
    BY <1>3, <1>4
  <2>2. [response |-> d + 1, since |-> d + 1] \in Measurement
    BY <2>1 DEF Measurement
  <2> QED
    BY <2>2
<1>8. measured' = Append(measured, q)
  BY <1>3, <1>6, <1>7 DEF Measurements
<1>9. PICK c \in Nat : c = Len(measured)
  BY LenProperties DEF Measures
<1>10. /\ measured' \in Seq(Measurement) /\ Len(measured') = c + 1
       /\ \A m \in 1 .. c : measured'[m] = measured[m]
       /\ measured'[c + 1] = q
  BY <1>8, <1>9, Appended DEF Measures
<1>11. \A m \in 1 .. c : measured[m].response <= d /\ measured[m].response \in Nat
  <2>1. \A m \in 1 .. c : measured[m] \in Measurement
    BY <1>9, ElementOfSeq DEF Measures
  <2>2. \A m \in 1 .. c : measured[m].response \in Nat
    BY <2>1, <1>4 DEF Measurement
  <2> QED
    BY <2>2, <1>2, <1>9 DEF Measures
<1>12. Len(delivered') = d + 1 =>
         \A m \in 1 .. Len(measured') : measured'[m].response <= Len(delivered')
  <2> SUFFICES ASSUME Len(delivered') = d + 1, NEW m \in 1 .. c + 1
               PROVE  measured'[m].response <= d + 1
    BY <1>10
  <2>1. CASE m \in 1 .. c
    BY <2>1, <1>10, <1>11
  <2>2. CASE m = c + 1
    BY <2>2, <1>7, <1>10
  <2> QED
    BY <2>1, <2>2
<1>13. FromItsRequest'
  <2>1. ASSUME NEW m \in 1 .. c + 1
        PROVE  /\ measured'[m].since = measured'[m].response
               /\ \A l \in 1 .. m - 1 : measured'[l].response < measured'[m].response
    <3>1. CASE m \in 1 .. c
      BY <3>1, <1>9, <1>10 DEF Measures, FromItsRequest
    <3>2. CASE m = c + 1
      <4>1. \A l \in 1 .. c : measured'[l].response < d + 1
        BY <1>10, <1>11
      <4>2. m - 1 = c
        BY <3>2
      <4> QED
        BY <3>2, <4>1, <4>2, <1>7, <1>10
    <3> QED
      BY <3>1, <3>2
  <2>2. ASSUME NEW i \in 1 .. d
        PROVE  kind[i] = "chunk" <=>
                 \E m \in 1 .. c + 1 : measured'[m].response = i /\ i <= Len(delivered')
    <3>1. Len(delivered') = d \/ Len(delivered') = d + 1
      BY <1>2
    <3>2. i <= Len(delivered') /\ i <= d /\ i # d + 1
      BY <3>1
    <3>3. kind[i] = "chunk" <=> \E m \in 1 .. c : measured[m].response = i
      BY <3>2, <1>2, <1>9 DEF Measures, FromItsRequest
    <3>4. (\E m \in 1 .. c + 1 : measured'[m].response = i)
            <=> \E m \in 1 .. c : measured[m].response = i
      <4>1. ASSUME NEW m \in 1 .. c + 1, measured'[m].response = i
            PROVE  m \in 1 .. c /\ measured[m].response = i
        <5>1. m # c + 1
          BY <3>2, <4>1, <1>7, <1>10
        <5>2. m \in 1 .. c
          BY <5>1
        <5> QED
          BY <4>1, <5>2, <1>10
      <4>2. ASSUME NEW m \in 1 .. c, measured[m].response = i
            PROVE  m \in 1 .. c + 1 /\ measured'[m].response = i
        BY <4>2, <1>10
      <4> QED
        BY <4>1, <4>2
    <3> QED
      BY <3>2, <3>3, <3>4
  <2>3. ASSUME Len(delivered') = d + 1
        PROVE  kind[d + 1] = "chunk" <=>
                 \E m \in 1 .. c + 1 : measured'[m].response = d + 1 /\ d + 1 <= Len(delivered')
    <3>1. c + 1 \in 1 .. c + 1
      OBVIOUS
    <3> QED
      BY <2>3, <3>1, <1>6, <1>7, <1>10
  <2>4. \A i \in 1 .. Len(delivered') : i \in 1 .. d \/ (i = d + 1 /\ Len(delivered') = d + 1)
    BY <1>2
  <2>5. \A i \in 1 .. Len(delivered') : kind'[i] = "chunk" <=>
          \E m \in 1 .. c + 1 : measured'[m].response = i /\ i <= Len(delivered')
    BY <2>2, <2>3, <2>4
  <2> QED
    BY <2>1, <2>5, <1>10 DEF FromItsRequest
<1> QED
  BY <1>2, <1>6, <1>10, <1>12, <1>13

\* Every step preserves it.
LEMMA MeasuresStep ==
  ASSUME IInv, Clean, Measures, ChunksAwaited, [Next]_vars
  PROVE  Measures'
<1>1. Shape /\ Order /\ StateOf
  BY DEF IInv
<1>2. Len(delivered) \in Nat
  BY <1>1, Counts
<1>3. CASE UNCHANGED vars
  <2>1. IInv' /\ Sent' = Sent
    BY <1>3, Stuttering DEF StreamKept
  <2>2. UNCHANGED <<pc, measured, delivered, state, t_s, kind>>
    BY <1>3 DEF vars, conn
  <2> QED
    BY <1>2, <2>1, <2>2, SameMeasures DEF Measures
<1>4. CASE Step /\ UNCHANGED traffic
  <2>1. ASSUME NEW n \in 1 .. Cap, HandlerBrowser(n) PROVE Measures'
    <3>1. /\ Handled /\ UNCHANGED <<kind, delivered, measured>> /\ pc = "select"
      BY <1>4, <2>1, HandlerBrowserStep DEF HandlerBrowser
    <3>2. state' = "chunk" => t_s' = Sent'
      <4>1. CASE UNCHANGED <<state, t_s>> /\ Sent' = Sent
        BY <4>1 DEF Measures
      <4>2. CASE Sent' = Sent + 1 /\ state' = kind[Sent + 1] /\ StartTimer(Sent + 1)
        BY <4>2 DEF StartTimer
      <4> QED
        BY <3>1, <4>1, <4>2 DEF Handled, StreamKept
    <3>3. pc' # "closed" => pc # "closed"
      BY <3>1
    <3> QED
      BY <1>2, <3>1, <3>2, <3>3, SameMeasures
  <2>2. ASSUME NEW n \in 1 .. Cap, HandlerServer(n) PROVE Measures'
    <3>1. Sent' = Sent
      BY <1>4, <2>2, HandlerServerStep DEF StreamKept
    <3>2. UNCHANGED <<state, t_s, measured, delivered, kind>> /\ pc = "select"
      BY <2>2 DEF HandlerServer
    <3> QED
      BY <1>2, <3>1, <3>2, SameMeasures DEF Measures
  <2>3. CASE BrowserFull \/ ServerFull \/ HangUp
    <3>1. Sent' = Sent
      BY <1>4, <2>3, ClosingStep DEF StreamKept
    <3>2. UNCHANGED <<state, t_s, measured, delivered, kind>> /\ pc' = "closed"
      BY <2>3 DEF BrowserFull, ServerFull, HangUp, Close, conn
    <3> QED
      BY <1>2, <3>1, <3>2, SameMeasures DEF Measures
  <2>4. CASE TakeBody
    <3>1. Sent' = Sent
      BY <1>4, <2>4, TakeBodyStep DEF StreamKept
    <3>2. UNCHANGED <<state, t_s, measured, delivered, kind>> /\ pc = "body"
      BY <2>4 DEF TakeBody
    <3> QED
      BY <1>2, <3>1, <3>2, SameMeasures DEF Measures
  <2>5. CASE ParseHead
    <3>1. Sent' = Sent
      BY <1>4, <2>5, ParseHeadStep DEF StreamKept
    <3>2. UNCHANGED <<state, t_s, measured, delivered, kind>> /\ pc = "parse"
      BY <2>5, Zenon DEF ParseHead
    <3> QED
      BY <1>2, <3>1, <3>2, SameMeasures DEF Measures
  <2>6. ASSUME NEW length \in traffic.lengths, ServerAnswers(length) PROVE Measures'
    <3>1. Sent' = Sent
      BY <1>4, <2>6, ServerAnswersStep
    <3>2. UNCHANGED <<state, t_s, measured, delivered, kind, pc>>
      BY <2>6 DEF ServerAnswers, conn
    <3> QED
      BY <1>2, <3>1, <3>2, SameMeasures DEF Measures
  <2>7. CASE OtherConnLearns
    <3>1. Sent' = Sent
      BY <1>4, <2>7, LearnsStep DEF StreamKept
    <3>2. UNCHANGED <<state, t_s, measured, delivered, kind, pc>>
      BY <2>7 DEF OtherConnLearns
    <3> QED
      BY <1>2, <3>1, <3>2, SameMeasures DEF Measures
  <2>8. CASE Done
    BY <1>3, <2>8 DEF Done
  <2>9. ASSUME NEW k \in traffic.kinds, BrowserSends(k) PROVE Measures'
    <3>1. Sent' = Sent /\ \A i \in 1 .. Len(kind) : kind'[i] = kind[i]
      BY <1>4, <2>9, BrowserSendsStep DEF StreamKept
    <3>2. UNCHANGED <<state, t_s, measured, delivered, pc>>
      BY <2>9 DEF BrowserSends, conn
    <3>3. \A i \in 1 .. Len(delivered) : kind'[i] = kind[i]
      BY <1>1, <3>1, Counts
    <3> QED
      BY <1>2, <3>1, <3>2, <3>3, SameMeasures DEF Measures
  <2>10. CASE SendFails
    <3>1. /\ pc = "dispatch" /\ Complete /\ pc' = "closed"
          /\ UNCHANGED <<conn, kind, delivered>>
          /\ \/ state = "chunk" /\ measured' = Measurements
             \/ measured' = measured
      BY <2>10 DEF SendFails
    <3>2. Sent' = Sent /\ UNCHANGED <<state, t_s>>
      BY <1>4, <2>10, <3>1, ClosingStep DEF StreamKept, conn
    <3>3. CASE measured' = measured
      BY <1>2, <3>1, <3>2, <3>3, SameMeasures DEF Measures
    <3>4. CASE state = "chunk" /\ measured' = Measurements
      <4>1. measured' \in Seq(Measurement) /\ t_s = Sent /\ FromItsRequest'
        BY <3>1, <3>4, Measuring
      <4> QED
        BY <3>1, <3>2, <4>1 DEF Measures
    <3> QED
      BY <3>1, <3>3, <3>4
  <2>11. CASE Dispatch
    <3>1. /\ pc = "dispatch" /\ pc' \in {"select", "parse"} /\ UNCHANGED <<t_s, kind>>
          /\ \/ Complete /\ (Relay \/ LearnBitrates \/ MeasureChunk)
             \/ ~Complete /\ UNCHANGED <<server, state, to_server, delivered, measured>>
          /\ UNCHANGED <<browser, to_proxy, from_server>>
      BY <2>11 DEF Dispatch
    <3>2. CASE ~Complete /\ UNCHANGED <<server, state, to_server, delivered, measured>>
      <4>1. Pending' = Pending
        BY <3>1, <3>2, SamePending
      <4>2. Sent' = Sent
        BY <3>2, <4>1 DEF Sent, LastAnswered
      <4> QED
        BY <1>2, <3>1, <3>2, <4>2, SameMeasures DEF Measures
    <3>3. CASE Complete /\ LearnBitrates
      <4>1. state' = "f4m_nolist" /\ measured' = measured /\ delivered' = delivered
        BY <3>3 DEF LearnBitrates, RelayManifest
      <4> QED
        BY <1>2, <3>1, <4>1, SameMeasures
    <3>4. PICK d \in Nat : d = Len(delivered)
      BY <1>2
    <3>5. ASSUME Complete, delivered' = Append(delivered, Message)
          PROVE  Len(delivered') = d + 1 /\ \A i \in 1 .. d : delivered'[i] = delivered[i]
      <4>1. delivered \in Seq(Seq(ResponseUnits)) /\ Message \in Seq(ResponseUnits)
        BY <1>1, <3>5, Completed DEF Shape
      <4> QED
        BY <3>4, <3>5, <4>1, Appended
    <3>6. CASE Complete /\ Relay
      <4>1. /\ state \in {"html", "f4m_nolist"} /\ delivered' = Append(delivered, Message)
            /\ UNCHANGED <<state, measured>>
        BY <3>6 DEF Relay
      <4>2. Len(delivered') = d + 1
        BY <3>5, <3>6, <4>1
      <4>3. d + 1 \in 1 .. Len(kind) /\ Sent \in 1 .. Len(kind)
            /\ (traffic.pipeline = 1 => Sent = d + 1)
        BY <3>4, <3>6, NextAnswer
      <4>4. kind[d + 1] # "chunk"
        <5> SUFFICES ASSUME kind[d + 1] = "chunk" PROVE FALSE
          OBVIOUS
        <5>1. Sent = d + 1
          BY <1>1, <4>3, ChunkAlone
        <5> QED
          BY <1>1, <4>1, <4>3, <5>1 DEF StateOf
      <4>5. \A m \in 1 .. Len(measured) : measured[m].response <= d
        BY <3>1, <3>4 DEF Measures
      <4>6. \A m \in 1 .. Len(measured) : measured[m].response \in Nat
        <5>1. Requests \in Nat /\ \A m \in 1 .. Len(measured) : measured[m] \in Measurement
          BY StreamAssumption, ElementOfSeq DEF Measures, StreamAssumption
        <5> QED
          BY <5>1 DEF Measurement
      <4>7. FromItsRequest'
        <5>1. ASSUME NEW i \in 1 .. d + 1
              PROVE  kind[i] = "chunk" <=>
                       \E m \in 1 .. Len(measured) : measured[m].response = i /\ i <= d + 1
          <6>1. CASE i <= d
            <7>1. i \in 1 .. d /\ i <= d + 1
              BY <6>1
            <7> QED
              BY <6>1, <7>1, <3>4 DEF Measures, FromItsRequest
          <6>2. CASE i = d + 1
            <7>1. \A m \in 1 .. Len(measured) : measured[m].response # d + 1
              BY <4>5, <4>6
            <7> QED
              BY <6>2, <7>1, <4>4
          <6>3. i <= d \/ i = d + 1
            OBVIOUS
          <6> QED
            BY <6>1, <6>2, <6>3
        <5>2. UNCHANGED <<measured, kind>>
          BY <3>1, <4>1
        <5> QED
          BY <4>2, <5>1, <5>2 DEF Measures, FromItsRequest
      <4>8. \A m \in 1 .. Len(measured') : measured'[m].response <= Len(delivered')
        BY <4>1, <4>2, <4>5, <4>6
      <4> QED
        BY <4>1, <4>7, <4>8 DEF Measures
    <3>7. CASE Complete /\ MeasureChunk
      <4>1. /\ state = "chunk" /\ measured' = Measurements /\ UNCHANGED state
            /\ delivered' = Append(delivered, Message)
        BY <3>7 DEF MeasureChunk
      <4>2. Len(delivered') = Len(delivered) + 1
        BY <3>4, <3>5, <3>7, <4>1
      <4>3. /\ measured' \in Seq(Measurement) /\ t_s = Sent /\ FromItsRequest'
            /\ \A m \in 1 .. Len(measured') : measured'[m].response <= Len(delivered')
        <5>1. pc # "closed" /\ pc' # "closed"
          BY <3>1
        <5> QED
          BY <3>1, <3>7, <4>1, <4>2, <5>1, Measuring
      <4>4. Sent' = Sent
        BY <1>4, <2>11, DispatchStep
      <4> QED
        BY <3>1, <4>1, <4>3, <4>4 DEF Measures
    <3> QED
      BY <3>1, <3>2, <3>3, <3>6, <3>7
  <2> QED
    BY <1>4, <2>1, <2>2, <2>3, <2>4, <2>5, <2>6, <2>7, <2>8, <2>9, <2>10, <2>11
    DEF Step, Proxy, Answers
<1> QED
  BY <1>3, <1>4 DEF Next

-----------------------------------------------------------------------------
(* What is defined: the buffer                                             *)

\* Segments end inside heads only where nothing is pipelined.
HeadsWhole == traffic.splits => traffic.pipeline = 1

\* The invariant about handler_server's buffer between the steps of its loop:
\* what is in it at the next parse, and that it ends in no split head.
Offsets ==
  /\ pc = "select" /\ server.request.status # "needmore" => server.offset = 0
  /\ server.offset <= recvlen \/ server.request.status = "needmore"
  /\ traffic.pipeline = 1 /\ server.request.status = "null" =>
       (pc \in {"body", "dispatch", "parse"} => server.offset = recvlen)
  /\ traffic.splits = FALSE /\ server.offset > 0 => server.buf[server.offset].part # 1
  /\ pc # "undefined"

\* A step that leaves the server's side alone preserves it.
LEMMA SameOffsets ==
  ASSUME Offsets, UNCHANGED <<traffic, recvlen>>, RequestKept,
         pc' = pc \/ pc' \in {"closed", "crashed"}
  PROVE  Offsets'
BY DEF Offsets, RequestKept

\* The parse, which is given the length of the last segment, finds no blank
\* line behind what is left in the buffer.
LEMMA HeadInBuffer ==
  ASSUME IInv, Offsets, HeadsWhole, pc = "parse"
  PROVE  Position(server.buf, ParseSize) <= server.offset
<1>1. Shape /\ Order /\ Progress
  BY DEF IInv
<1>2. /\ server.request.status = "null" /\ server.offset > 0 /\ recvlen \in Nat
      /\ server.offset \in Nat /\ server.offset <= recvlen
  BY <1>1, StreamAssumption DEF Progress, Offsets, Shape, Servers, StreamAssumption
<1>3. PICK pos \in Nat : /\ pos = Position(server.buf, ParseSize) /\ pos <= recvlen
                         /\ pos # 0 => \A i \in 1 .. recvlen :
                              server.buf[i].part = HeadEnd => pos <= i
  BY <1>2, PositionIs DEF ParseSize
<1>4. CASE traffic.pipeline = 1
  BY <1>2, <1>3, <1>4 DEF Offsets
<1>5. CASE traffic.splits = FALSE
  <2>1. PICK B \in Seq(ResponseUnits), P \in Seq(ResponseUnits) :
          /\ B = Prefix(server.buf, server.offset) /\ Len(B) = server.offset
          /\ P = Pending /\ P = B \o from_server
    <3>1. PICK B \in Seq(ResponseUnits) :
            B = Prefix(server.buf, server.offset) /\ Len(B) = server.offset
      BY <1>1, PendingType DEF Shape
    <3>2. Pending = (<<>> \o B) \o from_server
      BY <1>1, <1>2, <3>1, PendingType DEF Shape, Taken
    <3>3. Pending = B \o from_server
      BY <3>2, Neutral
    <3> QED
      BY <3>1, <3>3, <1>1, PendingType DEF Shape
  <2>2. /\ Len(P) = Len(B) + Len(from_server) /\ Len(from_server) \in Nat
        /\ \A i \in 1 .. Len(B) : P[i] = B[i]
    BY <1>1, <2>1, Concat DEF Shape
  <2>3. \A i \in 1 .. server.offset : B[i] = server.buf[i]
    BY <2>1 DEF Prefix
  <2>4. PICK o \in Nat : o = server.offset /\ o > 0
    BY <1>2
  <2>5. 1 \in 1 .. Len(P) /\ Blocks(P)
    BY <1>1, <2>1, <2>2, <2>4 DEF Order
  <2>6. P[1].part = 1 /\ Size(P[1]) \in Nat /\ Size(P[1]) >= 2
    <3>1. /\ P[1] \in ResponseUnits /\ 1 <= P[1].part /\ P[1].part <= 1 /\ P[1].part \in Nat
      BY <2>5, BlockRange
    <3> QED
      BY <3>1, UnitFacts
  <2>7. o # 1
    BY <1>5, <2>1, <2>2, <2>3, <2>4, <2>6 DEF Offsets
  <2>8. P[2] = Part(P[1], 2)
    <3>1. 2 - 1 + P[1].part = 2
      BY <2>6
    <3> QED
      BY <3>1, <2>5, <2>6, BlockCopy
  <2>9. server.buf[2].part = HeadEnd
    <3>1. 2 \in 1 .. o
      BY <2>4, <2>7
    <3>2. server.buf[2] = P[2]
      BY <3>1, <2>1, <2>2, <2>3, <2>4
    <3> QED
      BY <3>2, <2>8 DEF Part, HeadEnd
  <2>10. pos # 0 => pos <= 2
    BY <1>2, <1>3, <2>4, <2>7, <2>9
  <2> QED
    BY <1>3, <2>4, <2>7, <2>10
<1>6. traffic.splits \in BOOLEAN /\ (traffic.splits => traffic.pipeline = 1)
  BY <1>1, TrafficIs DEF HeadsWhole
<1> QED
  BY <1>4, <1>5, <1>6

\* Every step preserves it.
LEMMA OffsetsStep ==
  ASSUME IInv, Clean, Offsets, HeadsWhole, [Next]_vars
  PROVE  Offsets'
<1>1. Shape /\ Order /\ Progress
  BY DEF IInv
<1>2. server \in Servers /\ server.offset \in Nat /\ server.to_send_length \in Nat
      /\ recvlen \in Nat
  BY <1>1, StreamAssumption DEF Shape, Servers, StreamAssumption
<1>3. CASE UNCHANGED vars
  BY <1>3 DEF vars, conn, Offsets
<1>4. CASE Step /\ UNCHANGED traffic
  <2>1. ASSUME NEW n \in 1 .. Cap, HandlerBrowser(n) PROVE Offsets'
    <3>1. Handled /\ recvlen' = recvlen
      BY <1>4, <2>1, HandlerBrowserStep
    <3>2. RequestKept /\ (pc' = pc \/ pc' = "crashed")
      BY <3>1 DEF Handled, RequestKept
    <3> QED
      BY <1>4, <3>1, <3>2, SameOffsets
  <2>2. ASSUME NEW n \in 1 .. Cap, HandlerServer(n) PROVE Offsets'
    <3>1. /\ server'.offset = server.offset + n /\ server'.request = server.request
          /\ server'.buf[server'.offset] = from_server[n] /\ n \in Nat /\ n > 0
      BY <1>4, <2>2, HandlerServerStep
    <3>2. /\ pc = "select" /\ recvlen' = n /\ (traffic.splits = FALSE => from_server[n].part # 1)
          /\ pc' = IF Continues(server') THEN "body" ELSE "select"
      BY <2>2 DEF HandlerServer, Segments
    <3>3. server'.offset > 0
      BY <1>2, <3>1
    <3>4. Continues(server') <=> server.request.status # "needmore"
      BY <3>1, <3>3 DEF Continues
    <3>5. server.request.status # "needmore" => server'.offset = n
      BY <1>2, <3>1, <3>2 DEF Offsets
    <3> QED
      BY <1>4, <3>1, <3>2, <3>4, <3>5 DEF Offsets
  <2>3. CASE BrowserFull \/ ServerFull \/ SendFails \/ HangUp
    BY <1>4, <2>3, SameOffsets
    DEF BrowserFull, ServerFull, SendFails, HangUp, Close, conn, RequestKept
  <2>4. CASE TakeBody
    <3>1. /\ server'.request = server.request /\ server'.offset <= server.offset
          /\ server.to_send_length = 0 => server'.offset = server.offset
          /\ server'.offset > 0 => server'.buf[server'.offset] = server.buf[server.offset]
          /\ IInv'
      BY <1>4, <2>4, TakeBodyStep
    <3>2. pc = "body" /\ pc' = "dispatch" /\ recvlen' = recvlen
      BY <2>4 DEF TakeBody
    <3>3. server'.offset \in Nat
      BY <3>1, StreamAssumption DEF IInv, Shape, Servers, StreamAssumption
    <3>4. server.request.status = "null" => server'.offset = server.offset
      BY <1>1, <3>1 DEF Progress
    <3>5. server'.offset <= recvlen \/ server.request.status = "needmore"
      BY <1>2, <3>1, <3>3 DEF Offsets
    <3>6. server'.offset > 0 => server.offset > 0
      BY <1>2, <3>1, <3>3
    <3> QED
      BY <1>4, <3>1, <3>2, <3>4, <3>5, <3>6 DEF Offsets
  <2>5. CASE Dispatch
    <3>1. /\ pc = "dispatch" /\ pc' = (IF server.offset <= 0 THEN "select" ELSE "parse")
          /\ recvlen' = recvlen /\ from_server' = from_server
          /\ \/ Complete /\ server' = Freed(server)
             \/ server' = server /\ ~Complete
      BY <2>5 DEF Dispatch, Relay, LearnBitrates, MeasureChunk
    <3>2. pc' = "select" => server.offset = 0
      BY <1>2, <3>1
    <3>3. server.offset <= recvlen
      BY <1>1, <3>1 DEF Offsets, Progress
    <3>4. CASE server' = server
      BY <1>4, <3>1, <3>2, <3>4 DEF Offsets
    <3>5. CASE Complete /\ server' = Freed(server)
      <4>1. /\ server'.offset = server.offset /\ server'.buf = server.buf
            /\ server'.request.status = "null"
        BY <1>1, <3>1, <3>5, Freeing
      <4>2. traffic.pipeline = 1 => pc' = "select"
        BY <3>1, <3>5, NothingFollows
      <4> QED
        BY <1>4, <3>1, <3>2, <3>3, <4>1, <4>2 DEF Offsets
    <3> QED
      BY <3>1, <3>4, <3>5
  <2>6. CASE ParseHead
    <3>1. HeadTaken /\ IInv' /\ pc = "parse" /\ recvlen' = recvlen
      BY <1>4, <2>6, ParseHeadStep DEF ParseHead
    <3>2. Position(server.buf, ParseSize) <= server.offset
      BY <3>1, HeadInBuffer
    <3>3. server'.offset \in Nat
      BY <3>1, StreamAssumption DEF IInv, Shape, Servers, StreamAssumption
    <3>4. server.offset <= recvlen
      BY <1>1, <3>1 DEF Offsets, Progress
    <3>5. PICK p \in Nat : p = Position(server.buf, ParseSize)
      BY <1>2, PositionIs DEF ParseSize
    <3>6. CASE /\ pc' = "select" /\ server'.request.status = "needmore"
               /\ server'.offset = server.offset /\ server'.buf = server.buf
      BY <1>4, <3>1, <3>6 DEF Offsets
    <3>7. CASE /\ pc' \in {"body", "select"} /\ (pc' = "select" => ~(server'.offset > 0))
               /\ server'.request.status = "success" /\ server'.offset <= server.offset
               /\ server'.offset > 0 => server'.buf[server'.offset] = server.buf[server.offset]
      <4>1. server'.offset <= recvlen /\ (server'.offset > 0 => server.offset > 0)
            /\ (pc' = "select" => server'.offset = 0)
        BY <1>2, <3>3, <3>4, <3>7
      <4> QED
        BY <1>4, <3>1, <3>7, <4>1 DEF Offsets
    <3>8. ~(Position(server.buf, ParseSize) > server.offset)
      BY <1>2, <3>2, <3>5
    <3> QED
      BY <3>1, <3>6, <3>7, <3>8 DEF HeadTaken
  <2>7. ASSUME NEW length \in traffic.lengths, ServerAnswers(length) PROVE Offsets'
    BY <1>4, <2>7, SameOffsets DEF ServerAnswers, conn, RequestKept
  <2>8. CASE OtherConnLearns
    BY <1>4, <2>8, SameOffsets DEF OtherConnLearns, RequestKept
  <2>9. CASE Done
    BY <1>3, <2>9 DEF Done
  <2>10. ASSUME NEW k \in traffic.kinds, BrowserSends(k) PROVE Offsets'
    BY <1>4, <2>10, SameOffsets DEF BrowserSends, conn, RequestKept
  <2> QED
    BY <1>4, <2>1, <2>2, <2>3, <2>4, <2>5, <2>6, <2>7, <2>8, <2>9, <2>10
    DEF Step, Proxy, Answers
<1> QED
  BY <1>3, <1>4 DEF Next

-----------------------------------------------------------------------------
(* What is defined: the bitrate lists                                      *)

\* A chunk is asked for after a manifest, and every manifest lists bitrates.
ManifestsFirst == traffic.first /\ traffic.listed

\* The invariant about the bitrate lists: a manifest the browser has got was
\* read before, so that there is a list when a chunk is asked for.
Lists ==
  /\ state = "f4m" => \A i \in 1 .. Len(Pending) : Pending[i].listed
  /\ state = "f4m_nolist" => default_list
  /\ \A i \in 1 .. Len(delivered) : kind[i] = "f4m" => default_list
  /\ \A i \in 1 .. Len(kind) :
       kind[i] = "chunk" => \E m \in 1 .. Len(delivered) : kind[m] = "f4m"
  /\ pc # "crashed"

\* A step that delivers nothing preserves it.
LEMMA SameLists ==
  ASSUME Lists, UNCHANGED <<delivered, kind>>, pc' # "crashed",
         default_list => default_list',
         state' = "f4m" => \A i \in 1 .. Len(Pending') : Pending'[i].listed,
         state' = "f4m_nolist" => default_list'
  PROVE  Lists'
BY DEF Lists

\* Every step preserves it.
LEMMA ListsStep ==
  ASSUME IInv, Clean, Lists, ManifestsFirst, [Next]_vars
  PROVE  Lists'
<1>1. Shape /\ Order /\ StateOf /\ Progress
  BY DEF IInv
<1>2. PICK d \in Nat, c \in Nat : d = Len(delivered) /\ c = Len(kind) /\ d <= c
  BY <1>1, Counts
<1>3. CASE UNCHANGED vars
  <2>1. StreamKept /\ UNCHANGED <<delivered, kind, pc, default_list, state>>
    BY <1>3, Stuttering DEF vars, conn
  <2> QED
    BY <2>1, SameLists DEF StreamKept, Lists
<1>4. CASE Step /\ UNCHANGED traffic
  <2>1. ASSUME NEW n \in 1 .. Cap, HandlerBrowser(n) PROVE Lists'
    <3>1. Handled /\ UNCHANGED <<default_list, kind, delivered>> /\ pc = "select"
      BY <1>4, <2>1, HandlerBrowserStep DEF HandlerBrowser
    <3>2. CASE pc' = pc /\ StreamKept /\ UNCHANGED <<server, state, bitrate_list, t_s>>
      BY <3>1, <3>2, SameLists DEF StreamKept, Lists
    <3>3. CASE NoBitrates /\ Sent + 1 \in 1 .. Len(kind) /\ kind[Sent + 1] = "chunk"
      BY <3>3 DEF NoBitrates, Lists
    <3>4. CASE /\ pc' = pc /\ Pending' = Pending /\ Sent + 1 \in 1 .. Len(kind)
               /\ state' = kind[Sent + 1]
      <4>1. state' \in AllKinds /\ state' \in traffic.kinds
        BY <1>1, <3>4, ElementOfSeq DEF Shape, Order
      <4>2. state' # "f4m_nolist"
        BY <4>1 DEF AllKinds
      <4>3. state' = "f4m" => Pending = <<>>
        <5>1. Sent < Len(kind)
          BY <1>1, <1>2, <3>4, Counts
        <5> QED
          BY <1>1, <4>1, <5>1, TrafficIs, Alone
      <4>4. state' = "f4m" => \A i \in 1 .. Len(Pending') : Pending'[i].listed
        BY <3>4, <4>3
      <4> QED
        BY <3>1, <3>4, <4>2, <4>4, SameLists
    <3> QED
      BY <3>1, <3>2, <3>3, <3>4 DEF Handled
  <2>2. ASSUME NEW n \in 1 .. Cap, HandlerServer(n) PROVE Lists'
    <3>1. StreamKept
      BY <1>4, <2>2, HandlerServerStep
    <3>2. UNCHANGED <<default_list, kind, delivered, state>> /\ pc' # "crashed"
      BY <2>2 DEF HandlerServer
    <3> QED
      BY <3>1, <3>2, SameLists DEF StreamKept, Lists
  <2>3. CASE BrowserFull \/ ServerFull \/ SendFails \/ HangUp
    <3>1. StreamKept
      BY <1>4, <2>3, ClosingStep
    <3>2. UNCHANGED <<default_list, kind, delivered, state>> /\ pc' # "crashed"
      BY <2>3 DEF BrowserFull, ServerFull, SendFails, HangUp, Close, conn
    <3> QED
      BY <3>1, <3>2, SameLists DEF StreamKept, Lists
  <2>4. CASE TakeBody
    <3>1. StreamKept
      BY <1>4, <2>4, TakeBodyStep
    <3>2. UNCHANGED <<default_list, kind, delivered, state>> /\ pc' # "crashed"
      BY <2>4 DEF TakeBody
    <3> QED
      BY <3>1, <3>2, SameLists DEF StreamKept, Lists
  <2>5. CASE ParseHead
    <3>1. StreamKept /\ pc' # "crashed"
      BY <1>4, <2>5, ParseHeadStep DEF HeadTaken
    <3>2. UNCHANGED <<default_list, kind, delivered, state>>
      BY <2>5, Zenon DEF ParseHead
    <3> QED
      BY <3>1, <3>2, SameLists DEF StreamKept, Lists
  <2>6. CASE Dispatch
    <3>1. /\ pc' # "crashed" /\ UNCHANGED <<t_s, kind, from_server>>
          /\ \/ Complete /\ (Relay \/ MeasureChunk)
             \/ Complete /\ LearnBitrates
             \/ ~Complete /\ UNCHANGED <<server, state, default_list, delivered>>
      BY <2>6 DEF Dispatch
    <3>2. CASE ~Complete /\ UNCHANGED <<server, state, default_list, delivered>>
      <4>1. Pending' = Pending
        BY <3>1, <3>2, SamePending
      <4> QED
        BY <3>1, <3>2, <4>1, SameLists DEF Lists
    <3>3. CASE Complete /\ LearnBitrates
      <4>1. /\ state = "f4m" /\ state' = "f4m_nolist" /\ delivered' = delivered
            /\ default_list' = (default_list \/ server.request.listed)
        BY <3>3 DEF LearnBitrates, KeepBitrates, RelayManifest
      <4>2. server.request.listed
        <5>1. server.request.listed = Pending[1].listed
          BY <1>1, <3>3 DEF Progress, Complete
        <5>2. 1 \in 1 .. Len(Pending)
          <6>1. Pending # <<>>
            BY <3>3, Completed
          <6> QED
            BY <6>1, <1>1, Counts
        <5> QED
          BY <5>1, <5>2, <4>1 DEF Lists
      <4> QED
        BY <3>1, <4>1, <4>2, SameLists
    <3>4. CASE Complete /\ (Relay \/ MeasureChunk)
      <4>1. /\ state # "f4m" /\ UNCHANGED <<state, default_list>>
            /\ delivered' = Append(delivered, Message)
        BY <3>4 DEF Relay, MeasureChunk
      <4>2. Len(delivered') = d + 1
        <5>1. delivered \in Seq(Seq(ResponseUnits)) /\ Message \in Seq(ResponseUnits)
          BY <1>1, <3>4, Completed DEF Shape
        <5> QED
          BY <1>2, <4>1, <5>1, Appended
      <4>3. d + 1 \in 1 .. Len(kind) /\ Sent \in 1 .. Len(kind)
            /\ (traffic.pipeline = 1 => Sent = d + 1)
        BY <1>2, <3>4, NextAnswer
      <4>4. kind[d + 1] = "f4m" => default_list
        <5> SUFFICES ASSUME kind[d + 1] = "f4m" PROVE default_list
          OBVIOUS
        <5>1. "f4m" \in traffic.kinds
          BY <1>1, <4>3 DEF Order
        <5>2. Sent = d + 1
          BY <1>1, <4>3, <5>1, TrafficIs
        <5>3. state = "f4m_nolist"
          BY <1>1, <4>1, <4>3, <5>2 DEF StateOf
        <5> QED
          BY <5>3 DEF Lists
      <4>5. ASSUME NEW i \in 1 .. d + 1, kind[i] = "f4m" PROVE default_list
        <5>1. CASE i \in 1 .. d
          BY <4>5, <5>1, <1>2 DEF Lists
        <5>2. CASE i = d + 1
          BY <4>4, <4>5, <5>2
        <5> QED
          BY <5>1, <5>2
      <4>6. ASSUME NEW i \in 1 .. Len(kind), kind[i] = "chunk"
            PROVE  \E m \in 1 .. d + 1 : kind[m] = "f4m"
        <5>1. PICK m \in 1 .. d : kind[m] = "f4m"
          BY <4>6, <1>2 DEF Lists
        <5>2. m \in 1 .. d + 1
          OBVIOUS
        <5> QED
          BY <5>1, <5>2
      <4> QED
        BY <3>1, <4>1, <4>2, <4>5, <4>6 DEF Lists
    <3> QED
      BY <3>1, <3>2, <3>3, <3>4
  <2>7. ASSUME NEW length \in traffic.lengths, ServerAnswers(length) PROVE Lists'
    <3>1. state = "f4m" => \A i \in 1 .. Len(Pending') : Pending'[i].listed
      BY <1>4, <2>7, ServerAnswersStep DEF ManifestsFirst
    <3>2. UNCHANGED <<default_list, kind, delivered, state, pc>>
      BY <2>7 DEF ServerAnswers, conn
    <3> QED
      BY <3>1, <3>2, SameLists DEF Lists
  <2>8. CASE OtherConnLearns
    <3>1. StreamKept
      BY <1>4, <2>8, LearnsStep
    <3>2. UNCHANGED <<kind, delivered, state, pc>> /\ default_list' = TRUE
      BY <2>8 DEF OtherConnLearns
    <3> QED
      BY <3>1, <3>2, SameLists DEF StreamKept, Lists
  <2>9. CASE Done
    BY <1>3, <2>9 DEF Done
  <2>10. ASSUME NEW k \in traffic.kinds, BrowserSends(k) PROVE Lists'
    <3>1. /\ StreamKept /\ Len(kind') = c + 1 /\ kind'[c + 1] = k
          /\ \A i \in 1 .. c : kind'[i] = kind[i]
      BY <1>2, <1>4, <2>10, BrowserSendsStep
    <3>2. /\ UNCHANGED <<default_list, delivered, state, pc>>
          /\ k = "chunk" => \E m \in 1 .. c : kind[m] = "f4m" /\ m <= d
      BY <2>10, <1>2 DEF BrowserSends, conn, MaySend, ManifestsFirst
    <3>3. \A i \in 1 .. d : kind'[i] = kind[i]
      BY <1>2, <3>1
    <3>4. ASSUME NEW i \in 1 .. c + 1, kind'[i] = "chunk"
          PROVE  \E m \in 1 .. d : kind'[m] = "f4m"
      <4>1. \E m \in 1 .. d : kind[m] = "f4m"
        <5>1. CASE i \in 1 .. c
          BY <3>1, <3>4, <5>1, <1>2 DEF Lists
        <5>2. CASE i = c + 1
          BY <3>1, <3>2, <3>4, <5>2, <1>2
        <5> QED
          BY <5>1, <5>2
      <4> QED
        BY <3>3, <4>1
    <3>5. \A i \in 1 .. d : kind'[i] = "f4m" => default_list
      BY <1>2, <3>3 DEF Lists
    <3> QED
      BY <1>2, <3>1, <3>2, <3>4, <3>5 DEF StreamKept, Lists
  <2> QED
    BY <1>4, <2>1, <2>2, <2>3, <2>4, <2>5, <2>6, <2>7, <2>8, <2>9, <2>10
    DEF Step, Proxy, Answers
<1> QED
  BY <1>3, <1>4 DEF Next

-----------------------------------------------------------------------------
(* The theorems that assume something of the traffic                       *)

\* MeasuresItsChunk, where the player waits for a chunk before it asks again
\* (with chunks pipelined there is one t_s for all of them, and it is false):
\* a throughput is measured from the request for its own chunk, once for every
\* chunk delivered.
THEOREM MeasuresItsChunkHolds ==
  ASSUME ChunksAwaited PROVE Spec => []MeasuresItsChunk
<1>1. Init => Measures
  <2> SUFFICES ASSUME Init PROVE Measures
    OBVIOUS
  <2>1. /\ measured = <<>> /\ delivered = <<>> /\ state = "html"
        /\ Len(<<>>) = 0 /\ <<>> \in Seq(Measurement)
    BY EmptySeq DEF Init
  <2> QED
    BY <2>1 DEF Measures, FromItsRequest
<1>2. (Clean => IInv) /\ Kept /\ (Clean => Measures) /\ [Next]_vars => (Clean => Measures)'
  <2> SUFFICES ASSUME Clean => IInv, Kept, Clean => Measures, [Next]_vars, Clean'
               PROVE  Measures'
    OBVIOUS
  <2>1. Clean
    BY DisturbedStep DEF Kept
  <2> QED
    BY <2>1, MeasuresStep
<1>3. (Clean => Measures) => MeasuresItsChunk
  BY DEF Measures, MeasuresItsChunk, Clean
<1> QED
  BY <1>1, <1>2, <1>3, StreamInvariant, KeptAlways, PTL DEF Spec

\* Defined: the offsets stay within the buffers, no more of a body is assembled
\* than was announced, before its beginning an offset gets only where heads are
\* split and requests pipelined (the parse of proxy2.c:464 may then find a blank
\* line memmove left behind), and select_bitrate has a list to choose from if
\* the player reads a manifest with bitrates before it asks for chunks.
THEOREM DefinedHolds == Spec => [](Clean => Defined)
<1>1. Init => Offsets /\ Lists
  <2> SUFFICES ASSUME Init PROVE Offsets /\ Lists
    OBVIOUS
  <2>1. /\ delivered = <<>> /\ kind = <<>> /\ state = "html" /\ pc = "select" /\ recvlen = 0
        /\ server.offset = 0 /\ Len(<<>>) = 0
    BY EmptySeq DEF Init
  <2>2. Offsets
    BY <2>1 DEF Offsets
  <2>3. Lists
    BY <2>1 DEF Lists
  <2> QED
    BY <2>2, <2>3
<1> DEFINE Within == Clean => (HeadsWhole => Offsets) /\ (ManifestsFirst => Lists)
<1>2. (Clean => IInv) /\ Kept /\ Within /\ [Next]_vars => Within'
  <2> SUFFICES ASSUME Clean => IInv, Kept, Within, [Next]_vars, Clean'
               PROVE  (HeadsWhole => Offsets)' /\ (ManifestsFirst => Lists)'
    OBVIOUS
  <2>1. Clean /\ IInv /\ (HeadsWhole => Offsets) /\ (ManifestsFirst => Lists)
    BY DisturbedStep DEF Kept
  <2>2. HeadsWhole' = HeadsWhole /\ ManifestsFirst' = ManifestsFirst
    BY Grows DEF HeadsWhole, ManifestsFirst
  <2>3. HeadsWhole => Offsets'
    BY <2>1, OffsetsStep
  <2>4. ManifestsFirst => Lists'
    BY <2>1, ListsStep
  <2> QED
    BY <2>2, <2>3, <2>4
<1>3. (Clean => IInv) /\ Within => (Clean => Defined)
  <2> SUFFICES ASSUME IInv, HeadsWhole => Offsets, ManifestsFirst => Lists PROVE Defined
    OBVIOUS
  <2>1. Shape
    BY DEF IInv
  <2>2. server.offset \in 0 .. Cap /\ server.to_send_length \in Nat
        /\ server.buf \in [1 .. Cap -> ResponseCells]
    BY <2>1 DEF Shape, Servers
  <2>3. browser.offset \in 0 .. Cap /\ browser.buf \in [1 .. Cap -> RequestCells]
    BY <2>1 DEF Shape
  <2>4. \A i \in 1 .. Cap : /\ browser.buf[i] \in RequestUnits \cup {Zero}
                            /\ server.buf[i] \in ResponseUnits \cup {Zero}
    BY <2>2, <2>3 DEF RequestCells, ResponseCells
  <2>5. TypeOK
    BY <2>1, <2>2, <2>3, <2>4 DEF TypeOK, Shape
  <2>6. pc = "undefined" => traffic.splits /\ traffic.pipeline > 1
    <3>1. traffic.splits \in BOOLEAN /\ traffic.pipeline \in Nat /\ traffic.pipeline >= 1
      BY <2>1, TrafficIs
    <3> QED
      BY <3>1 DEF HeadsWhole, Offsets
  <2>7. pc = "crashed" => ~traffic.first \/ ~traffic.listed
    BY DEF ManifestsFirst, Lists
  <2> QED
    BY <2>5, <2>6, <2>7 DEF Defined
<1>4. Init => Within
  BY <1>1
<1> HIDE DEF Within
<1> QED
  BY <1>2, <1>3, <1>4, StreamInvariant, KeptAlways, PTL DEF Spec

-----------------------------------------------------------------------------
(* The passes of handler_server's loop.                                    *)

\* handler_server is in its loop, and no other handler runs.
InLoop == pc \in {"body", "dispatch", "parse"}

\* The steps the loop may still take: what is in the buffer bounds the passes,
\* for every pass but the last takes a head from it.
LoopLeft == 3 * server.offset + (CASE pc = "body" -> 2 [] pc = "dispatch" -> 1 [] OTHER -> 0)

LEMMA LoopLeftIs ==
  ASSUME server.offset \in 0 .. Cap
  PROVE  /\ pc = "body" => LoopLeft = 3 * server.offset + 2
         /\ pc = "dispatch" => LoopLeft = 3 * server.offset + 1
         /\ pc \notin {"body", "dispatch"} => LoopLeft = 3 * server.offset
         /\ LoopLeft \in 0 .. 3 * Cap + 2
<1>1. Cap \in Nat
  BY StreamAssumption DEF StreamAssumption
<1>2. CASE pc = "body"
  BY <1>1, <1>2 DEF LoopLeft
<1>3. CASE pc = "dispatch"
  BY <1>1, <1>3 DEF LoopLeft
<1>4. CASE pc \notin {"body", "dispatch"}
  BY <1>1, <1>4 DEF LoopLeft
<1> QED
  BY <1>2, <1>3, <1>4

\* A step of the loop leaves it or has fewer steps before it.
LoopStep == InLoop => \/ UNCHANGED <<pc, server>>
                      \/ pc' \notin {"body", "dispatch", "parse"}
                      \/ LoopLeft' < LoopLeft

\* The loop goes on behind a head that was found in what the buffer holds.
LEMMA HeadShortens ==
  ASSUME IInv, ParseHead
  PROVE  pc' = "body" => server'.offset < server.offset
<1> SUFFICES ASSUME pc' = "body" PROVE server'.offset < server.offset
  OBVIOUS
<1>1. Shape /\ recvlen \in 0 .. Cap /\ Cap \in Nat
  BY StreamAssumption DEF IInv, Shape, StreamAssumption
<1>2. server \in Servers /\ server.offset \in 0 .. Cap
  BY <1>1 DEF Shape, Servers
<1>3. PICK pos :
        /\ pos = Position(server.buf, ParseSize) /\ pos # 0 /\ pos <= server.offset
        /\ server' = Parsing(server,
             [status |-> "success", of |-> server.buf[pos].of,
              listed |-> server.buf[pos].listed],
             server.buf[pos].length, <<>>, Prefix(server.buf, pos),
             server.offset - pos, Shift(server.buf, pos, server.offset - pos))
  BY Zenon DEF ParseHead, Parsing
<1>4. pos \in Nat \ {0}
  BY <1>1, <1>3, PositionIs DEF ParseSize
<1>5. server'.offset = server.offset - pos
  BY <1>2, <1>3, Parsed, GetField
<1> QED
  BY <1>2, <1>4, <1>5

LEMMA LoopShortens == IInv /\ Clean /\ [Next]_vars => LoopStep
<1> SUFFICES ASSUME IInv, Clean, [Next]_vars, InLoop, pc' \in {"body", "dispatch", "parse"}
             PROVE  UNCHANGED <<pc, server>> \/ LoopLeft' < LoopLeft
  BY DEF LoopStep
<1>1. server \in Servers /\ server' \in Servers
  BY NextIInv DEF IInv, Shape
<1>2. server.offset \in 0 .. Cap /\ server'.offset \in 0 .. Cap
  BY <1>1 DEF Servers
<1>3. /\ pc = "body" => LoopLeft = 3 * server.offset + 2
      /\ pc = "dispatch" => LoopLeft = 3 * server.offset + 1
      /\ pc = "parse" => LoopLeft = 3 * server.offset
  BY <1>2, LoopLeftIs
<1>4. /\ pc' = "body" => LoopLeft' = 3 * server'.offset + 2
      /\ pc' = "dispatch" => LoopLeft' = 3 * server'.offset + 1
      /\ pc' = "parse" => LoopLeft' = 3 * server'.offset
  <2>1. LoopLeft' = 3 * server'.offset
                      + (CASE pc' = "body" -> 2 [] pc' = "dispatch" -> 1 [] OTHER -> 0)
    BY DEF LoopLeft
  <2> QED
    BY <1>2, <2>1
<1>5. CASE TakeBody /\ UNCHANGED traffic
  <2>1. server'.offset <= server.offset /\ pc = "body" /\ pc' = "dispatch"
    BY <1>5, TakeBodyStep DEF TakeBody
  <2> QED
    BY <1>2, <1>3, <1>4, <2>1
<1>6. CASE Dispatch
  <2>1. pc = "dispatch" /\ pc' = "parse"
    BY <1>6 DEF Dispatch
  <2>2. server' = server \/ server' = Freed(server)
    BY <1>6 DEF Dispatch, Relay, LearnBitrates, MeasureChunk
  <2>3. server'.offset = server.offset
    BY <1>1, <2>2, FreedIs, GetField
  <2> QED
    BY <1>2, <1>3, <1>4, <2>1, <2>3
<1>7. CASE ParseHead
  <2>1. pc = "parse" /\ pc' = "body"
    BY <1>7 DEF ParseHead
  <2>2. server'.offset < server.offset
    BY <1>7, <2>1, HeadShortens
  <2> QED
    BY <1>2, <1>3, <1>4, <2>1, <2>2
<1>8. CASE \E n \in 1 .. Cap : HandlerBrowser(n) \/ HandlerServer(n)
  BY <1>8 DEF HandlerBrowser, HandlerServer, InLoop
<1>9. CASE BrowserFull \/ ServerFull \/ SendFails \/ HangUp
  BY <1>9 DEF BrowserFull, ServerFull, SendFails, HangUp, Close
<1>10. CASE Answers \/ OtherConnLearns \/ Done \/ \E k \in traffic.kinds : BrowserSends(k)
  BY <1>10 DEF Answers, ServerAnswers, OtherConnLearns, Done, BrowserSends, conn, vars
<1>11. CASE UNCHANGED vars
  BY <1>11 DEF vars, conn
<1> QED
  BY <1>5, <1>6, <1>7, <1>8, <1>9, <1>10, <1>11 DEF Next, Step, Proxy

\* handler_server returns: while its loop (proxy2.c:421) runs, no step but its
\* own changes its connection's buffer, and every one of its own steps leaves
\* the loop or has fewer of them left: three for every unit in the buffer and
\* two more, at most.
THEOREM LoopEnds ==
  Spec => /\ [](Clean => LoopLeft \in 0 .. 3 * Cap + 2)
          /\ [][Clean => LoopStep]_vars
<1>1. IInv => LoopLeft \in 0 .. 3 * Cap + 2
  <2> SUFFICES ASSUME IInv PROVE LoopLeft \in 0 .. 3 * Cap + 2
    OBVIOUS
  <2>1. server.offset \in 0 .. Cap
    BY DEF IInv, Shape, Servers
  <2> QED
    BY <2>1, LoopLeftIs
<1>2. (Clean => IInv) /\ [Next]_vars => [Clean => LoopStep]_vars
  BY LoopShortens
<1> QED
  BY <1>1, <1>2, StreamInvariant, PTL DEF Spec
=============================================================================
