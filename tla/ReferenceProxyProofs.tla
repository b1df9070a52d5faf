-------------------------- MODULE ReferenceProxyProofs --------------------------
(***************************************************************************)
(* The estimate, the log, the count of bodies, the servers and the steps   *)
(* of the reference proxy, for any number of threads, any rates, answers   *)
(* and alpha; the rotation and the messages of the reference name server,  *)
(* for any file of servers, any names and whoever asks; its search of the  *)
(* nearest server, for any graph, and the nearness of its answers, for any *)
(* file of links.                                                          *)
(***************************************************************************)
EXTENDS ReferenceProxy, SequenceTheorems, FiniteSetTheorems, WellFoundedInduction, TLAPS

-----------------------------------------------------------------------------
(* The average                                                             *)

LEMMA Quotient ==
  ASSUME NEW d \in Nat \ {0}, NEW s \in Nat, NEW low \in Nat, NEW high \in Nat,
         d * low <= s, s <= d * high
  PROVE  s \div d \in Nat /\ low <= s \div d /\ s \div d <= high
<1> DEFINE q == s \div d
<1>1. q \in Nat /\ d * q <= s /\ s < d * (q + 1)
  <2>1. s \div d \in Nat
    OBVIOUS
  <2>2. d * (s \div d) <= s
    OBVIOUS
  <2>3. s < d * (s \div d + 1)
    OBVIOUS
  <2> QED BY <2>1, <2>2, <2>3
<1> HIDE DEF q
<1>2. ASSUME q > high PROVE FALSE
  <2>1. d * q >= d * (high + 1)
    BY <1>1, <1>2
  <2>2. d * (high + 1) = d * high + d
    OBVIOUS
  <2> QED BY <1>1, <2>1, <2>2
<1>3. ASSUME q < low PROVE FALSE
  <2>1. d * (q + 1) <= d * low
    BY <1>1, <1>3
  <2> QED BY <1>1, <2>1
<1> QED BY <1>1, <1>2, <1>3 DEF q

\* A weighted average lies between what both of its terms lie between.
LEMMA AverageBetween ==
  ASSUME NEW avg \in Nat, NEW rate \in Nat, NEW low \in Nat, NEW high \in Nat,
         low <= avg, avg <= high, low <= rate * Scale, rate * Scale <= high
  PROVE  Average(avg, rate) \in Nat /\ low <= Average(avg, rate) /\ Average(avg, rate) <= high
<1> DEFINE rest == AlphaDen - AlphaNum
           x == rate * Scale
<1>1. rest \in Nat /\ AlphaNum \in Nat /\ AlphaDen \in Nat \ {0} /\ x \in Nat
  BY AlphaAssumption
<1>2. AlphaDen = rest + AlphaNum
  BY <1>1, AlphaAssumption
<1> HIDE DEF rest, x
<1>3. rest * avg \in Nat /\ rest * low <= rest * avg /\ rest * avg <= rest * high
  BY <1>1
<1>4. AlphaNum * x \in Nat /\ AlphaNum * low <= AlphaNum * x /\ AlphaNum * x <= AlphaNum * high
  BY <1>1 DEF x
<1>5. AlphaDen * low = rest * low + AlphaNum * low /\ AlphaDen * high = rest * high + AlphaNum * high
  BY <1>1, <1>2
<1>6. rest * low \in Nat /\ AlphaNum * low \in Nat /\ rest * high \in Nat /\ AlphaNum * high \in Nat
  BY <1>1
<1> DEFINE s == rest * avg + AlphaNum * x
<1>7. s \in Nat /\ AlphaDen * low <= s /\ s <= AlphaDen * high
  BY <1>3, <1>4, <1>5, <1>6
<1> HIDE DEF s
<1>8. s \div AlphaDen \in Nat /\ low <= s \div AlphaDen /\ s \div AlphaDen <= high
  BY <1>1, <1>7, Quotient
<1>9. Average(avg, rate) = s \div AlphaDen
  <2>1. AlphaNum * rate * Scale = AlphaNum * x
    BY <1>1, AlphaAssumption DEF x
  <2> QED BY <2>1 DEF Average, s, rest
<1> QED BY <1>8, <1>9

\* An average of a first bitrate and of rates.
Bounded(avg) == avg \in Nat /\ \E low, high \in Known : low * Scale <= avg /\ avg <= high * Scale

LEMMA KnownType == Known \subseteq Nat
<1>1. Bitrates \in Seq(Nat) /\ Len(Bitrates) > 0
  BY BitratesAssumption
<1>2. 1 \in 1 .. Len(Bitrates)
  BY <1>1
<1>3. Bitrates[1] \in Nat
  BY <1>1, <1>2, ElementOfSeq
<1> QED BY <1>3, RatesAssumption DEF Known

LEMMA AverageBounded ==
  ASSUME NEW avg, Bounded(avg), NEW rate \in Rates
  PROVE  Bounded(Average(avg, rate))
<1>1. PICK low \in Known, high \in Known : low * Scale <= avg /\ avg <= high * Scale
  BY DEF Bounded
<1>2. rate \in Known /\ rate \in Nat /\ low \in Nat /\ high \in Nat /\ avg \in Nat /\ Scale \in Nat
  BY RatesAssumption, AlphaAssumption, KnownType DEF Bounded, Known
<1> DEFINE x == rate * Scale
           l == low * Scale
           h == high * Scale
           least == IF l <= x THEN low ELSE rate
           most == IF x <= h THEN high ELSE rate
<1>3. least \in Known /\ most \in Known /\ least \in Nat /\ most \in Nat
  BY <1>2
<1>4. x \in Nat /\ l \in Nat /\ h \in Nat
  BY <1>2
<1>5. l <= avg /\ avg <= h
  BY <1>1
<1>6. least * Scale \in Nat /\ least * Scale <= x /\ least * Scale <= avg
  <2>1. CASE l <= x
    BY <1>2, <1>4, <1>5, <2>1
  <2>2. CASE ~(l <= x)
    <3>1. least * Scale = x
      BY <2>2
    <3> HIDE DEF x, l, h, least
    <3> QED BY <1>2, <1>4, <1>5, <2>2, <3>1
  <2> QED BY <2>1, <2>2
<1>7. most * Scale \in Nat /\ x <= most * Scale /\ avg <= most * Scale
  <2>1. CASE x <= h
    BY <1>2, <1>4, <1>5, <2>1
  <2>2. CASE ~(x <= h)
    <3>1. most * Scale = x
      BY <2>2
    <3> HIDE DEF x, l, h, most
    <3> QED BY <1>2, <1>4, <1>5, <2>2, <3>1
  <2> QED BY <2>1, <2>2
<1>8. /\ Average(avg, rate) \in Nat /\ least * Scale <= Average(avg, rate)
      /\ Average(avg, rate) <= most * Scale
  <2> HIDE DEF least, most
  <2> QED BY <1>2, <1>6, <1>7, AverageBetween
<1> HIDE DEF least, most
<1> QED BY <1>3, <1>8 DEF Bounded

-----------------------------------------------------------------------------
(* The threads *)

\* EstimateBounded is not inductive: what a thread has read, or measured and not
\* yet stored, must be bounded as well.
ThreadOK(t) ==
  /\ "pc" \in DOMAIN t
  /\ t.pc # "free" => {"rate", "read"} \subseteq DOMAIN t
  /\ t.pc \in {"load", "store"} => t.rate \in Rates
  /\ t.pc = "store" => Bounded(t.read)

EstimateInv ==
  /\ Bounded(AVG)
  /\ thread = [c \in Clients |-> thread[c]]
  /\ \A c \in Clients : ThreadOK(thread[c])

LEMMA FreeOK == ThreadOK(Free)
BY DEF ThreadOK, Free

Set(t, field, value) == [t EXCEPT ![field] = value]

LEMMA SetField ==
  ASSUME NEW t, NEW field, NEW value
  PROVE  /\ DOMAIN Set(t, field, value) = DOMAIN t
         /\ \A f \in DOMAIN t : Set(t, field, value)[f] = IF f = field THEN value ELSE t[f]
BY DEF Set

\* The fields that the invariant does not speak of.
LEMMA SetOther ==
  ASSUME NEW t, ThreadOK(t), NEW field, NEW value, field \notin {"pc", "rate", "read"}
  PROVE  ThreadOK(Set(t, field, value)) /\ Set(t, field, value).pc = t.pc
BY SetField DEF ThreadOK

\* A thread that runs goes where nothing is asked of its rate.
LEMMA SetPc ==
  ASSUME NEW t, ThreadOK(t), t.pc # "free", NEW pc, pc \notin {"load", "store"}
  PROVE  ThreadOK(Set(t, "pc", pc))
BY SetField DEF ThreadOK

\* Its step replaces its own record only.
LEMMA GoesKeeps ==
  ASSUME EstimateInv, NEW c \in Clients, NEW t, ThreadOK(t), Goes(c, t), Bounded(AVG')
  PROVE  EstimateInv'
<1>1. thread' = [d \in Clients |-> IF d = c THEN t ELSE thread[d]]
  BY DEF EstimateInv, Goes
<1>2. \A d \in Clients : ThreadOK(thread'[d])
  BY <1>1 DEF EstimateInv
<1>3. thread' = [d \in Clients |-> thread'[d]]
  BY <1>1
<1> QED BY <1>2, <1>3 DEF EstimateInv, Bounded, ThreadOK

LEMMA SameKeeps == ASSUME EstimateInv, UNCHANGED <<AVG, thread>> PROVE EstimateInv'
BY DEF EstimateInv, Bounded, ThreadOK

\* Going on with another pc.
LEMMA PcKeeps ==
  ASSUME EstimateInv, UNCHANGED AVG, NEW c \in Clients, thread[c].pc # "free",
         NEW pc, pc \notin {"load", "store"}, Goes(c, [thread[c] EXCEPT !.pc = pc])
  PROVE  EstimateInv'
<1>1. ThreadOK(Set(thread[c], "pc", pc))
  BY SetPc DEF EstimateInv
<1>2. Bounded(AVG')
  BY DEF EstimateInv
<1> QED BY <1>1, <1>2, GoesKeeps DEF Set

LEMMA DiesKeeps ==
  ASSUME EstimateInv, UNCHANGED AVG, NEW c \in Clients, Dies(c)
  PROVE  EstimateInv'
<1>1. Bounded(AVG')
  BY DEF EstimateInv
<1> QED BY <1>1, FreeOK, GoesKeeps DEF Dies

LEMMA AcceptKeeps == ASSUME EstimateInv, NEW c \in Clients, Accept(c) PROVE EstimateInv'
<1>1. PICK isSeg \in BOOLEAN :
        thread' = [d \in Clients |->
          IF d = c THEN NewThread(isSeg, \A e \in Clients : thread[e] = Free)
          ELSE IF thread[d] = Free THEN Free ELSE [thread[d] EXCEPT !.alone = FALSE, !.before = 0]]
  BY DEF Accept
<1>2. UNCHANGED AVG
  BY DEF Accept
<1>3. ASSUME NEW alone PROVE ThreadOK(NewThread(isSeg, alone))
  BY DEF ThreadOK, NewThread
<1>4. ASSUME NEW d \in Clients PROVE ThreadOK([thread[d] EXCEPT !.alone = FALSE, !.before = 0])
  <2>1. ThreadOK(Set(thread[d], "alone", FALSE))
    BY SetOther DEF EstimateInv
  <2>2. ThreadOK(Set(Set(thread[d], "alone", FALSE), "before", 0))
    BY <2>1, SetOther
  <2> QED BY <2>2 DEF Set
<1>5. \A d \in Clients : ThreadOK(thread'[d])
  BY <1>1, <1>3, <1>4, FreeOK
<1>6. thread' = [d \in Clients |-> thread'[d]]
  BY <1>1
<1> QED BY <1>2, <1>5, <1>6 DEF EstimateInv, Bounded, ThreadOK

-----------------------------------------------------------------------------
(* Reading *)

LEMMA AfterReadOK == ASSUME NEW t, ThreadOK(t), t.pc # "free" PROVE ThreadOK(AfterRead(t))
<1>1. ThreadOK(Set(t, "pc", "measure"))
  BY SetPc
<1> QED BY <1>1, FreeOK DEF AfterRead, Set

LEMMA RelayedOK ==
  ASSUME NEW t, ThreadOK(t), t.pc = "reading", NEW piece
  PROVE  ThreadOK(Relayed(t, piece))
<1> DEFINE next == [t EXCEPT !.rest = Tail(t.rest), !.cl = ContentLength(t, piece), !.left = Left(t, piece)]
           t1 == Set(t, "rest", Tail(t.rest))
           t2 == Set(t1, "cl", ContentLength(t, piece))
<1>1. ThreadOK(next) /\ next.pc = "reading"
  <2>1. ThreadOK(t1) /\ t1.pc = "reading"
    BY SetOther
  <2>2. ThreadOK(t2) /\ t2.pc = "reading"
    <3> HIDE DEF t1
    <3> QED BY <2>1, SetOther
  <2>3. ThreadOK(Set(t2, "left", Left(t, piece))) /\ Set(t2, "left", Left(t, piece)).pc = "reading"
    <3> HIDE DEF t2
    <3> QED BY <2>2, SetOther
  <2> QED BY <2>3, Zenon DEF Set
<1>2. Relayed(t, piece) =
        IF t.left # 0 /\ next.left <= 0 THEN AfterRead([next EXCEPT !.counted = TRUE])
        ELSE IF piece.after = Nothing THEN next
        ELSE IF next.cl < 0 THEN Free
        ELSE [next EXCEPT !.left = BodyLeft(t, piece)]
  BY Zenon DEF Relayed
<1> HIDE DEF next
<1>3. ThreadOK(Set(next, "counted", TRUE)) /\ Set(next, "counted", TRUE).pc = "reading"
  BY <1>1, SetOther
<1>4. ThreadOK(AfterRead(Set(next, "counted", TRUE)))
  BY <1>3, AfterReadOK
<1>5. ThreadOK(Set(next, "left", BodyLeft(t, piece)))
  BY <1>1, SetOther
<1> QED BY <1>1, <1>2, <1>4, <1>5, FreeOK, Zenon DEF Set

\* What a thread that reads does, and what is done to it.
InLoop(c) == ReadPiece(c) \/ ReadNothing(c) \/ Outside(c)

LEMMA ReadCases ==
  ASSUME NEW c \in Clients, InLoop(c)
  PROVE  /\ thread[c].pc = "reading" /\ UNCHANGED <<AVG, RR_ADDR, accepted, rnsVars>>
         /\ \/ Dies(c)
            \/ thread[c].rest # <<>> /\ Goes(c, Relayed(Unheld(thread[c]), Head(thread[c].rest)))
            \/ Goes(c, AfterRead(thread[c]))
            \/ \E held : Goes(c, Set(thread[c], "held", held))
            \/ /\ thread[c].rest = <<>> /\ thread[c].left = 0
               /\ Goes(c, Set(thread[c], "rest", <<Byte>>))
<1>1. CASE Relays(c)
  BY <1>1, Zenon DEF Relays, Reading
<1>2. CASE ReadNothing(c)
  BY <1>2, Zenon DEF ReadNothing, Reading, Quiet
<1>3. CASE SendBlocks(c)
  BY <1>3, Zenon DEF SendBlocks, Reading, Set
<1>4. CASE Trickle(c)
  BY <1>4, Zenon DEF Trickle, Reading, Set
<1> QED BY <1>1, <1>2, <1>3, <1>4, Zenon DEF InLoop, Outside, ReadPiece, Released

LEMMA UnheldSet == ASSUME NEW t PROVE \E held : Unheld(t) = Set(t, "held", held)
BY Zenon DEF Unheld, Set

LEMMA ReadKeeps ==
  ASSUME EstimateInv, NEW c \in Clients, InLoop(c)
  PROVE  EstimateInv'
<1>1. UNCHANGED AVG /\ thread[c].pc = "reading" /\ ThreadOK(thread[c]) /\ Bounded(AVG')
  BY ReadCases DEF EstimateInv
<1>2. ASSUME NEW held
      PROVE  ThreadOK(Set(thread[c], "held", held)) /\ Set(thread[c], "held", held).pc = "reading"
  BY <1>1, SetOther
<1>3. ThreadOK(Unheld(thread[c])) /\ Unheld(thread[c]).pc = "reading"
  BY <1>2, UnheldSet
<1>4. ThreadOK(Set(thread[c], "rest", <<Byte>>))
  BY <1>1, SetOther
<1> QED BY <1>1, <1>2, <1>3, <1>4, ReadCases, RelayedOK, AfterReadOK, DiesKeeps, GoesKeeps

-----------------------------------------------------------------------------
(* The average is read, combined with a rate, and written back *)

LEMMA MeasureKeeps == ASSUME EstimateInv, NEW c \in Clients, Measure(c) PROVE EstimateInv'
<1>1. UNCHANGED AVG /\ thread[c].pc = "measure" /\ ThreadOK(thread[c]) /\ Bounded(AVG')
  BY DEF Measure, EstimateInv
<1>2. ASSUME NEW rate \in Rates,
             Goes(c, [thread[c] EXCEPT !.pc = "load", !.rate = rate, !.b = getBR,
                                       !.rest = <<>>, !.cl = 0, !.left = 0])
      PROVE  EstimateInv'
  <2> DEFINE t1 == Set(Set(thread[c], "pc", "load"), "rate", rate)
             t2 == Set(t1, "b", getBR)
             t3 == Set(t2, "rest", <<>>)
             t4 == Set(t3, "cl", 0)
             t5 == Set(t4, "left", 0)
  <2>1. ThreadOK(t1)
    <3> DEFINE t0 == Set(thread[c], "pc", "load")
    <3>1. "pc" \in DOMAIN t0 /\ {"rate", "read"} \subseteq DOMAIN t0 /\ t0.pc = "load"
      BY <1>1, SetField DEF ThreadOK
    <3> HIDE DEF t0
    <3>2. ThreadOK(Set(t0, "rate", rate))
      BY <3>1, SetField DEF ThreadOK
    <3> QED BY <3>2 DEF t0
  <2> HIDE DEF t1
  <2>2. ThreadOK(t2)
    BY <2>1, SetOther
  <2> HIDE DEF t2
  <2>3. ThreadOK(t3)
    BY <2>2, SetOther
  <2> HIDE DEF t3
  <2>4. ThreadOK(t4)
    BY <2>3, SetOther
  <2> HIDE DEF t4
  <2>5. ThreadOK(t5)
    BY <2>4, SetOther
  <2>6. Goes(c, t5)
    BY <1>2, Zenon DEF t1, t2, t3, t4, Set
  <2> QED BY <1>1, <2>5, <2>6, GoesKeeps
<1>3. Dies(c) \/ \E rate \in Rates :
        Goes(c, [thread[c] EXCEPT !.pc = "load", !.rate = rate, !.b = getBR,
                                  !.rest = <<>>, !.cl = 0, !.left = 0])
  BY Zenon DEF Measure
<1> QED BY <1>1, <1>2, <1>3, DiesKeeps

LEMMA LoadKeeps == ASSUME EstimateInv, NEW c \in Clients, Load(c) PROVE EstimateInv'
<1>1. UNCHANGED AVG /\ thread[c].pc = "load" /\ ThreadOK(thread[c]) /\ Bounded(AVG) /\ Bounded(AVG')
  BY DEF Load, EstimateInv
<1> DEFINE t1 == Set(thread[c], "pc", "store")
<1>2. "pc" \in DOMAIN t1 /\ {"rate", "read"} \subseteq DOMAIN t1 /\ t1.pc = "store" /\ t1.rate \in Rates
  BY <1>1, SetField DEF ThreadOK
<1>3. Goes(c, Set(t1, "read", AVG))
  BY Zenon DEF Load, Set
<1> HIDE DEF t1
<1>4. ThreadOK(Set(t1, "read", AVG))
  BY <1>1, <1>2, SetField DEF ThreadOK
<1> QED BY <1>1, <1>3, <1>4, GoesKeeps

LEMMA StoreKeeps == ASSUME EstimateInv, NEW c \in Clients, Store(c) PROVE EstimateInv'
<1>1. thread[c].pc = "store" /\ ThreadOK(thread[c])
  BY DEF Store, EstimateInv
<1>2. Bounded(Average(thread[c].read, thread[c].rate))
  BY <1>1, AverageBounded DEF ThreadOK
<1>3. Bounded(AVG')
  BY <1>2 DEF Store
<1> DEFINE t1 == Set(thread[c], "pc", "log")
<1>4. "pc" \in DOMAIN t1 /\ {"rate", "read"} \subseteq DOMAIN t1 /\ t1.pc = "log"
  BY <1>1, SetField DEF ThreadOK
<1>5. Goes(c, Set(t1, "read", 0))
  BY Zenon DEF Store, Set
<1> HIDE DEF t1
<1>6. ThreadOK(Set(t1, "read", 0))
  BY <1>4, SetField DEF ThreadOK
<1> QED BY <1>3, <1>5, <1>6, GoesKeeps

LEMMA WriteLogKeeps == ASSUME EstimateInv, NEW c \in Clients, WriteLog(c) PROVE EstimateInv'
<1>1. thread[c].pc = "log" /\ ThreadOK(thread[c]) /\ Bounded(AVG')
  BY DEF WriteLog, EstimateInv
<1> DEFINE t1 == Set(thread[c], "pc", "close")
<1>2. ThreadOK(t1)
  BY <1>1, SetPc
<1>3. Goes(c, Set(t1, "line", LogLine(c)))
  BY Zenon DEF WriteLog, Set
<1> HIDE DEF t1
<1>4. ThreadOK(Set(t1, "line", LogLine(c)))
  BY <1>2, SetOther
<1> QED BY <1>1, <1>3, <1>4, GoesKeeps

-----------------------------------------------------------------------------
(* The way to a web server *)

LEMMA ChooseKeeps == ASSUME EstimateInv, NEW c \in Clients, Choose(c) PROVE EstimateInv'
<1>1. thread[c].pc = "choose" /\ ThreadOK(thread[c]) /\ Bounded(AVG')
  BY DEF Choose, EstimateInv
<1>2. PICK answer \in WebAnswers :
        Goes(c, [thread[c] EXCEPT !.pc = "reading", !.chunk = getBR, !.rest = answer,
                                  !.whole = answer[1].after # Nothing])
  BY Zenon DEF Choose
<1> DEFINE t1 == Set(thread[c], "pc", "reading")
           t2 == Set(t1, "chunk", getBR)
           t3 == Set(t2, "rest", answer)
           t4 == Set(t3, "whole", answer[1].after # Nothing)
<1>3. Goes(c, t4)
  BY <1>2, Zenon DEF Set
<1>4. ThreadOK(t1)
  BY <1>1, SetPc
<1> HIDE DEF t1
<1>5. ThreadOK(t2)
  BY <1>4, SetOther
<1> HIDE DEF t2
<1>6. ThreadOK(t3)
  BY <1>5, SetOther
<1> HIDE DEF t3
<1>7. ThreadOK(t4)
  BY <1>6, SetOther
<1> HIDE DEF t4
<1> QED BY <1>1, <1>3, <1>7, GoesKeeps

LEMMA ConnectKeeps == ASSUME EstimateInv, NEW c \in Clients, Connect(c) PROVE EstimateInv'
<1>1. UNCHANGED AVG /\ thread[c].pc = "resolve" /\ ThreadOK(thread[c]) /\ Bounded(AVG')
  BY DEF Connect, EstimateInv
<1> DEFINE t1 == Set(thread[c], "pc", "choose")
<1>2. Dies(c) \/ Goes(c, Set(t1, "server", RR_ADDR))
  BY Zenon DEF Connect, Set
<1>3. ThreadOK(t1)
  BY <1>1, SetPc
<1> HIDE DEF t1
<1>4. ThreadOK(Set(t1, "server", RR_ADDR))
  BY <1>3, SetOther
<1> QED BY <1>1, <1>2, <1>4, DiesKeeps, GoesKeeps

LEMMA AskedKeeps ==
  ASSUME EstimateInv, NEW c \in Clients, Resolve(c) \/ Resolved(c) \/ NotResolved(c)
  PROVE  EstimateInv'
<1>1. UNCHANGED AVG /\ thread[c].pc # "free"
  BY DEF Resolve, Resolved, NotResolved
<1>2. \/ Goes(c, [thread[c] EXCEPT !.pc = "asking"]) \/ Goes(c, [thread[c] EXCEPT !.pc = "resolve"])
      \/ Dies(c) \/ UNCHANGED thread
  BY Zenon DEF Resolve, Resolved, NotResolved
<1> QED BY <1>1, <1>2, PcKeeps, DiesKeeps, SameKeeps

-----------------------------------------------------------------------------

\* Whatever threads read and write the average in whatever order, it stays
\* between the lowest and the highest of the first bitrate and the rates.
THEOREM EstimateBoundedCorrect == ProxySpec => []EstimateBounded
<1>1. Init /\ ProxyInit => EstimateInv
  <2> SUFFICES ASSUME ProxyInit PROVE EstimateInv
    OBVIOUS
  <2>1. AVG = Bitrates[1] * Scale /\ Bitrates[1] \in Known /\ Bitrates[1] \in Nat /\ Scale \in Nat
    BY KnownType, AlphaAssumption DEF ProxyInit, Known
  <2>2. Bounded(AVG)
    BY <2>1 DEF Bounded
  <2> QED BY <2>2, FreeOK DEF ProxyInit, EstimateInv
<1>2. EstimateInv /\ [ProxyNext]_<<rnsVars, proxyVars>> => EstimateInv'
  <2> SUFFICES ASSUME EstimateInv, [ProxyNext]_<<rnsVars, proxyVars>> PROVE EstimateInv'
    OBVIOUS
  <2>1. CASE UNCHANGED proxyVars
    BY <2>1, SameKeeps DEF proxyVars
  <2>2. ASSUME NEW c \in Clients, Accept(c) \/ ThreadStep(c) \/ Resolved(c) \/ Outside(c) PROVE EstimateInv'
    <3>1. CASE Close(c)
      BY <3>1, DiesKeeps DEF Close, Dies
    <3> QED BY <2>2, <3>1, AcceptKeeps, AskedKeeps, ConnectKeeps, ChooseKeeps, ReadKeeps, MeasureKeeps,
               LoadKeeps, StoreKeeps, WriteLogKeeps DEF ThreadStep, InLoop
  <2> QED BY <2>1, <2>2 DEF ProxyNext, proxyVars
<1>3. EstimateInv => EstimateBounded
  BY DEF EstimateInv, Bounded, EstimateBounded
<1> QED BY <1>1, <1>2, <1>3, PTL DEF ProxySpec

-----------------------------------------------------------------------------
(* The log of a thread that runs alone *)

Fields == {"pc", "chunk", "server", "rate", "b", "read", "line", "alone", "before"}

BitrateOf(avg) ==
  LET low == {i \in DOMAIN Bitrates : 3 * Bitrates[i] * Scale < 2 * avg}
  IN  IF low = {} THEN Bitrates[1] ELSE Bitrates[Max(low)]

ExpectedLine(t) == [average |-> Average(t.before, t.rate), bitrate |-> t.chunk, server |-> t.server]

\* What is known of a thread that runs alone, from place to place: nobody else
\* has moved the average or the address.
Story(t, avg, addr) ==
  /\ t.pc \in {"resolve", "asking", "choose", "reading", "measure", "load", "store"} => avg = t.before
  /\ t.pc \in {"choose", "reading", "measure", "load", "store", "log"} => t.server = addr
  /\ t.pc \in {"reading", "measure"} => t.chunk = BitrateOf(avg)
  /\ t.pc \in {"load", "store", "log"} => t.b = t.chunk
  /\ t.pc = "store" => t.read = t.before
  /\ t.pc = "log" => avg = Average(t.before, t.rate)
  /\ t.pc = "close" => t.line = ExpectedLine(t)

Own(t, avg, addr) == t # Free => Fields \subseteq DOMAIN t /\ (t.alone => Story(t, avg, addr))

\* AloneLogged is not inductive: while a thread is alone there is no other one.
AloneInv ==
  /\ thread = [c \in Clients |-> thread[c]]
  /\ \A c \in Clients : Own(thread[c], AVG, RR_ADDR)
  /\ \A c \in Clients : thread[c] # Free /\ thread[c].alone =>
       \A d \in Clients \ {c} : thread[d] = Free

\* A step of a thread has to keep its own story only.
LEMMA AloneGoes ==
  ASSUME AloneInv, NEW c \in Clients, thread[c] # Free, NEW t, Goes(c, t),
         Own(t, AVG', RR_ADDR'), t # Free /\ t.alone => thread[c].alone
  PROVE  AloneInv'
<1>1. thread' = [d \in Clients |-> IF d = c THEN t ELSE thread[d]]
  BY DEF AloneInv, Goes
<1>2. thread' = [d \in Clients |-> thread'[d]]
  BY <1>1
<1>3. ASSUME NEW d \in Clients, d # c, thread[d] # Free PROVE ~thread[d].alone
  BY <1>3 DEF AloneInv
<1>4. ASSUME NEW d \in Clients PROVE Own(thread'[d], AVG', RR_ADDR')
  <2>1. CASE d = c
    BY <1>1, <2>1
  <2>2. CASE d # c
    BY <1>1, <1>3, <2>2 DEF AloneInv, Own
  <2> QED BY <2>1, <2>2
<1>5. ASSUME NEW d \in Clients, thread'[d] # Free, thread'[d].alone, NEW e \in Clients \ {d}
      PROVE  thread'[e] = Free
  <2>1. d = c
    BY <1>1, <1>3, <1>5
  <2>2. thread[c].alone
    BY <1>1, <1>5, <2>1
  <2> QED BY <1>1, <1>5, <2>1, <2>2 DEF AloneInv
<1> QED BY <1>2, <1>4, <1>5 DEF AloneInv

LEMMA AloneDies ==
  ASSUME AloneInv, NEW c \in Clients, thread[c] # Free, Dies(c)
  PROVE  AloneInv'
BY AloneGoes DEF Dies, Own

LEMMA AloneSame == ASSUME AloneInv, UNCHANGED <<AVG, RR_ADDR, thread>> PROVE AloneInv'
BY DEF AloneInv

LEMMA AtIsNotFree == \A t : t.pc # "free" => t # Free
BY DEF Free

\* What a step makes of its own record.
Same(t, u) == DOMAIN u = DOMAIN t /\ \A f \in Fields : u[f] = t[f]

LEMMA SetSame ==
  ASSUME NEW t, NEW u, Fields \subseteq DOMAIN t, Same(t, u), NEW field, field \notin Fields, NEW value
  PROVE  Same(t, Set(u, field, value))
BY SetField DEF Same

LEMMA SameStory ==
  ASSUME NEW t, NEW u, t # Free, Same(t, u), NEW avg, NEW addr, Own(t, avg, addr)
  PROVE  Own(u, avg, addr) /\ (u.alone => t.alone)
<1>1. /\ u.pc = t.pc /\ u.chunk = t.chunk /\ u.server = t.server /\ u.rate = t.rate /\ u.b = t.b
      /\ u.read = t.read /\ u.line = t.line /\ u.alone = t.alone /\ u.before = t.before
  BY DEF Same, Fields
<1>2. Fields \subseteq DOMAIN u
  BY DEF Same, Own
<1> QED BY <1>1, <1>2 DEF Own, Story, ExpectedLine

LEMMA AloneAccept == ASSUME AloneInv, NEW c \in Clients, Accept(c) PROVE AloneInv'
<1> DEFINE alone == \A e \in Clients : thread[e] = Free
<1>1. PICK isSeg \in BOOLEAN :
        thread' = [d \in Clients |->
          IF d = c THEN NewThread(isSeg, alone)
          ELSE IF thread[d] = Free THEN Free ELSE [thread[d] EXCEPT !.alone = FALSE, !.before = 0]]
  BY DEF Accept
<1>2. UNCHANGED <<AVG, RR_ADDR>>
  BY DEF Accept
<1>3. ASSUME NEW p \in BOOLEAN
      PROVE  /\ Fields \subseteq DOMAIN NewThread(isSeg, p) /\ NewThread(isSeg, p).alone = p
             /\ NewThread(isSeg, p).pc = "resolve" /\ (p => NewThread(isSeg, p).before = AVG)
  BY DEF NewThread, Fields
<1>4. alone \in BOOLEAN
  OBVIOUS
<1>5. ASSUME NEW d \in Clients, thread[d] # Free
      PROVE  /\ Fields \subseteq DOMAIN [thread[d] EXCEPT !.alone = FALSE, !.before = 0]
             /\ ~[thread[d] EXCEPT !.alone = FALSE, !.before = 0].alone
  <2> DEFINE t1 == Set(thread[d], "alone", FALSE)
  <2>1. Fields \subseteq DOMAIN thread[d]
    BY <1>5 DEF AloneInv, Own
  <2>2. Fields \subseteq DOMAIN t1 /\ ~t1.alone
    <3>1. DOMAIN t1 = DOMAIN thread[d] /\ "alone" \in DOMAIN thread[d]
      BY <2>1 DEF Set, Fields
    <3>2. t1["alone"] = FALSE
      BY <3>1, Zenon DEF Set
    <3> QED BY <2>1, <3>1, <3>2, Zenon
  <2> HIDE DEF t1
  <2>3. Fields \subseteq DOMAIN Set(t1, "before", 0) /\ ~Set(t1, "before", 0).alone
    <3>1. DOMAIN Set(t1, "before", 0) = DOMAIN t1 /\ "alone" \in DOMAIN t1
      BY <2>2 DEF Set, Fields
    <3>2. Set(t1, "before", 0)["alone"] = t1["alone"]
      BY <3>1, SetField
    <3> QED BY <2>2, <3>1, <3>2, Zenon
  <2>4. Set(t1, "before", 0) = [thread[d] EXCEPT !.alone = FALSE, !.before = 0]
    BY Zenon DEF t1, Set
  <2> QED BY <2>3, <2>4
<1> DEFINE n == NewThread(isSeg, alone)
<1>6. /\ Fields \subseteq DOMAIN n /\ n.alone = alone
      /\ n.pc = "resolve" /\ (alone => n.before = AVG)
  BY <1>3, <1>4, Zenon
<1>7. Own(n, AVG, RR_ADDR)
  <2> HIDE DEF n, alone
  <2> QED BY <1>6 DEF Own, Story
<1>8. n.alone => alone
  <2> HIDE DEF n
  <2> QED BY <1>6, Zenon
<1> HIDE DEF n
<1>9. ASSUME NEW d \in Clients PROVE Own(thread'[d], AVG, RR_ADDR)
  BY <1>1, <1>5, <1>7 DEF Own, n
<1>10. ASSUME NEW d \in Clients, thread'[d] # Free, thread'[d].alone, NEW e \in Clients \ {d}
       PROVE  thread'[e] = Free
  <2>1. d = c
    BY <1>1, <1>5, <1>10
  <2>2. alone
    BY <1>1, <1>8, <1>10, <2>1 DEF n
  <2> QED BY <1>1, <2>1, <2>2
<1>11. thread' = [d \in Clients |-> thread'[d]]
  BY <1>1
<1> QED BY <1>2, <1>9, <1>10, <1>11 DEF AloneInv

\* Of the fields one changes and the others stay.
LEMMA SetFields ==
  ASSUME NEW t, NEW field, NEW value, Fields \subseteq DOMAIN t
  PROVE  /\ Fields \subseteq DOMAIN Set(t, field, value)
         /\ field \in DOMAIN t => Set(t, field, value)[field] = value
         /\ \A f \in Fields : f # field => Set(t, field, value)[f] = t[f]
BY SetField

LEMMA AloneAsked ==
  ASSUME AloneInv, NEW c \in Clients, Resolve(c) \/ Resolved(c) \/ NotResolved(c)
  PROVE  AloneInv'
<1>1. UNCHANGED AVG /\ thread[c].pc \in {"resolve", "asking"} /\ thread[c] # Free
  BY AtIsNotFree DEF Resolve, Resolved, NotResolved
<1>2. \/ Goes(c, Set(thread[c], "pc", "asking")) \/ Goes(c, Set(thread[c], "pc", "resolve"))
      \/ Dies(c) \/ UNCHANGED <<RR_ADDR, thread>>
  BY Zenon DEF Resolve, Resolved, NotResolved, Set
<1>3. ASSUME NEW pc \in {"asking", "resolve"}, Goes(c, Set(thread[c], "pc", pc)) PROVE AloneInv'
  <2> DEFINE u == Set(thread[c], "pc", pc)
  <2>1. Fields \subseteq DOMAIN thread[c] /\ (thread[c].alone => AVG = thread[c].before)
    BY <1>1 DEF AloneInv, Own, Story
  <2>2. /\ Fields \subseteq DOMAIN u /\ u.pc = pc /\ u.alone = thread[c].alone
        /\ u.before = thread[c].before
    BY <2>1, SetFields DEF Fields
  <2> HIDE DEF u
  <2>3. Own(u, AVG', RR_ADDR')
    BY <1>1, <2>1, <2>2 DEF Own, Story
  <2> QED BY <1>1, <1>3, <2>2, <2>3, AloneGoes DEF u
<1> QED BY <1>1, <1>2, <1>3, AloneDies, AloneSame

LEMMA AloneConnect == ASSUME AloneInv, NEW c \in Clients, Connect(c) PROVE AloneInv'
<1>1. UNCHANGED <<AVG, RR_ADDR>> /\ thread[c].pc = "resolve" /\ thread[c] # Free
  BY AtIsNotFree DEF Connect
<1> DEFINE u == Set(thread[c], "pc", "choose")
           v == Set(u, "server", RR_ADDR)
<1>2. Dies(c) \/ Goes(c, v)
  BY Zenon DEF Connect, Set
<1>3. Fields \subseteq DOMAIN thread[c] /\ (thread[c].alone => AVG = thread[c].before)
  BY <1>1 DEF AloneInv, Own, Story
<1>4. /\ Fields \subseteq DOMAIN u /\ u.pc = "choose" /\ u.alone = thread[c].alone
      /\ u.before = thread[c].before
  BY <1>3, SetFields DEF Fields
<1> HIDE DEF u
<1>5. /\ Fields \subseteq DOMAIN v /\ v.pc = "choose" /\ v.alone = thread[c].alone
      /\ v.before = thread[c].before /\ v.server = RR_ADDR
  BY <1>4, SetFields DEF Fields
<1> HIDE DEF v
<1>6. Own(v, AVG', RR_ADDR')
  BY <1>1, <1>3, <1>5 DEF Own, Story
<1> QED BY <1>1, <1>2, <1>5, <1>6, AloneGoes, AloneDies

LEMMA AloneChoose == ASSUME AloneInv, NEW c \in Clients, Choose(c) PROVE AloneInv'
<1>1. UNCHANGED <<AVG, RR_ADDR>> /\ thread[c].pc = "choose" /\ thread[c] # Free
  BY AtIsNotFree DEF Choose
<1>2. PICK answer \in WebAnswers :
        Goes(c, [thread[c] EXCEPT !.pc = "reading", !.chunk = getBR, !.rest = answer,
                                  !.whole = answer[1].after # Nothing])
  BY Zenon DEF Choose
<1> DEFINE u1 == Set(thread[c], "pc", "reading")
           u2 == Set(u1, "chunk", getBR)
           u3 == Set(u2, "rest", answer)
           u4 == Set(u3, "whole", answer[1].after # Nothing)
<1>3. Goes(c, u4)
  BY <1>2, Zenon DEF Set
<1>4. /\ Fields \subseteq DOMAIN thread[c]
      /\ thread[c].alone => AVG = thread[c].before /\ thread[c].server = RR_ADDR
  BY <1>1 DEF AloneInv, Own, Story
<1>5. /\ Fields \subseteq DOMAIN u1 /\ u1.pc = "reading" /\ u1.alone = thread[c].alone
      /\ u1.before = thread[c].before /\ u1.server = thread[c].server
  BY <1>4, SetFields DEF Fields
<1> HIDE DEF u1
<1>6. /\ Fields \subseteq DOMAIN u2 /\ u2.pc = "reading" /\ u2.alone = thread[c].alone
      /\ u2.before = thread[c].before /\ u2.server = thread[c].server /\ u2.chunk = BitrateOf(AVG)
  BY <1>5, SetFields DEF Fields, getBR, BitrateOf
<1> HIDE DEF u2
<1>7. Same(u2, u3)
  BY <1>6, SetSame DEF Same, Fields
<1> HIDE DEF u3
<1>8. Same(u2, u4)
  BY <1>6, <1>7, SetSame DEF Fields
<1> HIDE DEF u4
<1>9. Own(u2, AVG', RR_ADDR') /\ u2 # Free
  BY <1>1, <1>4, <1>6, AtIsNotFree DEF Own, Story
<1>10. Own(u4, AVG', RR_ADDR') /\ (u4.alone => u2.alone)
  BY <1>8, <1>9, SameStory
<1> QED BY <1>1, <1>3, <1>6, <1>10, AloneGoes

-----------------------------------------------------------------------------

\* A thread that has read what it wanted, or goes on reading.
LEMMA AloneRead ==
  ASSUME AloneInv, NEW c \in Clients, UNCHANGED <<AVG, RR_ADDR>>, thread[c].pc = "reading",
         NEW t, Same(thread[c], t),
         Goes(c, t) \/ Goes(c, AfterRead(t))
  PROVE  AloneInv'
<1>1. thread[c] # Free /\ Own(thread[c], AVG, RR_ADDR)
  BY AtIsNotFree DEF AloneInv
<1>2. Own(t, AVG, RR_ADDR) /\ (t.alone => thread[c].alone) /\ t.pc = "reading"
  BY <1>1, SameStory DEF Same, Fields
<1>3. CASE Goes(c, t)
  BY <1>1, <1>2, <1>3, AloneGoes
<1>4. CASE Goes(c, AfterRead(t)) /\ ~t.isSeg
  BY <1>1, <1>4, AloneDies DEF AfterRead, Dies
<1>5. CASE Goes(c, AfterRead(t)) /\ t.isSeg
  <2> DEFINE u == Set(t, "pc", "measure")
  <2>1. Goes(c, u)
    BY <1>5 DEF AfterRead, Set
  <2>2. /\ Fields \subseteq DOMAIN t
        /\ t.alone => AVG = t.before /\ t.server = RR_ADDR /\ t.chunk = BitrateOf(AVG)
    BY <1>2, AtIsNotFree DEF Own, Story
  <2>3. /\ Fields \subseteq DOMAIN u /\ u.pc = "measure" /\ u.alone = t.alone
        /\ u.before = t.before /\ u.server = t.server /\ u.chunk = t.chunk
    BY <2>2, SetFields DEF Fields
  <2> HIDE DEF u
  <2>4. Own(u, AVG', RR_ADDR')
    BY <2>2, <2>3 DEF Own, Story
  <2> QED BY <1>1, <1>2, <2>1, <2>3, <2>4, AloneGoes
<1> QED BY <1>3, <1>4, <1>5

LEMMA AloneRelayed ==
  ASSUME AloneInv, NEW c \in Clients, UNCHANGED <<AVG, RR_ADDR>>, thread[c].pc = "reading",
         NEW t, Same(thread[c], t), NEW piece, Goes(c, Relayed(t, piece))
  PROVE  AloneInv'
<1> DEFINE old == thread[c]
           t1 == Set(t, "rest", Tail(t.rest))
           t2 == Set(t1, "cl", ContentLength(t, piece))
           next == Set(t2, "left", Left(t, piece))
<1>1. Relayed(t, piece) =
        IF t.left # 0 /\ next.left <= 0 THEN AfterRead(Set(next, "counted", TRUE))
        ELSE IF piece.after = Nothing THEN next
        ELSE IF next.cl < 0 THEN Free
        ELSE Set(next, "left", BodyLeft(t, piece))
  BY Zenon DEF Relayed, Set
<1>2. old # Free /\ Fields \subseteq DOMAIN old
  BY AtIsNotFree DEF AloneInv, Own
<1>3. Same(old, t)
  OBVIOUS
<1> HIDE DEF old
<1>4. Same(old, t1)
  BY <1>2, <1>3, SetSame DEF Fields
<1> HIDE DEF t1
<1>5. Same(old, t2)
  BY <1>2, <1>4, SetSame DEF Fields
<1> HIDE DEF t2
<1>6. Same(old, next)
  BY <1>2, <1>5, SetSame DEF Fields
<1> HIDE DEF next
<1>7. Same(old, Set(next, "counted", TRUE)) /\ Same(old, Set(next, "left", BodyLeft(t, piece)))
  BY <1>2, <1>6, SetSame DEF Fields
<1>8. \/ Goes(c, AfterRead(Set(next, "counted", TRUE))) \/ Goes(c, next) \/ Goes(c, Free)
      \/ Goes(c, Set(next, "left", BodyLeft(t, piece)))
  BY <1>1, Zenon
<1> QED BY <1>2, <1>6, <1>7, <1>8, AloneRead, AloneDies DEF Dies, old

LEMMA AloneReads ==
  ASSUME AloneInv, NEW c \in Clients, InLoop(c)
  PROVE  AloneInv'
<1>1. UNCHANGED <<AVG, RR_ADDR>> /\ thread[c].pc = "reading" /\ thread[c] # Free
  BY ReadCases, AtIsNotFree
<1>2. Same(thread[c], thread[c]) /\ Fields \subseteq DOMAIN thread[c]
  BY <1>1 DEF Same, AloneInv, Own
<1>3. ASSUME NEW held PROVE Same(thread[c], Set(thread[c], "held", held))
  BY <1>2, SetSame DEF Fields
<1>4. Same(thread[c], Unheld(thread[c]))
  BY <1>3, UnheldSet
<1>5. Same(thread[c], Set(thread[c], "rest", <<Byte>>))
  BY <1>2, SetSame DEF Fields
<1> QED BY <1>1, <1>2, <1>3, <1>4, <1>5, ReadCases, AloneDies, AloneRelayed, AloneRead

-----------------------------------------------------------------------------

\* The bitrate is computed a second time, and is the one that was requested.
LEMMA AloneMeasure == ASSUME AloneInv, NEW c \in Clients, Measure(c) PROVE AloneInv'
<1>1. UNCHANGED <<AVG, RR_ADDR>> /\ thread[c].pc = "measure" /\ thread[c] # Free
  BY AtIsNotFree DEF Measure
<1>2. ASSUME NEW rate,
             Goes(c, [thread[c] EXCEPT !.pc = "load", !.rate = rate, !.b = getBR,
                                       !.rest = <<>>, !.cl = 0, !.left = 0])
      PROVE  AloneInv'
  <2> DEFINE u1 == Set(thread[c], "pc", "load")
             u2 == Set(u1, "rate", rate)
             u3 == Set(u2, "b", getBR)
             u4 == Set(u3, "rest", <<>>)
             u5 == Set(u4, "cl", 0)
             u6 == Set(u5, "left", 0)
  <2>1. Goes(c, u6)
    BY <1>2, Zenon DEF Set
  <2>2. /\ Fields \subseteq DOMAIN thread[c]
        /\ thread[c].alone => AVG = thread[c].before /\ thread[c].server = RR_ADDR
                              /\ thread[c].chunk = BitrateOf(AVG)
    BY <1>1 DEF AloneInv, Own, Story
  <2>3. /\ Fields \subseteq DOMAIN u1 /\ u1.pc = "load" /\ u1.alone = thread[c].alone
        /\ u1.before = thread[c].before /\ u1.server = thread[c].server
        /\ u1.chunk = thread[c].chunk
    BY <2>2, SetFields DEF Fields
  <2> HIDE DEF u1
  <2>4. /\ Fields \subseteq DOMAIN u2 /\ u2.pc = "load" /\ u2.alone = thread[c].alone
        /\ u2.before = thread[c].before /\ u2.server = thread[c].server
        /\ u2.chunk = thread[c].chunk
    BY <2>3, SetFields DEF Fields
  <2> HIDE DEF u2
  <2>5. /\ Fields \subseteq DOMAIN u3 /\ u3.pc = "load" /\ u3.alone = thread[c].alone
        /\ u3.before = thread[c].before /\ u3.server = thread[c].server
        /\ u3.chunk = thread[c].chunk /\ u3.b = BitrateOf(AVG)
    BY <2>4, SetFields DEF Fields, getBR, BitrateOf
  <2> HIDE DEF u3
  <2>6. Same(u3, u4)
    BY <2>5, SetSame DEF Same, Fields
  <2> HIDE DEF u4
  <2>7. Same(u3, u5)
    BY <2>5, <2>6, SetSame DEF Fields
  <2> HIDE DEF u5
  <2>8. Same(u3, u6)
    BY <2>5, <2>7, SetSame DEF Fields
  <2> HIDE DEF u6
  <2>9. Own(u3, AVG', RR_ADDR') /\ u3 # Free
    BY <1>1, <2>2, <2>5, AtIsNotFree DEF Own, Story
  <2>10. Own(u6, AVG', RR_ADDR') /\ (u6.alone => u3.alone)
    BY <2>8, <2>9, SameStory
  <2> QED BY <1>1, <2>1, <2>5, <2>10, AloneGoes
<1>3. Dies(c) \/ \E rate \in Rates :
        Goes(c, [thread[c] EXCEPT !.pc = "load", !.rate = rate, !.b = getBR,
                                  !.rest = <<>>, !.cl = 0, !.left = 0])
  BY Zenon DEF Measure
<1> QED BY <1>1, <1>2, <1>3, AloneDies

LEMMA AloneLoad == ASSUME AloneInv, NEW c \in Clients, Load(c) PROVE AloneInv'
<1>1. UNCHANGED <<AVG, RR_ADDR>> /\ thread[c].pc = "load" /\ thread[c] # Free
  BY AtIsNotFree DEF Load
<1> DEFINE u == Set(thread[c], "pc", "store")
           v == Set(u, "read", AVG)
<1>2. Goes(c, v)
  BY Zenon DEF Load, Set
<1>3. /\ Fields \subseteq DOMAIN thread[c]
      /\ thread[c].alone => AVG = thread[c].before /\ thread[c].server = RR_ADDR
                            /\ thread[c].b = thread[c].chunk
  BY <1>1 DEF AloneInv, Own, Story
<1>4. /\ Fields \subseteq DOMAIN u /\ u.pc = "store" /\ u.alone = thread[c].alone
      /\ u.before = thread[c].before /\ u.server = thread[c].server
      /\ u.chunk = thread[c].chunk /\ u.b = thread[c].b
  BY <1>3, SetFields DEF Fields
<1> HIDE DEF u
<1>5. /\ Fields \subseteq DOMAIN v /\ v.pc = "store" /\ v.alone = thread[c].alone
      /\ v.before = thread[c].before /\ v.server = thread[c].server
      /\ v.chunk = thread[c].chunk /\ v.b = thread[c].b /\ v.read = AVG
  BY <1>4, SetFields DEF Fields
<1> HIDE DEF v
<1>6. Own(v, AVG', RR_ADDR')
  BY <1>1, <1>3, <1>5 DEF Own, Story
<1> QED BY <1>1, <1>2, <1>5, <1>6, AloneGoes

\* Between the two halves of the update nobody else has moved the average.
LEMMA AloneStore == ASSUME AloneInv, NEW c \in Clients, Store(c) PROVE AloneInv'
<1>1. /\ AVG' = Average(thread[c].read, thread[c].rate) /\ UNCHANGED RR_ADDR
      /\ thread[c].pc = "store" /\ thread[c] # Free
  BY AtIsNotFree DEF Store
<1> DEFINE u == Set(thread[c], "pc", "log")
           v == Set(u, "read", 0)
<1>2. Goes(c, v)
  BY Zenon DEF Store, Set
<1>3. /\ Fields \subseteq DOMAIN thread[c]
      /\ thread[c].alone => thread[c].read = thread[c].before /\ thread[c].server = RR_ADDR
                            /\ thread[c].b = thread[c].chunk
  BY <1>1 DEF AloneInv, Own, Story
<1>4. /\ Fields \subseteq DOMAIN u /\ u.pc = "log" /\ u.alone = thread[c].alone
      /\ u.before = thread[c].before /\ u.server = thread[c].server
      /\ u.chunk = thread[c].chunk /\ u.b = thread[c].b /\ u.rate = thread[c].rate
  BY <1>3, SetFields DEF Fields
<1> HIDE DEF u
<1>5. /\ Fields \subseteq DOMAIN v /\ v.pc = "log" /\ v.alone = thread[c].alone
      /\ v.before = thread[c].before /\ v.server = thread[c].server
      /\ v.chunk = thread[c].chunk /\ v.b = thread[c].b /\ v.rate = thread[c].rate
  BY <1>4, SetFields DEF Fields
<1> HIDE DEF v
<1>6. Own(v, AVG', RR_ADDR')
  BY <1>1, <1>3, <1>5 DEF Own, Story
<1> QED BY <1>1, <1>2, <1>5, <1>6, AloneGoes

LEMMA AloneWrites == ASSUME AloneInv, NEW c \in Clients, WriteLog(c) PROVE AloneInv'
<1>1. UNCHANGED <<AVG, RR_ADDR>> /\ thread[c].pc = "log" /\ thread[c] # Free
  BY AtIsNotFree DEF WriteLog
<1> DEFINE u == Set(thread[c], "pc", "close")
           v == Set(u, "line", LogLine(c))
<1>2. Goes(c, v)
  BY Zenon DEF WriteLog, Set
<1>3. /\ Fields \subseteq DOMAIN thread[c]
      /\ thread[c].alone => LogLine(c) = ExpectedLine(thread[c])
  BY <1>1 DEF AloneInv, Own, Story, LogLine, ExpectedLine
<1>4. /\ Fields \subseteq DOMAIN u /\ u.pc = "close" /\ u.alone = thread[c].alone
      /\ u.before = thread[c].before /\ u.server = thread[c].server
      /\ u.chunk = thread[c].chunk /\ u.rate = thread[c].rate
  BY <1>3, SetFields DEF Fields
<1> HIDE DEF u
<1>5. /\ Fields \subseteq DOMAIN v /\ v.pc = "close" /\ v.alone = thread[c].alone
      /\ v.before = thread[c].before /\ v.server = thread[c].server
      /\ v.chunk = thread[c].chunk /\ v.rate = thread[c].rate /\ v.line = LogLine(c)
  BY <1>4, SetFields DEF Fields
<1> HIDE DEF v
<1>6. Own(v, AVG', RR_ADDR')
  BY <1>1, <1>3, <1>5 DEF Own, Story, ExpectedLine
<1> QED BY <1>1, <1>2, <1>5, <1>6, AloneGoes

-----------------------------------------------------------------------------

\* The line of a thread that ran alone tells what it did: the bitrate it
\* requested, its server, and the average with its own rate.
THEOREM AloneLoggedCorrect == ProxySpec => []AloneLogged
<1>1. Init /\ ProxyInit => AloneInv
  BY DEF ProxyInit, AloneInv, Own
<1>2. AloneInv /\ [ProxyNext]_<<rnsVars, proxyVars>> => AloneInv'
  <2> SUFFICES ASSUME AloneInv, [ProxyNext]_<<rnsVars, proxyVars>> PROVE AloneInv'
    OBVIOUS
  <2>1. CASE UNCHANGED proxyVars
    BY <2>1, AloneSame DEF proxyVars
  <2>2. ASSUME NEW c \in Clients, Accept(c) \/ ThreadStep(c) \/ Resolved(c) \/ Outside(c) PROVE AloneInv'
    <3>1. CASE Close(c)
      BY <3>1, AloneDies, AtIsNotFree DEF Close, Dies
    <3> QED BY <2>2, <3>1, AloneAccept, AloneAsked, AloneConnect, AloneChoose, AloneReads, AloneMeasure,
               AloneLoad, AloneStore, AloneWrites DEF ThreadStep, InLoop
  <2> QED BY <2>1, <2>2 DEF ProxyNext, proxyVars
<1>3. AloneInv => AloneLogged
  BY AtIsNotFree DEF AloneInv, Own, Story, ExpectedLine, AloneLogged
<1> QED BY <1>1, <1>2, <1>3, PTL DEF ProxySpec

-----------------------------------------------------------------------------
(* The rotation of the name server *)

IsSequence(s) == \E Values : s \in Seq(Values)

\* The place in the server file is the number of answers, modulo its length.
RotationInv ==
  /\ server = [up |-> server.up, curr |-> server.curr, globals |-> server.globals]
  /\ IsSequence(given)
  /\ roundRobin =>
       /\ server.curr \in 0 .. Len(Servers) - 1
       /\ \E rounds \in 0 .. Len(given) : Len(given) = rounds * Len(Servers) + server.curr

LEMMA ServersFacts ==
  IsSequence(Servers) /\ Len(Servers) \in Nat \ {0} /\ DOMAIN Servers = 1 .. Len(Servers)
BY ServersAssumption DEF IsSequence

LEMMA AppendFacts ==
  ASSUME NEW s, IsSequence(s), NEW e
  PROVE  /\ IsSequence(Append(s, e)) /\ Len(s) \in Nat /\ Len(Append(s, e)) = Len(s) + 1
         /\ DOMAIN s = 1 .. Len(s) /\ DOMAIN Append(s, e) = 1 .. Len(s) + 1
         /\ Append(s, e)[Len(s) + 1] = e
         /\ \A i \in 1 .. Len(s) : Append(s, e)[i] = s[i]
<1>1. PICK Values : s \in Seq(Values)
  BY DEF IsSequence
<1>2. s \in Seq(Values \cup {e}) /\ e \in Values \cup {e}
  BY <1>1
<1>3. Append(s, e) \in Seq(Values \cup {e})
  BY <1>2
<1>4. IsSequence(Append(s, e))
  BY <1>3 DEF IsSequence
<1> QED BY <1>2, <1>4

\* A message that is understood: its answer is given, and -r goes on.
LEMMA ServeStep ==
  ASSUME RotationInv, Serve
  PROVE  /\ UNCHANGED roundRobin
         /\ server' = [up |-> server'.up, curr |-> server'.curr, globals |-> server'.globals]
         /\ roundRobin => server'.curr = NextCurr
         /\ \E a : given' = Append(given, a) /\ (roundRobin => a.server = Servers[server.curr + 1])
<1>0. PICK query \in queries : \E globals :
        /\ server' = [server EXCEPT !.globals = globals, !.curr = IF roundRobin THEN NextCurr ELSE @]
        /\ given' = Append(given, [client |-> query.from[1], server |-> Chosen(query.from[1]),
                                   covered |-> Covered])
  BY Zenon DEF Serve
<1>1. PICK globals :
        /\ server' = [server EXCEPT !.globals = globals, !.curr = IF roundRobin THEN NextCurr ELSE @]
        /\ given' = Append(given, [client |-> query.from[1], server |-> Chosen(query.from[1]),
                                   covered |-> Covered])
  BY <1>0
<1> DEFINE curr == IF roundRobin THEN NextCurr ELSE server.curr
<1>2. server' = [up |-> server.up, curr |-> curr, globals |-> globals]
  <2>1. server' = Set(Set(server, "globals", globals), "curr", curr)
    BY <1>1, Zenon DEF Set
  <2> HIDE DEF curr
  <2> DEFINE s1 == Set(server, "globals", globals)
  <2>2. s1 = [up |-> server.up, curr |-> server.curr, globals |-> globals]
    <3>1. server = [up |-> server.up, curr |-> server.curr, globals |-> server.globals]
      BY DEF RotationInv
    <3>2. Set([up |-> server.up, curr |-> server.curr, globals |-> server.globals], "globals", globals)
            = [up |-> server.up, curr |-> server.curr, globals |-> globals]
      BY DEF Set
    <3> QED BY <3>1, <3>2, Zenon
  <2>3. Set(s1, "curr", curr) = [up |-> server.up, curr |-> curr, globals |-> globals]
    <3> HIDE DEF s1
    <3> QED BY <2>2 DEF Set
  <2> QED BY <2>1, <2>3
<1>3. roundRobin => Chosen(query.from[1]) = Servers[server.curr + 1]
  BY Zenon DEF Chosen
<1> HIDE DEF curr
<1>4. UNCHANGED roundRobin
  BY DEF Serve
<1>5. roundRobin => curr = NextCurr
  BY DEF curr
<1>6. server' = [up |-> server'.up, curr |-> server'.curr, globals |-> server'.globals]
      /\ server'.curr = curr
  BY <1>2
<1> DEFINE a == [client |-> query.from[1], server |-> Chosen(query.from[1]), covered |-> Covered]
<1>7. given' = Append(given, a) /\ a.server = Chosen(query.from[1])
  BY <1>1
<1> HIDE DEF a
<1> QED BY <1>3, <1>4, <1>5, <1>6, <1>7

LEMMA ServeRotates == ASSUME RotationInv, Serve PROVE RotationInv'
<1>1. PICK a : given' = Append(given, a)
  BY ServeStep
<1>2. IsSequence(given') /\ Len(given) \in Nat /\ Len(given') = Len(given) + 1
  BY <1>1, AppendFacts DEF RotationInv
<1>3. SUFFICES ASSUME roundRobin
               PROVE  /\ server'.curr \in 0 .. Len(Servers) - 1
                      /\ \E rounds \in 0 .. Len(given') :
                           Len(given') = rounds * Len(Servers) + server'.curr
  BY <1>2, ServeStep DEF RotationInv
<1> DEFINE n == Len(Servers)
           k == server.curr
<1>4. n \in Nat \ {0} /\ k \in 0 .. n - 1 /\ server'.curr = (k + 1) % n
  BY <1>3, ServeStep, ServersFacts DEF RotationInv, NextCurr
<1>5. PICK rounds \in 0 .. Len(given) : Len(given) = rounds * n + k
  BY <1>3 DEF RotationInv
<1> HIDE DEF n, k
<1>6. rounds * n \in Nat /\ (rounds + 1) * n = rounds * n + n
  BY <1>2, <1>4, <1>5
<1>7. CASE k + 1 = n
  <2>1. server'.curr = 0
    BY <1>4, <1>7
  <2>2. Len(given') = (rounds + 1) * n + 0
    BY <1>2, <1>4, <1>5, <1>6, <1>7
  <2>3. rounds + 1 \in 0 .. Len(given')
    BY <1>2, <1>5
  <2>4. 0 \in 0 .. n - 1
    BY <1>4
  <2> QED BY <2>1, <2>2, <2>3, <2>4 DEF n
<1>8. CASE k + 1 # n
  <2>1. server'.curr = k + 1 /\ k + 1 \in 0 .. n - 1
    BY <1>4, <1>8
  <2>2. Len(given') = rounds * n + (k + 1)
    BY <1>2, <1>4, <1>5, <1>6
  <2>3. rounds \in 0 .. Len(given')
    BY <1>2, <1>5
  <2> QED BY <2>1, <2>2, <2>3 DEF n
<1> QED BY <1>7, <1>8

\* The other steps give no answer.
LEMMA OthersGive ==
  ASSUME [Next]_rnsVars, ~Serve
  PROVE  /\ UNCHANGED <<roundRobin, given>>
         /\ server' = server \/ server' = [server EXCEPT !.up = FALSE]
<1>1. CASE ServeRaises
  BY <1>1 DEF ServeRaises
<1>2. ASSUME NEW c \in Clients, Get(c) \/ TimeOut(c) \/ \E name \in Names : Ask(c, name)
      PROVE  UNCHANGED <<roundRobin, server, given>>
  BY <1>2 DEF Get, TimeOut, Ask
<1>3. CASE Stray
  BY <1>3 DEF Stray
<1>4. CASE Generate
  BY <1>4 DEF Generate, NextRound, Announce
<1>5. CASE UNCHANGED rnsVars
  BY <1>5 DEF rnsVars
<1> QED BY <1>1, <1>2, <1>3, <1>4, <1>5 DEF Next

LEMMA RotationNext == RotationInv /\ [Next]_rnsVars => RotationInv'
<1> SUFFICES ASSUME RotationInv, [Next]_rnsVars, ~Serve PROVE RotationInv'
  BY ServeRotates
<1>1. /\ UNCHANGED <<roundRobin, given>> /\ server'.curr = server.curr
      /\ server' = [up |-> server'.up, curr |-> server'.curr, globals |-> server'.globals]
  BY OthersGive DEF RotationInv
<1> QED BY <1>1 DEF RotationInv, IsSequence

\* With -r the answers, to whomever and whatever datagrams are lost, late or
\* meaningless, go through any server file in order and start over.
THEOREM RotationCorrect == Spec => ImplementsRoundRobin
<1>1. Init => RotationInv /\ Abstract!Init
  <2> SUFFICES ASSUME Init PROVE RotationInv /\ Abstract!Init
    OBVIOUS
  <2>1. given = <<>> /\ server = [up |-> TRUE, curr |-> 0, globals |-> Fresh(0)]
    BY DEF Init
  <2>2. IsSequence(given) /\ Len(given) = 0 /\ DOMAIN given = {}
    BY <2>1 DEF IsSequence
  <2>3. 0 * Len(Servers) + 0 = 0 /\ 0 \in 0 .. Len(Servers) - 1
    BY ServersFacts
  <2>4. Abstract!Init
    BY <2>1 DEF Abstract!Init, ServersGiven
  <2> QED BY <2>1, <2>2, <2>3, <2>4 DEF RotationInv
<1>2. RotationInv /\ [Next]_rnsVars => [Abstract!Answer]_ServersGiven
  <2> SUFFICES ASSUME RotationInv, [Next]_rnsVars PROVE [Abstract!Answer]_ServersGiven
    OBVIOUS
  <2>1. CASE ~Serve
    BY <2>1, OthersGive DEF ServersGiven
  <2>2. CASE Serve /\ ~roundRobin
    BY <2>2, ServeStep DEF ServersGiven
  <2>3. CASE Serve /\ roundRobin
    <3>1. PICK a : given' = Append(given, a) /\ a.server = Servers[server.curr + 1]
      BY <2>3, ServeStep
    <3>2. /\ Len(given) \in Nat /\ DOMAIN given = 1 .. Len(given)
          /\ DOMAIN given' = 1 .. Len(given) + 1 /\ given'[Len(given) + 1] = a
          /\ \A i \in 1 .. Len(given) : given'[i] = given[i]
      BY <3>1, AppendFacts DEF RotationInv
    <3>3. roundRobin' /\ server.curr + 1 \in 1 .. Len(Servers)
      <4>1. roundRobin'
        BY <2>3, ServeStep
      <4>2. server.curr \in 0 .. Len(Servers) - 1 /\ Len(Servers) \in Nat
        BY <2>3, ServersFacts DEF RotationInv
      <4> QED BY <4>1, <4>2
    <3>4. ServersGiven = [i \in 1 .. Len(given) |-> given[i].server] /\ Len(ServersGiven) = Len(given)
      BY <2>3, <3>2 DEF ServersGiven
    <3>5. ServersGiven' = [i \in 1 .. Len(given) + 1 |-> given'[i].server]
      BY <3>2, <3>3 DEF ServersGiven
    <3>6. ServersGiven' = Append(ServersGiven, Servers[server.curr + 1])
      BY <3>1, <3>2, <3>4, <3>5
    <3>7. \E rounds \in 0 .. Len(ServersGiven) :
            Len(ServersGiven) + 1 = rounds * Len(Servers) + (server.curr + 1)
      <4>1. PICK rounds \in 0 .. Len(given) : Len(given) = rounds * Len(Servers) + server.curr
        BY <2>3 DEF RotationInv
      <4>2. rounds * Len(Servers) \in Nat /\ server.curr \in Nat
        BY <3>2, <3>3, ServersFacts, <4>1, <2>3 DEF RotationInv
      <4> QED BY <3>2, <3>4, <4>1, <4>2
    <3> QED BY <3>3, <3>6, <3>7 DEF Abstract!Answer, Abstract!Turn
  <2> QED BY <2>1, <2>2, <2>3
<1> QED BY <1>1, <1>2, RotationNext, PTL DEF Spec, ImplementsRoundRobin, Abstract!Spec

-----------------------------------------------------------------------------
(* The count of a body *)

\* The pieces are what is left of a body of n octets, none of which looks like
\* a head's Content-Length: remaining[i] is what the first i of them leave.
Body(pieces, n) ==
  \E remaining \in [0 .. Len(pieces) -> Nat] :
    /\ remaining[0] = n /\ remaining[Len(pieces)] = 0
    /\ \A i \in DOMAIN pieces :
         pieces[i].cl = Nothing /\ remaining[i - 1] = remaining[i] + pieces[i].length

\* If the first piece has the whole head, with its Content-Length, then no more
\* comes behind it than that length leaves.
Honest(answer) ==
  answer[1].after # Nothing /\ answer[1].cl \in Nat =>
    \E n \in Nat : n <= answer[1].cl - answer[1].after /\ Body(Tail(answer), n)

Pieces == {piece \in [length : Nat \ {0}, cl : Nat \cup {Nothing, Malformed}, after : Nat \cup {Nothing}] :
             piece.after <= piece.length}

LEMMA AnswerPieces ==
  ASSUME NEW answer \in WebAnswers
  PROVE  answer \in Seq(Pieces) /\ answer # <<>>
<1> DEFINE R == [length : Nat \ {0}, cl : Nat \cup {Nothing, Malformed}, after : Nat \cup {Nothing}]
<1>1. answer \in Seq(R) /\ answer # <<>>
  BY WebAnswersAssumption
<1>2. \A i \in DOMAIN answer : answer[i].after <= answer[i].length
  BY WebAnswersAssumption
<1> HIDE DEF R
<1>3. \A i \in 1 .. Len(answer) : answer[i] \in R
  BY <1>1, ElementOfSeq
<1>4. \A i \in 1 .. Len(answer) : answer[i] \in Pieces
  BY <1>1, <1>2, <1>3 DEF Pieces, R
<1>5. answer \in Seq(Pieces)
  BY <1>1, <1>4
<1> QED BY <1>1, <1>5

\* A piece of a body is counted off; what is left of an empty body is nothing.
LEMMA BodyTail ==
  ASSUME NEW pieces \in Seq(Pieces), pieces # <<>>, NEW n \in Nat, Body(pieces, n)
  PROVE  /\ n - Head(pieces).length \in Nat /\ Body(Tail(pieces), n - Head(pieces).length)
         /\ Head(pieces).cl = Nothing
<1> DEFINE m == Len(pieces)
<1>1. PICK remaining \in [0 .. m -> Nat] :
        /\ remaining[0] = n /\ remaining[m] = 0
        /\ \A i \in 1 .. m :
             pieces[i].cl = Nothing /\ remaining[i - 1] = remaining[i] + pieces[i].length
  BY DEF Body
<1>2. m \in Nat \ {0} /\ Head(pieces) = pieces[1] /\ Len(Tail(pieces)) = m - 1
      /\ \A i \in 1 .. m - 1 : Tail(pieces)[i] = pieces[i + 1]
  BY HeadTailProperties
<1>3. pieces[1].length \in Nat /\ remaining[1] \in Nat /\ remaining[0] = remaining[1] + pieces[1].length
  <2>1. pieces[1] \in Pieces
    BY <1>2, ElementOfSeq
  <2> QED BY <1>1, <1>2, <2>1 DEF Pieces
<1> DEFINE r == [i \in 0 .. m - 1 |-> remaining[i + 1]]
<1> HIDE DEF m
<1>4. r \in [0 .. m - 1 -> Nat] /\ r[0] = remaining[1] /\ r[m - 1] = 0
  BY <1>1, <1>2
<1>5. \A i \in 1 .. m - 1 : Tail(pieces)[i].cl = Nothing /\ r[i - 1] = r[i] + Tail(pieces)[i].length
  <2> SUFFICES ASSUME NEW i \in 1 .. m - 1
               PROVE  Tail(pieces)[i].cl = Nothing /\ r[i - 1] = r[i] + Tail(pieces)[i].length
    OBVIOUS
  <2>1. Tail(pieces)[i] = pieces[i + 1] /\ i + 1 \in 1 .. m
    BY <1>2
  <2>2. r[i - 1] = remaining[i] /\ r[i] = remaining[i + 1]
    BY <1>2
  <2>3. pieces[i + 1].cl = Nothing /\ remaining[(i + 1) - 1] = remaining[i + 1] + pieces[i + 1].length
    BY <1>1, <2>1
  <2>4. (i + 1) - 1 = i
    OBVIOUS
  <2> HIDE DEF r
  <2> QED BY <2>1, <2>2, <2>3, <2>4, Zenon
<1>6. DOMAIN Tail(pieces) = 1 .. m - 1
  BY <1>2, HeadTailProperties
<1> HIDE DEF r
<1>7. Body(Tail(pieces), r[0])
  BY <1>2, <1>4, <1>5, <1>6 DEF Body
<1>8. r[0] = n - Head(pieces).length
  BY <1>1, <1>2, <1>3, <1>4
<1>9. r[0] \in Nat
  BY <1>1, <1>2, <1>4
<1>10. Head(pieces).cl = Nothing
  BY <1>1, <1>2
<1> QED BY <1>7, <1>8, <1>9, <1>10

\* No pieces are a body of no octets.
LEMMA BodyOfNothing == Body(<<>>, 0)
<1> DEFINE remaining == [i \in 0 .. 0 |-> 0]
<1>1. Len(<<>>) = 0 /\ DOMAIN <<>> = {}
  OBVIOUS
<1>2. remaining \in [0 .. Len(<<>>) -> Nat] /\ remaining[0] = 0 /\ remaining[Len(<<>>)] = 0
  BY <1>1
<1> HIDE DEF remaining
<1> QED BY <1>1, <1>2, Zenon DEF Body

LEMMA BodyEmpty == ASSUME NEW pieces \in Seq(Pieces), Body(pieces, 0) PROVE pieces = <<>>
<1> SUFFICES ASSUME pieces # <<>> PROVE FALSE
  OBVIOUS
<1>1. 0 - Head(pieces).length \in Nat
  BY BodyTail
<1>2. Head(pieces) \in Pieces
  BY HeadTailProperties
<1> QED BY <1>1, <1>2 DEF Pieces

-----------------------------------------------------------------------------

CountFields == {"pc", "rest", "cl", "left", "whole", "counted"}

\* Nothing has come, or what is left of the body is not more than is counted, or
\* all of it was there and the server sends on.
CountsBody(rest, cl, left) ==
  \/ /\ rest \in WebAnswers /\ rest[1].after # Nothing
     /\ cl = Nothing /\ left = 0
  \/ /\ rest \in Seq(Pieces) /\ cl \in Nat /\ left \in Nat
     /\ \E n \in Nat : n <= left /\ n <= cl /\ Body(rest, n)
  \/ rest = <<Byte>> /\ cl \in Nat /\ left = 0

BeforeReading == {"resolve", "asking", "choose"}

CountOK(t) ==
  t # Free =>
    /\ CountFields \subseteq DOMAIN t
    /\ t.pc \in BeforeReading => t.cl = Nothing /\ t.left = 0 /\ t.counted = FALSE
    /\ t.pc = "reading" => t.counted = FALSE
    /\ t.pc = "reading" /\ t.whole = TRUE => CountsBody(t.rest, t.cl, t.left)
    /\ t.pc = "measure" /\ t.whole = TRUE /\ t.counted = TRUE => t.rest = <<>>

\* WholeAnswer is not inductive: the count must be right in the loop.
CountInv ==
  /\ thread = [c \in Clients |-> thread[c]]
  /\ \A c \in Clients : CountOK(thread[c])

LEMMA CountGoes ==
  ASSUME CountInv, NEW c \in Clients, NEW t, Goes(c, t), CountOK(t)
  PROVE  CountInv'
<1>1. thread' = [d \in Clients |-> IF d = c THEN t ELSE thread[d]]
  BY DEF CountInv, Goes
<1>2. \A d \in Clients : CountOK(thread'[d])
  BY <1>1 DEF CountInv
<1>3. thread' = [d \in Clients |-> thread'[d]]
  BY <1>1
<1> QED BY <1>2, <1>3 DEF CountInv

LEMMA CountDies == ASSUME CountInv, NEW c \in Clients, Dies(c) PROVE CountInv'
BY CountGoes DEF Dies, CountOK

\* One field changes and the others stay.
LEMMA SetPlace ==
  ASSUME NEW t, CountFields \subseteq DOMAIN t, NEW value
  PROVE  LET u == Set(t, "pc", value)
         IN  /\ CountFields \subseteq DOMAIN u
             /\ u.pc = value /\ u.rest = t.rest /\ u.cl = t.cl
             /\ u.left = t.left /\ u.whole = t.whole /\ u.counted = t.counted
BY SetField DEF CountFields

LEMMA SetRest ==
  ASSUME NEW t, CountFields \subseteq DOMAIN t, NEW value
  PROVE  LET u == Set(t, "rest", value)
         IN  /\ CountFields \subseteq DOMAIN u
             /\ u.pc = t.pc /\ u.rest = value /\ u.cl = t.cl
             /\ u.left = t.left /\ u.whole = t.whole /\ u.counted = t.counted
BY SetField DEF CountFields

LEMMA SetCl ==
  ASSUME NEW t, CountFields \subseteq DOMAIN t, NEW value
  PROVE  LET u == Set(t, "cl", value)
         IN  /\ CountFields \subseteq DOMAIN u
             /\ u.pc = t.pc /\ u.rest = t.rest /\ u.cl = value
             /\ u.left = t.left /\ u.whole = t.whole /\ u.counted = t.counted
BY SetField DEF CountFields

LEMMA SetLeft ==
  ASSUME NEW t, CountFields \subseteq DOMAIN t, NEW value
  PROVE  LET u == Set(t, "left", value)
         IN  /\ CountFields \subseteq DOMAIN u
             /\ u.pc = t.pc /\ u.rest = t.rest /\ u.cl = t.cl
             /\ u.left = value /\ u.whole = t.whole /\ u.counted = t.counted
BY SetField DEF CountFields

LEMMA SetCounted ==
  ASSUME NEW t, CountFields \subseteq DOMAIN t
  PROVE  LET u == Set(t, "counted", TRUE)
         IN  /\ CountFields \subseteq DOMAIN u
             /\ u.pc = t.pc /\ u.rest = t.rest /\ u.cl = t.cl
             /\ u.left = t.left /\ u.whole = t.whole /\ u.counted = TRUE
<1> DEFINE u == Set(t, "counted", TRUE)
<1>1. DOMAIN u = DOMAIN t /\ "counted" \in DOMAIN t
  BY DEF CountFields, Set
<1>2. u["counted"] = TRUE
  BY <1>1, Zenon DEF Set
<1>3. \A f \in DOMAIN t : f # "counted" => u[f] = t[f]
  BY Zenon DEF Set
<1> HIDE DEF u
<1>4. /\ CountFields \subseteq DOMAIN u
      /\ u.pc = t.pc /\ u.rest = t.rest /\ u.cl = t.cl /\ u.left = t.left /\ u.whole = t.whole
  BY <1>1, <1>3 DEF CountFields
<1> QED BY <1>2, <1>4, Zenon DEF u

LEMMA SetElse ==
  ASSUME NEW t, CountFields \subseteq DOMAIN t, NEW field, field \notin CountFields, NEW value
  PROVE  LET u == Set(t, field, value)
         IN  /\ CountFields \subseteq DOMAIN u
             /\ u.pc = t.pc /\ u.rest = t.rest /\ u.cl = t.cl
             /\ u.left = t.left /\ u.whole = t.whole /\ u.counted = t.counted
BY SetField DEF CountFields

\* Nor does it on whether the thread ran alone.
LEMMA SetAlone ==
  ASSUME NEW t, CountFields \subseteq DOMAIN t
  PROVE  LET u == Set(t, "alone", FALSE)
         IN  /\ CountFields \subseteq DOMAIN u
             /\ u.pc = t.pc /\ u.rest = t.rest /\ u.cl = t.cl
             /\ u.left = t.left /\ u.whole = t.whole /\ u.counted = t.counted
<1> DEFINE u == Set(t, "alone", FALSE)
<1>1. DOMAIN u = DOMAIN t
  BY DEF Set
<1>2. \A f \in DOMAIN t : f # "alone" => u[f] = t[f]
  BY Zenon DEF Set
<1> HIDE DEF u
<1>3. /\ CountFields \subseteq DOMAIN u
      /\ u.pc = t.pc /\ u.rest = t.rest /\ u.cl = t.cl
      /\ u.left = t.left /\ u.whole = t.whole /\ u.counted = t.counted
  BY <1>1, <1>2 DEF CountFields
<1> QED BY <1>3, Zenon DEF u

\* A field that the count does not depend on.
LEMMA CountOther ==
  ASSUME NEW t, t # Free, CountOK(t), t.pc # "free", NEW field, field \notin CountFields, NEW value
  PROVE  LET u == Set(t, field, value)
         IN  /\ CountOK(u) /\ u # Free /\ u.pc = t.pc /\ u.rest = t.rest /\ u.cl = t.cl
             /\ u.left = t.left /\ u.whole = t.whole /\ u.counted = t.counted
             /\ CountFields \subseteq DOMAIN u
<1> DEFINE u == Set(t, field, value)
<1>1. /\ u.pc = t.pc /\ u.rest = t.rest /\ u.cl = t.cl
      /\ u.left = t.left /\ u.whole = t.whole /\ u.counted = t.counted
      /\ CountFields \subseteq DOMAIN u
  BY SetField DEF CountOK, CountFields
<1> HIDE DEF u
<1>2. u # Free
  BY <1>1, AtIsNotFree
<1> QED BY <1>1, <1>2 DEF CountOK, u

\* A thread that goes on behind the loop, or before it.
LEMMA CountPc ==
  ASSUME NEW t, t # Free, CountOK(t), NEW pc,
         \/ pc \in BeforeReading /\ t.pc \in BeforeReading
         \/ pc \in {"load", "store", "log", "close"}
  PROVE  CountOK(Set(t, "pc", pc)) /\ Set(t, "pc", pc) # Free /\ Set(t, "pc", pc).pc = pc
<1> DEFINE u == Set(t, "pc", pc)
<1>1. /\ u.pc = pc /\ u.rest = t.rest /\ u.cl = t.cl
      /\ u.left = t.left /\ u.whole = t.whole /\ u.counted = t.counted
      /\ CountFields \subseteq DOMAIN u
  BY SetField DEF CountOK, CountFields
<1> HIDE DEF u
<1>2. u # Free
  BY <1>1, AtIsNotFree DEF BeforeReading
<1> QED BY <1>1, <1>2 DEF CountOK, u, BeforeReading

LEMMA CountAccept == ASSUME CountInv, NEW c \in Clients, Accept(c) PROVE CountInv'
<1>1. PICK isSeg \in BOOLEAN :
        thread' = [d \in Clients |->
          IF d = c THEN NewThread(isSeg, \A e \in Clients : thread[e] = Free)
          ELSE IF thread[d] = Free THEN Free ELSE [thread[d] EXCEPT !.alone = FALSE, !.before = 0]]
  BY DEF Accept
<1>2. ASSUME NEW p PROVE CountOK(NewThread(isSeg, p))
  BY DEF NewThread, CountOK, CountFields, BeforeReading
<1>3. ASSUME NEW d \in Clients, thread[d] # Free
      PROVE  CountOK([thread[d] EXCEPT !.alone = FALSE, !.before = 0])
  <2> DEFINE t == thread[d]
             u == Set(t, "alone", FALSE)
             v == Set(u, "before", 0)
  <2>a. "alone" \notin CountFields /\ "before" \notin CountFields
    BY DEF CountFields
  <2>0. CountFields \subseteq DOMAIN t
    BY <1>3 DEF CountOK, CountInv
  <2>1. /\ u.pc = t.pc /\ u.rest = t.rest /\ u.cl = t.cl
        /\ u.left = t.left /\ u.whole = t.whole /\ u.counted = t.counted
        /\ CountFields \subseteq DOMAIN u
    BY <2>0, SetAlone, Zenon
  <2>2. CountOK(t)
    BY DEF CountInv
  <2> HIDE DEF u, t
  <2>3. /\ v.pc = t.pc /\ v.rest = t.rest /\ v.cl = t.cl
        /\ v.left = t.left /\ v.whole = t.whole /\ v.counted = t.counted
        /\ CountFields \subseteq DOMAIN v
    BY <2>1, <2>a, SetElse
  <2>4. v = [thread[d] EXCEPT !.alone = FALSE, !.before = 0]
    BY Zenon DEF u, t, Set
  <2> HIDE DEF v
  <2>5. CountOK(v)
    BY <1>3, <2>2, <2>3 DEF CountOK, t
  <2> QED BY <2>4, <2>5
<1>4. CountOK(Free)
  BY DEF CountOK
<1>5. \A d \in Clients : CountOK(thread'[d])
  BY <1>1, <1>2, <1>3, <1>4
<1>6. thread' = [d \in Clients |-> thread'[d]]
  BY <1>1
<1> QED BY <1>5, <1>6 DEF CountInv

LEMMA CountAsked ==
  ASSUME CountInv, NEW c \in Clients, Resolve(c) \/ Resolved(c) \/ NotResolved(c)
  PROVE  CountInv'
<1>1. thread[c].pc \in BeforeReading /\ thread[c] # Free /\ CountOK(thread[c])
  BY AtIsNotFree DEF Resolve, Resolved, NotResolved, BeforeReading, CountInv
<1>2. \/ Goes(c, Set(thread[c], "pc", "asking")) \/ Goes(c, Set(thread[c], "pc", "resolve"))
      \/ Dies(c) \/ UNCHANGED thread
  BY Zenon DEF Resolve, Resolved, NotResolved, Set
<1>3. CountOK(Set(thread[c], "pc", "asking")) /\ CountOK(Set(thread[c], "pc", "resolve"))
  BY <1>1, CountPc DEF BeforeReading
<1>4. UNCHANGED thread => CountInv'
  BY DEF CountInv
<1> QED BY <1>2, <1>3, <1>4, CountGoes, CountDies

LEMMA CountConnect == ASSUME CountInv, NEW c \in Clients, Connect(c) PROVE CountInv'
<1>1. thread[c].pc \in BeforeReading /\ thread[c] # Free /\ CountOK(thread[c])
  BY AtIsNotFree DEF Connect, BeforeReading, CountInv
<1> DEFINE u == Set(thread[c], "pc", "choose")
<1>2. Dies(c) \/ Goes(c, Set(u, "server", RR_ADDR))
  BY Zenon DEF Connect, Set
<1>3. CountOK(u) /\ u # Free /\ u.pc = "choose"
  BY <1>1, CountPc DEF BeforeReading
<1> HIDE DEF u
<1>4. CountOK(Set(u, "server", RR_ADDR))
  BY <1>3, CountOther DEF CountFields
<1> QED BY <1>2, <1>4, CountGoes, CountDies

\* The thread begins to count an answer of which nothing has come.
LEMMA CountChoose == ASSUME CountInv, NEW c \in Clients, Choose(c) PROVE CountInv'
<1>1. thread[c].pc = "choose" /\ thread[c] # Free /\ CountOK(thread[c])
  BY AtIsNotFree DEF Choose, CountInv
<1>2. PICK answer \in WebAnswers :
        Goes(c, [thread[c] EXCEPT !.pc = "reading", !.chunk = getBR, !.rest = answer,
                                  !.whole = answer[1].after # Nothing])
  BY Zenon DEF Choose
<1> DEFINE w == answer[1].after # Nothing
           t == thread[c]
           u1 == Set(t, "pc", "reading")
           u2 == Set(u1, "chunk", getBR)
           u3 == Set(u2, "rest", answer)
           u4 == Set(u3, "whole", w)
<1>3. Goes(c, u4)
  BY <1>2, Zenon DEF Set
<1>4. CountFields \subseteq DOMAIN t /\ t.cl = Nothing /\ t.left = 0 /\ t.counted = FALSE
  BY <1>1 DEF CountOK, BeforeReading
<1>a. w \in BOOLEAN
  OBVIOUS
<1>b. w = TRUE => answer[1].after # Nothing
  OBVIOUS
<1> HIDE DEF w, t
<1>5. CountFields \subseteq DOMAIN u1 /\ u1.pc = "reading" /\ u1.cl = Nothing /\ u1.left = 0 /\ u1.counted = FALSE
  BY <1>4, SetField DEF CountFields
<1> HIDE DEF u1
<1>6. CountFields \subseteq DOMAIN u2 /\ u2.pc = "reading" /\ u2.cl = Nothing /\ u2.left = 0 /\ u2.counted = FALSE
  BY <1>5, SetField DEF CountFields
<1> HIDE DEF u2
<1>7. /\ CountFields \subseteq DOMAIN u3 /\ u3.pc = "reading" /\ u3.cl = Nothing /\ u3.left = 0
      /\ u3.counted = FALSE /\ u3.rest = answer
  BY <1>6, SetField DEF CountFields
<1> HIDE DEF u3
<1>8. /\ CountFields \subseteq DOMAIN u4 /\ u4.pc = "reading" /\ u4.cl = Nothing /\ u4.left = 0
      /\ u4.counted = FALSE /\ u4.rest = answer /\ u4.whole = w
  BY <1>7, SetField DEF CountFields
<1> HIDE DEF u4
<1>9. CountOK(u4)
  BY <1>b, <1>8 DEF CountOK, CountsBody, BeforeReading
<1> QED BY <1>3, <1>9, CountGoes

\* Behind the loop: counted, if the count ended it.
LEMMA CountAfterRead ==
  ASSUME NEW t, t # Free, CountFields \subseteq DOMAIN t,
         t.whole = TRUE /\ t.counted = TRUE => t.rest = <<>>
  PROVE  CountOK(AfterRead(t))
<1> DEFINE u == Set(t, "pc", "measure")
<1>1. /\ u.pc = "measure" /\ u.rest = t.rest /\ u.cl = t.cl
      /\ u.left = t.left /\ u.whole = t.whole /\ u.counted = t.counted
      /\ CountFields \subseteq DOMAIN u
  BY SetField DEF CountFields
<1> HIDE DEF u
<1>2. CountOK(u)
  BY <1>1 DEF CountOK, BeforeReading
<1>3. CountOK(Free)
  BY DEF CountOK
<1> QED BY <1>2, <1>3 DEF AfterRead, u, Set

\* One turn of the loop.
LEMMA CountRelayed ==
  ASSUME \A answer \in WebAnswers : Honest(answer),
         NEW t, t # Free, CountOK(t), t.pc = "reading", t.rest # <<>>
  PROVE  CountOK(Relayed(t, Head(t.rest)))
<1> DEFINE piece == Head(t.rest)
           cl == ContentLength(t, piece)
           left == Left(t, piece)
           t1 == Set(t, "rest", Tail(t.rest))
           t2 == Set(t1, "cl", cl)
           next == Set(t2, "left", left)
           done == Set(next, "counted", TRUE)
           begun == Set(next, "left", BodyLeft(t, piece))
<1>1. Relayed(t, piece) =
        IF t.left # 0 /\ next.left <= 0 THEN AfterRead(done)
        ELSE IF piece.after = Nothing THEN next
        ELSE IF next.cl < 0 THEN Free
        ELSE begun
  BY Zenon DEF Relayed, Set
<1>2. CountFields \subseteq DOMAIN t /\ t.counted = FALSE
      /\ (t.whole = TRUE => CountsBody(t.rest, t.cl, t.left))
  BY DEF CountOK
<1>3. BodyLeft(t, piece) = cl - piece.after
  BY DEF BodyLeft
<1> HIDE DEF cl, left, piece
<1>4. /\ CountFields \subseteq DOMAIN t1 /\ t1.pc = "reading" /\ t1.counted = FALSE
      /\ t1.whole = t.whole /\ t1.rest = Tail(t.rest)
  BY <1>2, SetRest
<1> HIDE DEF t1
<1>5. /\ CountFields \subseteq DOMAIN t2 /\ t2.pc = "reading" /\ t2.counted = FALSE
      /\ t2.whole = t.whole /\ t2.rest = Tail(t.rest) /\ t2.cl = cl
  BY <1>4, SetCl
<1> HIDE DEF t2
<1>6. /\ CountFields \subseteq DOMAIN next /\ next.pc = "reading" /\ next.counted = FALSE
      /\ next.whole = t.whole /\ next.rest = Tail(t.rest) /\ next.cl = cl /\ next.left = left
  BY <1>5, SetLeft
<1> HIDE DEF next
<1>7. /\ CountFields \subseteq DOMAIN done /\ done.pc = "reading" /\ done.counted = TRUE
      /\ done.whole = t.whole /\ done.rest = Tail(t.rest)
  BY <1>6, SetCounted, Zenon
<1> HIDE DEF done
<1>8. /\ CountFields \subseteq DOMAIN begun /\ begun.pc = "reading" /\ begun.counted = FALSE
      /\ begun.whole = t.whole /\ begun.rest = Tail(t.rest) /\ begun.cl = cl
      /\ begun.left = cl - piece.after
  BY <1>3, <1>6, SetLeft
<1> HIDE DEF begun
<1>9. CASE t.whole # TRUE
  <2>1. done # Free /\ CountOK(AfterRead(done))
    BY <1>7, <1>9, CountAfterRead, AtIsNotFree
  <2>2. CountOK(next)
    BY <1>6, <1>9 DEF CountOK, BeforeReading
  <2>3. CountOK(begun)
    BY <1>8, <1>9 DEF CountOK, BeforeReading
  <2>4. CountOK(Free)
    BY DEF CountOK
  <2> QED BY <1>1, <2>1, <2>2, <2>3, <2>4, Zenon DEF piece
<1>10. CASE t.whole = TRUE /\ t.rest \in WebAnswers /\ t.rest[1].after # Nothing
            /\ t.cl = Nothing /\ t.left = 0
  <2>1. t.rest \in Seq(Pieces)
    BY <1>10, AnswerPieces
  <2>2. piece = t.rest[1] /\ piece \in Pieces /\ Tail(t.rest) \in Seq(Pieces)
    BY <2>1, HeadTailProperties DEF piece
  <2>3. cl = piece.cl
    BY <1>10 DEF cl, ContentLength
  <2>4. CASE next.cl < 0
    <3>1. Relayed(t, piece) = Free
      BY <1>1, <1>10, <2>2, <2>4
    <3> QED BY <3>1 DEF CountOK, piece
  <2>5. CASE ~(next.cl < 0)
    <3>1. Relayed(t, piece) = begun
      BY <1>1, <1>10, <2>2, <2>5
    <3>2. cl \in Nat
      BY <1>6, <2>2, <2>3, <2>5 DEF Pieces, Nothing, Malformed
    <3>3. PICK n \in Nat : n <= cl - piece.after /\ Body(Tail(t.rest), n)
      BY <1>10, <2>2, <2>3, <3>2 DEF Honest
    <3>4. piece.after \in Nat
      BY <1>10, <2>2 DEF Pieces
    <3>5. begun.left \in Nat /\ n <= begun.left /\ n <= begun.cl
      BY <1>8, <3>2, <3>3, <3>4
    <3>6. CountsBody(begun.rest, begun.cl, begun.left)
      BY <1>8, <2>2, <3>2, <3>3, <3>5 DEF CountsBody
    <3>7. CountOK(begun)
      BY <1>8, <3>6 DEF CountOK, BeforeReading
    <3> QED BY <3>1, <3>7 DEF piece
  <2> QED BY <2>4, <2>5
<1>11. CASE /\ t.whole = TRUE /\ t.rest \in Seq(Pieces) /\ t.cl \in Nat /\ t.left \in Nat
            /\ \E n \in Nat : n <= t.left /\ n <= t.cl /\ Body(t.rest, n)
  <2>1. PICK n \in Nat : n <= t.left /\ n <= t.cl /\ Body(t.rest, n)
    BY <1>11
  <2> DEFINE m == n - piece.length
  <2>2. m \in Nat /\ Body(Tail(t.rest), m) /\ piece.cl = Nothing
    BY <1>11, <2>1, BodyTail DEF piece
  <2>3. piece \in Pieces /\ Tail(t.rest) \in Seq(Pieces)
    BY <1>11, HeadTailProperties DEF piece
  <2>4. piece.length \in Nat \ {0} /\ piece.after \in Int /\ piece.after <= piece.length
    BY <2>3 DEF Pieces, Nothing
  <2>5. cl = t.cl /\ cl \in Nat
    BY <1>11, <2>2 DEF cl, ContentLength
  <2>6. t.left # 0 /\ left = t.left - piece.length
    BY <1>11, <2>1, <2>2, <2>4 DEF left, Left
  <2>7. left \in Int /\ m <= left /\ m <= cl /\ m <= cl - piece.after
    BY <1>11, <2>1, <2>2, <2>4, <2>5, <2>6
  <2> HIDE DEF m
  <2>8. CASE next.left <= 0
    <3>1. m = 0
      BY <1>6, <2>2, <2>7, <2>8
    <3>2. Tail(t.rest) = <<>>
      BY <2>2, <2>3, <3>1, BodyEmpty
    <3>3. CountOK(AfterRead(done))
      BY <1>7, <3>2, CountAfterRead, AtIsNotFree
    <3> QED BY <1>1, <2>6, <2>8, <3>3, Zenon DEF piece
  <2>9. CASE ~(next.left <= 0) /\ piece.after = Nothing
    <3>1. Relayed(t, piece) = next
      BY <1>1, <2>9, Zenon
    <3>2. next.left \in Nat
      BY <1>6, <2>7, <2>9
    <3>3. CountsBody(next.rest, next.cl, next.left)
      BY <1>6, <2>2, <2>3, <2>5, <2>7, <3>2 DEF CountsBody
    <3>4. CountOK(next)
      BY <1>6, <3>3 DEF CountOK, BeforeReading
    <3> QED BY <3>1, <3>4 DEF piece
  <2>10. CASE ~(next.left <= 0) /\ piece.after # Nothing
    <3>1. ~(next.cl < 0)
      BY <1>6, <2>5
    <3>2. Relayed(t, piece) = begun
      BY <1>1, <2>10, <3>1, Zenon
    <3>3. begun.left \in Nat
      BY <1>8, <2>2, <2>4, <2>5, <2>7
    <3>4. CountsBody(begun.rest, begun.cl, begun.left)
      BY <1>8, <2>2, <2>3, <2>5, <2>7, <3>3 DEF CountsBody
    <3>5. CountOK(begun)
      BY <1>8, <3>4 DEF CountOK, BeforeReading
    <3> QED BY <3>2, <3>5 DEF piece
  <2> QED BY <2>8, <2>9, <2>10
<1>12. CASE t.whole = TRUE /\ t.rest = <<Byte>> /\ t.cl \in Nat /\ t.left = 0
  <2>1. piece = Byte /\ Tail(t.rest) = <<>>
    BY <1>12 DEF piece
  <2>2. cl = t.cl /\ left = 0 /\ piece.after = Nothing
    BY <1>12, <2>1 DEF cl, left, ContentLength, Left, Byte
  <2>3. Relayed(t, piece) = next
    BY <1>1, <1>12, <2>2, Zenon
  <2>4. CountsBody(next.rest, next.cl, next.left)
    BY <1>6, <1>12, <2>1, <2>2, BodyOfNothing DEF CountsBody
  <2>5. CountOK(next)
    BY <1>6, <2>4 DEF CountOK, BeforeReading
  <2> QED BY <2>3, <2>5 DEF piece
<1> QED BY <1>2, <1>9, <1>10, <1>11, <1>12 DEF CountsBody

LEMMA CountReads ==
  ASSUME \A answer \in WebAnswers : Honest(answer),
         CountInv, NEW c \in Clients, InLoop(c)
  PROVE  CountInv'
<1>1. thread[c].pc = "reading" /\ thread[c] # Free /\ CountOK(thread[c])
  BY ReadCases, AtIsNotFree DEF CountInv
<1>2. CASE \E held : Goes(c, Set(thread[c], "held", held))
  <2>1. PICK held : Goes(c, Set(thread[c], "held", held))
    BY <1>2
  <2>2. CountOK(Set(thread[c], "held", held))
    BY <1>1, CountOther DEF CountFields
  <2> QED BY <2>1, <2>2, CountGoes
<1>3. CASE thread[c].rest # <<>> /\ Goes(c, Relayed(Unheld(thread[c]), Head(thread[c].rest)))
  <2>1. PICK held : Unheld(thread[c]) = Set(thread[c], "held", held)
    BY UnheldSet
  <2> DEFINE u == Set(thread[c], "held", held)
  <2>2. CountOK(u) /\ u # Free /\ u.pc = "reading" /\ u.rest = thread[c].rest
    BY <1>1, CountOther DEF CountFields
  <2> HIDE DEF u
  <2>3. CountOK(Relayed(u, Head(u.rest)))
    BY <1>3, <2>2, CountRelayed
  <2> QED BY <1>3, <2>1, <2>2, <2>3, CountGoes DEF u
<1>4. CASE thread[c].rest = <<>> /\ thread[c].left = 0 /\ Goes(c, Set(thread[c], "rest", <<Byte>>))
  <2> DEFINE u == Set(thread[c], "rest", <<Byte>>)
  <2>1. CountFields \subseteq DOMAIN thread[c] /\ thread[c].counted = FALSE
    BY <1>1 DEF CountOK
  <2>2. /\ CountFields \subseteq DOMAIN u /\ u.pc = "reading" /\ u.rest = <<Byte>>
        /\ u.cl = thread[c].cl /\ u.left = 0 /\ u.whole = thread[c].whole /\ u.counted = FALSE
    BY <1>1, <1>4, <2>1, SetRest
  <2>3. thread[c].whole = TRUE => thread[c].cl \in Nat
    BY <1>1, <1>4, WebAnswersAssumption DEF CountOK, CountsBody
  <2> HIDE DEF u
  <2>4. CountOK(u)
    BY <2>2, <2>3 DEF CountOK, CountsBody, BeforeReading
  <2> QED BY <1>4, <2>4, CountGoes DEF u
<1>5. CountOK(AfterRead(thread[c]))
  <2>1. CountFields \subseteq DOMAIN thread[c] /\ thread[c].counted = FALSE
    BY <1>1 DEF CountOK
  <2> QED BY <1>1, <2>1, CountAfterRead
<1> QED BY <1>2, <1>3, <1>4, <1>5, ReadCases, CountDies, CountGoes

LEMMA CountMeasure == ASSUME CountInv, NEW c \in Clients, Measure(c) PROVE CountInv'
<1>1. thread[c].pc = "measure" /\ thread[c] # Free /\ CountOK(thread[c])
  BY AtIsNotFree DEF Measure, CountInv
<1>2. ASSUME NEW rate,
             Goes(c, [thread[c] EXCEPT !.pc = "load", !.rate = rate, !.b = getBR,
                                       !.rest = <<>>, !.cl = 0, !.left = 0])
      PROVE  CountInv'
  <2> DEFINE u1 == Set(thread[c], "pc", "load")
             u2 == Set(u1, "rate", rate)
             u3 == Set(u2, "b", getBR)
             u4 == Set(u3, "rest", <<>>)
             u5 == Set(u4, "cl", 0)
             u6 == Set(u5, "left", 0)
  <2>1. Goes(c, u6)
    BY <1>2, Zenon DEF Set
  <2>2. CountFields \subseteq DOMAIN thread[c] /\ "rate" \notin CountFields /\ "b" \notin CountFields
    BY <1>1 DEF CountOK, CountFields
  <2>3. CountFields \subseteq DOMAIN u1 /\ u1.pc = "load"
    BY <2>2, SetPlace
  <2> HIDE DEF u1
  <2>4. CountFields \subseteq DOMAIN u2 /\ u2.pc = "load"
    BY <2>2, <2>3, SetElse
  <2> HIDE DEF u2
  <2>5. CountFields \subseteq DOMAIN u3 /\ u3.pc = "load"
    BY <2>2, <2>4, SetElse
  <2> HIDE DEF u3
  <2>6. CountFields \subseteq DOMAIN u4 /\ u4.pc = "load"
    BY <2>5, SetRest
  <2> HIDE DEF u4
  <2>7. CountFields \subseteq DOMAIN u5 /\ u5.pc = "load"
    BY <2>6, SetCl
  <2> HIDE DEF u5
  <2>8. CountFields \subseteq DOMAIN u6 /\ u6.pc = "load"
    BY <2>7, SetLeft
  <2> HIDE DEF u6
  <2>9. CountOK(u6)
    BY <2>8 DEF CountOK, BeforeReading
  <2> QED BY <2>1, <2>9, CountGoes
<1>3. Dies(c) \/ \E rate \in Rates :
        Goes(c, [thread[c] EXCEPT !.pc = "load", !.rate = rate, !.b = getBR,
                                  !.rest = <<>>, !.cl = 0, !.left = 0])
  BY Zenon DEF Measure
<1> QED BY <1>2, <1>3, CountDies

\* Load, Store and WriteLog go on and write one other field.
LEMMA CountGoesOn ==
  ASSUME CountInv, NEW c \in Clients, thread[c].pc # "free",
         NEW pc \in {"store", "log", "close"}, NEW field \in {"read", "line"}, NEW value,
         Goes(c, Set(Set(thread[c], "pc", pc), field, value))
  PROVE  CountInv'
<1> DEFINE u == Set(thread[c], "pc", pc)
<1>1. thread[c] # Free /\ CountOK(thread[c]) /\ field \notin CountFields
  BY AtIsNotFree DEF CountInv, CountFields
<1>2. CountOK(u) /\ u # Free /\ u.pc = pc
  BY <1>1, CountPc
<1> HIDE DEF u
<1>3. CountOK(Set(u, field, value))
  BY <1>1, <1>2, CountOther
<1> QED BY <1>3, CountGoes DEF u

LEMMA CountUpdates ==
  ASSUME CountInv, NEW c \in Clients, Load(c) \/ Store(c) \/ WriteLog(c)
  PROVE  CountInv'
<1>1. CASE Load(c)
  <2>1. Goes(c, Set(Set(thread[c], "pc", "store"), "read", AVG)) /\ thread[c].pc # "free"
    BY <1>1, Zenon DEF Load, Set
  <2> QED BY <2>1, CountGoesOn
<1>2. CASE Store(c)
  <2>1. Goes(c, Set(Set(thread[c], "pc", "log"), "read", 0)) /\ thread[c].pc # "free"
    BY <1>2, Zenon DEF Store, Set
  <2> QED BY <2>1, CountGoesOn
<1>3. CASE WriteLog(c)
  <2>1. Goes(c, Set(Set(thread[c], "pc", "close"), "line", LogLine(c))) /\ thread[c].pc # "free"
    BY <1>3, Zenon DEF WriteLog, Set
  <2> QED BY <2>1, CountGoesOn
<1> QED BY <1>1, <1>2, <1>3

\* If the web servers are honest, a count that ends the loop ends it behind the
\* last piece, however the answers are cut into pieces, with any number of
\* threads and whoever goes away meanwhile.
THEOREM WholeAnswerCorrect ==
  ASSUME \A answer \in WebAnswers : Honest(answer)
  PROVE  ProxySpec => []WholeAnswer
<1>1. Init /\ ProxyInit => CountInv
  BY DEF ProxyInit, CountInv, CountOK
<1>2. CountInv /\ [ProxyNext]_<<rnsVars, proxyVars>> => CountInv'
  <2> SUFFICES ASSUME CountInv, [ProxyNext]_<<rnsVars, proxyVars>> PROVE CountInv'
    OBVIOUS
  <2>1. CASE UNCHANGED proxyVars
    BY <2>1 DEF proxyVars, CountInv
  <2>2. ASSUME NEW c \in Clients, Accept(c) \/ ThreadStep(c) \/ Resolved(c) \/ Outside(c) PROVE CountInv'
    <3>1. CASE Close(c)
      BY <3>1, CountDies DEF Close, Dies
    <3> QED BY <2>2, <3>1, CountAccept, CountAsked, CountConnect, CountChoose, CountReads, CountMeasure,
               CountUpdates DEF ThreadStep, InLoop
  <2> QED BY <2>1, <2>2 DEF ProxyNext, proxyVars
<1>3. CountInv => WholeAnswer
  <2> SUFFICES ASSUME CountInv, NEW c \in Clients, thread[c].pc = "measure",
                      thread[c].whole, thread[c].counted
               PROVE  thread[c].rest = <<>>
    BY DEF WholeAnswer
  <2>1. CountOK(thread[c]) /\ thread[c] # Free
    BY AtIsNotFree DEF CountInv
  <2> QED BY <2>1 DEF CountOK
<1> QED BY <1>1, <1>2, <1>3, PTL DEF ProxySpec

-----------------------------------------------------------------------------
(* Induction up to a number *)

\* Every set of numbers has a least one.
LEMMA Least == ASSUME NEW T \in SUBSET Nat, T # {} PROVE \E m \in T : \A k \in T : m <= k
<1> DEFINE R == {ss \in Nat \X Nat : ss[1] < ss[2]}
<1>1. OpToRel(<, Nat) = R
  BY Zenon DEF OpToRel
<1>2. IsWellFoundedOn(R, Nat)
  BY <1>1, NatLessThanWellFounded, Zenon
<1>3. \E x \in T : \A y \in T : ~(<<y, x>> \in R)
  <2> HIDE DEF R
  <2> QED BY <1>2, WFMin, Zenon
<1>4. PICK x \in T : \A y \in T : ~(<<y, x>> \in R)
  BY <1>3
<1>5. ASSUME NEW y \in T PROVE x <= y
  <2>1. <<y, x>> \notin R
    BY <1>4
  <2>2. x \in Nat /\ y \in Nat
    OBVIOUS
  <2> QED BY <2>1, <2>2
<1> QED BY <1>5

\* What holds of 0, and of i + 1 if it holds of i, holds up to n.
LEMMA UpTo ==
  ASSUME NEW n \in Nat, NEW T, 0 \in T, \A i \in 0 .. n - 1 : i \in T => i + 1 \in T
  PROVE  0 .. n \subseteq T
<1> SUFFICES ASSUME ~(0 .. n \subseteq T) PROVE FALSE
  OBVIOUS
<1>1. {i \in 0 .. n : i \notin T} \in SUBSET Nat /\ {i \in 0 .. n : i \notin T} # {}
  OBVIOUS
<1>2. PICK m \in {i \in 0 .. n : i \notin T} : \A k \in {i \in 0 .. n : i \notin T} : m <= k
  BY <1>1, Least
<1>3. m - 1 \in 0 .. n - 1 /\ m - 1 \in T
  BY <1>2
<1> QED BY <1>2, <1>3

-----------------------------------------------------------------------------
(* Reading a name *)

\* What parseMessage makes of the octets from place q on, for every place.
NamesAt(data) ==
  CHOOSE At : At = [q \in 1 .. Len(data) + 256 |->
        IF q > Len(data) THEN Raised
        ELSE IF data[q] = 0 THEN [text |-> <<>>, next |-> q + 1]
        ELSE LET rest == At[q + data[q] + 1]
                 label == SubSeq(data, q + 1, q + data[q])
             IN  IF rest = Raised THEN Raised
                 ELSE [text |-> IF rest.text = <<>> THEN label ELSE label \o <<Dot>> \o rest.text,
                       next |-> rest.next]]

\* The label at q and what comes behind it.
WithLabel(data, q, rest) ==
  LET label == SubSeq(data, q + 1, q + data[q])
  IN  IF rest = Raised THEN Raised
      ELSE [text |-> IF rest.text = <<>> THEN label ELSE label \o <<Dot>> \o rest.text,
            next |-> rest.next]

\* Every length leads to a place behind it, so that names are read from the end.
LEMMA ParseNameReads ==
  ASSUME NEW data \in Seq(Octets), NEW q \in 1 .. Len(data)
  PROVE  /\ ParseName(data, q) = IF data[q] = 0 THEN [text |-> <<>>, next |-> q + 1]
                                 ELSE WithLabel(data, q, ParseName(data, q + data[q] + 1))
<1> DEFINE L == Len(data)
           N == L + 256
           V(p, rest) == IF p > L THEN Raised
                         ELSE IF data[p] = 0 THEN [text |-> <<>>, next |-> p + 1]
                         ELSE WithLabel(data, p, rest)
           Val(f, p) == V(p, f[p + data[p] + 1])
           Is(f) == f = [p \in 1 .. N |-> Val(f, p)]
           T == {k \in Nat : \E f : f = [p \in N - k + 1 .. N |-> Val(f, p)]}
<1>1. L \in Nat /\ N \in Nat /\ \A p \in 1 .. L : data[p] \in Octets
  BY ElementOfSeq
<1>2. 0 \in T
  <2>1. N - 0 + 1 .. N = {}
    BY <1>1
  <2>2. \A f, g : [p \in {} |-> Val(f, p)] = [p \in {} |-> Val(g, p)]
    OBVIOUS
  <2> DEFINE e == [p \in {} |-> 0]
  <2>3. e = [p \in {} |-> Val(e, p)]
    <3> HIDE DEF Val
    <3> QED OBVIOUS
  <2>4. \E f : f = [p \in N - 0 + 1 .. N |-> Val(f, p)]
    <3> HIDE DEF Val, e
    <3> QED BY <2>1, <2>3
  <2> HIDE DEF Val
  <2> QED BY <2>4
<1>3. ASSUME NEW k \in 0 .. N - 1, k \in T PROVE k + 1 \in T
  <2> DEFINE m == N - k
  <2>1. m \in 1 .. N /\ N - k + 1 = m + 1 /\ N - (k + 1) + 1 = m
    BY <1>1
  <2>2. PICK f : f = [p \in m + 1 .. N |-> Val(f, p)]
    <3>1. \E f : f = [p \in N - k + 1 .. N |-> Val(f, p)]
      <4> HIDE DEF Val
      <4> QED BY <1>3
    <3> HIDE DEF Val, m
    <3> QED BY <2>1, <3>1
  <2> DEFINE g == [p \in m .. N |-> IF p = m THEN Val(f, m) ELSE f[p]]
  <2> HIDE DEF m
  <2>3. ASSUME NEW p \in m .. N PROVE Val(g, p) = Val(f, p)
    <3> HIDE DEF L
    <3>1. CASE p > L
      <4> HIDE DEF g
      <4> QED BY <3>1
    <3>2. CASE ~(p > L) /\ data[p] = 0
      <4> HIDE DEF g
      <4> QED BY <3>2
    <3>3. CASE ~(p > L) /\ data[p] # 0
      <4>1. p \in 1 .. L /\ data[p] \in 1 .. 255
        BY <1>1, <2>1, <3>3 DEF Octets
      <4>2. p + data[p] + 1 \in m .. N /\ p + data[p] + 1 # m
        <5> DEFINE d == data[p]
        <5> HIDE DEF g, V, d
        <5>1. d \in 1 .. 255
          BY <4>1 DEF d
        <5>2. p + d + 1 \in m .. N /\ p + d + 1 # m
          BY <1>1, <2>1, <4>1, <5>1
        <5> QED BY <5>2 DEF d
      <4>3. g[p + data[p] + 1] = f[p + data[p] + 1]
        <5> HIDE DEF V, N
        <5> QED BY <4>2
      <4> HIDE DEF V, g
      <4> QED BY <4>3
    <3> QED BY <3>1, <3>2, <3>3
  <2>4. ASSUME NEW p \in m .. N PROVE g[p] = Val(g, p)
    <3> HIDE DEF Val, N
    <3>1. CASE p = m
      BY <2>3, <3>1
    <3>2. CASE p # m
      <4>1. p \in m + 1 .. N
        BY <1>1, <2>1, <3>2
      <4>2. f[p] = Val(f, p)
        BY <2>2, <4>1
      <4> QED BY <2>3, <3>2, <4>2
    <3> QED BY <3>1, <3>2
  <2>5. g = [p \in m .. N |-> Val(g, p)]
    <3> HIDE DEF Val
    <3> QED BY <2>4
  <2>6. \E h : h = [p \in m .. N |-> Val(h, p)]
    <3> HIDE DEF Val, g
    <3> QED BY <2>5
  <2>7. \E h : h = [p \in N - (k + 1) + 1 .. N |-> Val(h, p)]
    <3> HIDE DEF Val
    <3> QED BY <2>1, <2>6
  <2>8. k + 1 \in Nat
    OBVIOUS
  <2> HIDE DEF Val
  <2> QED BY <2>7, <2>8
<1>4. N \in T
  <2> HIDE DEF T, N
  <2>1. 0 .. N \subseteq T
    BY <1>1, <1>2, <1>3, UpTo
  <2> QED BY <1>1, <2>1
<1>5. \E f : Is(f)
  <2>1. N - N + 1 = 1
    BY <1>1
  <2> HIDE DEF Val, N
  <2> QED BY <1>4, <2>1
<1>6. Is(NamesAt(data))
  <2>1. NamesAt(data) = CHOOSE f : Is(f)
    BY DEF NamesAt, WithLabel
  <2> HIDE DEF Is
  <2> QED BY <1>5, <2>1, Zenon
<1>7. \A p : ParseName(data, p) = NamesAt(data)[p]
  BY DEF ParseName, NamesAt
<1>8. NamesAt(data)[q] = Val(NamesAt(data), q)
  <2>1. q \in 1 .. N
    BY <1>1
  <2> HIDE DEF Val, N
  <2> QED BY <1>6, <2>1
<1>9. ~(q > L)
  BY <1>1
<1> QED BY <1>7, <1>8, <1>9

\* The end of a label: the next dot, or the end of the name.
LEMMA LabelEndIs ==
  ASSUME NEW name \in Seq(Octets), NEW i \in 1 .. Len(name) + 1
  PROVE  /\ LabelEnd(name, i) \in i .. Len(name) + 1
         /\ \A j \in i .. LabelEnd(name, i) - 1 : name[j] # Dot
         /\ LabelEnd(name, i) <= Len(name) => name[LabelEnd(name, i)] = Dot
<1> DEFINE L == Len(name)
           D == {d \in Dots(name) : d >= i}
           IsNext(d) == d \in Dots(name) /\ (d >= i /\ \A e \in Dots(name) : e >= i => d <= e)
<1>1. L \in Nat /\ DOMAIN name = 1 .. L
  OBVIOUS
<1>2. Dots(name) = {j \in 1 .. L : name[j] = Dot}
  BY <1>1 DEF Dots
<1>3. CASE \E d \in Dots(name) : d >= i
  <2>1. D \in SUBSET Nat /\ D # {}
    BY <1>2, <1>3
  <2>2. \E d : IsNext(d)
    <3>1. PICK d \in D : \A k \in D : d <= k
      BY <2>1, Least
    <3> QED BY <3>1
  <2>3. LabelEnd(name, i) = CHOOSE d \in Dots(name) : d >= i /\ \A e \in Dots(name) : e >= i => d <= e
    BY <1>3 DEF LabelEnd
  <2>4. IsNext(LabelEnd(name, i))
    BY <2>2, <2>3
  <2> DEFINE m == LabelEnd(name, i)
  <2> HIDE DEF m
  <2>5. m \in 1 .. L /\ name[m] = Dot /\ m >= i /\ \A e \in Dots(name) : e >= i => m <= e
    BY <1>2, <2>4 DEF m
  <2>6. \A j \in i .. m - 1 : name[j] # Dot
    BY <1>2, <2>5
  <2> QED BY <2>5, <2>6 DEF m
<1>4. CASE ~\E d \in Dots(name) : d >= i
  <2>1. LabelEnd(name, i) = L + 1
    BY <1>4 DEF LabelEnd
  <2>2. \A j \in i .. L : name[j] # Dot
    BY <1>1, <1>2, <1>4
  <2> QED BY <1>1, <2>1, <2>2
<1> QED BY <1>3, <1>4

-----------------------------------------------------------------------------
(* A message as it was written *)

\* The name as it stands in the message data behind its header, and the 0
\* behind it.
Carries(data, name) ==
  /\ data \in Seq(Octets) /\ Len(data) >= 14 + Len(name)
  /\ data[13] = LabelLength(name, 1) /\ data[14 + Len(name)] = 0
  /\ \A i \in 1 .. Len(name) :
       data[13 + i] = IF name[i] = Dot THEN LabelLength(name, i + 1) ELSE name[i]

\* Where a label begins.
Starts(name) == {i \in 1 .. Len(name) : i = 1 \/ name[i - 1] = Dot}

ShortNames == {name \in Seq(Octets) : Len(name) <= 255}

LEMMA NameLength ==
  ASSUME NEW name \in ShortNames, WellFormed(name)
  PROVE  name \in Seq(Octets) /\ Len(name) \in 1 .. 255
<1>1. name \in Seq(Octets) /\ Len(name) <= 255 /\ name # <<>>
  BY DEF ShortNames, WellFormed
<1>2. Len(name) \in Nat \ {0}
  BY <1>1, EmptySeq
<1> DEFINE L == Len(name)
<1>3. L \in Nat \ {0} /\ L <= 255
  BY <1>1, <1>2
<1> HIDE DEF L
<1>4. L \in 1 .. 255
  BY <1>3
<1> QED BY <1>1, <1>4 DEF L

LEMMA RaisedIsNone == \A t, n : Raised # [text |-> t, next |-> n]
<1> SUFFICES ASSUME NEW t, NEW n, Raised = [text |-> t, next |-> n] PROVE FALSE
  OBVIOUS
<1>1. DOMAIN Raised = {"raised"} /\ DOMAIN [text |-> t, next |-> n] = {"text", "next"}
  BY DEF Raised
<1>2. "text" # "raised"
  OBVIOUS
<1> QED BY <1>1, <1>2

\* The label that begins at place i of the name, and where the next one begins.
LEMMA LabelRead ==
  ASSUME NEW name \in ShortNames, WellFormed(name), NEW data, Carries(data, name),
         NEW i \in Starts(name)
  PROVE  LET end == LabelEnd(name, i)
             q == 12 + i
         IN  /\ q \in 1 .. Len(data) /\ end \in i + 1 .. Len(name) + 1
             /\ data[q] = end - i /\ data[q] # 0
             /\ SubSeq(data, q + 1, q + data[q]) = SubSeq(name, i, end - 1)
             /\ end <= Len(name) => name[end] = Dot /\ end + 1 \in Starts(name)
<1> DEFINE L == Len(name)
           end == LabelEnd(name, i)
<1>1. /\ name \in Seq(Octets) /\ L \in 1 .. 255 /\ i \in 1 .. L /\ data \in Seq(Octets)
      /\ Len(data) >= 14 + L /\ Len(data) \in Nat
  <2>1. name \in Seq(Octets) /\ L \in 1 .. 255
    BY NameLength
  <2>2. i \in 1 .. L
    BY DEF Starts
  <2>3. data \in Seq(Octets) /\ Len(data) >= 14 + L
    BY DEF Carries
  <2>4. Len(data) \in Nat
    BY <2>3, LenProperties
  <2> QED BY <2>1, <2>2, <2>3, <2>4
<1>2. end \in i .. L + 1 /\ (\A j \in i .. end - 1 : name[j] # Dot) /\ (end <= L => name[end] = Dot)
  BY <1>1, LabelEndIs
<1>3. name[i] # Dot
  <2>1. CASE i = 1
    BY <2>1 DEF WellFormed
  <2>2. CASE i # 1
    <3>1. i - 1 \in 1 .. L - 1 /\ name[i - 1] = Dot /\ (i - 1) + 1 = i
      BY <1>1, <2>2 DEF Starts
    <3> QED BY <3>1 DEF WellFormed
  <2> QED BY <2>1, <2>2
<1> HIDE DEF end
<1>4. end \in i + 1 .. L + 1
  BY <1>1, <1>2, <1>3
<1>5. data[12 + i] = end - i
  <2>1. CASE i = 1
    BY <2>1 DEF Carries, LabelLength, end
  <2>2. CASE i # 1
    <3> DEFINE j == i - 1
    <3>1. j \in 1 .. L /\ name[j] = Dot /\ 13 + j = 12 + i /\ j + 1 = i
      BY <1>1, <2>2 DEF Starts
    <3> HIDE DEF j
    <3>2. data[13 + j] = LabelLength(name, j + 1)
      BY <3>1 DEF Carries
    <3> QED BY <3>1, <3>2 DEF LabelLength, end
  <2> QED BY <2>1, <2>2
<1>6. end <= L => end + 1 \in Starts(name)
  <2> SUFFICES ASSUME end <= L PROVE end + 1 \in Starts(name)
    OBVIOUS
  <2>1. end \in 1 .. L /\ name[end] = Dot /\ name[L] # Dot
    BY <1>1, <1>2, <1>4 DEF WellFormed
  <2>2. end + 1 \in 1 .. L /\ (end + 1) - 1 = end
    BY <2>1
  <2> QED BY <2>1, <2>2 DEF Starts
<1>7. SubSeq(data, 12 + i + 1, 12 + i + (end - i)) = SubSeq(name, i, end - 1)
  <2>1. \A j \in i .. end - 1 : data[13 + (j - 1) + 1] = name[j]
    <3> SUFFICES ASSUME NEW j \in i .. end - 1 PROVE data[13 + (j - 1) + 1] = name[j]
      OBVIOUS
    <3>1. j \in 1 .. L /\ name[j] # Dot /\ 13 + (j - 1) + 1 = 13 + j
      BY <1>1, <1>2, <1>4
    <3> QED BY <3>1 DEF Carries
  <2> DEFINE a == SubSeq(data, 13 + i, 12 + end)
             b == SubSeq(name, i, end - 1)
  <2>2. a \in Seq(Octets) /\ Len(a) = end - i /\ \A k \in 1 .. end - i : a[k] = data[13 + i + k - 1]
    BY <1>1, <1>4, SubSeqProperties
  <2>3. b \in Seq(Octets) /\ Len(b) = end - i /\ \A k \in 1 .. end - i : b[k] = name[i + k - 1]
    BY <1>1, <1>4, SubSeqProperties
  <2>4. \A k \in 1 .. end - i : a[k] = b[k]
    <3> SUFFICES ASSUME NEW k \in 1 .. end - i PROVE a[k] = b[k]
      OBVIOUS
    <3> DEFINE j == i + k - 1
    <3>1. j \in i .. end - 1 /\ 13 + (j - 1) + 1 = 13 + i + k - 1
      BY <1>1, <1>4
    <3> HIDE DEF a, b, j
    <3>2. data[13 + i + k - 1] = name[j]
      BY <2>1, <3>1
    <3> QED BY <2>2, <2>3, <3>2 DEF j
  <2> HIDE DEF a, b
  <2>5. a = b
    BY <1>1, <1>4, <2>2, <2>3, <2>4, SeqEqual
  <2>6. 12 + i + 1 = 13 + i /\ 12 + i + (end - i) = 12 + end
    BY <1>1, <1>4
  <2> QED BY <2>5, <2>6 DEF a, b
<1>8. 12 + i \in 1 .. Len(data) /\ end - i # 0
  BY <1>1, <1>4
<1> QED BY <1>2, <1>4, <1>5, <1>6, <1>7, <1>8 DEF end

\* The rest of a name, from the beginning of a label on.
LEMMA SuffixJoins ==
  ASSUME NEW name \in Seq(Octets), NEW i \in 1 .. Len(name), NEW end \in i .. Len(name) - 1,
         name[end] = Dot
  PROVE  SubSeq(name, i, end - 1) \o <<Dot>> \o SubSeq(name, end + 1, Len(name))
           = SubSeq(name, i, Len(name))
<1> DEFINE L == Len(name)
           a == SubSeq(name, i, end - 1)
           b == SubSeq(name, end + 1, L)
           c == SubSeq(name, i, L)
           ad == a \o <<Dot>>
<1>1. L \in Nat /\ i \in 1 .. L /\ end \in i .. L - 1 /\ \A k \in 1 .. L : name[k] \in Octets
  BY LenProperties
<1>2. a \in Seq(Octets) /\ Len(a) = end - i /\ \A k \in 1 .. end - i : a[k] = name[i + k - 1]
  BY <1>1, SubSeqProperties
<1>3. b \in Seq(Octets) /\ Len(b) = L - end /\ \A k \in 1 .. L - end : b[k] = name[end + 1 + k - 1]
  BY <1>1, SubSeqProperties
<1>4. c \in Seq(Octets) /\ Len(c) = L - i + 1 /\ \A k \in 1 .. L - i + 1 : c[k] = name[i + k - 1]
  BY <1>1, SubSeqProperties
<1> HIDE DEF a, b, c, L
<1>5. ad \in Seq(Octets) /\ Len(ad) = end - i + 1
      /\ \A k \in 1 .. end - i + 1 : ad[k] = IF k <= end - i THEN a[k] ELSE Dot
  <2>1. <<Dot>> \in Seq(Octets) /\ Len(<<Dot>>) = 1 /\ <<Dot>>[1] = Dot
    BY DEF Octets, Dot
  <2> DEFINE dot == <<Dot>>
             n == end - i
  <2>2. n \in Nat /\ a \in Seq(Octets) /\ Len(a) = n /\ dot \in Seq(Octets) /\ Len(dot) = 1 /\ dot[1] = Dot
    BY <1>1, <1>2, <2>1
  <2> HIDE DEF Dot, dot, n
  <2>3. a \o dot \in Seq(Octets) /\ Len(a \o dot) = n + 1
        /\ \A k \in 1 .. n + 1 : (a \o dot)[k] = IF k <= n THEN a[k] ELSE dot[k - n]
    <3>1. Len(a) + Len(dot) = n + 1 /\ a \in Seq(Octets) /\ dot \in Seq(Octets) /\ Len(a) = n
      BY <2>2
    <3>2. a \o dot \in Seq(Octets) /\ Len(a \o dot) = Len(a) + Len(dot)
          /\ \A k \in 1 .. Len(a) + Len(dot) :
               (a \o dot)[k] = IF k <= Len(a) THEN a[k] ELSE dot[k - Len(a)]
      BY <3>1, ConcatProperties
    <3> QED BY <3>1, <3>2
  <2>4. \A k \in 1 .. n + 1 : ~(k <= n) => k - n = 1
    BY <2>2
  <2>5. \A k \in 1 .. n + 1 : (a \o dot)[k] = IF k <= n THEN a[k] ELSE Dot
    BY <2>2, <2>3, <2>4
  <2> QED BY <2>3, <2>5 DEF n, dot
<1> HIDE DEF ad
<1>6. ad \o b \in Seq(Octets) /\ Len(ad \o b) = L - i + 1
      /\ \A k \in 1 .. L - i + 1 : (ad \o b)[k] = IF k <= end - i + 1 THEN ad[k] ELSE b[k - (end - i + 1)]
  <2> DEFINE m == end - i + 1
             n == L - end
  <2>1. m \in Nat /\ n \in Nat /\ Len(ad) = m /\ Len(b) = n /\ m + n = L - i + 1
    BY <1>1, <1>3, <1>5
  <2>2. ad \in Seq(Octets) /\ b \in Seq(Octets)
    BY <1>3, <1>5
  <2> HIDE DEF m, n
  <2>3. ad \o b \in Seq(Octets) /\ Len(ad \o b) = m + n
        /\ \A k \in 1 .. m + n : (ad \o b)[k] = IF k <= m THEN ad[k] ELSE b[k - m]
    BY <2>1, <2>2, ConcatProperties
  <2> QED BY <2>1, <2>3 DEF m
<1>7. ASSUME NEW k \in 1 .. L - i + 1 PROVE (ad \o b)[k] = c[k]
  <2>0. k \in Int /\ end - i \in Int
    BY <1>1
  <2>1. CASE k <= end - i
    <3>1. k \in 1 .. end - i + 1 /\ k \in 1 .. end - i
      BY <2>1
    <3>2. (ad \o b)[k] = ad[k] /\ ad[k] = a[k]
      BY <1>5, <1>6, <2>1, <3>1
    <3>3. a[k] = name[i + k - 1] /\ c[k] = name[i + k - 1]
      BY <1>2, <1>4, <3>1
    <3> QED BY <3>2, <3>3
  <2>2. CASE k = end - i + 1
    <3>1. k \in 1 .. end - i + 1 /\ i + k - 1 = end
      BY <2>2
    <3> QED BY <1>4, <1>5, <1>6, <2>2, <3>1
  <2>3. CASE k > end - i + 1
    <3> DEFINE m == k - (end - i + 1)
    <3>1. m \in 1 .. L - end /\ end + 1 + m - 1 = i + k - 1
      BY <1>1, <2>3
    <3>2. (ad \o b)[k] = b[m]
      BY <1>6, <2>3
    <3>3. b[m] = name[end + 1 + m - 1] /\ c[k] = name[i + k - 1]
      BY <1>3, <1>4, <3>1
    <3> QED BY <3>1, <3>2, <3>3
  <2>4. k <= end - i \/ k = end - i + 1 \/ k > end - i + 1
    BY <2>0
  <2> QED BY <2>1, <2>2, <2>3, <2>4
<1>8. ad \o b = c
  BY <1>4, <1>6, <1>7, SeqEqual
<1> QED BY <1>8 DEF ad, a, b, c, L

\* A well-formed name is read as it was written.
LEMMA NameRead ==
  ASSUME NEW name \in ShortNames, WellFormed(name), NEW data, Carries(data, name)
  PROVE  ParseName(data, 13) = [text |-> name, next |-> 15 + Len(name)]
<1> DEFINE L == Len(name)
           Suffix(i) == [text |-> SubSeq(name, i, L), next |-> 15 + L]
           T == {k \in Nat : \A i \in Starts(name) : i > L - k => ParseName(data, 12 + i) = Suffix(i)}
<1>1. /\ name \in Seq(Octets) /\ L \in 1 .. 255 /\ data \in Seq(Octets) /\ Len(data) >= 14 + L
      /\ Starts(name) \subseteq 1 .. L /\ Len(data) \in Nat
  <2>1. name \in Seq(Octets) /\ L \in 1 .. 255
    BY NameLength
  <2>2. Starts(name) \subseteq 1 .. L
    BY DEF Starts
  <2>3. data \in Seq(Octets) /\ Len(data) >= 14 + L
    BY DEF Carries
  <2>4. Len(data) \in Nat
    BY <2>3, LenProperties
  <2> QED BY <2>1, <2>2, <2>3, <2>4
<1>2. 0 \in T
  <2>1. \A i \in 1 .. L : ~(i > L - 0)
    BY <1>1
  <2> QED BY <1>1, <2>1
<1>3. ASSUME NEW k \in 0 .. L - 1, k \in T PROVE k + 1 \in T
  <2> SUFFICES ASSUME NEW i \in Starts(name), i > L - (k + 1) PROVE ParseName(data, 12 + i) = Suffix(i)
    OBVIOUS
  <2> DEFINE end == LabelEnd(name, i)
             q == 12 + i
             label == SubSeq(name, i, end - 1)
  <2>1. /\ q \in 1 .. Len(data) /\ end \in i + 1 .. L + 1 /\ i \in 1 .. L
        /\ data[q] = end - i /\ data[q] # 0 /\ SubSeq(data, q + 1, q + data[q]) = label
        /\ end <= L => name[end] = Dot /\ end + 1 \in Starts(name)
    BY <1>1, LabelRead
  <2>2. ParseName(data, q) = WithLabel(data, q, ParseName(data, q + data[q] + 1))
    BY <1>1, <2>1, ParseNameReads
  <2> HIDE DEF end
  <2>3. q + data[q] + 1 = 13 + end
    BY <2>1
  <2>4. CASE end = L + 1
    <3>1. ParseName(data, 14 + L) = [text |-> <<>>, next |-> 15 + L]
      <4>1. data[14 + L] = 0 /\ 14 + L \in 1 .. Len(data) /\ 14 + L + 1 = 15 + L
        BY <1>1 DEF Carries
      <4> QED BY <1>1, <4>1, ParseNameReads
    <3>2. q + data[q] + 1 = 14 + L /\ end - 1 = L
      BY <1>1, <2>3, <2>4
    <3> DEFINE rest == [text |-> <<>>, next |-> 15 + L]
    <3>3. rest # Raised /\ rest.text = <<>> /\ rest.next = 15 + L
      BY RaisedIsNone
    <3> HIDE DEF rest, q, label, L
    <3>4. WithLabel(data, q, rest) = [text |-> label, next |-> 15 + L]
      BY <2>1, <3>3 DEF WithLabel
    <3>5. ParseName(data, q) = [text |-> label, next |-> 15 + L]
      BY <2>2, <3>1, <3>2, <3>4 DEF rest
    <3> QED BY <3>2, <3>5 DEF q, label
  <2>5. CASE end <= L
    <3>1. end + 1 \in Starts(name) /\ end + 1 > L - k /\ 12 + (end + 1) = q + data[q] + 1 /\ name[end] = Dot
      BY <1>1, <2>1, <2>3, <2>5
    <3> DEFINE rest == Suffix(end + 1)
    <3>2. ParseName(data, q + data[q] + 1) = rest
      <4> HIDE DEF rest, q
      <4> QED BY <1>3, <3>1 DEF rest
    <3>3. end \in i .. L - 1
      BY <1>1, <2>1, <2>5, <3>1
    <3>4. rest # Raised /\ rest.text = SubSeq(name, end + 1, L) /\ rest.next = 15 + L
      BY RaisedIsNone
    <3>5. SubSeq(name, end + 1, L) # <<>>
      <4>1. \A j \in end + 1 .. L : name[j] \in Octets
        BY <1>1, <2>1, LenProperties
      <4>2. Len(SubSeq(name, end + 1, L)) = L - end
        BY <1>1, <3>3, <4>1, SubSeqProperties
      <4>3. L - end # 0
        BY <1>1, <3>3
      <4> HIDE DEF L, end
      <4> QED BY <4>2, <4>3, EmptySeq
    <3>6. label \o <<Dot>> \o SubSeq(name, end + 1, L) = SubSeq(name, i, L)
      BY <1>1, <2>1, <3>1, <3>3, SuffixJoins
    <3> HIDE DEF rest, q, label, L
    <3>7. WithLabel(data, q, rest) = [text |-> label \o <<Dot>> \o rest.text, next |-> rest.next]
      BY <2>1, <3>4, <3>5 DEF WithLabel
    <3>8. ParseName(data, q) = [text |-> SubSeq(name, i, L), next |-> 15 + L]
      BY <2>2, <3>2, <3>4, <3>6, <3>7
    <3> QED BY <3>8 DEF q
  <2>6. end = L + 1 \/ end <= L
    <3>1. end \in i + 1 .. L + 1 /\ i \in 1 .. L
      BY <2>1
    <3>2. L \in 1 .. 255
      BY <1>1
    <3> HIDE DEF L
    <3> QED BY <3>1, <3>2
  <2> HIDE DEF Suffix, q
  <2> QED BY <2>4, <2>5, <2>6 DEF q
<1>4. L \in T
  <2>0. L \in Nat
    BY <1>1
  <2> HIDE DEF T, L
  <2>1. 0 .. L \subseteq T
    BY <1>2, <1>3, <2>0, UpTo
  <2> QED BY <2>0, <2>1
<1>5. ParseName(data, 13) = Suffix(1)
  <2>1. 1 \in Starts(name)
    <3>1. L \in 1 .. 255
      BY <1>1
    <3>2. 1 \in 1 .. L
      <4> HIDE DEF L
      <4> QED BY <3>1
    <3> QED BY <3>2 DEF Starts
  <2>2. 1 > L - L /\ 12 + 1 = 13
    BY <1>1
  <2> HIDE DEF Suffix
  <2> QED BY <1>4, <2>1, <2>2
<1>6. SubSeq(name, 1, L) = name
  <2>1. \A j \in 1 .. L : name[j] \in Octets
    BY <1>1, LenProperties
  <2>2. SubSeq(name, 1, L) \in Seq(Octets) /\ Len(SubSeq(name, 1, L)) = L
        /\ \A j \in 1 .. L : SubSeq(name, 1, L)[j] = name[1 + j - 1]
    BY <1>1, <2>1, SubSeqProperties
  <2> QED BY <1>1, <2>2, SeqEqual
<1> QED BY <1>5, <1>6

\* One sequence behind another.
LEMMA Joined ==
  ASSUME NEW s \in Seq(Octets), NEW t \in Seq(Octets), NEW m \in Nat, NEW n \in Nat, Len(s) = m, Len(t) = n
  PROVE  /\ s \o t \in Seq(Octets) /\ Len(s \o t) = m + n
         /\ \A k \in 1 .. m : (s \o t)[k] = s[k]
         /\ \A k \in 1 .. n : (s \o t)[m + k] = t[k]
<1>1. /\ s \o t \in Seq(Octets) /\ Len(s \o t) = m + n
      /\ \A k \in 1 .. m + n : (s \o t)[k] = IF k <= m THEN s[k] ELSE t[k - m]
  BY ConcatProperties
<1>2. \A k \in 1 .. m : k \in 1 .. m + n /\ k <= m
  OBVIOUS
<1>3. \A k \in 1 .. n : m + k \in 1 .. m + n /\ ~(m + k <= m) /\ (m + k) - m = k
  OBVIOUS
<1> QED BY <1>1, <1>2, <1>3

LEMMA Pair ==
  ASSUME NEW a \in Octets, NEW b \in Octets
  PROVE  <<a, b>> \in Seq(Octets) /\ Len(<<a, b>>) = 2 /\ <<a, b>>[1] = a /\ <<a, b>>[2] = b
OBVIOUS

\* Two octets behind a sequence.
LEMMA PairBehind ==
  ASSUME NEW s \in Seq(Octets), NEW a \in Octets, NEW b \in Octets
  PROVE  /\ s \o <<a, b>> \in Seq(Octets) /\ Len(s \o <<a, b>>) = Len(s) + 2
         /\ \A k \in 1 .. Len(s) : (s \o <<a, b>>)[k] = s[k]
         /\ (s \o <<a, b>>)[Len(s) + 1] = a /\ (s \o <<a, b>>)[Len(s) + 2] = b
<1> DEFINE t == <<a, b>>
           m == Len(s)
<1>1. t \in Seq(Octets) /\ Len(t) = 2 /\ t[1] = a /\ t[2] = b /\ 2 \in Nat /\ m \in Nat
  BY Pair
<1> HIDE DEF t
<1>2. /\ s \o t \in Seq(Octets) /\ Len(s \o t) = m + 2
      /\ \A k \in 1 .. m : (s \o t)[k] = s[k]
      /\ \A k \in 1 .. 2 : (s \o t)[m + k] = t[k]
  BY <1>1, Joined
<1>3. (s \o t)[m + 1] = a /\ (s \o t)[m + 2] = b
  BY <1>1, <1>2
<1> QED BY <1>2, <1>3 DEF t

LEMMA NumberOctets ==
  ASSUME NEW n \in Words
  PROVE  n \div 256 \in Octets /\ n % 256 \in Octets /\ (n \div 256) * 256 + (n % 256) = n
<1>1. n \in Nat /\ n < 65536
  BY DEF Words
<1>2. n % 256 \in Octets
  BY <1>1 DEF Octets
<1> DEFINE q == n \div 256
<1>3. n % 256 = n - 256 * q
  BY <1>1
<1>4. q \in Nat
  BY <1>1
<1>5. 256 * q <= n
  BY <1>1
<1> HIDE DEF q
<1>6. q \in Octets
  BY <1>1, <1>4, <1>5 DEF Octets
<1> DEFINE r == n % 256
<1>7. r = n - 256 * q
  BY <1>3
<1> HIDE DEF r
<1>8. q * 256 + r = n
  BY <1>1, <1>4, <1>7
<1> HIDE DEF Octets
<1>9. n \div 256 \in Octets
  BY <1>6 DEF q
<1>10. (n \div 256) * 256 + (n % 256) = n
  <2> SUFFICES q * 256 + r = n
    BY DEF q, r
  <2> QED BY <1>8
<1> QED BY <1>2, <1>9, <1>10

GlobalsOK(globals) ==
  globals.transId \in Words /\ globals.qr \in {0, 1} /\ globals.answers \in {0, 1}

LEMMA HeaderIs ==
  ASSUME NEW globals, GlobalsOK(globals)
  PROVE  LET h == Header(globals) IN
         /\ h \in Seq(Octets) /\ Len(h) = 12
         /\ h[1] = globals.transId \div 256 /\ h[2] = globals.transId % 256
         /\ h[3] = globals.qr * 128 + 4 /\ h[4] = 0 /\ h[5] = 0 /\ h[6] = 1
         /\ h[7] = 0 /\ h[8] = globals.answers /\ h[9] = 0 /\ h[10] = 0 /\ h[11] = 0 /\ h[12] = 0
<1> DEFINE t == globals.transId
           f == globals.qr * 128 + 4
           a == globals.answers
<1>1. t \in Words /\ globals.qr \in {0, 1} /\ a \in {0, 1}
  BY DEF GlobalsOK
<1>2. t \div 256 \in Octets /\ t % 256 \in Octets
  BY <1>1, NumberOctets
<1>3. f \in Octets /\ f \in Nat
  <2> DEFINE r == globals.qr
  <2>1. r = 0 \/ r = 1
    BY <1>1
  <2> HIDE DEF r
  <2>2. r * 128 + 4 \in Octets /\ r * 128 + 4 \in Nat
    BY <2>1 DEF Octets
  <2> QED BY <2>2 DEF r
<1>4. a \in Octets /\ 0 \in Octets /\ 1 \in Octets
  BY <1>1 DEF Octets
<1>5. S(Flags(globals)) = <<f, 0>>
  <2>1. Flags(globals) = f * 256
    BY DEF Flags, FLAGS_AA
  <2> HIDE DEF f
  <2>2. (f * 256) \div 256 = f /\ (f * 256) % 256 = 0
    BY <1>3
  <2> QED BY <2>1, <2>2 DEF S
<1>6. S(0) = <<0, 0>> /\ S(1) = <<0, 1>> /\ S(a) = <<0, a>>
  <2>1. 0 \div 256 = 0 /\ 0 % 256 = 0 /\ 1 \div 256 = 0 /\ 1 % 256 = 1
    OBVIOUS
  <2> HIDE DEF a
  <2>2. a \div 256 = 0 /\ a % 256 = a
    BY <1>1
  <2> QED BY <2>1, <2>2 DEF S
<1> DEFINE zero == 0
           one == 1
           h1 == <<t \div 256, t % 256>>
           h2 == h1 \o <<f, zero>>
           h3 == h2 \o <<zero, one>>
           h4 == h3 \o <<zero, a>>
           h5 == h4 \o <<zero, zero>>
           h6 == h5 \o <<zero, zero>>
<1>7. Header(globals) = h6
  <2>1. Header(globals) = S(t) \o S(Flags(globals)) \o S(1) \o S(a) \o S(0) \o S(0)
    BY DEF Header, NUM_QUESTIONS
  <2>2. S(t) = h1
    BY DEF S
  <2> HIDE DEF h1, t, a, f
  <2> QED BY <1>5, <1>6, <2>1, <2>2, Zenon
<1>15. zero \in Octets /\ one \in Octets
  BY <1>4
<1> HIDE DEF t, f, a, zero, one
<1>8. h1 \in Seq(Octets) /\ Len(h1) = 2 /\ h1[1] = t \div 256 /\ h1[2] = t % 256
  BY <1>2, Pair
<1> HIDE DEF h1
<1>9. h2 \in Seq(Octets) /\ Len(h2) = 4 /\ (\A k \in 1 .. 2 : h2[k] = h1[k]) /\ h2[3] = f /\ h2[4] = zero
  <2>1. h1 \in Seq(Octets) /\ f \in Octets /\ zero \in Octets
    BY <1>3, <1>4, <1>15, <1>8
  <2>2. /\ h2 \in Seq(Octets) /\ Len(h2) = Len(h1) + 2 /\ (\A k \in 1 .. Len(h1) : h2[k] = h1[k])
        /\ h2[Len(h1) + 1] = f /\ h2[Len(h1) + 2] = zero
    BY <2>1, PairBehind
  <2> HIDE DEF h2
  <2> QED BY <1>8, <2>2
<1> HIDE DEF h2
<1>10. h3 \in Seq(Octets) /\ Len(h3) = 6 /\ (\A k \in 1 .. 4 : h3[k] = h2[k]) /\ h3[5] = zero /\ h3[6] = one
  <2>1. h2 \in Seq(Octets) /\ zero \in Octets /\ one \in Octets
    BY <1>4, <1>15, <1>9
  <2>2. /\ h3 \in Seq(Octets) /\ Len(h3) = Len(h2) + 2 /\ (\A k \in 1 .. Len(h2) : h3[k] = h2[k])
        /\ h3[Len(h2) + 1] = zero /\ h3[Len(h2) + 2] = one
    BY <2>1, PairBehind
  <2> HIDE DEF h3
  <2> QED BY <1>9, <2>2
<1> HIDE DEF h3
<1>11. h4 \in Seq(Octets) /\ Len(h4) = 8 /\ (\A k \in 1 .. 6 : h4[k] = h3[k]) /\ h4[7] = zero /\ h4[8] = a
  <2>1. h3 \in Seq(Octets) /\ zero \in Octets /\ a \in Octets
    BY <1>4, <1>15, <1>10
  <2>2. /\ h4 \in Seq(Octets) /\ Len(h4) = Len(h3) + 2 /\ (\A k \in 1 .. Len(h3) : h4[k] = h3[k])
        /\ h4[Len(h3) + 1] = zero /\ h4[Len(h3) + 2] = a
    BY <2>1, PairBehind
  <2> HIDE DEF h4
  <2> QED BY <1>10, <2>2
<1> HIDE DEF h4
<1>12. h5 \in Seq(Octets) /\ Len(h5) = 10 /\ (\A k \in 1 .. 8 : h5[k] = h4[k]) /\ h5[9] = zero /\ h5[10] = zero
  <2>1. h4 \in Seq(Octets) /\ zero \in Octets /\ zero \in Octets
    BY <1>4, <1>15, <1>11
  <2>2. /\ h5 \in Seq(Octets) /\ Len(h5) = Len(h4) + 2 /\ (\A k \in 1 .. Len(h4) : h5[k] = h4[k])
        /\ h5[Len(h4) + 1] = zero /\ h5[Len(h4) + 2] = zero
    BY <2>1, PairBehind
  <2> HIDE DEF h5
  <2> QED BY <1>11, <2>2
<1> HIDE DEF h5
<1>13. h6 \in Seq(Octets) /\ Len(h6) = 12 /\ (\A k \in 1 .. 10 : h6[k] = h5[k]) /\ h6[11] = zero /\ h6[12] = zero
  <2>1. h5 \in Seq(Octets) /\ zero \in Octets /\ zero \in Octets
    BY <1>4, <1>15, <1>12
  <2>2. /\ h6 \in Seq(Octets) /\ Len(h6) = Len(h5) + 2 /\ (\A k \in 1 .. Len(h5) : h6[k] = h5[k])
        /\ h6[Len(h5) + 1] = zero /\ h6[Len(h5) + 2] = zero
    BY <2>1, PairBehind
  <2> HIDE DEF h6
  <2> QED BY <1>12, <2>2
<1> HIDE DEF h6
<1>14. /\ h6[1] = h1[1] /\ h6[2] = h1[2] /\ h6[3] = h2[3] /\ h6[4] = h2[4] /\ h6[5] = h3[5]
       /\ h6[6] = h3[6] /\ h6[7] = h4[7] /\ h6[8] = h4[8] /\ h6[9] = h5[9] /\ h6[10] = h5[10]
  BY <1>9, <1>10, <1>11, <1>12, <1>13
<1> QED BY <1>7, <1>8, <1>9, <1>10, <1>11, <1>12, <1>13, <1>14 DEF t, f, a, zero, one

\* Joined, by the lengths themselves.
LEMMA Behind ==
  ASSUME NEW s \in Seq(Octets), NEW t \in Seq(Octets)
  PROVE  /\ s \o t \in Seq(Octets) /\ Len(s \o t) = Len(s) + Len(t)
         /\ \A k \in 1 .. Len(s) : (s \o t)[k] = s[k]
         /\ \A k \in 1 .. Len(t) : (s \o t)[Len(s) + k] = t[k]
<1>1. Len(s) \in Nat /\ Len(t) \in Nat
  OBVIOUS
<1> QED BY <1>1, Joined

\* A length is an octet.
LEMMA LengthOctet ==
  ASSUME NEW name \in ShortNames, WellFormed(name), NEW i \in 1 .. Len(name) + 1
  PROVE  LabelLength(name, i) \in Octets
<1> DEFINE L == Len(name)
           end == LabelEnd(name, i)
<1>1. name \in Seq(Octets) /\ L \in 1 .. 255
  BY NameLength
<1>2. end \in i .. L + 1
  BY <1>1, LabelEndIs
<1> HIDE DEF L, end
<1>3. i \in 1 .. L + 1
  BY DEF L
<1>4. end - i \in Octets
  BY <1>1, <1>2, <1>3 DEF Octets
<1> QED BY <1>4 DEF LabelLength, end

\* A name's characters, with lengths in place of the dots.
Labels(name) == [i \in DOMAIN name |-> IF name[i] = Dot THEN LabelLength(name, i + 1) ELSE name[i]]

LEMMA LabelsAre ==
  ASSUME NEW name \in ShortNames, WellFormed(name)
  PROVE  Labels(name) \in Seq(Octets) /\ Len(Labels(name)) = Len(name)
<1>1. name \in Seq(Octets) /\ Len(name) \in 1 .. 255 /\ DOMAIN name = 1 .. Len(name)
  BY NameLength, LenProperties
<1> DEFINE L == Len(name)
<1>2. \A i \in 1 .. L : name[i] \in Octets
  BY <1>1, ElementOfSeq
<1>3. L \in Nat
  BY <1>1
<1>4. \A i \in 1 .. L : LabelLength(name, i + 1) \in Octets
  <2> SUFFICES ASSUME NEW i \in 1 .. L PROVE LabelLength(name, i + 1) \in Octets
    OBVIOUS
  <2>1. i + 1 \in 1 .. L + 1
    BY <1>3
  <2> QED BY <2>1, LengthOctet
<1> HIDE DEF L
<1>5. Labels(name) = [i \in 1 .. L |-> IF name[i] = Dot THEN LabelLength(name, i + 1) ELSE name[i]]
  BY <1>1 DEF Labels, L
<1>6. Labels(name) \in [1 .. L -> Octets]
  BY <1>2, <1>4, <1>5
<1>7. Labels(name) \in Seq(Octets) /\ Len(Labels(name)) = L
  BY <1>3, <1>6
<1> QED BY <1>7 DEF L

LEMMA QuestionIs ==
  ASSUME NEW name \in ShortNames, WellFormed(name)
  PROVE  LET q == Question(name)
             n == Len(name)
         IN  /\ q \in Seq(Octets) /\ Len(q) = n + 6
             /\ q[1] = LabelLength(name, 1)
             /\ \A i \in 1 .. n : q[i + 1] = Labels(name)[i]
             /\ q[n + 2] = 0 /\ q[n + 3] = 0 /\ q[n + 4] = 1 /\ q[n + 5] = 0 /\ q[n + 6] = 1
<1> DEFINE n == Len(name)
           l == LabelLength(name, 1)
           body == Labels(name)
           q1 == <<l>>
           q2 == q1 \o body
           z == <<0>>
           q3 == q2 \o z
           q4 == q3 \o <<0, 1>>
           q5 == q4 \o <<0, 1>>
<1>1. n \in Nat /\ name \in Seq(Octets)
  BY NameLength
<1>2. Question(name) = q5
  <2>1. Question(name) = q1 \o body \o z \o S(1) \o S(1)
    BY DEF Question, Labels, QType, QClass
  <2>2. 1 \div 256 = 0 /\ 1 % 256 = 1
    OBVIOUS
  <2>3. S(1) = <<0, 1>>
    BY <2>2 DEF S
  <2> HIDE DEF body, z, q1
  <2> QED BY <2>1, <2>3
<1>3. l \in Octets
  <2>1. 1 \in 1 .. n + 1
    BY <1>1
  <2> QED BY <2>1, LengthOctet
<1>4. body \in Seq(Octets) /\ Len(body) = n
  BY LabelsAre
<1>5. 0 \in Octets /\ 1 \in Octets
  BY DEF Octets
<1> HIDE DEF l, body
<1>6. q1 \in Seq(Octets) /\ Len(q1) = 1 /\ q1[1] = l /\ 1 \in Nat
  BY <1>3
<1>7. z \in Seq(Octets) /\ Len(z) = 1 /\ z[1] = 0
  BY <1>5
<1> HIDE DEF n, q1, z
<1>8. q2 \in Seq(Octets) /\ Len(q2) = 1 + n /\ (\A k \in 1 .. 1 : q2[k] = q1[k])
      /\ \A k \in 1 .. n : q2[1 + k] = body[k]
  <2>1. q1 \in Seq(Octets) /\ body \in Seq(Octets)
    BY <1>4, <1>6
  <2>2. q2 \in Seq(Octets) /\ Len(q2) = Len(q1) + Len(body) /\ (\A k \in 1 .. Len(q1) : q2[k] = q1[k])
        /\ \A k \in 1 .. Len(body) : q2[Len(q1) + k] = body[k]
    BY <2>1, Behind
  <2> HIDE DEF q2
  <2> QED BY <1>4, <1>6, <2>2
<1> HIDE DEF q2
<1> DEFINE m == 1 + n
<1>9. q3 \in Seq(Octets) /\ Len(q3) = m + 1 /\ (\A k \in 1 .. m : q3[k] = q2[k])
      /\ \A k \in 1 .. 1 : q3[m + k] = z[k]
  <2>1. q2 \in Seq(Octets) /\ z \in Seq(Octets)
    BY <1>7, <1>8
  <2>2. q3 \in Seq(Octets) /\ Len(q3) = Len(q2) + Len(z) /\ (\A k \in 1 .. Len(q2) : q3[k] = q2[k])
        /\ \A k \in 1 .. Len(z) : q3[Len(q2) + k] = z[k]
    BY <2>1, Behind
  <2>3. Len(q2) = m /\ Len(z) = 1
    BY <1>7, <1>8
  <2> HIDE DEF q3, m
  <2> QED BY <2>2, <2>3
<1> HIDE DEF q3
<1>10. q4 \in Seq(Octets) /\ Len(q4) = Len(q3) + 2 /\ (\A k \in 1 .. Len(q3) : q4[k] = q3[k])
       /\ q4[Len(q3) + 1] = 0 /\ q4[Len(q3) + 2] = 1
  BY <1>5, <1>9, PairBehind
<1> HIDE DEF q4
<1>11. q5 \in Seq(Octets) /\ Len(q5) = Len(q4) + 2 /\ (\A k \in 1 .. Len(q4) : q5[k] = q4[k])
       /\ q5[Len(q4) + 1] = 0 /\ q5[Len(q4) + 2] = 1
  BY <1>5, <1>10, PairBehind
<1> HIDE DEF q5
<1>12. Len(q2) = n + 1 /\ Len(q3) = n + 2 /\ Len(q4) = n + 4 /\ Len(q5) = n + 6
  BY <1>1, <1>8, <1>9, <1>10, <1>11
<1>13. q5[1] = l
  <2>1. 1 \in 1 .. n + 4 /\ 1 \in 1 .. n + 2 /\ 1 \in 1 .. m /\ 1 \in 1 .. 1
    BY <1>1
  <2>2. q5[1] = q4[1] /\ q4[1] = q3[1]
    BY <1>10, <1>11, <1>12, <2>1
  <2>3. q3[1] = q2[1] /\ q2[1] = q1[1]
    BY <1>8, <1>9, <2>1
  <2> QED BY <1>6, <2>2, <2>3
<1>14. \A i \in 1 .. n : q5[i + 1] = body[i]
  <2> SUFFICES ASSUME NEW i \in 1 .. n PROVE q5[i + 1] = body[i]
    OBVIOUS
  <2>1. i + 1 \in 1 .. n + 4 /\ i + 1 \in 1 .. n + 2 /\ i + 1 \in 1 .. m /\ i + 1 = 1 + i
    BY <1>1
  <2>2. q5[i + 1] = q4[i + 1] /\ q4[i + 1] = q3[i + 1] /\ q3[i + 1] = q2[i + 1]
    BY <1>9, <1>10, <1>11, <1>12, <2>1
  <2> QED BY <1>8, <2>1, <2>2
<1>15. q5[n + 2] = 0
  <2>1. n + 2 \in 1 .. n + 4 /\ n + 2 \in 1 .. n + 2 /\ n + 2 = m + 1 /\ 1 \in 1 .. 1
    BY <1>1
  <2>2. q5[n + 2] = q4[n + 2] /\ q4[n + 2] = q3[n + 2]
    BY <1>10, <1>11, <1>12, <2>1
  <2>3. q3[m + 1] = 0
    BY <1>7, <1>9, <2>1
  <2> QED BY <2>1, <2>2, <2>3
<1>16. q5[n + 3] = 0 /\ q5[n + 4] = 1
  <2>1. n + 3 \in 1 .. n + 4 /\ n + 4 \in 1 .. n + 4 /\ Len(q3) + 1 = n + 3 /\ Len(q3) + 2 = n + 4
    BY <1>1, <1>12
  <2>2. q5[n + 3] = q4[n + 3] /\ q5[n + 4] = q4[n + 4]
    BY <1>11, <1>12, <2>1
  <2> QED BY <1>10, <2>1, <2>2
<1>17. q5[n + 5] = 0 /\ q5[n + 6] = 1
  <2>1. Len(q4) + 1 = n + 5 /\ Len(q4) + 2 = n + 6
    BY <1>1, <1>12
  <2> QED BY <1>11, <2>1
<1> QED BY <1>2, <1>11, <1>12, <1>13, <1>14, <1>15, <1>16, <1>17 DEF n, l, body

LEMMA RecordIs ==
  ASSUME NEW address \in [1 .. 4 -> Octets]
  PROVE  LET r == Record(address) IN
         /\ r \in Seq(Octets) /\ Len(r) = 16
         /\ r[1] * 256 + r[2] = RR_NAME
         /\ r[3] = 0 /\ r[4] = 1 /\ r[5] = 0 /\ r[6] = 1
         /\ r[7] = 0 /\ r[8] = 0 /\ r[9] = 0 /\ r[10] = 0 /\ r[11] = 0 /\ r[12] = 4
         /\ \A k \in 1 .. 4 : r[12 + k] = address[k]
<1> DEFINE a == RR_NAME \div 256
           b == RR_NAME % 256
           r1 == <<a, b>>
           r2 == r1 \o <<0, 1>>
           r3 == r2 \o <<0, 1>>
           z == <<0, 0, 0, 0>>
           r4 == r3 \o z
           r5 == r4 \o <<0, 4>>
           r6 == r5 \o address
<1>1. a \in Octets /\ b \in Octets /\ a * 256 + b = RR_NAME
  <2>1. RR_NAME \in Words
    BY DEF RR_NAME, Words
  <2> HIDE DEF RR_NAME
  <2> QED BY <2>1, NumberOctets
<1>2. 0 \in Octets /\ 1 \in Octets /\ 4 \in Octets
  BY DEF Octets
<1>3. S(1) = <<0, 1>> /\ S(4) = <<0, 4>>
  <2>1. 1 \div 256 = 0 /\ 1 % 256 = 1 /\ 4 \div 256 = 0 /\ 4 % 256 = 4
    OBVIOUS
  <2> QED BY <2>1 DEF S
<1>4. S(RR_NAME) = r1
  BY DEF S
<1> HIDE DEF a, b
<1>5. Record(address) = r6
  <2> HIDE DEF z, r1
  <2>1. Record(address) = S(RR_NAME) \o S(1) \o S(1) \o z \o S(4) \o address
    BY DEF Record, z
  <2> QED BY <1>3, <1>4, <2>1
<1>6. r1 \in Seq(Octets) /\ Len(r1) = 2 /\ r1[1] = a /\ r1[2] = b
  BY <1>1, Pair
<1> HIDE DEF r1
<1>7. r2 \in Seq(Octets) /\ Len(r2) = Len(r1) + 2 /\ (\A k \in 1 .. Len(r1) : r2[k] = r1[k])
      /\ r2[Len(r1) + 1] = 0 /\ r2[Len(r1) + 2] = 1
  <2>1. r1 \in Seq(Octets)
    BY <1>6
  <2> QED BY <1>2, <2>1, PairBehind
<1> HIDE DEF r2
<1>8. r3 \in Seq(Octets) /\ Len(r3) = Len(r2) + 2 /\ (\A k \in 1 .. Len(r2) : r3[k] = r2[k])
      /\ r3[Len(r2) + 1] = 0 /\ r3[Len(r2) + 2] = 1
  BY <1>2, <1>7, PairBehind
<1> HIDE DEF r3
<1>9. Len(r2) = 4 /\ Len(r3) = 6
  BY <1>6, <1>7, <1>8
<1>10. z \in Seq(Octets) /\ Len(z) = 4 /\ (\A k \in 1 .. 4 : z[k] = 0) /\ 4 \in Nat /\ 6 \in Nat
  BY <1>2
<1> HIDE DEF z
<1>11. r4 \in Seq(Octets) /\ Len(r4) = 6 + 4 /\ (\A k \in 1 .. 6 : r4[k] = r3[k])
       /\ \A k \in 1 .. 4 : r4[6 + k] = z[k]
  <2>1. r3 \in Seq(Octets) /\ z \in Seq(Octets)
    BY <1>8, <1>10
  <2>2. r4 \in Seq(Octets) /\ Len(r4) = Len(r3) + Len(z) /\ (\A k \in 1 .. Len(r3) : r4[k] = r3[k])
        /\ \A k \in 1 .. Len(z) : r4[Len(r3) + k] = z[k]
    BY <2>1, Behind
  <2> HIDE DEF r4
  <2> QED BY <1>9, <1>10, <2>2
<1> HIDE DEF r4
<1>12. r5 \in Seq(Octets) /\ Len(r5) = Len(r4) + 2 /\ (\A k \in 1 .. Len(r4) : r5[k] = r4[k])
       /\ r5[Len(r4) + 1] = 0 /\ r5[Len(r4) + 2] = 4
  <2>1. r4 \in Seq(Octets)
    BY <1>11
  <2> QED BY <1>2, <2>1, PairBehind
<1> HIDE DEF r5
<1>13. address \in Seq(Octets) /\ Len(address) = 4 /\ 12 \in Nat /\ Len(r5) = 12
  <2>1. address \in Seq(Octets) /\ Len(address) = 4
    <3> DEFINE four == 4
    <3>1. four \in Nat /\ address \in [1 .. four -> Octets]
      OBVIOUS
    <3> HIDE DEF four
    <3>2. address \in Seq(Octets) /\ Len(address) = four
      BY <3>1
    <3> QED BY <3>2 DEF four
  <2>2. Len(r5) = 12
    BY <1>11, <1>12
  <2> QED BY <2>1, <2>2
<1>14. r6 \in Seq(Octets) /\ Len(r6) = 12 + 4 /\ (\A k \in 1 .. 12 : r6[k] = r5[k])
       /\ \A k \in 1 .. 4 : r6[12 + k] = address[k]
  <2>1. r5 \in Seq(Octets) /\ address \in Seq(Octets)
    BY <1>12, <1>13
  <2>2. r6 \in Seq(Octets) /\ Len(r6) = Len(r5) + Len(address) /\ (\A k \in 1 .. Len(r5) : r6[k] = r5[k])
        /\ \A k \in 1 .. Len(address) : r6[Len(r5) + k] = address[k]
    BY <2>1, Behind
  <2>3. Len(r5) = 12 /\ Len(address) = 4
    BY <1>13
  <2> HIDE DEF r6
  <2> QED BY <2>2, <2>3
<1> HIDE DEF r6
<1>15. /\ r6[1] = r1[1] /\ r6[2] = r1[2] /\ r6[3] = r2[3] /\ r6[4] = r2[4] /\ r6[5] = r3[5] /\ r6[6] = r3[6]
  BY <1>6, <1>7, <1>8, <1>9, <1>11, <1>12, <1>14
<1>16. r6[7] = 0 /\ r6[8] = 0 /\ r6[9] = 0 /\ r6[10] = 0
  <2>1. r4[6 + 1] = 0 /\ r4[6 + 2] = 0 /\ r4[6 + 3] = 0 /\ r4[6 + 4] = 0
    BY <1>10, <1>11
  <2> QED BY <1>11, <1>12, <1>14, <2>1
<1>17. r6[11] = 0 /\ r6[12] = 4
  BY <1>11, <1>12, <1>14
<1> QED BY <1>1, <1>5, <1>6, <1>7, <1>8, <1>9, <1>14, <1>15, <1>16, <1>17
-----------------------------------------------------------------------------
(* Reading a message *)

\* What stands in a message, place by place.
LEMMA QueryLayout ==
  ASSUME NEW name \in ShortNames, WellFormed(name), NEW globals, GlobalsOK(globals)
  PROVE  LET data == GenQuery(globals, name)
             h == Header(globals)
             q == Question(name)
         IN  /\ data \in Seq(Octets) /\ Len(data) = 18 + Len(name)
             /\ \A k \in 1 .. 12 : data[k] = h[k]
             /\ \A k \in 1 .. Len(name) + 6 : data[12 + k] = q[k]
<1> DEFINE h == Header(globals)
           q == Question(name)
<1>1. h \in Seq(Octets) /\ Len(h) = 12
  BY HeaderIs
<1>2. q \in Seq(Octets) /\ Len(q) = Len(name) + 6 /\ Len(name) \in Nat
  BY QuestionIs, NameLength
<1> HIDE DEF h, q
<1>3. h \o q \in Seq(Octets) /\ Len(h \o q) = Len(h) + Len(q) /\ (\A k \in 1 .. Len(h) : (h \o q)[k] = h[k])
      /\ \A k \in 1 .. Len(q) : (h \o q)[Len(h) + k] = q[k]
  <2>1. h \in Seq(Octets) /\ q \in Seq(Octets)
    BY <1>1, <1>2
  <2> QED BY <2>1, Behind
<1> DEFINE d == h \o q
           n == Len(name)
<1>4. d = GenQuery(globals, name)
  BY DEF GenQuery, h, q
<1> HIDE DEF d, n
<1>5. d \in Seq(Octets) /\ Len(d) = 18 + n /\ (\A k \in 1 .. 12 : d[k] = h[k])
      /\ \A k \in 1 .. n + 6 : d[12 + k] = q[k]
  BY <1>1, <1>2, <1>3 DEF d, n
<1> QED BY <1>4, <1>5 DEF n, h, q

LEMMA ResponseLayout ==
  ASSUME NEW name \in ShortNames, WellFormed(name), NEW globals, GlobalsOK(globals),
         NEW address \in [1 .. 4 -> Octets]
  PROVE  LET data == GenResponse(globals, name, address)
             h == Header(globals)
             q == Question(name)
             r == Record(address)
         IN  /\ data \in Seq(Octets) /\ Len(data) = 34 + Len(name)
             /\ \A k \in 1 .. 12 : data[k] = h[k]
             /\ \A k \in 1 .. Len(name) + 6 : data[12 + k] = q[k]
             /\ \A k \in 1 .. 16 : data[18 + Len(name) + k] = r[k]
<1> DEFINE p == GenQuery(globals, name)
           h == Header(globals)
           q == Question(name)
           r == Record(address)
           n == Len(name)
<1>1. /\ p \in Seq(Octets) /\ Len(p) = 18 + n
      /\ \A k \in 1 .. 12 : p[k] = h[k]
      /\ \A k \in 1 .. n + 6 : p[12 + k] = q[k]
  BY QueryLayout
<1>2. r \in Seq(Octets) /\ Len(r) = 16
  BY RecordIs
<1>3. n \in Nat
  BY NameLength
<1>4. GenResponse(globals, name, address) = p \o r
  BY DEF GenResponse, GenQuery
<1> HIDE DEF p, h, q, r, n
<1>5. p \o r \in Seq(Octets) /\ Len(p \o r) = Len(p) + Len(r) /\ (\A k \in 1 .. Len(p) : (p \o r)[k] = p[k])
      /\ \A k \in 1 .. Len(r) : (p \o r)[Len(p) + k] = r[k]
  <2>1. p \in Seq(Octets) /\ r \in Seq(Octets)
    BY <1>1, <1>2
  <2> QED BY <2>1, Behind
<1> DEFINE d == p \o r
           m == 18 + n
<1>9. m \in Nat /\ Len(p) = m /\ Len(r) = 16 /\ m + 16 = 34 + n
  BY <1>1, <1>2, <1>3
<1> HIDE DEF d, m
<1>10. d \in Seq(Octets) /\ Len(d) = Len(p) + Len(r) /\ (\A k \in 1 .. Len(p) : d[k] = p[k])
       /\ \A k \in 1 .. Len(r) : d[Len(p) + k] = r[k]
  BY <1>5 DEF d
<1>11. d \in Seq(Octets) /\ Len(d) = 34 + n /\ (\A k \in 1 .. m : d[k] = p[k])
       /\ \A k \in 1 .. 16 : d[m + k] = r[k]
  BY <1>9, <1>10
<1>6. d \in Seq(Octets) /\ Len(d) = 34 + n /\ (\A k \in 1 .. 18 + n : d[k] = p[k])
      /\ \A k \in 1 .. 16 : d[18 + n + k] = r[k]
  BY <1>11 DEF m
<1>7. \A k \in 1 .. 12 : d[k] = h[k]
  <2>1. \A k \in 1 .. 12 : k \in 1 .. 18 + n
    BY <1>3
  <2> QED BY <1>1, <1>6, <2>1
<1>8. \A k \in 1 .. n + 6 : d[12 + k] = q[k]
  <2>1. \A k \in 1 .. n + 6 : 12 + k \in 1 .. 18 + n
    BY <1>3
  <2> QED BY <1>1, <1>6, <2>1
<1> QED BY <1>4, <1>6, <1>7, <1>8 DEF d, h, q, r, n

\* Either message begins with its header and carries the name behind it.
LEMMA CarriesName ==
  ASSUME NEW name \in ShortNames, WellFormed(name), NEW data \in Seq(Octets),
         Len(data) >= 18 + Len(name),
         \A k \in 1 .. Len(name) + 6 : data[12 + k] = Question(name)[k]
  PROVE  /\ ParseName(data, 13) = [text |-> name, next |-> 15 + Len(name)]
         /\ LET p == 15 + Len(name) IN data[p] = 0 /\ data[p + 1] = 1 /\ data[p + 2] = 0 /\ data[p + 3] = 1
<1> DEFINE n == Len(name)
           q == Question(name)
           body == Labels(name)
<1>1. n \in Nat /\ name \in Seq(Octets) /\ DOMAIN name = 1 .. n
  BY NameLength, LenProperties
<1>2. /\ q[1] = LabelLength(name, 1)
      /\ \A i \in 1 .. n : q[i + 1] = body[i]
      /\ q[n + 2] = 0 /\ q[n + 3] = 0 /\ q[n + 4] = 1 /\ q[n + 5] = 0 /\ q[n + 6] = 1
  BY QuestionIs
<1>3. \A i \in 1 .. n : body[i] = IF name[i] = Dot THEN LabelLength(name, i + 1) ELSE name[i]
  BY <1>1 DEF Labels
<1> HIDE DEF q, body
<1>4. \A k \in 1 .. n + 6 : data[12 + k] = q[k]
  BY DEF q
<1>5. Len(data) >= 18 + n /\ Len(data) \in Nat
  BY LenProperties
<1> HIDE DEF n
<1>6. data[13] = LabelLength(name, 1)
  <2>1. 1 \in 1 .. n + 6 /\ 12 + 1 = 13
    BY <1>1
  <2> QED BY <1>2, <1>4, <2>1
<1>7. data[14 + n] = 0
  <2>1. n + 2 \in 1 .. n + 6 /\ 12 + (n + 2) = 14 + n
    BY <1>1
  <2> QED BY <1>2, <1>4, <2>1
<1>8. ASSUME NEW i \in 1 .. n
      PROVE  data[13 + i] = IF name[i] = Dot THEN LabelLength(name, i + 1) ELSE name[i]
  <2>1. i + 1 \in 1 .. n + 6 /\ 12 + (i + 1) = 13 + i
    BY <1>1
  <2>2. data[13 + i] = body[i]
    BY <1>2, <1>4, <2>1
  <2> QED BY <1>3, <2>2
<1>9. Carries(data, name)
  <2>1. Len(data) >= 14 + n
    BY <1>1, <1>5
  <2> QED BY <1>6, <1>7, <1>8, <2>1 DEF Carries, n
<1>10. ParseName(data, 13) = [text |-> name, next |-> 15 + n]
  BY <1>9, NameRead DEF n
<1>11. data[15 + n] = 0 /\ data[16 + n] = 1 /\ data[17 + n] = 0 /\ data[18 + n] = 1
  <2>1. /\ n + 3 \in 1 .. n + 6 /\ n + 4 \in 1 .. n + 6 /\ n + 5 \in 1 .. n + 6 /\ n + 6 \in 1 .. n + 6
        /\ 12 + (n + 3) = 15 + n /\ 12 + (n + 4) = 16 + n /\ 12 + (n + 5) = 17 + n /\ 12 + (n + 6) = 18 + n
    BY <1>1
  <2> QED BY <1>2, <1>4, <2>1
<1>12. 15 + n + 1 = 16 + n /\ 15 + n + 2 = 17 + n /\ 15 + n + 3 = 18 + n
  BY <1>1
<1> QED BY <1>10, <1>11, <1>12 DEF n

\* What reading makes of the octets of a header.
LEMMA HeaderRead ==
  ASSUME NEW globals, GlobalsOK(globals), NEW data,
         \A k \in 1 .. 12 : data[k] = Header(globals)[k]
  PROVE  /\ US(data, 1) = globals.transId
         /\ Counts(data) = [questions |-> 1, answers |-> globals.answers, authority |-> 0,
                            additional |-> 0]
         /\ globals.qr = 1 => ParseFlags(data) = [qr |-> 1, opcode |-> 0, aa |-> 1, tc |-> 0,
                                                 rd |-> 0, ra |-> 0, z |-> 0, rcode |-> 0]
<1> DEFINE h == Header(globals)
           t == globals.transId
           a == globals.answers
<1>1. /\ h[1] = t \div 256 /\ h[2] = t % 256
      /\ h[3] = globals.qr * 128 + 4 /\ h[4] = 0 /\ h[5] = 0 /\ h[6] = 1
      /\ h[7] = 0 /\ h[8] = a /\ h[9] = 0 /\ h[10] = 0 /\ h[11] = 0 /\ h[12] = 0
  BY HeaderIs
<1>2. t \in Words /\ (a = 0 \/ a = 1)
  BY DEF GlobalsOK
<1> HIDE DEF h, t, a
<1>3. \A k \in 1 .. 12 : data[k] = h[k]
  BY DEF h
<1>4. /\ data[1] = t \div 256 /\ data[2] = t % 256
      /\ data[3] = globals.qr * 128 + 4 /\ data[4] = 0 /\ data[5] = 0 /\ data[6] = 1
      /\ data[7] = 0 /\ data[8] = a /\ data[9] = 0 /\ data[10] = 0 /\ data[11] = 0 /\ data[12] = 0
  BY <1>1, <1>3
<1>5. US(data, 1) = t
  <2>1. US(data, 1) = (t \div 256) * 256 + (t % 256)
    BY <1>4 DEF US
  <2>2. (t \div 256) * 256 + (t % 256) = t
    BY <1>2, NumberOctets
  <2> QED BY <2>1, <2>2
<1>6. US(data, 5) = 1 /\ US(data, 7) = a /\ US(data, 9) = 0 /\ US(data, 11) = 0
  BY <1>2, <1>4 DEF US
<1>7. Counts(data) = [questions |-> 1, answers |-> a, authority |-> 0, additional |-> 0]
  BY <1>6 DEF Counts
<1>8. ASSUME globals.qr = 1
      PROVE  ParseFlags(data) = [qr |-> 1, opcode |-> 0, aa |-> 1, tc |-> 0, rd |-> 0, ra |-> 0, z |-> 0,
                                 rcode |-> 0]
  <2>1. data[3] = 132 /\ data[4] = 0
    BY <1>4, <1>8
  <2>2. /\ Field(132, 128, 2) = 1 /\ Field(132, 8, 16) = 0 /\ Field(132, 4, 2) = 1
        /\ Field(132, 2, 2) = 0 /\ Field(132, 1, 2) = 0
    BY DEF Field
  <2>3. Field(0, 128, 2) = 0 /\ Field(0, 16, 8) = 0 /\ Field(0, 1, 16) = 0
    BY DEF Field
  <2> QED BY <2>1, <2>2, <2>3 DEF ParseFlags
<1> QED BY <1>5, <1>7, <1>8 DEF t, a

\* The server reads from the octets of gen_query the number and the name that
\* were written, for every well-formed name that fits.
THEOREM QueryRead ==
  ASSUME NEW name \in ShortNames, WellFormed(name), NEW globals, GlobalsOK(globals), globals.answers = 0
  PROVE  LET message == ParseMessage(GenQuery(globals, name), TRUE)
         IN  message # Raised /\ message.transId = globals.transId /\ message.name = name
<1> DEFINE data == GenQuery(globals, name)
           n == Len(name)
           read == ParseName(data, 13)
           good == [transId |-> US(data, 1), flags |-> ParseFlags(data), counts |-> Counts(data),
                    name |-> read.text, qtype |-> US(data, read.next), qclass |-> US(data, read.next + 2),
                    record |-> NoRecord]
<1>1. /\ data \in Seq(Octets) /\ Len(data) = 18 + n
      /\ \A k \in 1 .. 12 : data[k] = Header(globals)[k]
      /\ \A k \in 1 .. n + 6 : data[12 + k] = Question(name)[k]
  BY QueryLayout
<1>2. n \in Nat
  BY NameLength
<1> HIDE DEF data, n
<1>3. Len(data) >= 18 + n /\ ~(Len(data) <= HeaderLength)
  BY <1>1, <1>2 DEF HeaderLength
<1>4. read = [text |-> name, next |-> 15 + n]
  BY <1>1, <1>3, CarriesName DEF n
<1>5. US(data, 1) = globals.transId /\ Counts(data).answers = 0
  <2>1. /\ US(data, 1) = globals.transId
        /\ Counts(data) = [questions |-> 1, answers |-> globals.answers, authority |-> 0, additional |-> 0]
    BY <1>1, HeaderRead
  <2> QED BY <2>1
<1>6. read # Raised /\ read.text = name /\ read.next = 15 + n
  BY <1>4, RaisedIsNone
<1> HIDE DEF read
<1>7. ~(read.next + 3 > Len(data))
  BY <1>1, <1>2, <1>6
<1>8. NoRecord # Raised
  <2>1. DOMAIN NoRecord = {"rrQtype", "rrQclass", "rrTtl", "rrDl", "address"}
    BY DEF NoRecord
  <2>2. DOMAIN Raised = {"raised"}
    BY DEF Raised
  <2>3. "rrQtype" # "raised"
    OBVIOUS
  <2> QED BY <2>1, <2>2, <2>3
<1>9. ParseMessage(data, TRUE) = good
  <2>1. read = ParseName(data, HeaderLength + 1)
    <3>1. HeaderLength + 1 = 13
      BY DEF HeaderLength
    <3> QED BY <3>1 DEF read
  <2> HIDE DEF good
  <2> QED BY <1>3, <1>5, <1>6, <1>7, <1>8, <2>1, Zenon DEF ParseMessage, good
<1>10. good # Raised
  <2>1. DOMAIN good = {"transId", "flags", "counts", "name", "qtype", "qclass", "record"}
    OBVIOUS
  <2>2. DOMAIN Raised = {"raised"}
    BY DEF Raised
  <2>3. "transId" # "raised"
    OBVIOUS
  <2> HIDE DEF good
  <2> QED BY <2>1, <2>2, <2>3
<1>11. good.transId = globals.transId /\ good.name = name
  BY <1>5, <1>6
<1> HIDE DEF good
<1> QED BY <1>9, <1>10, <1>11 DEF data
LEMMA AddressLength ==
  ASSUME NEW address \in [1 .. 4 -> Octets]
  PROVE  address \in Seq(Octets) /\ Len(address) = 4
<1> DEFINE four == 4
<1>1. four \in Nat /\ address \in [1 .. four -> Octets]
  OBVIOUS
<1> HIDE DEF four
<1>2. address \in Seq(Octets) /\ Len(address) = four
  BY <1>1
<1> QED BY <1>2 DEF four

LEMMA SmallNumber ==
  ASSUME NEW data, NEW i, data[i] = 0
  PROVE  /\ data[i + 1] = 0 => US(data, i) = 0
         /\ data[i + 1] = 1 => US(data, i) = 1
         /\ data[i + 1] = 4 => US(data, i) = 4
BY DEF US

LEMMA Slice ==
  ASSUME NEW data \in Seq(Octets), NEW m \in Nat \ {0}, NEW e \in Nat, m <= e, e <= Len(data)
  PROVE  /\ SubSeq(data, m, e) \in Seq(Octets) /\ Len(SubSeq(data, m, e)) = e - m + 1
         /\ \A k \in 1 .. e - m + 1 : SubSeq(data, m, e)[k] = data[m + k - 1]
<1>1. \A k \in m .. e : k \in 1 .. Len(data)
  OBVIOUS
<1>2. \A k \in m .. e : data[k] \in Octets
  BY <1>1, ElementOfSeq
<1> QED BY <1>2, SubSeqProperties

\* The record behind the question.
LEMMA RecordRead ==
  ASSUME NEW data, NEW p \in Nat, Len(data) = p + 15, NEW address \in [1 .. 4 -> Octets],
         \A k \in 1 .. 16 : data[p - 1 + k] = Record(address)[k],
         data \in Seq(Octets)
  PROVE  ParseRecord(data, p) = [rrQtype |-> 1, rrQclass |-> 1, rrTtl |-> 0, rrDl |-> 4, address |-> address]
<1> DEFINE r == Record(address)
           q == p - 1
<1>1. /\ r[1] * 256 + r[2] = RR_NAME
      /\ r[3] = 0 /\ r[4] = 1 /\ r[5] = 0 /\ r[6] = 1
      /\ r[7] = 0 /\ r[8] = 0 /\ r[9] = 0 /\ r[10] = 0 /\ r[11] = 0 /\ r[12] = 4
      /\ \A k \in 1 .. 4 : r[12 + k] = address[k]
  BY RecordIs
<1> HIDE DEF r
<1>2. \A k \in 1 .. 16 : data[q + k] = r[k]
  BY DEF r
<1>3. /\ p = q + 1 /\ p + 1 = q + 2 /\ p + 2 = q + 3 /\ p + 2 + 1 = q + 4 /\ p + 2 + 2 = q + 5 /\ p + 2 + 2 + 1 = q + 6
      /\ p + 2 + 4 = q + 7 /\ p + 2 + 4 + 1 = q + 8 /\ p + 2 + 6 = q + 9 /\ p + 2 + 6 + 1 = q + 10
      /\ p + 2 + 8 = q + 11 /\ p + 2 + 8 + 1 = q + 12
  OBVIOUS
<1> HIDE DEF q
<1>4. /\ data[q + 1] = r[1] /\ data[q + 2] = r[2] /\ data[q + 3] = r[3] /\ data[q + 4] = r[4]
      /\ data[q + 5] = r[5] /\ data[q + 6] = r[6] /\ data[q + 7] = r[7] /\ data[q + 8] = r[8]
      /\ data[q + 9] = r[9] /\ data[q + 10] = r[10] /\ data[q + 11] = r[11] /\ data[q + 12] = r[12]
  BY <1>2
<1>5. US(data, p) = RR_NAME
  BY <1>1, <1>3, <1>4 DEF US
<1>6. /\ US(data, p + 2) = 1 /\ US(data, p + 2 + 2) = 1 /\ US(data, p + 2 + 4) = 0
      /\ US(data, p + 2 + 6) = 0 /\ US(data, p + 2 + 8) = 4
  <2>1. /\ data[p + 2] = 0 /\ data[p + 2 + 1] = 1 /\ data[p + 2 + 2] = 0 /\ data[p + 2 + 2 + 1] = 1
        /\ data[p + 2 + 4] = 0 /\ data[p + 2 + 4 + 1] = 0 /\ data[p + 2 + 6] = 0
        /\ data[p + 2 + 6 + 1] = 0 /\ data[p + 2 + 8] = 0 /\ data[p + 2 + 8 + 1] = 4
    BY <1>1, <1>3, <1>4, Zenon
  <2>2. US(data, p + 2) = 1
    BY <2>1, SmallNumber, Zenon
  <2>3. US(data, p + 2 + 2) = 1
    BY <2>1, SmallNumber, Zenon
  <2>4. US(data, p + 2 + 4) = 0
    BY <2>1, SmallNumber, Zenon
  <2>5. US(data, p + 2 + 6) = 0
    BY <2>1, SmallNumber, Zenon
  <2>6. US(data, p + 2 + 8) = 4
    BY <2>1, SmallNumber, Zenon
  <2> QED BY <2>2, <2>3, <2>4, <2>5, <2>6, Zenon
<1>7. ~(p + 1 > Len(data)) /\ ~(p + 2 + 13 > Len(data))
  OBVIOUS
<1> DEFINE name == [text |-> <<>>, next |-> p + 2]
<1>8. RecordName(data, p) = name /\ name # Raised /\ name.next = p + 2
  BY <1>5, <1>7, RaisedIsNone DEF RecordName
<1>9. SubSeq(data, p + 2 + 10, p + 2 + 13) = address
  <2> DEFINE s == SubSeq(data, p + 2 + 10, p + 2 + 13)
             m == p + 2 + 10
  <2>1. m \in Nat /\ p + 2 + 13 = m + 3 /\ q + 13 = m /\ Len(data) = m + 3 /\ m >= 1
    BY DEF q
  <2>2. \A k \in m .. m + 3 : data[k] \in Octets
    BY <2>1, ElementOfSeq
  <2> HIDE DEF m
  <2>3. s \in Seq(Octets) /\ Len(s) = 4 /\ \A k \in 1 .. 4 : s[k] = data[m + k - 1]
    <3> DEFINE e == m + 3
    <3>1. s = SubSeq(data, m, e)
      BY <2>1 DEF m
    <3>2. m \in Nat \ {0} /\ e \in Nat /\ m <= e /\ e - m + 1 = 4 /\ e <= Len(data)
      BY <2>1
    <3> HIDE DEF s, e
    <3>4. s \in Seq(Octets) /\ Len(s) = e - m + 1 /\ \A k \in 1 .. e - m + 1 : s[k] = data[m + k - 1]
      BY <3>1, <3>2, Slice, Zenon
    <3> QED BY <3>2, <3>4
  <2> HIDE DEF s
  <2>4. ASSUME NEW k \in 1 .. 4 PROVE s[k] = address[k]
    <3>1. 12 + k \in 1 .. 16 /\ q + (12 + k) = m + k - 1
      BY <2>1 DEF q
    <3>2. data[q + (12 + k)] = r[12 + k]
      BY <1>2, <3>1
    <3> QED BY <1>1, <2>3, <3>1, <3>2
  <2>5. address \in Seq(Octets) /\ Len(address) = 4
    BY AddressLength
  <2>6. s = address
    BY <2>3, <2>4, <2>5, SeqEqual
  <2> QED BY <2>6 DEF s
<1>10. US(data, p + 2 + 4) * 256 + US(data, p + 2 + 6) = 0
  BY <1>6
<1> HIDE DEF name
<1> QED BY <1>6, <1>7, <1>8, <1>9, <1>10, Zenon DEF ParseRecord

\* The client reads from the octets of gen_response what test_dns_simple requires,
\* and the address that was written.
THEOREM ResponseRead ==
  ASSUME NEW name \in ShortNames, WellFormed(name), NEW globals, GlobalsOK(globals),
         globals.answers = 1, globals.qr = 1, NEW address \in [1 .. 4 -> Octets]
  PROVE  LET message == ParseMessage(GenResponse(globals, name, address), FALSE)
         IN  /\ message # Raised /\ Expected(message, globals.transId, name)
             /\ message.record.address = address
<1> DEFINE data == GenResponse(globals, name, address)
           n == Len(name)
           read == ParseName(data, 13)
           rec == [rrQtype |-> 1, rrQclass |-> 1, rrTtl |-> 0, rrDl |-> 4, address |-> address]
           good == [transId |-> US(data, 1), flags |-> ParseFlags(data), counts |-> Counts(data),
                    name |-> read.text, qtype |-> US(data, read.next), qclass |-> US(data, read.next + 2),
                    record |-> rec]
<1>1. /\ data \in Seq(Octets) /\ Len(data) = 34 + n
      /\ \A k \in 1 .. 12 : data[k] = Header(globals)[k]
      /\ \A k \in 1 .. n + 6 : data[12 + k] = Question(name)[k]
      /\ \A k \in 1 .. 16 : data[18 + n + k] = Record(address)[k]
  BY ResponseLayout
<1>2. n \in Nat
  BY NameLength
<1> HIDE DEF data, n
<1>3. Len(data) >= 18 + n /\ ~(Len(data) <= HeaderLength)
  <2>1. Len(data) = 34 + n
    BY <1>1
  <2> QED BY <1>2, <2>1 DEF HeaderLength
<1>4. /\ read = [text |-> name, next |-> 15 + n]
      /\ data[15 + n] = 0 /\ data[15 + n + 1] = 1 /\ data[15 + n + 2] = 0 /\ data[15 + n + 3] = 1
  BY <1>1, <1>3, CarriesName DEF n
<1>5. /\ US(data, 1) = globals.transId
      /\ Counts(data) = [questions |-> 1, answers |-> 1, authority |-> 0, additional |-> 0]
      /\ ParseFlags(data) = [qr |-> 1, opcode |-> 0, aa |-> 1, tc |-> 0, rd |-> 0, ra |-> 0, z |-> 0,
                             rcode |-> 0]
  BY <1>1, HeaderRead
<1>6. read # Raised /\ read.text = name /\ read.next = 15 + n
  BY <1>4, RaisedIsNone
<1> HIDE DEF read
<1>7. ~(read.next + 3 > Len(data))
  BY <1>1, <1>2, <1>6
<1>8. ParseRecord(data, read.next + 4) = rec
  <2> DEFINE p == 19 + n
  <2>1. p \in Nat /\ read.next + 4 = p /\ Len(data) = p + 15 /\ p - 1 = 18 + n
    BY <1>1, <1>2, <1>6
  <2> HIDE DEF p, rec
  <2>2. \A k \in 1 .. 16 : data[p - 1 + k] = Record(address)[k]
    BY <1>1, <2>1
  <2>3. ParseRecord(data, p) = rec
    BY <1>1, <2>1, <2>2, RecordRead DEF rec
  <2> QED BY <2>1, <2>3
<1>9. rec # Raised
  <2>1. DOMAIN rec = {"rrQtype", "rrQclass", "rrTtl", "rrDl", "address"}
    OBVIOUS
  <2>2. DOMAIN Raised = {"raised"}
    BY DEF Raised
  <2>3. "rrQtype" # "raised"
    OBVIOUS
  <2> HIDE DEF rec
  <2> QED BY <2>1, <2>2, <2>3
<1>10. ParseMessage(data, FALSE) = good
  <2>1. read = ParseName(data, HeaderLength + 1)
    <3>1. HeaderLength + 1 = 13
      BY DEF HeaderLength
    <3> QED BY <3>1 DEF read
  <2>2. Counts(data).answers # 0
    BY <1>5
  <2> HIDE DEF good, rec
  <2> QED BY <1>3, <1>6, <1>7, <1>8, <1>9, <2>1, <2>2, Zenon DEF ParseMessage, good
<1>11. good # Raised
  <2>1. DOMAIN good = {"transId", "flags", "counts", "name", "qtype", "qclass", "record"}
    OBVIOUS
  <2>2. DOMAIN Raised = {"raised"}
    BY DEF Raised
  <2>3. "transId" # "raised"
    OBVIOUS
  <2> HIDE DEF good
  <2> QED BY <2>1, <2>2, <2>3
<1>12. US(data, 15 + n) = 1 /\ US(data, 15 + n + 2) = 1
  <2>1. 15 + n + 2 + 1 = 15 + n + 3
    BY <1>2
  <2> QED BY <1>4, <2>1 DEF US
<1>13. /\ good.transId = globals.transId /\ good.name = name
       /\ good.flags = ParseFlags(data) /\ good.counts = Counts(data)
       /\ good.qtype = 1 /\ good.qclass = 1 /\ good.record = rec
  BY <1>5, <1>6, <1>12
<1> HIDE DEF good
<1>14. /\ rec.rrQtype = 1 /\ rec.rrQclass = 1 /\ rec.rrTtl = 0 /\ rec.rrDl = 4 /\ rec.address = address
  OBVIOUS
<1> HIDE DEF rec
<1>15. Expected(good, globals.transId, name)
  BY <1>5, <1>13, <1>14, Zenon DEF Expected
<1>16. good.record.address = address
  BY <1>13, <1>14
<1> QED BY <1>10, <1>11, <1>15, <1>16 DEF data

-----------------------------------------------------------------------------
(* Datagrams and answers *)

\* The globals with which the server answers a client.
Answering(c) == [transId |-> TransId[c], qr |-> 1, answers |-> 1]

ClientOK(c) ==
  /\ client[c] = [waits |-> client[c].waits, asked |-> client[c].asked, name |-> client[c].name,
                  answer |-> client[c].answer]
  /\ client[c].waits \in Nat /\ client[c].asked \in Nat /\ client[c].name \in ShortNames
  /\ Waiting(c) => client[c].asked > 0

\* A query whose client still waits at its socket is the one it sent last.
QueryOK(query) ==
  LET c == query.from[1] IN
  /\ query.from \in Clients \X Nat /\ query.from[2] <= client[c].asked
  /\ IsOpen(query.from) => query.data = GenQuery(Fresh(TransId[c]), client[c].name)

\* What comes to a socket that is open is the answer to what was asked there.
ReplyOK(reply) ==
  LET c == reply.to[1] IN
  /\ reply.to \in Clients \X Nat /\ reply.to[2] <= client[c].asked
  /\ IsOpen(reply.to) /\ WellFormed(client[c].name) =>
       \E i \in DOMAIN Servers :
         reply.data = GenResponse(Answering(c), client[c].name, AddressOf[Servers[i]])

ServerOK ==
  /\ server = [up |-> server.up, curr |-> server.curr, globals |-> server.globals]
  /\ server.globals = [transId |-> server.globals.transId, qr |-> server.globals.qr,
                       answers |-> server.globals.answers]

UnderstoodBy(c) ==
  Answered(c) /\ WellFormed(client[c].name) =>
      /\ client[c].answer # Raised
      /\ Expected(client[c].answer, TransId[c], client[c].name)
      /\ \E i \in DOMAIN Servers : client[c].answer.record.address = AddressOf[Servers[i]]

MessagesInv ==
  /\ ServerOK
  /\ client = [c \in Clients |-> client[c]]
  /\ \A c \in Clients : ClientOK(c)
  /\ \A query \in queries : QueryOK(query)
  /\ \A reply \in replies : ReplyOK(reply)
  /\ \A c \in Clients : UnderstoodBy(c)

\* What a client does with its socket: it keeps it, or closes it, or has a new
\* one.
Moves ==
  \A c \in Clients :
    \/ /\ client'[c].asked = client[c].asked /\ client'[c].name = client[c].name
       /\ client'[c].waits > 0 => client[c].waits > 0
    \/ client'[c].asked = client[c].asked + 1

\* No socket that was closed, or is an old one, is open again.
LEMMA SocketsStay ==
  ASSUME Moves, \A c \in Clients : client[c].asked \in Nat,
         NEW socket \in Clients \X Nat, socket[2] <= client[socket[1]].asked
  PROVE  /\ socket[2] <= client'[socket[1]].asked
         /\ IsOpen(socket)' => IsOpen(socket) /\ client'[socket[1]].name = client[socket[1]].name
<1> DEFINE c == socket[1]
           k == socket[2]
<1>1. c \in Clients /\ k \in Nat /\ socket = <<c, k>>
  OBVIOUS
<1>2. client[c].asked \in Nat /\ k <= client[c].asked
  BY <1>1
<1> HIDE DEF c, k
<1>3. IsOpen(socket)' <=> (socket = <<socket[1], client'[socket[1]].asked>> /\ client'[socket[1]].waits > 0)
  BY DEF IsOpen, Socket, Waiting
<1>4. IsOpen(socket) <=> (socket = <<socket[1], client[socket[1]].asked>> /\ client[socket[1]].waits > 0)
  BY DEF IsOpen, Socket, Waiting
<1>5. socket[1] = c /\ socket[2] = k
  BY DEF c, k
<1>6. CASE /\ client'[c].asked = client[c].asked /\ client'[c].name = client[c].name
           /\ client'[c].waits > 0 => client[c].waits > 0
  BY <1>2, <1>3, <1>4, <1>5, <1>6
<1>7. CASE client'[c].asked = client[c].asked + 1
  <2>1. k <= client'[c].asked /\ k # client'[c].asked
    BY <1>1, <1>2, <1>7
  <2>2. socket # <<c, client'[c].asked>>
    BY <1>1, <2>1
  <2> QED BY <1>3, <1>5, <2>1, <2>2
<1> QED BY <1>1, <1>6, <1>7 DEF Moves

LEMMA QueriesStay ==
  ASSUME MessagesInv, Moves, NEW query \in queries
  PROVE  QueryOK(query)'
<1>1. \A c \in Clients : client[c].asked \in Nat
  BY DEF MessagesInv, ClientOK
<1>2. query.from \in Clients \X Nat /\ query.from[2] <= client[query.from[1]].asked
      /\ (IsOpen(query.from) => query.data = GenQuery(Fresh(TransId[query.from[1]]), client[query.from[1]].name))
  BY DEF MessagesInv, QueryOK
<1> DEFINE socket == query.from
<1> HIDE DEF socket
<1>3. socket \in Clients \X Nat /\ socket[2] <= client[socket[1]].asked
  BY <1>2 DEF socket
<1>4. /\ socket[2] <= client'[socket[1]].asked
      /\ IsOpen(socket)' => IsOpen(socket) /\ client'[socket[1]].name = client[socket[1]].name
  BY <1>1, <1>3, SocketsStay
<1>5. /\ query.from[2] <= client'[query.from[1]].asked
      /\ IsOpen(query.from)' => IsOpen(query.from) /\ client'[query.from[1]].name = client[query.from[1]].name
  BY <1>4 DEF socket
<1> QED BY <1>2, <1>5 DEF QueryOK

LEMMA RepliesStay ==
  ASSUME MessagesInv, Moves, NEW reply \in replies
  PROVE  ReplyOK(reply)'
<1>1. \A c \in Clients : client[c].asked \in Nat
  BY DEF MessagesInv, ClientOK
<1>2. reply.to \in Clients \X Nat /\ reply.to[2] <= client[reply.to[1]].asked
      /\ (IsOpen(reply.to) /\ WellFormed(client[reply.to[1]].name) =>
            \E i \in DOMAIN Servers :
              reply.data = GenResponse(Answering(reply.to[1]), client[reply.to[1]].name, AddressOf[Servers[i]]))
  BY DEF MessagesInv, ReplyOK
<1> DEFINE socket == reply.to
<1> HIDE DEF socket
<1>3. socket \in Clients \X Nat /\ socket[2] <= client[socket[1]].asked
  BY <1>2 DEF socket
<1>4. /\ socket[2] <= client'[socket[1]].asked
      /\ IsOpen(socket)' => IsOpen(socket) /\ client'[socket[1]].name = client[socket[1]].name
  BY <1>1, <1>3, SocketsStay
<1>5. /\ reply.to[2] <= client'[reply.to[1]].asked
      /\ IsOpen(reply.to)' => IsOpen(reply.to) /\ client'[reply.to[1]].name = client[reply.to[1]].name
  BY <1>4 DEF socket
<1> QED BY <1>2, <1>5, Zenon DEF ReplyOK, Answering

LEMMA FreshOK == ASSUME NEW c \in Clients PROVE GlobalsOK(Fresh(TransId[c])) /\ Fresh(TransId[c]).answers = 0
                                               /\ Fresh(TransId[c]).transId = TransId[c]
<1>1. TransId[c] \in Words
  BY MessagesAssumption
<1> QED BY <1>1 DEF GlobalsOK, Fresh

LEMMA AnsweringOK ==
  ASSUME NEW c \in Clients
  PROVE  GlobalsOK(Answering(c)) /\ Answering(c).answers = 1 /\ Answering(c).qr = 1
         /\ Answering(c).transId = TransId[c]
<1>1. TransId[c] \in Words
  BY MessagesAssumption
<1> QED BY <1>1 DEF GlobalsOK, Answering

LEMMA NamesShort == \A name \in Names : name \in ShortNames
BY MessagesAssumption DEF ShortNames

\* The client that acts, and the others.
LEMMA ClientSteps ==
  ASSUME MessagesInv, NEW c \in Clients, NEW new,
         client' = [client EXCEPT ![c] = new],
         new = [waits |-> new.waits, asked |-> new.asked, name |-> new.name, answer |-> new.answer],
         new.waits \in Nat, new.asked \in Nat, new.name \in ShortNames, new.waits > 0 => new.asked > 0,
         \/ /\ new.asked = client[c].asked /\ new.name = client[c].name
            /\ new.waits > 0 => client[c].waits > 0
         \/ new.asked = client[c].asked + 1
  PROVE  /\ client' = [d \in Clients |-> client'[d]] /\ client'[c] = new
         /\ \A d \in Clients : ClientOK(d)' /\ (d # c => client'[d] = client[d])
         /\ Moves
<1>1. client' = [d \in Clients |-> IF d = c THEN new ELSE client[d]]
  BY DEF MessagesInv
<1>2. client'[c] = new /\ \A d \in Clients : d # c => client'[d] = client[d]
  BY <1>1
<1>3. client' = [d \in Clients |-> client'[d]]
  BY <1>1
<1>4. ClientOK(c)'
  BY <1>2, Zenon DEF ClientOK, Waiting
<1>5. ASSUME NEW d \in Clients, d # c PROVE ClientOK(d)'
  <2>1. ClientOK(d) /\ client'[d] = client[d]
    BY <1>2, <1>5 DEF MessagesInv
  <2> QED BY <2>1, Zenon DEF ClientOK, Waiting
<1>6. Moves
  <2> SUFFICES ASSUME NEW d \in Clients
               PROVE  \/ /\ client'[d].asked = client[d].asked /\ client'[d].name = client[d].name
                         /\ client'[d].waits > 0 => client[d].waits > 0
                      \/ client'[d].asked = client[d].asked + 1
    BY Zenon DEF Moves
  <2>1. CASE d = c
    BY <1>2, <2>1, Zenon
  <2>2. CASE d # c
    BY <1>2, <2>2, Zenon
  <2> QED BY <2>1, <2>2
<1> QED BY <1>2, <1>3, <1>4, <1>5, <1>6

LEMMA AskUnderstood == ASSUME MessagesInv, NEW c \in Clients, NEW name \in ShortNames, Ask(c, name) PROVE MessagesInv'
<1> DEFINE k == client[c].asked
           new == [waits |-> 2, asked |-> k + 1, name |-> name, answer |-> NoAnswer]
<1>0. PICK query : query = [from |-> <<c, k + 1>>, data |-> GenQuery(Fresh(TransId[c]), name)]
  OBVIOUS
<1>1. client' = [client EXCEPT ![c] = new]
  BY DEF Ask, Selects
<1>2. k \in Nat
  BY DEF MessagesInv, ClientOK
<1>3. /\ new.waits = 2 /\ new.asked = k + 1 /\ new.name = name /\ new.answer = NoAnswer
      /\ new = [waits |-> new.waits, asked |-> new.asked, name |-> new.name, answer |-> new.answer]
  OBVIOUS
<1>4. UNCHANGED <<server, replies>> /\ queries' = queries \cup {[from |-> Socket(c)', data |-> GenQuery(Fresh(TransId[c]), name)]}
  BY DEF Ask
<1> HIDE DEF new
<1>5. /\ client' = [d \in Clients |-> client'[d]] /\ client'[c] = new
      /\ \A d \in Clients : ClientOK(d)' /\ (d # c => client'[d] = client[d])
      /\ Moves
  <2>1. /\ new.waits \in Nat /\ new.asked \in Nat /\ (new.waits > 0 => new.asked > 0)
        /\ new.asked = client[c].asked + 1
    BY <1>2, <1>3
  <2> QED BY <1>1, <1>3, <2>1, ClientSteps
<1>6. queries' = queries \cup {query}
  <2>1. Socket(c)' = <<c, k + 1>>
    BY <1>3, <1>5 DEF Socket
  <2> QED BY <1>0, <1>4, <2>1, Zenon
<1>7. QueryOK(query)'
  <2>1. query.from = <<c, k + 1>> /\ query.data = GenQuery(Fresh(TransId[c]), name)
    BY <1>0
  <2>2. query.from \in Clients \X Nat /\ query.from[1] = c /\ query.from[2] = k + 1
    BY <1>2, <2>1
  <2>3. client'[c].asked = k + 1 /\ client'[c].name = name /\ k + 1 <= k + 1
    BY <1>2, <1>3, <1>5
  <2>4. query.from[2] <= client'[query.from[1]].asked
    BY <2>2, <2>3
  <2>5. query.data = GenQuery(Fresh(TransId[query.from[1]]), client'[query.from[1]].name)
    BY <2>1, <2>2, <2>3
  <2> HIDE DEF k
  <2> QED BY <2>2, <2>4, <2>5, Zenon DEF QueryOK
<1>8. \A q \in queries' : QueryOK(q)'
  BY <1>5, <1>6, <1>7, QueriesStay, Zenon
<1>9. \A r \in replies' : ReplyOK(r)'
  BY <1>4, <1>5, RepliesStay
<1>10. \A d \in Clients : UnderstoodBy(d)'
  <2> SUFFICES ASSUME NEW d \in Clients PROVE UnderstoodBy(d)'
    OBVIOUS
  <2>1. CASE d = c
    <3>1. ~Answered(d)'
      BY <1>3, <1>5, <2>1 DEF Answered
    <3> QED BY <3>1 DEF UnderstoodBy
  <2>2. CASE d # c
    <3>1. client'[d] = client[d] /\ UnderstoodBy(d)
      BY <1>5, <2>2 DEF MessagesInv
    <3> QED BY <3>1, Zenon DEF UnderstoodBy, Answered
  <2> QED BY <2>1, <2>2
<1>11. ServerOK'
  BY <1>4 DEF MessagesInv, ServerOK
<1> QED BY <1>5, <1>8, <1>9, <1>10, <1>11, Zenon DEF MessagesInv

\* The client closes its socket, and its answer is what it reads.
LEMMA GetTakes ==
  ASSUME MessagesInv, NEW c \in Clients, Get(c)
  PROVE  \E reply \in RepliesTo(c) :
           client' = [client EXCEPT ![c] = [waits |-> 0, asked |-> client[c].asked, name |-> client[c].name,
                                            answer |-> ParseMessage(reply.data, FALSE)]]
<1>1. PICK reply \in RepliesTo(c) :
        client' = [client EXCEPT ![c].waits = 0, ![c].answer = ParseMessage(reply.data, FALSE)]
  BY Zenon DEF Get
<1> DEFINE message == ParseMessage(reply.data, FALSE)
           old == client[c]
           new == [waits |-> 0, asked |-> old.asked, name |-> old.name, answer |-> message]
<1>2. ClientOK(c) /\ client = [d \in Clients |-> client[d]]
  BY DEF MessagesInv
<1> HIDE DEF message
<1>3. client' = [client EXCEPT ![c] = [[client[c] EXCEPT !.waits = 0] EXCEPT !.answer = message]]
  <2>1. client' = [client EXCEPT ![c].waits = 0, ![c].answer = message]
    BY <1>1 DEF message
  <2>2. client' = [[client EXCEPT ![c].waits = 0] EXCEPT ![c].answer = message]
    BY <2>1, Zenon
  <2> QED BY <1>2, <2>2
<1>4. [[old EXCEPT !.waits = 0] EXCEPT !.answer = message] = new
  <2>1. old = [waits |-> old.waits, asked |-> old.asked, name |-> old.name, answer |-> old.answer]
    BY <1>2 DEF ClientOK
  <2> DEFINE r == [waits |-> 0, asked |-> old.asked, name |-> old.name, answer |-> old.answer]
  <2>2. [old EXCEPT !.waits = 0] = r
    BY <2>1
  <2>3. [r EXCEPT !.answer = message] = new
    OBVIOUS
  <2> HIDE DEF r, new, old
  <2> QED BY <2>2, <2>3
<1> QED BY <1>3, <1>4 DEF message

\* The datagram that is taken for an answer is the one to what was asked.
LEMMA AnswerRead ==
  ASSUME MessagesInv, NEW c \in Clients, Waiting(c), NEW reply \in RepliesTo(c), WellFormed(client[c].name)
  PROVE  LET message == ParseMessage(reply.data, FALSE)
         IN  /\ message # Raised /\ Expected(message, TransId[c], client[c].name)
             /\ \E i \in DOMAIN Servers : message.record.address = AddressOf[Servers[i]]
<1> DEFINE message == ParseMessage(reply.data, FALSE)
<1>1. reply \in replies /\ reply.to = Socket(c)
  BY DEF RepliesTo
<1>2. reply.to[1] = c /\ IsOpen(reply.to)
  BY <1>1 DEF IsOpen, Socket
<1>3. PICK i \in DOMAIN Servers : reply.data = GenResponse(Answering(c), client[c].name, AddressOf[Servers[i]])
  <2>1. ReplyOK(reply)
    BY <1>1 DEF MessagesInv
  <2> QED BY <1>2, <2>1, Zenon DEF ReplyOK
<1>4. AddressOf[Servers[i]] \in [1 .. 4 -> Octets]
  BY MessagesAssumption
<1>5. client[c].name \in ShortNames
  BY DEF MessagesInv, ClientOK
<1> DEFINE address == AddressOf[Servers[i]]
           name == client[c].name
           globals == Answering(c)
<1>6. GlobalsOK(globals) /\ globals.answers = 1 /\ globals.qr = 1 /\ globals.transId = TransId[c]
  BY AnsweringOK
<1>7. name \in ShortNames /\ WellFormed(name) /\ address \in [1 .. 4 -> Octets]
  BY <1>4, <1>5
<1>8. message = ParseMessage(GenResponse(globals, name, address), FALSE)
  BY <1>3
<1> HIDE DEF address, name, globals, message
<1>9. message # Raised /\ Expected(message, TransId[c], name) /\ message.record.address = address
  BY <1>6, <1>7, <1>8, ResponseRead
<1> QED BY <1>9 DEF address, name, message

LEMMA GetUnderstood == ASSUME MessagesInv, NEW c \in Clients, Get(c) PROVE MessagesInv'
<1>1. PICK reply \in RepliesTo(c) :
        client' = [client EXCEPT ![c] = [waits |-> 0, asked |-> client[c].asked, name |-> client[c].name,
                                         answer |-> ParseMessage(reply.data, FALSE)]]
  BY GetTakes
<1> DEFINE message == ParseMessage(reply.data, FALSE)
           old == client[c]
           new == [waits |-> 0, asked |-> old.asked, name |-> old.name, answer |-> message]
<1>2. ClientOK(c) /\ client = [d \in Clients |-> client[d]]
  BY DEF MessagesInv
<1>3. client' = [client EXCEPT ![c] = new]
  BY <1>1
<1>4. /\ new.waits = 0 /\ new.asked = old.asked /\ new.name = old.name /\ new.answer = message
      /\ new = [waits |-> new.waits, asked |-> new.asked, name |-> new.name, answer |-> new.answer]
  OBVIOUS
<1>5. UNCHANGED <<server, queries>> /\ replies' \subseteq replies /\ Waiting(c)
  BY DEF Get
<1> HIDE DEF new, message
<1>6. /\ client' = [d \in Clients |-> client'[d]] /\ client'[c] = new
      /\ \A d \in Clients : ClientOK(d)' /\ (d # c => client'[d] = client[d])
      /\ Moves
  <2>1. /\ new.waits \in Nat /\ new.asked \in Nat /\ new.name \in ShortNames /\ ~(new.waits > 0)
        /\ new.asked = client[c].asked /\ new.name = client[c].name
    BY <1>2, <1>4 DEF ClientOK
  <2> QED BY <1>3, <1>4, <2>1, ClientSteps
<1>7. \A q \in queries' : QueryOK(q)'
  BY <1>5, <1>6, QueriesStay
<1>8. \A r \in replies' : ReplyOK(r)'
  BY <1>5, <1>6, RepliesStay
<1>9. ASSUME WellFormed(old.name)
      PROVE  /\ message # Raised /\ Expected(message, TransId[c], old.name)
             /\ \E i \in DOMAIN Servers : message.record.address = AddressOf[Servers[i]]
  BY <1>5, <1>9, AnswerRead DEF message
<1>10. \A d \in Clients : UnderstoodBy(d)'
  <2> SUFFICES ASSUME NEW d \in Clients PROVE UnderstoodBy(d)'
    OBVIOUS
  <2>1. CASE d = c
    <3>1. client'[d].answer = message /\ client'[d].name = old.name
      BY <1>4, <1>6, <2>1
    <3> QED BY <1>9, <2>1, <3>1, Zenon DEF UnderstoodBy
  <2>2. CASE d # c
    <3>1. client'[d] = client[d] /\ UnderstoodBy(d)
      BY <1>6, <2>2 DEF MessagesInv
    <3> QED BY <3>1, Zenon DEF UnderstoodBy, Answered
  <2> QED BY <2>1, <2>2
<1>11. ServerOK'
  BY <1>5 DEF MessagesInv, ServerOK
<1> QED BY <1>6, <1>7, <1>8, <1>10, <1>11, Zenon DEF MessagesInv

\* It waits once less.
LEMMA TimeOutTakes ==
  ASSUME MessagesInv, NEW c \in Clients, TimeOut(c)
  PROVE  client' = [client EXCEPT ![c] = [waits |-> client[c].waits - 1, asked |-> client[c].asked,
                                          name |-> client[c].name, answer |-> client[c].answer]]
<1> DEFINE old == client[c]
           new == [waits |-> old.waits - 1, asked |-> old.asked, name |-> old.name, answer |-> old.answer]
<1>1. ClientOK(c) /\ client = [d \in Clients |-> client[d]]
  BY DEF MessagesInv
<1>2. client' = [client EXCEPT ![c] = [client[c] EXCEPT !.waits = client[c].waits - 1]]
  <2>1. client' = [client EXCEPT ![c].waits = @ - 1]
    BY DEF TimeOut, TimedOut
  <2> QED BY <1>1, <2>1
<1>3. [old EXCEPT !.waits = old.waits - 1] = new
  <2>1. old = [waits |-> old.waits, asked |-> old.asked, name |-> old.name, answer |-> old.answer]
    BY <1>1 DEF ClientOK
  <2> QED BY <2>1
<1> QED BY <1>2, <1>3

LEMMA TimeOutUnderstood == ASSUME MessagesInv, NEW c \in Clients, TimeOut(c) PROVE MessagesInv'
<1> DEFINE old == client[c]
           new == [waits |-> old.waits - 1, asked |-> old.asked, name |-> old.name, answer |-> old.answer]
<1>1. ClientOK(c) /\ client = [d \in Clients |-> client[d]]
  BY DEF MessagesInv
<1>2. client' = [client EXCEPT ![c] = new]
  BY TimeOutTakes
<1>3. /\ new.waits = old.waits - 1 /\ new.asked = old.asked /\ new.name = old.name /\ new.answer = old.answer
      /\ new = [waits |-> new.waits, asked |-> new.asked, name |-> new.name, answer |-> new.answer]
  OBVIOUS
<1>4. UNCHANGED <<server, queries>> /\ replies' \subseteq replies /\ old.waits > 0
  BY DEF TimeOut, TimedOut, Waiting
<1> HIDE DEF new
<1>5. /\ client' = [d \in Clients |-> client'[d]] /\ client'[c] = new
      /\ \A d \in Clients : ClientOK(d)' /\ (d # c => client'[d] = client[d])
      /\ Moves
  <2>1. /\ old.waits \in Nat /\ old.asked \in Nat /\ old.name \in ShortNames /\ old.asked > 0
    BY <1>1, <1>4 DEF ClientOK, Waiting
  <2>2. /\ new.waits \in Nat /\ new.asked \in Nat /\ new.name \in ShortNames /\ (new.waits > 0 => new.asked > 0)
        /\ new.asked = client[c].asked /\ new.name = client[c].name /\ (new.waits > 0 => client[c].waits > 0)
    BY <1>3, <1>4, <2>1
  <2> QED BY <1>2, <1>3, <2>2, ClientSteps
<1>6. \A q \in queries' : QueryOK(q)'
  BY <1>4, <1>5, QueriesStay
<1>7. \A r \in replies' : ReplyOK(r)'
  BY <1>4, <1>5, RepliesStay
<1>8. \A d \in Clients : UnderstoodBy(d)'
  <2> SUFFICES ASSUME NEW d \in Clients PROVE UnderstoodBy(d)'
    OBVIOUS
  <2>1. client'[d].answer = client[d].answer /\ client'[d].name = client[d].name
    BY <1>3, <1>5
  <2>2. UnderstoodBy(d)
    BY DEF MessagesInv
  <2> QED BY <2>1, <2>2, Zenon DEF UnderstoodBy, Answered
<1>9. ServerOK'
  BY <1>4 DEF MessagesInv, ServerOK
<1> QED BY <1>5, <1>6, <1>7, <1>8, <1>9, Zenon DEF MessagesInv

-----------------------------------------------------------------------------
(* The server that is chosen *)

\* The place of the best of the first i servers, for every i.
BestPlaces(distances, servers) ==
  CHOOSE Best : Best = [i \in 1 .. Len(servers) |->
        IF i = 1 THEN 1
        ELSE IF Dist(distances, servers[i]) < Dist(distances, servers[Best[i - 1]])
        THEN i ELSE Best[i - 1]]

\* A server further down the file has to be nearer.
LEMMA BestSteps ==
  ASSUME NEW distances, NEW servers, Len(servers) \in Nat \ {0},
         NEW best, best = BestPlaces(distances, servers)
  PROVE  /\ best[1] = 1
         /\ \A k \in 1 .. Len(servers) - 1 :
              best[k + 1] = IF Dist(distances, servers[k + 1]) < Dist(distances, servers[best[k]])
                            THEN k + 1 ELSE best[k]
<1> DEFINE n == Len(servers)
           V(i, before) == IF i = 1 THEN 1
                           ELSE IF Dist(distances, servers[i]) < Dist(distances, servers[before])
                           THEN i ELSE before
           Val(f, i) == V(i, f[i - 1])
           Is(f) == f = [i \in 1 .. n |-> Val(f, i)]
           T == {k \in Nat : \E f : f = [i \in 1 .. k + 1 |-> Val(f, i)]}
<1>1. n \in Nat \ {0} /\ n - 1 \in Nat /\ n - 1 + 1 = n
  OBVIOUS
<1>2. 0 \in T
  <2> DEFINE e == [i \in 1 .. 0 + 1 |-> 1]
  <2>1. \A i \in 1 .. 0 + 1 : Val(e, i) = 1
    OBVIOUS
  <2>2. e = [i \in 1 .. 0 + 1 |-> Val(e, i)]
    <3> HIDE DEF Val
    <3> QED BY <2>1
  <2>3. \E f : f = [i \in 1 .. 0 + 1 |-> Val(f, i)]
    <3> HIDE DEF Val, e
    <3> QED BY <2>2
  <2> HIDE DEF Val
  <2> QED BY <2>3
<1>3. ASSUME NEW k \in 0 .. n - 2, k \in T PROVE k + 1 \in T
  <2> HIDE DEF n
  <2>1. k \in Nat
    OBVIOUS
  <2>2. PICK f : f = [i \in 1 .. k + 1 |-> Val(f, i)]
    <3> HIDE DEF Val
    <3> QED BY <1>3
  <2> DEFINE m == k + 2
             g == [i \in 1 .. m |-> IF i = m THEN Val(f, m) ELSE f[i]]
  <2>3. m \in Nat /\ m = k + 2 /\ k + 1 + 1 = m
    BY <2>1
  <2> HIDE DEF m
  <2>4. ASSUME NEW i \in 1 .. m PROVE Val(g, i) = Val(f, i)
    <3>1. CASE i = 1
      <4> HIDE DEF g
      <4> QED BY <3>1
    <3>2. CASE i # 1
      <4>1. i - 1 \in 1 .. m /\ i - 1 # m
        BY <2>1, <2>3, <3>2
      <4>2. g[i - 1] = f[i - 1]
        <5> HIDE DEF V
        <5> QED BY <4>1
      <4> HIDE DEF V, g
      <4> QED BY <4>2
    <3> QED BY <3>1, <3>2
  <2>5. ASSUME NEW i \in 1 .. m PROVE g[i] = Val(g, i)
    <3> HIDE DEF Val
    <3>1. CASE i = m
      BY <2>4, <3>1
    <3>2. CASE i # m
      <4>1. i \in 1 .. k + 1
        BY <2>1, <2>3, <3>2
      <4>2. f[i] = Val(f, i)
        BY <2>2, <4>1
      <4> QED BY <2>4, <3>2, <4>2
    <3> QED BY <3>1, <3>2
  <2>6. g = [i \in 1 .. m |-> Val(g, i)]
    <3> HIDE DEF Val
    <3> QED BY <2>5
  <2>7. \E h : h = [i \in 1 .. k + 1 + 1 |-> Val(h, i)]
    <3> HIDE DEF Val, g
    <3> QED BY <2>3, <2>6
  <2>8. k + 1 \in Nat
    BY <2>1
  <2> HIDE DEF Val
  <2> QED BY <2>7, <2>8
<1>4. n - 1 \in T
  <2> HIDE DEF T, n
  <2>1. \A i \in 0 .. (n - 1) - 1 : i \in T => i + 1 \in T
    BY <1>1, <1>3
  <2>2. 0 .. n - 1 \subseteq T
    BY <1>1, <1>2, <2>1, UpTo
  <2> QED BY <1>1, <2>2
<1>5. \E f : Is(f)
  <2> HIDE DEF Val, n
  <2> QED BY <1>1, <1>4
<1>6. Is(best)
  <2>1. best = CHOOSE f : Is(f)
    BY DEF BestPlaces
  <2> HIDE DEF Is
  <2> QED BY <1>5, <2>1, Zenon
<1>7. \A i \in 1 .. n : best[i] = Val(best, i)
  <2> HIDE DEF Val, n
  <2> QED BY <1>6
<1>8. best[1] = 1
  BY <1>7
<1>9. ASSUME NEW k \in 1 .. n - 1
      PROVE  best[k + 1] = IF Dist(distances, servers[k + 1]) < Dist(distances, servers[best[k]])
                           THEN k + 1 ELSE best[k]
  <2>1. k + 1 \in 1 .. n /\ k + 1 # 1 /\ (k + 1) - 1 = k
    BY <1>1
  <2>2. best[k + 1] = V(k + 1, best[k])
    <3> HIDE DEF n, V
    <3> QED BY <1>7, <2>1
  <2> QED BY <2>1, <2>2
<1> QED BY <1>8, <1>9

\* Whatever the distances, the best is one of the servers.
LEMMA BestIsAPlace ==
  ASSUME NEW distances, NEW servers, Len(servers) \in Nat \ {0}
  PROVE  BestPlaces(distances, servers)[Len(servers)] \in 1 .. Len(servers)
<1> DEFINE n == Len(servers)
           best == BestPlaces(distances, servers)
           U == {k \in Nat : k < n => best[k + 1] \in 1 .. k + 1}
<1> HIDE DEF best
<1>1. /\ best[1] = 1
      /\ \A k \in 1 .. n - 1 : best[k + 1] = k + 1 \/ best[k + 1] = best[k]
  <2>1. best = BestPlaces(distances, servers)
    BY DEF best
  <2> QED BY <2>1, BestSteps
<1> HIDE DEF n
<1>2. n \in Nat \ {0} /\ n - 1 \in Nat /\ (n - 1) + 1 = n
  BY DEF n
<1>3. 0 \in U
  BY <1>1
<1>4. ASSUME NEW k \in 0 .. (n - 1) - 1, k \in U PROVE k + 1 \in U
  <2>1. k + 1 \in 1 .. n - 1 /\ k \in Nat /\ k < n
    BY <1>2
  <2> DEFINE m == k + 1
  <2>2. best[m] \in 1 .. m /\ m \in Nat /\ m \in 1 .. n - 1
    BY <1>4, <2>1
  <2> HIDE DEF m
  <2>3. best[m + 1] = m + 1 \/ best[m + 1] = best[m]
    BY <1>1, <2>2
  <2>4. m \in U
    BY <2>2, <2>3
  <2> QED BY <2>4 DEF m
<1>5. n - 1 \in U
  <2> HIDE DEF U
  <2>1. 0 .. n - 1 \subseteq U
    BY <1>2, <1>3, <1>4, UpTo
  <2> QED BY <1>2, <2>1
<1> QED BY <1>2, <1>5 DEF n, best

\* When all servers were found, none is nearer than the best.
LEMMA BestIsNearest ==
  ASSUME NEW distances, NEW servers, Len(servers) \in Nat \ {0},
         \A i \in 1 .. Len(servers) : Dist(distances, servers[i]) \in Nat,
         NEW j \in 1 .. Len(servers)
  PROVE  Dist(distances, servers[BestPlaces(distances, servers)[Len(servers)]])
           <= Dist(distances, servers[j])
<1> DEFINE n == Len(servers)
           best == BestPlaces(distances, servers)
           D == [i \in 1 .. n |-> Dist(distances, servers[i])]
           U == {k \in Nat : k < n => /\ best[k + 1] \in 1 .. n
                                      /\ \A i \in 1 .. k + 1 : D[best[k + 1]] <= D[i]}
<1> HIDE DEF best
<1>1. /\ best[1] = 1
      /\ \A k \in 1 .. n - 1 :
           best[k + 1] = IF Dist(distances, servers[k + 1]) < Dist(distances, servers[best[k]])
                         THEN k + 1 ELSE best[k]
  <2>1. best = BestPlaces(distances, servers)
    BY DEF best
  <2> QED BY <2>1, BestSteps
<1>2. /\ n \in Nat \ {0} /\ n - 1 \in Nat /\ (n - 1) + 1 = n
      /\ \A i \in 1 .. n : D[i] \in Nat /\ D[i] = Dist(distances, servers[i])
  OBVIOUS
<1> HIDE DEF n, D
<1>3. ASSUME NEW k \in 1 .. n - 1, best[k] \in 1 .. n
      PROVE  best[k + 1] = IF D[k + 1] < D[best[k]] THEN k + 1 ELSE best[k]
  <2>1. k + 1 \in 1 .. n
    BY <1>2
  <2>2. D[k + 1] = Dist(distances, servers[k + 1]) /\ D[best[k]] = Dist(distances, servers[best[k]])
    BY <1>2, <1>3, <2>1
  <2> QED BY <1>1, <2>2
<1>4. 0 \in U
  <2>1. \A i \in 1 .. 0 + 1 : i = 1
    OBVIOUS
  <2> QED BY <1>1, <1>2, <2>1
<1>5. ASSUME NEW k \in 0 .. (n - 1) - 1, k \in U PROVE k + 1 \in U
  <2>1. k + 1 \in 1 .. n - 1 /\ k \in Nat /\ k < n
    BY <1>2
  <2> DEFINE m == k + 1
  <2>2. /\ best[m] \in 1 .. n /\ \A i \in 1 .. m : D[best[m]] <= D[i]
        /\ m \in Nat /\ m \in 1 .. n - 1
    BY <1>5, <2>1
  <2> HIDE DEF m
  <2>3. m + 1 \in 1 .. n /\ D[m + 1] \in Nat /\ D[best[m]] \in Nat
    BY <1>2, <2>2
  <2>4. ASSUME NEW i \in 1 .. m + 1
        PROVE  i = m + 1 \/ (i \in 1 .. m /\ D[i] \in Nat /\ D[best[m]] <= D[i])
    BY <1>2, <2>2
  <2>5. ASSUME D[m + 1] < D[best[m]] PROVE m \in U
    <3>1. best[m + 1] = m + 1
      BY <1>3, <2>2, <2>5
    <3>2. ASSUME NEW i \in 1 .. m + 1 PROVE D[m + 1] <= D[i]
      <4>1. CASE i = m + 1
        BY <2>3, <4>1
      <4>2. CASE D[i] \in Nat /\ D[best[m]] <= D[i]
        BY <2>3, <2>5, <4>2
      <4> QED BY <2>4, <4>1, <4>2
    <3> QED BY <2>2, <2>3, <3>1, <3>2
  <2>6. ASSUME ~(D[m + 1] < D[best[m]]) PROVE m \in U
    <3>1. best[m + 1] = best[m]
      BY <1>3, <2>2, <2>6
    <3>2. ASSUME NEW i \in 1 .. m + 1 PROVE D[best[m]] <= D[i]
      BY <2>3, <2>4, <2>6
    <3> QED BY <2>2, <3>1, <3>2
  <2>7. m \in U
    BY <2>2, <2>5, <2>6
  <2> QED BY <2>7 DEF m
<1>6. n - 1 \in U
  <2> HIDE DEF U
  <2>1. 0 .. n - 1 \subseteq U
    BY <1>2, <1>4, <1>5, UpTo
  <2> QED BY <1>2, <2>1
<1>7. D[best[n]] <= D[j] /\ best[n] \in 1 .. n /\ j \in 1 .. n
  <2>1. j \in 1 .. n
    BY DEF n
  <2> QED BY <1>2, <1>6, <2>1
<1> QED BY <1>2, <1>7 DEF n, best

LEMMA ChosenServer ==
  ASSUME RotationInv, NEW c PROVE \E i \in DOMAIN Servers : Chosen(c) = Servers[i]
<1>1. CASE roundRobin
  <2>1. server.curr \in 0 .. Len(Servers) - 1
    BY <1>1 DEF RotationInv
  <2>2. server.curr + 1 \in DOMAIN Servers
    BY <2>1, ServersFacts
  <2>3. Chosen(c) = Servers[server.curr + 1]
    BY <1>1, Zenon DEF Chosen
  <2> QED BY <2>2, <2>3, Zenon
<1>2. CASE ~roundRobin
  <2> DEFINE distances == Distances(Neighbors(Status(lines)), NodeOf[c])
  <2>1. Chosen(c) = Servers[BestPlaces(distances, Servers)[Len(Servers)]]
    BY <1>2 DEF Chosen, BestServer, BestPlaces
  <2> HIDE DEF distances
  <2>2. BestPlaces(distances, Servers)[Len(Servers)] \in DOMAIN Servers
    BY ServersFacts, BestIsAPlace
  <2> QED BY <2>1, <2>2, Zenon
<1> QED BY <1>1, <1>2

LEMMA FlagsOfResponse ==
  ASSUME NEW old, old = [transId |-> old.transId, qr |-> old.qr, answers |-> old.answers], NEW t
  PROVE  GenFlags([old EXCEPT !.transId = t], FALSE) = [transId |-> t, qr |-> 1, answers |-> 1]
<1> DEFINE g == [old EXCEPT !.transId = t]
<1>1. g = [transId |-> t, qr |-> old.qr, answers |-> old.answers]
  OBVIOUS
<1> HIDE DEF g
<1>2. GenFlags(g, FALSE) = [[g EXCEPT !.qr = 1] EXCEPT !.answers = 1]
  BY Zenon DEF GenFlags
<1> DEFINE h == [g EXCEPT !.qr = 1]
<1>3. h = [transId |-> t, qr |-> 1, answers |-> old.answers]
  BY <1>1
<1> HIDE DEF h
<1>4. [h EXCEPT !.answers = 1] = [transId |-> t, qr |-> 1, answers |-> 1]
  BY <1>3
<1> QED BY <1>2, <1>4 DEF g, h

\* The clients are as they were.
LEMMA ClientsStay ==
  ASSUME MessagesInv, UNCHANGED client
  PROVE  /\ client' = [c \in Clients |-> client'[c]]
         /\ \A c \in Clients : ClientOK(c)' /\ UnderstoodBy(c)'
         /\ Moves
<1>1. client' = [c \in Clients |-> client'[c]]
  BY DEF MessagesInv
<1>2. \A c \in Clients : ClientOK(c)'
  BY Zenon DEF MessagesInv, ClientOK, Waiting
<1>3. \A c \in Clients : UnderstoodBy(c)'
  BY Zenon DEF MessagesInv, UnderstoodBy, Answered
<1>4. Moves
  BY Zenon DEF Moves
<1> QED BY <1>1, <1>2, <1>3, <1>4

\* The query that is served is the one its client sent last, if the client
\* still waits: the answer is to it.
LEMMA ServeUnderstood == ASSUME RotationInv, MessagesInv, Serve PROVE MessagesInv'
<1>1. PICK query \in queries :
        /\ queries' = queries \ {query}
        /\ server' = [server EXCEPT !.globals = GenFlags([server.globals EXCEPT
                                                  !.transId = ParseMessage(query.data, TRUE).transId], FALSE),
                                    !.curr = IF roundRobin THEN NextCurr ELSE @]
        /\ replies' = IF ~IsOpen(query.from) THEN replies ELSE replies \cup
             {[to |-> query.from,
               data |-> GenResponse(GenFlags([server.globals EXCEPT
                                               !.transId = ParseMessage(query.data, TRUE).transId], FALSE),
                                    ParseMessage(query.data, TRUE).name, AddressOf[Chosen(query.from[1])])]}
  BY Zenon DEF Serve
<1>2. PICK message : message = ParseMessage(query.data, TRUE)
  OBVIOUS
<1>3. PICK globals : globals = [transId |-> message.transId, qr |-> 1, answers |-> 1]
  OBVIOUS
<1>4. PICK c : c = query.from[1]
  OBVIOUS
<1>5. GenFlags([server.globals EXCEPT !.transId = message.transId], FALSE) = globals
  BY <1>3, FlagsOfResponse DEF MessagesInv, ServerOK
<1>6. PICK i \in DOMAIN Servers : Chosen(c) = Servers[i]
  BY ChosenServer
<1>7. PICK reply : reply = [to |-> query.from,
                            data |-> GenResponse(globals, message.name, AddressOf[Servers[i]])]
  OBVIOUS
<1>8. server' = [server EXCEPT !.globals = globals, !.curr = IF roundRobin THEN NextCurr ELSE @]
      /\ replies' = IF ~IsOpen(query.from) THEN replies ELSE replies \cup {reply}
  BY <1>1, <1>2, <1>4, <1>5, <1>6, <1>7, Zenon
<1>9. UNCHANGED client
  BY DEF Serve
<1>10. ServerOK'
  <2> DEFINE curr == IF roundRobin THEN NextCurr ELSE server.curr
             s1 == Set(server, "globals", globals)
  <2>1. server' = Set(s1, "curr", curr)
    BY <1>8, Zenon DEF Set
  <2> HIDE DEF curr
  <2>2. s1 = [up |-> server.up, curr |-> server.curr, globals |-> globals]
    <3>1. server = [up |-> server.up, curr |-> server.curr, globals |-> server.globals]
      BY DEF MessagesInv, ServerOK
    <3>2. Set([up |-> server.up, curr |-> server.curr, globals |-> server.globals], "globals", globals)
            = [up |-> server.up, curr |-> server.curr, globals |-> globals]
      BY DEF Set
    <3> QED BY <3>1, <3>2, Zenon
  <2>3. Set(s1, "curr", curr) = [up |-> server.up, curr |-> curr, globals |-> globals]
    <3> HIDE DEF s1
    <3> QED BY <2>2 DEF Set
  <2>4. server' = [up |-> server'.up, curr |-> server'.curr, globals |-> server'.globals]
        /\ server'.globals = globals
    <3> HIDE DEF s1
    <3> QED BY <2>1, <2>3
  <2>5. globals = [transId |-> globals.transId, qr |-> globals.qr, answers |-> globals.answers]
    BY <1>3
  <2> QED BY <2>4, <2>5, Zenon DEF ServerOK
<1>11. /\ client' = [d \in Clients |-> client'[d]]
       /\ \A d \in Clients : ClientOK(d)' /\ UnderstoodBy(d)'
       /\ Moves
  BY <1>9, ClientsStay
<1>12. \A q \in queries' : QueryOK(q)'
  BY <1>1, <1>11, QueriesStay
<1>13. \A r \in replies : ReplyOK(r)'
  BY <1>11, RepliesStay
<1>14. ASSUME IsOpen(query.from) PROVE ReplyOK(reply)'
  <2>1. /\ query.from \in Clients \X Nat /\ query.from[2] <= client[c].asked
        /\ query.data = GenQuery(Fresh(TransId[c]), client[c].name)
    BY <1>4, <1>14 DEF MessagesInv, QueryOK
  <2>2. c \in Clients
    BY <1>4, <2>1
  <2>3. ASSUME WellFormed(client[c].name)
        PROVE  reply.data = GenResponse(Answering(c), client[c].name, AddressOf[Servers[i]])
    <3> DEFINE name == client[c].name
               fresh == Fresh(TransId[c])
    <3>1. name \in ShortNames
      BY <2>2 DEF MessagesInv, ClientOK
    <3>2. GlobalsOK(fresh) /\ fresh.answers = 0 /\ fresh.transId = TransId[c]
      BY <2>2, FreshOK
    <3>3. WellFormed(name) /\ message = ParseMessage(GenQuery(fresh, name), TRUE)
      BY <1>2, <2>1, <2>3
    <3> HIDE DEF name, fresh
    <3>4. message.transId = TransId[c] /\ message.name = name
      BY <3>1, <3>2, <3>3, QueryRead
    <3>5. globals = Answering(c)
      BY <1>3, <3>4 DEF Answering
    <3>6. reply.data = GenResponse(globals, message.name, AddressOf[Servers[i]])
      BY <1>7
    <3> QED BY <3>4, <3>5, <3>6, Zenon DEF name
  <2>4. reply.to = query.from /\ reply.to[1] = c
    BY <1>4, <1>7
  <2>5. reply.to \in Clients \X Nat /\ reply.to[2] <= client'[c].asked
    BY <1>9, <2>1, <2>4
  <2>6. WellFormed(client'[c].name) =>
          reply.data = GenResponse(Answering(c), client'[c].name, AddressOf[Servers[i]])
    BY <1>9, <2>3, Zenon
  <2> QED BY <2>4, <2>5, <2>6, Zenon DEF ReplyOK, Answering
<1>15. \A r \in replies' : ReplyOK(r)'
  BY <1>8, <1>13, <1>14, Zenon
<1> QED BY <1>10, <1>11, <1>12, <1>15, Zenon DEF MessagesInv

\* A query nobody understands ends the server.
LEMMA RaisesUnderstood == ASSUME RotationInv, MessagesInv, ServeRaises PROVE MessagesInv'
<1>1. UNCHANGED client /\ UNCHANGED replies /\ queries' \subseteq queries
      /\ server' = [server EXCEPT !.up = FALSE]
  BY DEF ServeRaises
<1>2. ServerOK'
  <2>1. server' = [up |-> FALSE, curr |-> server.curr, globals |-> server.globals]
    BY <1>1 DEF MessagesInv, ServerOK
  <2>2. server'.globals = server.globals
        /\ server' = [up |-> server'.up, curr |-> server'.curr, globals |-> server'.globals]
    BY <2>1
  <2> QED BY <2>2, Zenon DEF MessagesInv, ServerOK
<1>3. /\ client' = [d \in Clients |-> client'[d]]
      /\ \A d \in Clients : ClientOK(d)' /\ UnderstoodBy(d)'
      /\ Moves
  BY <1>1, ClientsStay
<1>4. \A q \in queries' : QueryOK(q)'
  BY <1>1, <1>3, QueriesStay
<1>5. \A r \in replies' : ReplyOK(r)'
  BY <1>1, <1>3, RepliesStay
<1> QED BY <1>2, <1>3, <1>4, <1>5, Zenon DEF MessagesInv

\* No socket has the number 0 while its client waits.
LEMMA StrayUnderstood == ASSUME MessagesInv, Stray PROVE MessagesInv'
<1>1. UNCHANGED client /\ UNCHANGED replies /\ UNCHANGED server
  BY DEF Stray
<1>2. PICK c \in Clients : queries' = {[from |-> <<c, 0>>, data |-> Header(Fresh(TransId[c]))]}
  BY DEF Stray
<1>3. PICK query : query = [from |-> <<c, 0>>, data |-> Header(Fresh(TransId[c]))]
  OBVIOUS
<1>4. QueryOK(query)'
  <2>1. query.from = <<c, 0>> /\ query.from \in Clients \X Nat /\ query.from[1] = c /\ query.from[2] = 0
    BY <1>3
  <2>2. client[c].asked \in Nat /\ (client[c].waits > 0 => client[c].asked > 0)
    BY DEF MessagesInv, ClientOK, Waiting
  <2>3. ~IsOpen(query.from)'
    <3>1. IsOpen(query.from)' => <<c, 0>> = <<c, client'[c].asked>> /\ client'[c].waits > 0
      BY <2>1, Zenon DEF IsOpen, Socket, Waiting
    <3> QED BY <1>1, <2>2, <3>1
  <2>4. query.from[2] <= client'[query.from[1]].asked
    BY <1>1, <2>1, <2>2
  <2> QED BY <2>1, <2>3, <2>4, Zenon DEF QueryOK
<1>5. /\ client' = [d \in Clients |-> client'[d]]
      /\ \A d \in Clients : ClientOK(d)' /\ UnderstoodBy(d)'
      /\ Moves
  BY <1>1, ClientsStay
<1>6. \A q \in queries' : QueryOK(q)'
  BY <1>2, <1>3, <1>4, Zenon
<1>7. \A r \in replies' : ReplyOK(r)'
  BY <1>1, <1>5, RepliesStay
<1>8. ServerOK'
  BY <1>1 DEF MessagesInv, ServerOK
<1> QED BY <1>5, <1>6, <1>7, <1>8, Zenon DEF MessagesInv

LEMMA SameUnderstood ==
  ASSUME MessagesInv, UNCHANGED <<server, client, queries, replies>> PROVE MessagesInv'
<1>1. /\ client' = [d \in Clients |-> client'[d]]
      /\ \A d \in Clients : ClientOK(d)' /\ UnderstoodBy(d)'
      /\ Moves
  BY ClientsStay
<1>2. \A q \in queries' : QueryOK(q)'
  BY <1>1, QueriesStay
<1>3. \A r \in replies' : ReplyOK(r)'
  BY <1>1, RepliesStay
<1>4. ServerOK'
  BY DEF MessagesInv, ServerOK
<1> QED BY <1>1, <1>2, <1>3, <1>4, Zenon DEF MessagesInv

LEMMA MessagesNext == RotationInv /\ MessagesInv /\ [Next]_rnsVars => MessagesInv'
<1> SUFFICES ASSUME RotationInv, MessagesInv, [Next]_rnsVars PROVE MessagesInv'
  OBVIOUS
<1>1. CASE \E c \in Clients : Get(c) \/ TimeOut(c) \/ \E name \in Names : Ask(c, name)
  BY <1>1, GetUnderstood, TimeOutUnderstood, AskUnderstood, NamesShort
<1>2. CASE Serve
  BY <1>2, ServeUnderstood
<1>3. CASE ServeRaises
  BY <1>3, RaisesUnderstood
<1>4. CASE Stray
  BY <1>4, StrayUnderstood
<1>5. CASE Generate
  <2>1. UNCHANGED <<server, client, queries, replies>>
    BY <1>5 DEF Generate, NextRound, Announce
  <2> QED BY <2>1, SameUnderstood
<1>6. CASE UNCHANGED rnsVars
  <2>1. UNCHANGED <<server, client, queries, replies>>
    BY <1>6 DEF rnsVars
  <2> QED BY <2>1, SameUnderstood
<1> QED BY <1>1, <1>2, <1>3, <1>4, <1>5, <1>6 DEF Next

LEMMA MessagesInit == Init => RotationInv /\ MessagesInv
<1> SUFFICES ASSUME Init PROVE RotationInv /\ MessagesInv
  OBVIOUS
<1>1. /\ server = [up |-> TRUE, curr |-> 0, globals |-> Fresh(0)] /\ given = <<>>
      /\ client = [c \in Clients |-> Idle] /\ queries = {} /\ replies = {}
  BY DEF Init
<1>2. RotationInv
  <2>1. IsSequence(given) /\ Len(given) = 0
    BY <1>1 DEF IsSequence
  <2>2. 0 * Len(Servers) + 0 = 0 /\ 0 \in 0 .. Len(Servers) - 1
    BY ServersFacts
  <2> QED BY <1>1, <2>1, <2>2 DEF RotationInv
<1>3. ServerOK
  <2>1. server.globals = Fresh(0)
        /\ server = [up |-> server.up, curr |-> server.curr, globals |-> server.globals]
    BY <1>1
  <2>2. Fresh(0) = [transId |-> Fresh(0).transId, qr |-> Fresh(0).qr, answers |-> Fresh(0).answers]
    BY DEF Fresh
  <2> QED BY <2>1, <2>2, Zenon DEF ServerOK
<1>4. ASSUME NEW c \in Clients PROVE ClientOK(c) /\ UnderstoodBy(c)
  <2>1. client[c] = [waits |-> 0, asked |-> 0, name |-> <<>>, answer |-> NoAnswer]
    BY <1>1 DEF Idle
  <2>2. <<>> \in ShortNames
    BY DEF ShortNames
  <2>3. /\ client[c].waits = 0 /\ client[c].asked = 0 /\ client[c].name = <<>>
        /\ client[c].answer = NoAnswer
        /\ client[c] = [waits |-> client[c].waits, asked |-> client[c].asked,
                        name |-> client[c].name, answer |-> client[c].answer]
    BY <2>1
  <2>4. ClientOK(c)
    BY <2>2, <2>3 DEF ClientOK, Waiting
  <2>5. UnderstoodBy(c)
    BY <2>3 DEF UnderstoodBy, Answered
  <2> QED BY <2>4, <2>5
<1>5. client = [c \in Clients |-> client[c]]
  BY <1>1
<1> QED BY <1>1, <1>2, <1>3, <1>4, <1>5 DEF MessagesInv

\* Every client that has an answer to a well-formed name was answered with its
\* own number and name, by the address of a server.
THEOREM UnderstoodCorrect == Spec => []Understood
<1>1. MessagesInv => Understood
  BY DEF MessagesInv, UnderstoodBy, Understood
<1> QED BY <1>1, MessagesInit, MessagesNext, RotationNext, PTL DEF Spec

-----------------------------------------------------------------------------
(* The search of dijkstra.py *)

\* W[k]: the nodes at most k links away from source, up to K.
Levels(graph, source, K, W) ==
  /\ W[0] = {source}
  /\ \A k \in 1 .. K : W[k] = W[k - 1] \cup UNION {NeighborsOf(graph, x) : x \in W[k - 1]}

\* V holds source and is left by no link.
ClosedIn(graph, source, V) ==
  source \in V /\ \A n \in V : NeighborsOf(graph, n) \subseteq V

SearchState(source, V, search) ==
  /\ search = [dist |-> search.dist, visited |-> search.visited, Q |-> search.Q]
  /\ DOMAIN search.dist = search.visited \cup search.Q /\ search.visited \cap search.Q = {}
  /\ search.dist \in [DOMAIN search.dist -> Nat]
  /\ DOMAIN search.dist \subseteq V
  /\ source \in DOMAIN search.dist /\ search.dist[source] = 0

\* The nodes of Q are no nearer than those visited, and no two of them are more
\* than one link apart in their distances.
InOrder(search) ==
  /\ \A v \in search.visited, q \in search.Q : search.dist[v] <= search.dist[q]
  /\ \A p, q \in search.Q : search.dist[q] <= search.dist[p] + 1

\* What was visited has only neighbours that were found, at most one link further.
Relaxed(graph, search) ==
  \A v \in search.visited : \A w \in NeighborsOf(graph, v) :
    w \in DOMAIN search.dist /\ search.dist[w] <= search.dist[v] + 1

\* Every distance is that of a path.
Reachable(W, search) ==
  /\ \A v \in search.visited : search.dist[v] < Cardinality(search.visited)
  /\ \A q \in search.Q : search.dist[q] <= Cardinality(search.visited)
  /\ \A n \in DOMAIN search.dist : n \in W[search.dist[n]]

SearchInv(graph, source, V, W, search) ==
  /\ SearchState(source, V, search) /\ InOrder(search)
  /\ Relaxed(graph, search) /\ Reachable(W, search)

LEMMA SearchBegins ==
  ASSUME NEW graph, NEW source, NEW V, NEW W, NEW K,
         Levels(graph, source, K, W), ClosedIn(graph, source, V)
  PROVE  SearchInv(graph, source, V, W, SearchFrom(source))
<1> DEFINE d == [n \in {source} |-> 0]
           s == [dist |-> d, visited |-> {}, Q |-> {source}]
<1>1. SearchFrom(source) = s
  BY DEF SearchFrom
<1>2. /\ s.dist = d /\ s.visited = {} /\ s.Q = {source} /\ DOMAIN d = {source} /\ d[source] = 0
      /\ s = [dist |-> s.dist, visited |-> s.visited, Q |-> s.Q] /\ d \in [{source} -> Nat]
  OBVIOUS
<1>3. Cardinality({}) = 0
  BY FS_EmptySet
<1> HIDE DEF s, d
<1>4. SearchState(source, V, s)
  BY <1>2 DEF SearchState, ClosedIn
<1>5. InOrder(s) /\ Relaxed(graph, s)
  BY <1>2 DEF InOrder, Relaxed
<1>6. Reachable(W, s)
  BY <1>2, <1>3 DEF Reachable, Levels
<1> QED BY <1>1, <1>4, <1>5, <1>6 DEF SearchInv

\* The nearest node of Q is visited.  A node that was found does not come nearer:
\* none of Q is found again.
LEMMA SearchGoesOn ==
  ASSUME NEW graph, NEW source, NEW V, NEW W, NEW K \in Nat,
         Levels(graph, source, K, W), ClosedIn(graph, source, V),
         IsFiniteSet(V), Cardinality(V) <= K + 1,
         NEW search, SearchInv(graph, source, V, W, search), search.Q # {}
  PROVE  /\ SearchInv(graph, source, V, W, Visit(graph, search))
         /\ Cardinality(Visit(graph, search).visited) = Cardinality(search.visited) + 1
         /\ \A n \in DOMAIN search.dist :
              n \in DOMAIN Visit(graph, search).dist /\ Visit(graph, search).dist[n] = search.dist[n]
<1> DEFINE dist == search.dist
           visited == search.visited
           Q == search.Q
           u == CHOOSE v \in Q : \A w \in Q : dist[v] <= dist[w]
           alt == dist[u] + 1
           seen == visited \cup {u}
           next == NeighborsOf(graph, u)
           closer == {v \in next \ seen : v \notin DOMAIN dist \/ alt < dist[v]}
           new == [v \in DOMAIN dist \cup closer |-> IF v \in closer THEN alt ELSE dist[v]]
           s == [dist |-> new, visited |-> seen, Q |-> (Q \ {u}) \cup closer]
<1>1. Visit(graph, search) = s
  BY DEF Visit
<1>2. /\ s.dist = new /\ s.visited = seen /\ s.Q = (Q \ {u}) \cup closer
      /\ s = [dist |-> s.dist, visited |-> s.visited, Q |-> s.Q]
      /\ DOMAIN new = DOMAIN dist \cup closer
      /\ \A v \in DOMAIN dist \cup closer : new[v] = IF v \in closer THEN alt ELSE dist[v]
  <2> HIDE DEF seen, closer, alt, u
  <2> QED OBVIOUS
<1>3. /\ DOMAIN dist = visited \cup Q /\ visited \cap Q = {} /\ Q # {}
      /\ \A n \in DOMAIN dist : dist[n] \in Nat
      /\ DOMAIN dist \subseteq V /\ source \in DOMAIN dist /\ dist[source] = 0
  BY DEF SearchInv, SearchState
<1>4. u \in Q /\ \A w \in Q : dist[u] <= dist[w]
  <2> DEFINE T == {dist[v] : v \in Q}
  <2>1. T \in SUBSET Nat /\ T # {}
    BY <1>3
  <2>2. PICK m \in T : \A k \in T : m <= k
    BY <2>1, Least
  <2>3. PICK v \in Q : m = dist[v]
    BY <2>2
  <2>4. \A w \in Q : dist[v] <= dist[w]
    BY <2>2, <2>3
  <2> HIDE DEF Q, dist
  <2> QED BY <2>3, <2>4
<1> HIDE DEF u
<1>5. u \in DOMAIN dist /\ u \notin visited /\ dist[u] \in Nat /\ alt \in Nat /\ alt = dist[u] + 1
  BY <1>3, <1>4
<1>6. InOrder(search) /\ Relaxed(graph, search) /\ Reachable(W, search)
  BY DEF SearchInv
<1>7. /\ \A v \in visited, q \in Q : dist[v] <= dist[q]
      /\ \A p, q \in Q : dist[q] <= dist[p] + 1
  BY <1>6 DEF InOrder
<1>8. \A n \in DOMAIN dist : dist[n] <= alt
  <2> SUFFICES ASSUME NEW n \in DOMAIN dist PROVE dist[n] <= alt
    OBVIOUS
  <2>1. CASE n \in visited
    <3>1. dist[n] <= dist[u]
      BY <1>4, <1>7, <2>1
    <3> QED BY <1>3, <1>5, <3>1
  <2>2. CASE n \in Q
    BY <1>4, <1>5, <1>7, <2>2
  <2> QED BY <1>3, <2>1, <2>2
<1>9. closer = next \ DOMAIN dist
  <2>1. \A v \in DOMAIN dist : ~(alt < dist[v])
    BY <1>3, <1>5, <1>8
  <2>2. seen \subseteq DOMAIN dist
    BY <1>3, <1>5
  <2> HIDE DEF alt, seen
  <2> QED BY <2>1, <2>2
<1> HIDE DEF closer, new, alt
<1>10. \A n \in DOMAIN dist : n \notin closer /\ new[n] = dist[n]
  BY <1>2, <1>9
<1>11. \A n \in closer : n \notin DOMAIN dist /\ new[n] = alt
  BY <1>2, <1>9
<1>12. next \subseteq V
  BY <1>3, <1>5 DEF ClosedIn
<1> HIDE DEF next, s
<1>13. SearchState(source, V, s)
  <2>1. DOMAIN new = seen \cup ((Q \ {u}) \cup closer)
    BY <1>2, <1>3, <1>4
  <2>2. seen \cap ((Q \ {u}) \cup closer) = {}
    BY <1>3, <1>4, <1>9
  <2>3. \A n \in DOMAIN new : new[n] \in Nat
    BY <1>2, <1>3, <1>5, <1>10, <1>11
  <2>4. new \in [DOMAIN new -> Nat]
    <3>1. new = [n \in DOMAIN new |-> new[n]]
      BY <1>2 DEF new
    <3> QED BY <2>3, <3>1
  <2>5. DOMAIN new \subseteq V
    BY <1>2, <1>3, <1>9, <1>12
  <2>6. source \in DOMAIN new /\ new[source] = 0
    BY <1>2, <1>3, <1>10
  <2> HIDE DEF seen
  <2> QED BY <1>2, <2>1, <2>2, <2>4, <2>5, <2>6 DEF SearchState
<1>14. InOrder(s)
  <2>1. \A v \in seen, q \in (Q \ {u}) \cup closer : new[v] <= new[q]
    <3> SUFFICES ASSUME NEW v \in seen, NEW q \in (Q \ {u}) \cup closer PROVE new[v] <= new[q]
      OBVIOUS
    <3>1. v \in DOMAIN dist /\ new[v] = dist[v] /\ dist[v] \in Nat
      BY <1>3, <1>5, <1>10
    <3>2. dist[v] <= dist[u]
      BY <1>4, <1>5, <1>7
    <3>3. CASE q \in Q
      <4>1. new[q] = dist[q] /\ dist[u] <= dist[q] /\ dist[q] \in Nat
        BY <1>3, <1>4, <1>10, <3>3
      <4> QED BY <1>5, <3>1, <3>2, <4>1
    <3>4. CASE q \in closer
      BY <1>5, <1>11, <3>1, <3>2, <3>4
    <3> QED BY <3>3, <3>4
  <2>2. \A p, q \in (Q \ {u}) \cup closer : new[q] <= new[p] + 1
    <3> SUFFICES ASSUME NEW p \in (Q \ {u}) \cup closer, NEW q \in (Q \ {u}) \cup closer
                 PROVE  new[q] <= new[p] + 1
      OBVIOUS
    <3>1. new[q] \in Nat /\ new[q] <= alt
      BY <1>3, <1>5, <1>8, <1>10, <1>11
    <3>2. new[p] \in Nat /\ dist[u] <= new[p]
      BY <1>3, <1>4, <1>5, <1>10, <1>11
    <3> QED BY <1>5, <3>1, <3>2
  <2> HIDE DEF seen
  <2> QED BY <1>2, <2>1, <2>2 DEF InOrder
<1>15. Relaxed(graph, s)
  <2> SUFFICES ASSUME NEW v \in seen, NEW w \in NeighborsOf(graph, v)
               PROVE  w \in DOMAIN new /\ new[w] <= new[v] + 1
    BY <1>2 DEF Relaxed
  <2>1. CASE v = u
    <3>1. w \in next
      BY <2>1 DEF next
    <3>2. new[v] = dist[u]
      BY <1>5, <1>10, <2>1
    <3>3. CASE w \in DOMAIN dist
      BY <1>2, <1>3, <1>5, <1>8, <1>10, <3>2, <3>3
    <3>4. CASE w \notin DOMAIN dist
      <4>1. w \in closer
        BY <1>9, <3>1, <3>4
      <4> QED BY <1>2, <1>5, <1>11, <3>2, <4>1
    <3> QED BY <3>3, <3>4
  <2>2. CASE v \in visited
    <3>1. w \in DOMAIN dist /\ dist[w] <= dist[v] + 1
      BY <1>6, <2>2 DEF Relaxed
    <3> QED BY <1>2, <1>3, <1>10, <2>2, <3>1
  <2> QED BY <2>1, <2>2
<1>16. /\ IsFiniteSet(visited) /\ Cardinality(visited) \in Nat
       /\ Cardinality(seen) = Cardinality(visited) + 1 /\ Cardinality(seen) <= Cardinality(V)
       /\ Cardinality(V) \in Nat
  <2>1. visited \in SUBSET V /\ seen \in SUBSET V
    BY <1>3, <1>5
  <2>2. IsFiniteSet(visited) /\ Cardinality(seen) <= Cardinality(V)
    <3> HIDE DEF seen, visited
    <3> QED BY <2>1, FS_Subset
  <2>3. Cardinality(seen) = Cardinality(visited) + 1
    <3> HIDE DEF visited
    <3> QED BY <1>5, <2>2, FS_AddElement
  <2> HIDE DEF seen, visited
  <2> QED BY <2>2, <2>3, FS_CardinalityType
<1>17. Reachable(W, s)
  <2>1. /\ \A v \in visited : dist[v] < Cardinality(visited)
        /\ \A q \in Q : dist[q] <= Cardinality(visited)
        /\ \A n \in DOMAIN dist : n \in W[dist[n]]
    BY <1>6 DEF Reachable
  <2> DEFINE m == Cardinality(visited)
  <2> HIDE DEF m
  <2>2. m \in Nat /\ dist[u] <= m /\ m = Cardinality(visited) /\ Cardinality(seen) = m + 1 /\ m <= K
    BY <1>4, <1>16, <2>1 DEF m
  <2>3. \A v \in seen : new[v] < m + 1
    <3> SUFFICES ASSUME NEW v \in seen PROVE new[v] < m + 1
      OBVIOUS
    <3>1. CASE v = u
      BY <1>5, <1>10, <2>2, <3>1
    <3>2. CASE v \in visited
      <4>1. dist[v] < m /\ dist[v] \in Nat /\ new[v] = dist[v]
        BY <1>3, <1>10, <2>1, <2>2, <3>2
      <4> QED BY <2>2, <4>1
    <3> QED BY <3>1, <3>2
  <2>4. \A q \in (Q \ {u}) \cup closer : new[q] <= m + 1
    <3> SUFFICES ASSUME NEW q \in (Q \ {u}) \cup closer PROVE new[q] <= m + 1
      OBVIOUS
    <3>1. CASE q \in closer
      BY <1>5, <1>11, <2>2, <3>1
    <3>2. CASE q \in Q
      <4>1. dist[q] <= m /\ dist[q] \in Nat /\ new[q] = dist[q]
        BY <1>3, <1>10, <2>1, <2>2, <3>2
      <4> QED BY <2>2, <4>1
    <3> QED BY <3>1, <3>2
  <2>5. \A n \in DOMAIN new : n \in W[new[n]]
    <3> SUFFICES ASSUME NEW n \in DOMAIN new PROVE n \in W[new[n]]
      OBVIOUS
    <3>1. CASE n \in DOMAIN dist
      BY <1>10, <2>1, <3>1
    <3>2. CASE n \in closer
      <4>1. n \in next /\ new[n] = alt
        BY <1>9, <1>11, <3>2
      <4>2. alt \in 1 .. K \/ alt = K + 1
        BY <1>5, <2>2
      <4>3. alt - 1 = dist[u] /\ u \in W[dist[u]]
        BY <1>5, <2>1
      <4>4. CASE alt \in 1 .. K
        <5>1. W[alt] = W[alt - 1] \cup UNION {NeighborsOf(graph, x) : x \in W[alt - 1]}
          BY <4>4 DEF Levels
        <5> QED BY <4>1, <4>3, <5>1 DEF next
      <4>5. CASE alt = K + 1
        \* u would be the last node of V that was not visited.
        <5>1. Cardinality(seen) = K + 1 /\ Cardinality(V) = K + 1
          BY <1>5, <1>16, <2>2, <4>5
        <5>2. seen \in SUBSET V
          BY <1>3, <1>5
        <5>3. seen = V
          <6> HIDE DEF seen
          <6> QED BY <5>1, <5>2, FS_Subset
        <5>4. n \in V /\ n \notin DOMAIN dist
          BY <1>9, <1>12, <4>1, <3>2
        <5> QED BY <1>3, <1>5, <5>3, <5>4
      <4> QED BY <4>2, <4>4, <4>5
    <3> QED BY <1>2, <3>1, <3>2
  <2> HIDE DEF seen
  <2> QED BY <1>2, <2>2, <2>3, <2>4, <2>5 DEF Reachable
<1> QED BY <1>1, <1>2, <1>10, <1>13, <1>14, <1>15, <1>16, <1>17 DEF SearchInv

\* after: the search after each of the first n turns.
IsSearch(graph, source, n, after) ==
  after = [i \in 0 .. n |-> IF i = 0 THEN SearchFrom(source)
        ELSE IF after[i - 1].Q = {} THEN after[i - 1] ELSE Visit(graph, after[i - 1])]

\* The turns of the search are a function.
LEMMA SearchExists ==
  ASSUME NEW graph, NEW source, NEW n \in Nat
  PROVE  \E f : IsSearch(graph, source, n, f)
<1> DEFINE Val(f, i) == IF i = 0 THEN SearchFrom(source)
        ELSE IF f[i - 1].Q = {} THEN f[i - 1] ELSE Visit(graph, f[i - 1])
           T == {m \in Nat : \E f : f = [i \in 0 .. m |-> Val(f, i)]}
<1>1. 0 \in T
  <2> DEFINE e == [i \in 0 .. 0 |-> Val(<<>>, i)]
  <2>1. \A i \in 0 .. 0 : Val(e, i) = Val(<<>>, i)
    OBVIOUS
  <2>2. e = [i \in 0 .. 0 |-> Val(e, i)]
    <3> HIDE DEF Val
    <3> QED BY <2>1
  <2>3. \E f : f = [i \in 0 .. 0 |-> Val(f, i)]
    <3> HIDE DEF Val, e
    <3> QED BY <2>2
  <2> HIDE DEF Val
  <2> QED BY <2>3
<1>2. ASSUME NEW m \in Nat, m \in T PROVE m + 1 \in T
  <2>1. PICK f : f = [i \in 0 .. m |-> Val(f, i)]
    BY <1>2
  <2> DEFINE g == [i \in 0 .. m + 1 |-> IF i <= m THEN f[i] ELSE Val(f, m + 1)]
  <2>2. \A i \in 0 .. m : f[i] = Val(f, i)
    <3> HIDE DEF Val
    <3> QED BY <2>1
  <2>3. ASSUME NEW i \in 0 .. m + 1 PROVE Val(g, i) = Val(f, i)
    <3>1. CASE i = 0
      <4> HIDE DEF g
      <4> QED BY <3>1
    <3>2. CASE i # 0
      <4>1. i - 1 \in 0 .. m + 1 /\ i - 1 <= m
        BY <3>2
      <4>2. g[i - 1] = f[i - 1]
        <5> HIDE DEF Val
        <5> QED BY <4>1
      <4> HIDE DEF g
      <4> QED BY <3>2, <4>2
    <3> QED BY <3>1, <3>2
  <2>4. ASSUME NEW i \in 0 .. m + 1 PROVE g[i] = Val(g, i)
    <3> HIDE DEF Val
    <3>1. CASE i <= m
      <4>1. i \in 0 .. m /\ g[i] = f[i]
        BY <3>1
      <4> QED BY <4>1, <2>2, <2>3
    <3>2. CASE i = m + 1
      <4>1. g[i] = Val(f, i)
        BY <3>2
      <4> QED BY <4>1, <2>3
    <3> QED BY <3>1, <3>2
  <2>5. g = [i \in 0 .. m + 1 |-> Val(g, i)]
    <3> HIDE DEF Val
    <3> QED BY <2>4
  <2>6. \E h : h = [i \in 0 .. m + 1 |-> Val(h, i)]
    <3> HIDE DEF Val, g
    <3> QED BY <2>5, Zenon
  <2>7. m + 1 \in Nat
    OBVIOUS
  <2> HIDE DEF Val
  <2> QED BY <2>6, <2>7
<1>3. n \in T
  <2> HIDE DEF T
  <2>1. \A i \in 0 .. (n) - 1 : i \in T => i + 1 \in T
    BY <1>2
  <2>2. 0 .. n \subseteq T
    BY <1>1, <2>1, UpTo
  <2> QED BY <2>2
<1> QED BY <1>3 DEF IsSearch

\* The search after its first turns.
SearchAfter(graph, source) ==
  CHOOSE after : IsSearch(graph, source, Cardinality(DOMAIN graph \cup {source}), after)

LEMMA SearchTurns ==
  ASSUME NEW graph, NEW source, NEW N, N = Cardinality(DOMAIN graph \cup {source}), N \in Nat,
         NEW after, after = SearchAfter(graph, source)
  PROVE  /\ Distances(graph, source) = after[N].dist
         /\ after[0] = SearchFrom(source)
         /\ \A n \in 1 .. N :
              after[n] = IF after[n - 1].Q = {} THEN after[n - 1] ELSE Visit(graph, after[n - 1])
<1>1. \E f : IsSearch(graph, source, N, f)
  BY SearchExists
<1>2. IsSearch(graph, source, N, after)
  BY <1>1, Zenon DEF SearchAfter
<1>3. Distances(graph, source) = after[N].dist
  BY DEF SearchAfter, Distances, IsSearch
<1>4. after[0] = SearchFrom(source)
  <2>1. 0 \in 0 .. N
    OBVIOUS
  <2> QED BY <1>2, <2>1 DEF IsSearch
<1>5. ASSUME NEW n \in 1 .. N
      PROVE  after[n] = IF after[n - 1].Q = {} THEN after[n - 1] ELSE Visit(graph, after[n - 1])
  <2>1. n \in 0 .. N /\ n # 0
    OBVIOUS
  <2> QED BY <1>2, <2>1 DEF IsSearch
<1> QED BY <1>3, <1>4, <1>5

\* When the search ends every distance is that of a shortest path, and what has
\* none cannot be reached.
LEMMA DistancesFound ==
  ASSUME NEW graph, NEW source, NEW V, NEW W, NEW K \in Nat,
         Levels(graph, source, K, W), ClosedIn(graph, source, V),
         IsFiniteSet(DOMAIN graph), V \subseteq DOMAIN graph \cup {source}, Cardinality(V) <= K + 1,
         NEW dist, dist = Distances(graph, source)
  PROVE  /\ \A n \in DOMAIN dist : dist[n] \in 0 .. K /\ n \in W[dist[n]]
         /\ \A k \in 0 .. K : \A n \in W[k] : n \in DOMAIN dist /\ dist[n] <= k
         /\ ClosedIn(graph, source, DOMAIN dist) /\ DOMAIN dist \subseteq V
<1> DEFINE D == DOMAIN graph \cup {source}
           N == Cardinality(D)
           after == SearchAfter(graph, source)
           Inv(s) == SearchInv(graph, source, V, W, s)
           T == {n \in Nat : Inv(after[n]) /\ (after[n].Q = {} \/ Cardinality(after[n].visited) = n)}
<1>1. IsFiniteSet(D) /\ N \in Nat /\ IsFiniteSet(V)
  <2>1. IsFiniteSet(D)
    BY FS_AddElement
  <2> HIDE DEF D
  <2> QED BY <2>1, FS_CardinalityType, FS_Subset DEF D
<1>2. /\ dist = after[N].dist /\ after[0] = SearchFrom(source)
      /\ \A n \in 1 .. N :
           after[n] = IF after[n - 1].Q = {} THEN after[n - 1] ELSE Visit(graph, after[n - 1])
  <2>1. N \in Nat /\ N = Cardinality(DOMAIN graph \cup {source}) /\ after = SearchAfter(graph, source)
    BY <1>1
  <2> HIDE DEF N, after, T, Inv
  <2>2. Distances(graph, source) = after[N].dist
    BY <2>1, SearchTurns
  <2>3. after[0] = SearchFrom(source)
    BY <2>1, SearchTurns
  <2>4. ASSUME NEW n \in 1 .. N
        PROVE  after[n] = IF after[n - 1].Q = {} THEN after[n - 1] ELSE Visit(graph, after[n - 1])
    BY <2>1, SearchTurns
  <2> QED BY <2>2, <2>3, <2>4
<1> HIDE DEF after
<1>3. 0 \in T
  <2>1. Inv(after[0])
    BY <1>2, SearchBegins
  <2>2. after[0].visited = {} /\ Cardinality({}) = 0
    BY <1>2, FS_EmptySet DEF SearchFrom
  <2> HIDE DEF Inv
  <2> QED BY <2>1, <2>2
<1>4. ASSUME NEW n \in 0 .. N - 1, n \in T PROVE n + 1 \in T
  <2>1. /\ n + 1 \in 1 .. N /\ (n + 1) - 1 = n
        /\ Inv(after[n]) /\ (after[n].Q = {} \/ Cardinality(after[n].visited) = n)
    <3> HIDE DEF N, Inv
    <3> QED BY <1>1, <1>4
  <2>2. CASE after[n].Q = {}
    <3>1. after[n + 1] = after[n]
      BY <1>2, <2>1, <2>2
    <3> HIDE DEF Inv
    <3> QED BY <2>1, <2>2, <3>1
  <2>3. CASE after[n].Q # {}
    <3>1. after[n + 1] = Visit(graph, after[n])
      BY <1>2, <2>1, <2>3
    <3>2. Inv(Visit(graph, after[n]))
          /\ Cardinality(Visit(graph, after[n]).visited) = Cardinality(after[n].visited) + 1
      BY <1>1, <2>1, <2>3, SearchGoesOn
    <3> HIDE DEF Inv
    <3> QED BY <2>1, <2>3, <3>1, <3>2
  <2> QED BY <2>2, <2>3
<1>5. N \in T
  <2> HIDE DEF T, N
  <2>1. 0 .. N \subseteq T
    BY <1>1, <1>3, <1>4, UpTo
  <2> QED BY <1>1, <2>1
<1> DEFINE s == after[N]
<1>6. SearchInv(graph, source, V, W, s) /\ (s.Q = {} \/ Cardinality(s.visited) = N) /\ s.dist = dist
  BY <1>2, <1>5
<1> HIDE DEF s, N
<1>7. /\ DOMAIN dist = s.visited \cup s.Q /\ s.visited \cap s.Q = {} /\ DOMAIN dist \subseteq V
      /\ \A n \in DOMAIN dist : dist[n] \in Nat
      /\ source \in DOMAIN dist /\ dist[source] = 0
  BY <1>6 DEF SearchInv, SearchState
<1>8. s.Q = {}
  <2>1. s.visited \in SUBSET D
    BY <1>7
  <2>2. ASSUME Cardinality(s.visited) = N PROVE s.visited = D
    <3> HIDE DEF D
    <3> QED BY <1>1, <2>1, <2>2, FS_Subset DEF N
  <2> HIDE DEF D
  <2> QED BY <1>6, <1>7, <2>2 DEF D
<1>9. DOMAIN dist = s.visited
  BY <1>7, <1>8
<1>10. ASSUME NEW n \in DOMAIN dist PROVE dist[n] \in 0 .. K /\ n \in W[dist[n]]
  <2>1. dist[n] < Cardinality(s.visited) /\ n \in W[dist[n]] /\ dist[n] \in Nat
    BY <1>6, <1>7, <1>9 DEF SearchInv, Reachable
  <2>2. s.visited \in SUBSET V
    BY <1>7, <1>9
  <2>3. Cardinality(s.visited) <= Cardinality(V) /\ Cardinality(V) \in Nat /\ Cardinality(s.visited) \in Nat
    BY <1>1, <2>2, FS_Subset, FS_CardinalityType
  <2> QED BY <2>1, <2>3
<1>11. \A v \in DOMAIN dist : \A w \in NeighborsOf(graph, v) : w \in DOMAIN dist /\ dist[w] <= dist[v] + 1
  BY <1>6, <1>9 DEF SearchInv, Relaxed
<1> DEFINE U == {k \in Nat : k <= K => \A n \in W[k] : n \in DOMAIN dist /\ dist[n] <= k}
<1>12. 0 \in U
  <2>1. W[0] = {source}
    BY DEF Levels
  <2> QED BY <1>7, <2>1
<1>13. ASSUME NEW k \in 0 .. K - 1, k \in U PROVE k + 1 \in U
  <2>1. k \in Nat /\ k <= K /\ k + 1 \in 1 .. K /\ (k + 1) - 1 = k
    OBVIOUS
  <2>2. W[k + 1] = W[k] \cup UNION {NeighborsOf(graph, x) : x \in W[k]}
    BY <2>1 DEF Levels
  <2>3. \A n \in W[k] : n \in DOMAIN dist /\ dist[n] <= k
    BY <1>13, <2>1
  <2>4. ASSUME NEW n \in W[k + 1] PROVE n \in DOMAIN dist /\ dist[n] <= k + 1
    <3>1. CASE n \in W[k]
      BY <1>7, <2>1, <2>3, <3>1
    <3>2. ASSUME NEW x \in W[k], n \in NeighborsOf(graph, x) PROVE n \in DOMAIN dist /\ dist[n] <= k + 1
      <4>1. x \in DOMAIN dist /\ dist[x] <= k /\ dist[x] \in Nat
        BY <1>7, <2>3
      <4>2. n \in DOMAIN dist /\ dist[n] <= dist[x] + 1 /\ dist[n] \in Nat
        BY <1>7, <1>11, <3>2, <4>1
      <4> QED BY <2>1, <4>1, <4>2
    <3> QED BY <2>2, <3>1, <3>2
  <2> QED BY <2>1, <2>4
<1>14. \A k \in 0 .. K : \A n \in W[k] : n \in DOMAIN dist /\ dist[n] <= k
  <2>1. 0 .. K \subseteq U
    <3> HIDE DEF U
    <3> QED BY <1>12, <1>13, UpTo
  <2> QED BY <2>1
<1>15. ClosedIn(graph, source, DOMAIN dist)
  BY <1>7, <1>11 DEF ClosedIn
<1> QED BY <1>7, <1>10, <1>14, <1>15

\* W[k]: the nodes at most k links away from source, up to n.
IsWithin(graph, source, n, W) ==
  W = [k \in 0 .. n |->
        IF k = 0 THEN {source}
        ELSE W[k - 1] \cup UNION {NeighborsOf(graph, x) : x \in W[k - 1]}]

\* How far one comes is a function of the number of links.
LEMMA WithinExists ==
  ASSUME NEW graph, NEW source, NEW n \in Nat
  PROVE  \E f : IsWithin(graph, source, n, f)
<1> DEFINE Val(f, i) == IF i = 0 THEN {source}
        ELSE f[i - 1] \cup UNION {NeighborsOf(graph, x) : x \in f[i - 1]}
           T == {m \in Nat : \E f : f = [i \in 0 .. m |-> Val(f, i)]}
<1>1. 0 \in T
  <2> DEFINE e == [i \in 0 .. 0 |-> Val(<<>>, i)]
  <2>1. \A i \in 0 .. 0 : Val(e, i) = Val(<<>>, i)
    OBVIOUS
  <2>2. e = [i \in 0 .. 0 |-> Val(e, i)]
    <3> HIDE DEF Val
    <3> QED BY <2>1
  <2>3. \E f : f = [i \in 0 .. 0 |-> Val(f, i)]
    <3> HIDE DEF Val, e
    <3> QED BY <2>2
  <2> HIDE DEF Val
  <2> QED BY <2>3
<1>2. ASSUME NEW m \in Nat, m \in T PROVE m + 1 \in T
  <2>1. PICK f : f = [i \in 0 .. m |-> Val(f, i)]
    BY <1>2
  <2> DEFINE g == [i \in 0 .. m + 1 |-> IF i <= m THEN f[i] ELSE Val(f, m + 1)]
  <2>2. \A i \in 0 .. m : f[i] = Val(f, i)
    <3> HIDE DEF Val
    <3> QED BY <2>1
  <2>3. ASSUME NEW i \in 0 .. m + 1 PROVE Val(g, i) = Val(f, i)
    <3>1. CASE i = 0
      <4> HIDE DEF g
      <4> QED BY <3>1
    <3>2. CASE i # 0
      <4>1. i - 1 \in 0 .. m + 1 /\ i - 1 <= m
        BY <3>2
      <4>2. g[i - 1] = f[i - 1]
        <5> HIDE DEF Val
        <5> QED BY <4>1
      <4> HIDE DEF g
      <4> QED BY <3>2, <4>2
    <3> QED BY <3>1, <3>2
  <2>4. ASSUME NEW i \in 0 .. m + 1 PROVE g[i] = Val(g, i)
    <3> HIDE DEF Val
    <3>1. CASE i <= m
      <4>1. i \in 0 .. m /\ g[i] = f[i]
        BY <3>1
      <4> QED BY <4>1, <2>2, <2>3
    <3>2. CASE i = m + 1
      <4>1. g[i] = Val(f, i)
        BY <3>2
      <4> QED BY <4>1, <2>3
    <3> QED BY <3>1, <3>2
  <2>5. g = [i \in 0 .. m + 1 |-> Val(g, i)]
    <3> HIDE DEF Val
    <3> QED BY <2>4
  <2>6. \E h : h = [i \in 0 .. m + 1 |-> Val(h, i)]
    <3> HIDE DEF Val, g
    <3> QED BY <2>5, Zenon
  <2>7. m + 1 \in Nat
    OBVIOUS
  <2> HIDE DEF Val
  <2> QED BY <2>6, <2>7
<1>3. n \in T
  <2> HIDE DEF T
  <2>1. \A i \in 0 .. (n) - 1 : i \in T => i + 1 \in T
    BY <1>2
  <2>2. 0 .. n \subseteq T
    BY <1>1, <2>1, UpTo
  <2> QED BY <2>2
<1> QED BY <1>3 DEF IsWithin

\* Within(graph, source, n)[k]: the nodes at most k links away from source.
Within(graph, source, n) == CHOOSE W : IsWithin(graph, source, n, W)

LEMMA WithinLevels ==
  ASSUME NEW graph, NEW source, NEW n \in Nat
  PROVE  Levels(graph, source, n, Within(graph, source, n))
<1> DEFINE W == Within(graph, source, n)
<1>1. IsWithin(graph, source, n, W)
  <2>1. \E f : IsWithin(graph, source, n, f)
    BY WithinExists
  <2> QED BY <2>1, Zenon DEF Within
<1> HIDE DEF W
<1>2. W[0] = {source}
  <2>1. 0 \in 0 .. n
    OBVIOUS
  <2> QED BY <1>1, <2>1 DEF IsWithin
<1>3. ASSUME NEW k \in 1 .. n
      PROVE  W[k] = W[k - 1] \cup UNION {NeighborsOf(graph, x) : x \in W[k - 1]}
  <2>1. k \in 0 .. n /\ k # 0
    OBVIOUS
  <2> QED BY <1>1, <2>1 DEF IsWithin
<1> QED BY <1>2, <1>3 DEF Levels, W

\* In every finite graph the search finds exactly the nodes that can be reached,
\* each at the length of a shortest path: one relaxation of every link is enough,
\* whichever of the nearest nodes the loop takes.
THEOREM DistancesCorrect ==
  ASSUME NEW graph, IsFiniteSet(DOMAIN graph), \A n \in DOMAIN graph : graph[n] \subseteq DOMAIN graph,
         NEW source
  PROVE  LET dist == Distances(graph, source)
             most == Cardinality(DOMAIN graph)
             within == Within(graph, source, most)
         IN  /\ \A n \in DOMAIN dist : dist[n] \in 0 .. most /\ n \in within[dist[n]]
             /\ \A k \in 0 .. most : \A n \in within[k] : n \in DOMAIN dist /\ dist[n] <= k
             /\ ClosedIn(graph, source, DOMAIN dist)
<1> DEFINE dist == Distances(graph, source)
           most == Cardinality(DOMAIN graph)
           within == Within(graph, source, most)
           V == DOMAIN graph \cup {source}
<1>1. most \in Nat /\ Cardinality(V) <= most + 1
  <2>1. most \in Nat
    BY FS_CardinalityType
  <2>2. Cardinality(V) = IF source \in DOMAIN graph THEN most ELSE most + 1
    BY FS_AddElement
  <2> HIDE DEF most, V
  <2> QED BY <2>1, <2>2
<1>2. ClosedIn(graph, source, V)
  BY DEF ClosedIn, NeighborsOf
<1> HIDE DEF most
<1>3. Levels(graph, source, most, within)
  BY <1>1, WithinLevels
<1> HIDE DEF dist, within, V
<1>4. V \subseteq DOMAIN graph \cup {source}
  BY DEF V
<1>5. dist = Distances(graph, source)
  BY DEF dist
<1>6. /\ \A n \in DOMAIN dist : dist[n] \in 0 .. most /\ n \in within[dist[n]]
      /\ \A k \in 0 .. most : \A n \in within[k] : n \in DOMAIN dist /\ dist[n] <= k
      /\ ClosedIn(graph, source, DOMAIN dist)
  BY <1>1, <1>2, <1>3, <1>4, <1>5, DistancesFound
<1> QED BY <1>6 DEF dist, most, within

-----------------------------------------------------------------------------
(* The announcements that count *)

\* The line that counts for every sender, after one line more.
StatusStep(file, n, before) ==
  LET new == file[n]
      old == before[new.sender]
  IN  IF old = 0 THEN [before EXCEPT ![new.sender] = n]
      ELSE IF OlderThan(file[old].seqnum, new.seqnum)
      THEN [before EXCEPT ![new.sender] = n] ELSE before

\* after: the lines that count after each of the first n.
IsStatus(file, n, after) ==
  after = [i \in 0 .. n |-> IF i = 0 THEN [s \in Senders(file) |-> 0]
        ELSE StatusStep(file, i, after[i - 1])]

\* The lines that count are a function of how many were read.
LEMMA StatusExists ==
  ASSUME NEW file, NEW n \in Nat
  PROVE  \E f : IsStatus(file, n, f)
<1> DEFINE Val(f, i) == IF i = 0 THEN [s \in Senders(file) |-> 0]
        ELSE StatusStep(file, i, f[i - 1])
           T == {m \in Nat : \E f : f = [i \in 0 .. m |-> Val(f, i)]}
<1>1. 0 \in T
  <2> DEFINE e == [i \in 0 .. 0 |-> Val(<<>>, i)]
  <2>1. \A i \in 0 .. 0 : Val(e, i) = Val(<<>>, i)
    OBVIOUS
  <2>2. e = [i \in 0 .. 0 |-> Val(e, i)]
    <3> HIDE DEF Val
    <3> QED BY <2>1
  <2>3. \E f : f = [i \in 0 .. 0 |-> Val(f, i)]
    <3> HIDE DEF Val, e
    <3> QED BY <2>2
  <2> HIDE DEF Val
  <2> QED BY <2>3
<1>2. ASSUME NEW m \in Nat, m \in T PROVE m + 1 \in T
  <2>1. PICK f : f = [i \in 0 .. m |-> Val(f, i)]
    BY <1>2
  <2> DEFINE g == [i \in 0 .. m + 1 |-> IF i <= m THEN f[i] ELSE Val(f, m + 1)]
  <2>2. \A i \in 0 .. m : f[i] = Val(f, i)
    <3> HIDE DEF Val
    <3> QED BY <2>1
  <2>3. ASSUME NEW i \in 0 .. m + 1 PROVE Val(g, i) = Val(f, i)
    <3>1. CASE i = 0
      <4> HIDE DEF g
      <4> QED BY <3>1
    <3>2. CASE i # 0
      <4>1. i - 1 \in 0 .. m + 1 /\ i - 1 <= m
        BY <3>2
      <4>2. g[i - 1] = f[i - 1]
        <5> HIDE DEF Val
        <5> QED BY <4>1
      <4> HIDE DEF g
      <4> QED BY <3>2, <4>2
    <3> QED BY <3>1, <3>2
  <2>4. ASSUME NEW i \in 0 .. m + 1 PROVE g[i] = Val(g, i)
    <3> HIDE DEF Val
    <3>1. CASE i <= m
      <4>1. i \in 0 .. m /\ g[i] = f[i]
        BY <3>1
      <4> QED BY <4>1, <2>2, <2>3
    <3>2. CASE i = m + 1
      <4>1. g[i] = Val(f, i)
        BY <3>2
      <4> QED BY <4>1, <2>3
    <3> QED BY <3>1, <3>2
  <2>5. g = [i \in 0 .. m + 1 |-> Val(g, i)]
    <3> HIDE DEF Val
    <3> QED BY <2>4
  <2>6. \E h : h = [i \in 0 .. m + 1 |-> Val(h, i)]
    <3> HIDE DEF Val, g
    <3> QED BY <2>5, Zenon
  <2>7. m + 1 \in Nat
    OBVIOUS
  <2> HIDE DEF Val
  <2> QED BY <2>6, <2>7
<1>3. n \in T
  <2> HIDE DEF T
  <2>1. \A i \in 0 .. (n) - 1 : i \in T => i + 1 \in T
    BY <1>2
  <2>2. 0 .. n \subseteq T
    BY <1>1, <2>1, UpTo
  <2> QED BY <2>2
<1> QED BY <1>3 DEF IsStatus

StatusAfter(file) == CHOOSE after : IsStatus(file, Len(file), after)

\* after: a line of every sender that was heard in the first n.
LinesOf(file, n, after) ==
  /\ after = [s \in Senders(file) |-> after[s]]
  /\ \A s \in Senders(file) : after[s] \in 0 .. n /\ (after[s] # 0 => file[after[s]].sender = s)
  /\ \A i \in 1 .. n : after[file[i].sender] # 0

LEMMA StatusStepGoesOn ==
  ASSUME NEW file, DOMAIN file = 1 .. Len(file), Len(file) \in Nat,
         NEW n \in 1 .. Len(file), NEW before, LinesOf(file, n - 1, before)
  PROVE  LinesOf(file, n, StatusStep(file, n, before))
<1> DEFINE s == file[n].sender
           put == [before EXCEPT ![s] = n]
           next == StatusStep(file, n, before)
<1>1. s \in Senders(file)
  BY DEF Senders
<1>2. /\ before = [t \in Senders(file) |-> before[t]]
      /\ \A t \in Senders(file) : before[t] \in 0 .. n - 1
                                  /\ (before[t] # 0 => file[before[t]].sender = t)
      /\ \A i \in 1 .. n - 1 : before[file[i].sender] # 0
  BY DEF LinesOf
<1>3. next = put \/ (next = before /\ before[s] # 0)
  BY Zenon DEF StatusStep
<1> HIDE DEF next, s
<1>4. /\ put = [t \in Senders(file) |-> put[t]] /\ put[s] = n
      /\ \A t \in Senders(file) : t # s => put[t] = before[t]
  BY <1>1, <1>2
<1> HIDE DEF put
<1>5. n \in Nat /\ n # 0 /\ file[n].sender = s
  BY DEF s
<1>6. CASE next = put
  <2>1. \A t \in Senders(file) : next[t] \in 0 .. n /\ (next[t] # 0 => file[next[t]].sender = t)
    <3> SUFFICES ASSUME NEW t \in Senders(file)
                 PROVE  next[t] \in 0 .. n /\ (next[t] # 0 => file[next[t]].sender = t)
      OBVIOUS
    <3>1. CASE t = s
      BY <1>4, <1>5, <1>6, <3>1
    <3>2. CASE t # s
      BY <1>2, <1>4, <1>5, <1>6, <3>2
    <3> QED BY <3>1, <3>2
  <2>2. \A i \in 1 .. n : next[file[i].sender] # 0
    <3> SUFFICES ASSUME NEW i \in 1 .. n PROVE next[file[i].sender] # 0
      OBVIOUS
    <3>1. file[i].sender \in Senders(file)
      BY DEF Senders
    <3>2. CASE file[i].sender = s
      BY <1>4, <1>5, <1>6, <3>2
    <3>3. CASE file[i].sender # s
      <4>1. i \in 1 .. n - 1
        BY <1>5, <3>3
      <4> QED BY <1>2, <1>4, <1>6, <3>1, <3>3, <4>1
    <3> QED BY <3>2, <3>3
  <2> QED BY <1>4, <1>6, <2>1, <2>2 DEF LinesOf, next
<1>7. CASE next = before /\ before[s] # 0
  <2>1. \A t \in Senders(file) : next[t] \in 0 .. n /\ (next[t] # 0 => file[next[t]].sender = t)
    BY <1>2, <1>5, <1>7
  <2>2. \A i \in 1 .. n : next[file[i].sender] # 0
    <3> SUFFICES ASSUME NEW i \in 1 .. n PROVE next[file[i].sender] # 0
      OBVIOUS
    <3>1. CASE i = n
      BY <1>5, <1>7, <3>1
    <3>2. CASE i # n
      <4>1. i \in 1 .. n - 1
        BY <1>5, <3>2
      <4> QED BY <1>2, <1>7, <4>1
    <3> QED BY <3>1, <3>2
  <2> QED BY <1>2, <1>7, <2>1, <2>2 DEF LinesOf, next
<1> QED BY <1>3, <1>6, <1>7

\* Whichever of two numbers is taken for the greater, what counts for a sender
\* is a line of its own.
LEMMA StatusIsALine ==
  ASSUME NEW file, DOMAIN file = 1 .. Len(file), Len(file) \in Nat
  PROVE  /\ DOMAIN Status(file) = Senders(file)
         /\ \A s \in Senders(file) :
              \E i \in DOMAIN file : file[i].sender = s /\ Status(file)[s] = file[i]
<1> DEFINE N == Len(file)
           after == StatusAfter(file)
           T == {n \in Nat : LinesOf(file, n, after[n])}
<1>1. IsStatus(file, N, after)
  <2>1. \E f : IsStatus(file, N, f)
    BY StatusExists
  <2> QED BY <2>1, Zenon DEF StatusAfter
<1>2. Status(file) = [s \in Senders(file) |-> file[after[N][s]]]
  BY DEF Status, StatusAfter, IsStatus, StatusStep
<1> HIDE DEF after, N
<1>3. N \in Nat /\ DOMAIN file = 1 .. N
  BY DEF N
<1>4. 0 \in T
  <2>1. after[0] = [s \in Senders(file) |-> 0]
    BY <1>1, <1>3 DEF IsStatus
  <2>2. LinesOf(file, 0, after[0])
    BY <2>1 DEF LinesOf
  <2> QED BY <2>2
<1>5. ASSUME NEW n \in 0 .. N - 1, n \in T PROVE n + 1 \in T
  <2>1. n + 1 \in 0 .. N /\ n + 1 \in 1 .. N /\ n + 1 # 0 /\ (n + 1) - 1 = n /\ LinesOf(file, n, after[n])
    BY <1>3, <1>5
  <2>2. after[n + 1] = StatusStep(file, n + 1, after[n])
    BY <1>1, <2>1 DEF IsStatus
  <2> DEFINE k == n + 1
  <2> HIDE DEF k
  <2>3. k \in 1 .. Len(file) /\ LinesOf(file, k - 1, after[n]) /\ k = n + 1
    BY <2>1 DEF k, N
  <2>4. LinesOf(file, k, StatusStep(file, k, after[n]))
    BY <2>3, StatusStepGoesOn
  <2> QED BY <2>2, <2>3, <2>4
<1>6. N \in T
  <2> HIDE DEF T
  <2>1. 0 .. N \subseteq T
    BY <1>3, <1>4, <1>5, UpTo
  <2> QED BY <1>3, <2>1
<1>7. LinesOf(file, N, after[N])
  BY <1>6
<1>8. ASSUME NEW s \in Senders(file)
      PROVE  \E i \in DOMAIN file : file[i].sender = s /\ Status(file)[s] = file[i]
  <2>1. PICK j \in 1 .. N : file[j].sender = s
    BY <1>3 DEF Senders
  <2>2. after[N][s] \in 1 .. N /\ file[after[N][s]].sender = s
    BY <1>3, <1>7, <2>1 DEF LinesOf
  <2>3. Status(file)[s] = file[after[N][s]]
    BY <1>2
  <2> QED BY <1>3, <2>2, <2>3
<1> QED BY <1>2, <1>8

-----------------------------------------------------------------------------
(* The links as they are known, and as they are *)

\* Every line tells all neighbours of its sender.
LinesTell(file) ==
  IsSequence(file) /\ \A i \in DOMAIN file : file[i].neighbors = NeighborsIn(file[i].sender)

LEMMA NeighborsMutual == ASSUME NEW m, NEW n, n \in NeighborsIn(m) PROVE m \in NeighborsIn(n)
BY DEF NeighborsIn

LEMMA NeighborsAreNodes ==
  /\ \A m : NeighborsIn(m) \subseteq Nodes
  /\ \A n \in Nodes : \E i \in DOMAIN Links : n \in {Links[i][1], Links[i][2]}
  /\ \A i \in DOMAIN Links : /\ Links[i][1] \in NeighborsIn(Links[i][2])
                             /\ Links[i][2] \in NeighborsIn(Links[i][1])
BY DEF NeighborsIn, Nodes

\* What a function takes on an interval is finite.
LEMMA ValuesFinite ==
  ASSUME NEW n \in Nat, NEW f, DOMAIN f = 1 .. n PROVE IsFiniteSet({f[i] : i \in 1 .. n})
<1> DEFINE g == [i \in 1 .. n |-> f[i]]
           values == {f[i] : i \in 1 .. n}
<1>1. g \in Surjection(1 .. n, values)
  BY DEF Surjection
<1>2. IsFiniteSet(1 .. n)
  BY FS_Interval
<1> HIDE DEF g, values
<1>3. IsFiniteSet(values)
  BY <1>1, <1>2, FS_Surjection
<1> QED BY <1>3 DEF values

LEMMA NodesFinite == IsFiniteSet(Nodes) /\ Cardinality(Nodes) \in Nat
<1> DEFINE n == Len(Links)
           f == [i \in 1 .. n |-> Links[i][1]]
           g == [i \in 1 .. n |-> Links[i][2]]
           A == {f[i] : i \in 1 .. n}
           B == {g[i] : i \in 1 .. n}
<1>1. n \in Nat /\ DOMAIN Links = 1 .. n
  BY LinksAssumption
<1>2. Nodes = A \cup B
  <2> HIDE DEF n
  <2> QED BY <1>1 DEF Nodes
<1>3. IsFiniteSet(A) /\ IsFiniteSet(B)
  <2>1. DOMAIN f = 1 .. n /\ DOMAIN g = 1 .. n
    OBVIOUS
  <2> HIDE DEF n, f, g
  <2> QED BY <1>1, <2>1, ValuesFinite
<1> HIDE DEF A, B
<1>4. IsFiniteSet(Nodes)
  BY <1>2, <1>3, FS_Union
<1> QED BY <1>4, FS_CardinalityType

\* When one end of every link was heard, every link is known at both ends.
LEMMA CoveredKnown ==
  ASSUME LinesTell(lines), Covered, NEW graph, graph = Neighbors(Status(lines))
  PROVE  /\ \A n : NeighborsOf(graph, n) = NeighborsIn(n)
         /\ Nodes \subseteq DOMAIN graph /\ IsFiniteSet(DOMAIN graph)
<1> DEFINE status == Status(lines)
           heard == Senders(lines)
<1>1. DOMAIN lines = 1 .. Len(lines) /\ Len(lines) \in Nat
  BY DEF LinesTell, IsSequence
<1>2. DOMAIN status = heard /\ \A s \in heard : status[s].neighbors = NeighborsIn(s)
  <2>1. /\ DOMAIN status = heard
        /\ \A s \in heard : \E i \in DOMAIN lines : lines[i].sender = s /\ status[s] = lines[i]
    BY <1>1, StatusIsALine
  <2>2. ASSUME NEW s \in heard PROVE status[s].neighbors = NeighborsIn(s)
    <3>1. PICK i \in DOMAIN lines : lines[i].sender = s /\ status[s] = lines[i]
      BY <2>1
    <3> HIDE DEF status, heard
    <3> QED BY <3>1 DEF LinesTell
  <2> QED BY <2>1, <2>2
<1>3. \A i \in DOMAIN Links : Links[i][1] \in heard \/ Links[i][2] \in heard
  BY DEF Covered, Senders
<1> HIDE DEF status, heard
<1>4. ASSUME NEW m, NEW n, n \in NeighborsIn(m) PROVE m \in heard \/ n \in heard
  <2>1. PICK i \in DOMAIN Links : (Links[i][1] = m /\ Links[i][2] = n) \/ (Links[i][2] = m /\ Links[i][1] = n)
    BY <1>4 DEF NeighborsIn
  <2> QED BY <1>3, <2>1
<1>5. Mentioned(status) = heard \cup UNION {NeighborsIn(s) : s \in heard}
  BY <1>2 DEF Mentioned
<1>6. /\ DOMAIN graph = Mentioned(status)
      /\ \A n \in Mentioned(status) :
           graph[n] = IF n \in heard THEN status[n].neighbors ELSE {s \in heard : n \in status[s].neighbors}
  BY <1>2 DEF Neighbors, status
<1>7. ASSUME NEW n PROVE NeighborsOf(graph, n) = NeighborsIn(n)
  <2>1. CASE n \in heard
    <3>1. n \in Mentioned(status)
      BY <1>5, <2>1
    <3>2. graph[n] = status[n].neighbors
      BY <1>6, <2>1, <3>1
    <3> QED BY <1>2, <1>6, <2>1, <3>1, <3>2 DEF NeighborsOf
  <2>2. CASE n \notin heard /\ n \in Mentioned(status)
    <3>1. graph[n] = {s \in heard : n \in NeighborsIn(s)}
      BY <1>2, <1>6, <2>2
    <3>2. {s \in heard : n \in NeighborsIn(s)} = NeighborsIn(n)
      BY <1>4, <2>2, NeighborsMutual
    <3> QED BY <1>6, <2>2, <3>1, <3>2 DEF NeighborsOf
  <2>3. CASE n \notin heard /\ n \notin Mentioned(status)
    <3>1. \A s \in heard : n \notin NeighborsIn(s)
      BY <1>5, <2>3
    <3>2. NeighborsIn(n) = {}
      BY <1>4, <2>3, <3>1, NeighborsMutual
    <3> QED BY <1>6, <2>3, <3>2 DEF NeighborsOf
  <2> QED BY <2>1, <2>2, <2>3
<1>8. Nodes \subseteq DOMAIN graph
  <2> SUFFICES ASSUME NEW n \in Nodes, n \notin heard PROVE n \in DOMAIN graph
    BY <1>5, <1>6
  <2>1. PICK i \in DOMAIN Links : n \in {Links[i][1], Links[i][2]}
    BY NeighborsAreNodes
  <2>2. \E s \in heard : n \in NeighborsIn(s)
    BY <1>3, <2>1, NeighborsAreNodes
  <2> QED BY <1>5, <1>6, <2>2
<1>9. IsFiniteSet(heard)
  <2> DEFINE n == Len(lines)
             f == [i \in 1 .. n |-> lines[i].sender]
             R == {f[i] : i \in 1 .. n}
  <2>1. heard = R
    <3> HIDE DEF n
    <3> QED BY <1>1 DEF heard, Senders, n
  <2>2. DOMAIN f = 1 .. n /\ n \in Nat
    BY <1>1
  <2> HIDE DEF f, n
  <2> QED BY <2>1, <2>2, ValuesFinite
<1>10. IsFiniteSet(DOMAIN graph)
  <2>1. DOMAIN graph \in SUBSET (heard \cup Nodes)
    BY <1>5, <1>6, NeighborsAreNodes
  <2>2. IsFiniteSet(heard \cup Nodes)
    BY <1>9, NodesFinite, FS_Union
  <2> QED BY <2>1, <2>2, FS_Subset
<1> QED BY <1>7, <1>8, <1>10

\* W[k]: the nodes at most k links away from m, by the links themselves.
IsHops(m, W) ==
  W = [k \in 0 .. Cardinality(Nodes) |->
        IF k = 0 THEN {m} ELSE W[k - 1] \cup UNION {NeighborsIn(x) : x \in W[k - 1]}]

Hops(m) == CHOOSE W : IsHops(m, W)

LEMMA HopsLevels ==
  ASSUME NEW m, NEW graph, \A n : NeighborsOf(graph, n) = NeighborsIn(n)
  PROVE  Levels(graph, m, Cardinality(Nodes), Hops(m))
<1> DEFINE K == Cardinality(Nodes)
<1>1. K \in Nat
  BY NodesFinite
<1>2. PICK W : IsWithin(graph, m, K, W)
  BY <1>1, WithinExists
<1>3. ASSUME NEW R PROVE UNION {NeighborsOf(graph, x) : x \in R} = UNION {NeighborsIn(x) : x \in R}
  OBVIOUS
<1>4. IsHops(m, W)
  <2> DEFINE A(k) == IF k = 0 THEN {m} ELSE W[k - 1] \cup UNION {NeighborsOf(graph, x) : x \in W[k - 1]}
             B(k) == IF k = 0 THEN {m} ELSE W[k - 1] \cup UNION {NeighborsIn(x) : x \in W[k - 1]}
  <2>1. ASSUME NEW k PROVE A(k) = B(k)
    BY <1>3
  <2>2. W = [k \in 0 .. K |-> A(k)]
    BY <1>2 DEF IsWithin
  <2>3. W = [k \in 0 .. K |-> B(k)]
    <3> HIDE DEF A, B, K
    <3> QED BY <2>1, <2>2
  <2> QED BY <2>3 DEF IsHops
<1> DEFINE H == Hops(m)
<1>5. IsHops(m, H)
  BY <1>4, Zenon DEF Hops
<1> HIDE DEF H
<1>6. H[0] = {m}
  <2>1. 0 \in 0 .. K
    BY <1>1
  <2> QED BY <1>5, <2>1 DEF IsHops
<1>7. ASSUME NEW k \in 1 .. K PROVE H[k] = H[k - 1] \cup UNION {NeighborsOf(graph, x) : x \in H[k - 1]}
  <2>1. k \in 0 .. K /\ k # 0
    BY <1>1
  <2>2. H[k] = H[k - 1] \cup UNION {NeighborsIn(x) : x \in H[k - 1]}
    BY <1>5, <2>1 DEF IsHops
  <2> QED BY <1>3, <2>2
<1> QED BY <1>6, <1>7 DEF Levels, H

\* Every set of nodes that holds m and is left by no link holds n: there is a
\* path of links from m to n.
Connected(m, n) ==
  \A set \in SUBSET (Nodes \cup {m}) :
    m \in set /\ (\A x \in set : NeighborsIn(x) \subseteq set) => n \in set

\* The server's distances are those of the links themselves.
LEMMA DistancesAreHops ==
  ASSUME LinesTell(lines), Covered, NEW m, NEW n, Connected(m, n),
         NEW dist, dist = Distances(Neighbors(Status(lines)), m)
  PROVE  Dist(dist, n) \in Nat /\ HopsApart(m, n) = Dist(dist, n)
<1> DEFINE graph == Neighbors(Status(lines))
           K == Cardinality(Nodes)
           V == Nodes \cup {m}
           W == Hops(m)
<1>1. /\ \A x : NeighborsOf(graph, x) = NeighborsIn(x)
      /\ Nodes \subseteq DOMAIN graph /\ IsFiniteSet(DOMAIN graph)
  BY CoveredKnown
<1>2. dist = Distances(graph, m)
  OBVIOUS
<1> HIDE DEF graph
<1>3. K \in Nat /\ IsFiniteSet(Nodes)
  BY NodesFinite
<1>4. Levels(graph, m, K, W)
  BY <1>1, HopsLevels
<1>5. Cardinality(V) <= K + 1
  <2>1. Cardinality(V) = IF m \in Nodes THEN K ELSE K + 1
    BY <1>3, FS_AddElement
  <2> HIDE DEF V, K
  <2> QED BY <1>3, <2>1
<1>6. ClosedIn(graph, m, V) /\ V \subseteq DOMAIN graph \cup {m}
  BY <1>1, NeighborsAreNodes DEF ClosedIn
<1>7. HopsApart(m, n) = Min({k \in 0 .. K : n \in W[k]})
  BY DEF HopsApart, Hops, IsHops
<1> HIDE DEF K, V, W
<1>8. /\ \A x \in DOMAIN dist : dist[x] \in 0 .. K /\ x \in W[dist[x]]
      /\ \A k \in 0 .. K : \A x \in W[k] : x \in DOMAIN dist /\ dist[x] <= k
      /\ ClosedIn(graph, m, DOMAIN dist) /\ DOMAIN dist \subseteq V
  BY <1>1, <1>2, <1>3, <1>4, <1>5, <1>6, DistancesFound
<1>9. n \in DOMAIN dist
  <2>1. DOMAIN dist \in SUBSET (Nodes \cup {m})
    BY <1>8 DEF V
  <2>2. m \in DOMAIN dist /\ \A x \in DOMAIN dist : NeighborsIn(x) \subseteq DOMAIN dist
    BY <1>1, <1>8 DEF ClosedIn
  <2> QED BY <2>1, <2>2 DEF Connected
<1> DEFINE T == {k \in 0 .. K : n \in W[k]}
<1>10. dist[n] \in T /\ \A k \in T : dist[n] <= k
  BY <1>8, <1>9
<1>11. T \subseteq Nat /\ dist[n] \in Nat
  BY <1>3, <1>8, <1>9
<1>12. Min(T) = dist[n]
  <2> HIDE DEF T
  <2>1. \E x : x \in T /\ \A y \in T : x <= y
    BY <1>10
  <2>2. Min(T) = CHOOSE x : x \in T /\ \A y \in T : x <= y
    BY DEF Min
  <2>3. Min(T) \in T /\ \A k \in T : Min(T) <= k
    BY <2>1, <2>2, Zenon
  <2> DEFINE least == Min(T)
             found == dist[n]
  <2>4. least \in T /\ found \in T /\ least <= found /\ found <= least
    BY <1>10, <2>3
  <2> HIDE DEF least, found
  <2>5. least = found
    BY <1>11, <2>4
  <2> QED BY <2>5 DEF least, found
<1> QED BY <1>7, <1>9, <1>11, <1>12 DEF Dist

NearestGiven(answer) ==
  ~roundRobin /\ answer.covered =>
    \A i \in DOMAIN Servers :
      HopsApart(NodeOf[answer.client], answer.server) <= HopsApart(NodeOf[answer.client], Servers[i])

\* Every line tells all neighbours of its sender, and every answer was the
\* nearest when it was given.
NearestInv ==
  LinesTell(lines) /\ \A i \in DOMAIN given : NearestGiven(given[i])

ServersConnected == \A c \in Clients, i \in DOMAIN Servers : Connected(NodeOf[c], Servers[i])

\* When the links are known the server that is chosen is a nearest one.
LEMMA ChosenIsNearest ==
  ASSUME ServersConnected, LinesTell(lines), Covered, ~roundRobin, NEW c \in Clients,
         NEW j \in DOMAIN Servers
  PROVE  HopsApart(NodeOf[c], Chosen(c)) <= HopsApart(NodeOf[c], Servers[j])
<1> DEFINE m == NodeOf[c]
           distances == Distances(Neighbors(Status(lines)), m)
           best == BestPlaces(distances, Servers)[Len(Servers)]
<1>1. Chosen(c) = Servers[best]
  BY DEF Chosen, BestServer, BestPlaces
<1>2. \A i \in DOMAIN Servers :
        Dist(distances, Servers[i]) \in Nat /\ HopsApart(m, Servers[i]) = Dist(distances, Servers[i])
  <2> SUFFICES ASSUME NEW i \in DOMAIN Servers
               PROVE  Dist(distances, Servers[i]) \in Nat
                      /\ HopsApart(m, Servers[i]) = Dist(distances, Servers[i])
    OBVIOUS
  <2>1. Connected(m, Servers[i])
    BY DEF ServersConnected
  <2> QED BY <2>1, DistancesAreHops
<1> HIDE DEF distances, m
<1>3. best \in DOMAIN Servers
  BY ServersFacts, BestIsAPlace
<1>4. Dist(distances, Servers[best]) <= Dist(distances, Servers[j])
  BY <1>2, ServersFacts, BestIsNearest
<1> HIDE DEF best
<1> QED BY <1>1, <1>2, <1>3, <1>4 DEF m

LEMMA ServeNearest ==
  ASSUME ServersConnected, RotationInv, MessagesInv, NearestInv, Serve PROVE NearestInv'
<1>1. PICK query \in queries :
        given' = Append(given, [client |-> query.from[1], server |-> Chosen(query.from[1]),
                                covered |-> Covered])
  BY Zenon DEF Serve
<1>2. PICK answer : answer = [client |-> query.from[1], server |-> Chosen(query.from[1]),
                              covered |-> Covered]
  OBVIOUS
<1>3. /\ answer.client = query.from[1] /\ answer.server = Chosen(query.from[1])
      /\ answer.covered = Covered
  BY <1>2
<1>4. query.from[1] \in Clients
  BY DEF MessagesInv, QueryOK
<1>5. NearestGiven(answer)
  BY <1>3, <1>4, ChosenIsNearest DEF NearestGiven, NearestInv
<1>6. UNCHANGED <<lines, roundRobin>>
  BY DEF Serve
<1>7. LinesTell(lines)'
  BY <1>6, Zenon DEF NearestInv, LinesTell, IsSequence
<1>8. NearestGiven(answer)'
  BY <1>5, <1>6 DEF NearestGiven
<1>9. ASSUME NEW i \in DOMAIN given' PROVE NearestGiven(given[i])'
  <2>1. given' = Append(given, answer) /\ IsSequence(given)
    BY <1>1, <1>2 DEF RotationInv
  <2>2. i = Len(given) + 1 \/ i \in DOMAIN given
    BY <2>1, AppendFacts
  <2>3. CASE i = Len(given) + 1
    <3>1. given'[i] = answer
      BY <2>1, <2>3, AppendFacts
    <3> QED BY <1>8, <3>1, Zenon DEF NearestGiven
  <2>4. CASE i \in DOMAIN given
    <3>1. given'[i] = given[i]
      BY <2>1, <2>4, AppendFacts
    <3>2. NearestGiven(given[i])
      BY <2>4 DEF NearestInv
    <3> QED BY <1>6, <3>1, <3>2, Zenon DEF NearestGiven
  <2> QED BY <2>2, <2>3, <2>4
<1> QED BY <1>7, <1>9 DEF NearestInv

\* What a node announces is all its neighbours.
LEMMA AnnounceTells ==
  ASSUME NearestInv, NEW heard, Announce(heard) PROVE LinesTell(lines)'
<1>1. PICK n : lines' = Append(lines, LsaString(n)) \/ lines' = lines
  BY DEF Announce
<1>2. PICK line : line = LsaString(n)
  OBVIOUS
<1>3. line.neighbors = NeighborsIn(line.sender)
  BY <1>2 DEF LsaString
<1>4. IsSequence(lines) /\ \A i \in DOMAIN lines : lines[i].neighbors = NeighborsIn(lines[i].sender)
  BY DEF NearestInv, LinesTell
<1>5. CASE lines' = Append(lines, line)
  <2>1. IsSequence(lines')
    BY <1>4, <1>5, AppendFacts
  <2>2. ASSUME NEW i \in DOMAIN lines' PROVE lines'[i].neighbors = NeighborsIn(lines'[i].sender)
    <3>1. i = Len(lines) + 1 \/ i \in DOMAIN lines
      BY <1>4, <1>5, AppendFacts
    <3>2. CASE i = Len(lines) + 1
      <4>1. lines'[i] = line
        BY <1>4, <1>5, <3>2, AppendFacts
      <4> QED BY <1>3, <4>1
    <3>3. CASE i \in DOMAIN lines
      <4>1. lines'[i] = lines[i]
        BY <1>4, <1>5, <3>3, AppendFacts
      <4> QED BY <1>4, <3>3, <4>1
    <3> QED BY <3>1, <3>2, <3>3
  <2> QED BY <2>1, <2>2, Zenon DEF LinesTell
<1>6. CASE lines' = lines
  BY <1>4, <1>6, Zenon DEF LinesTell
<1> QED BY <1>1, <1>2, <1>5, <1>6

LEMMA NearestNext ==
  ServersConnected /\ RotationInv /\ MessagesInv /\ NearestInv /\ [Next]_rnsVars => NearestInv'
<1> SUFFICES ASSUME ServersConnected, RotationInv, MessagesInv, NearestInv, [Next]_rnsVars
             PROVE  NearestInv'
  OBVIOUS
<1>1. CASE Serve
  BY <1>1, ServeNearest
<1>2. CASE ~Serve
  <2>1. UNCHANGED <<roundRobin, given>>
    BY <1>2, OthersGive
  <2>2. LinesTell(lines)'
    <3>1. CASE UNCHANGED lines
      BY <3>1, Zenon DEF NearestInv, LinesTell, IsSequence
    <3>2. ASSUME NEW heard, Announce(heard) PROVE LinesTell(lines)'
      BY <3>2, AnnounceTells
    <3>3. UNCHANGED lines \/ \E heard \in BOOLEAN : Announce(heard)
      BY <1>2 DEF Next, rnsVars, Get, TimeOut, Ask, ServeRaises, Stray, Generate, NextRound
    <3> QED BY <3>1, <3>2, <3>3
  <2>3. ASSUME NEW i \in DOMAIN given' PROVE NearestGiven(given[i])'
    <3>1. given'[i] = given[i] /\ NearestGiven(given[i])
      BY <2>1 DEF NearestInv
    <3> QED BY <2>1, <3>1, Zenon DEF NearestGiven
  <2> QED BY <2>2, <2>3 DEF NearestInv
<1> QED BY <1>1, <1>2

\* Without -r, as soon as one end of every link was heard, in whatever round and
\* with whatever losses, every client is sent to a server than which none is
\* nearer, provided that every server can be reached from it.
THEOREM NearestKnownCorrect ==
  ASSUME ServersConnected PROVE Spec => []NearestKnown
<1>1. Init => NearestInv
  BY DEF Init, NearestInv, LinesTell, IsSequence
<1>2. RotationInv /\ MessagesInv /\ NearestInv /\ [Next]_rnsVars => NearestInv'
  BY NearestNext
<1>3. RotationInv /\ NearestInv => NearestKnown
  <2> SUFFICES ASSUME RotationInv, NearestInv, given # <<>> PROVE NearestGiven(Last(given))
    BY Zenon DEF NearestKnown, NearestGiven
  <2>1. Len(given) \in DOMAIN given
    BY DEF RotationInv, IsSequence
  <2> QED BY <2>1 DEF NearestInv, Last
<1> QED BY <1>1, <1>2, <1>3, MessagesInit, MessagesNext, RotationNext, PTL DEF Spec

-----------------------------------------------------------------------------
(* Where the threads are, and whom they are connected to *)

IsServers(address) == \E i \in DOMAIN Servers : address = AddressOf[Servers[i]]

RunFields == {"pc", "rest", "server"}

\* The places from the connection to the web server on.
WithServer == {"choose", "reading", "measure", "load", "store", "log", "close"}

RunOK(t) ==
  t # Free =>
    /\ RunFields \subseteq DOMAIN t
    /\ t.pc \in {"resolve", "asking"} \cup WithServer
    /\ t.pc \in WithServer => IsServers(t.server)
    /\ t.pc = "reading" => t.rest \in Seq(Pieces)

ServersInv ==
  /\ thread = [c \in Clients |-> thread[c]]
  /\ RR_ADDR = NoAddress \/ IsServers(RR_ADDR)
  /\ \A c \in Clients : RunOK(thread[c]) /\ (thread[c].pc = "asking" => client[c].name = VideoName)

\* Every thread that has a connection has it to a server of the file.
ConnectedToServers ==
  /\ RR_ADDR = NoAddress \/ IsServers(RR_ADDR)
  /\ \A c \in Clients : thread[c].pc \in WithServer => IsServers(thread[c].server)

\* How far a thread is from its end: the places that are left, and the turns it
\* may still take where it is.
PhaseOf(t, address) ==
  CASE t.pc = "resolve" /\ address = NoAddress -> 10
    [] t.pc = "asking" -> 9
    [] t.pc = "resolve" /\ address # NoAddress -> 8
    [] t.pc = "choose" -> 7
    [] t.pc = "reading" -> 6
    [] t.pc = "measure" -> 5
    [] t.pc = "load" -> 4
    [] t.pc = "store" -> 3
    [] t.pc = "log" -> 2
    [] t.pc = "close" -> 1
    [] OTHER -> 0

Phase(c) == PhaseOf(thread[c], RR_ADDR)

TurnsLeft(c) ==
  CASE thread[c].pc = "asking" -> client[c].waits
    [] thread[c].pc = "reading" -> Len(thread[c].rest)
    [] OTHER -> 0

Nearer(c) ==
  \/ Phase(c)' < Phase(c)
  \/ Phase(c)' = Phase(c) /\ TurnsLeft(c)' < TurnsLeft(c)

LEMMA Phases ==
  ASSUME NEW t, NEW address
  PROVE  /\ t.pc = "resolve" /\ address = NoAddress => PhaseOf(t, address) = 10
         /\ t.pc = "asking" => PhaseOf(t, address) = 9
         /\ t.pc = "resolve" /\ address # NoAddress => PhaseOf(t, address) = 8
         /\ t.pc = "choose" => PhaseOf(t, address) = 7
         /\ t.pc = "reading" => PhaseOf(t, address) = 6
         /\ t.pc = "measure" => PhaseOf(t, address) = 5
         /\ t.pc = "load" => PhaseOf(t, address) = 4
         /\ t.pc = "store" => PhaseOf(t, address) = 3
         /\ t.pc = "log" => PhaseOf(t, address) = 2
         /\ t.pc = "close" => PhaseOf(t, address) = 1
         /\ t.pc \notin {"resolve", "asking"} \cup WithServer => PhaseOf(t, address) = 0
BY DEF PhaseOf, WithServer

LEMMA PhaseIsANumber == ASSUME NEW t, NEW address PROVE PhaseOf(t, address) \in 0 .. 10
BY Phases DEF WithServer

LEMMA FreeRuns == RunOK(Free) /\ \A address : PhaseOf(Free, address) = 0
BY DEF RunOK, Free, PhaseOf

LEMMA ServersAddress == ASSUME NEW address, IsServers(address) PROVE address # NoAddress
<1>1. PICK i \in DOMAIN Servers : address = AddressOf[Servers[i]]
  BY DEF IsServers
<1>2. address \in [1 .. 4 -> Octets]
  BY <1>1, MessagesAssumption
<1> QED BY <1>2 DEF NoAddress

\* One field changes and the others stay.
LEMMA SetRun ==
  ASSUME NEW t, RunFields \subseteq DOMAIN t, NEW field, NEW value
  PROVE  LET u == Set(t, field, value)
         IN  /\ RunFields \subseteq DOMAIN u
             /\ u.pc = IF field = "pc" THEN value ELSE t.pc
             /\ u.rest = IF field = "rest" THEN value ELSE t.rest
             /\ u.server = IF field = "server" THEN value ELSE t.server
BY SetField DEF RunFields

LEMMA RunPc ==
  ASSUME NEW t, t # Free, RunOK(t), NEW pc \in {"resolve", "asking"} \cup WithServer, pc # "reading",
         pc \in WithServer => t.pc \in WithServer
  PROVE  RunOK(Set(t, "pc", pc)) /\ Set(t, "pc", pc).pc = pc /\ Set(t, "pc", pc) # Free
<1> DEFINE u == Set(t, "pc", pc)
<1>1. RunFields \subseteq DOMAIN u /\ u.pc = pc /\ u.server = t.server
  BY SetRun DEF RunOK
<1> HIDE DEF u
<1>2. RunOK(u) /\ u # Free
  BY <1>1, AtIsNotFree DEF RunOK, WithServer
<1> QED BY <1>1, <1>2 DEF u

LEMMA RunOther ==
  ASSUME NEW t, t # Free, RunOK(t), NEW field, field \notin RunFields, NEW value
  PROVE  LET u == Set(t, field, value)
         IN  RunOK(u) /\ u.pc = t.pc /\ u.rest = t.rest /\ u # Free
<1> DEFINE u == Set(t, field, value)
<1>1. RunFields \subseteq DOMAIN u /\ u.pc = t.pc /\ u.rest = t.rest /\ u.server = t.server
  BY SetRun DEF RunOK, RunFields
<1> HIDE DEF u
<1>2. u # Free
  BY <1>1, AtIsNotFree DEF RunOK, WithServer
<1>3. RunOK(u)
  BY <1>1 DEF RunOK
<1> QED BY <1>1, <1>2, <1>3 DEF u
-----------------------------------------------------------------------------
(* The steps of a thread *)

OthersStay(c) ==
  /\ \A d \in Clients : d # c => client'[d] = client[d]
  /\ RR_ADDR' = RR_ADDR \/ IsServers(RR_ADDR')

Advances(c) ==
  /\ ServersInv' /\ Nearer(c) /\ OthersStay(c)
  /\ \A d \in Clients : d # c => thread'[d] = thread[d]

LEMMA RunGoes ==
  ASSUME ServersInv, NEW c \in Clients, NEW t, Goes(c, t), RunOK(t), OthersStay(c),
         t.pc = "asking" => client'[c].name = VideoName
  PROVE  /\ ServersInv' /\ thread'[c] = t
         /\ \A d \in Clients : d # c => thread'[d] = thread[d]
<1>1. thread' = [d \in Clients |-> IF d = c THEN t ELSE thread[d]]
  BY DEF ServersInv, Goes
<1>2. thread'[c] = t /\ \A d \in Clients : d # c => thread'[d] = thread[d]
  BY <1>1
<1>3. thread' = [d \in Clients |-> thread'[d]]
  BY <1>1
<1>4. RR_ADDR' = NoAddress \/ IsServers(RR_ADDR')
  BY DEF ServersInv, OthersStay
<1>5. ASSUME NEW d \in Clients PROVE RunOK(thread'[d]) /\ (thread'[d].pc = "asking" => client'[d].name = VideoName)
  <2>1. CASE d = c
    BY <1>2, <2>1
  <2>2. CASE d # c
    BY <1>2, <2>2 DEF ServersInv, OthersStay
  <2> QED BY <2>1, <2>2
<1>6. ServersInv'
  BY <1>3, <1>4, <1>5, Zenon DEF ServersInv, RunOK, IsServers
<1> QED BY <1>2, <1>6

LEMMA GoesNearer ==
  ASSUME ServersInv, NEW c \in Clients, NEW t, Goes(c, t), RunOK(t), OthersStay(c),
         t.pc = "asking" => client'[c].name = VideoName,
         PhaseOf(t, RR_ADDR') < PhaseOf(thread[c], RR_ADDR)
  PROVE  Advances(c)
<1>1. /\ ServersInv' /\ thread'[c] = t
      /\ \A d \in Clients : d # c => thread'[d] = thread[d]
  BY RunGoes
<1>2. Phase(c)' < Phase(c)
  BY <1>1 DEF Phase, PhaseOf
<1> QED BY <1>1, <1>2 DEF Advances, Nearer

\* A thread that is anywhere has somewhere to go.
LEMMA RunningThread ==
  ASSUME ServersInv, NEW c \in Clients, thread[c].pc # "free"
  PROVE  thread[c] # Free /\ RunOK(thread[c]) /\ PhaseOf(thread[c], RR_ADDR) > 0
<1>1. thread[c] # Free /\ RunOK(thread[c])
  BY AtIsNotFree DEF ServersInv
<1>2. thread[c].pc \in {"resolve", "asking"} \cup WithServer
  BY <1>1 DEF RunOK
<1> QED BY <1>1, <1>2, Phases DEF WithServer

LEMMA DiesNearer ==
  ASSUME ServersInv, NEW c \in Clients, thread[c].pc # "free", Dies(c), OthersStay(c)
  PROVE  Advances(c)
<1>1. PhaseOf(thread[c], RR_ADDR) > 0 /\ PhaseOf(Free, RR_ADDR') = 0
  BY RunningThread, FreeRuns
<1>2. RunOK(Free) /\ Free.pc # "asking"
  BY FreeRuns DEF Free
<1>3. Goes(c, Free)
  BY DEF Dies
<1>4. PhaseOf(Free, RR_ADDR') < PhaseOf(thread[c], RR_ADDR)
  BY <1>1
<1> QED BY <1>2, <1>3, <1>4, GoesNearer

LEMMA StillThere == ASSUME UNCHANGED <<RR_ADDR, client>>, NEW c PROVE OthersStay(c)
BY DEF OthersStay

LEMMA ResolveAdvances ==
  ASSUME MessagesInv, ServersInv, VideoName \in ShortNames, NEW c \in Clients, Resolve(c)
  PROVE  Advances(c)
<1> DEFINE t == Set(thread[c], "pc", "asking")
           new == [waits |-> Selects, asked |-> client[c].asked + 1, name |-> VideoName, answer |-> NoAnswer]
<1>1. thread[c].pc = "resolve" /\ RR_ADDR = NoAddress /\ UNCHANGED RR_ADDR /\ Goes(c, t)
  BY DEF Resolve, Set
<1>2. client' = [client EXCEPT ![c] = new] /\ client = [d \in Clients |-> client[d]]
  BY DEF Resolve, Ask, MessagesInv
<1>3. new.name = VideoName
  OBVIOUS
<1> HIDE DEF new
<1>4. client'[c].name = VideoName /\ \A d \in Clients : d # c => client'[d] = client[d]
  BY <1>2, <1>3
<1>5. RunOK(t) /\ t.pc = "asking"
  BY <1>1, RunningThread, RunPc DEF WithServer
<1> HIDE DEF t
<1>6. PhaseOf(t, RR_ADDR') = 9 /\ PhaseOf(thread[c], RR_ADDR) = 10
  BY <1>1, <1>5, Phases
<1> QED BY <1>1, <1>4, <1>5, <1>6, GoesNearer DEF OthersStay

LEMMA ResolvedAdvances ==
  ASSUME MessagesInv, ServersInv, WellFormed(VideoName), NEW c \in Clients, Resolved(c)
  PROVE  Advances(c)
<1>1. thread[c].pc = "asking" /\ Get(c) /\ Waiting(c)
  BY DEF Resolved, Get
<1>2. PICK reply \in RepliesTo(c) :
        client' = [client EXCEPT ![c] = [waits |-> 0, asked |-> client[c].asked, name |-> client[c].name,
                                         answer |-> ParseMessage(reply.data, FALSE)]]
  BY <1>1, GetTakes
<1> DEFINE message == ParseMessage(reply.data, FALSE)
           new == [waits |-> 0, asked |-> client[c].asked, name |-> client[c].name, answer |-> message]
<1>3. new.answer = message /\ client' = [client EXCEPT ![c] = new] /\ client = [d \in Clients |-> client[d]]
  BY <1>2 DEF MessagesInv
<1>4. WellFormed(client[c].name)
  BY <1>1 DEF ServersInv
<1>5. message # Raised /\ IsServers(message.record.address)
  BY <1>1, <1>4, AnswerRead DEF IsServers
<1> HIDE DEF new, message
<1>6. client'[c].answer = message /\ \A d \in Clients : d # c => client'[d] = client[d]
  BY <1>3
<1> DEFINE t == Set(thread[c], "pc", "resolve")
<1>7. RR_ADDR' = message.record.address /\ Goes(c, t)
  BY <1>5, <1>6 DEF Resolved, Set
<1>8. IsServers(RR_ADDR') /\ RR_ADDR' # NoAddress
  BY <1>5, <1>7, ServersAddress
<1>9. RunOK(t) /\ t.pc = "resolve"
  BY <1>1, RunningThread, RunPc DEF WithServer
<1> HIDE DEF t
<1>10. PhaseOf(t, RR_ADDR') = 8 /\ PhaseOf(thread[c], RR_ADDR) = 9
  BY <1>1, <1>8, <1>9, Phases
<1>11. OthersStay(c)
  BY <1>6, <1>8 DEF OthersStay
<1>12. PhaseOf(t, RR_ADDR') < PhaseOf(thread[c], RR_ADDR)
  BY <1>10
<1> QED BY <1>7, <1>9, <1>11, <1>12, GoesNearer

LEMMA NotResolvedAdvances ==
  ASSUME MessagesInv, ServersInv, NEW c \in Clients, NotResolved(c)
  PROVE  Advances(c)
<1> DEFINE new == [waits |-> client[c].waits - 1, asked |-> client[c].asked,
                   name |-> client[c].name, answer |-> client[c].answer]
<1>1. thread[c].pc = "asking" /\ TimeOut(c) /\ UNCHANGED RR_ADDR
  BY DEF NotResolved
<1>2. client' = [client EXCEPT ![c] = new] /\ client = [d \in Clients |-> client[d]]
  BY <1>1, TimeOutTakes DEF MessagesInv
<1>3. new.waits = client[c].waits - 1 /\ new.name = client[c].name
  OBVIOUS
<1> HIDE DEF new
<1>4. client'[c] = new /\ \A d \in Clients : d # c => client'[d] = client[d]
  BY <1>2
<1>5. OthersStay(c)
  BY <1>1, <1>4 DEF OthersStay
<1>6. Dies(c) \/ UNCHANGED thread
  BY DEF NotResolved
<1>7. CASE UNCHANGED thread
  <2>1. ServersInv'
    <3>1. client'[c].name = client[c].name
      BY <1>3, <1>4
    <3>2. \A d \in Clients : client'[d].name = client[d].name
      BY <1>4, <3>1
    <3> QED BY <1>1, <1>7, <3>2, Zenon DEF ServersInv, RunOK, IsServers
  <2>2. Phase(c)' = Phase(c)
    BY <1>1, <1>7 DEF Phase, PhaseOf
  <2>3. TurnsLeft(c)' = client[c].waits - 1 /\ TurnsLeft(c) = client[c].waits
    BY <1>1, <1>3, <1>4, <1>7 DEF TurnsLeft
  <2>4. client[c].waits \in Nat
    BY DEF MessagesInv, ClientOK
  <2>5. TurnsLeft(c)' < TurnsLeft(c)
    BY <2>3, <2>4
  <2> QED BY <1>5, <1>7, <2>1, <2>2, <2>5 DEF Advances, Nearer
<1> QED BY <1>1, <1>5, <1>6, <1>7, DiesNearer

LEMMA ConnectAdvances ==
  ASSUME ServersInv, NEW c \in Clients, Connect(c)
  PROVE  Advances(c)
<1> DEFINE u == Set(thread[c], "pc", "choose")
           t == Set(u, "server", RR_ADDR)
<1>1. thread[c].pc = "resolve" /\ RR_ADDR # NoAddress /\ UNCHANGED <<RR_ADDR, client>>
  BY DEF Connect, rnsVars
<1>2. Dies(c) \/ Goes(c, t)
  BY Zenon DEF Connect, Set
<1>3. RunFields \subseteq DOMAIN thread[c]
  BY <1>1, RunningThread DEF RunOK
<1>4. RunFields \subseteq DOMAIN u /\ u.pc = "choose"
  BY <1>3, SetRun
<1> HIDE DEF u
<1>5. RunFields \subseteq DOMAIN t /\ t.pc = "choose" /\ t.server = RR_ADDR
  BY <1>4, SetRun
<1> HIDE DEF t
<1>6. RunOK(t)
  BY <1>1, <1>5 DEF RunOK, ServersInv, WithServer
<1>7. PhaseOf(t, RR_ADDR') = 7 /\ PhaseOf(thread[c], RR_ADDR) = 8
  BY <1>1, <1>5, Phases
<1>8. OthersStay(c)
  BY <1>1, StillThere
<1>9. PhaseOf(t, RR_ADDR') < PhaseOf(thread[c], RR_ADDR)
  BY <1>7
<1>10. Goes(c, t) => Advances(c)
  BY <1>5, <1>6, <1>8, <1>9, GoesNearer
<1> QED BY <1>1, <1>2, <1>8, <1>10, DiesNearer

LEMMA ChooseAdvances ==
  ASSUME ServersInv, NEW c \in Clients, Choose(c)
  PROVE  Advances(c)
<1>1. thread[c].pc = "choose" /\ UNCHANGED <<RR_ADDR, client>>
  BY DEF Choose, rnsVars
<1>2. PICK answer \in WebAnswers :
        Goes(c, [thread[c] EXCEPT !.pc = "reading", !.chunk = getBR, !.rest = answer,
                                  !.whole = answer[1].after # Nothing])
  BY Zenon DEF Choose
<1> DEFINE w == answer[1].after # Nothing
           u1 == Set(thread[c], "pc", "reading")
           u2 == Set(u1, "chunk", getBR)
           u3 == Set(u2, "rest", answer)
           t == Set(u3, "whole", w)
<1>3. Goes(c, t)
  BY <1>2, Zenon DEF Set
<1>4. RunFields \subseteq DOMAIN thread[c] /\ IsServers(thread[c].server)
  BY <1>1, RunningThread DEF RunOK, WithServer
<1> HIDE DEF w
<1>5. RunFields \subseteq DOMAIN u1 /\ u1.pc = "reading" /\ u1.server = thread[c].server
  BY <1>4, SetRun
<1> HIDE DEF u1
<1>6. RunFields \subseteq DOMAIN u2 /\ u2.pc = "reading" /\ u2.server = thread[c].server
  BY <1>5, SetRun
<1> HIDE DEF u2
<1>7. RunFields \subseteq DOMAIN u3 /\ u3.pc = "reading" /\ u3.server = thread[c].server /\ u3.rest = answer
  BY <1>6, SetRun
<1> HIDE DEF u3
<1>8. RunFields \subseteq DOMAIN t /\ t.pc = "reading" /\ t.server = thread[c].server /\ t.rest = answer
  BY <1>7, SetRun
<1> HIDE DEF t
<1>9. RunOK(t)
  BY <1>4, <1>8, AnswerPieces DEF RunOK, WithServer
<1>10. PhaseOf(t, RR_ADDR') < PhaseOf(thread[c], RR_ADDR)
  <2>1. PhaseOf(t, RR_ADDR') = 6 /\ PhaseOf(thread[c], RR_ADDR) = 7
    BY <1>1, <1>8, Phases
  <2> QED BY <2>1
<1> QED BY <1>1, <1>3, <1>8, <1>9, <1>10, StillThere, GoesNearer

LEMMA AfterReadRuns ==
  ASSUME NEW t, t # Free, RunOK(t), t.pc \in WithServer, NEW address
  PROVE  RunOK(AfterRead(t)) /\ PhaseOf(AfterRead(t), address) \in {0, 5} /\ AfterRead(t).pc # "asking"
<1> DEFINE u == Set(t, "pc", "measure")
<1>1. RunOK(u) /\ u.pc = "measure"
  BY RunPc DEF WithServer
<1>2. PhaseOf(u, address) = 5
  <2> HIDE DEF u
  <2> QED BY <1>1, Phases
<1>3. AfterRead(t) = u \/ AfterRead(t) = Free
  BY Zenon DEF AfterRead, Set
<1>4. Free.pc # "asking"
  BY DEF Free
<1> HIDE DEF u
<1> QED BY <1>1, <1>2, <1>3, <1>4, FreeRuns

\* A piece is taken from the answer, or the loop ends.
LEMMA RelayedRuns ==
  ASSUME NEW t, t # Free, RunOK(t), t.pc = "reading", t.rest # <<>>, NEW address
  PROVE  LET u == Relayed(t, Head(t.rest))
         IN  /\ RunOK(u) /\ u.pc # "asking"
             /\ \/ PhaseOf(u, address) \in {0, 5}
                \/ u.pc = "reading" /\ u.rest = Tail(t.rest)
<1> DEFINE piece == Head(t.rest)
           yes == TRUE
           t1 == Set(t, "rest", Tail(t.rest))
           t2 == Set(t1, "cl", ContentLength(t, piece))
           next == Set(t2, "left", Left(t, piece))
           done == Set(next, "counted", yes)
           begun == Set(next, "left", BodyLeft(t, piece))
<1>1. Relayed(t, piece) =
        IF t.left # 0 /\ next.left <= 0 THEN AfterRead(done)
        ELSE IF piece.after = Nothing THEN next
        ELSE IF next.cl < 0 THEN Free
        ELSE begun
  BY Zenon DEF Relayed, Set
<1>2. RunFields \subseteq DOMAIN t /\ t.rest \in Seq(Pieces) /\ t.pc \in WithServer
  BY DEF RunOK, WithServer
<1>3. Tail(t.rest) \in Seq(Pieces)
  BY <1>2, HeadTailProperties
<1>4. /\ "cl" \notin RunFields /\ "left" \notin RunFields /\ "counted" \notin RunFields
  BY DEF RunFields
<1>5. t1 # Free /\ RunOK(t1) /\ t1.pc = "reading" /\ t1.rest = Tail(t.rest)
  <2>1. /\ RunFields \subseteq DOMAIN t1 /\ t1.pc = "reading" /\ t1.rest = Tail(t.rest) /\ t1.server = t.server
    BY <1>2, SetRun
  <2> HIDE DEF t1
  <2> QED BY <1>2, <1>3, <2>1, AtIsNotFree DEF RunOK
<1> HIDE DEF t1
<1>6. t2 # Free /\ RunOK(t2) /\ t2.pc = "reading" /\ t2.rest = Tail(t.rest)
  BY <1>4, <1>5, RunOther
<1> HIDE DEF t2
<1>7. next # Free /\ RunOK(next) /\ next.pc = "reading" /\ next.rest = Tail(t.rest)
  BY <1>4, <1>6, RunOther
<1> HIDE DEF next, yes
<1>8. done # Free /\ RunOK(done) /\ done.pc = "reading"
  BY <1>4, <1>7, RunOther
<1>9. begun # Free /\ RunOK(begun) /\ begun.pc = "reading" /\ begun.rest = Tail(t.rest)
  BY <1>4, <1>7, RunOther
<1> HIDE DEF done, begun, piece
<1>10. RunOK(AfterRead(done)) /\ PhaseOf(AfterRead(done), address) \in {0, 5} /\ AfterRead(done).pc # "asking"
  BY <1>8, AfterReadRuns DEF WithServer
<1>11. RunOK(Free) /\ PhaseOf(Free, address) = 0 /\ Free.pc # "asking"
  BY FreeRuns DEF Free
<1>12. Relayed(t, piece) \in {AfterRead(done), next, Free, begun}
  BY <1>1, Zenon
<1> QED BY <1>7, <1>9, <1>10, <1>11, <1>12 DEF piece

LEMMA ReadAdvances ==
  ASSUME ServersInv, NEW c \in Clients, ReadPiece(c) \/ ReadNothing(c) \/ Released(c)
  PROVE  Advances(c)
<1> DEFINE old == thread[c]
           free == Unheld(old)
           t == Relayed(free, Head(old.rest))
<1>1. old.pc = "reading" /\ UNCHANGED <<RR_ADDR, client>>
  BY ReadCases DEF InLoop, Outside, rnsVars
<1>2. \/ Dies(c)
      \/ old.rest # <<>> /\ Goes(c, t)
      \/ Goes(c, AfterRead(old))
  BY Zenon DEF ReadPiece, ReadNothing, Released, Relays, Quiet
<1>3. old # Free /\ RunOK(old) /\ PhaseOf(old, RR_ADDR) = 6
  BY <1>1, RunningThread, Phases
<1>4. OthersStay(c)
  BY <1>1, StillThere
<1>5. CASE Goes(c, AfterRead(old))
  <2>1. RunOK(AfterRead(old)) /\ PhaseOf(AfterRead(old), RR_ADDR') \in {0, 5} /\ AfterRead(old).pc # "asking"
    BY <1>1, <1>3, AfterReadRuns DEF WithServer
  <2>2. PhaseOf(AfterRead(old), RR_ADDR') < PhaseOf(old, RR_ADDR)
    BY <1>3, <2>1
  <2> QED BY <1>4, <1>5, <2>1, <2>2, GoesNearer
<1>6. CASE old.rest # <<>> /\ Goes(c, t)
  <2>0. free # Free /\ RunOK(free) /\ free.pc = "reading" /\ free.rest = old.rest
    <3>1. PICK held : free = Set(old, "held", held)
      BY UnheldSet
    <3> HIDE DEF free, old
    <3> QED BY <1>1, <1>3, <3>1, RunOther DEF RunFields, old
  <2> HIDE DEF free
  <2>1. /\ RunOK(t) /\ t.pc # "asking"
        /\ PhaseOf(t, RR_ADDR') \in {0, 5} \/ (t.pc = "reading" /\ t.rest = Tail(old.rest))
    BY <1>6, <2>0, RelayedRuns
  <2> HIDE DEF t
  <2>2. CASE PhaseOf(t, RR_ADDR') \in {0, 5}
    <3>1. PhaseOf(t, RR_ADDR') < PhaseOf(old, RR_ADDR)
      BY <1>3, <2>2
    <3> QED BY <1>4, <1>6, <2>1, <3>1, GoesNearer
  <2>3. CASE t.pc = "reading" /\ t.rest = Tail(old.rest)
    <3>1. /\ ServersInv' /\ thread'[c] = t
          /\ \A d \in Clients : d # c => thread'[d] = thread[d]
      BY <1>4, <1>6, <2>1, RunGoes
    <3>2. Phase(c)' = Phase(c)
      <4>1. Phase(c)' = PhaseOf(t, RR_ADDR')
        BY <3>1 DEF Phase, PhaseOf
      <4>2. PhaseOf(t, RR_ADDR') = 6
        BY <2>3, Phases
      <4> QED BY <1>3, <4>1, <4>2 DEF Phase
    <3>3. old.rest \in Seq(Pieces)
      BY <1>1, <1>3 DEF RunOK
    <3>4. Len(Tail(old.rest)) = Len(old.rest) - 1 /\ Len(old.rest) \in Nat
      BY <1>6, <3>3, HeadTailProperties
    <3>5. TurnsLeft(c) = Len(old.rest) /\ TurnsLeft(c)' = Len(Tail(old.rest))
      BY <1>1, <2>3, <3>1 DEF TurnsLeft
    <3>6. TurnsLeft(c)' < TurnsLeft(c)
      BY <3>4, <3>5
    <3> QED BY <1>4, <3>1, <3>2, <3>6 DEF Advances, Nearer
  <2> QED BY <2>1, <2>2, <2>3
<1> QED BY <1>1, <1>2, <1>4, <1>5, <1>6, DiesNearer

\* A browser that does not read leaves the thread where it is, and a server that
\* sends more gives it one more piece to read.
LEMMA OutsideStays ==
  ASSUME ServersInv, NEW c \in Clients, SendBlocks(c) \/ Trickle(c)
  PROVE  /\ ServersInv' /\ UNCHANGED <<RR_ADDR, client>>
         /\ \A d \in Clients : d # c => thread'[d] = thread[d]
         /\ SendBlocks(c) => thread'[c].pc = thread[c].pc /\ thread'[c].rest = thread[c].rest
<1>1. thread[c].pc = "reading" /\ UNCHANGED <<RR_ADDR, client>>
  BY ReadCases DEF InLoop, Outside, rnsVars
<1>2. thread[c] # Free /\ RunOK(thread[c])
  BY <1>1, RunningThread
<1>3. OthersStay(c)
  BY <1>1, StillThere
<1>4. CASE SendBlocks(c)
  <2> DEFINE yes == TRUE
             t == Set(thread[c], "held", yes)
  <2>1. Goes(c, t)
    BY <1>4, Zenon DEF SendBlocks, Set
  <2> HIDE DEF yes
  <2>2. RunOK(t) /\ t.pc = thread[c].pc /\ t.rest = thread[c].rest
    BY <1>2, RunOther DEF RunFields
  <2> HIDE DEF t
  <2> QED BY <1>1, <1>3, <2>1, <2>2, RunGoes
<1>5. CASE Trickle(c)
  <2> DEFINE t == Set(thread[c], "rest", <<Byte>>)
  <2>1. Goes(c, t)
    BY <1>5, Zenon DEF Trickle, Set
  <2>2. RunFields \subseteq DOMAIN t /\ t.pc = "reading" /\ t.rest = <<Byte>> /\ t.server = thread[c].server
    BY <1>1, <1>2, SetRun DEF RunOK
  <2>3. <<Byte>> \in Seq(Pieces)
    BY DEF Byte, Pieces, Nothing
  <2> HIDE DEF t
  <2>4. RunOK(t)
    BY <1>1, <1>2, <2>2, <2>3 DEF RunOK, WithServer
  <2>5. ~SendBlocks(c)
    BY <1>5 DEF SendBlocks, Trickle
  <2> QED BY <1>1, <1>3, <2>1, <2>2, <2>4, <2>5, RunGoes
<1> QED BY <1>4, <1>5

\* Everywhere behind the loop a thread goes on to the next place.
LEMMA PlaceNearer ==
  ASSUME ServersInv, NEW c \in Clients, NEW t, Goes(c, t), UNCHANGED <<RR_ADDR, client>>,
         RunOK(t), t.pc # "asking", PhaseOf(t, RR_ADDR) < PhaseOf(thread[c], RR_ADDR)
  PROVE  Advances(c)
BY GoesNearer, StillThere

LEMMA MeasureAdvances == ASSUME ServersInv, NEW c \in Clients, Measure(c) PROVE Advances(c)
<1>1. thread[c].pc = "measure" /\ UNCHANGED <<RR_ADDR, client>>
  BY DEF Measure, rnsVars
<1>2. thread[c] # Free /\ RunOK(thread[c]) /\ PhaseOf(thread[c], RR_ADDR) = 5
  BY <1>1, RunningThread, Phases
<1>3. ASSUME NEW rate,
             Goes(c, [thread[c] EXCEPT !.pc = "load", !.rate = rate, !.b = getBR,
                                       !.rest = <<>>, !.cl = 0, !.left = 0])
      PROVE  Advances(c)
  <2> DEFINE u1 == Set(thread[c], "pc", "load")
             u2 == Set(u1, "rate", rate)
             u3 == Set(u2, "b", getBR)
             u4 == Set(u3, "rest", <<>>)
             u5 == Set(u4, "cl", 0)
             t == Set(u5, "left", 0)
  <2>1. Goes(c, t)
    BY <1>3, Zenon DEF Set
  <2>2. u1 # Free /\ RunOK(u1) /\ u1.pc = "load"
    BY <1>1, <1>2, RunPc DEF WithServer
  <2>3. {"rate", "b", "cl", "left"} \cap RunFields = {}
    BY DEF RunFields
  <2> HIDE DEF u1
  <2>4. u2 # Free /\ RunOK(u2) /\ u2.pc = "load"
    BY <2>2, <2>3, RunOther
  <2> HIDE DEF u2
  <2>5. u3 # Free /\ RunOK(u3) /\ u3.pc = "load"
    BY <2>3, <2>4, RunOther
  <2> HIDE DEF u3
  <2>6. u4 # Free /\ RunOK(u4) /\ u4.pc = "load"
    <3>1. RunFields \subseteq DOMAIN u4 /\ u4.pc = "load" /\ u4.server = u3.server
      BY <2>5, SetRun DEF RunOK
    <3> HIDE DEF u4
    <3> QED BY <2>5, <3>1, AtIsNotFree DEF RunOK, WithServer
  <2> HIDE DEF u4
  <2>7. u5 # Free /\ RunOK(u5) /\ u5.pc = "load"
    BY <2>3, <2>6, RunOther
  <2> HIDE DEF u5
  <2>8. t # Free /\ RunOK(t) /\ t.pc = "load"
    BY <2>3, <2>7, RunOther
  <2> HIDE DEF t
  <2>9. PhaseOf(t, RR_ADDR) < PhaseOf(thread[c], RR_ADDR)
    <3>1. PhaseOf(t, RR_ADDR) = 4
      BY <2>8, Phases
    <3> QED BY <1>2, <3>1
  <2> QED BY <1>1, <2>1, <2>8, <2>9, PlaceNearer
<1>4. Dies(c) \/ \E rate \in Rates :
        Goes(c, [thread[c] EXCEPT !.pc = "load", !.rate = rate, !.b = getBR,
                                  !.rest = <<>>, !.cl = 0, !.left = 0])
  BY Zenon DEF Measure
<1> QED BY <1>1, <1>3, <1>4, DiesNearer, StillThere

\* Load, Store and WriteLog go on and write one other field.
LEMMA GoesOnAdvances ==
  ASSUME ServersInv, NEW c \in Clients, UNCHANGED <<RR_ADDR, client>>, NEW pc, NEW field \in {"read", "line"}, NEW value,
         \/ thread[c].pc = "load" /\ pc = "store"
         \/ thread[c].pc = "store" /\ pc = "log"
         \/ thread[c].pc = "log" /\ pc = "close",
         Goes(c, Set(Set(thread[c], "pc", pc), field, value))
  PROVE  Advances(c)
<1> DEFINE u == Set(thread[c], "pc", pc)
           t == Set(u, field, value)
<1>1. thread[c] # Free /\ RunOK(thread[c]) /\ field \notin RunFields
  BY RunningThread DEF RunFields
<1>2. u # Free /\ RunOK(u) /\ u.pc = pc
  BY <1>1, RunPc DEF WithServer
<1> HIDE DEF u
<1>3. RunOK(t) /\ t.pc = pc
  BY <1>1, <1>2, RunOther
<1>4. Goes(c, t)
  BY DEF u
<1> HIDE DEF t
<1>5. PhaseOf(t, RR_ADDR) < PhaseOf(thread[c], RR_ADDR)
  <2>1. \/ PhaseOf(thread[c], RR_ADDR) = 4 /\ PhaseOf(t, RR_ADDR) = 3
        \/ PhaseOf(thread[c], RR_ADDR) = 3 /\ PhaseOf(t, RR_ADDR) = 2
        \/ PhaseOf(thread[c], RR_ADDR) = 2 /\ PhaseOf(t, RR_ADDR) = 1
    BY <1>3, Phases
  <2> QED BY <2>1
<1> QED BY <1>3, <1>4, <1>5, PlaceNearer

LEMMA UpdatesAdvance ==
  ASSUME ServersInv, NEW c \in Clients, Load(c) \/ Store(c) \/ WriteLog(c) \/ Close(c)
  PROVE  Advances(c)
<1>1. UNCHANGED <<RR_ADDR, client>>
  BY DEF Load, Store, WriteLog, Close, rnsVars
<1>2. CASE Load(c)
  <2>1. Goes(c, Set(Set(thread[c], "pc", "store"), "read", AVG)) /\ thread[c].pc = "load"
    BY <1>2, Zenon DEF Load, Set
  <2> QED BY <1>1, <2>1, GoesOnAdvances
<1>3. CASE Store(c)
  <2>1. Goes(c, Set(Set(thread[c], "pc", "log"), "read", 0)) /\ thread[c].pc = "store"
    BY <1>3, Zenon DEF Store, Set
  <2> QED BY <1>1, <2>1, GoesOnAdvances
<1>4. CASE WriteLog(c)
  <2>1. Goes(c, Set(Set(thread[c], "pc", "close"), "line", LogLine(c))) /\ thread[c].pc = "log"
    BY <1>4, Zenon DEF WriteLog, Set
  <2> QED BY <1>1, <2>1, GoesOnAdvances
<1>5. CASE Close(c)
  <2>1. Dies(c) /\ thread[c].pc = "close"
    BY <1>5 DEF Close, Dies
  <2> QED BY <1>1, <2>1, DiesNearer, StillThere
<1> QED BY <1>2, <1>3, <1>4, <1>5

LEMMA ThreadAdvances ==
  ASSUME MessagesInv, ServersInv, VideoName \in ShortNames, WellFormed(VideoName),
         NEW c \in Clients, ThreadStep(c) \/ Resolved(c) \/ Released(c)
  PROVE  Advances(c)
BY ResolveAdvances, ResolvedAdvances, NotResolvedAdvances, ConnectAdvances, ChooseAdvances, ReadAdvances,
   MeasureAdvances, UpdatesAdvance DEF ThreadStep

\* A connection that is accepted makes the other threads be no longer alone.
LEMMA AcceptRuns ==
  ASSUME ServersInv, NEW c \in Clients, Accept(c)
  PROVE  /\ ServersInv' /\ thread[c] = Free /\ UNCHANGED <<RR_ADDR, client>>
         /\ \A d \in Clients : thread[d] # Free => thread'[d].pc = thread[d].pc /\ thread'[d].rest = thread[d].rest
<1>1. PICK isSeg \in BOOLEAN :
        thread' = [d \in Clients |->
          IF d = c THEN NewThread(isSeg, \A e \in Clients : thread[e] = Free)
          ELSE IF thread[d] = Free THEN Free ELSE [thread[d] EXCEPT !.alone = FALSE, !.before = 0]]
  BY DEF Accept
<1>2. thread[c] = Free /\ UNCHANGED <<RR_ADDR, client>>
  BY DEF Accept, rnsVars
<1>3. ASSUME NEW p PROVE RunOK(NewThread(isSeg, p)) /\ NewThread(isSeg, p).pc = "resolve"
  BY DEF NewThread, RunOK, RunFields, WithServer
<1>4. ASSUME NEW d \in Clients, thread[d] # Free
      PROVE  LET u == [thread[d] EXCEPT !.alone = FALSE, !.before = 0]
             IN  RunOK(u) /\ u.pc = thread[d].pc /\ u.rest = thread[d].rest
  <2> DEFINE no == FALSE
             u == Set(thread[d], "alone", no)
             v == Set(u, "before", 0)
  <2>1. v = [thread[d] EXCEPT !.alone = FALSE, !.before = 0]
    BY Zenon DEF Set
  <2>2. "alone" \notin RunFields /\ "before" \notin RunFields
    BY DEF RunFields
  <2> HIDE DEF no
  <2>3. u # Free /\ RunOK(u) /\ u.pc = thread[d].pc /\ u.rest = thread[d].rest
    BY <1>4, <2>2, RunOther DEF ServersInv
  <2> HIDE DEF u
  <2>4. RunOK(v) /\ v.pc = thread[d].pc /\ v.rest = thread[d].rest
    BY <2>2, <2>3, RunOther
  <2> HIDE DEF v
  <2> QED BY <2>1, <2>4, Zenon
<1>5. thread' = [d \in Clients |-> thread'[d]]
  BY <1>1
<1>6. ASSUME NEW d \in Clients PROVE RunOK(thread'[d]) /\ (thread'[d].pc = "asking" => client'[d].name = VideoName)
  <2>1. CASE d = c
    <3>1. thread'[d] = NewThread(isSeg, \A e \in Clients : thread[e] = Free)
      BY <1>1, <2>1
    <3> QED BY <1>3, <3>1
  <2>2. CASE d # c /\ thread[d] = Free
    <3>1. thread'[d] = Free
      BY <1>1, <2>2
    <3> QED BY <3>1, FreeRuns DEF Free
  <2>3. CASE d # c /\ thread[d] # Free
    <3>1. thread'[d] = [thread[d] EXCEPT !.alone = FALSE, !.before = 0]
      BY <1>1, <2>3
    <3> QED BY <1>2, <1>4, <2>3, <3>1 DEF ServersInv
  <2> QED BY <2>1, <2>2, <2>3
<1>7. ServersInv'
  BY <1>2, <1>5, <1>6, Zenon DEF ServersInv, RunOK, IsServers
<1>8. ASSUME NEW d \in Clients, thread[d] # Free
      PROVE  thread'[d].pc = thread[d].pc /\ thread'[d].rest = thread[d].rest
  <2>1. thread'[d] = [thread[d] EXCEPT !.alone = FALSE, !.before = 0]
    BY <1>1, <1>2, <1>8
  <2> QED BY <1>4, <1>8, <2>1
<1> QED BY <1>2, <1>7, <1>8

\* Another thread may find an address meanwhile, which only helps.
LEMMA OtherNearer ==
  ASSUME NEW d \in Clients, thread'[d].pc = thread[d].pc, thread'[d].rest = thread[d].rest,
         client'[d] = client[d], RR_ADDR' = RR_ADDR \/ IsServers(RR_ADDR')
  PROVE  Nearer(d) \/ UNCHANGED <<Phase(d), TurnsLeft(d)>>
<1>1. UNCHANGED TurnsLeft(d)
  BY DEF TurnsLeft
<1>2. CASE RR_ADDR' = RR_ADDR
  <2>1. UNCHANGED Phase(d)
    BY <1>2 DEF Phase, PhaseOf
  <2> QED BY <1>1, <2>1
<1>3. CASE RR_ADDR' # NoAddress
  <2>1. CASE thread[d].pc = "resolve" /\ RR_ADDR = NoAddress
    <3>1. Phase(d) = 10
      BY <2>1, Phases DEF Phase
    <3>2. Phase(d)' = 8
      BY <1>3, <2>1 DEF Phase, PhaseOf
    <3> QED BY <3>1, <3>2 DEF Nearer
  <2>2. CASE ~(thread[d].pc = "resolve" /\ RR_ADDR = NoAddress)
    <3>1. UNCHANGED Phase(d)
      BY <1>3, <2>2 DEF Phase, PhaseOf
    <3> QED BY <1>1, <3>1
  <2> QED BY <2>1, <2>2
<1> QED BY <1>2, <1>3, ServersAddress

LEMMA ServesKeeps ==
  ASSUME ServersInv, Serve, UNCHANGED proxyVars
  PROVE  ServersInv' /\ UNCHANGED <<thread, client, RR_ADDR>>
<1>1. UNCHANGED <<thread, client, RR_ADDR>>
  BY DEF Serve, proxyVars
<1> QED BY <1>1, Zenon DEF ServersInv, RunOK, IsServers

\* The name server sees of the proxy what it sees of any clients.
LEMMA MessagesOfThreads ==
  ASSUME RotationInv, MessagesInv, VideoName \in ShortNames, [ProxyNext]_<<rnsVars, proxyVars>>
  PROVE  RotationInv' /\ MessagesInv'
<1>1. CASE Serve
  BY <1>1, ServeRotates, ServeUnderstood
<1>2. CASE UNCHANGED rnsVars
  <2>1. [Next]_rnsVars
    BY <1>2
  <2> QED BY <2>1, RotationNext, MessagesNext
<1>3. ASSUME NEW c \in Clients, Ask(c, VideoName) \/ Get(c) \/ TimeOut(c) PROVE RotationInv' /\ MessagesInv'
  <2>1. MessagesInv'
    BY <1>3, AskUnderstood, GetUnderstood, TimeOutUnderstood
  <2>2. UNCHANGED <<roundRobin, server, given>>
    BY <1>3 DEF Ask, Get, TimeOut
  <2> QED BY <2>1, <2>2 DEF RotationInv, IsSequence
<1>4. \/ Serve \/ UNCHANGED rnsVars
      \/ \E c \in Clients : Ask(c, VideoName) \/ Get(c) \/ TimeOut(c)
  <2>1. ASSUME NEW c \in Clients, InLoop(c) PROVE UNCHANGED rnsVars
    BY <2>1, ReadCases
  <2> QED BY <2>1, Zenon DEF ProxyNext, Accept, ThreadStep, Resolve, Resolved, NotResolved, Connect, Choose,
                             InLoop, Measure, Load, Store, WriteLog, Close
<1> QED BY <1>1, <1>2, <1>3, <1>4

LEMMA ServersInit == Init /\ ProxyInit => ServersInv
<1> SUFFICES ASSUME ProxyInit PROVE ServersInv
  OBVIOUS
<1>1. RR_ADDR = NoAddress \/ IsServers(RR_ADDR)
  BY DEF ProxyInit, IsServers
<1>2. thread = [c \in Clients |-> Free]
  BY DEF ProxyInit
<1> QED BY <1>1, <1>2, FreeRuns DEF ServersInv, Free

LEMMA ServersNext ==
  ASSUME MessagesInv, ServersInv, VideoName \in ShortNames, WellFormed(VideoName),
         [ProxyNext]_<<rnsVars, proxyVars>>
  PROVE  ServersInv'
<1>1. CASE Serve /\ UNCHANGED proxyVars
  BY <1>1, ServesKeeps
<1>2. ASSUME NEW c \in Clients, Accept(c) \/ ThreadStep(c) \/ Resolved(c) \/ Outside(c) PROVE ServersInv'
  BY <1>2, AcceptRuns, ThreadAdvances, OutsideStays DEF Advances, Outside
<1>3. CASE UNCHANGED <<rnsVars, proxyVars>>
  <2>1. UNCHANGED <<thread, client, RR_ADDR>>
    BY <1>3 DEF rnsVars, proxyVars
  <2> QED BY <2>1, Zenon DEF ServersInv, RunOK, IsServers
<1> QED BY <1>1, <1>2, <1>3 DEF ProxyNext

\* However many threads ask and overwrite each other's answers, with whatever
\* datagrams lost, late or stray, the address they share is none or one of the
\* server file, and so is every thread's connection.
THEOREM ConnectedToServersCorrect ==
  ASSUME VideoName \in ShortNames, WellFormed(VideoName)
  PROVE  ProxySpec => []ConnectedToServers
<1>1. Init /\ ProxyInit => RotationInv /\ MessagesInv /\ ServersInv
  BY MessagesInit, ServersInit
<1>2. RotationInv /\ MessagesInv /\ ServersInv /\ [ProxyNext]_<<rnsVars, proxyVars>>
        => (RotationInv /\ MessagesInv /\ ServersInv)'
  BY MessagesOfThreads, ServersNext
<1>3. ServersInv => ConnectedToServers
  <2> SUFFICES ASSUME ServersInv, NEW c \in Clients, thread[c].pc \in WithServer
               PROVE  IsServers(thread[c].server)
    BY DEF ServersInv, ConnectedToServers
  <2>1. thread[c] # Free /\ RunOK(thread[c])
    BY AtIsNotFree DEF ServersInv, WithServer
  <2> QED BY <2>1 DEF RunOK
<1> QED BY <1>1, <1>2, <1>3, PTL DEF ProxySpec

\* Every step of a thread brings it nearer to its end, and so does a browser that
\* reads again.  Nobody's step takes it back but that of its own web server when
\* it sends more than was asked for; a browser that does not read only holds it.
THEOREM EveryThreadStepCounts ==
  ASSUME VideoName \in ShortNames, WellFormed(VideoName)
  PROVE  ProxySpec =>
           [][\A c \in Clients :
                /\ Phase(c) \in 0 .. 10 /\ TurnsLeft(c) \in Nat
                /\ ThreadStep(c) \/ Resolved(c) \/ Released(c) => Nearer(c)
                /\ thread[c] # Free /\ ~Trickle(c) => Nearer(c) \/ UNCHANGED <<Phase(c), TurnsLeft(c)>>]_<<rnsVars, proxyVars>>
<1> DEFINE Turns(c) ==
             /\ Phase(c) \in 0 .. 10 /\ TurnsLeft(c) \in Nat
             /\ ThreadStep(c) \/ Resolved(c) \/ Released(c) => Nearer(c)
             /\ thread[c] # Free /\ ~Trickle(c) => Nearer(c) \/ UNCHANGED <<Phase(c), TurnsLeft(c)>>
<1>1. Init /\ ProxyInit => RotationInv /\ MessagesInv /\ ServersInv
  BY MessagesInit, ServersInit
<1>2. RotationInv /\ MessagesInv /\ ServersInv /\ [ProxyNext]_<<rnsVars, proxyVars>>
        => (RotationInv /\ MessagesInv /\ ServersInv)'
  BY MessagesOfThreads, ServersNext
<1>3. MessagesInv /\ ServersInv /\ [ProxyNext]_<<rnsVars, proxyVars>>
        => [\A c \in Clients : Turns(c)]_<<rnsVars, proxyVars>>
  <2> SUFFICES ASSUME MessagesInv, ServersInv, ProxyNext, NEW c \in Clients PROVE Turns(c)
    OBVIOUS
  <2>1. Phase(c) \in 0 .. 10
    BY PhaseIsANumber DEF Phase
  <2>2. TurnsLeft(c) \in Nat
    <3>1. client[c].waits \in Nat
      BY DEF MessagesInv, ClientOK
    <3>2. thread[c].pc = "reading" => Len(thread[c].rest) \in Nat
      BY AtIsNotFree DEF ServersInv, RunOK
    <3> QED BY <3>1, <3>2 DEF TurnsLeft
  <2>3. ThreadStep(c) \/ Resolved(c) \/ Released(c) => Nearer(c)
    BY ThreadAdvances DEF Advances
  <2>4. thread[c] # Free /\ ~Trickle(c) => Nearer(c) \/ UNCHANGED <<Phase(c), TurnsLeft(c)>>
    <3> SUFFICES ASSUME thread[c] # Free, ~Trickle(c) PROVE Nearer(c) \/ UNCHANGED <<Phase(c), TurnsLeft(c)>>
      OBVIOUS
    <3>1. CASE Serve /\ UNCHANGED proxyVars
      BY <3>1, ServesKeeps, OtherNearer
    <3>2. ASSUME NEW e \in Clients, Accept(e) PROVE Nearer(c) \/ UNCHANGED <<Phase(c), TurnsLeft(c)>>
      BY <3>2, AcceptRuns, OtherNearer
    <3>3. ASSUME NEW e \in Clients, ThreadStep(e) \/ Resolved(e) \/ Released(e)
          PROVE  Nearer(c) \/ UNCHANGED <<Phase(c), TurnsLeft(c)>>
      <4>1. CASE e = c
        BY <2>3, <3>3, <4>1
      <4>2. CASE e # c
        <5>1. Advances(e)
          BY <3>3, ThreadAdvances
        <5>2. thread'[c] = thread[c] /\ client'[c] = client[c] /\ (RR_ADDR' = RR_ADDR \/ IsServers(RR_ADDR'))
          BY <4>2, <5>1 DEF Advances, OthersStay
        <5> QED BY <5>2, OtherNearer
      <4> QED BY <4>1, <4>2
    <3>4. ASSUME NEW e \in Clients, SendBlocks(e) \/ (Trickle(e) /\ e # c)
          PROVE  Nearer(c) \/ UNCHANGED <<Phase(c), TurnsLeft(c)>>
      <4>1. thread'[c].pc = thread[c].pc /\ thread'[c].rest = thread[c].rest /\ UNCHANGED <<RR_ADDR, client>>
        BY <3>4, OutsideStays
      <4> QED BY <4>1, OtherNearer
    <3> QED BY <3>1, <3>2, <3>3, <3>4 DEF ProxyNext, Outside
  <2> QED BY <2>1, <2>2, <2>3, <2>4
<1> QED BY <1>1, <1>2, <1>3, PTL DEF ProxySpec
================================================================================
