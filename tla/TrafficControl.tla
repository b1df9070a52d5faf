---------------------------- MODULE TrafficControl ----------------------------
(***************************************************************************)
(* Traffic shaping on the loopback interface as tc_setup.py sets it up     *)
(* (bitrate-project/netsim/tc_setup.py): a token bucket at the root, a     *)
(* class with a rate for every link, and filters that send the packets     *)
(* between two addresses through a class.                                  *)
(*                                                                         *)
(* A command of tc_setup.py is a sequence of commands of tc.  Each of them *)
(* may fail and ends the command there, so that the operators take how     *)
(* many of them succeeded.  Latencies are left out.                        *)
(***************************************************************************)
EXTENDS Integers, Sequences

CONSTANT HashClass    \* the class that a pair of addresses hashes to

DefaultClass == 9999

\* 1000mbit in bits a second: the rate of a class that no event has changed.
FullRate == 1000000000

\* root: whether the token bucket is attached; rate: the classes and their
\* rates; filters: pairs of addresses and the class of their packets.
NoShaping == [root |-> FALSE, rate |-> <<>>, filters |-> {}]

IsTcConfigured(tc) == tc.root

Replaced(f, class, rate) ==
  [c \in DOMAIN f \cup {class} |-> IF c = class THEN rate ELSE f[c]]

-----------------------------------------------------------------------------
(* start and stop *)

StartCommands == 2

\* How many commands of start succeed at most: tc refuses a second root.
StartLimit(tc) == IF tc.root THEN 0 ELSE StartCommands

Started(tc, done) ==
  [tc EXCEPT !.root = @ \/ done > 0,
             !.rate = IF done = StartCommands THEN Replaced(@, DefaultClass, FullRate) ELSE @]

\* Deleting the root deletes its classes and filters; that there is none is
\* no error.
Stopped_Bug(tc) == [tc EXCEPT !.root = FALSE]
Stopped(tc) == NoShaping

-----------------------------------------------------------------------------
(* update *)

NoPair == <<>>

Reverse(pair) == <<pair[2], pair[1]>>

\* The hash does not depend on the order of the addresses.
ClassForIpPair(pair) ==
  IF pair \in DOMAIN HashClass THEN HashClass[pair] ELSE HashClass[Reverse(pair)]

\* -c, unless it is 0, or the class of the pair, or the default class.
TrafficClass(number, pair) ==
  IF number # 0 THEN number
  ELSE IF pair # NoPair THEN ClassForIpPair(pair) ELSE DefaultClass

\* Class and delay, then the filters of both directions.
UpdateCommands(pair) == IF pair = NoPair THEN 2 ELSE 4

UpdateLimit(tc, pair) == IF tc.root THEN UpdateCommands(pair) ELSE 0

NewFilters_Bug(pair, class, done) == IF done > 2 THEN {<<pair, class>>} ELSE {}
NewFilters(pair, class, done) ==
  (IF done > 2 THEN {<<pair, class>>} ELSE {})
    \cup (IF done > 3 THEN {<<Reverse(pair), class>>} ELSE {})

Updated(tc, number, pair, rate, done) ==
  LET class == TrafficClass(number, pair)
  IN  [tc EXCEPT !.rate = IF done > 0 THEN Replaced(@, class, rate) ELSE @,
                 !.filters = @ \cup NewFilters(pair, class, done)]
=============================================================================
