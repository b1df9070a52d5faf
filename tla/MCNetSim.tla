------------------------------- MODULE MCNetSim -------------------------------
(***************************************************************************)
(* The simulated network under an operator, who may give any commands, or  *)
(* under the grader.  Topologies: two that share a server and a class, one *)
(* whose bottlenecks and events are missing, one without servers.          *)
(***************************************************************************)
EXTENDS Grader, TLC

CONSTANT GraderUpsets    \* bound: what goes wrong while the grader runs

VARIABLE driver

Bw(tenths, unit) == [tenths |-> tenths, unit |-> unit]

Event(when, class, bw) == [when |-> when, class |-> class, bw |-> bw]

\* The names of the grader's event files are no identifiers.
WithAdaptation(files) ==
  files @@ ("adaptation-2000" :> <<Event("time", 1, Bw(20000, "kbit"))>>
    @@ "adaptation-900" :> <<Event("time", 1, Bw(9000, "kbit"))>>)

MCTopoFile == [
  a |-> WithAdaptation([servers |-> <<1, 2>>, clients |-> <<4>>, dns |-> <<>>,
         bottlenecks |-> <<[class |-> 1, pair |-> <<4, 1>>], [class |-> 0, pair |-> <<4, 2>>]>>,
         events |-> <<Event("time", 1, Bw(20, "mbit")), Event("enter", 2, Bw(5, "kbps")),
                      Event("time", 1, Bw(15, "mbit")), Event("time", 2, Bw(5, "kbit"))>>,
         simple |-> <<Event("time", 1, Bw(9000, "kbit"))>>]),
  b |-> [servers |-> <<2>>, clients |-> <<4>>, dns |-> <<3>>,
         bottlenecks |-> <<[class |-> 1, pair |-> <<4, 2>>]>>,
         events |-> <<Event("time", 1, Bw(20, "kbps")), Event("invalid", 1, Bw(10, "mbps")),
                      Event("time", 2, Bw(10, "bps"))>>,
         simple |-> Missing],
  c |-> [servers |-> <<1>>, clients |-> <<>>, dns |-> <<>>,
         bottlenecks |-> Missing, events |-> Missing],
  d |-> [servers |-> Missing, clients |-> <<>>, dns |-> <<>>,
         bottlenecks |-> <<>>, events |-> <<>>]]

MCHashClass == [pair \in {<<4, 2>>} |-> 7]

Test(name, topo) == [name |-> name, topo |-> topo]

MCSuite == <<Test("test_proxy_adaptation", "a"), Test("test_dns_rr", "b"),
             Test("test_dns_lsa_topo1", "d"), Test("test_dns_lsa_topo2", "c"), Test("test_proxy_simple", "b"),
             Test("test_dns_integration", "b"), Test("test_writeup_exists", "none")>>

MCInit ==
  /\ Init /\ GraderInit /\ driver \in {"operator", "grader"}

MCNext ==
  /\ UNCHANGED driver
  /\ \/ driver = "operator" /\ Next /\ UNCHANGED graderVars
     \/ driver = "grader" /\ GraderNext /\ upsets' <= GraderUpsets

MCSpec == MCInit /\ [][MCNext]_<<vars, graderVars, driver>>
=============================================================================
