-------------------------------- MODULE Grader --------------------------------
(***************************************************************************)
(* The grader (bitrate-project/grader/grader_super.py, grader_cp2.py): a   *)
(* suite of tests, each of which starts the simulated network of its       *)
(* topology, the programs under test, and stops them again, and the scores *)
(* that are given at the end.                                              *)
(*                                                                         *)
(* The network is NetSim's, and the grader waits for its commands.  What a *)
(* check measures is left open: it can succeed only if the program it      *)
(* talks to was started.                                                   *)
(***************************************************************************)
EXTENDS NetSim, FiniteSetsExt

CONSTANTS Suite,        \* the tests, in order: names and topologies
          NoTopology    \* of a test that needs no network

VARIABLES
  suite,      \* the tests still to come; the first one is running
  at,         \* where it is
  script,     \* what is left of its body
  programs,   \* proxy and nameserver, when they run
  excInfo,    \* whether a check of this test saved an exception
  failed,     \* failures and errors of the test result
  scores,     \* by category, once they were emitted
  broken,     \* history: netsim logged a failure while it set this test up
  wrong       \* history: the tests of which something went wrong

test == <<suite, at, script, programs, excInfo, broken>>
result == <<failed, scores, wrong>>
graderVars == <<test, result>>

-----------------------------------------------------------------------------
(* The tests *)

Do(what) == [do |-> what]

Events(file) == [do |-> "events", file |-> file]

TestProxySimple ==
  <<Do("run proxy"), Events("simple"), Do("gets"), Do("print log"), Do("check errors")>>

TestProxyAdaptation ==
  <<Do("run proxy"), Events("adaptation-2000"), Do("gets"), Events("adaptation-900"), Do("gets"),
    Do("print log"), Do("check errors")>>

TestDns == <<Do("run nameserver"), Do("query"), Do("assert answer")>>

TestDnsIntegration ==
  <<Do("run nameserver"), Do("run proxy"), Do("get"), Do("get"), Do("assert logs")>>

TestWriteupExists == <<Do("assert writeup")>>

Tests == {"test_proxy_simple", "test_proxy_adaptation", "test_dns_simple", "test_dns_rr",
          "test_dns_lsa_topo1", "test_dns_lsa_topo2", "test_dns_integration",
          "test_writeup_exists"}

\* The four tests of the name server differ in files and expected answers.
Script(name) ==
  CASE name = "test_proxy_simple" -> TestProxySimple
    [] name = "test_proxy_adaptation" -> TestProxyAdaptation
    [] name = "test_dns_integration" -> TestDnsIntegration
    [] name = "test_writeup_exists" -> TestWriteupExists
    [] OTHER -> TestDns

TestValues == [t \in Tests |->
  CASE t \in {"test_proxy_simple", "test_proxy_adaptation", "test_dns_rr",
              "test_dns_integration"} -> 9
    [] t = "test_dns_simple" -> 8
    [] OTHER -> 3]

ASSUME SuiteAssumption ==
  Suite \in Seq([name : Tests, topo : DOMAIN TopoFile \cup {NoTopology}])

Categories == {"proxy", "writeup", "dns"}

TestCategories == [t \in Tests |->
  CASE t \in {"test_proxy_simple", "test_proxy_adaptation"} -> "proxy"
    [] t = "test_writeup_exists" -> "writeup"
    [] OTHER -> "dns"]

Name == Head(suite).name

Topology == Head(suite).topo

-----------------------------------------------------------------------------

NoScores == <<>>

GraderInit ==
  /\ suite = Suite /\ at = "setUp" /\ script = <<>>
  /\ programs = {} /\ excInfo = FALSE
  /\ failed = {} /\ scores = NoScores
  /\ broken = FALSE /\ wrong = {}

Running == suite # <<>>

\* Of netsim nothing changes, and of the results.
NetSimIdle == UNCHANGED vars

Moved(place) == at' = place /\ UNCHANGED <<suite, result>>

\* unittest notes the exception.
Raised == failed' = failed \cup {Name} /\ wrong' = wrong \cup {Name} /\ UNCHANGED scores

-----------------------------------------------------------------------------
(* setUp and tearDown *)

KilledPrograms_Bug == programs
KilledPrograms == {}

\* killall of both programs, then start_netsim, which does nothing without a
\* topology.  A test begins without a saved exception, being an object of its own.
SetUp ==
  /\ Running /\ at = "setUp"
  /\ programs' = KilledPrograms
  /\ excInfo' = FALSE /\ broken' = FALSE /\ script' = Script(Name)
  /\ IF Topology = NoTopology THEN Moved("body") /\ NetSimIdle
     ELSE Moved("starting") /\ Invoke(Topology, "start") /\ UNCHANGED upsets

\* netsim exits with 0 whatever it has logged.
SetUpDone ==
  /\ Running /\ at = "starting" /\ Finish
  /\ broken' = cmd.failed
  /\ Moved("body") /\ UNCHANGED <<script, programs, excInfo>>

NextTest == suite' = Tail(suite) /\ at' = "setUp" /\ script' = <<>>

\* Without a file netsim exits with -1 and check_output raises: there is no
\* tearDown after a setUp that raised.
SetUpRaises ==
  /\ Running /\ at = "starting" /\ At("idle")
  /\ NextTest /\ Raised
  /\ NetSimIdle /\ UNCHANGED <<programs, excInfo, broken>>

TearDown ==
  /\ Running /\ at = "tearDown"
  /\ programs' = {}
  /\ IF Topology = NoTopology
     THEN NextTest /\ NetSimIdle /\ UNCHANGED result
     ELSE Moved("stopping") /\ Invoke(Topology, "stop") /\ UNCHANGED <<upsets, script>>
  /\ UNCHANGED <<excInfo, broken>>

\* A topology that could be started has the file that stopping needs.
TearDownDone ==
  /\ Running /\ at = "stopping" /\ Finish
  /\ NextTest /\ UNCHANGED <<programs, excInfo, broken, result>>

-----------------------------------------------------------------------------
(* The body of a test *)

InBody(what) == Running /\ at = "body" /\ script # <<>> /\ Head(script).do = what

Continue == script' = Tail(script) /\ Moved("body") /\ UNCHANGED broken

\* The rest of the body is skipped.
Raise == script' = <<>> /\ at' = "tearDown" /\ Raised /\ UNCHANGED <<suite, broken>>

RunProgram(what, program) ==
  /\ InBody(what)
  /\ programs' = programs \cup {program}
  /\ Continue /\ NetSimIdle /\ UNCHANGED excInfo

RunTestEvents ==
  /\ InBody("events") /\ run.pc = "idle"
  /\ RunEvents(Topology, Head(script).file, FALSE)
  /\ IF HasFile(Topology, Head(script).file)
     THEN Moved("events") /\ UNCHANGED <<script, broken>> ELSE Raise
  /\ UNCHANGED <<programs, excInfo, upsets>>

EventsDone ==
  /\ Running /\ at = "events" /\ RunDone
  /\ Continue /\ UNCHANGED <<programs, excInfo>>

\* check_gets saves what went wrong, and the test goes on.
SavedExcInfo_Bug(ok) == ~ok
SavedExcInfo(ok) == excInfo \/ ~ok

CheckGets ==
  /\ InBody("gets")
  /\ \E ok \in BOOLEAN :
       /\ ok => "proxy" \in programs
       /\ excInfo' = SavedExcInfo(ok)
       /\ wrong' = IF ok THEN wrong ELSE wrong \cup {Name}
  /\ script' = Tail(script)
  /\ NetSimIdle /\ UNCHANGED <<suite, at, programs, broken, failed, scores>>

CheckErrors ==
  /\ InBody("check errors")
  /\ IF excInfo THEN Raise ELSE Continue
  /\ NetSimIdle /\ UNCHANGED <<programs, excInfo>>

\* What raises where it fails: a query, a page, an assertion, a log to print.
Needs(what) ==
  CASE what \in {"query", "assert answer"} -> {"nameserver"} [] what = "get" -> {"proxy"}
    [] OTHER -> {}

CheckNow ==
  /\ \E what \in {"query", "assert answer", "get", "assert logs", "assert writeup", "print log"} :
       InBody(what) /\ (Raise \/ (Needs(what) \subseteq programs /\ Continue))
  /\ NetSimIdle /\ UNCHANGED <<programs, excInfo>>

BodyDone ==
  /\ Running /\ at = "body" /\ script = <<>>
  /\ Moved("tearDown")
  /\ NetSimIdle /\ UNCHANGED <<script, programs, excInfo, broken>>

-----------------------------------------------------------------------------
(* emit_scores: a test that is not in the suite keeps its points *)

ScoreOf(t) == IF t \in failed THEN 0 ELSE TestValues[t]

CategoryScore(c) == MapThenSumSet(ScoreOf, {t \in Tests : TestCategories[t] = c})

EmitScores ==
  /\ ~Running /\ scores = NoScores
  /\ scores' = [c \in Categories |-> CategoryScore(c)]
  /\ NetSimIdle /\ UNCHANGED <<test, failed, wrong>>

\* Someone kills the grader and netsim with it, and starts it again.
GraderKilled ==
  /\ Upset /\ Running
  /\ suite' = Suite /\ at' = "setUp" /\ script' = <<>>
  /\ failed' = {} /\ wrong' = {}
  /\ Exit /\ run' = IdleRun
  /\ UNCHANGED <<programs, excInfo, broken, scores, system, apache, network, log, cut>>

GraderStep ==
  \/ SetUp \/ SetUpDone \/ SetUpRaises \/ TearDown \/ TearDownDone
  \/ RunProgram("run proxy", "proxy") \/ RunProgram("run nameserver", "nameserver")
  \/ RunTestEvents \/ EventsDone \/ CheckGets \/ CheckErrors \/ CheckNow \/ BodyDone
  \/ EmitScores \/ GraderKilled

GraderNext ==
  \/ GraderStep
  \/ /\ Step \/ RunStep \/ NicsUp
        \/ ShapingFails \/ ClickFails \/ KillFails \/ CopyCutShort \/ UpdateFails
     /\ UNCHANGED graderVars

GraderSpec == Init /\ GraderInit /\ [][GraderNext]_<<vars, graderVars>>

-----------------------------------------------------------------------------
(* Properties *)

\* When the body of a test begins, nothing of an earlier test, or of a grader
\* that was killed, is there: no program runs, and the network, unless netsim
\* failed to set it up, is that of the test, with no rate that an event set.
FreshTest ==
  Running /\ at = "body" /\ script = Script(Name) =>
    /\ programs = {} /\ run.pc = "idle"
    /\ Topology # NoTopology /\ ~broken =>
         /\ conf.hosts = Servers(Topology) /\ tc.filters = Filters(Topology)
         /\ \A class \in DOMAIN tc.rate : tc.rate[class] = FullRate

\* A test in which anything went wrong, the first of several checks included,
\* gives no points in its category, and every other test gives all of them.
WrongGivesNothing ==
  scores # NoScores =>
    \A c \in Categories :
      LET Points(t) == IF t \in wrong THEN 0 ELSE TestValues[t]
      IN  scores[c] = MapThenSumSet(Points, {t \in Tests : TestCategories[t] = c})
=============================================================================
