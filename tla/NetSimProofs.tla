----------------------------- MODULE NetSimProofs -----------------------------
(***************************************************************************)
(* The simulated network for all topologies, and for any number of         *)
(* commands, failures, interrupts and reboots: what the owner had in       *)
(* Apache's configuration is never lost, a stop without a failure leaves   *)
(* nothing behind, a start without a failure is complete, and the log of a *)
(* run tells what the links are.  Then the grader over it: a test begins   *)
(* fresh, and one of which anything went wrong gives no points.            *)
(***************************************************************************)
EXTENDS Grader, TLAPS

\* A record of the model, whatever its fields hold.
IsConf(c) == c = [whole |-> c.whole, marked |-> c.marked, named |-> c.named, hosts |-> c.hosts]

IsCmd == cmd = [pc |-> cmd.pc, verb |-> cmd.verb, topo |-> cmd.topo, then |-> cmd.then,
                todo |-> cmd.todo, failed |-> cmd.failed, spared |-> cmd.spared]

IsRun == run = [pc |-> run.pc, left |-> run.left, logged |-> run.logged, exact |-> run.exact]

IsTc == tc = [root |-> tc.root, rate |-> tc.rate, filters |-> tc.filters]

-----------------------------------------------------------------------------
(* The places of the program *)

\* What stop_network does, up to and from the files being put back.
Undoing == {"unsite", "unlink", "restart for stop", "unshape", "kill"}
Stopping == Undoing \cup {"reset"}

\* A start before its backup, in it and after it.
Shaping == {"nics", "shape", "read filters", "filter"}
WithSites == {"host", "site", "link"}
Configuring == {"copy", "mark", "restart for start"} \cup WithSites

StopEnded == cmd.pc = "end" /\ cmd.verb = "stop"
StartEnded == cmd.pc = "end" /\ cmd.verb # "stop"

\* The program goes where its command takes it, and its list is one of the
\* topology's files.
CmdInv ==
  /\ IsCmd /\ cmd.failed \in BOOLEAN
  /\ cmd.then \in {"nics", "look", "end"}
  /\ cmd.verb = "stop" => cmd.then = "end" /\ cmd.pc \in Stopping \cup {"end"}
  /\ cmd.pc \in Stopping /\ cmd.then = "end" => cmd.verb = "stop"
  /\ cmd.pc # "idle" => cmd.topo \in DOMAIN TopoFile
  /\ cmd.pc \in Undoing \cup Configuring \cup {"shape", "read filters", "filter"} =>
       HasFile(cmd.topo, "servers")
  /\ cmd.pc \in WithSites \cup {"unsite", "unlink"} => cmd.todo \in Seq(Ips)
  /\ cmd.pc = "filter" => cmd.todo \in Seq(Bottlenecks)
  /\ cmd.pc \in {"unlink", "site", "link"} => cmd.todo # <<>>

-----------------------------------------------------------------------------
(* The files *)

\* Nothing of netsim's is in the file.
Clean(c) == ~c.marked /\ c.hosts = {}

\* A start may write only where there is a backup, and may make a backup only
\* of a file that netsim has not marked.
FilesInv ==
  /\ IsConf(conf) /\ (backup = NoFile \/ IsConf(backup))
  /\ Clean(IF backup = NoFile THEN conf ELSE backup)
  /\ conf.marked \/ Clean(conf)
  /\ cmd.pc \in Undoing \cup Shaping \cup {"copy"} => Clean(conf)
  /\ cmd.pc \in Undoing \/ StopEnded => backup = NoFile
  /\ cmd.pc \in {"mark"} \cup WithSites => backup # NoFile
  /\ cmd.pc \in WithSites => conf.marked

\* Only a copy that is cut short loses something of the owner's.
WholeInv == cut \/ (conf.whole /\ (backup = NoFile \/ backup.whole))

\* Sites are made on Ubuntu only, and a stop has removed those of its topology
\* but the ones that it has still to come to.
SitesInv ==
  LET own == Servers(cmd.topo)
  IN  /\ ~system.split => available = {} /\ enabled = {}
      /\ cmd.pc \in {"site", "link"} => system.split
      /\ cmd.pc = "unsite" => (available \cup enabled) \cap own \subseteq ToSet(cmd.todo)
      /\ cmd.pc = "unlink" => /\ available \cap own \subseteq ToSet(Tail(cmd.todo))
                              /\ enabled \cap own \subseteq ToSet(cmd.todo)
      /\ cmd.pc \in Undoing \ {"unsite", "unlink"} \/ StopEnded =>
           (available \cup enabled) \cap own = {}

\* A start listens on the addresses that it has come to, and has linked a site
\* for each of them but the one it is at.
HostsInv ==
  /\ cmd.pc = "mark" => conf.hosts = {}
  /\ cmd.pc \in WithSites => conf.hosts \cup ToSet(cmd.todo) = Servers(cmd.topo)
  /\ cmd.pc \in {"site", "link"} => Head(cmd.todo) \in conf.hosts
  /\ cmd.pc = "restart for start" \/ StartEnded =>
       cmd.failed \/ conf.hosts = Servers(cmd.topo)
  /\ system.split =>
       /\ cmd.pc = "host" => conf.hosts \subseteq enabled
       /\ cmd.pc \in {"site", "link"} => conf.hosts \subseteq enabled \cup {Head(cmd.todo)}
       /\ cmd.pc = "restart for start" \/ StartEnded => cmd.failed \/ conf.hosts \subseteq enabled
       /\ StartEnded => cmd.failed \/ served = conf.hosts

-----------------------------------------------------------------------------
(* Traffic control and click *)

FiltersOf(lines) ==
  UNION {{line.pair, Reverse(line.pair)} \X {TrafficClass(line.class, line.pair)} : line \in lines}

\* Unless something failed, a start finds no shaping at all, and has installed
\* the filters that it has come to.
ShapedInv ==
  /\ IsTc /\ (tc.root \/ tc = NoShaping)
  /\ ~cmd.failed =>
       /\ cmd.pc \in {"kill", "nics", "shape"} \/ StopEnded => tc = NoShaping
       /\ cmd.pc = "read filters" => tc.root /\ tc.filters = {}
       /\ cmd.pc = "filter" =>
            tc.root /\ tc.filters \cup FiltersOf(ToSet(cmd.todo)) = Filters(cmd.topo)
       /\ cmd.pc \in Configuring \/ StartEnded => tc.root /\ tc.filters = Filters(cmd.topo)
       /\ StopEnded => cmd.spared \/ nics = Off

NetInv == CmdInv /\ FilesInv /\ SitesInv /\ HostsInv /\ ShapedInv

-----------------------------------------------------------------------------
(* The log *)

Entries == [class : Nat \ {0}, rate : Nat]

\* The last entry of every class but one is the rate of its link.
LinksBut(class) ==
  \A i \in DOMAIN log :
    log[i].class # class /\ (\A j \in i + 1 .. Len(log) : log[j].class # log[i].class) =>
      log[i].class \in DOMAIN tc.rate /\ tc.rate[log[i].class] = log[i].rate

\* While an event is executed and not logged, its link is ahead of the log.
LogInv ==
  /\ IsRun /\ run.exact \in BOOLEAN /\ run.logged \in BOOLEAN
  /\ log \in Seq(Entries)
  /\ run.exact => run.logged
  /\ run.logged /\ run.pc # "idle" => run.left \in Seq(Changes)
  /\ run.pc \in {"execute", "log"} => run.left # <<>>
  /\ run.exact /\ run.pc # "log" => LinksBut(0)
  /\ run.exact /\ run.pc = "log" =>
       LET event == Head(run.left)
       IN  /\ event.class \in DOMAIN tc.rate /\ tc.rate[event.class] = Rate(event.bw)
           /\ LinksBut(event.class)

-----------------------------------------------------------------------------
(* The steps, whoever takes them *)

\* A command and its run are killed.
Killed == Exit /\ run' = IdleRun /\ UNCHANGED <<system, apache, network, log, cut>>

NetStep ==
  \/ \E t \in DOMAIN TopoFile :
       \/ \E verb \in {"start", "stop", "restart"} : Invoke(t, verb)
       \/ RunEvents(t, "events", TRUE)
  \/ \E t, suffix : RunEvents(t, suffix, FALSE)
  \/ Step \/ Finish \/ RunStep \/ RunDone \/ NicsUp \/ GoesWrong \/ Killed
  \/ UNCHANGED vars

\* The program goes on, with the rest of its list, and may have spared click.
Becomes(pc, todo, fails) ==
  /\ IsCmd'
  /\ cmd'.pc = pc /\ cmd'.verb = cmd.verb /\ cmd'.topo = cmd.topo /\ cmd'.then = cmd.then
  /\ cmd'.todo = todo /\ cmd'.failed = fails

\* The ways a step says so.
LEMMA Moves ==
  ASSUME IsCmd, NEW pc, NEW todo
  PROVE  /\ Goto(pc) => Becomes(pc, cmd.todo, cmd.failed)
         /\ GotoFailed(pc) => Becomes(pc, cmd.todo, TRUE)
         /\ GotoSpared(pc) => Becomes(pc, cmd.todo, cmd.failed) /\ cmd'.spared = TRUE
         /\ cmd' = [cmd EXCEPT !.pc = pc, !.todo = todo] => Becomes(pc, todo, cmd.failed)
         /\ cmd' = [cmd EXCEPT !.todo = todo] => Becomes(cmd.pc, todo, cmd.failed)
<1> DEFINE Cmd(p, t, f, s) == [pc |-> p, verb |-> cmd.verb, topo |-> cmd.topo, then |-> cmd.then,
                               todo |-> t, failed |-> f, spared |-> s]
<1>1. [cmd EXCEPT !.pc = pc] = Cmd(pc, cmd.todo, cmd.failed, cmd.spared)
  BY DEF IsCmd
<1>2. [cmd EXCEPT !.todo = todo] = Cmd(cmd.pc, todo, cmd.failed, cmd.spared)
  BY DEF IsCmd
<1>3. [Cmd(pc, cmd.todo, cmd.failed, cmd.spared) EXCEPT !.todo = todo]
      = Cmd(pc, todo, cmd.failed, cmd.spared)
  OBVIOUS
<1>4. ASSUME NEW b
      PROVE  /\ [Cmd(pc, cmd.todo, cmd.failed, cmd.spared) EXCEPT !.failed = b]
                = Cmd(pc, cmd.todo, b, cmd.spared)
             /\ [Cmd(pc, cmd.todo, cmd.failed, cmd.spared) EXCEPT !.spared = b]
                = Cmd(pc, cmd.todo, cmd.failed, b)
  OBVIOUS
<1>5. [cmd EXCEPT !.pc = pc, !.todo = todo] = [[cmd EXCEPT !.pc = pc] EXCEPT !.todo = todo]
  OBVIOUS
<1>6. /\ [cmd EXCEPT !.pc = pc, !.failed = TRUE] = [[cmd EXCEPT !.pc = pc] EXCEPT !.failed = TRUE]
      /\ [cmd EXCEPT !.pc = pc, !.spared = TRUE] = [[cmd EXCEPT !.pc = pc] EXCEPT !.spared = TRUE]
  OBVIOUS
<1>7. [cmd EXCEPT !.pc = pc, !.todo = todo] = Cmd(pc, todo, cmd.failed, cmd.spared)
  BY <1>1, <1>3, <1>5, Zenon
<1>8. /\ [cmd EXCEPT !.pc = pc, !.failed = TRUE] = Cmd(pc, cmd.todo, TRUE, cmd.spared)
      /\ [cmd EXCEPT !.pc = pc, !.spared = TRUE] = Cmd(pc, cmd.todo, cmd.failed, TRUE)
  BY <1>1, <1>4, <1>6, Zenon
<1>9. ASSUME NEW p, NEW t, NEW f, NEW s, cmd' = Cmd(p, t, f, s)
      PROVE  Becomes(p, t, f) /\ cmd'.spared = s
  BY <1>9 DEF Becomes, IsCmd
<1> HIDE DEF Cmd
<1>10. Goto(pc) => Becomes(pc, cmd.todo, cmd.failed)
  BY <1>1, <1>9, Zenon DEF Goto
<1>11. GotoFailed(pc) => Becomes(pc, cmd.todo, TRUE)
  BY <1>8, <1>9, Zenon DEF GotoFailed
<1>12. GotoSpared(pc) => Becomes(pc, cmd.todo, cmd.failed) /\ cmd'.spared = TRUE
  BY <1>8, <1>9, Zenon DEF GotoSpared
<1>13. cmd' = [cmd EXCEPT !.pc = pc, !.todo = todo] => Becomes(pc, todo, cmd.failed)
  BY <1>7, <1>9, Zenon
<1>14. cmd' = [cmd EXCEPT !.todo = todo] => Becomes(cmd.pc, todo, cmd.failed)
  BY <1>2, <1>9, Zenon
<1> QED BY <1>10, <1>11, <1>12, <1>13, <1>14

\* A list of a file, element by element.
LEMMA Elements ==
  ASSUME NEW S, NEW s \in Seq(S)
  PROVE  /\ s = <<>> => ToSet(s) = {}
         /\ s # <<>> => /\ ToSet(s) = {Head(s)} \cup ToSet(Tail(s))
                        /\ Tail(s) \in Seq(S) /\ Head(s) \in S
<1>1. s = <<>> => ToSet(s) = {}
  BY DEF ToSet
<1>2. ASSUME s # <<>> PROVE ToSet(s) = {Head(s)} \cup ToSet(Tail(s))
  <2>1. ASSUME NEW i \in DOMAIN s PROVE s[i] \in {Head(s)} \cup ToSet(Tail(s))
    <3>1. CASE i = 1
      BY <1>2, <3>1
    <3>2. CASE i # 1
      <4>1. i - 1 \in DOMAIN Tail(s) /\ Tail(s)[i - 1] = s[i]
        BY <1>2, <3>2
      <4> QED BY <4>1 DEF ToSet
    <3> QED BY <3>1, <3>2
  <2>2. ASSUME NEW i \in DOMAIN Tail(s) PROVE Tail(s)[i] \in ToSet(s)
    <3>1. i + 1 \in DOMAIN s /\ Tail(s)[i] = s[i + 1]
      BY <1>2
    <3> QED BY <3>1 DEF ToSet
  <2>3. Head(s) \in ToSet(s)
    BY <1>2 DEF ToSet
  <2> QED BY <2>1, <2>2, <2>3 DEF ToSet
<1>3. s # <<>> => Tail(s) \in Seq(S) /\ Head(s) \in S
  OBVIOUS
<1> QED BY <1>1, <1>2, <1>3

\* The record of the shaping after a command of tc_setup.py.
LEMMA Shapes ==
  ASSUME IsTc, NEW number, NEW pair, NEW rate, NEW done
  PROVE  /\ Started(tc, done) =
              [root |-> tc.root \/ done > 0,
               rate |-> IF done = StartCommands THEN Replaced(tc.rate, DefaultClass, FullRate) ELSE tc.rate,
               filters |-> tc.filters]
         /\ LET class == TrafficClass(number, pair)
            IN  Updated(tc, number, pair, rate, done) =
                  [root |-> tc.root,
                   rate |-> IF done > 0 THEN Replaced(tc.rate, class, rate) ELSE tc.rate,
                   filters |-> tc.filters \cup NewFilters(pair, class, done)]
<1> DEFINE Tc(r, s, f) == [root |-> r, rate |-> s, filters |-> f]
<1>1. ASSUME NEW r, NEW s PROVE [tc EXCEPT !.root = r, !.rate = s] = Tc(r, s, tc.filters)
  <2>1. [tc EXCEPT !.root = r] = Tc(r, tc.rate, tc.filters)
    BY DEF IsTc
  <2>2. [tc EXCEPT !.root = r, !.rate = s] = [[tc EXCEPT !.root = r] EXCEPT !.rate = s]
    OBVIOUS
  <2>3. [Tc(r, tc.rate, tc.filters) EXCEPT !.rate = s] = Tc(r, s, tc.filters)
    OBVIOUS
  <2> QED BY <2>1, <2>2, <2>3, Zenon
<1>2. ASSUME NEW s, NEW f PROVE [tc EXCEPT !.rate = s, !.filters = f] = Tc(tc.root, s, f)
  <2>1. [tc EXCEPT !.rate = s] = Tc(tc.root, s, tc.filters)
    BY DEF IsTc
  <2>2. [tc EXCEPT !.rate = s, !.filters = f] = [[tc EXCEPT !.rate = s] EXCEPT !.filters = f]
    OBVIOUS
  <2>3. [Tc(tc.root, s, tc.filters) EXCEPT !.filters = f] = Tc(tc.root, s, f)
    OBVIOUS
  <2> QED BY <2>1, <2>2, <2>3, Zenon
<1>3. Started(tc, done) =
        [tc EXCEPT !.root = tc.root \/ done > 0,
                   !.rate = IF done = StartCommands THEN Replaced(tc.rate, DefaultClass, FullRate) ELSE tc.rate]
  BY Zenon DEF Started
<1>4. LET class == TrafficClass(number, pair)
      IN  Updated(tc, number, pair, rate, done) =
            [tc EXCEPT !.rate = IF done > 0 THEN Replaced(tc.rate, class, rate) ELSE tc.rate,
                       !.filters = tc.filters \cup NewFilters(pair, class, done)]
  BY Zenon DEF Updated
<1> QED BY <1>1, <1>2, <1>3, <1>4, Zenon

LEMMA UpdateShape ==
  ASSUME IsTc, NEW number, NEW pair, NEW rate, NEW done, tc' = Updated(tc, number, pair, rate, done)
  PROVE  tc' = [root |-> tc.root,
                rate |-> IF done > 0 THEN Replaced(tc.rate, TrafficClass(number, pair), rate) ELSE tc.rate,
                filters |-> tc.filters \cup NewFilters(pair, TrafficClass(number, pair), done)]
BY Shapes, Zenon

\* An update without a pair of addresses, of a run, leaves root and filters.
LEMMA RunShapes ==
  ASSUME IsTc, tc.root \/ tc = NoShaping, NEW number, NEW rate,
         NEW done \in 0 .. UpdateLimit(tc, NoPair),
         tc' = Updated(tc, number, NoPair, rate, done)
  PROVE  /\ IsTc' /\ tc'.root = tc.root /\ tc'.filters = tc.filters
         /\ tc = NoShaping => tc' = NoShaping
<1>1. UpdateLimit(tc, NoPair) \in {0, 2}
  BY DEF UpdateLimit, UpdateCommands
<1>2. done \in {0, 1, 2}
  BY <1>1
<1>3. \A class : NewFilters(NoPair, class, done) = {}
  BY <1>2 DEF NewFilters
<1>4. /\ tc' = [root |-> tc.root, rate |-> tc'.rate, filters |-> tc.filters]
      /\ ~(done > 0) => tc'.rate = tc.rate
  <2> DEFINE class == TrafficClass(number, NoPair)
             s == IF done > 0 THEN Replaced(tc.rate, class, rate) ELSE tc.rate
  <2>1. tc' = [root |-> tc.root, rate |-> s, filters |-> tc.filters \cup NewFilters(NoPair, class, done)]
    BY Shapes, Zenon
  <2>2. tc.filters \cup NewFilters(NoPair, class, done) = tc.filters
    BY <1>3
  <2>3. ~(done > 0) => s = tc.rate
    OBVIOUS
  <2> HIDE DEF s, class
  <2>4. tc' = [root |-> tc.root, rate |-> s, filters |-> tc.filters]
    BY <2>1, <2>2, Zenon
  <2> QED BY <2>3, <2>4
<1>5. ASSUME tc = NoShaping PROVE tc' = NoShaping
  <2>1. tc.root = FALSE
    BY <1>5 DEF NoShaping
  <2>2. done = 0
    BY <2>1 DEF UpdateLimit
  <2>3. ~(done > 0)
    BY <2>2
  <2>4. tc' = [root |-> tc.root, rate |-> tc.rate, filters |-> tc.filters]
    BY <1>4, <2>3
  <2> QED BY <1>5, <2>4 DEF NoShaping
<1> QED BY <1>4, <1>5 DEF IsTc

-----------------------------------------------------------------------------
(* Start and stop *)

\* The program ends, is killed, or has not begun.
LEMMA EndKeeps ==
  ASSUME NetInv, Exit, UNCHANGED <<system, conf, backup, available, enabled>>,
         IsTc', (tc.root \/ tc = NoShaping)'
  PROVE  NetInv'
<1>1. cmd' = [pc |-> "idle", verb |-> "none", topo |-> "none", then |-> "end",
              todo |-> <<>>, failed |-> FALSE, spared |-> FALSE]
  BY DEF Exit, IdleCmd
<1>2. CmdInv'
  BY <1>1 DEF CmdInv, IsCmd, Stopping, Undoing, Shaping, Configuring, WithSites
<1>3. FilesInv'
  BY <1>1 DEF NetInv, FilesInv, IsConf, Clean, Undoing, Shaping, WithSites, StopEnded
<1>4. SitesInv'
  BY <1>1 DEF NetInv, SitesInv, Undoing, StopEnded
<1>5. HostsInv'
  BY <1>1 DEF HostsInv, WithSites, StartEnded
<1>6. ShapedInv'
  BY <1>1 DEF ShapedInv, Configuring, WithSites, StartEnded, StopEnded
<1> QED BY <1>2, <1>3, <1>4, <1>5, <1>6 DEF NetInv

\* The program stands still, while a run or click goes on.
LEMMA StandsKeeps ==
  ASSUME NetInv, UNCHANGED <<system, apache, cmd>>,
         IsTc', tc'.root = tc.root, tc'.filters = tc.filters, tc = NoShaping => tc' = NoShaping,
         nics' \in {nics, Off} \/ nics # Off
  PROVE  NetInv'
<1>1. CmdInv'
  BY DEF NetInv, CmdInv, IsCmd
<1>2. FilesInv'
  BY DEF NetInv, FilesInv, IsConf, Clean, StopEnded, apache
<1>3. SitesInv'
  BY DEF NetInv, SitesInv, StopEnded, apache
<1>4. HostsInv'
  BY DEF NetInv, HostsInv, StartEnded, apache
<1>5. ShapedInv'
  BY DEF NetInv, ShapedInv, StartEnded, StopEnded
<1> QED BY <1>1, <1>2, <1>3, <1>4, <1>5 DEF NetInv

LEMMA InitNet == Init => NetInv
<1> SUFFICES ASSUME Init PROVE NetInv
  OBVIOUS
<1>1. /\ cmd.pc = "idle" /\ IsCmd /\ cmd.failed = FALSE /\ cmd.then = "end" /\ cmd.verb = "none"
  BY DEF Init, IdleCmd, IsCmd
<1>2. CmdInv
  BY <1>1 DEF CmdInv, Stopping, Undoing, Shaping, Configuring, WithSites
<1>3. IsConf(conf) /\ Clean(conf) /\ backup = NoFile
  BY DEF Init, Original, IsConf, Clean
<1>4. FilesInv
  BY <1>1, <1>3 DEF FilesInv, Undoing, Shaping, WithSites, StopEnded
<1>5. SitesInv
  BY <1>1 DEF Init, SitesInv, Undoing, StopEnded
<1>6. HostsInv
  BY <1>1 DEF HostsInv, WithSites, StartEnded
<1>7. ShapedInv
  BY <1>1 DEF Init, NoShaping, IsTc, ShapedInv, Configuring, WithSites, StartEnded, StopEnded
<1> QED BY <1>2, <1>4, <1>5, <1>6, <1>7 DEF NetInv

\* A command begins with a look or with a stop.
LEMMA InvokeKeeps ==
  ASSUME NetInv, NEW t \in DOMAIN TopoFile, NEW verb \in {"start", "stop", "restart"}, Invoke(t, verb)
  PROVE  NetInv'
<1>1. cmd' = [[[[IdleCmd EXCEPT !.pc = First(verb)] EXCEPT !.verb = verb] EXCEPT !.topo = t]
                EXCEPT !.then = Then(verb)]
  BY DEF Invoke
<1>2. cmd' = [pc |-> First(verb), verb |-> verb, topo |-> t, then |-> Then(verb),
              todo |-> <<>>, failed |-> FALSE, spared |-> FALSE]
  BY <1>1 DEF IdleCmd
<1>3. UNCHANGED <<system, conf, backup, available, enabled, served, tc, nics>>
  BY DEF Invoke, apache, network
<1>4. \/ cmd'.pc = "look" /\ verb = "start" /\ cmd'.then = "end"
      \/ cmd'.pc = "reset" /\ verb = "stop" /\ cmd'.then = "end"
      \/ cmd'.pc = "reset" /\ verb = "restart" /\ cmd'.then = "look"
  BY <1>2 DEF First, Then
<1>5. cmd'.verb = verb /\ cmd'.topo = t /\ cmd'.failed = FALSE /\ IsCmd'
  BY <1>2 DEF IsCmd
<1>6. CmdInv'
  BY <1>4, <1>5 DEF CmdInv, Stopping, Undoing, Shaping, Configuring, WithSites
<1>7. FilesInv'
  BY <1>3, <1>4 DEF NetInv, FilesInv, IsConf, Clean, Undoing, Shaping, WithSites, StopEnded
<1>8. SitesInv'
  BY <1>3, <1>4 DEF NetInv, SitesInv, Undoing, StopEnded
<1>9. HostsInv'
  BY <1>4 DEF HostsInv, WithSites, StartEnded
<1>10. ShapedInv'
  BY <1>3, <1>4 DEF NetInv, ShapedInv, IsTc, Configuring, WithSites, StartEnded, StopEnded
<1> QED BY <1>6, <1>7, <1>8, <1>9, <1>10 DEF NetInv

\* A start goes on only if nothing of netsim's is there.
LEMMA LookKeeps == ASSUME NetInv, Look PROVE NetInv'
<1>1. UNCHANGED <<system, conf, backup, available, enabled, served, tc, nics>> /\ cmd.pc = "look"
  BY DEF Look, Calm, apache, network, At
<1>0. IsCmd
  BY DEF NetInv, CmdInv
<1>2. \/ /\ cmd' = [pc |-> "reset", verb |-> cmd.verb, topo |-> cmd.topo, then |-> "nics",
                    todo |-> cmd.todo, failed |-> cmd.failed, spared |-> cmd.spared]
      \/ Becomes("nics", cmd.todo, cmd.failed) /\ ~NetworkRunning
  <2>1. CASE NetworkRunning
    <3>1. cmd' = [[cmd EXCEPT !.pc = "reset"] EXCEPT !.then = "nics"]
      BY <2>1 DEF Look
    <3>2. [cmd EXCEPT !.pc = "reset"] = [pc |-> "reset", verb |-> cmd.verb, topo |-> cmd.topo,
                                         then |-> cmd.then, todo |-> cmd.todo, failed |-> cmd.failed,
                                         spared |-> cmd.spared]
      BY <1>0 DEF IsCmd
    <3>3. [[pc |-> "reset", verb |-> cmd.verb, topo |-> cmd.topo, then |-> cmd.then, todo |-> cmd.todo,
            failed |-> cmd.failed, spared |-> cmd.spared] EXCEPT !.then = "nics"]
          = [pc |-> "reset", verb |-> cmd.verb, topo |-> cmd.topo, then |-> "nics",
             todo |-> cmd.todo, failed |-> cmd.failed, spared |-> cmd.spared]
      OBVIOUS
    <3> QED BY <3>1, <3>2, <3>3, Zenon
  <2>2. CASE ~NetworkRunning
    <3>1. Goto("nics")
      BY <2>2 DEF Look, Goto
    <3> QED BY <1>0, <2>2, <3>1, Moves
  <2> QED BY <2>1, <2>2
<1>3. CASE cmd' = [pc |-> "reset", verb |-> cmd.verb, topo |-> cmd.topo, then |-> "nics",
                   todo |-> cmd.todo, failed |-> cmd.failed, spared |-> cmd.spared]
  <2>1. /\ cmd'.pc = "reset" /\ cmd'.verb = cmd.verb /\ cmd'.topo = cmd.topo
        /\ cmd'.then = "nics" /\ cmd'.failed = cmd.failed /\ IsCmd'
    BY <1>3 DEF IsCmd
  <2>2. cmd.verb # "stop"
    BY <1>1 DEF NetInv, CmdInv, Stopping, Undoing
  <2>3. CmdInv'
    BY <1>1, <2>1, <2>2 DEF NetInv, CmdInv, Stopping, Undoing, Shaping, Configuring, WithSites
  <2>4. FilesInv'
    BY <1>1, <2>1 DEF NetInv, FilesInv, IsConf, Clean, Undoing, Shaping, WithSites, StopEnded
  <2>5. SitesInv'
    BY <1>1, <2>1 DEF NetInv, SitesInv, Undoing, StopEnded
  <2>6. HostsInv'
    BY <2>1 DEF HostsInv, WithSites, StartEnded
  <2>7. ShapedInv'
    BY <1>1, <2>1 DEF NetInv, ShapedInv, IsTc, Configuring, WithSites, StartEnded, StopEnded
  <2> QED BY <2>3, <2>4, <2>5, <2>6, <2>7 DEF NetInv
<1>4. CASE Becomes("nics", cmd.todo, cmd.failed) /\ ~NetworkRunning
  <2>1. /\ cmd'.pc = "nics" /\ cmd'.verb = cmd.verb /\ cmd'.topo = cmd.topo
        /\ cmd'.then = cmd.then /\ cmd'.failed = cmd.failed /\ IsCmd'
    BY <1>4 DEF IsCmd, Becomes
  <2>2. cmd.verb # "stop"
    BY <1>1 DEF NetInv, CmdInv, Stopping, Undoing
  <2>3. CmdInv'
    BY <1>1, <2>1, <2>2 DEF NetInv, CmdInv, Stopping, Undoing, Shaping, Configuring, WithSites
  <2>4. ~conf.marked /\ ~tc.root
    BY <1>4 DEF NetworkRunning, IsConfigured, IsTcConfigured
  <2>5. FilesInv'
    BY <1>1, <2>1, <2>4 DEF NetInv, FilesInv, IsConf, Clean, Undoing, Shaping, WithSites, StopEnded
  <2>6. SitesInv'
    BY <1>1, <2>1 DEF NetInv, SitesInv, Undoing, StopEnded
  <2>7. HostsInv'
    BY <2>1 DEF HostsInv, WithSites, StartEnded
  <2>8. ShapedInv'
    BY <1>1, <2>1, <2>4 DEF NetInv, ShapedInv, IsTc, Configuring, WithSites, StartEnded, StopEnded
  <2> QED BY <2>3, <2>5, <2>6, <2>7, <2>8 DEF NetInv
<1> QED BY <1>2, <1>3, <1>4

\* What every step of a program that goes on has to show of its places.
LEMMA CmdKeeps ==
  ASSUME NetInv, NEW pc, NEW todo, NEW fails \in BOOLEAN, Becomes(pc, todo, fails),
         cmd.pc # "idle", pc # "idle",
         pc \in Stopping => cmd.pc \in Stopping,
         cmd.verb = "stop" => pc \in Stopping \cup {"end"},
         pc \in Undoing \cup Configuring \cup {"shape", "read filters", "filter"} =>
           HasFile(cmd.topo, "servers"),
         pc \in WithSites \cup {"unsite", "unlink"} => todo \in Seq(Ips),
         pc = "filter" => todo \in Seq(Bottlenecks),
         pc \in {"unlink", "site", "link"} => todo # <<>>
  PROVE  CmdInv'
<1>1. /\ cmd'.pc = pc /\ cmd'.verb = cmd.verb /\ cmd'.topo = cmd.topo /\ cmd'.then = cmd.then
      /\ cmd'.todo = todo /\ cmd'.failed = fails /\ IsCmd'
  BY DEF Becomes, IsCmd
<1> QED BY <1>1 DEF NetInv, CmdInv

\* The files that a list comes from.
LEMMA ListTypes ==
  ASSUME NEW t \in DOMAIN TopoFile
  PROVE  /\ HasFile(t, "servers") => /\ GetTopoFile(t, "servers") \in Seq(Ips)
                                     /\ ToSet(GetTopoFile(t, "servers")) = Servers(t)
         /\ HasFile(t, "bottlenecks") => /\ GetTopoFile(t, "bottlenecks") \in Seq(Bottlenecks)
                                         /\ FiltersOf(ToSet(GetTopoFile(t, "bottlenecks"))) = Filters(t)
<1>1. HasFile(t, "servers") => /\ GetTopoFile(t, "servers") \in Seq(Ips)
                               /\ ToSet(GetTopoFile(t, "servers")) = Servers(t)
  BY FilesAssumption DEF Servers
<1>2. HasFile(t, "bottlenecks") => GetTopoFile(t, "bottlenecks") \in Seq(Bottlenecks)
  BY FilesAssumption
<1>3. FiltersOf(ToSet(GetTopoFile(t, "bottlenecks"))) = Filters(t)
  BY DEF FiltersOf, Filters
<1> QED BY <1>1, <1>2, <1>3

LEMMA ResetKeeps == ASSUME NetInv, ResetApache PROVE NetInv'
<1> DEFINE own == GetTopoFile(cmd.topo, "servers")
           old == Restored(conf, backup)
<1>0. IsCmd /\ cmd.failed \in BOOLEAN /\ cmd.topo \in DOMAIN TopoFile
  BY DEF NetInv, CmdInv, ResetApache, At
<1>1. /\ cmd.pc = "reset" /\ HasFile(cmd.topo, "servers")
      /\ conf' = WithName(old, system.split) /\ backup' = NoFile
      /\ UNCHANGED <<system, available, enabled, served, tc, nics>>
  BY DEF ResetApache, Calm, network, At
<1>2. \/ system.split /\ Becomes("unsite", own, cmd.failed)
      \/ ~system.split /\ Becomes("restart for stop", cmd.todo, cmd.failed)
  <2>1. CASE system.split
    <3>1. cmd' = [cmd EXCEPT !.pc = "unsite", !.todo = own]
      BY <2>1 DEF ResetApache
    <3> QED BY <1>0, <2>1, <3>1, Moves, Zenon
  <2>2. CASE ~system.split
    <3>1. Goto("restart for stop")
      BY <2>2 DEF ResetApache, Goto
    <3> QED BY <1>0, <2>2, <3>1, Moves
  <2> QED BY <2>1, <2>2
<1>3. own \in Seq(Ips) /\ ToSet(own) = Servers(cmd.topo)
  BY <1>0, <1>1, ListTypes
<1>4. IsConf(old) /\ Clean(old)
  BY DEF NetInv, FilesInv, Restored
<1>5. IsConf(conf') /\ Clean(conf')
  <2> HIDE DEF old
  <2>1. conf' = [old EXCEPT !.named = old.named \/ ~system.split]
    BY <1>1, Zenon DEF WithName
  <2>2. conf' = [whole |-> old.whole, marked |-> old.marked,
                 named |-> old.named \/ ~system.split, hosts |-> old.hosts]
    BY <1>4, <2>1 DEF IsConf
  <2> QED BY <1>4, <2>2 DEF IsConf, Clean
<1> HIDE DEF own, old
<1>6. CmdInv'
  BY <1>0, <1>1, <1>2, <1>3, CmdKeeps DEF Stopping, Undoing, Configuring, WithSites
<1>7. /\ cmd'.verb = cmd.verb /\ cmd'.topo = cmd.topo /\ cmd'.failed = cmd.failed
      /\ \/ system.split /\ cmd'.pc = "unsite" /\ cmd'.todo = own
         \/ ~system.split /\ cmd'.pc = "restart for stop"
  <2>1. ASSUME NEW pc, NEW todo, Becomes(pc, todo, cmd.failed)
        PROVE  /\ cmd'.verb = cmd.verb /\ cmd'.topo = cmd.topo /\ cmd'.failed = cmd.failed
               /\ cmd'.pc = pc /\ cmd'.todo = todo
    BY <2>1 DEF Becomes
  <2> QED BY <1>2, <2>1, Zenon
<1>8. FilesInv'
  BY <1>1, <1>5, <1>7 DEF FilesInv, Undoing, Shaping, WithSites, StopEnded
<1>9. SitesInv'
  <2>1. (Servers(cmd.topo))' = Servers(cmd.topo)'
    OBVIOUS
  <2>2. Servers(cmd'.topo) = Servers(cmd.topo)
    BY <1>7
  <2> QED BY <1>1, <1>3, <1>7, <2>2 DEF NetInv, SitesInv, Undoing, StopEnded
<1>10. HostsInv'
  BY <1>7 DEF HostsInv, WithSites, StartEnded
<1>11. ShapedInv'
  BY <1>1, <1>7 DEF NetInv, ShapedInv, IsTc, Configuring, WithSites, StartEnded, StopEnded
<1> QED BY <1>6, <1>8, <1>9, <1>10, <1>11 DEF NetInv

\* The sites of the topology are removed one by one.
LEMMA RemoveSiteKeeps == ASSUME NetInv, RemoveSite PROVE NetInv'
<1>0. /\ IsCmd /\ cmd.failed \in BOOLEAN /\ cmd.pc = "unsite" /\ cmd.todo # <<>> /\ cmd.todo \in Seq(Ips)
      /\ HasFile(cmd.topo, "servers")
  BY DEF NetInv, CmdInv, RemoveSite, At, WithSites, Undoing
<1>1. /\ available' = available \ {Head(cmd.todo)} /\ Becomes("unlink", cmd.todo, cmd.failed)
      /\ UNCHANGED <<system, conf, backup, enabled, served, tc, nics>>
  BY <1>0, Moves DEF RemoveSite, Calm, network
<1>2. CmdInv'
  BY <1>0, <1>1, CmdKeeps DEF Stopping, Undoing, Configuring, WithSites
<1>3. /\ cmd'.verb = cmd.verb /\ cmd'.topo = cmd.topo /\ cmd'.failed = cmd.failed
      /\ cmd'.pc = "unlink" /\ cmd'.todo = cmd.todo
  BY <1>1 DEF Becomes
<1>4. FilesInv'
  BY <1>0, <1>1, <1>3 DEF NetInv, FilesInv, IsConf, Clean, Undoing, Shaping, WithSites, StopEnded
<1>5. SitesInv'
  <2>1. ToSet(cmd.todo) = {Head(cmd.todo)} \cup ToSet(Tail(cmd.todo))
    BY <1>0, Elements
  <2>2. (available \cup enabled) \cap Servers(cmd.topo) \subseteq ToSet(cmd.todo)
        /\ (~system.split => available = {} /\ enabled = {})
    BY <1>0 DEF NetInv, SitesInv
  <2> QED BY <1>1, <1>3, <2>1, <2>2 DEF SitesInv, Undoing, StopEnded
<1>6. HostsInv'
  BY <1>3 DEF HostsInv, WithSites, StartEnded
<1>7. ShapedInv'
  BY <1>1, <1>3 DEF NetInv, ShapedInv, IsTc, Configuring, WithSites, StartEnded, StopEnded
<1> QED BY <1>2, <1>4, <1>5, <1>6, <1>7 DEF NetInv

LEMMA RemoveLinkKeeps == ASSUME NetInv, RemoveLink PROVE NetInv'
<1>0. /\ IsCmd /\ cmd.failed \in BOOLEAN /\ cmd.pc = "unlink" /\ cmd.todo # <<>> /\ cmd.todo \in Seq(Ips)
      /\ HasFile(cmd.topo, "servers")
  BY DEF NetInv, CmdInv, RemoveLink, At, WithSites, Undoing
<1>1. Tail(cmd.todo) \in Seq(Ips)
  BY <1>0, Elements
<1>2. /\ enabled' = enabled \ {Head(cmd.todo)} /\ Becomes("unsite", Tail(cmd.todo), cmd.failed)
      /\ UNCHANGED <<system, conf, backup, available, served, tc, nics>>
  BY <1>0, Moves, Zenon DEF RemoveLink, Calm, network
<1>3. CmdInv'
  BY <1>0, <1>1, <1>2, CmdKeeps DEF Stopping, Undoing, Configuring, WithSites
<1>4. /\ cmd'.verb = cmd.verb /\ cmd'.topo = cmd.topo /\ cmd'.failed = cmd.failed
      /\ cmd'.pc = "unsite" /\ cmd'.todo = Tail(cmd.todo)
  BY <1>2 DEF Becomes
<1>5. FilesInv'
  BY <1>0, <1>2, <1>4 DEF NetInv, FilesInv, IsConf, Clean, Undoing, Shaping, WithSites, StopEnded
<1>6. SitesInv'
  <2>1. ToSet(cmd.todo) = {Head(cmd.todo)} \cup ToSet(Tail(cmd.todo))
    BY <1>0, Elements
  <2>2. /\ available \cap Servers(cmd.topo) \subseteq ToSet(Tail(cmd.todo))
        /\ enabled \cap Servers(cmd.topo) \subseteq ToSet(cmd.todo)
        /\ (~system.split => available = {} /\ enabled = {})
    BY <1>0 DEF NetInv, SitesInv
  <2>3. (available' \cup enabled') \cap Servers(cmd.topo) \subseteq ToSet(Tail(cmd.todo))
    BY <1>2, <2>1, <2>2
  <2>4. ~system'.split => available' = {} /\ enabled' = {}
    BY <1>2, <2>2
  <2> QED BY <1>4, <2>3, <2>4 DEF SitesInv, Undoing, StopEnded
<1>7. HostsInv'
  BY <1>4 DEF HostsInv, WithSites, StartEnded
<1>8. ShapedInv'
  BY <1>2, <1>4 DEF NetInv, ShapedInv, IsTc, Configuring, WithSites, StartEnded, StopEnded
<1> QED BY <1>3, <1>5, <1>6, <1>7, <1>8 DEF NetInv

LEMMA SitesRemovedKeeps == ASSUME NetInv, SitesRemoved PROVE NetInv'
<1>0. /\ IsCmd /\ cmd.failed \in BOOLEAN /\ cmd.pc = "unsite" /\ cmd.todo = <<>> /\ cmd.todo \in Seq(Ips)
      /\ HasFile(cmd.topo, "servers")
  BY DEF NetInv, CmdInv, SitesRemoved, At, WithSites, Undoing
<1>1. /\ Becomes("restart for stop", cmd.todo, cmd.failed)
      /\ UNCHANGED <<system, conf, backup, available, enabled, served, tc, nics>>
  BY <1>0, Moves DEF SitesRemoved, Calm, network, apache
<1>2. CmdInv'
  BY <1>0, <1>1, CmdKeeps DEF Stopping, Undoing, Configuring, WithSites
<1>3. /\ cmd'.verb = cmd.verb /\ cmd'.topo = cmd.topo /\ cmd'.failed = cmd.failed
      /\ cmd'.pc = "restart for stop"
  BY <1>1 DEF Becomes
<1>4. FilesInv'
  BY <1>0, <1>1, <1>3 DEF NetInv, FilesInv, IsConf, Clean, Undoing, Shaping, WithSites, StopEnded
<1>5. SitesInv'
  <2>1. ToSet(cmd.todo) = {}
    BY <1>0, Elements
  <2>2. (available \cup enabled) \cap Servers(cmd.topo) = {}
        /\ (~system.split => available = {} /\ enabled = {})
    BY <1>0, <2>1 DEF NetInv, SitesInv
  <2> QED BY <1>1, <1>3, <2>2 DEF SitesInv, Undoing, StopEnded
<1>6. HostsInv'
  BY <1>3 DEF HostsInv, WithSites, StartEnded
<1>7. ShapedInv'
  BY <1>1, <1>3 DEF NetInv, ShapedInv, IsTc, Configuring, WithSites, StartEnded, StopEnded
<1> QED BY <1>2, <1>4, <1>5, <1>6, <1>7 DEF NetInv

\* The shaping is undone; if that fails, the program says so.
LEMMA UnshapeKeeps ==
  ASSUME NetInv, cmd.pc = "unshape", NEW fails \in BOOLEAN, Becomes("kill", cmd.todo, fails),
         UNCHANGED <<system, apache>>,
         IsTc', (tc.root \/ tc = NoShaping)', fails = FALSE => tc' = NoShaping
  PROVE  NetInv'
<1>0. HasFile(cmd.topo, "servers")
  BY DEF NetInv, CmdInv, Undoing
<1>1. CmdInv'
  BY <1>0, CmdKeeps DEF Stopping, Undoing, Configuring, WithSites
<1>2. /\ cmd'.verb = cmd.verb /\ cmd'.topo = cmd.topo /\ cmd'.failed = fails /\ cmd'.pc = "kill"
  BY DEF Becomes
<1>3. FilesInv'
  BY <1>2 DEF NetInv, FilesInv, IsConf, Clean, Undoing, Shaping, WithSites, StopEnded, apache
<1>4. SitesInv'
  BY <1>2 DEF NetInv, SitesInv, Undoing, StopEnded, apache
<1>5. HostsInv'
  BY <1>2 DEF HostsInv, WithSites, StartEnded
<1>6. ShapedInv'
  BY <1>2 DEF ShapedInv, Configuring, WithSites, StartEnded, StopEnded
<1> QED BY <1>1, <1>3, <1>4, <1>5, <1>6 DEF NetInv

\* What comes after a stop: its end, or the start that wanted it.
LEMMA KilledKeeps ==
  ASSUME NetInv, cmd.pc = "kill", Becomes(cmd.then, cmd.todo, cmd.failed),
         nics' = Off \/ cmd'.spared = TRUE, UNCHANGED <<system, apache, tc>>
  PROVE  NetInv'
<1>0. /\ cmd.then \in {"nics", "look", "end"} /\ (cmd.then = "end" <=> cmd.verb = "stop")
      /\ cmd.failed \in BOOLEAN
  BY DEF NetInv, CmdInv, Stopping, Undoing
<1>1. CmdInv'
  BY <1>0, CmdKeeps DEF Stopping, Undoing, Configuring, WithSites
<1>2. /\ cmd'.verb = cmd.verb /\ cmd'.topo = cmd.topo /\ cmd'.failed = cmd.failed /\ cmd'.pc = cmd.then
  BY DEF Becomes
<1>3. FilesInv'
  BY <1>0, <1>2 DEF NetInv, FilesInv, IsConf, Clean, Undoing, Shaping, WithSites, StopEnded, apache
<1>4. SitesInv'
  BY <1>0, <1>2 DEF NetInv, SitesInv, Undoing, StopEnded, apache
<1>5. HostsInv'
  BY <1>0, <1>2 DEF HostsInv, WithSites, StartEnded
<1>6. ShapedInv'
  BY <1>0, <1>2 DEF NetInv, ShapedInv, IsTc, Configuring, WithSites, StartEnded, StopEnded
<1> QED BY <1>1, <1>3, <1>4, <1>5, <1>6 DEF NetInv

LEMMA StopKeeps == ASSUME NetInv, Stop PROVE NetInv'
<1> USE DEF Calm, apache, network
<1>0. IsCmd /\ cmd.failed \in BOOLEAN /\ IsTc /\ (tc.root \/ tc = NoShaping)
  BY DEF NetInv, CmdInv, ShapedInv
<1>1. CASE StopWithoutServers
  <2>1. UNCHANGED <<system, conf, backup, available, enabled, tc>> /\ Exit
    BY <1>1 DEF StopWithoutServers
  <2> QED BY <1>0, <2>1, EndKeeps DEF IsTc
<1>2. CASE StopShaping
  <2>1. Becomes("kill", cmd.todo, cmd.failed) /\ cmd.pc = "unshape"
    BY <1>0, <1>2, Moves DEF StopShaping, At
  <2>2. tc' = NoShaping /\ UNCHANGED <<system, apache>>
    BY <1>2 DEF StopShaping, Stopped
  <2>3. IsTc'
    BY <2>2 DEF IsTc, NoShaping
  <2> QED BY <1>0, <2>1, <2>2, <2>3, UnshapeKeeps
<1>3. CASE KillClick
  <2>1. Becomes(cmd.then, cmd.todo, cmd.failed) /\ cmd.pc = "kill" /\ nics' = Off
        /\ UNCHANGED <<system, apache, tc>>
    BY <1>0, <1>3, Moves DEF KillClick, At
  <2> QED BY <1>0, <2>1, KilledKeeps
<1> QED BY <1>1, <1>2, <1>3, ResetKeeps, RemoveSiteKeeps, RemoveLinkKeeps, SitesRemovedKeeps DEF Stop

\* As long as a start does not write, only the shaping has to be looked at.
LEMMA BeforeTheCopy ==
  ASSUME NetInv, NEW pc \in {"shape", "read filters", "filter", "copy"}, NEW todo, NEW fails \in BOOLEAN,
         cmd.pc \in Shaping, HasFile(cmd.topo, "servers"), Becomes(pc, todo, fails),
         pc = "filter" => todo \in Seq(Bottlenecks),
         UNCHANGED <<system, apache>>, ShapedInv'
  PROVE  NetInv'
<1>1. cmd.verb # "stop"
  BY DEF NetInv, CmdInv, Stopping, Undoing, Shaping
<1>2. CmdInv'
  BY <1>1, CmdKeeps DEF Stopping, Undoing, Shaping, WithSites
<1>3. /\ cmd'.verb = cmd.verb /\ cmd'.topo = cmd.topo /\ cmd'.pc = pc
  BY DEF Becomes
<1>4. FilesInv'
  BY <1>3 DEF NetInv, FilesInv, IsConf, Clean, Undoing, Shaping, WithSites, StopEnded, apache
<1>5. SitesInv'
  BY <1>3 DEF NetInv, SitesInv, Undoing, StopEnded, apache
<1>6. HostsInv'
  BY <1>3 DEF HostsInv, WithSites, StartEnded
<1> QED BY <1>2, <1>4, <1>5, <1>6 DEF NetInv

\* After a failure nothing is asked of the shaping but its shape.
LEMMA ShapingFailed ==
  ASSUME NEW pc, NEW todo, Becomes(pc, todo, TRUE), IsTc', (tc.root \/ tc = NoShaping)'
  PROVE  ShapedInv'
<1>1. cmd'.failed
  BY DEF Becomes
<1> QED BY <1>1 DEF ShapedInv

LEMMA CreateNicsKeeps == ASSUME NetInv, CreateNics PROVE NetInv'
<1>0. IsCmd /\ cmd.failed \in BOOLEAN /\ cmd.pc = "nics" /\ HasFile(cmd.topo, "servers")
  BY DEF NetInv, CmdInv, CreateNics, At
<1>1. Becomes("shape", cmd.todo, cmd.failed) /\ UNCHANGED <<system, apache, tc>>
  BY <1>0, Moves DEF CreateNics, Calm
<1>2. cmd'.pc = "shape" /\ cmd'.failed = cmd.failed /\ cmd'.topo = cmd.topo
  BY <1>1 DEF Becomes
<1>3. ShapedInv'
  BY <1>0, <1>1, <1>2 DEF NetInv, ShapedInv, IsTc, Configuring, WithSites, StartEnded, StopEnded
<1> QED BY <1>0, <1>1, <1>3, BeforeTheCopy DEF Shaping

\* Both commands of tc_setup.py start, or fewer of them.
LEMMA StartedShapes ==
  ASSUME IsTc, tc.root \/ tc = NoShaping, NEW done \in 0 .. StartLimit(tc), tc' = Started(tc, done)
  PROVE  /\ IsTc' /\ (tc.root \/ tc = NoShaping)'
         /\ done = StartCommands => /\ tc'.root /\ tc'.filters = {}
                                    /\ tc'.rate = Replaced(tc.rate, DefaultClass, FullRate)
<1>1. PICK r, s : /\ tc' = [root |-> r, rate |-> s, filters |-> tc.filters]
                  /\ r = (tc.root \/ done > 0)
                  /\ s = IF done = StartCommands THEN Replaced(tc.rate, DefaultClass, FullRate) ELSE tc.rate
  BY Shapes, Zenon
<1>2. tc'.root = r /\ tc'.rate = s /\ tc'.filters = tc.filters /\ IsTc'
  BY <1>1 DEF IsTc
<1>3. done \in 0 .. 2
  BY DEF StartLimit, StartCommands
<1>4. CASE tc.root
  <2>1. StartLimit(tc) = 0
    BY <1>4 DEF StartLimit
  <2>2. done # StartCommands
    BY <2>1 DEF StartCommands
  <2>3. r = TRUE
    BY <1>1, <1>4, Zenon
  <2> QED BY <1>2, <2>2, <2>3
<1>5. CASE tc = NoShaping
  <2>1. tc.filters = {} /\ tc.rate = <<>> /\ tc.root = FALSE
    BY <1>5 DEF NoShaping
  <2>2. CASE done = 0
    <3>1. ~(done > 0) /\ done # StartCommands
      BY <2>2 DEF StartCommands
    <3>2. r = FALSE /\ s = tc.rate
      BY <1>1, <2>1, <3>1, Zenon
    <3>3. tc' = [root |-> FALSE, rate |-> <<>>, filters |-> {}]
      BY <1>1, <2>1, <3>2, Zenon
    <3> QED BY <1>2, <3>1, <3>3 DEF NoShaping
  <2>3. CASE done # 0
    <3>1. done > 0
      BY <1>3, <2>3
    <3>2. r = TRUE
      BY <1>1, <3>1, Zenon
    <3>3. done = StartCommands => s = Replaced(tc.rate, DefaultClass, FullRate)
      BY <1>1, Zenon
    <3> QED BY <1>2, <2>1, <3>2, <3>3
  <2> QED BY <2>2, <2>3
<1> QED BY <1>4, <1>5

LEMMA StartShapingKeeps == ASSUME NetInv, StartShaping PROVE NetInv'
<1>0. /\ IsCmd /\ cmd.failed \in BOOLEAN /\ cmd.pc = "shape" /\ HasFile(cmd.topo, "servers")
      /\ IsTc /\ (tc.root \/ tc = NoShaping)
  BY DEF NetInv, CmdInv, ShapedInv, StartShaping, At
<1>1. tc' = Started(tc, StartLimit(tc)) /\ UNCHANGED <<system, apache>>
  BY DEF StartShaping, Calm
<1>2. StartLimit(tc) \in 0 .. StartLimit(tc)
  BY DEF StartLimit, StartCommands
<1>3. /\ IsTc' /\ (tc.root \/ tc = NoShaping)'
      /\ StartLimit(tc) = StartCommands => tc'.root /\ tc'.filters = {}
  BY <1>0, <1>1, <1>2, StartedShapes
<1>4. CASE StartLimit(tc) = StartCommands
  <2>1. Becomes("read filters", cmd.todo, cmd.failed)
    BY <1>0, <1>4, Moves DEF StartShaping
  <2>2. cmd'.pc = "read filters" /\ cmd'.failed = cmd.failed
    BY <2>1 DEF Becomes
  <2>3. ShapedInv'
    BY <1>3, <1>4, <2>2 DEF ShapedInv, Configuring, WithSites, StartEnded, StopEnded
  <2> QED BY <1>0, <1>1, <2>1, <2>3, BeforeTheCopy DEF Shaping
<1>5. CASE StartLimit(tc) # StartCommands
  <2>1. Becomes("copy", cmd.todo, TRUE)
    BY <1>0, <1>5, Moves DEF StartShaping
  <2> QED BY <1>0, <1>1, <1>3, <2>1, ShapingFailed, BeforeTheCopy DEF Shaping
<1> QED BY <1>4, <1>5

LEMMA ReadBottlenecksKeeps == ASSUME NetInv, ReadBottlenecks PROVE NetInv'
<1>0. /\ IsCmd /\ cmd.failed \in BOOLEAN /\ cmd.pc = "read filters" /\ HasFile(cmd.topo, "servers")
      /\ IsTc /\ (tc.root \/ tc = NoShaping) /\ cmd.topo \in DOMAIN TopoFile
  BY DEF NetInv, CmdInv, ShapedInv, ReadBottlenecks, At
<1>1. UNCHANGED <<system, apache, tc, nics>>
  BY DEF ReadBottlenecks, Calm, network
<1>2. CASE HasFile(cmd.topo, "bottlenecks")
  <2> DEFINE lines == GetTopoFile(cmd.topo, "bottlenecks")
  <2>1. Becomes("filter", lines, cmd.failed)
    BY <1>0, <1>2, Moves, Zenon DEF ReadBottlenecks
  <2>2. lines \in Seq(Bottlenecks) /\ FiltersOf(ToSet(lines)) = Filters(cmd.topo)
    BY <1>0, <1>2, ListTypes
  <2> HIDE DEF lines
  <2>3. cmd'.pc = "filter" /\ cmd'.failed = cmd.failed /\ cmd'.topo = cmd.topo /\ cmd'.todo = lines
    BY <2>1 DEF Becomes
  <2>4. ~cmd.failed => tc.root /\ tc.filters = {}
    BY <1>0 DEF NetInv, ShapedInv
  <2>5. ShapedInv'
    <3>1. tc.filters = {} => tc.filters \cup FiltersOf(ToSet(lines)) = Filters(cmd.topo)
      BY <2>2
    <3> QED BY <1>0, <1>1, <2>3, <2>4, <3>1 DEF ShapedInv, IsTc, Configuring, WithSites, StartEnded, StopEnded
  <2> QED BY <1>0, <1>1, <2>1, <2>2, <2>5, BeforeTheCopy DEF Shaping
<1>3. CASE ~HasFile(cmd.topo, "bottlenecks")
  <2>1. Exit
    BY <1>3 DEF ReadBottlenecks
  <2> QED BY <1>0, <1>1, <2>1, EndKeeps DEF apache, IsTc
<1> QED BY <1>2, <1>3

\* One line of the file: the class, and the filters of both directions if all
\* commands succeed.
LEMMA FilterShapes ==
  ASSUME IsTc, tc.root \/ tc = NoShaping, NEW line \in Bottlenecks,
         NEW done \in 0 .. UpdateLimit(tc, line.pair),
         tc' = Updated(tc, line.class, line.pair, FullRate, done)
  PROVE  /\ IsTc' /\ (tc.root \/ tc = NoShaping)'
         /\ tc.root => /\ tc'.root
                       /\ tc'.rate = tc.rate
                            \/ tc'.rate = Replaced(tc.rate, TrafficClass(line.class, line.pair), FullRate)
         /\ done = UpdateCommands(line.pair) => tc'.filters = tc.filters \cup FiltersOf({line})
<1> DEFINE class == TrafficClass(line.class, line.pair)
<1>1. PICK s : /\ tc' = [root |-> tc.root, rate |-> s,
                         filters |-> tc.filters \cup NewFilters(line.pair, class, done)]
               /\ s = IF done > 0 THEN Replaced(tc.rate, class, FullRate) ELSE tc.rate
  BY Shapes, Zenon
<1>2. /\ tc'.root = tc.root /\ tc'.rate = s /\ IsTc'
      /\ tc'.filters = tc.filters \cup NewFilters(line.pair, class, done)
  BY <1>1 DEF IsTc
<1>3. line.pair # NoPair
  BY DEF Bottlenecks, NoPair
<1>4. UpdateCommands(line.pair) = 4
  BY <1>3 DEF UpdateCommands
<1>5. FiltersOf({line}) = {<<line.pair, class>>, <<Reverse(line.pair), class>>}
  BY DEF FiltersOf
<1>6. done = 4 => NewFilters(line.pair, class, done) = FiltersOf({line})
  BY <1>5 DEF NewFilters
<1>7. (tc.root \/ tc = NoShaping)'
  <2>1. CASE tc.root
    BY <1>2, <2>1
  <2>2. CASE tc = NoShaping
    <3>1. tc.root = FALSE /\ tc.filters = {} /\ tc.rate = <<>>
      BY <2>2 DEF NoShaping
    <3>2. done = 0
      BY <3>1 DEF UpdateLimit
    <3>3. NewFilters(line.pair, class, done) = {} /\ ~(done > 0)
      BY <3>2 DEF NewFilters
    <3>4. s = tc.rate
      BY <1>1, <3>3
    <3>5. tc' = [root |-> FALSE, rate |-> <<>>, filters |-> {}]
      BY <1>1, <3>1, <3>3, <3>4
    <3> QED BY <3>5 DEF NoShaping
  <2> QED BY <2>1, <2>2
<1>8. s = tc.rate \/ s = Replaced(tc.rate, class, FullRate)
  BY <1>1, Zenon
<1> QED BY <1>2, <1>4, <1>6, <1>7, <1>8

LEMMA InstallFilterKeeps == ASSUME NetInv, InstallFilter PROVE NetInv'
<1> DEFINE line == Head(cmd.todo)
           limit == UpdateLimit(tc, line.pair)
<1>0. /\ IsCmd /\ cmd.failed \in BOOLEAN /\ cmd.pc = "filter" /\ HasFile(cmd.topo, "servers")
      /\ IsTc /\ (tc.root \/ tc = NoShaping) /\ cmd.todo \in Seq(Bottlenecks) /\ cmd.todo # <<>>
  BY DEF NetInv, CmdInv, ShapedInv, InstallFilter, At
<1>1. /\ line \in Bottlenecks /\ Tail(cmd.todo) \in Seq(Bottlenecks)
      /\ ToSet(cmd.todo) = {line} \cup ToSet(Tail(cmd.todo))
  BY <1>0, Elements
<1>2. tc' = Updated(tc, line.class, line.pair, FullRate, limit) /\ UNCHANGED <<system, apache, nics>>
  BY DEF InstallFilter, Calm
<1>3. limit \in 0 .. limit /\ (limit = UpdateCommands(line.pair) => tc.root)
  BY <1>0 DEF UpdateLimit, UpdateCommands, NoShaping
<1>4. \/ limit = UpdateCommands(line.pair) /\ Becomes("filter", Tail(cmd.todo), cmd.failed)
      \/ Becomes("copy", cmd.todo, TRUE)
  <2>1. \/ limit = UpdateCommands(line.pair) /\ cmd' = [cmd EXCEPT !.todo = Tail(cmd.todo)]
        \/ GotoFailed("copy")
    BY Zenon DEF InstallFilter, GotoFailed
  <2>2. cmd' = [cmd EXCEPT !.todo = Tail(cmd.todo)] => Becomes("filter", Tail(cmd.todo), cmd.failed)
    BY <1>0, Moves, Zenon
  <2>3. GotoFailed("copy") => Becomes("copy", cmd.todo, TRUE)
    BY <1>0, Moves, Zenon
  <2> QED BY <2>1, <2>2, <2>3
<1> HIDE DEF line, limit
<1>5. /\ IsTc' /\ (tc.root \/ tc = NoShaping)' /\ (tc.root => tc'.root)
      /\ limit = UpdateCommands(line.pair) => tc'.filters = tc.filters \cup FiltersOf({line})
  <2>1. limit = UpdateLimit(tc, line.pair)
    BY DEF limit
  <2> QED BY <1>0, <1>1, <1>2, <1>3, <2>1, FilterShapes
<1>6. CASE limit = UpdateCommands(line.pair) /\ Becomes("filter", Tail(cmd.todo), cmd.failed)
  <2>1. /\ cmd'.pc = "filter" /\ cmd'.failed = cmd.failed /\ cmd'.topo = cmd.topo
        /\ cmd'.todo = Tail(cmd.todo)
    BY <1>6 DEF Becomes
  <2>2. ~cmd.failed => tc.root /\ tc.filters \cup FiltersOf(ToSet(cmd.todo)) = Filters(cmd.topo)
    BY <1>0 DEF NetInv, ShapedInv
  <2>3. FiltersOf(ToSet(cmd.todo)) = FiltersOf({line}) \cup FiltersOf(ToSet(Tail(cmd.todo)))
    BY <1>1 DEF FiltersOf
  <2>4. ~cmd.failed => tc'.root /\ tc'.filters \cup FiltersOf(ToSet(cmd'.todo)) = Filters(cmd'.topo)
    BY <1>5, <1>6, <2>1, <2>2, <2>3
  <2>5. ShapedInv'
    BY <1>5, <2>1, <2>4 DEF ShapedInv, Configuring, WithSites, StartEnded, StopEnded
  <2> QED BY <1>0, <1>1, <1>2, <1>6, <2>5, BeforeTheCopy DEF Shaping
<1>7. CASE Becomes("copy", cmd.todo, TRUE)
  BY <1>0, <1>2, <1>5, <1>7, ShapingFailed, BeforeTheCopy DEF Shaping
<1> QED BY <1>4, <1>6, <1>7

LEMMA FiltersInstalledKeeps == ASSUME NetInv, FiltersInstalled PROVE NetInv'
<1>0. /\ IsCmd /\ cmd.failed \in BOOLEAN /\ cmd.pc = "filter" /\ HasFile(cmd.topo, "servers")
      /\ cmd.todo \in Seq(Bottlenecks) /\ cmd.todo = <<>>
  BY DEF NetInv, CmdInv, FiltersInstalled, At
<1>1. Becomes("copy", cmd.todo, cmd.failed) /\ UNCHANGED <<system, apache, tc, nics>>
  BY <1>0, Moves DEF FiltersInstalled, Calm, network
<1>2. cmd'.pc = "copy" /\ cmd'.failed = cmd.failed /\ cmd'.topo = cmd.topo
  BY <1>1 DEF Becomes
<1>3. ToSet(cmd.todo) = {}
  BY <1>0, Elements
<1>4. FiltersOf(ToSet(cmd.todo)) = {}
  BY <1>3 DEF FiltersOf
<1>5. ~cmd.failed => tc.root /\ tc.filters = Filters(cmd.topo)
  BY <1>0, <1>4 DEF NetInv, ShapedInv
<1>6. ShapedInv'
  BY <1>1, <1>2, <1>5 DEF NetInv, ShapedInv, IsTc, Configuring, WithSites, StartEnded, StopEnded
<1> QED BY <1>0, <1>1, <1>6, BeforeTheCopy DEF Shaping

\* While a start writes, the shaping and its failures stay.
LEMMA ShapingStays ==
  ASSUME NetInv, cmd.pc \in Configuring, NEW pc \in Configuring \cup {"end"}, NEW todo,
         Becomes(pc, todo, cmd.failed), UNCHANGED <<tc, nics>>
  PROVE  ShapedInv'
<1>1. cmd.verb # "stop"
  BY DEF NetInv, CmdInv, Stopping, Undoing, Configuring, WithSites
<1>2. cmd'.pc = pc /\ cmd'.failed = cmd.failed /\ cmd'.topo = cmd.topo /\ cmd'.verb = cmd.verb
  BY DEF Becomes
<1> QED BY <1>1, <1>2 DEF NetInv, ShapedInv, IsTc, Configuring, WithSites, StartEnded, StopEnded

\* What the program keeps while it writes.
LEMMA WritingKeeps ==
  ASSUME NetInv, cmd.pc \in Configuring, NEW pc \in Configuring \cup {"end"}, NEW todo,
         NEW fails \in BOOLEAN, Becomes(pc, todo, fails),
         pc \in WithSites => todo \in Seq(Ips), pc \in {"site", "link"} => todo # <<>>
  PROVE  CmdInv' /\ cmd.verb # "stop" /\ cmd.topo \in DOMAIN TopoFile /\ HasFile(cmd.topo, "servers")
<1>1. cmd.verb # "stop"
  BY DEF NetInv, CmdInv, Stopping, Undoing, Configuring, WithSites
<1>2. HasFile(cmd.topo, "servers") /\ cmd.topo \in DOMAIN TopoFile
  BY DEF NetInv, CmdInv, Configuring, WithSites
<1>3. CmdInv'
  BY <1>1, <1>2, CmdKeeps DEF Stopping, Undoing, Configuring, WithSites
<1> QED BY <1>1, <1>2, <1>3

\* A file of the owner's is no missing file.
LEMMA NoFileIsNoConf == ASSUME NEW c, IsConf(c) PROVE c # NoFile
<1> SUFFICES ASSUME c = NoFile PROVE FALSE
  OBVIOUS
<1>1. "whole" \in DOMAIN c
  BY DEF IsConf
<1>2. "whole" \notin DOMAIN NoFile
  BY DEF NoFile
<1> QED BY <1>1, <1>2

\* The backup is made, of a file without anything of netsim's.
LEMMA CopyKeeps == ASSUME NetInv, CopyConf PROVE NetInv'
<1>0. IsCmd /\ cmd.failed \in BOOLEAN /\ cmd.pc = "copy" /\ IsConf(conf) /\ Clean(conf)
  BY DEF NetInv, CmdInv, FilesInv, CopyConf, At
<1>1. /\ backup' = conf /\ Becomes("mark", cmd.todo, cmd.failed)
      /\ UNCHANGED <<system, conf, available, enabled, served, tc, nics>>
  BY <1>0, Moves DEF CopyConf, Calm, network
<1>2. CmdInv'
  BY <1>0, <1>1, WritingKeeps DEF Configuring, WithSites
<1>3. cmd'.pc = "mark" /\ cmd'.topo = cmd.topo
  BY <1>1 DEF Becomes
<1>4. FilesInv'
  BY <1>0, <1>1, <1>3, NoFileIsNoConf DEF FilesInv, IsConf, Clean, Undoing, Shaping, WithSites, StopEnded
<1>5. SitesInv'
  BY <1>1, <1>3 DEF NetInv, SitesInv, Undoing, StopEnded
<1>6. HostsInv'
  BY <1>0, <1>1, <1>3 DEF HostsInv, Clean, WithSites, StartEnded
<1>7. ShapedInv'
  BY <1>0, <1>1, ShapingStays DEF Configuring, WithSites
<1> QED BY <1>2, <1>4, <1>5, <1>6, <1>7 DEF NetInv

LEMMA MarkKeeps == ASSUME NetInv, MarkConf PROVE NetInv'
<1> DEFINE own == GetTopoFile(cmd.topo, "servers")
<1>0. /\ IsCmd /\ cmd.failed \in BOOLEAN /\ cmd.pc = "mark" /\ IsConf(conf) /\ conf.hosts = {}
      /\ HasFile(cmd.topo, "servers") /\ cmd.topo \in DOMAIN TopoFile
      /\ backup # NoFile /\ IsConf(backup) /\ Clean(backup)
  BY DEF NetInv, CmdInv, FilesInv, HostsInv, MarkConf, At, Configuring
<1>1. own \in Seq(Ips) /\ ToSet(own) = Servers(cmd.topo)
  BY <1>0, ListTypes
<1>2. /\ conf' = Marked(conf, system.split) /\ Becomes("host", own, cmd.failed)
      /\ UNCHANGED <<system, backup, available, enabled, served, tc, nics>>
  BY <1>0, Moves, Zenon DEF MarkConf, Calm, network
<1> HIDE DEF own
<1>3. CmdInv'
  BY <1>0, <1>1, <1>2, WritingKeeps DEF Configuring, WithSites
<1>4. cmd'.pc = "host" /\ cmd'.topo = cmd.topo /\ cmd'.todo = own
  BY <1>2 DEF Becomes
<1>5. conf' = [whole |-> conf.whole, marked |-> TRUE, named |-> conf.named \/ ~system.split, hosts |-> conf.hosts]
  BY <1>0, <1>2 DEF Marked, IsConf
<1>6. IsConf(conf') /\ conf'.marked /\ conf'.hosts = {}
  BY <1>0, <1>5 DEF IsConf
<1>7. FilesInv'
  BY <1>0, <1>2, <1>4, <1>6 DEF FilesInv, Undoing, Shaping, WithSites, StopEnded
<1>8. SitesInv'
  BY <1>2, <1>4 DEF NetInv, SitesInv, Undoing, StopEnded
<1>9. HostsInv'
  BY <1>1, <1>4, <1>6 DEF HostsInv, WithSites, StartEnded
<1>10. ShapedInv'
  BY <1>0, <1>2, ShapingStays DEF Configuring, WithSites
<1> QED BY <1>3, <1>7, <1>8, <1>9, <1>10 DEF NetInv

\* An address is appended, and on Ubuntu its site comes next.
LEMMA ListenKeeps == ASSUME NetInv, ListenOn PROVE NetInv'
<1> DEFINE ip == Head(cmd.todo)
<1>0. /\ IsCmd /\ cmd.failed \in BOOLEAN /\ cmd.pc = "host" /\ cmd.todo # <<>> /\ cmd.todo \in Seq(Ips)
      /\ IsConf(conf) /\ conf.marked /\ backup # NoFile /\ IsConf(backup) /\ Clean(backup)
      /\ conf.hosts \cup ToSet(cmd.todo) = Servers(cmd.topo)
      /\ system.split => conf.hosts \subseteq enabled
  BY DEF NetInv, CmdInv, FilesInv, HostsInv, ListenOn, At, WithSites
<1>1. ToSet(cmd.todo) = {ip} \cup ToSet(Tail(cmd.todo)) /\ Tail(cmd.todo) \in Seq(Ips)
  BY <1>0, Elements
<1>2. /\ conf' = WithHost(conf, ip)
      /\ UNCHANGED <<system, backup, available, enabled, served, tc, nics>>
      /\ \/ system.split /\ Becomes("site", cmd.todo, cmd.failed)
         \/ ~system.split /\ Becomes("host", Tail(cmd.todo), cmd.failed)
  <2>1. \/ system.split /\ Goto("site")
        \/ ~system.split /\ cmd' = [cmd EXCEPT !.pc = "host", !.todo = Tail(cmd.todo)]
    BY Zenon DEF ListenOn, NextHost
  <2>2. Goto("site") => Becomes("site", cmd.todo, cmd.failed)
    BY <1>0, Moves, Zenon
  <2>3. cmd' = [cmd EXCEPT !.pc = "host", !.todo = Tail(cmd.todo)] => Becomes("host", Tail(cmd.todo), cmd.failed)
    BY <1>0, Moves, Zenon
  <2>4. /\ conf' = WithHost(conf, ip)
        /\ UNCHANGED <<system, backup, available, enabled, served, tc, nics>>
    BY DEF ListenOn, Calm, network
  <2> QED BY <2>1, <2>2, <2>3, <2>4
<1> HIDE DEF ip
<1>3. conf' = [whole |-> conf.whole, marked |-> conf.marked, named |-> conf.named, hosts |-> conf.hosts \cup {ip}]
  BY <1>0, <1>2 DEF WithHost, IsConf
<1>4. IsConf(conf') /\ conf'.marked /\ conf'.hosts = conf.hosts \cup {ip}
  BY <1>0, <1>3 DEF IsConf
<1>5. CASE system.split /\ Becomes("site", cmd.todo, cmd.failed)
  <2>1. CmdInv'
    BY <1>0, <1>5, WritingKeeps DEF Configuring, WithSites
  <2>2. cmd'.pc = "site" /\ cmd'.topo = cmd.topo /\ cmd'.todo = cmd.todo
    BY <1>5 DEF Becomes
  <2>3. FilesInv'
    BY <1>0, <1>2, <1>4, <2>2 DEF FilesInv, Undoing, Shaping, WithSites, StopEnded
  <2>4. SitesInv'
    BY <1>2, <1>5, <2>2 DEF NetInv, SitesInv, Undoing, StopEnded
  <2>5. HostsInv'
    <3>1. conf'.hosts \cup ToSet(cmd.todo) = Servers(cmd.topo)
      BY <1>0, <1>1, <1>4
    <3>2. conf'.hosts \subseteq enabled \cup {Head(cmd.todo)}
      BY <1>0, <1>4, <1>5 DEF ip
    <3>3. Head(cmd.todo) \in conf'.hosts
      BY <1>4 DEF ip
    <3> QED BY <1>2, <2>2, <3>1, <3>2, <3>3 DEF HostsInv, WithSites, StartEnded
  <2>6. ShapedInv'
    BY <1>0, <1>2, <1>5, ShapingStays DEF Configuring, WithSites
  <2> QED BY <2>1, <2>3, <2>4, <2>5, <2>6 DEF NetInv
<1>6. CASE ~system.split /\ Becomes("host", Tail(cmd.todo), cmd.failed)
  <2>1. CmdInv'
    BY <1>0, <1>1, <1>6, WritingKeeps DEF Configuring, WithSites
  <2>2. cmd'.pc = "host" /\ cmd'.topo = cmd.topo /\ cmd'.todo = Tail(cmd.todo)
    BY <1>6 DEF Becomes
  <2>3. FilesInv'
    BY <1>0, <1>2, <1>4, <2>2 DEF FilesInv, Undoing, Shaping, WithSites, StopEnded
  <2>4. SitesInv'
    BY <1>2, <1>6, <2>2 DEF NetInv, SitesInv, Undoing, StopEnded
  <2>5. HostsInv'
    <3>1. conf'.hosts \cup ToSet(Tail(cmd.todo)) = Servers(cmd.topo)
      BY <1>0, <1>1, <1>4
    <3> QED BY <1>2, <1>6, <2>2, <3>1 DEF HostsInv, WithSites, StartEnded
  <2>6. ShapedInv'
    BY <1>0, <1>2, <1>6, ShapingStays DEF Configuring, WithSites
  <2> QED BY <2>1, <2>3, <2>4, <2>5, <2>6 DEF NetInv
<1> QED BY <1>2, <1>5, <1>6

LEMMA MakeSiteKeeps == ASSUME NetInv, MakeSite PROVE NetInv'
<1>0. /\ IsCmd /\ cmd.failed \in BOOLEAN /\ cmd.pc = "site" /\ cmd.todo # <<>> /\ cmd.todo \in Seq(Ips)
      /\ system.split
  BY DEF NetInv, CmdInv, SitesInv, MakeSite, At, WithSites
<1>1. /\ Becomes("link", cmd.todo, cmd.failed)
      /\ UNCHANGED <<system, conf, backup, enabled, served, tc, nics>>
  BY <1>0, Moves DEF MakeSite, Calm, network
<1>2. CmdInv'
  BY <1>0, <1>1, WritingKeeps DEF Configuring, WithSites
<1>3. cmd'.pc = "link" /\ cmd'.topo = cmd.topo /\ cmd'.todo = cmd.todo
  BY <1>1 DEF Becomes
<1>4. FilesInv'
  BY <1>0, <1>1, <1>3 DEF NetInv, FilesInv, IsConf, Clean, Undoing, Shaping, WithSites, StopEnded
<1>5. SitesInv'
  BY <1>0, <1>1, <1>3 DEF SitesInv, Undoing, StopEnded
<1>6. HostsInv'
  BY <1>0, <1>1, <1>3 DEF NetInv, HostsInv, WithSites, StartEnded
<1>7. ShapedInv'
  BY <1>0, <1>1, ShapingStays DEF Configuring, WithSites
<1> QED BY <1>2, <1>4, <1>5, <1>6, <1>7 DEF NetInv

LEMMA MakeLinkKeeps == ASSUME NetInv, MakeLink PROVE NetInv'
<1>0. /\ IsCmd /\ cmd.failed \in BOOLEAN /\ cmd.pc = "link" /\ cmd.todo # <<>> /\ cmd.todo \in Seq(Ips)
      /\ system.split
      /\ conf.hosts \cup ToSet(cmd.todo) = Servers(cmd.topo)
      /\ conf.hosts \subseteq enabled \cup {Head(cmd.todo)} /\ Head(cmd.todo) \in conf.hosts
  BY DEF NetInv, CmdInv, SitesInv, HostsInv, MakeLink, At, WithSites
<1>1. ToSet(cmd.todo) = {Head(cmd.todo)} \cup ToSet(Tail(cmd.todo)) /\ Tail(cmd.todo) \in Seq(Ips)
  BY <1>0, Elements
<1>2. /\ Becomes("host", Tail(cmd.todo), cmd.failed) /\ enabled' = enabled \cup {Head(cmd.todo)}
      /\ UNCHANGED <<system, conf, backup, available, served, tc, nics>>
  <2>1. /\ enabled' = enabled \cup {Head(cmd.todo)}
        /\ UNCHANGED <<system, conf, backup, available, served, tc, nics>>
    BY DEF MakeLink, Calm, network
  <2>2. cmd' = [cmd EXCEPT !.pc = "host", !.todo = Tail(cmd.todo)]
    BY DEF MakeLink, NextHost
  <2> QED BY <1>0, <2>1, <2>2, Moves, Zenon
<1>3. CmdInv'
  BY <1>0, <1>1, <1>2, WritingKeeps DEF Configuring, WithSites
<1>4. cmd'.pc = "host" /\ cmd'.topo = cmd.topo /\ cmd'.todo = Tail(cmd.todo)
  BY <1>2 DEF Becomes
<1>5. FilesInv'
  BY <1>0, <1>2, <1>4 DEF NetInv, FilesInv, IsConf, Clean, Undoing, Shaping, WithSites, StopEnded
<1>6. SitesInv'
  BY <1>0, <1>2, <1>4 DEF SitesInv, Undoing, StopEnded
<1>7. HostsInv'
  <2>1. conf.hosts \subseteq enabled'
    BY <1>0, <1>2
  <2>2. conf.hosts \cup ToSet(Tail(cmd.todo)) = Servers(cmd.topo)
    BY <1>0, <1>1
  <2> QED BY <1>2, <1>4, <2>1, <2>2 DEF HostsInv, WithSites, StartEnded
<1>8. ShapedInv'
  BY <1>0, <1>2, ShapingStays DEF Configuring, WithSites
<1> QED BY <1>3, <1>5, <1>6, <1>7, <1>8 DEF NetInv

LEMMA ApacheConfiguredKeeps == ASSUME NetInv, ApacheConfigured PROVE NetInv'
<1>0. /\ IsCmd /\ cmd.failed \in BOOLEAN /\ cmd.pc = "host" /\ cmd.todo = <<>> /\ cmd.todo \in Seq(Ips)
      /\ conf.hosts \cup ToSet(cmd.todo) = Servers(cmd.topo)
      /\ system.split => conf.hosts \subseteq enabled
  BY DEF NetInv, CmdInv, HostsInv, ApacheConfigured, At, WithSites
<1>1. /\ Becomes("restart for start", cmd.todo, cmd.failed)
      /\ UNCHANGED <<system, conf, backup, available, enabled, served, tc, nics>>
  BY <1>0, Moves DEF ApacheConfigured, Calm, network, apache
<1>2. CmdInv'
  BY <1>0, <1>1, WritingKeeps DEF Configuring, WithSites
<1>3. cmd'.pc = "restart for start" /\ cmd'.topo = cmd.topo
  BY <1>1 DEF Becomes
<1>4. FilesInv'
  BY <1>0, <1>1, <1>3 DEF NetInv, FilesInv, IsConf, Clean, Undoing, Shaping, WithSites, StopEnded
<1>5. SitesInv'
  BY <1>1, <1>3 DEF NetInv, SitesInv, Undoing, StopEnded
<1>6. HostsInv'
  <2>1. conf.hosts = Servers(cmd.topo)
    BY <1>0, Elements
  <2> QED BY <1>0, <1>1, <1>3, <2>1 DEF HostsInv, WithSites, StartEnded
<1>7. ShapedInv'
  BY <1>0, <1>1, ShapingStays DEF Configuring, WithSites
<1> QED BY <1>2, <1>4, <1>5, <1>6, <1>7 DEF NetInv

\* Apache is restarted within a stop: what follows does not ask for it.
LEMMA RestartForStop ==
  ASSUME NetInv, cmd.pc = "restart for stop", NEW fails \in BOOLEAN, Becomes("unshape", cmd.todo, fails),
         UNCHANGED <<system, conf, backup, available, enabled, tc, nics>>
  PROVE  NetInv'
<1>0. HasFile(cmd.topo, "servers")
  BY DEF NetInv, CmdInv, Undoing
<1>1. CmdInv'
  BY <1>0, CmdKeeps DEF Stopping, Undoing, Configuring, WithSites
<1>2. cmd'.verb = cmd.verb /\ cmd'.topo = cmd.topo /\ cmd'.pc = "unshape"
  BY DEF Becomes
<1>3. FilesInv'
  BY <1>2 DEF NetInv, FilesInv, IsConf, Clean, Undoing, Shaping, WithSites, StopEnded
<1>4. SitesInv'
  BY <1>2 DEF NetInv, SitesInv, Undoing, StopEnded
<1>5. HostsInv'
  BY <1>2 DEF HostsInv, WithSites, StartEnded
<1>6. ShapedInv'
  BY <1>2 DEF NetInv, ShapedInv, IsTc, Configuring, WithSites, StartEnded, StopEnded
<1> QED BY <1>1, <1>3, <1>4, <1>5, <1>6 DEF NetInv

\* Apache is restarted at the end of a start, with what was configured or, after
\* a failure, with anything.
LEMMA RestartForStart ==
  ASSUME NetInv, cmd.pc = "restart for start", NEW fails \in {TRUE, cmd.failed},
         Becomes("end", cmd.todo, fails),
         system.split => fails = TRUE \/ served' = conf.hosts,
         UNCHANGED <<system, conf, backup, available, enabled, tc, nics>>
  PROVE  NetInv'
<1>0. fails \in BOOLEAN
  BY DEF NetInv, CmdInv
<1>1. CmdInv' /\ cmd.verb # "stop"
  BY <1>0, WritingKeeps DEF Configuring, WithSites
<1>2. cmd'.verb = cmd.verb /\ cmd'.topo = cmd.topo /\ cmd'.pc = "end" /\ cmd'.failed = fails
  BY DEF Becomes
<1>3. FilesInv'
  BY <1>1, <1>2 DEF NetInv, FilesInv, IsConf, Clean, Undoing, Shaping, WithSites, StopEnded
<1>4. SitesInv'
  BY <1>1, <1>2 DEF NetInv, SitesInv, Undoing, StopEnded
<1>5. CASE fails = TRUE
  <2>1. cmd'.failed
    BY <1>2, <1>5
  <2>2. HostsInv'
    BY <1>2, <2>1 DEF HostsInv, WithSites
  <2>3. ShapedInv'
    BY <2>1 DEF NetInv, ShapedInv, IsTc
  <2> QED BY <1>1, <1>3, <1>4, <2>2, <2>3 DEF NetInv
<1>6. CASE fails # TRUE
  <2>1. fails = cmd.failed
    BY <1>6
  <2>2. ShapedInv'
    BY <2>1, ShapingStays DEF Configuring, WithSites
  <2>3. cmd.failed \/ conf.hosts = Servers(cmd.topo)
    BY DEF NetInv, HostsInv
  <2>4. system.split => cmd.failed \/ conf.hosts \subseteq enabled
    BY DEF NetInv, HostsInv
  <2>5. HostsInv'
    BY <1>2, <1>6, <2>1, <2>3, <2>4 DEF HostsInv, WithSites
  <2> QED BY <1>1, <1>3, <1>4, <2>2, <2>5 DEF NetInv
<1> QED BY <1>5, <1>6

LEMMA RestartKeeps == ASSUME NetInv, RestartApache PROVE NetInv'
<1>0. IsCmd /\ cmd.failed \in BOOLEAN
  BY DEF NetInv, CmdInv
<1>1. UNCHANGED <<system, conf, backup, available, enabled, tc, nics>>
  BY DEF RestartApache, Calm, network
<1>2. PICK fails \in {TRUE, cmd.failed} :
        /\ Becomes(AfterRestart, cmd.todo, fails)
        /\ system.split => fails = TRUE \/ served' = conf.hosts
  <2>1. CASE Goto(AfterRestart) /\ (system.split => served' = conf.hosts)
    <3>1. Becomes(AfterRestart, cmd.todo, cmd.failed)
      BY <1>0, <2>1, Moves
    <3> QED BY <2>1, <3>1
  <2>2. CASE GotoFailed(AfterRestart)
    <3>1. Becomes(AfterRestart, cmd.todo, TRUE)
      BY <1>0, <2>2, Moves
    <3> QED BY <3>1
  <2> QED BY <2>1, <2>2 DEF RestartApache
<1>3. fails \in BOOLEAN
  BY <1>0
<1>4. CASE cmd.pc = "restart for stop"
  <2>1. AfterRestart = "unshape"
    BY <1>4 DEF AfterRestart, At
  <2> QED BY <1>1, <1>2, <1>3, <1>4, <2>1, RestartForStop
<1>5. CASE cmd.pc = "restart for start"
  <2>1. AfterRestart = "end"
    BY <1>5 DEF AfterRestart, At
  <2> QED BY <1>1, <1>2, <1>5, <2>1, RestartForStart
<1> QED BY <1>4, <1>5 DEF RestartApache

LEMMA StartKeeps == ASSUME NetInv, Start PROVE NetInv'
<1>1. CASE StartWithoutFile
  <2>1. UNCHANGED <<system, conf, backup, available, enabled, tc>> /\ Exit
    BY <1>1 DEF StartWithoutFile, Calm, apache, network
  <2> QED BY <2>1, EndKeeps DEF IsTc, NetInv, ShapedInv
<1> QED BY <1>1, CreateNicsKeeps, StartShapingKeeps, ReadBottlenecksKeeps, InstallFilterKeeps,
           FiltersInstalledKeeps, CopyKeeps, MarkKeeps, ListenKeeps, MakeSiteKeeps, MakeLinkKeeps,
           ApacheConfiguredKeeps DEF Start

-----------------------------------------------------------------------------
(* What goes wrong, and runs *)

\* Fewer commands of tc succeed than could.
LEMMA ShapingFailsKeeps == ASSUME NetInv, ShapingFails PROVE NetInv'
<1>0. IsCmd /\ cmd.failed \in BOOLEAN /\ IsTc /\ (tc.root \/ tc = NoShaping)
  BY DEF NetInv, CmdInv, ShapedInv
<1>1. UNCHANGED <<system, apache, nics>>
  BY DEF ShapingFails
<1>2. CASE /\ At("shape")
           /\ \E n \in 0 .. StartLimit(tc) - 1 : tc' = Started(tc, n)
           /\ GotoFailed("copy")
  <2>1. PICK n \in 0 .. StartLimit(tc) - 1 : tc' = Started(tc, n)
    BY <1>2
  <2>2. StartLimit(tc) \in Nat
    BY DEF StartLimit, StartCommands
  <2>3. n \in 0 .. StartLimit(tc)
    BY <2>2
  <2>4. IsTc' /\ (tc.root \/ tc = NoShaping)'
    BY <1>0, <2>1, <2>3, StartedShapes
  <2>5. Becomes("copy", cmd.todo, TRUE) /\ cmd.pc = "shape"
    BY <1>0, <1>2, Moves DEF At
  <2>6. HasFile(cmd.topo, "servers")
    BY <2>5 DEF NetInv, CmdInv
  <2> QED BY <1>1, <2>4, <2>5, <2>6, ShapingFailed, BeforeTheCopy DEF Shaping
<1>3. CASE /\ At("filter") /\ cmd.todo # <<>>
           /\ \E n \in 0 .. UpdateLimit(tc, Head(cmd.todo).pair) - 1 :
                tc' = Updated(tc, Head(cmd.todo).class, Head(cmd.todo).pair, FullRate, n)
           /\ GotoFailed("copy")
  <2>1. PICK n \in 0 .. UpdateLimit(tc, Head(cmd.todo).pair) - 1 :
          tc' = Updated(tc, Head(cmd.todo).class, Head(cmd.todo).pair, FullRate, n)
    BY <1>3
  <2>2. Becomes("copy", cmd.todo, TRUE) /\ cmd.pc = "filter"
    BY <1>0, <1>3, Moves DEF At
  <2>3. HasFile(cmd.topo, "servers") /\ cmd.todo \in Seq(Bottlenecks)
    BY <2>2 DEF NetInv, CmdInv
  <2>4. Head(cmd.todo) \in Bottlenecks
    BY <1>3, <2>3, Elements
  <2>5. n \in 0 .. UpdateLimit(tc, Head(cmd.todo).pair)
    BY DEF UpdateLimit, UpdateCommands
  <2>6. IsTc' /\ (tc.root \/ tc = NoShaping)'
    BY <1>0, <2>1, <2>4, <2>5, FilterShapes
  <2> QED BY <1>1, <2>2, <2>3, <2>6, ShapingFailed, BeforeTheCopy DEF Shaping
<1>4. CASE At("unshape") /\ GotoFailed("kill") /\ UNCHANGED tc
  <2>1. Becomes("kill", cmd.todo, TRUE) /\ cmd.pc = "unshape"
    BY <1>0, <1>4, Moves DEF At
  <2> QED BY <1>0, <1>1, <1>4, <2>1, UnshapeKeeps DEF IsTc
<1> QED BY <1>2, <1>3, <1>4 DEF ShapingFails

\* A backup that is cut short is as clean as what it was made of.
LEMMA CutShortKeeps == ASSUME NetInv, CopyCutShort PROVE NetInv'
<1>0. IsCmd /\ cmd.pc = "copy" /\ IsConf(conf) /\ Clean(conf) /\ IsTc
  BY DEF NetInv, CmdInv, FilesInv, ShapedInv, CopyCutShort, At
<1>1. /\ backup' = CutShort(conf)
      /\ UNCHANGED <<system, conf, available, enabled, served, tc, nics>>
  BY DEF CopyCutShort, network
<1>2. backup' = [whole |-> FALSE, marked |-> conf.marked, named |-> conf.named, hosts |-> conf.hosts]
  BY <1>0, <1>1 DEF CutShort, IsConf
<1>3. IsConf(backup') /\ Clean(backup') /\ backup' # NoFile
  BY <1>0, <1>2, NoFileIsNoConf DEF IsConf, Clean
<1>4. CASE GotoFailed("restart for start")
  <2>1. Becomes("restart for start", cmd.todo, TRUE)
    BY <1>0, <1>4, Moves
  <2>2. CmdInv'
    BY <1>0, <2>1, WritingKeeps DEF Configuring, WithSites
  <2>3. cmd'.pc = "restart for start" /\ cmd'.failed /\ cmd'.topo = cmd.topo
    BY <2>1 DEF Becomes
  <2>4. FilesInv'
    BY <1>0, <1>1, <1>3, <2>3 DEF FilesInv, IsConf, Clean, Undoing, Shaping, WithSites, StopEnded
  <2>5. SitesInv'
    BY <1>1, <2>3 DEF NetInv, SitesInv, Undoing, StopEnded
  <2>6. HostsInv'
    BY <2>3 DEF HostsInv, WithSites, StartEnded
  <2>7. ShapedInv'
    BY <1>1, <2>3 DEF NetInv, ShapedInv, IsTc
  <2> QED BY <2>2, <2>4, <2>5, <2>6, <2>7 DEF NetInv
<1>5. CASE Exit
  <2>1. cmd' = [pc |-> "idle", verb |-> "none", topo |-> "none", then |-> "end",
                todo |-> <<>>, failed |-> FALSE, spared |-> FALSE]
    BY <1>5 DEF Exit, IdleCmd
  <2>2. CmdInv'
    BY <2>1 DEF CmdInv, IsCmd, Stopping, Undoing, Shaping, Configuring, WithSites
  <2>3. FilesInv'
    BY <1>0, <1>1, <1>3, <2>1 DEF FilesInv, IsConf, Clean, Undoing, Shaping, WithSites, StopEnded
  <2>4. SitesInv'
    BY <1>1, <2>1 DEF NetInv, SitesInv, Undoing, StopEnded
  <2>5. HostsInv'
    BY <2>1 DEF HostsInv, WithSites, StartEnded
  <2>6. ShapedInv'
    BY <1>1, <2>1 DEF NetInv, ShapedInv, IsTc, Configuring, WithSites, StartEnded, StopEnded
  <2> QED BY <2>2, <2>3, <2>4, <2>5, <2>6 DEF NetInv
<1> QED BY <1>4, <1>5 DEF CopyCutShort

LEMMA WrongKeeps == ASSUME NetInv, GoesWrong PROVE NetInv'
<1> USE DEF apache, network
<1>0. IsCmd /\ cmd.failed \in BOOLEAN /\ IsTc /\ (tc.root \/ tc = NoShaping)
  BY DEF NetInv, CmdInv, ShapedInv
<1>1. CASE ClickFails
  <2>1. UNCHANGED <<system, apache, cmd, tc>> /\ nics.state = "starting"
    BY <1>1 DEF ClickFails
  <2>2. nics # Off
    BY <2>1 DEF Off
  <2> QED BY <1>0, <2>1, <2>2, StandsKeeps DEF IsTc
<1>2. CASE Interrupt
  BY <1>0, <1>2, EndKeeps DEF Interrupt, IsTc
<1>3. CASE KillFails
  <2>1. /\ Becomes(cmd.then, cmd.todo, cmd.failed) /\ cmd'.spared = TRUE
        /\ cmd.pc = "kill" /\ UNCHANGED <<system, apache, tc>>
    BY <1>0, <1>3, Moves DEF KillFails, At
  <2> QED BY <2>1, KilledKeeps
<1>4. CASE Reboot
  <2>1. IsTc' /\ (tc.root \/ tc = NoShaping)'
    BY <1>4 DEF Reboot, IsTc, NoShaping
  <2> QED BY <1>4, <2>1, EndKeeps DEF Reboot
<1>5. CASE UpdateFails
  <2>1. PICK n \in 0 .. UpdateLimit(tc, NoPair) - 1 :
          tc' = Updated(tc, Head(run.left).class, NoPair, Rate(Head(run.left).bw), n)
    BY <1>5 DEF UpdateFails
  <2>2. n \in 0 .. UpdateLimit(tc, NoPair)
    BY DEF UpdateLimit, UpdateCommands
  <2>3. UNCHANGED <<system, apache, cmd, nics>>
    BY <1>5 DEF UpdateFails
  <2>4. /\ IsTc' /\ tc'.root = tc.root /\ tc'.filters = tc.filters
        /\ tc = NoShaping => tc' = NoShaping
    BY <1>0, <2>1, <2>2, RunShapes
  <2> QED BY <2>3, <2>4, StandsKeeps
<1> QED BY <1>1, <1>2, <1>3, <1>4, <1>5, ShapingFailsKeeps, CutShortKeeps DEF GoesWrong

LEMMA RunKeeps == ASSUME NetInv, RunStep \/ RunDone \/ NicsUp PROVE NetInv'
<1>0. IsTc /\ (tc.root \/ tc = NoShaping)
  BY DEF NetInv, ShapedInv
<1>1. CASE Wait \/ LogEvent \/ RunDone
  <2>1. UNCHANGED <<system, apache, cmd, tc, nics>>
    BY <1>1 DEF Wait, LogEvent, RunDone, Calm, network
  <2> QED BY <1>0, <2>1, StandsKeeps DEF IsTc
<1>2. CASE NicsUp
  <2>1. UNCHANGED <<system, apache, cmd, tc>> /\ nics.state = "starting"
    BY <1>2 DEF NicsUp, Calm
  <2>2. nics # Off
    BY <2>1 DEF Off
  <2> QED BY <1>0, <2>1, <2>2, StandsKeeps DEF IsTc
<1>3. CASE UpdateLink
  <2>1. tc' = Updated(tc, Head(run.left).class, NoPair, Rate(Head(run.left).bw), UpdateLimit(tc, NoPair))
    BY <1>3 DEF UpdateLink
  <2>2. UpdateLimit(tc, NoPair) \in 0 .. UpdateLimit(tc, NoPair)
    BY DEF UpdateLimit, UpdateCommands
  <2>3. UNCHANGED <<system, apache, cmd, nics>>
    BY <1>3 DEF UpdateLink, Calm
  <2>4. /\ IsTc' /\ tc'.root = tc.root /\ tc'.filters = tc.filters
        /\ tc = NoShaping => tc' = NoShaping
    BY <1>0, <2>1, <2>2, RunShapes
  <2> QED BY <2>3, <2>4, StandsKeeps
<1> QED BY <1>1, <1>2, <1>3 DEF RunStep

\* Whoever takes them, the steps of netsim keep the invariant.
LEMMA NetStepKeeps == ASSUME NetInv, NetStep PROVE NetInv'
<1> USE DEF apache, network, Calm
<1>0. IsTc /\ (tc.root \/ tc = NoShaping)
  BY DEF NetInv, ShapedInv
<1>1. ASSUME NEW t, NEW suffix, NEW logged, RunEvents(t, suffix, logged) PROVE NetInv'
  BY <1>0, <1>1, StandsKeeps DEF RunEvents, IsTc
<1>2. CASE Step
  BY <1>2, LookKeeps, StartKeeps, StopKeeps, RestartKeeps DEF Step
<1>3. CASE Finish
  BY <1>0, <1>3, EndKeeps DEF Finish, IsTc
<1>4. CASE Killed
  BY <1>0, <1>4, EndKeeps DEF Killed, IsTc
<1>5. CASE UNCHANGED vars
  BY <1>0, <1>5, StandsKeeps DEF vars, IsTc
<1> QED BY <1>1, <1>2, <1>3, <1>4, <1>5, InvokeKeeps, RunKeeps, WrongKeeps DEF NetStep

\* An operator takes such steps.
LEMMA OperatorSteps == ASSUME [Next]_vars PROVE NetStep
BY FilesAssumption DEF NetStep, Next, Operator

-----------------------------------------------------------------------------
(* What an operator finds *)

\* The invariant of an operator's network.
THEOREM NetworkInvariant == Spec => []NetInv
<1> QED BY InitNet, NetStepKeeps, OperatorSteps, PTL DEF Spec

\* Only a copy that is cut short loses anything of the owner's.
LEMMA WholeStep == ASSUME NetInv, WholeInv, NetStep PROVE WholeInv'
<1> USE DEF apache, network, Calm
<1>1. CASE UNCHANGED <<conf, backup, cut>>
  BY <1>1 DEF WholeInv
<1>2. ASSUME IsConf(conf), UNCHANGED <<backup, cut>>, conf'.whole = conf.whole PROVE WholeInv'
  BY <1>2 DEF WholeInv
<1>3. CASE ResetApache
  <2> DEFINE old == Restored(conf, backup)
  <2>1. conf' = [old EXCEPT !.named = old.named \/ ~system.split] /\ backup' = NoFile /\ cut' = cut
    BY <1>3, Zenon DEF ResetApache, WithName
  <2>2. IsConf(old)
    BY DEF NetInv, FilesInv, Restored
  <2>3. cut \/ old.whole
    BY DEF WholeInv, Restored
  <2> HIDE DEF old
  <2>4. conf' = [whole |-> old.whole, marked |-> old.marked,
                 named |-> old.named \/ ~system.split, hosts |-> old.hosts]
    BY <2>1, <2>2 DEF IsConf
  <2> QED BY <2>1, <2>3, <2>4 DEF WholeInv
<1>4. CASE CopyConf
  BY <1>4 DEF CopyConf, WholeInv
<1>5. CASE MarkConf
  <2>1. IsConf(conf) /\ conf' = Marked(conf, system.split) /\ UNCHANGED <<backup, cut>>
    BY <1>5 DEF MarkConf, NetInv, FilesInv
  <2>2. conf'.whole = conf.whole
    BY <2>1 DEF Marked, IsConf
  <2> QED BY <1>2, <2>1, <2>2
<1>6. CASE ListenOn
  <2>1. IsConf(conf) /\ conf' = WithHost(conf, Head(cmd.todo)) /\ UNCHANGED <<backup, cut>>
    BY <1>6 DEF ListenOn, NetInv, FilesInv
  <2>2. conf'.whole = conf.whole
    BY <2>1 DEF WithHost, IsConf
  <2> QED BY <1>2, <2>1, <2>2
<1>7. CASE CopyCutShort
  BY <1>7 DEF CopyCutShort, WholeInv
<1>8. ASSUME NEW t, \/ \E verb \in {"start", "stop", "restart"} : Invoke(t, verb)
                    \/ \E suffix, logged : RunEvents(t, suffix, logged)
      PROVE  UNCHANGED <<conf, backup, cut>>
  BY <1>8 DEF Invoke, RunEvents
<1>9. CASE Start
  <2>1. \/ UNCHANGED <<conf, backup, cut>>
        \/ CopyConf \/ MarkConf \/ ListenOn
    BY <1>9 DEF Start, StartWithoutFile, CreateNics, StartShaping, ReadBottlenecks, InstallFilter,
                FiltersInstalled, MakeSite, MakeLink, ApacheConfigured
  <2> QED BY <1>1, <1>4, <1>5, <1>6, <2>1
<1>10. CASE Stop
  <2>1. UNCHANGED <<conf, backup, cut>> \/ ResetApache
    BY <1>10 DEF Stop, StopWithoutServers, RemoveSite, RemoveLink, SitesRemoved, StopShaping, KillClick
  <2> QED BY <1>1, <1>3, <2>1
<1>11. CASE Look \/ RestartApache \/ Finish \/ RunStep \/ RunDone \/ NicsUp
  <2>1. UNCHANGED <<conf, backup, cut>>
    BY <1>11 DEF Look, RestartApache, Finish, RunStep, Wait, UpdateLink, LogEvent, RunDone, NicsUp
  <2> QED BY <1>1, <2>1
<1>12. CASE GoesWrong
  <2>1. UNCHANGED <<conf, backup, cut>> \/ CopyCutShort
    BY <1>12 DEF GoesWrong, ShapingFails, ClickFails, Interrupt, KillFails, Reboot, UpdateFails
  <2> QED BY <1>1, <1>7, <2>1
<1>13. CASE Killed \/ UNCHANGED vars
  <2>1. UNCHANGED <<conf, backup, cut>>
    BY <1>13 DEF Killed, vars
  <2> QED BY <1>1, <2>1
<1> QED BY <1>1, <1>8, <1>9, <1>10, <1>11, <1>12, <1>13 DEF NetStep, Step

\* Whatever start, stop, interrupt, failure and reboot come after each other,
\* what the owner had in the configuration is in the backup, or in the file if
\* there is none, unless a copy was cut short.
THEOREM OriginalKeptCorrect == Spec => []OriginalKept
<1>1. Init => WholeInv
  BY DEF Init, WholeInv, Original
<1>2. NetInv /\ WholeInv /\ [Next]_vars => WholeInv'
  BY WholeStep, OperatorSteps
<1>3. NetInv /\ WholeInv => OriginalKept
  BY DEF NetInv, FilesInv, WholeInv, Clean, Untouched, OriginalKept
<1> QED BY <1>1, <1>2, <1>3, NetworkInvariant, PTL DEF Spec

\* A stop that logs no failure leaves no mark, address, backup, site, link,
\* interface or shaping of its topology behind, however far the starts and stops
\* before it came, but for the interfaces if its killall failed or was
\* interrupted, which netsim passes over without a word.
THEOREM StoppedCleanCorrect == Spec => []StoppedClean
<1>1. NetInv => StoppedClean
  <2> SUFFICES ASSUME NetInv, StopEnded, ~cmd.failed
               PROVE  /\ Clean(conf) /\ backup = NoFile
                      /\ (available \cup enabled) \cap Servers(cmd.topo) = {}
                      /\ tc = NoShaping /\ (cmd.spared \/ nics = Off)
    BY DEF StoppedClean, At, StopEnded, Clean
  <2>1. backup = NoFile /\ Clean(conf)
    BY DEF NetInv, FilesInv
  <2>2. (available \cup enabled) \cap Servers(cmd.topo) = {}
    BY DEF NetInv, SitesInv
  <2>3. tc = NoShaping /\ (cmd.spared \/ nics = Off)
    BY DEF NetInv, ShapedInv
  <2> QED BY <2>1, <2>2, <2>3
<1> QED BY <1>1, NetworkInvariant, PTL

\* A start that logs no failure has Apache listen on exactly its servers'
\* addresses, and serve each through a site on Ubuntu, and has installed exactly
\* the filters of its bottlenecks, whatever was left before.
THEOREM StartedCompleteCorrect == Spec => []StartedComplete
<1>1. NetInv => StartedComplete
  <2> SUFFICES ASSUME NetInv, StartEnded, ~cmd.failed
               PROVE  /\ conf.hosts = Servers(cmd.topo)
                      /\ system.split => served = Servers(cmd.topo) /\ served \subseteq enabled
                      /\ tc.root /\ tc.filters = Filters(cmd.topo)
    BY DEF StartedComplete, At, StartEnded
  <2>1. conf.hosts = Servers(cmd.topo)
    BY DEF NetInv, HostsInv
  <2>2. system.split => served = conf.hosts /\ conf.hosts \subseteq enabled
    BY DEF NetInv, HostsInv
  <2>3. tc.root /\ tc.filters = Filters(cmd.topo)
    BY DEF NetInv, ShapedInv
  <2> QED BY <2>1, <2>2, <2>3
<1> QED BY <1>1, NetworkInvariant, PTL

-----------------------------------------------------------------------------
(* The log of a run *)

\* The run goes on, with the rest of its events.
RunBecomes(pc, left, exact) ==
  run' = [pc |-> pc, left |-> left, logged |-> run.logged, exact |-> exact]

\* The ways a step says so.
LEMMA RunMoves ==
  ASSUME IsRun
  PROVE  /\ \A pc : run' = [run EXCEPT !.pc = pc] => RunBecomes(pc, run.left, run.exact)
         /\ \A exact : run' = NextEvent(exact) => RunBecomes("wait", Tail(run.left), run.exact /\ exact)
         /\ Disturb => RunBecomes(run.pc, run.left, FALSE) /\ log' = log
<1> DEFINE Run(p, l, e) == [pc |-> p, left |-> l, logged |-> run.logged, exact |-> e]
<1>1. ASSUME NEW pc PROVE [run EXCEPT !.pc = pc] = Run(pc, run.left, run.exact)
  BY DEF IsRun
<1>2. ASSUME NEW e PROVE [run EXCEPT !.exact = e] = Run(run.pc, run.left, e)
  BY DEF IsRun
<1>3. ASSUME NEW pc, NEW left, NEW e
      PROVE  [run EXCEPT !.pc = pc, !.left = left, !.exact = e] = Run(pc, left, e)
  <2>1. [run EXCEPT !.pc = pc, !.left = left, !.exact = e] =
          [[[run EXCEPT !.pc = pc] EXCEPT !.left = left] EXCEPT !.exact = e]
    OBVIOUS
  <2>2. [Run(pc, run.left, run.exact) EXCEPT !.left = left] = Run(pc, left, run.exact)
    OBVIOUS
  <2>3. [Run(pc, left, run.exact) EXCEPT !.exact = e] = Run(pc, left, e)
    OBVIOUS
  <2> QED BY <1>1, <2>1, <2>2, <2>3, Zenon
<1>4. ASSUME NEW exact, run' = NextEvent(exact) PROVE RunBecomes("wait", Tail(run.left), run.exact /\ exact)
  <2>1. run' = [run EXCEPT !.pc = "wait", !.left = Tail(run.left), !.exact = run.exact /\ exact]
    BY <1>4, Zenon DEF NextEvent
  <2> QED BY <1>3, <2>1, Zenon DEF RunBecomes
<1>5. ASSUME Disturb PROVE RunBecomes(run.pc, run.left, FALSE) /\ log' = log
  <2>1. run' = [run EXCEPT !.exact = FALSE] /\ log' = log
    BY <1>5 DEF Disturb
  <2> QED BY <1>2, <2>1, Zenon DEF RunBecomes
<1> QED BY <1>1, <1>4, <1>5, Zenon DEF RunBecomes

\* A run that is not exact promises nothing of its links.
LEMMA InexactKeeps ==
  ASSUME LogInv, log' = log, RunBecomes(run.pc, run.left, FALSE)
  PROVE  LogInv'
<1>1. /\ IsRun' /\ run'.exact = FALSE /\ run'.logged = run.logged
      /\ run'.pc = run.pc /\ run'.left = run.left
  BY DEF RunBecomes, IsRun
<1> QED BY <1>1 DEF LogInv

\* An event is over, without a promise.
LEMMA NextInexact ==
  ASSUME LogInv, log' \in Seq(Entries), run.pc # "idle", run.left # <<>>,
         RunBecomes("wait", Tail(run.left), FALSE)
  PROVE  LogInv'
<1>1. /\ IsRun' /\ run'.exact = FALSE /\ run'.logged = run.logged
      /\ run'.pc = "wait" /\ run'.left = Tail(run.left)
  BY DEF RunBecomes, IsRun
<1>2. run.logged => Tail(run.left) \in Seq(Changes)
  BY DEF LogInv
<1> QED BY <1>1, <1>2 DEF LogInv

\* Neither the run nor the shaping moves.
LEMMA LinksStand == ASSUME LogInv, UNCHANGED <<run, log, tc>> PROVE LogInv'
BY DEF LogInv, IsRun, LinksBut

LEMMA IdleKeeps == ASSUME log \in Seq(Entries), log' = log, run' = IdleRun PROVE LogInv'
<1>1. /\ IsRun' /\ run'.exact = FALSE /\ run'.logged = FALSE
      /\ run'.pc = "idle" /\ run'.left = <<>>
  BY DEF IdleRun, IsRun
<1> QED BY <1>1 DEF LogInv

\* A run begins with an empty log, or without one.
LEMMA RunEventsKeeps ==
  ASSUME LogInv, NEW t, NEW suffix, NEW logged \in BOOLEAN,
         logged => t \in DOMAIN TopoFile /\ suffix = "events", RunEvents(t, suffix, logged)
  PROVE  LogInv'
<1>1. log' \in Seq(Entries) /\ (logged => log' = <<>>)
  BY DEF RunEvents, LogInv
<1>2. CASE HasFile(t, suffix)
  <2>1. run' = [pc |-> "wait", left |-> GetTopoFile(t, suffix), logged |-> logged, exact |-> logged]
    BY <1>2 DEF RunEvents
  <2>2. /\ IsRun' /\ run'.exact = logged /\ run'.logged = logged
        /\ run'.pc = "wait" /\ run'.left = GetTopoFile(t, suffix)
    BY <2>1 DEF IsRun
  <2>3. logged => run'.left \in Seq(Changes)
    BY <1>2, <2>2, FilesAssumption
  <2>4. logged => DOMAIN log' = {}
    BY <1>1
  <2> QED BY <1>1, <2>2, <2>3, <2>4 DEF LogInv, LinksBut
<1>3. CASE ~HasFile(t, suffix)
  <2>1. run' = IdleRun
    BY <1>3 DEF RunEvents
  <2>2. /\ IsRun' /\ run'.exact = FALSE /\ run'.logged = FALSE
        /\ run'.pc = "idle" /\ run'.left = <<>>
    BY <2>1 DEF IdleRun, IsRun
  <2> QED BY <1>1, <2>2 DEF LogInv
<1> QED BY <1>2, <1>3

\* A bandwidth in bits a second.
LEMMA RateIsNat == ASSUME NEW event \in Changes PROVE Rate(event.bw) \in Nat
<1>1. event.bw.tenths \in Nat /\ event.bw.unit \in Units
  BY DEF Changes
<1>2. Bits(event.bw.unit) \in {1000, 1000000, 8000, 8000000, 8}
  BY <1>1 DEF Bits, Units
<1> QED BY <1>1, <1>2 DEF Rate

\* The link of an event gets the event's rate, and no other one changes.
LEMMA UpdateKeeps == ASSUME NetInv, LogInv, UpdateLink PROVE LogInv'
<1> DEFINE event == Head(run.left)
           limit == UpdateLimit(tc, NoPair)
<1>0. IsTc /\ IsRun /\ run.pc = "execute" /\ run.left # <<>> /\ run.exact \in BOOLEAN /\ log \in Seq(Entries)
  BY DEF NetInv, ShapedInv, LogInv, UpdateLink
<1>1. tc' = Updated(tc, event.class, NoPair, Rate(event.bw), limit) /\ log' = log
  BY DEF UpdateLink
<1>2. CASE limit = UpdateCommands(NoPair)
  <2>1. RunBecomes("log", run.left, run.exact)
    BY <1>0, <1>2, RunMoves DEF UpdateLink
  <2>2. /\ IsRun' /\ run'.exact = run.exact /\ run'.logged = run.logged
        /\ run'.pc = "log" /\ run'.left = run.left
    BY <2>1 DEF RunBecomes, IsRun
  <2>3. run.logged => run.left \in Seq(Changes)
    BY <1>0 DEF LogInv
  <2>4. ASSUME run.exact = TRUE
        PROVE  /\ event.class \in DOMAIN tc'.rate /\ tc'.rate[event.class] = Rate(event.bw)
               /\ LinksBut(event.class)'
    <3>1. run.left \in Seq(Changes) /\ LinksBut(0)
      BY <1>0, <2>3, <2>4 DEF LogInv
    <3>2. event \in Changes
      BY <1>0, <3>1, Elements
    <3>3. event.class # 0
      BY <3>2 DEF Changes
    <3>4. limit > 0
      BY <1>2 DEF UpdateCommands
    <3> HIDE DEF event, limit
    <3>5. TrafficClass(event.class, NoPair) = event.class
      BY <3>3 DEF TrafficClass
    <3>6. tc' = [root |-> tc.root, rate |-> Replaced(tc.rate, event.class, Rate(event.bw)),
                 filters |-> tc.filters \cup NewFilters(NoPair, event.class, limit)]
      <4> DEFINE class == TrafficClass(event.class, NoPair)
      <4>1. tc' = [root |-> tc.root,
                   rate |-> IF limit > 0 THEN Replaced(tc.rate, class, Rate(event.bw)) ELSE tc.rate,
                   filters |-> tc.filters \cup NewFilters(NoPair, class, limit)]
        BY <1>0, <1>1, UpdateShape, Zenon
      <4>2. (IF limit > 0 THEN Replaced(tc.rate, event.class, Rate(event.bw)) ELSE tc.rate)
            = Replaced(tc.rate, event.class, Rate(event.bw))
        BY <3>4
      <4> QED BY <3>5, <4>1, <4>2, Zenon
    <3>7. tc'.rate = Replaced(tc.rate, event.class, Rate(event.bw))
      BY <3>6
    <3>8. /\ event.class \in DOMAIN tc'.rate /\ tc'.rate[event.class] = Rate(event.bw)
          /\ \A c \in DOMAIN tc.rate : c # event.class => c \in DOMAIN tc'.rate /\ tc'.rate[c] = tc.rate[c]
      BY <3>7 DEF Replaced
    <3>9. \A i \in DOMAIN log : log[i].class # 0
      <4>1. \A i \in DOMAIN log : log[i] \in Entries
        BY <1>0
      <4> QED BY <4>1 DEF Entries
    <3>10. LinksBut(event.class)'
      <4>1. event' = Head(run'.left)
        BY DEF event
      <4> SUFFICES ASSUME NEW i \in DOMAIN log, log[i].class # event.class,
                          \A j \in i + 1 .. Len(log) : log[j].class # log[i].class
                   PROVE  log[i].class \in DOMAIN tc'.rate /\ tc'.rate[log[i].class] = log[i].rate
        BY <1>1, <2>2, <4>1 DEF LinksBut, event
      <4>2. log[i].class \in DOMAIN tc.rate /\ tc.rate[log[i].class] = log[i].rate
        BY <3>1, <3>9 DEF LinksBut
      <4> QED BY <3>8, <4>2
    <3> QED BY <3>8, <3>10
  <2>5. ASSUME run'.exact
        PROVE  /\ Head(run'.left).class \in DOMAIN tc'.rate
               /\ tc'.rate[Head(run'.left).class] = Rate(Head(run'.left).bw)
               /\ LinksBut(Head(run.left).class)'
    <3>1. run.exact = TRUE
      BY <1>0, <2>2, <2>5
    <3> QED BY <2>2, <2>4, <3>1
  <2> QED BY <1>0, <1>1, <2>2, <2>3, <2>5 DEF LogInv
<1>3. CASE limit # UpdateCommands(NoPair)
  <2>1. run' = NextEvent(FALSE)
    BY <1>3 DEF UpdateLink
  <2>2. RunBecomes("wait", Tail(run.left), run.exact /\ FALSE)
    BY <1>0, <2>1, RunMoves, Zenon
  <2>3. (run.exact /\ FALSE) = FALSE
    OBVIOUS
  <2>4. RunBecomes("wait", Tail(run.left), FALSE)
    BY <2>2, <2>3, Zenon
  <2> QED BY <1>0, <1>1, <2>4, NextInexact
<1> QED BY <1>2, <1>3

\* The event is logged in the rate that its link has by then.
LEMMA LogEventKeeps == ASSUME LogInv, LogEvent PROVE LogInv'
<1> DEFINE event == Head(run.left)
           new == [class |-> event.class, rate |-> BwToKbps(event.bw)]
<1>0. /\ IsRun /\ run.pc = "log" /\ run.left # <<>> /\ run.exact \in BOOLEAN /\ run.logged \in BOOLEAN
      /\ log \in Seq(Entries) /\ tc' = tc
  BY DEF LogInv, LogEvent, network
<1>1. /\ log' = IF run.logged /\ Convertible(event.bw) THEN Append(log, new) ELSE log
      /\ RunBecomes("wait", Tail(run.left), run.exact /\ Convertible(event.bw))
  <2>1. /\ log' = IF run.logged /\ Convertible(event.bw) THEN Append(log, new) ELSE log
        /\ run' = NextEvent(Convertible(event.bw))
    BY DEF LogEvent
  <2> QED BY <1>0, <2>1, RunMoves, Zenon
<1>2. run.logged => new \in Entries
  <2>1. SUFFICES ASSUME run.logged PROVE new \in Entries
    OBVIOUS
  <2>2. event \in Changes
    BY <1>0, <2>1, Elements DEF LogInv
  <2> QED BY <2>2, RateIsNat DEF Entries, Changes, BwToKbps
<1>3. log' \in Seq(Entries)
  <2> HIDE DEF new
  <2> QED BY <1>0, <1>1, <1>2
<1>4. CASE run.exact /\ Convertible(event.bw)
  <2>1. run.logged
    BY <1>4 DEF LogInv
  <2>2. log' = Append(log, new)
    BY <1>1, <1>4, <2>1
  <2>3. RunBecomes("wait", Tail(run.left), TRUE)
    <3>1. (run.exact /\ Convertible(event.bw)) = TRUE
      BY <1>4
    <3> QED BY <1>1, <3>1, Zenon
  <2>4. /\ IsRun' /\ run'.exact = TRUE /\ run'.logged = run.logged
        /\ run'.pc = "wait" /\ run'.left = Tail(run.left)
    BY <2>3 DEF RunBecomes, IsRun
  <2>5. Tail(run.left) \in Seq(Changes)
    BY <1>0, <2>1, Elements DEF LogInv
  <2>6. /\ event.class \in DOMAIN tc.rate /\ tc.rate[event.class] = Rate(event.bw)
        /\ LinksBut(event.class)
    BY <1>0, <1>4 DEF LogInv
  <2>7. new.class = event.class /\ new.rate = Rate(event.bw)
    BY DEF BwToKbps
  <2> HIDE DEF event, new
  <2>8. LinksBut(0)'
    <3> SUFFICES ASSUME NEW i \in DOMAIN log',
                        \A j \in i + 1 .. Len(log') : log'[j].class # log'[i].class
                 PROVE  log'[i].class \in DOMAIN tc.rate /\ tc.rate[log'[i].class] = log'[i].rate
      BY <1>0 DEF LinksBut
    <3>1. /\ Len(log') = Len(log) + 1 /\ Len(log) \in Nat /\ i \in 1 .. Len(log) + 1
          /\ log'[Len(log) + 1] = new /\ \A j \in 1 .. Len(log) : log'[j] = log[j]
      BY <1>0, <2>2
    <3>2. CASE i = Len(log) + 1
      BY <2>6, <2>7, <3>1, <3>2
    <3>3. CASE i # Len(log) + 1
      <4>1. i \in 1 .. Len(log) /\ log'[i] = log[i]
        BY <3>1, <3>3
      <4>2. Len(log) + 1 \in i + 1 .. Len(log')
        BY <3>1, <4>1
      <4>3. log[i].class # event.class
        BY <2>7, <3>1, <4>1, <4>2
      <4>4. \A j \in i + 1 .. Len(log) : log[j].class # log[i].class
        <5> SUFFICES ASSUME NEW j \in i + 1 .. Len(log) PROVE log[j].class # log[i].class
          OBVIOUS
        <5>1. j \in i + 1 .. Len(log') /\ j \in 1 .. Len(log)
          BY <3>1, <4>1
        <5> QED BY <3>1, <4>1, <5>1
      <4>5. i \in DOMAIN log
        BY <1>0, <4>1
      <4> QED BY <2>6, <4>1, <4>3, <4>4, <4>5 DEF LinksBut
    <3> QED BY <3>2, <3>3
  <2> QED BY <1>0, <1>3, <2>1, <2>4, <2>5, <2>8 DEF LogInv
<1>5. CASE ~(run.exact /\ Convertible(event.bw))
  <2>1. (run.exact /\ Convertible(event.bw)) = FALSE
    BY <1>5
  <2>2. RunBecomes("wait", Tail(run.left), FALSE)
    BY <1>1, <2>1, Zenon
  <2> QED BY <1>0, <1>3, <2>2, NextInexact
<1> QED BY <1>4, <1>5

\* Only an event moves a link while the run is exact.
LEMMA LogStep == ASSUME NetInv, LogInv, NetStep PROVE LogInv'
<1> USE DEF network, running, Calm
<1>0. IsRun /\ log \in Seq(Entries)
  BY DEF LogInv
<1>1. ASSUME Disturb PROVE LogInv'
  BY <1>0, <1>1, RunMoves, InexactKeeps
<1>2. ASSUME NEW t \in DOMAIN TopoFile, NEW verb, Invoke(t, verb) PROVE LogInv'
  BY <1>1, <1>2 DEF Invoke
<1>3. ASSUME NEW t, \/ t \in DOMAIN TopoFile /\ RunEvents(t, "events", TRUE)
                    \/ \E suffix : RunEvents(t, suffix, FALSE)
      PROVE  LogInv'
  BY <1>3, RunEventsKeeps
<1>4. CASE Start
  <2>1. UNCHANGED <<run, log, tc>> \/ Disturb
    BY <1>4 DEF Start, StartWithoutFile, CreateNics, StartShaping, ReadBottlenecks, InstallFilter,
                FiltersInstalled, CopyConf, MarkConf, ListenOn, MakeSite, MakeLink, ApacheConfigured
  <2> QED BY <1>1, <2>1, LinksStand
<1>5. CASE Stop
  <2>1. UNCHANGED <<run, log, tc>> \/ Disturb
    BY <1>5 DEF Stop, StopWithoutServers, ResetApache, RemoveSite, RemoveLink, SitesRemoved, StopShaping, KillClick
  <2> QED BY <1>1, <2>1, LinksStand
<1>6. CASE Look \/ RestartApache \/ Finish \/ NicsUp \/ UNCHANGED vars
  <2>1. UNCHANGED <<run, log, tc>>
    BY <1>6 DEF Look, RestartApache, Finish, NicsUp, vars
  <2> QED BY <2>1, LinksStand
<1>7. CASE Wait
  <2>1. run.pc = "wait" /\ run.left # <<>> /\ log' = log /\ tc' = tc
    BY <1>7 DEF Wait, RunOnly
  <2>2. CASE Head(run.left).when = "invalid"
    <3>1. run' = NextEvent(TRUE)
      BY <1>7, <2>2 DEF Wait
    <3>2. RunBecomes("wait", Tail(run.left), run.exact /\ TRUE)
      BY <1>0, <3>1, RunMoves, Zenon
    <3>3. (run.exact /\ TRUE) = run.exact
      BY DEF LogInv
    <3>4. RunBecomes("wait", Tail(run.left), run.exact)
      BY <3>2, <3>3, Zenon
    <3>5. /\ IsRun' /\ run'.exact = run.exact /\ run'.logged = run.logged
          /\ run'.pc = "wait" /\ run'.left = Tail(run.left)
      BY <3>4 DEF RunBecomes, IsRun
    <3>6. run.logged => Tail(run.left) \in Seq(Changes)
      BY <2>1, Elements DEF LogInv
    <3> QED BY <2>1, <3>5, <3>6 DEF LogInv, LinksBut
  <2>3. CASE Head(run.left).when # "invalid"
    <3>1. run' = [run EXCEPT !.pc = "execute"]
      BY <1>7, <2>3 DEF Wait, RunOnly
    <3>2. RunBecomes("execute", run.left, run.exact)
      BY <1>0, <3>1, RunMoves, Zenon
    <3>3. /\ IsRun' /\ run'.exact = run.exact /\ run'.logged = run.logged
          /\ run'.pc = "execute" /\ run'.left = run.left
      BY <3>2 DEF RunBecomes, IsRun
    <3> QED BY <2>1, <3>3 DEF LogInv, LinksBut
  <2> QED BY <2>2, <2>3
<1>8. CASE RunDone
  <2>1. run' = [run EXCEPT !.pc = "idle"] /\ run.pc = "wait" /\ log' = log /\ tc' = tc
    BY <1>8 DEF RunDone, RunOnly
  <2>2. RunBecomes("idle", run.left, run.exact)
    BY <1>0, <2>1, RunMoves, Zenon
  <2>3. /\ IsRun' /\ run'.exact = run.exact /\ run'.logged = run.logged
        /\ run'.pc = "idle" /\ run'.left = run.left
    BY <2>2 DEF RunBecomes, IsRun
  <2> QED BY <2>1, <2>3 DEF LogInv, LinksBut
<1>9. CASE GoesWrong
  <2>1. CASE UpdateFails
    <3>1. run' = NextEvent(FALSE) /\ run.pc = "execute" /\ log' = log
      BY <2>1 DEF UpdateFails
    <3>2. RunBecomes("wait", Tail(run.left), run.exact /\ FALSE)
      BY <1>0, <3>1, RunMoves, Zenon
    <3>3. (run.exact /\ FALSE) = FALSE
      OBVIOUS
    <3>4. RunBecomes("wait", Tail(run.left), FALSE)
      BY <3>2, <3>3, Zenon
    <3>5. run.left # <<>>
      BY <3>1 DEF LogInv
    <3> QED BY <1>0, <3>1, <3>4, <3>5, NextInexact
  <2>2. CASE Reboot
    BY <1>0, <2>2, IdleKeeps DEF Reboot
  <2>3. CASE ~(UpdateFails \/ Reboot)
    <3>1. UNCHANGED <<run, log, tc>> \/ Disturb
      BY <1>9, <2>3 DEF GoesWrong, ShapingFails, ClickFails, CopyCutShort, Interrupt, KillFails
    <3> QED BY <1>1, <3>1, LinksStand
  <2> QED BY <2>1, <2>2, <2>3
<1>10. CASE Killed
  BY <1>0, <1>10, IdleKeeps DEF Killed
<1> QED BY <1>2, <1>3, <1>4, <1>5, <1>6, <1>7, <1>8, <1>9, <1>10, UpdateKeeps, LogEventKeeps
        DEF NetStep, Step, RunStep

LEMMA InitLog == Init => LogInv
<1> SUFFICES ASSUME Init PROVE LogInv
  OBVIOUS
<1>1. /\ IsRun /\ run.exact = FALSE /\ run.logged = FALSE /\ run.pc = "idle" /\ log = <<>>
  BY DEF Init, IdleRun, IsRun
<1>2. log \in Seq(Entries) /\ LinksBut(0)
  BY <1>1 DEF LinksBut
<1>3. run.exact \in BOOLEAN /\ run.logged \in BOOLEAN
  BY <1>1
<1> QED BY <1>1, <1>2, <1>3 DEF LogInv

\* As long as nothing failed and nobody started or stopped the network, every
\* link has the rate that was logged for it last, whatever the events are and
\* however long their list.
THEOREM LinkAsLoggedCorrect == Spec => []LinkAsLogged
<1>1. Init => LogInv
  BY InitLog
<1>2. NetInv /\ LogInv /\ [Next]_vars => LogInv'
  BY LogStep, OperatorSteps
<1>3. LogInv => LinkAsLogged
  <2> SUFFICES ASSUME LogInv, run.exact, run.pc # "log" PROVE LinkAsLogged
    BY DEF LinkAsLogged
  <2>1. log \in Seq(Entries) /\ LinksBut(0)
    BY DEF LogInv
  <2>2. ASSUME NEW i \in DOMAIN log PROVE log[i].class # 0
    <3>1. log[i] \in Entries
      BY <2>1, <2>2
    <3> QED BY <3>1 DEF Entries
  <2> QED BY <2>1, <2>2 DEF LinksBut, LinkAsLogged
<1> QED BY <1>1, <1>2, <1>3, NetworkInvariant, PTL DEF Spec


-----------------------------------------------------------------------------
(* The grader: where a test is *)

Cases == [name : Tests, topo : DOMAIN TopoFile \cup {NoTopology}]

Words == {"run proxy", "run nameserver", "gets", "print log", "check errors", "query",
          "assert answer", "get", "assert logs", "assert writeup"}
Actions == {Do(what) : what \in Words} \cup
           {Events(file) : file \in {"simple", "adaptation-2000", "adaptation-900"}}

\* What is saved by the checks of a body is looked at in the end.
Gets(body) == \E i \in DOMAIN body : body[i].do = "gets"
Checked(body) == body # <<>> /\ body[Len(body)].do = "check errors"

\* The grader is in a test, and in what is left of its body.
ScriptInv ==
  /\ suite \in Seq(Cases) /\ script \in Seq(Actions)
  /\ at \in {"starting", "stopping", "body", "events", "tearDown"} => Running
  /\ at \in {"starting", "body", "events"} =>
       Len(script) <= Len(Script(Name)) /\ (Gets(script) => Checked(script))
  /\ at = "events" => script # <<>> /\ Head(script).do = "events"

\* The grader takes netsim's steps.
LEMMA GraderSteps == ASSUME ScriptInv, [GraderNext]_<<vars, graderVars>> PROVE NetStep
<1>1. ASSUME Running PROVE Topology \in DOMAIN TopoFile \cup {NoTopology}
  <2>1. Head(suite) \in Cases
    BY <1>1 DEF ScriptInv, Running
  <2> QED BY <2>1 DEF Topology, Cases
<1>2. CASE SetUp \/ TearDown
  BY <1>1, <1>2 DEF SetUp, TearDown, NetSimIdle, NetStep
<1>3. CASE SetUpDone \/ TearDownDone \/ EventsDone
  BY <1>3 DEF SetUpDone, TearDownDone, EventsDone, NetStep
<1>4. CASE RunTestEvents
  BY <1>4 DEF RunTestEvents, NetStep
<1>5. CASE GraderKilled
  BY <1>5 DEF GraderKilled, Killed, NetStep
<1>6. CASE SetUpRaises \/ CheckGets \/ CheckErrors \/ CheckNow \/ BodyDone \/ EmitScores
  BY <1>6 DEF SetUpRaises, CheckGets, CheckErrors, CheckNow, BodyDone, EmitScores, NetSimIdle, NetStep
<1>7. ASSUME NEW what, NEW program, RunProgram(what, program) PROVE NetStep
  BY <1>7 DEF RunProgram, NetSimIdle, NetStep
<1>8. CASE \/ Step \/ RunStep \/ NicsUp
           \/ ShapingFails \/ ClickFails \/ KillFails \/ CopyCutShort \/ UpdateFails
  BY <1>8 DEF NetStep, GoesWrong
<1>9. CASE UNCHANGED <<vars, graderVars>>
  <2>1. UNCHANGED vars
    BY <1>9
  <2> QED BY <2>1 DEF NetStep
<1>10. CASE GraderStep
  BY <1>2, <1>3, <1>4, <1>5, <1>6, <1>7, <1>10, Zenon DEF GraderStep
<1> QED BY <1>8, <1>9, <1>10 DEF GraderNext

\* The body of a test whose checks save what they find looks at it in the end.
LEMMA Bodies ==
  ASSUME NEW name
  PROVE  Script(name) \in Seq(Actions) /\ (Gets(Script(name)) => Checked(Script(name)))
<1>1. \A what : Do(what).do = what
  BY DEF Do
<1>2. /\ Do("run proxy") \in Actions /\ Do("run nameserver") \in Actions /\ Do("gets") \in Actions
      /\ Do("print log") \in Actions /\ Do("check errors") \in Actions /\ Do("query") \in Actions
      /\ Do("assert answer") \in Actions /\ Do("get") \in Actions /\ Do("assert logs") \in Actions
      /\ Do("assert writeup") \in Actions
      /\ Events("simple") \in Actions /\ Events("adaptation-2000") \in Actions
      /\ Events("adaptation-900") \in Actions
  BY DEF Actions, Words
<1>3. /\ \A a \in Actions : <<a>> \in Seq(Actions)
      /\ \A a, b, c \in Actions : <<a, b, c>> \in Seq(Actions)
      /\ \A a, b, c, d, e \in Actions : <<a, b, c, d, e>> \in Seq(Actions)
      /\ \A a, b, c, d, e, f, g \in Actions : <<a, b, c, d, e, f, g>> \in Seq(Actions)
  OBVIOUS
<1> HIDE DEF Actions
<1>4. TestProxySimple \in Seq(Actions) /\ Checked(TestProxySimple)
  <2>1. TestProxySimple \in Seq(Actions)
    BY <1>2, <1>3, Zenon DEF TestProxySimple
  <2>2. /\ Len(TestProxySimple) = 5 /\ TestProxySimple # <<>>
        /\ TestProxySimple[5] = Do("check errors")
    BY DEF TestProxySimple
  <2> HIDE DEF TestProxySimple
  <2> QED BY <1>1, <2>1, <2>2 DEF Checked
<1>5. TestProxyAdaptation \in Seq(Actions) /\ Checked(TestProxyAdaptation)
  <2>1. TestProxyAdaptation \in Seq(Actions)
    BY <1>2, <1>3, Zenon DEF TestProxyAdaptation
  <2>2. /\ Len(TestProxyAdaptation) = 7 /\ TestProxyAdaptation # <<>>
        /\ TestProxyAdaptation[7] = Do("check errors")
    BY DEF TestProxyAdaptation
  <2> HIDE DEF TestProxyAdaptation
  <2> QED BY <1>1, <2>1, <2>2 DEF Checked
<1>6. TestDns \in Seq(Actions) /\ TestDnsIntegration \in Seq(Actions) /\ TestWriteupExists \in Seq(Actions)
  BY <1>2, <1>3, Zenon DEF TestDns, TestDnsIntegration, TestWriteupExists
<1>7. ~Gets(TestDns) /\ ~Gets(TestDnsIntegration) /\ ~Gets(TestWriteupExists)
  <2>1. /\ DOMAIN TestDns = 1 .. 3
        /\ TestDns[1] = Do("run nameserver") /\ TestDns[2] = Do("query") /\ TestDns[3] = Do("assert answer")
    BY DEF TestDns
  <2>2. /\ DOMAIN TestDnsIntegration = 1 .. 5
        /\ TestDnsIntegration[1] = Do("run nameserver") /\ TestDnsIntegration[2] = Do("run proxy")
        /\ TestDnsIntegration[3] = Do("get") /\ TestDnsIntegration[4] = Do("get")
        /\ TestDnsIntegration[5] = Do("assert logs")
    BY DEF TestDnsIntegration
  <2>3. DOMAIN TestWriteupExists = 1 .. 1 /\ TestWriteupExists[1] = Do("assert writeup")
    BY DEF TestWriteupExists
  <2>4. \A what : what # "gets" => Do(what).do # "gets"
    BY <1>1
  <2>0. 1 .. 3 = {1, 2, 3} /\ 1 .. 5 = {1, 2, 3, 4, 5} /\ 1 .. 1 = {1}
    OBVIOUS
  <2>5. ~Gets(TestDns)
    <3>1. \A i \in DOMAIN TestDns : TestDns[i].do # "gets"
      BY <2>0, <2>1, <2>4
    <3> QED BY <3>1, Zenon DEF Gets
  <2>6. ~Gets(TestDnsIntegration)
    <3>1. \A i \in DOMAIN TestDnsIntegration : TestDnsIntegration[i].do # "gets"
      BY <2>0, <2>2, <2>4
    <3> QED BY <3>1, Zenon DEF Gets
  <2>7. ~Gets(TestWriteupExists)
    <3>1. \A i \in DOMAIN TestWriteupExists : TestWriteupExists[i].do # "gets"
      BY <2>0, <2>3, <2>4
    <3> QED BY <3>1, Zenon DEF Gets
  <2> QED BY <2>5, <2>6, <2>7
<1> QED BY <1>4, <1>5, <1>6, <1>7 DEF Script

LEMMA LengthOfBodies == ASSUME NEW name PROVE Len(Script(name)) \in Nat
<1>1. Script(name) \in Seq(Actions)
  BY Bodies
<1> QED BY <1>1

\* What is left of a body after its first action.
LEMMA Rest ==
  ASSUME NEW body \in Seq(Actions), body # <<>>
  PROVE  /\ Tail(body) \in Seq(Actions) /\ Len(Tail(body)) < Len(body)
         /\ Gets(Tail(body)) => Gets(body)
         /\ Checked(body) /\ (Head(body).do # "check errors" \/ Gets(Tail(body))) => Checked(Tail(body))
<1>1. /\ Tail(body) \in Seq(Actions) /\ Len(Tail(body)) = Len(body) - 1 /\ Len(body) \in Nat \ {0}
      /\ \A i \in 1 .. Len(body) - 1 : Tail(body)[i] = body[i + 1]
      /\ Head(body) = body[1]
  OBVIOUS
<1>2. Gets(Tail(body)) => Gets(body)
  <2>1. ASSUME NEW i \in DOMAIN Tail(body), Tail(body)[i].do = "gets" PROVE Gets(body)
    <3>1. i + 1 \in DOMAIN body /\ body[i + 1].do = "gets"
      BY <1>1, <2>1
    <3> QED BY <3>1 DEF Gets
  <2> QED BY <2>1 DEF Gets
<1>3. ASSUME Checked(body), Head(body).do # "check errors" \/ Gets(Tail(body))
      PROVE  Checked(Tail(body))
  <2>1. Len(body) # 1
    <3>1. CASE Head(body).do # "check errors"
      BY <1>1, <1>3, <3>1 DEF Checked
    <3>2. CASE Gets(Tail(body))
      BY <1>1, <3>2 DEF Gets
    <3> QED BY <1>3, <3>1, <3>2
  <2>2. /\ Tail(body)[Len(Tail(body))] = body[Len(body)]
        /\ Tail(body) # <<>>
    <3>1. Len(body) - 1 \in 1 .. Len(body) - 1 /\ Tail(body)[Len(body) - 1] = body[(Len(body) - 1) + 1]
      BY <1>1, <2>1
    <3>2. (Len(body) - 1) + 1 = Len(body)
      BY <1>1
    <3>3. Tail(body)[Len(Tail(body))] = body[Len(body)]
      BY <1>1, <3>1, <3>2, Zenon
    <3>4. Tail(body) # <<>>
      <4>1. Len(<<>>) = 0
        OBVIOUS
      <4>2. Len(Tail(body)) # 0
        BY <1>1, <2>1
      <4> QED BY <4>1, <4>2, Zenon
    <3> QED BY <3>3, <3>4
  <2> QED BY <1>3, <2>2 DEF Checked
<1>4. Len(Tail(body)) < Len(body)
  BY <1>1
<1> QED BY <1>1, <1>2, <1>3, <1>4, Zenon

\* A test goes through its body, and the next one begins where it ends.
LEMMA ScriptStep == ASSUME ScriptInv, [GraderNext]_<<vars, graderVars>> PROVE ScriptInv'
<1> USE DEF Running, Name, test
<1>0. suite \in Seq(Cases) /\ script \in Seq(Actions)
  BY DEF ScriptInv
<1>1. ASSUME UNCHANGED <<suite, at, script>> PROVE ScriptInv'
  BY <1>1 DEF ScriptInv
<1>2. ASSUME NextTest, Running PROVE ScriptInv'
  <2>1. suite' \in Seq(Cases) /\ script' \in Seq(Actions) /\ at' = "setUp"
    BY <1>0, <1>2 DEF NextTest
  <2> QED BY <2>1 DEF ScriptInv
<1>3. ASSUME suite' = suite, script' = script \/ script' = <<>>, Running, at' \in {"stopping", "tearDown"}
      PROVE  ScriptInv'
  <2>1. <<>> \in Seq(Actions)
    OBVIOUS
  <2>2. suite' \in Seq(Cases) /\ script' \in Seq(Actions) /\ Running'
    BY <1>0, <1>3, <2>1
  <2> HIDE DEF Running
  <2> QED BY <1>3, <2>2 DEF ScriptInv
<1>4. CASE SetUp
  <2>1. /\ suite' = suite /\ at' \in {"starting", "body"} /\ Running /\ script' = Script(Name)
    BY <1>4 DEF SetUp, Moved
  <2> HIDE DEF Name
  <2>2. Name' = Name
    BY <2>1 DEF Name
  <2> QED BY <1>0, <2>1, <2>2, Bodies DEF ScriptInv
<1>5. CASE SetUpDone \/ SetUpRaises
  <2>1. CASE SetUpDone
    <3>1. suite' = suite /\ script' = script /\ at' = "body" /\ at = "starting" /\ Running
      BY <2>1 DEF SetUpDone, Moved
    <3> QED BY <3>1 DEF ScriptInv
  <2>2. CASE SetUpRaises
    BY <1>2, <2>2 DEF SetUpRaises
  <2> QED BY <1>5, <2>1, <2>2
<1>6. CASE TearDown \/ TearDownDone
  BY <1>2, <1>3, <1>6 DEF TearDown, TearDownDone, Moved
<1>7. ASSUME Continue, Running, script # <<>>, at \in {"body", "events"} PROVE ScriptInv'
  <2>1. suite' = suite /\ script' = Tail(script) /\ at' = "body"
    BY <1>7 DEF Continue, Moved
  <2>2. Len(script) <= Len(Script(Name)) /\ (Gets(script) => Checked(script))
    BY <1>7 DEF ScriptInv
  <2> HIDE DEF Name
  <2>3. Name' = Name
    BY <2>1 DEF Name
  <2>4. /\ Len(script) \in Nat /\ Len(Tail(script)) \in Nat /\ Len(Script(Name)) \in Nat
        /\ Tail(script) \in Seq(Actions) /\ Len(Tail(script)) < Len(script)
        /\ Gets(Tail(script)) => Gets(script)
        /\ Checked(script) /\ Gets(Tail(script)) => Checked(Tail(script))
    <3>1. Len(script) \in Nat /\ Len(Tail(script)) \in Nat
      BY <1>0, <1>7
    <3> QED BY <1>0, <1>7, <3>1, LengthOfBodies, Rest, Zenon
  <2> QED BY <1>0, <1>7, <2>1, <2>2, <2>3, <2>4 DEF ScriptInv
<1>8. ASSUME Raise, Running PROVE ScriptInv'
  BY <1>3, <1>8 DEF Raise
<1>9. CASE \E what, program : RunProgram(what, program)
  BY <1>7, <1>9 DEF RunProgram, InBody
<1>10. CASE RunTestEvents
  <2>1. Running /\ at = "body" /\ script # <<>> /\ Head(script).do = "events"
    BY <1>10 DEF RunTestEvents, InBody
  <2>2. CASE Raise
    BY <1>8, <2>1, <2>2
  <2>3. CASE Moved("events") /\ script' = script
    BY <2>1, <2>3 DEF Moved, ScriptInv
  <2> QED BY <1>10, <2>2, <2>3 DEF RunTestEvents
<1>11. CASE EventsDone
  BY <1>7, <1>11 DEF EventsDone, ScriptInv
<1>12. CASE CheckGets
  <2>1. at = "body" /\ script # <<>> /\ suite' = suite /\ at' = at /\ script' = Tail(script) /\ Running
    BY <1>12 DEF CheckGets, InBody
  <2>2. Len(script) <= Len(Script(Name)) /\ (Gets(script) => Checked(script))
    BY <2>1 DEF ScriptInv
  <2> HIDE DEF Name
  <2>3. Name' = Name
    BY <2>1 DEF Name
  <2>4. /\ Len(script) \in Nat /\ Len(Tail(script)) \in Nat /\ Len(Script(Name)) \in Nat
        /\ Tail(script) \in Seq(Actions) /\ Len(Tail(script)) < Len(script)
        /\ Gets(Tail(script)) => Gets(script)
        /\ Checked(script) /\ Gets(Tail(script)) => Checked(Tail(script))
    <3>1. Len(script) \in Nat /\ Len(Tail(script)) \in Nat
      BY <1>0, <2>1
    <3> QED BY <1>0, <2>1, <3>1, LengthOfBodies, Rest, Zenon
  <2> QED BY <1>0, <2>1, <2>2, <2>3, <2>4 DEF ScriptInv
<1>13. CASE CheckErrors \/ CheckNow
  <2>1. Running /\ at = "body" /\ script # <<>> /\ (Raise \/ Continue)
    BY <1>13 DEF CheckErrors, CheckNow, InBody
  <2> QED BY <1>7, <1>8, <2>1
<1>14. CASE BodyDone
  BY <1>3, <1>14 DEF BodyDone, Moved
<1>15. CASE GraderKilled
  <2>1. suite' \in Seq(Cases) /\ script' \in Seq(Actions) /\ at' = "setUp"
    BY <1>15, SuiteAssumption DEF GraderKilled, Cases
  <2> QED BY <2>1 DEF ScriptInv
<1>16. CASE EmitScores \/ UNCHANGED graderVars
  BY <1>1, <1>16 DEF EmitScores, graderVars
<1> QED BY <1>4, <1>5, <1>6, <1>9, <1>10, <1>11, <1>12, <1>13, <1>14, <1>15, <1>16
        DEF GraderNext, GraderStep

-----------------------------------------------------------------------------
(* The grader: points *)

\* What went wrong in a test is a failure already, or saved until the end of
\* its body.
GradeInv ==
  /\ failed \subseteq wrong
  /\ \A t \in wrong :
       t \in failed \/ (at \in {"body", "events"} /\ t = Name /\ excInfo /\ Checked(script))
  /\ Running => scores = NoScores
  /\ scores # NoScores => scores = [c \in Categories |-> CategoryScore(c)]

\* The points of a category depend on nothing but the failures.
LEMMA ScoresStand ==
  ASSUME UNCHANGED <<failed, scores>>, scores = [c \in Categories |-> CategoryScore(c)]
  PROVE  (scores = [c \in Categories |-> CategoryScore(c)])'
<1>1. \A c : CategoryScore(c)' = CategoryScore(c)
  BY DEF CategoryScore, ScoreOf, MapThenSumSet, MapThenFoldSet
<1> QED BY <1>1, Zenon

\* Where everything that went wrong is a failure.
LEMMA Settled ==
  ASSUME GradeInv, wrong \subseteq failed, UNCHANGED <<failed, wrong, scores>>, Running' => Running
  PROVE  GradeInv'
BY ScoresStand DEF GradeInv

LEMMA GradeStep == ASSUME ScriptInv, GradeInv, [GraderNext]_<<vars, graderVars>> PROVE GradeInv'
<1>0. script \in Seq(Actions)
  BY DEF ScriptInv
<1>1. ASSUME UNCHANGED <<suite, at, script, excInfo, failed, scores, wrong>> PROVE GradeInv'
  BY <1>1, ScoresStand DEF GradeInv, Running, Name
<1>2. ASSUME at \notin {"body", "events"} \/ ~excInfo \/ ~Checked(script) PROVE wrong \subseteq failed
  BY <1>2 DEF GradeInv
<1>3. ASSUME Raised, Running PROVE GradeInv'
  BY <1>3 DEF Raised, GradeInv
<1>4. ASSUME at \in {"body", "events"}, Running,
             UNCHANGED <<suite, excInfo, failed, scores, wrong>>, at' \in {"body", "events"},
             Checked(script) => Checked(script)'
      PROVE  GradeInv'
  <2>1. Name' = Name /\ (Running' <=> Running)
    BY <1>4 DEF Name, Running
  <2> QED BY <1>4, <2>1 DEF GradeInv
<1>5. CASE SetUp \/ SetUpDone \/ TearDown \/ TearDownDone
  <2>1. at \notin {"body", "events"} /\ UNCHANGED <<failed, wrong, scores>> /\ Running
    BY <1>5 DEF SetUp, SetUpDone, TearDown, TearDownDone, Moved, result
  <2> QED BY <1>2, <2>1, Settled
<1>6. CASE SetUpRaises
  BY <1>3, <1>6 DEF SetUpRaises
<1>7. ASSUME NEW what, NEW program, RunProgram(what, program), what # "check errors" PROVE GradeInv'
  <2>1. /\ at = "body" /\ Running /\ script # <<>> /\ Head(script).do # "check errors"
        /\ at' = "body" /\ script' = Tail(script)
        /\ UNCHANGED <<suite, excInfo, failed, scores, wrong>>
    BY <1>7 DEF RunProgram, InBody, Continue, Moved, result
  <2>2. Checked(script) => Checked(script)'
    BY <1>0, <2>1, Rest
  <2> QED BY <1>4, <2>1, <2>2
<1>8. CASE RunTestEvents
  <2>1. at = "body" /\ Running /\ excInfo' = excInfo
    BY <1>8 DEF RunTestEvents, InBody
  <2>2. CASE Raise
    BY <1>3, <2>1, <2>2 DEF Raise
  <2>3. CASE Moved("events") /\ script' = script
    <3>1. at' = "events" /\ UNCHANGED <<suite, excInfo, failed, scores, wrong>>
      BY <2>1, <2>3 DEF Moved, result
    <3>2. Checked(script) => Checked(script)'
      BY <2>3
    <3> QED BY <1>4, <2>1, <3>1, <3>2
  <2> QED BY <1>8, <2>2, <2>3 DEF RunTestEvents
<1>9. CASE EventsDone
  <2>1. /\ at = "events" /\ Running /\ at' = "body" /\ script' = Tail(script)
        /\ UNCHANGED <<suite, excInfo, failed, scores, wrong>>
    BY <1>9 DEF EventsDone, Continue, Moved, result
  <2>2. script # <<>> /\ Head(script).do = "events"
    BY <2>1 DEF ScriptInv
  <2>3. Checked(script) => Checked(script)'
    BY <1>0, <2>1, <2>2, Rest
  <2> QED BY <1>4, <2>1, <2>3
<1>10. CASE CheckGets
  <2>1. PICK ok \in BOOLEAN : /\ excInfo' = SavedExcInfo(ok)
                              /\ wrong' = IF ok THEN wrong ELSE wrong \cup {Name}
    BY <1>10 DEF CheckGets
  <2>2. /\ at = "body" /\ Running /\ script # <<>> /\ Head(script).do = "gets"
        /\ script' = Tail(script) /\ UNCHANGED <<suite, at, failed, scores>>
    BY <1>10 DEF CheckGets, InBody
  <2>3. Gets(script) => Checked(script)
    BY <2>2 DEF ScriptInv
  <2>4. Gets(script)
    <3>1. 1 \in DOMAIN script /\ script[1].do = "gets"
      BY <1>0, <2>2
    <3> QED BY <3>1 DEF Gets
  <2>5. Checked(script)'
    BY <1>0, <2>2, <2>3, <2>4, Rest
  <2>6. Name' = Name /\ (Running' <=> Running)
    BY <2>2 DEF Name, Running
  <2>7. CASE ok
    BY <2>1, <2>2, <2>5, <2>6, <2>7 DEF GradeInv, SavedExcInfo
  <2>8. CASE ~ok
    BY <2>1, <2>2, <2>5, <2>6, <2>8 DEF GradeInv, SavedExcInfo
  <2> QED BY <2>7, <2>8
<1>11. CASE CheckErrors
  <2>1. Running
    BY <1>11 DEF CheckErrors, InBody
  <2>2. CASE excInfo
    BY <1>3, <1>11, <2>1, <2>2 DEF CheckErrors, Raise
  <2>3. CASE ~excInfo
    <3>1. UNCHANGED <<failed, scores, wrong>>
      BY <1>11, <2>3 DEF CheckErrors, Continue, Moved, result
    <3> QED BY <1>2, <2>1, <2>3, <3>1, Settled
  <2> QED BY <2>2, <2>3
<1>12. CASE CheckNow
  <2>1. PICK what \in {"query", "assert answer", "get", "assert logs", "assert writeup", "print log"} :
          InBody(what) /\ (Raise \/ Continue)
    BY <1>12 DEF CheckNow
  <2>2. excInfo' = excInfo
    BY <1>12 DEF CheckNow
  <2>3. at = "body" /\ Running /\ script # <<>> /\ Head(script).do # "check errors"
    BY <2>1 DEF InBody
  <2>4. CASE Raise
    BY <1>3, <2>3, <2>4 DEF Raise
  <2>5. CASE Continue
    <3>1. /\ at' = "body" /\ script' = Tail(script)
          /\ UNCHANGED <<suite, excInfo, failed, scores, wrong>>
      BY <2>2, <2>5 DEF Continue, Moved, result
    <3>2. Checked(script) => Checked(script)'
      BY <1>0, <2>3, <3>1, Rest
    <3> QED BY <1>4, <2>3, <3>1, <3>2
  <2> QED BY <2>1, <2>4, <2>5
<1>13. CASE BodyDone
  <2>1. script = <<>> /\ UNCHANGED <<failed, wrong, scores>> /\ Running
    BY <1>13 DEF BodyDone, Moved, result
  <2>2. ~Checked(script)
    BY <2>1 DEF Checked
  <2> QED BY <1>2, <2>1, <2>2, Settled
<1>14. CASE EmitScores
  <2>1. /\ ~Running /\ UNCHANGED <<suite, at, script, excInfo, failed, wrong>>
        /\ scores' = [c \in Categories |-> CategoryScore(c)]
    BY <1>14 DEF EmitScores, test
  <2>2. \A c : CategoryScore(c)' = CategoryScore(c)
    BY <2>1 DEF CategoryScore, ScoreOf, MapThenSumSet, MapThenFoldSet
  <2>3. (scores = [c \in Categories |-> CategoryScore(c)])'
    BY <2>1, <2>2, Zenon
  <2>4. wrong \subseteq failed
    BY <1>2, <2>1 DEF ScriptInv
  <2>5. ~Running'
    BY <2>1 DEF Running
  <2> QED BY <2>1, <2>3, <2>4, <2>5 DEF GradeInv
<1>15. CASE GraderKilled
  <2>1. failed' = {} /\ wrong' = {} /\ scores' = scores /\ Running
    BY <1>15 DEF GraderKilled
  <2> QED BY <2>1 DEF GradeInv
<1>16. CASE UNCHANGED graderVars
  BY <1>1, <1>16 DEF graderVars, test, result
<1>17. CASE GraderStep
  BY <1>5, <1>6, <1>7, <1>8, <1>9, <1>10, <1>11, <1>12, <1>13, <1>14, <1>15, <1>17 DEF GraderStep
<1> QED BY <1>16, <1>17 DEF GraderNext

LEMMA InitGrade == GraderInit => ScriptInv /\ GradeInv
<1> SUFFICES ASSUME GraderInit PROVE ScriptInv /\ GradeInv
  OBVIOUS
<1>1. suite \in Seq(Cases) /\ script \in Seq(Actions)
  BY SuiteAssumption DEF GraderInit, Cases
<1>2. ScriptInv
  BY <1>1 DEF GraderInit, ScriptInv
<1> QED BY <1>2 DEF GraderInit, GradeInv

\* A test of which anything went wrong gives no points, and every other test
\* gives all of its points, in whatever order the checks of a suite fail and
\* whenever the grader is killed and started again.
THEOREM WrongGivesNothingCorrect == GraderSpec => []WrongGivesNothing
<1>1. Init /\ GraderInit => ScriptInv /\ GradeInv
  BY InitGrade
<1>2. ScriptInv /\ GradeInv /\ [GraderNext]_<<vars, graderVars>> => (ScriptInv /\ GradeInv)'
  BY ScriptStep, GradeStep
<1>3. ScriptInv /\ GradeInv => WrongGivesNothing
  <2> SUFFICES ASSUME ScriptInv, GradeInv, scores # NoScores, NEW c \in Categories
               PROVE  LET Points(t) == IF t \in wrong THEN 0 ELSE TestValues[t]
                      IN  scores[c] = MapThenSumSet(Points, {t \in Tests : TestCategories[t] = c})
    BY DEF WrongGivesNothing
  <2>1. failed = wrong
    BY DEF ScriptInv, GradeInv
  <2>2. scores[c] = CategoryScore(c)
    BY DEF GradeInv
  <2>3. LET Points(t) == IF t \in wrong THEN 0 ELSE TestValues[t]
        IN  CategoryScore(c) = MapThenSumSet(Points, {t \in Tests : TestCategories[t] = c})
    BY <2>1 DEF CategoryScore, ScoreOf, MapThenSumSet, MapThenFoldSet
  <2> QED BY <2>2, <2>3, Zenon
<1> QED BY <1>1, <1>2, <1>3, PTL DEF GraderSpec

-----------------------------------------------------------------------------
(* The grader: a fresh test *)

\* A command keeps to its topology, and a failure is not forgotten.
SameCommand == cmd'.verb = cmd.verb /\ cmd'.topo = cmd.topo /\ (cmd.failed = TRUE => cmd'.failed = TRUE)

\* Where a start has shaped the loopback interface: no event has set a rate.
Shaped == {"read filters", "filter"} \cup Configuring
FullRates == \A class \in DOMAIN tc.rate : tc.rate[class] = FullRate
FullInv == cmd.pc \in Shaped \/ StartEnded => cmd.failed = TRUE \/ FullRates

\* The grader waits for netsim, and sets up and runs events one after the other.
FreshInv ==
  /\ at \notin {"starting", "stopping"} => cmd.pc = "idle"
  /\ at = "starting" =>
       /\ programs = {} /\ script = Script(Name)
       /\ cmd.pc # "idle" => cmd.verb = "start" /\ cmd.topo = Topology
       /\ FullInv
  /\ at # "events" => run.pc = "idle"
  /\ FreshTest

\* A step that leaves the shaping alone.
LEMMA FullCarried ==
  ASSUME CmdInv, FullInv, cmd.pc \in Shaped, tc' = tc, NEW pc, NEW todo,
         NEW fails \in {cmd.failed, TRUE}, Becomes(pc, todo, fails)
  PROVE  FullInv' /\ SameCommand
<1>1. cmd'.pc = pc /\ cmd'.verb = cmd.verb /\ cmd'.topo = cmd.topo /\ cmd'.failed = fails
  BY DEF Becomes
<1> QED BY <1>1 DEF FullInv, FullRates, SameCommand

\* A step elsewhere.
LEMMA FullElsewhere ==
  ASSUME NEW pc, NEW todo, NEW fails \in {cmd.failed, TRUE}, Becomes(pc, todo, fails),
         pc \notin Shaped, pc = "end" => cmd.verb = "stop"
  PROVE  FullInv' /\ SameCommand
<1>1. cmd'.pc = pc /\ cmd'.verb = cmd.verb /\ cmd'.topo = cmd.topo /\ cmd'.failed = fails
  BY DEF Becomes
<1> QED BY <1>1 DEF FullInv, StartEnded, SameCommand

\* A failed step, and one after which the rates are full.
LEMMA FullOrFailed ==
  ASSUME NEW pc, NEW todo, NEW fails \in {cmd.failed, TRUE}, Becomes(pc, todo, fails),
         fails = TRUE \/ FullRates'
  PROVE  FullInv' /\ SameCommand
<1>1. cmd'.pc = pc /\ cmd'.verb = cmd.verb /\ cmd'.topo = cmd.topo /\ cmd'.failed = fails
  BY DEF Becomes
<1> QED BY <1>1 DEF FullInv, SameCommand

LEMMA FullReplaced ==
  ASSUME NEW class, NEW rates, \A c \in DOMAIN rates : rates[c] = FullRate
  PROVE  LET new == Replaced(rates, class, FullRate) IN \A c \in DOMAIN new : new[c] = FullRate
BY DEF Replaced

\* What a program of the grader's does next.
LEMMA FullStep ==
  ASSUME NetInv, FullInv, Step \/ ShapingFails \/ KillFails \/ CopyCutShort
  PROVE  FullInv' /\ (cmd'.pc = "idle" \/ SameCommand)
<1> USE DEF At, network, Shaped, Configuring, WithSites
<1>0. IsCmd /\ CmdInv /\ IsTc /\ (tc.root \/ tc = NoShaping)
  BY DEF NetInv, CmdInv, ShapedInv
<1>1. ASSUME Exit PROVE FullInv' /\ cmd'.pc = "idle"
  BY <1>1 DEF Exit, IdleCmd, FullInv, StartEnded
<1>2. CASE Look
  <2>1. CASE NetworkRunning
    <3>1. cmd' = [[cmd EXCEPT !.pc = "reset"] EXCEPT !.then = "nics"]
      BY <1>2, <2>1 DEF Look
    <3>2. /\ cmd'.pc = "reset" /\ cmd'.verb = cmd.verb /\ cmd'.topo = cmd.topo
          /\ cmd'.failed = cmd.failed
      BY <1>0, <3>1 DEF IsCmd
    <3> QED BY <3>2 DEF FullInv, StartEnded, SameCommand
  <2>2. CASE ~NetworkRunning
    <3>1. Becomes("nics", cmd.todo, cmd.failed)
      BY <1>0, <1>2, <2>2, Moves DEF Look, Goto
    <3> QED BY <3>1, FullElsewhere
  <2> QED BY <2>1, <2>2
<1>3. CASE StartWithoutFile \/ StopWithoutServers
  BY <1>1, <1>3 DEF StartWithoutFile, StopWithoutServers
<1>4. CASE CreateNics \/ SitesRemoved \/ RemoveSite \/ StopShaping
  <2>1. Goto("shape") \/ Goto("restart for stop") \/ Goto("unlink") \/ Goto("kill")
    BY <1>4 DEF CreateNics, SitesRemoved, RemoveSite, StopShaping
  <2>2. \E pc \in {"shape", "restart for stop", "unlink", "kill"} : Becomes(pc, cmd.todo, cmd.failed)
    BY <1>0, <2>1, Moves
  <2> QED BY <2>2, FullElsewhere
<1>5. CASE RemoveLink
  <2>1. Becomes("unsite", Tail(cmd.todo), cmd.failed)
    BY <1>0, <1>5, Moves DEF RemoveLink
  <2> QED BY <2>1, FullElsewhere
<1>6. CASE ResetApache
  <2>1. \E todo : Becomes("unsite", todo, cmd.failed) \/ Becomes("restart for stop", todo, cmd.failed)
    BY <1>0, <1>6, Moves DEF ResetApache, Goto
  <2> QED BY <2>1, FullElsewhere
<1>7. CASE KillClick \/ KillFails
  <2>1. Becomes(cmd.then, cmd.todo, cmd.failed) /\ cmd.pc = "kill"
    BY <1>0, <1>7, Moves DEF KillClick, KillFails
  <2>2. cmd.then \notin Shaped /\ (cmd.then = "end" => cmd.verb = "stop")
    BY <1>0, <2>1 DEF CmdInv, Stopping, Undoing
  <2> QED BY <2>1, <2>2, FullElsewhere
<1>8. CASE RestartApache
  <2>1. cmd.pc \in {"restart for stop", "restart for start"} /\ tc' = tc
    BY <1>8 DEF RestartApache
  <2>2. PICK fails \in {cmd.failed, TRUE} : Becomes(AfterRestart, cmd.todo, fails)
    BY <1>0, <1>8, Moves DEF RestartApache
  <2>3. CASE cmd.pc = "restart for stop"
    BY <2>2, <2>3, FullElsewhere DEF AfterRestart
  <2>4. CASE cmd.pc = "restart for start"
    BY <1>0, <2>1, <2>2, <2>4, FullCarried
  <2> QED BY <2>1, <2>3, <2>4
<1>9. CASE ReadBottlenecks \/ FiltersInstalled \/ CopyConf \/ MarkConf \/ ListenOn \/ MakeSite
           \/ MakeLink \/ ApacheConfigured
  <2>1. cmd.pc \in Shaped /\ tc' = tc
    BY <1>9 DEF ReadBottlenecks, FiltersInstalled, CopyConf, MarkConf, ListenOn, MakeSite, MakeLink,
                ApacheConfigured
  <2>2. Exit \/ \E pc, todo : Becomes(pc, todo, cmd.failed)
    BY <1>0, <1>9, Moves DEF ReadBottlenecks, FiltersInstalled, CopyConf, MarkConf, ListenOn, MakeSite,
                             MakeLink, ApacheConfigured, NextHost
  <2> QED BY <1>0, <1>1, <2>1, <2>2, FullCarried
<1>10. CASE StartShaping
  <2>1. cmd.pc = "shape" /\ tc' = Started(tc, StartLimit(tc))
    BY <1>10 DEF StartShaping
  <2>2. StartLimit(tc) \in 0 .. StartLimit(tc)
    BY DEF StartLimit, StartCommands
  <2>3. CASE StartLimit(tc) = StartCommands
    <3>1. Becomes("read filters", cmd.todo, cmd.failed)
      BY <1>0, <1>10, <2>3, Moves DEF StartShaping
    <3>2. tc = NoShaping
      BY <1>0, <2>3 DEF StartLimit, StartCommands
    <3>3. tc'.rate = Replaced(tc.rate, DefaultClass, FullRate)
      BY <1>0, <2>1, <2>2, <2>3, StartedShapes
    <3>4. FullRates'
      <4>1. \A c \in DOMAIN tc.rate : tc.rate[c] = FullRate
        BY <3>2 DEF NoShaping
      <4> QED BY <3>3, <4>1, FullReplaced DEF FullRates
    <3> QED BY <3>1, <3>4, FullOrFailed
  <2>4. CASE StartLimit(tc) # StartCommands
    <3>1. Becomes("copy", cmd.todo, TRUE)
      BY <1>0, <1>10, <2>4, Moves DEF StartShaping
    <3> QED BY <3>1, FullOrFailed
  <2> QED BY <2>3, <2>4
<1>11. CASE InstallFilter
  <2> DEFINE line == Head(cmd.todo)
             limit == UpdateLimit(tc, line.pair)
  <2>1. /\ cmd.pc = "filter" /\ cmd.todo # <<>>
        /\ tc' = Updated(tc, line.class, line.pair, FullRate, limit)
    BY <1>11 DEF InstallFilter
  <2>2. cmd.todo \in Seq(Bottlenecks)
    BY <1>0, <2>1 DEF CmdInv
  <2>3. line \in Bottlenecks
    BY <2>1, <2>2, Elements
  <2>4. CASE limit = UpdateCommands(line.pair)
    <3>1. Becomes("filter", Tail(cmd.todo), cmd.failed)
      <4>1. cmd' = [cmd EXCEPT !.todo = Tail(cmd.todo)]
        BY <1>11, <2>4 DEF InstallFilter
      <4>2. Becomes(cmd.pc, Tail(cmd.todo), cmd.failed)
        BY <1>0, <4>1, Moves, Zenon
      <4> QED BY <2>1, <4>2
    <3>2. tc.root
      BY <2>4 DEF UpdateLimit, UpdateCommands
    <3>3. limit \in 0 .. limit
      BY DEF UpdateLimit, UpdateCommands
    <3> HIDE DEF line, limit
    <3>4. \/ tc'.rate = tc.rate
          \/ tc'.rate = Replaced(tc.rate, TrafficClass(line.class, line.pair), FullRate)
      BY <1>0, <2>1, <2>3, <3>2, <3>3, FilterShapes DEF limit
    <3>5. cmd.failed = TRUE \/ FullRates
      BY <2>1 DEF FullInv
    <3>6. FullRates => FullRates'
      BY <3>4, FullReplaced DEF FullRates
    <3> QED BY <1>0, <3>1, <3>5, <3>6, FullOrFailed
  <2>5. CASE limit # UpdateCommands(line.pair)
    <3>1. GotoFailed("copy")
      BY <1>11, <2>5 DEF InstallFilter, GotoFailed
    <3>2. Becomes("copy", cmd.todo, TRUE)
      BY <1>0, <3>1, Moves
    <3> QED BY <3>2, FullOrFailed
  <2> QED BY <2>4, <2>5
<1>12. CASE ShapingFails
  <2>1. GotoFailed("copy") \/ GotoFailed("kill")
    BY <1>12 DEF ShapingFails
  <2>2. \E pc : Becomes(pc, cmd.todo, TRUE)
    BY <1>0, <2>1, Moves
  <2> QED BY <2>2, FullOrFailed
<1>13. CASE CopyCutShort
  <2>1. GotoFailed("restart for start") \/ Exit
    BY <1>13 DEF CopyCutShort
  <2>2. Becomes("restart for start", cmd.todo, TRUE) \/ Exit
    BY <1>0, <2>1, Moves
  <2> QED BY <1>1, <2>2, FullOrFailed
<1> QED BY <1>2, <1>3, <1>4, <1>5, <1>6, <1>7, <1>8, <1>9, <1>10, <1>11, <1>12, <1>13
        DEF Step, Start, Stop

\* Without a command or a run that goes on, none of their steps is possible.
LEMMA NothingRuns ==
  /\ cmd.pc = "idle" => ~Step /\ ~ShapingFails /\ ~KillFails /\ ~CopyCutShort
  /\ run.pc = "idle" => ~RunStep /\ ~UpdateFails
<1>1. ASSUME cmd.pc = "idle" PROVE ~Step /\ ~ShapingFails /\ ~KillFails /\ ~CopyCutShort
  BY <1>1 DEF Step, Look, RestartApache, ShapingFails, KillFails, CopyCutShort, At,
              Start, StartWithoutFile, CreateNics, StartShaping, ReadBottlenecks, InstallFilter,
              FiltersInstalled, CopyConf, MarkConf, ListenOn, MakeSite, MakeLink, ApacheConfigured,
              Stop, StopWithoutServers, ResetApache, RemoveSite, RemoveLink, SitesRemoved,
              StopShaping, KillClick
<1>2. ASSUME run.pc = "idle" PROVE ~RunStep /\ ~UpdateFails
  BY <1>2 DEF RunStep, Wait, UpdateLink, LogEvent, UpdateFails
<1> QED BY <1>1, <1>2

\* A command leaves a run where it is.
LEMMA RunStays ==
  ASSUME IsRun, Step \/ ShapingFails \/ KillFails \/ CopyCutShort \/ NicsUp \/ ClickFails
  PROVE  run'.pc = run.pc
<1> USE DEF network, running
<1>1. run' = run \/ Disturb
  BY DEF Step, Look, RestartApache, ShapingFails, KillFails, CopyCutShort, NicsUp, ClickFails,
         Start, StartWithoutFile, CreateNics, StartShaping, ReadBottlenecks, InstallFilter,
         FiltersInstalled, CopyConf, MarkConf, ListenOn, MakeSite, MakeLink, ApacheConfigured,
         Stop, StopWithoutServers, ResetApache, RemoveSite, RemoveLink, SitesRemoved,
         StopShaping, KillClick
<1>2. ASSUME Disturb PROVE run'.pc = run.pc
  BY <1>2, RunMoves DEF RunBecomes
<1> QED BY <1>1, <1>2

\* netsim's own steps, while the grader waits for it or does without it.
LEMMA FreshNet ==
  ASSUME NetInv, IsRun, FreshInv, UNCHANGED graderVars,
         \/ Step \/ RunStep \/ NicsUp
         \/ ShapingFails \/ ClickFails \/ KillFails \/ CopyCutShort \/ UpdateFails
  PROVE  FreshInv'
<1>0. UNCHANGED <<suite, at, script, programs, broken>>
  BY DEF graderVars, test
<1>1. Name' = Name /\ Topology' = Topology /\ (Running' <=> Running)
  BY <1>0 DEF Name, Topology, Running
<1>2. CASE Step \/ ShapingFails \/ KillFails \/ CopyCutShort
  <2>1. at \in {"starting", "stopping"}
    BY <1>2, NothingRuns DEF FreshInv
  <2>2. run'.pc = run.pc
    BY <1>2, RunStays
  <2>3. at = "starting" => FullInv' /\ (cmd'.pc = "idle" \/ SameCommand)
    BY <1>2, FullStep DEF FreshInv
  <2>4. cmd.pc # "idle"
    BY <1>2, NothingRuns
  <2>5. FreshTest'
    BY <1>0, <2>1 DEF FreshTest
  <2> QED BY <1>0, <1>1, <2>1, <2>2, <2>3, <2>4, <2>5 DEF FreshInv, SameCommand
<1>3. CASE NicsUp \/ ClickFails
  <2>1. UNCHANGED <<conf, tc, cmd>>
    BY <1>3 DEF NicsUp, ClickFails, apache
  <2>2. run'.pc = run.pc
    BY <1>3, RunStays
  <2>3. FreshTest'
    BY <1>0, <1>1, <2>1, <2>2 DEF FreshInv, FreshTest
  <2>4. FullInv => FullInv'
    BY <2>1 DEF FullInv, StartEnded, FullRates
  <2> QED BY <1>0, <1>1, <2>1, <2>2, <2>3, <2>4 DEF FreshInv
<1>4. CASE RunStep \/ UpdateFails
  <2>1. at = "events"
    BY <1>4, NothingRuns DEF FreshInv
  <2>2. cmd' = cmd
    BY <1>4 DEF RunStep, Wait, UpdateLink, LogEvent, UpdateFails
  <2>3. FreshTest'
    BY <1>0, <2>1 DEF FreshTest
  <2> QED BY <1>0, <2>1, <2>2, <2>3 DEF FreshInv
<1> QED BY <1>2, <1>3, <1>4

\* A test that has begun is not at its beginning again.
LEMMA FreshOver ==
  ASSUME script \in Seq(Actions), Running, script # <<>>, Len(script) <= Len(Script(Name)),
         suite' = suite, script' = Tail(script)
  PROVE  FreshTest'
<1>1. Name' = Name
  BY DEF Name
<1>2. /\ Len(Tail(script)) < Len(script) /\ Len(script) \in Nat /\ Len(Tail(script)) \in Nat
      /\ Len(Script(Name)) \in Nat
  <2>1. Len(script) \in Nat /\ Len(Tail(script)) \in Nat
    OBVIOUS
  <2> QED BY <2>1, Rest, LengthOfBodies, Zenon
<1>3. script' # Script(Name)
  BY <1>2
<1> QED BY <1>1, <1>3 DEF FreshTest

LEMMA FreshStep ==
  ASSUME NetInv, IsRun, ScriptInv, FreshInv, [GraderNext]_<<vars, graderVars>>
  PROVE  FreshInv'
<1>0. script \in Seq(Actions)
  BY DEF ScriptInv
\* Neither a command nor a run, before or after.
<1>1. ASSUME cmd'.pc = "idle", run'.pc = "idle", at' \notin {"starting", "body"} PROVE FreshInv'
  BY <1>1 DEF FreshInv, FreshTest
<1>2. ASSUME at \notin {"starting", "stopping", "events"}, UNCHANGED vars
      PROVE  cmd'.pc = "idle" /\ run'.pc = "idle"
  BY <1>2 DEF FreshInv, vars, running
<1>3. ASSUME at = "body", UNCHANGED vars, Running, script # <<>>,
             suite' = suite, at' = "body", script' = Tail(script)
      PROVE  FreshInv'
  <2>1. Len(script) <= Len(Script(Name))
    BY <1>3 DEF ScriptInv
  <2>2. FreshTest'
    BY <1>0, <1>3, <2>1, FreshOver
  <2> QED BY <1>2, <1>3, <2>2 DEF FreshInv
<1>4. CASE SetUp
  <2>1. /\ at = "setUp" /\ Running /\ suite' = suite /\ programs' = {} /\ script' = Script(Name)
        /\ cmd.pc = "idle" /\ run.pc = "idle"
    BY <1>4 DEF SetUp, Moved, KilledPrograms, FreshInv
  <2>2. Name' = Name /\ Topology' = Topology
    BY <2>1 DEF Name, Topology
  <2>3. CASE Topology = NoTopology
    <3>1. at' = "body" /\ UNCHANGED vars
      BY <1>4, <2>3 DEF SetUp, Moved, NetSimIdle
    <3>2. cmd'.pc = "idle" /\ run'.pc = "idle"
      BY <1>2, <2>1, <3>1
    <3>3. FreshTest'
      BY <2>1, <2>2, <2>3, <3>2 DEF FreshTest
    <3> QED BY <3>1, <3>2, <3>3 DEF FreshInv
  <2>4. CASE Topology # NoTopology
    <3>1. at' = "starting" /\ Invoke(Topology, "start")
      BY <1>4, <2>4 DEF SetUp, Moved
    <3>2. cmd' = [[[[IdleCmd EXCEPT !.pc = "look"] EXCEPT !.verb = "start"] EXCEPT !.topo = Topology]
                    EXCEPT !.then = "end"]
      BY <3>1 DEF Invoke, First, Then
    <3>3. cmd'.pc = "look" /\ cmd'.verb = "start" /\ cmd'.topo = Topology
      BY <3>2 DEF IdleCmd
    <3>4. run'.pc = "idle"
      BY <2>1, <3>1, RunMoves DEF Invoke, RunBecomes
    <3>5. FullInv'
      BY <3>3 DEF FullInv, StartEnded, Shaped, Configuring, WithSites
    <3>6. FreshTest'
      BY <3>1 DEF FreshTest
    <3> QED BY <2>1, <2>2, <3>1, <3>3, <3>4, <3>5, <3>6 DEF FreshInv
  <2> QED BY <2>3, <2>4
<1>5. CASE SetUpDone
  <2>1. /\ at = "starting" /\ at' = "body" /\ broken' = cmd.failed
        /\ UNCHANGED <<suite, script, programs>> /\ Finish
    BY <1>5 DEF SetUpDone, Moved
  <2>2. /\ cmd.pc = "end" /\ cmd' = IdleCmd /\ UNCHANGED <<conf, tc, run>>
    BY <2>1 DEF Finish, At, Exit, apache, network, running
  <2>3. /\ programs = {} /\ run.pc = "idle" /\ cmd.verb = "start" /\ cmd.topo = Topology /\ FullInv
    BY <2>1, <2>2 DEF FreshInv
  <2>4. StartEnded
    BY <2>2, <2>3 DEF StartEnded
  <2>5. cmd.failed \in BOOLEAN
    BY DEF NetInv, CmdInv
  <2>6. cmd.failed = FALSE =>
          /\ conf.hosts = Servers(Topology) /\ tc.filters = Filters(Topology)
          /\ \A class \in DOMAIN tc.rate : tc.rate[class] = FullRate
    BY <2>3, <2>4 DEF NetInv, HostsInv, ShapedInv, FullInv, FullRates
  <2>7. Topology' = Topology
    BY <2>1 DEF Topology
  <2>8. FreshTest'
    BY <2>1, <2>2, <2>3, <2>5, <2>6, <2>7 DEF FreshTest
  <2>9. cmd'.pc = "idle"
    BY <2>2 DEF IdleCmd
  <2> QED BY <2>1, <2>2, <2>3, <2>8, <2>9 DEF FreshInv
<1>6. CASE SetUpRaises
  <2>1. at = "starting" /\ cmd.pc = "idle" /\ at' = "setUp" /\ UNCHANGED vars
    BY <1>6 DEF SetUpRaises, At, NextTest, NetSimIdle
  <2>2. cmd'.pc = "idle" /\ run'.pc = "idle"
    BY <2>1 DEF FreshInv, vars, running
  <2> QED BY <1>1, <2>1, <2>2
<1>7. CASE TearDown
  <2>1. at = "tearDown" /\ run.pc = "idle"
    BY <1>7 DEF TearDown, FreshInv
  <2>2. CASE Topology = NoTopology
    <3>1. at' = "setUp" /\ UNCHANGED vars
      BY <1>7, <2>2 DEF TearDown, NextTest, NetSimIdle
    <3> QED BY <1>1, <1>2, <2>1, <3>1
  <2>3. CASE Topology # NoTopology
    <3>1. at' = "stopping" /\ Invoke(Topology, "stop")
      BY <1>7, <2>3 DEF TearDown, Moved
    <3>2. run'.pc = "idle"
      BY <2>1, <3>1, RunMoves DEF Invoke, RunBecomes
    <3> QED BY <3>1, <3>2 DEF FreshInv, FreshTest
  <2> QED BY <2>2, <2>3
<1>8. CASE TearDownDone
  <2>1. at = "stopping" /\ at' = "setUp" /\ cmd' = IdleCmd /\ run' = run
    BY <1>8 DEF TearDownDone, NextTest, Finish, Exit, running
  <2> QED BY <1>1, <2>1 DEF FreshInv, IdleCmd
<1>9. ASSUME NEW what, NEW program, RunProgram(what, program) PROVE FreshInv'
  BY <1>3, <1>9 DEF RunProgram, InBody, Continue, Moved, NetSimIdle
<1>10. CASE RunTestEvents
  <2>1. at = "body" /\ RunEvents(Topology, Head(script).file, FALSE)
    BY <1>10 DEF RunTestEvents, InBody
  <2>2. cmd'.pc = "idle"
    BY <2>1 DEF RunEvents, FreshInv
  <2>3. CASE HasFile(Topology, Head(script).file)
    <3>1. at' = "events"
      BY <1>10, <2>3 DEF RunTestEvents, Moved
    <3> QED BY <2>2, <3>1 DEF FreshInv, FreshTest
  <2>4. CASE ~HasFile(Topology, Head(script).file)
    <3>1. at' = "tearDown" /\ run' = IdleRun
      BY <1>10, <2>1, <2>4 DEF RunTestEvents, Raise, RunEvents
    <3> QED BY <1>1, <2>2, <3>1 DEF IdleRun
  <2> QED BY <2>3, <2>4
<1>11. CASE EventsDone
  <2>1. /\ at = "events" /\ Running /\ suite' = suite /\ at' = "body" /\ script' = Tail(script)
        /\ run' = [run EXCEPT !.pc = "idle"] /\ cmd' = cmd
    BY <1>11 DEF EventsDone, Continue, Moved, RunDone, RunOnly
  <2>2. script # <<>> /\ Len(script) <= Len(Script(Name))
    BY <2>1 DEF ScriptInv
  <2>3. FreshTest'
    BY <1>0, <2>1, <2>2, FreshOver
  <2>4. run'.pc = "idle"
    BY <2>1, RunMoves DEF RunBecomes
  <2>5. cmd'.pc = "idle"
    BY <2>1 DEF FreshInv
  <2> QED BY <2>1, <2>3, <2>4, <2>5 DEF FreshInv
<1>12. CASE CheckGets
  BY <1>3, <1>12 DEF CheckGets, InBody, NetSimIdle
<1>13. CASE CheckErrors \/ CheckNow
  <2>1. at = "body" /\ Running /\ script # <<>> /\ UNCHANGED vars /\ (Raise \/ Continue)
    BY <1>13 DEF CheckErrors, CheckNow, InBody, NetSimIdle
  <2>2. CASE Raise
    BY <1>1, <1>2, <2>1, <2>2 DEF Raise
  <2>3. CASE Continue
    BY <1>3, <2>1, <2>3 DEF Continue, Moved
  <2> QED BY <2>1, <2>2, <2>3
<1>14. CASE BodyDone
  <2>1. at = "body" /\ at' = "tearDown" /\ UNCHANGED vars
    BY <1>14 DEF BodyDone, Moved, NetSimIdle
  <2> QED BY <1>1, <1>2, <2>1
<1>15. CASE EmitScores
  <2>1. ~Running /\ UNCHANGED <<suite, at>> /\ UNCHANGED vars
    BY <1>15 DEF EmitScores, test, NetSimIdle
  <2>2. at \notin {"starting", "stopping", "body", "events"}
    BY <2>1 DEF ScriptInv
  <2> QED BY <1>1, <1>2, <2>1, <2>2
<1>16. CASE GraderKilled
  <2>1. at' = "setUp" /\ cmd' = IdleCmd /\ run' = IdleRun
    BY <1>16 DEF GraderKilled, Exit
  <2> QED BY <1>1, <2>1 DEF IdleCmd, IdleRun
<1>17. CASE UNCHANGED <<vars, graderVars>>
  <2>1. UNCHANGED <<conf, tc, cmd, run, suite, at, script, programs, broken>>
    BY <1>17 DEF vars, graderVars, test, apache, network, running
  <2> QED BY <2>1 DEF FreshInv, FreshTest, FullInv, FullRates, StartEnded, Name, Topology, Running
<1>18. CASE GraderStep
  BY <1>4, <1>5, <1>6, <1>7, <1>8, <1>9, <1>10, <1>11, <1>12, <1>13, <1>14, <1>15, <1>16, <1>18, Zenon
     DEF GraderStep
<1> QED BY <1>17, <1>18, FreshNet DEF GraderNext

\* The grader's network keeps the invariant of the network, and its test that
\* of the log and of the script.
LEMMA GraderInvariant == GraderSpec => [](NetInv /\ LogInv /\ ScriptInv)
<1>1. Init /\ GraderInit => NetInv /\ LogInv /\ ScriptInv
  BY InitNet, InitLog, InitGrade
<1>2. NetInv /\ LogInv /\ ScriptInv /\ [GraderNext]_<<vars, graderVars>> => (NetInv /\ LogInv /\ ScriptInv)'
  BY GraderSteps, NetStepKeeps, LogStep, ScriptStep
<1> QED BY <1>1, <1>2, PTL DEF GraderSpec

\* When the body of a test begins, nothing of an earlier test, or of a grader
\* that was killed, is there: for every suite, every topology and any number
\* of failures.
THEOREM FreshTestCorrect == GraderSpec => []FreshTest
<1>1. Init /\ GraderInit => FreshInv
  <2> SUFFICES ASSUME Init, GraderInit PROVE FreshInv
    OBVIOUS
  <2>1. cmd.pc = "idle" /\ run.pc = "idle" /\ at = "setUp"
    BY DEF Init, GraderInit, IdleCmd, IdleRun
  <2> QED BY <2>1 DEF FreshInv, FreshTest
<1>2. NetInv /\ LogInv /\ ScriptInv /\ FreshInv /\ [GraderNext]_<<vars, graderVars>> => FreshInv'
  BY FreshStep DEF LogInv
<1>3. FreshInv => FreshTest
  BY DEF FreshInv
<1> QED BY <1>1, <1>2, <1>3, GraderInvariant, PTL DEF GraderSpec
=============================================================================
