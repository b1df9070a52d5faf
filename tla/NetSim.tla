-------------------------------- MODULE NetSim --------------------------------
(***************************************************************************)
(* The life cycle of the simulated network                                 *)
(* (bitrate-project/netsim/netsim.py): what start, stop, restart and run   *)
(* do to Apache's files, to Apache, to the interfaces that click makes and *)
(* to traffic shaping, one external command or file at a time.             *)
(*                                                                         *)
(* Any command may fail, which netsim logs and mostly ignores; netsim may  *)
(* be interrupted between any two steps, and the machine rebooted.  One    *)
(* start, stop or restart runs at a time, and beside it one run.           *)
(***************************************************************************)
EXTENDS Apache, TrafficControl, FiniteSets

CONSTANTS Topologies,     \* names of directories
          TopoFile,       \* TopoFile[topology][suffix] : what is in a file
          MaxUpsets       \* bound: commands of the operator, and what goes wrong

VARIABLES
  system,   \* split: Ubuntu's configuration; named: the owner set a ServerName
  conf, backup,          \* Apache's file and the copy netsim makes of it
  available, enabled,    \* sites-available and sites-enabled
  served,   \* the addresses Apache listens on, besides the owner's
  nics,     \* click: off, starting or up, the interfaces it has, and those of
            \* clicks that were to be killed and were not
  tc,
  cmd,      \* the start, stop or restart that is running
  run,      \* the run that is running
  log,      \* the file run writes: classes and kbit a second
  upsets,   \* counted for the bound
  cut       \* history: a backup was cut short

apache == <<conf, backup, available, enabled, served>>
network == <<nics, tc>>
running == <<run, log>>
vars == <<system, apache, network, cmd, running, upsets, cut>>

-----------------------------------------------------------------------------
(* Topologies and units *)

Missing == "missing"

\* get_topo_file
GetTopoFile(t, suffix) == TopoFile[t][suffix]

HasFile(t, suffix) == GetTopoFile(t, suffix) # Missing

ToSet(s) == {s[i] : i \in DOMAIN s}

Servers(t) == IF HasFile(t, "servers") THEN ToSet(GetTopoFile(t, "servers")) ELSE {}

Interfaces(t) == UNION {ToSet(GetTopoFile(t, suffix)) : suffix \in {"servers", "clients", "dns"}}

\* A bandwidth of an events file is a number of tenths and a unit.  bw_to_kbps
\* converts an integer only, except for kbit, which it passes on as text; the
\* result is in bits a second.
Units == {"kbit", "mbit", "kbps", "mbps", "bps"}

Bits(unit) ==
  CASE unit = "kbit" -> 1000 [] unit = "mbit" -> 1000000 [] unit = "kbps" -> 8000
    [] unit = "mbps" -> 8000000 [] unit = "bps" -> 8

Rate(bw) == (bw.tenths * Bits(bw.unit)) \div 10

Convertible(bw) == bw.unit \in {"kbit", "bps"} \/ bw.tenths % 10 = 0

\* Lines of a bottlenecks file and of an events file.  Links are named link1 to
\* link9998, as the comments at the top of those files want it.
Bottlenecks == [class : Nat, pair : Ips \X Ips]

Changes == [when : {"time", "enter", "invalid"}, class : Nat \ {0},
            bw : [tenths : Nat, unit : Units]]

ASSUME FilesAssumption ==
  /\ Topologies \subseteq DOMAIN TopoFile
  /\ \A t \in DOMAIN TopoFile :
       /\ HasFile(t, "servers") => GetTopoFile(t, "servers") \in Seq(Ips)
       /\ HasFile(t, "bottlenecks") => GetTopoFile(t, "bottlenecks") \in Seq(Bottlenecks)
       /\ HasFile(t, "events") => GetTopoFile(t, "events") \in Seq(Changes)

BwToKbps_Bug(bw) == IF bw.unit = "kbps" THEN Rate(bw) \div 8 ELSE Rate(bw)
BwToKbps(bw) == Rate(bw)

-----------------------------------------------------------------------------

IdleCmd == [pc |-> "idle", verb |-> "none", topo |-> "none", then |-> "end",
            todo |-> <<>>, failed |-> FALSE, spared |-> FALSE]

IdleRun == [pc |-> "idle", left |-> <<>>, logged |-> FALSE, exact |-> FALSE]

Off == [state |-> "off", ips |-> {}, left |-> {}]

\* The click that was started last is gone.
Died == [nics EXCEPT !.state = "off", !.ips = {}]

Init ==
  /\ system \in [split : BOOLEAN, named : BOOLEAN]
  /\ system.split => ~system.named    \* nothing looks for it there
  /\ conf = Original(system.named)
  /\ backup = NoFile
  /\ available = {} /\ enabled = {} /\ served = {}
  /\ nics = Off
  /\ tc = NoShaping
  /\ cmd = IdleCmd /\ run = IdleRun /\ log = <<>>
  /\ upsets = 0
  /\ cut = FALSE

At(pc) == cmd.pc = pc

Goto(pc) == cmd' = [cmd EXCEPT !.pc = pc]

\* A failure that is logged; one that is not leaves click running.
GotoFailed(pc) == cmd' = [cmd EXCEPT !.pc = pc, !.failed = TRUE]
GotoSpared(pc) == cmd' = [cmd EXCEPT !.pc = pc, !.spared = TRUE]

\* exit(-1), a signal, or the end of main.
Exit == cmd' = IdleCmd

Upset == upsets < MaxUpsets /\ upsets' = upsets + 1

Calm == UNCHANGED <<system, upsets, cut>>

\* A start or stop beside a run: what the run logged need not be so any more.
Disturb == run' = [run EXCEPT !.exact = FALSE] /\ UNCHANGED log

-----------------------------------------------------------------------------
(* main *)

First(verb) == IF verb = "start" THEN "look" ELSE "reset"

Then(verb) == IF verb = "restart" THEN "look" ELSE "end"

Invoke(t, verb) ==
  /\ At("idle")
  /\ cmd' = [IdleCmd EXCEPT !.pc = First(verb), !.verb = verb, !.topo = t, !.then = Then(verb)]
  /\ Disturb
  /\ UNCHANGED <<system, apache, network, cut>>

Finish == At("end") /\ Exit /\ Calm /\ UNCHANGED <<apache, network, running>>

IsClickRunning == nics.state # "off" \/ nics.left # {}

NetworkRunning_Bug == IsClickRunning \/ IsTcConfigured(tc)
NetworkRunning == IsConfigured(conf) \/ IsClickRunning \/ IsTcConfigured(tc)

\* start_network stops what it finds before it starts.
Look ==
  /\ At("look")
  /\ cmd' = IF NetworkRunning THEN [cmd EXCEPT !.pc = "reset", !.then = "nics"]
            ELSE [cmd EXCEPT !.pc = "nics"]
  /\ Calm /\ UNCHANGED <<apache, network, running>>

-----------------------------------------------------------------------------
(* stop_network *)

\* get_server_ip_list ends the program without the file of the servers, before
\* anything was undone.
StopWithoutServers ==
  /\ At("reset") /\ ~HasFile(cmd.topo, "servers")
  /\ Exit /\ Calm /\ UNCHANGED <<apache, network, running>>

\* reset_apache up to the loop over the servers.
ResetApache ==
  /\ At("reset") /\ HasFile(cmd.topo, "servers")
  /\ conf' = WithName(Restored(conf, backup), system.split)
  /\ backup' = NoFile
  /\ cmd' = IF system.split
            THEN [cmd EXCEPT !.pc = "unsite", !.todo = GetTopoFile(cmd.topo, "servers")]
            ELSE [cmd EXCEPT !.pc = "restart for stop"]
  /\ Calm /\ UNCHANGED <<available, enabled, served, network, running>>

RemoveSite ==
  /\ At("unsite") /\ cmd.todo # <<>>
  /\ available' = available \ {Head(cmd.todo)}
  /\ Goto("unlink")
  /\ Calm /\ UNCHANGED <<conf, backup, enabled, served, network, running>>

RemoveLink ==
  /\ At("unlink")
  /\ enabled' = enabled \ {Head(cmd.todo)}
  /\ cmd' = [cmd EXCEPT !.pc = "unsite", !.todo = Tail(@)]
  /\ Calm /\ UNCHANGED <<conf, backup, available, served, network, running>>

SitesRemoved ==
  /\ At("unsite") /\ cmd.todo = <<>> /\ Goto("restart for stop")
  /\ Calm /\ UNCHANGED <<apache, network, running>>

\* restart_apache.  The script of Ubuntu reports that Apache does not start;
\* httpd -k restart need not, since the process that was there gets a signal.
Bound == nics.left \cup IF nics.state = "up" THEN nics.ips ELSE {}

AfterRestart == IF At("restart for stop") THEN "unshape" ELSE "end"

RestartApache ==
  /\ cmd.pc \in {"restart for stop", "restart for start"}
  /\ \/ /\ Startable(conf, available, enabled, Bound)
        /\ served' = conf.hosts /\ Goto(AfterRestart)
     \/ /\ ~Startable(conf, available, enabled, Bound)
        /\ served' = {} /\ GotoFailed(AfterRestart)
     \/ /\ ~Startable(conf, available, enabled, Bound) /\ ~system.split
        /\ served' = {} /\ Goto(AfterRestart)
  /\ Calm /\ UNCHANGED <<conf, backup, available, enabled, network, running>>

StopShaping ==
  /\ At("unshape")
  /\ tc' = Stopped(tc) /\ Goto("kill")
  /\ Calm /\ Disturb /\ UNCHANGED <<apache, nics>>

KillClick ==
  /\ At("kill")
  /\ nics' = Off /\ Goto(cmd.then)
  /\ Calm /\ UNCHANGED <<apache, tc, running>>

-----------------------------------------------------------------------------
(* start_network *)

StartWithoutFile ==
  /\ At("nics") /\ \E suffix \in {"servers", "clients", "dns"} : ~HasFile(cmd.topo, suffix)
  /\ Exit /\ Calm /\ UNCHANGED <<apache, network, running>>

\* autogen_click_conf, then click in the background.
CreateNics ==
  /\ At("nics") /\ \A suffix \in {"servers", "clients", "dns"} : HasFile(cmd.topo, suffix)
  /\ nics' = [state |-> "starting", ips |-> Interfaces(cmd.topo), left |-> nics.left \cup nics.ips]
  /\ Goto("shape")
  /\ Calm /\ UNCHANGED <<apache, tc, running>>

NicsUp ==
  /\ nics.state = "starting"
  /\ nics' = [nics EXCEPT !.state = "up"]
  /\ Calm /\ UNCHANGED <<apache, tc, cmd, running>>

\* tc_setup.py start, when nothing fails but what must.
StartShaping ==
  /\ At("shape")
  /\ tc' = Started(tc, StartLimit(tc))
  /\ IF StartLimit(tc) = StartCommands THEN Goto("read filters") ELSE GotoFailed("copy")
  /\ Calm /\ Disturb /\ UNCHANGED <<apache, nics>>

\* Without the file of the bottlenecks the program ends here, inside a try.
ReadBottlenecks ==
  /\ At("read filters")
  /\ IF HasFile(cmd.topo, "bottlenecks")
     THEN cmd' = [cmd EXCEPT !.pc = "filter", !.todo = GetTopoFile(cmd.topo, "bottlenecks")]
     ELSE Exit
  /\ Calm /\ UNCHANGED <<apache, network, running>>

\* One line of install_filters: class and pair, at the default bandwidth.
InstallFilter ==
  /\ At("filter") /\ cmd.todo # <<>>
  /\ LET line == Head(cmd.todo)
         limit == UpdateLimit(tc, line.pair)
     IN  /\ tc' = Updated(tc, line.class, line.pair, FullRate, limit)
         /\ cmd' = IF limit = UpdateCommands(line.pair) THEN [cmd EXCEPT !.todo = Tail(@)]
                   ELSE [cmd EXCEPT !.pc = "copy", !.failed = TRUE]
  /\ Calm /\ Disturb /\ UNCHANGED <<apache, nics>>

FiltersInstalled ==
  /\ At("filter") /\ cmd.todo = <<>> /\ Goto("copy")
  /\ Calm /\ UNCHANGED <<apache, network, running>>

\* configure_apache: the backup, the line that marks the file, and the servers.
CopyConf ==
  /\ At("copy")
  /\ backup' = conf /\ Goto("mark")
  /\ Calm /\ UNCHANGED <<conf, available, enabled, served, network, running>>

MarkConf ==
  /\ At("mark")
  /\ conf' = Marked(conf, system.split)
  /\ cmd' = [cmd EXCEPT !.pc = "host", !.todo = GetTopoFile(cmd.topo, "servers")]
  /\ Calm /\ UNCHANGED <<backup, available, enabled, served, network, running>>

NextHost == [cmd EXCEPT !.pc = "host", !.todo = Tail(@)]

ListenOn ==
  /\ At("host") /\ cmd.todo # <<>>
  /\ conf' = WithHost(conf, Head(cmd.todo))
  /\ IF system.split THEN Goto("site") ELSE cmd' = NextHost
  /\ Calm /\ UNCHANGED <<backup, available, enabled, served, network, running>>

MakeSite ==
  /\ At("site")
  /\ available' = available \cup {Head(cmd.todo)} /\ Goto("link")
  /\ Calm /\ UNCHANGED <<conf, backup, enabled, served, network, running>>

MakeLink ==
  /\ At("link")
  /\ enabled' = enabled \cup {Head(cmd.todo)} /\ cmd' = NextHost
  /\ Calm /\ UNCHANGED <<conf, backup, available, served, network, running>>

ApacheConfigured ==
  /\ At("host") /\ cmd.todo = <<>> /\ Goto("restart for start")
  /\ Calm /\ UNCHANGED <<apache, network, running>>

-----------------------------------------------------------------------------
(* What goes wrong *)

\* Fewer commands of tc succeed than could.
ShapingFails ==
  /\ Upset
  /\ \/ /\ At("shape")
        /\ \E n \in 0 .. StartLimit(tc) - 1 : tc' = Started(tc, n)
        /\ GotoFailed("copy")
     \/ /\ At("filter") /\ cmd.todo # <<>>
        /\ \E n \in 0 .. UpdateLimit(tc, Head(cmd.todo).pair) - 1 :
             tc' = Updated(tc, Head(cmd.todo).class, Head(cmd.todo).pair, FullRate, n)
        /\ GotoFailed("copy")
     \/ At("unshape") /\ GotoFailed("kill") /\ UNCHANGED tc
  /\ Disturb /\ UNCHANGED <<system, apache, nics, cut>>

ClickFails ==
  /\ Upset /\ nics.state = "starting" /\ nics' = Died
  /\ UNCHANGED <<system, apache, tc, cmd, running, cut>>

\* copyfile raises, and the rest of configure_apache is skipped, or the program
\* is killed while it copies.
CopyCutShort ==
  /\ Upset /\ At("copy")
  /\ backup' = CutShort(conf) /\ cut' = TRUE
  /\ GotoFailed("restart for start") \/ Exit
  /\ UNCHANGED <<system, conf, available, enabled, served, network, running>>

\* Ctrl-C also reaches click, when it is the child of this process.
HasChild == cmd.verb # "stop" /\ cmd.pc \notin {"look", "reset", "unsite", "unlink", "unshape", "nics"}
  /\ ~At("restart for stop")

Interrupt ==
  /\ Upset /\ cmd.pc \notin {"idle", "kill"}
  /\ Exit
  /\ nics' \in {nics} \cup IF HasChild THEN {Died} ELSE {}
  /\ UNCHANGED <<system, apache, tc, running, cut>>

\* The except after killall takes a failure of it, and a Ctrl-C, without a word,
\* and the program goes on.
KillFails ==
  /\ Upset /\ At("kill")
  /\ nics' \in {nics, Off} /\ GotoSpared(cmd.then)
  /\ UNCHANGED <<system, apache, tc, running, cut>>

\* Files survive; Apache starts with what it finds in them.
Reboot ==
  /\ Upset
  /\ nics' = Off /\ tc' = NoShaping /\ served' = {}
  /\ Exit /\ run' = IdleRun
  /\ UNCHANGED <<system, conf, backup, available, enabled, log, cut>>

-----------------------------------------------------------------------------
(* run_events, with a log or without one *)

\* The old log is removed first, and without an events file nothing else is done.
RunEvents(t, suffix, logged) ==
  /\ run.pc = "idle"
  /\ log' = IF logged THEN <<>> ELSE log
  /\ run' = IF HasFile(t, suffix)
            THEN [pc |-> "wait", left |-> GetTopoFile(t, suffix), logged |-> logged, exact |-> logged]
            ELSE IdleRun
  /\ UNCHANGED <<system, apache, network, cmd, cut>>

RunOnly(pc) == run' = [run EXCEPT !.pc = pc] /\ UNCHANGED log

NextEvent(exact) == [run EXCEPT !.pc = "wait", !.left = Tail(@), !.exact = @ /\ exact]

\* The time has come, or someone pressed enter; or it is no time.
Wait ==
  /\ run.pc = "wait" /\ run.left # <<>>
  /\ IF Head(run.left).when = "invalid"
     THEN run' = NextEvent(TRUE) /\ UNCHANGED log
     ELSE RunOnly("execute")
  /\ Calm /\ UNCHANGED <<apache, network, cmd>>

\* execute_event: tc_setup.py update with a class and no pair.
UpdateLink ==
  /\ run.pc = "execute"
  /\ LET event == Head(run.left)
         limit == UpdateLimit(tc, NoPair)
     IN  /\ tc' = Updated(tc, event.class, NoPair, Rate(event.bw), limit)
         /\ IF limit = UpdateCommands(NoPair) THEN run' = [run EXCEPT !.pc = "log"]
            ELSE run' = NextEvent(FALSE)
  /\ UNCHANGED log
  /\ Calm /\ UNCHANGED <<apache, nics, cmd>>

UpdateFails ==
  /\ Upset /\ run.pc = "execute"
  /\ \E n \in 0 .. UpdateLimit(tc, NoPair) - 1 :
       tc' = Updated(tc, Head(run.left).class, NoPair, Rate(Head(run.left).bw), n)
  /\ run' = NextEvent(FALSE)
  /\ UNCHANGED <<system, apache, nics, cmd, log, cut>>

\* Logged in kbit a second; a bandwidth that does not convert is not.
LogEvent ==
  /\ run.pc = "log"
  /\ LET event == Head(run.left)
     IN  /\ log' = IF run.logged /\ Convertible(event.bw)
                   THEN Append(log, [class |-> event.class, rate |-> BwToKbps(event.bw)]) ELSE log
         /\ run' = NextEvent(Convertible(event.bw))
  /\ Calm /\ UNCHANGED <<apache, network, cmd>>

RunDone ==
  /\ run.pc = "wait" /\ run.left = <<>>
  /\ RunOnly("idle")
  /\ Calm /\ UNCHANGED <<apache, network, cmd>>

-----------------------------------------------------------------------------

Start ==
  \/ StartWithoutFile \/ CreateNics \/ StartShaping \/ ReadBottlenecks
  \/ InstallFilter \/ FiltersInstalled
  \/ CopyConf \/ MarkConf \/ ListenOn \/ MakeSite \/ MakeLink \/ ApacheConfigured

Stop ==
  \/ StopWithoutServers \/ ResetApache \/ RemoveSite \/ RemoveLink \/ SitesRemoved
  \/ StopShaping \/ KillClick

Step == Look \/ Start \/ Stop \/ RestartApache

RunStep == Wait \/ UpdateLink \/ LogEvent

GoesWrong ==
  ShapingFails \/ ClickFails \/ CopyCutShort \/ Interrupt \/ KillFails \/ Reboot
    \/ UpdateFails

Operator ==
  /\ Upset
  /\ \E t \in Topologies :
       RunEvents(t, "events", TRUE) \/ \E verb \in {"start", "stop", "restart"} : Invoke(t, verb)

Next == Operator \/ Step \/ Finish \/ RunStep \/ RunDone \/ NicsUp \/ GoesWrong

Spec == Init /\ [][Next]_vars

-----------------------------------------------------------------------------
(* Properties *)

\* What the owner had in Apache's configuration is never lost, whatever start,
\* stop, interrupt and reboot come after each other: it is in the backup, or in
\* the configuration if there is no backup.  Only a copy that was cut short
\* loses it, since the next stop puts the copy in place.
OriginalKept == cut \/ Untouched(IF backup = NoFile THEN conf ELSE backup)

Filters(t) ==
  LET lines == ToSet(GetTopoFile(t, "bottlenecks"))
      Both(line) == {line.pair, Reverse(line.pair)} \X {TrafficClass(line.class, line.pair)}
  IN  UNION {Both(line) : line \in lines}

\* A start that logs no failure leaves exactly the network of its topology,
\* whatever was left by commands, interrupts and reboots before: its servers'
\* addresses are listened on, its bottlenecks are filtered both ways, and no
\* other ones.
StartedComplete ==
  At("end") /\ cmd.verb # "stop" /\ ~cmd.failed =>
    /\ conf.hosts = Servers(cmd.topo)
    /\ system.split => served = Servers(cmd.topo) /\ served \subseteq enabled
    /\ tc.root /\ tc.filters = Filters(cmd.topo)

\* A stop that logs no failure leaves nothing of its topology behind, however
\* far the starts and stops before it came, but for click if killall failed or
\* was interrupted, which nothing logs.
StoppedClean ==
  At("end") /\ cmd.verb = "stop" /\ ~cmd.failed =>
    /\ ~conf.marked /\ conf.hosts = {} /\ backup = NoFile
    /\ (available \cup enabled) \cap Servers(cmd.topo) = {}
    /\ tc = NoShaping /\ (cmd.spared \/ nics = Off)

\* As long as nothing failed and nobody started or stopped the network, every
\* link has the rate that run logged for it last, in whatever unit it was given.
LinkAsLogged ==
  run.exact /\ run.pc # "log" =>
    \A i \in DOMAIN log :
      (\A j \in i + 1 .. Len(log) : log[j].class # log[i].class) =>
        log[i].class \in DOMAIN tc.rate /\ tc.rate[log[i].class] = log[i].rate
=============================================================================
