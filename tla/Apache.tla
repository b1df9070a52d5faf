-------------------------------- MODULE Apache --------------------------------
(***************************************************************************)
(* What the network simulation writes into the configuration of Apache     *)
(* (bitrate-project/netsim/apache_setup.py).  On Ubuntu it is ports.conf   *)
(* with a site and a link for every server, elsewhere one httpd.conf.      *)
(*                                                                         *)
(* A configuration file is what the functions can find out about it or     *)
(* lose: whether it has everything the machine's owner put into it, the    *)
(* line "# Modified by netsim", a ServerName, and the addresses that       *)
(* netsim has it listen on.                                                *)
(***************************************************************************)
EXTENDS Integers

CONSTANT Ips    \* addresses of the simulated network

Confs == [whole : BOOLEAN, marked : BOOLEAN, named : BOOLEAN, hosts : SUBSET Ips]

\* The file as its owner wrote it, with a ServerName or without.
Original(named) == [whole |-> TRUE, marked |-> FALSE, named |-> named, hosts |-> {}]

\* Nothing of the owner's is missing and nothing of netsim's is there.
Untouched(conf) == conf.whole /\ ~conf.marked /\ conf.hosts = {}

NoFile == [missing |-> TRUE]

IsConfigured(conf) == conf.marked

\* copyfile is ended, by a signal or a full disk, before it has everything.
CutShort(conf) == [conf EXCEPT !.whole = FALSE]

\* The first write of configure_apache: the line, and with a single file a
\* ServerName if there is none.
Marked(conf, split) == [conf EXCEPT !.marked = TRUE, !.named = @ \/ ~split]

\* A server's address is appended.
WithHost(conf, ip) == [conf EXCEPT !.hosts = @ \cup {ip}]

\* move puts the backup in the file's place; without a backup the file stays.
Restored(conf, backup) == IF backup = NoFile THEN conf ELSE backup

\* With a single file, reset_apache leaves a ServerName behind.
WithName(conf, split) == [conf EXCEPT !.named = @ \/ ~split]

\* Apache starts if it can bind every address it listens on and every link to a
\* site leads somewhere.
Startable(conf, available, enabled, bound) ==
  conf.hosts \subseteq bound /\ enabled \subseteq available
=============================================================================
