------------------------------ MODULE Adaptation ------------------------------
(***************************************************************************)
(* How the proxy (src/src/proxy2.c) adapts the bitrate: the throughput it   *)
(* estimates for every browser address and keeps in a list of its own, the  *)
(* estimate every connection has, and the bitrate lists of the connections. *)
(* Each connection is a browser's that plays one video; on one connection   *)
(* an exchange ends before the next one begins.  How the bytes travel is    *)
(* ProxyStream's.                                                          *)
(***************************************************************************)
EXTENDS Bitrate

CONSTANTS Conns,      \* connections that may be open
          Ips,        \* addresses of browsers
          PartOf,     \* the pairs <<a, b>> for which a's text is a part of b's
          Videos,
          Manifest,   \* the media elements of a video's manifest
          Chunks,     \* pairs <<size, duration>> a chunk may have
          Undefined,  \* what an infinite rate becomes as an unsigned long
          AlphaNum, AlphaDen  \* config.alpha

ASSUME AddressAssumption == PartOf \subseteq Ips \X Ips /\ \A ip \in Ips : <<ip, ip>> \in PartOf
ASSUME ManifestAssumption ==
  \A v \in Videos : Manifest[v] \in Seq(Nat \cup {NoBitrate})
ASSUME ChunksAssumption == Chunks \subseteq Nat \X Nat /\ Undefined \in Nat
ASSUME AlphaAssumption ==
  AlphaNum \in Nat /\ AlphaDen \in Nat \ {0} /\ AlphaNum <= AlphaDen

VARIABLES
  ip_tpt_list,  \* the history: records [ip, tpt], newest address first
  default_list, \* config.default_list
  conn,         \* the open connections' structs, a function of a subset of Conns;
                \* waiting: a chunk is on its way
  measured      \* history: the rates measured for an address
vars == <<ip_tpt_list, default_list, conn, measured>>

open == DOMAIN conn

Init == /\ ip_tpt_list = <<>> /\ default_list = <<>>
        /\ conn = <<>>
        /\ measured = [ip \in Ips |-> {}]

Changed(c, new) == [d \in open \cup {c} |-> IF d = c THEN new ELSE conn[d]]

\* ip_tpt_find: the first entry whose text contains ip, 0 if there is none.
Find(ip) ==
  LET found == {i \in DOMAIN ip_tpt_list : <<ip, ip_tpt_list[i].ip>> \in PartOf}
  IN  IF found = {} THEN 0 ELSE CHOOSE i \in found : \A j \in found : i <= j

\* ip_tpt_add
Recorded(ip, tpt) ==
  IF Find(ip) = 0 THEN <<[ip |-> ip, tpt |-> tpt]>> \o ip_tpt_list
  ELSE [ip_tpt_list EXCEPT ![Find(ip)].tpt = tpt]

\* What the history has for an address, 0 if nothing.
Kept(ip) == IF Find(ip) = 0 THEN 0 ELSE ip_tpt_list[Find(ip)].tpt

\* proxy_conn_create for a browser at ip, which is going to play v.
Open(c, ip, v) ==
  /\ c \notin open
  /\ conn' = Changed(c,
       [ip |-> ip, video |-> v, T_curr |-> Kept(ip),
        bitrate |-> 0, bitrate_list |-> <<>>, waiting |-> FALSE])
  /\ UNCHANGED <<ip_tpt_list, default_list, measured>>

Close(c) == /\ c \in open /\ conn' = [d \in open \ {c} |-> conn[d]]
            /\ UNCHANGED <<ip_tpt_list, default_list, measured>>

Default(list) == IF default_list = <<>> THEN list ELSE default_list

\* handle_resp_f4m
GetManifest(c) ==
  /\ c \in open /\ ~conn[c].waiting
  /\ LET list == parse_xml_to_list(Manifest[conn[c].video])
     IN  /\ conn' = [conn EXCEPT ![c].bitrate_list = list]
         /\ default_list' = Default(list)
  /\ UNCHANGED <<ip_tpt_list, measured>>

\* handler_browser for a chunk.  Without any list the program crashes: that is
\* ProxyStream's Defined.
RequestChunk(c) ==
  /\ c \in open /\ ~conn[c].waiting
  /\ LET list == IF conn[c].bitrate_list = <<>> THEN default_list ELSE conn[c].bitrate_list
     IN  /\ list # <<>>
         /\ conn' = [conn EXCEPT ![c].bitrate_list = list,
                                 ![c].bitrate = select_bitrate(list, conn[c].T_curr),
                                 ![c].waiting = TRUE]
  /\ UNCHANGED <<ip_tpt_list, default_list, measured>>

\* The rates that chunks may come at.
Rates == {Rate(chunk[1], chunk[2], Undefined) : chunk \in Chunks}

\* Below this the float product is nearer to the exact one than one 1 / AlphaDen.
ASSUME PrecisionAssumption == \A T \in Rates : 4 * AlphaDen * T < 2^24

\* estimate_throughput for a whole chunk that came at rate T: the average is
\* taken over what the history has for the address, whichever connection put
\* it there.
ReceiveChunk(c, T) ==
  /\ c \in open /\ conn[c].waiting
  /\ LET ip == conn[c].ip
     IN  \E new \in Smoothed(AlphaNum, AlphaDen, T, Kept(ip)) :
           /\ ip_tpt_list' = Recorded(ip, new)
           /\ conn' = [conn EXCEPT ![c].T_curr = new, ![c].waiting = FALSE]
           /\ measured' = [measured EXCEPT ![ip] = @ \cup {T}]
  /\ UNCHANGED default_list

Next == \E c \in Conns : \/ \E ip \in Ips, v \in Videos : Open(c, ip, v)
                         \/ Close(c) \/ GetManifest(c) \/ RequestChunk(c)
                         \/ \E T \in Rates : ReceiveChunk(c, T)

Spec == Init /\ [][Next]_vars

-----------------------------------------------------------------------------
(* Properties                                                              *)

\* The history has one entry for an address.
HistoryOK ==
  /\ ip_tpt_list \in Seq([ip : Ips, tpt : Nat])
  /\ \A i, j \in DOMAIN ip_tpt_list : ip_tpt_list[i].ip = ip_tpt_list[j].ip => i = j

Offered(v) == {b \in {Manifest[v][i] : i \in DOMAIN Manifest[v]} : b # NoBitrate}

\* A chunk is asked for at the highest bitrate of a manifest that the
\* throughput is 1.5 times of, or at the lowest one if it is of none, in
\* whatever order the manifest lists them.
BestBitrate ==
  \A c \in open : conn[c].waiting =>
    \E v \in Videos :
      LET affordable == {b \in Offered(v) : 3 * b <= 2 * conn[c].T_curr}
      IN  /\ conn[c].bitrate \in Offered(v)
          /\ IF affordable = {} THEN \A b \in Offered(v) : conn[c].bitrate <= b
             ELSE conn[c].bitrate \in affordable /\ \A b \in affordable : b <= conn[c].bitrate

\* An address's estimate lies between 0 and the highest rate measured for it:
\* smoothing never goes beyond what was measured.
EstimateMeasured ==
  \A i \in DOMAIN ip_tpt_list :
    \E T \in measured[ip_tpt_list[i].ip] : ip_tpt_list[i].tpt <= T

\* Toward(E, T, later): from E the way to T was taken, not past it, and a step
\* of it at least, unless 1 / alpha or less is left; at T one may be lost.
Toward(E, T, later) ==
  /\ E < T => /\ E <= later /\ later <= T
              /\ AlphaNum * (T - E) > AlphaDen => E < later
  /\ E = T => later \in {T - 1, T}
  /\ E > T => /\ T <= later /\ later <= E
              /\ AlphaNum > 0 => later < E

\* A chunk brings what the history has for its browser's address towards its
\* own rate: chunks that keep coming at one rate bring the estimate to that rate
\* and keep it there, but for 1 / alpha and one, however it came to where it was,
\* though the average is rounded and truncated every time.
Approaches ==
  [][\A c \in Conns, ip \in Ips, T \in Rates :
       ReceiveChunk(c, T) /\ conn[c].ip = ip => Toward(Kept(ip), T, Kept(ip)')]_vars
=============================================================================
