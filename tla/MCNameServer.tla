---------------------------- MODULE MCNameServer ----------------------------
(***************************************************************************)
(* NameServer with two or three servers and two clients.  Both have an     *)
(* entry in the table of a complete topology.                              *)
(***************************************************************************)
EXTENDS NameServer

CONSTANTS c1, c2, s1, s2, s3

TwoServers == <<s1, s2>>
ThreeServers == <<s1, s2, s3>>

TwoClients == [c \in {c1, c2} |-> IF c = c1 THEN s1 ELSE s2]
=============================================================================
