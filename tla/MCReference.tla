------------------------------ MODULE MCReference ------------------------------
(***************************************************************************)
(* The reference name server with clients that ask it as they like while    *)
(* the announcements are generated, or with the threads of the reference    *)
(* proxy.  Five nodes in a line: 1, 5, 4, 2, 3.                             *)
(***************************************************************************)
EXTENDS ReferenceProxy

VARIABLE driver

MCNodeOf == [c \in Clients |-> c]
MCTransId == [c \in Clients |-> c * 300]
MCAddressOf == [n \in {3, 4} |-> <<n, 0, 0, 1>>]
MCMaxQueries == [c \in Clients |-> IF c = 1 THEN 2 ELSE 1]
MCMaxConnections == [c \in Clients |-> 1]
MCLinks == <<<<1, 5>>, <<5, 4>>, <<4, 2>>, <<2, 3>>>>
MCServers == <<3, 4>>
MCBitrates == <<10, 100>>

\* "v.c"
MCVideoName == <<118, 46, 99>>
MCNames == {MCVideoName}

Piece(length, cl, after) == [length |-> length, cl |-> cl, after |-> after]

\* A body in three pieces; a blank line within a body; a head that is cut
\* within the number 12; one cut before the number; no body.
MCWebAnswers ==
  { <<Piece(5, 4, 2), Piece(1, Nothing, Nothing), Piece(1, Nothing, Nothing)>>,
    <<Piece(3, 4, 0), Piece(3, Nothing, 1), Piece(1, Nothing, Nothing)>>,
    <<Piece(2, 1, Nothing), Piece(4, Nothing, 2), Piece(6, Nothing, Nothing),
      Piece(4, Nothing, Nothing)>>,
    <<Piece(2, Malformed, Nothing), Piece(3, Nothing, 2)>>,
    <<Piece(2, 0, 0)>> }

MCInit ==
  /\ Init /\ ProxyInit /\ driver \in {"clients", "proxy"}
  /\ IF driver = "clients" THEN RR_ADDR = NoAddress
     ELSE roundRobin /\ RR_ADDR # AddressOf[4]

MCNext ==
  /\ UNCHANGED driver
  /\ \/ driver = "clients" /\ Next /\ UNCHANGED proxyVars
     \/ driver = "proxy" /\ ProxyNext

MCvars == <<rnsVars, proxyVars, driver>>

MCSpec == MCInit /\ [][MCNext]_MCvars

\* Time passes for a client that waits, and the threads run.
MCFairSpec ==
  /\ MCSpec
  /\ \A c \in Clients :
       /\ WF_MCvars(driver = "clients" /\ TimeOut(c) /\ UNCHANGED <<proxyVars, driver>>)
       /\ WF_MCvars(driver = "proxy" /\ ThreadStep(c) /\ UNCHANGED driver)
=============================================================================
