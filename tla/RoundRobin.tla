------------------------------ MODULE RoundRobin ------------------------------
(***************************************************************************)
(* What the name server promises with -r, as the grader tests it           *)
(* (test_dns_rr): the answers, counted over all clients, go through the    *)
(* servers in the order of the server file, and start over behind the      *)
(* last one.                                                               *)
(***************************************************************************)
EXTENDS Integers, Sequences

CONSTANT Servers    \* the server file

VARIABLE answers    \* the servers answered so far

Init == answers = <<>>

\* Server i comes in its turn: after whole rounds and the i - 1 servers before
\* it.
Turn(i) == \E rounds \in 0 .. Len(answers) :
             Len(answers) + 1 = rounds * Len(Servers) + i

Answer == \E i \in 1 .. Len(Servers) :
            Turn(i) /\ answers' = Append(answers, Servers[i])

Spec == Init /\ [][Answer]_answers
=============================================================================
