----------------------------- MODULE SelectRound -----------------------------
(***************************************************************************)
(* What the proxy's select loop (proxy_run) promises, without its list,    *)
(* its descriptor sets and its counter: a round takes on every connection  *)
(* that has input when it begins, and each of them gets exactly one turn,  *)
(* in which it is served or dropped, before the next round begins.  A      *)
(* connection joins only while nobody has a turn, and gets no turn in the  *)
(* round it joins.                                                         *)
(***************************************************************************)

CONSTANT Conn

VARIABLES live,     \* connections the loop looks after
          waiting,  \* those with input, or whose peer has closed
          todo,     \* those the current round still owes a turn
          turn,     \* {c} during c's turn, otherwise {}
          up        \* FALSE once the process has died

vars == <<live, waiting, todo, turn, up>>

Init == live = {} /\ waiting = {} /\ todo = {} /\ turn = {} /\ up = TRUE

Arrive(c) == /\ up /\ c \in live
             /\ waiting' = waiting \cup {c}
             /\ UNCHANGED <<live, todo, turn, up>>

\* A round begins only when the last one owes nothing, and takes on everyone
\* who waits.
Begin == /\ up /\ turn = {} /\ todo = {}
         /\ todo' = waiting
         /\ UNCHANGED <<live, waiting, turn, up>>

\* The newcomer may have input already.
Join(c) == /\ up /\ turn = {} /\ c \notin live
           /\ live' = live \cup {c}
           /\ waiting' \in {waiting, waiting \cup {c}}
           /\ UNCHANGED <<todo, turn, up>>

Take(c) == /\ up /\ turn = {} /\ c \in todo
           /\ turn' = {c} /\ todo' = todo \ {c}
           /\ UNCHANGED <<live, waiting, up>>

Serve(c) == /\ up /\ turn = {c}
            /\ turn' = {}
            /\ waiting' \in {waiting, waiting \ {c}}
            /\ UNCHANGED <<live, todo, up>>

Drop(c) == /\ up /\ turn = {c}
           /\ turn' = {}
           /\ live' = live \ {c} /\ waiting' = waiting \ {c}
           /\ UNCHANGED <<todo, up>>

\* A dead process owes nothing any more.
Die == /\ up /\ turn # {}
       /\ up' = FALSE /\ todo' = {} /\ turn' = {}
       /\ UNCHANGED <<live, waiting>>

Next == \/ Begin \/ Die
        \/ \E c \in Conn : Arrive(c) \/ Join(c) \/ Take(c) \/ Serve(c) \/ Drop(c)

Spec == Init /\ [][Next]_vars
=============================================================================
