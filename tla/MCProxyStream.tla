---------------------------- MODULE MCProxyStream ----------------------------
(***************************************************************************)
(* ProxyStream with several kinds of traffic: players that wait for each   *)
(* answer, whose bodies may be empty or longer than the buffer, one that   *)
(* begins with a manifest and one that need not; a player whose later      *)
(* manifest requests are shorter; and a browser that pipelines pages over  *)
(* segments that end anywhere, whose answers have a body or not.           *)
(***************************************************************************)
EXTENDS ProxyStream

Player == [kinds |-> {"f4m", "chunk"}, lengths |-> {0, 4}, pipeline |-> 1,
           splits |-> FALSE, tails |-> FALSE, first |-> TRUE, listed |-> TRUE]
Early  == [Player EXCEPT !.lengths = {0, 1}, !.first = FALSE, !.listed = FALSE]
Again  == [Player EXCEPT !.lengths = {1}, !.tails = TRUE]
Pages  == [Player EXCEPT !.kinds = {"html"}, !.lengths = {0, 1}, !.pipeline = 3,
                         !.splits = TRUE]
Waiting == [Player EXCEPT !.kinds = AllKinds, !.lengths = {1}, !.splits = TRUE]

All   == {Player, Early, Again, Pages}
Split == {Waiting}
=============================================================================
