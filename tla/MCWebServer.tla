---------------------------- MODULE MCWebServer ----------------------------
(***************************************************************************)
(* Instances of WebServer for TLC: the kinds of request clients send.      *)
(***************************************************************************)
EXTENDS WebServer, TLC

Page == [get |-> TRUE, cgi |-> FALSE, permitted |-> TRUE, nameLen |-> 2,
         size |-> 1, complete |-> TRUE, stays |-> TRUE]
Program == [Page EXCEPT !.cgi = TRUE, !.nameLen = 1, !.size = 2]
Cut == [Page EXCEPT !.complete = FALSE]
Impatient == [Page EXCEPT !.stays = FALSE]

MixedRequests == {Page, Program}
RudeRequests == {Page, Program, Impatient, Cut}

ThreadAndConnSymmetry == Permutations(Workers) \union Permutations(Conns)
=============================================================================
