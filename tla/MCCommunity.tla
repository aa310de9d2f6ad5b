---------------------------- MODULE MCCommunity ----------------------------
(* A course that both students like and one has commented on, or a new one. *)
EXTENDS Community

MCOldLikes == {[id |-> 1, student |-> "s1", course |-> "c"],
               [id |-> 2, student |-> "s2", course |-> "c"]}
MCOldComments == {[id |-> 1, student |-> "s1", course |-> "c", status |-> 1],
                  [id |-> 2, student |-> "s2", course |-> "c", status |-> 1]}
=============================================================================
