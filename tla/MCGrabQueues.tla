---------------------------- MODULE MCGrabQueues ----------------------------
(* Two grabs of course 2, which is shard 0 of two and shard 2 of three, and *)
(* a notification that cannot be read.                                      *)
EXTENDS GrabQueues

MCMessages == {"g", "gg", "old"}
MCGrabs == {"g", "gg"}
MCCourse == [m \in MCGrabs |-> 2]
MCUnparsable == {"old"}
MCCounts == {0, 2, 3}
=============================================================================
