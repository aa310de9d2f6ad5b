-------------------------- MODULE MCAsyncSelection --------------------------
(* One course with one place, for which one student asks twice.            *)
EXTENDS AsyncSelection, TLC

MCStudents == {1}
MCCourses == {1}
MCRequestKey == [r \in Requests |-> <<1, 1>>]
MCCapacity == <<1>>
MCConsumerOf == <<"shard0">>

(* The two requests ask for the same and differ in nothing.                *)
MCSymmetry == Permutations(Requests)
=============================================================================
