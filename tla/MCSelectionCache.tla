-------------------------- MODULE MCSelectionCache --------------------------
(* One goroutine asks for course "c" for student s1, one for s2, and a      *)
(* third for s1 again, for "c" or for "d", which is in the slot of "c" and  *)
(* may not be there yet.                                                    *)
EXTENDS SelectionCache

MCStudents == {"s1", "s2"}
MCCourses == {"c", "d"}
MCAsks == [p \in Callers |->
             CASE p = "p1" -> {<<"s1", "c">>}
               [] p = "p2" -> {<<"s2", "c">>}
               [] p = "p3" -> {<<"s1", "c">>, <<"s1", "d">>}]
MCOpen == [status |-> 1, capacity |-> 1, slot |-> 1, credit |-> 2]
MCOffered == [c \in MCCourses |-> MCOpen]

(* An edit closes the course, or opens it in another slot with another      *)
(* place and other credits.                                                 *)
MCCourseEdits == {[MCOpen EXCEPT !.status = 0],
                  [status |-> 1, capacity |-> 2, slot |-> 2, credit |-> 3]}
MCLimits == {4}
MCNewCourses == {"d"}

(* Bound: either "d" is there and all entries are cold, or "d" is not there *)
(* and the entries of what is there are preloaded.                          *)
MCInit == Init /\ (known = Courses <=> cache # Preloaded)
MCSpec == MCInit /\ [][Next]_vars /\ Fairness
=============================================================================
