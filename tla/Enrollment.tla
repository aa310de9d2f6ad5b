----------------------------- MODULE Enrollment -----------------------------
(***************************************************************************)
(* What course selection promises, without tables, counters or locks.      *)
(*                                                                         *)
(* A request is open until it is decided, once.  Deciding it for the       *)
(* student is one indivisible step that respects all the rules of the      *)
(* catalogue at that moment; deciding it against her may happen at any     *)
(* time (a rule, a timeout) and changes nothing else.  A student may drop  *)
(* a course she has.  The transactions of SelectionTx implement this.      *)
(***************************************************************************)
EXTENDS Integers, FiniteSets, Sums

CONSTANTS Students, Courses, Requests,
          RequestKey    \* [Requests -> Students \X Courses]: who asks for what

VARIABLES
  catalogue,   \* [Courses -> [status, capacity, credit, slot]], set by admins
  creditLimit, \* [Students -> Nat]
  enrolled,    \* the set of <<student, course>> that hold a place
  outcome      \* [Requests -> {"none", "success", "failed"}]

vars == <<catalogue, creditLimit, enrolled, outcome>>

RosterOf(c) == {s \in Students : <<s, c>> \in enrolled}
TimetableOf(s) == {c \in Courses : <<s, c>> \in enrolled}
CreditsOf(s) == SumOver([c \in Courses |-> catalogue[c].credit], TimetableOf(s))

(* The rules of selection (repository README, "selection rules").          *)
Admissible(s, c) ==
  /\ catalogue[c].status = 1
  /\ <<s, c>> \notin enrolled
  /\ Cardinality(RosterOf(c)) < catalogue[c].capacity
  /\ \A d \in TimetableOf(s) : catalogue[d].slot # catalogue[c].slot
  /\ CreditsOf(s) + catalogue[c].credit <= creditLimit[s]

Init ==
  /\ enrolled = {}
  /\ outcome = [r \in Requests |-> "none"]

Accept(r) ==
  /\ outcome[r] = "none"
  /\ Admissible(RequestKey[r][1], RequestKey[r][2])
  /\ enrolled' = enrolled \cup {RequestKey[r]}
  /\ outcome' = [outcome EXCEPT ![r] = "success"]
  /\ UNCHANGED <<catalogue, creditLimit>>

Refuse(r) ==
  /\ outcome[r] = "none"
  /\ outcome' = [outcome EXCEPT ![r] = "failed"]
  /\ UNCHANGED <<catalogue, creditLimit, enrolled>>

Drop(k) ==
  /\ k \in enrolled
  /\ enrolled' = enrolled \ {k}
  /\ UNCHANGED <<catalogue, creditLimit, outcome>>

Next ==
  \/ \E r \in Requests : Accept(r) \/ Refuse(r)
  \/ \E k \in Students \X Courses : Drop(k)

Spec == Init /\ [][Next]_vars
=============================================================================
