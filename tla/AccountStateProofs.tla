------------------------- MODULE AccountStateProofs -------------------------
(* What is proved about AccountState, for any number of goroutines and      *)
(* edits.                                                                   *)
EXTENDS AccountState, TLAPS

(* Versions order what was read: a copy or an entry of the present version  *)
(* has the present status, and an entry of an older one has an excuse.      *)
Ordered ==
  /\ \A g \in Goroutines :
       job[g].copy # None =>
         /\ job[g].copy.version <= account.version
         /\ job[g].copy.version = account.version =>
              job[g].copy.status = account.status
  /\ entry # None =>
       /\ entry.version <= entry.asof /\ entry.asof <= account.version
       /\ entry.version = account.version => entry.status = account.status
       /\ \/ entry.version = account.version
          \/ entry.version < entry.asof
          \/ pending > 0
          \/ lost

AccountInv == TypeOK /\ Ordered

LEMMA InitAccount == Init => AccountInv
<1> SUFFICES ASSUME Init PROVE AccountInv
  OBVIOUS
<1>1. lost \in BOOLEAN
  BY Zenon DEF Init
<1>2. account \in Rows /\ account.version = 0 /\ pending = 0 /\ entry = None
  BY BoundAssumption DEF Init, Rows
<1>3. job \in [Goroutines -> Jobs] /\ \A g \in Goroutines : job[g] = Idle
  BY DEF Init, Jobs, Idle
<1> QED
  BY <1>1, <1>2, <1>3 DEF AccountInv, TypeOK, Ordered, Idle

(* Entries and copies are ordered in every reachable state.                 *)
LEMMA StepAccount == AccountInv /\ [Next]_vars => AccountInv'
<1> SUFFICES ASSUME AccountInv, [Next]_vars PROVE AccountInv'
  OBVIOUS
<1> USE BoundAssumption DEF AccountInv, Goroutines, Rows, EntryValues, Jobs,
        Answers, Idle, editing
<1>1. ASSUME NEW g \in Goroutines, Begin(g) PROVE AccountInv'
  BY <1>1 DEF Begin, TypeOK, Ordered
<1>2. ASSUME NEW g \in Goroutines, Look(g) PROVE AccountInv'
  BY <1>2 DEF Look, Answer, TypeOK, Ordered
<1>3. ASSUME NEW g \in Goroutines, ReadAccount(g) PROVE AccountInv'
  BY <1>3, DisjointAssumption DEF ReadAccount, TypeOK, Ordered
<1>4. ASSUME NEW g \in Goroutines, ReadLogin(g) PROVE AccountInv'
  BY <1>4 DEF ReadLogin, TypeOK, Ordered
<1>5. ASSUME NEW g \in Goroutines, Fill(g) PROVE AccountInv'
  <2> DEFINE written == [status |-> job[g].copy.status,
                         version |-> job[g].copy.version,
                         asof |-> account.version]
  <2>1. /\ job[g] \in Jobs /\ job[g].copy \in Rows /\ account' = account
        /\ pending' = pending /\ lost' = lost
        /\ entry' \in {entry, written}
    BY <1>5 DEF Fill, TypeOK
  <2>2. /\ job' \in [Goroutines -> Jobs]
        /\ \A h \in Goroutines : job'[h] = job[h] \/ job'[h] = Idle
                                \/ /\ job'[h].at \in Answers
                                   /\ job'[h].copy = job[h].copy
    BY <1>5, <2>1 DEF Fill, Answer, TypeOK
  <2>3. written \in EntryValues /\ account \in Rows
    BY <2>1 DEF TypeOK
  <2>4. TypeOK'
    BY <2>1, <2>2, <2>3 DEF TypeOK
  <2>5. /\ \/ None = job[g].copy
           \/ job[g].copy.version <= account.version
    BY DEF Ordered
  <2>6. \A h \in Goroutines : job'[h].copy \in {job[h].copy, None}
    BY <2>2
  <2> QED
    BY <2>1, <2>3, <2>4, <2>5, <2>6, NoneAssumption DEF Ordered
<1>6. ASSUME NEW g \in Goroutines, Return(g) PROVE AccountInv'
  BY <1>6 DEF Return, TypeOK, Ordered
<1>6a. ASSUME NEW g \in Goroutines, Me(g) PROVE AccountInv'
  BY <1>6a DEF Me, Answer, TypeOK, Ordered
<1>7. CASE Expire
  BY <1>7 DEF Expire, TypeOK, Ordered
<1>8. CASE EditStatus
  <2>1. /\ account \in Rows /\ account' \in Rows
        /\ account'.version = account.version + 1
        /\ job' = job /\ entry' = entry /\ lost' = lost
        /\ pending \in 0..account.version /\ pending' = pending + 1
    BY <1>8 DEF EditStatus, TypeOK
  <2>2. TypeOK'
    BY <2>1 DEF TypeOK
  <2>3. entry # None => entry.asof <= account.version /\ entry \in EntryValues
    BY DEF TypeOK, Ordered
  <2>4. \A g \in Goroutines : job[g].copy # None => job[g].copy \in Rows
    BY DEF TypeOK
  <2>5. pending' > 0
    BY <2>1
  <2> QED
    BY <2>1, <2>2, <2>3, <2>4, <2>5 DEF Ordered
<1>9. CASE Invalidate
  <2>1. /\ account' = account /\ job' = job
        /\ pending \in 0..account.version /\ pending' = pending - 1
        /\ account \in Rows
    BY <1>9 DEF Invalidate, TypeOK
  <2>2. \/ entry' = None /\ lost' = FALSE
        \/ entry' = entry /\ lost' = TRUE
    BY <1>9 DEF Invalidate
  <2>3. lost' \in BOOLEAN
    BY <2>2, Zenon
  <2>4. pending' \in 0..account.version
    BY <1>9, <2>1 DEF Invalidate
  <2>5. TypeOK'
    BY <2>1, <2>2, <2>3, <2>4 DEF TypeOK
  <2> QED
    BY <2>1, <2>2, <2>5 DEF Ordered
<1>10. CASE ServerCrash
  <2>1. /\ account' = account /\ entry' = entry /\ pending' = 0
        /\ account \in Rows /\ pending \in 0..account.version
    BY <1>10 DEF ServerCrash, TypeOK
  <2>2. job' \in [Goroutines -> Jobs] /\ \A g \in Goroutines : job'[g] = Idle
    BY <1>10 DEF ServerCrash
  <2>3. lost' = (lost \/ pending > 0)
    BY <1>10 DEF ServerCrash
  <2>4. lost' \in BOOLEAN
    BY <2>3, Zenon
  <2>5. TypeOK'
    BY <2>1, <2>2, <2>4 DEF TypeOK
  <2>6. pending > 0 \/ lost => lost'
    BY <2>3, Zenon
  <2>7. \A g \in Goroutines : job'[g].copy = None
    BY <2>2
  <2> QED
    BY <2>1, <2>5, <2>6, <2>7 DEF Ordered
<1>11. CASE UNCHANGED vars
  BY <1>11 DEF vars, TypeOK, Ordered
<1> QED
  BY <1>1, <1>2, <1>3, <1>4, <1>5, <1>6, <1>7, <1>8, <1>9, <1>10, <1>11,
     <1>6a
     DEF Next, Run

LEMMA AccountInvariant == Spec => []AccountInv
  BY InitAccount, StepAccount, PTL DEF Spec

(* The type invariant; in particular a login writes an entry only if it has *)
(* found the account active.                                                *)
THEOREM AccountTypeCorrect == Spec => []TypeOK
<1>1. AccountInv => TypeOK
  BY DEF AccountInv
<1> QED
  BY <1>1, AccountInvariant, PTL

(* An entry that contradicts MySQL is one whose deletion is due or lost, or *)
(* one written by a goroutine the edit has overtaken.                       *)
THEOREM StaleEntriesExcused == Spec => []StaleOnlyIfOvertaken
<1>1. AccountInv => StaleOnlyIfOvertaken
  BY DEF AccountInv, TypeOK, Ordered, StaleOnlyIfOvertaken, Rows, EntryValues
<1> QED
  BY <1>1, AccountInvariant, PTL
=============================================================================
