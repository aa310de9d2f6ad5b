---------------------------- MODULE AccountState ----------------------------
(***************************************************************************)
(* Whether a student's account is active, and what the requests see of it. *)
(*                                                                         *)
(* A token stays valid after the account is disabled, so every request     *)
(* looks the account up (RequireActiveUser): first in a Redis entry with a *)
(* life of 9 to 12 minutes, then in MySQL, whose answer it writes back.  A *)
(* login writes the entry as well.  An administrator's edit updates MySQL  *)
(* and deletes the entry.  Reading and writing back are separate steps.    *)
(*                                                                         *)
(* One account: accounts share nothing.  It exists, as none is ever        *)
(* deleted.  status 1 is active, 0 disabled.                               *)
(***************************************************************************)
EXTENDS Naturals

CONSTANTS
  Requests,  \* goroutines that check a request with the student's token
  Logins,    \* goroutines that log the student in
  MaxEdits,  \* bound: how often the status is edited
  None       \* no entry, no copy

ASSUME DisjointAssumption == Requests \cap Logins = {}
ASSUME BoundAssumption == MaxEdits \in Nat

VARIABLES
  account,  \* MySQL: [status, version]; version counts the edits
  entry,    \* Redis: the version it was read from and, in asof, written at
  job,      \* [Goroutines -> [at, copy]]
  pending,  \* edits that have updated the row and not yet deleted the entry
  lost      \* history: a deletion failed, and none has succeeded since

vars == <<account, entry, job, pending, lost>>
editing == <<pending, lost>>

Goroutines == Requests \cup Logins
Rows == [status : {0, 1}, version : 0..MaxEdits]
EntryValues == [status : {0, 1}, version : 0..MaxEdits, asof : 0..MaxEdits]
Answers == {"allowed", "refused"}
Jobs == [at : {"idle", "look", "read", "fill"} \cup Answers,
         copy : Rows \cup {None}]
Idle == [at |-> "idle", copy |-> None]

ASSUME NoneAssumption == None \notin Rows \cup EntryValues

Init ==
  /\ account \in [status : {0, 1}, version : {0}]
  /\ entry = None
  /\ job = [g \in Goroutines |-> Idle]
  /\ pending = 0 /\ lost = FALSE

Answer(g, status) ==
  job' = [job EXCEPT ![g].at = IF status = 1 THEN "allowed" ELSE "refused"]
-----------------------------------------------------------------------------
Begin(g) ==
  /\ job[g].at = "idle"
  /\ job' = [job EXCEPT ![g].at = IF g \in Requests THEN "look" ELSE "read"]
  /\ UNCHANGED <<account, entry, editing>>

(* GetAuthUserState; an error of Redis counts as a miss.                   *)
Look(r) ==
  /\ job[r].at = "look"
  /\ \/ entry # None /\ Answer(r, entry.status)
     \/ job' = [job EXCEPT ![r].at = "read"]
  /\ UNCHANGED <<account, entry, editing>>

(* MySQL.  An error ends the request with neither answer.                  *)
ReadAccount(r) ==
  /\ job[r].at = "read"
  /\ r \in Requests
  /\ \/ job' = [job EXCEPT ![r] = [at |-> "fill", copy |-> account]]
     \/ job' = [job EXCEPT ![r] = Idle]
  /\ UNCHANGED <<account, entry, editing>>

FaultyReadLogin(l) ==  \* compares the password only
  /\ job[l].at = "read"
  /\ l \in Logins
  /\ \/ job' = [job EXCEPT ![l] = [at |-> "fill", copy |-> account]]
     \/ job' = [job EXCEPT ![l] = Idle]
  /\ UNCHANGED <<account, entry, editing>>

(* StudentLogin: only an active account goes on to write the entry.        *)
ReadLogin(l) ==
  /\ job[l].at = "read"
  /\ l \in Logins
  /\ \/ /\ account.status = 1
        /\ job' = [job EXCEPT ![l] = [at |-> "fill", copy |-> account]]
     \/ job' = [job EXCEPT ![l] = Idle]
  /\ UNCHANGED <<account, entry, editing>>

(* SetAuthUserState; its error is ignored.                                 *)
Fill(g) ==
  /\ job[g].at = "fill"
  /\ entry' \in {entry, [status |-> job[g].copy.status,
                         version |-> job[g].copy.version,
                         asof |-> account.version]}
  /\ IF g \in Requests THEN Answer(g, job[g].copy.status)
                       ELSE job' = [job EXCEPT ![g] = Idle]
  /\ UNCHANGED <<account, editing>>

(* The handler runs, or not, and the goroutine serves another request.     *)
Return(r) ==
  /\ job[r].at \in Answers
  /\ job' = [job EXCEPT ![r] = Idle]
  /\ UNCHANGED <<account, entry, editing>>

(* Me, the one handler that asks MySQL about the account once more.        *)
Me(r) ==
  /\ job[r].at = "allowed"
  /\ Answer(r, account.status)
  /\ UNCHANGED <<account, entry, editing>>

FaultyExpire ==  \* the entry of an active account has no end of life
  /\ entry # None /\ entry.status = 0
  /\ entry' = None
  /\ UNCHANGED <<account, job, editing>>

Expire ==
  /\ entry # None
  /\ entry' = None
  /\ UNCHANGED <<account, job, editing>>
-----------------------------------------------------------------------------
(* UpdateStudentByNo commits, then deletes the entry; edits overlap.       *)
EditStatus ==
  /\ account.version < MaxEdits
  /\ account' = [status |-> 1 - account.status, version |-> account.version + 1]
  /\ pending' = pending + 1
  /\ UNCHANGED <<entry, job, lost>>

FaultyInvalidate ==  \* leaves the entry to its life
  /\ pending > 0
  /\ pending' = pending - 1
  /\ UNCHANGED <<account, entry, job, lost>>

(* InvalidateAuthUserState; a failure is logged.                           *)
Invalidate ==
  /\ pending > 0
  /\ pending' = pending - 1
  /\ \/ entry' = None /\ lost' = FALSE
     \/ UNCHANGED entry /\ lost' = TRUE
  /\ UNCHANGED <<account, job>>

ServerCrash ==
  /\ job' = [g \in Goroutines |-> Idle]
  /\ pending' = 0
  /\ lost' = (lost \/ pending > 0)
  /\ UNCHANGED <<account, entry>>
-----------------------------------------------------------------------------
Run(g) ==
  Look(g) \/ ReadAccount(g) \/ ReadLogin(g) \/ Fill(g) \/ Me(g) \/ Return(g)

Next ==
  \/ \E g \in Goroutines : Begin(g) \/ Run(g)
  \/ Expire
  \/ EditStatus
  \/ Invalidate
  \/ ServerCrash

Spec == Init /\ [][Next]_vars

(* Goroutines run on and Redis ends the life of an entry.                  *)
FairSpec ==
  Spec /\ WF_vars(Expire) /\ \A g \in Goroutines : WF_vars(Run(g))
-----------------------------------------------------------------------------
(* Rows, entries and copies; a login that writes has found it active.      *)
TypeOK ==
  /\ account \in Rows
  /\ entry \in EntryValues \cup {None}
  /\ job \in [Goroutines -> Jobs]
  /\ \A g \in Goroutines :
       job[g].at = "fill" =>
         /\ job[g].copy \in Rows
         /\ g \in Logins => job[g].copy.status = 1
  /\ pending \in 0..account.version /\ lost \in BOOLEAN

(* An entry contradicts MySQL only while a deletion is still to come or    *)
(* was lost, or if a goroutine had read the account before the edit and    *)
(* wrote it back after (README.md:484: edits delete the entry).            *)
StaleOnlyIfOvertaken ==
  \/ entry = None
  \/ entry.status = account.status
  \/ pending > 0 \/ lost
  \/ entry.version < entry.asof

(* "Disabled today, locked out from then on" (active_user.go:28): once the *)
(* status no longer changes, requests are at last only answered by it,     *)
(* though the deletion may have failed and old states been written back.   *)
StatusRules ==
  \A v \in {0, 1} :
    <>[](account.status = v) =>
      <>[](\A r \in Requests :
             job[r].at # IF v = 1 THEN "refused" ELSE "allowed")
=============================================================================
