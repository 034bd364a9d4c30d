--------------------------- MODULE AppVersionStore ---------------------------
(* The app_version_manifest table under concurrent operator requests:         *)
(* internal/store/appversion.go as the handlers of internal/api/admin.go call *)
(* it, over PostgreSQL at READ COMMITTED.  All rows form one group, and the   *)
(* clear statement of Activate visits every active row, its target included.  *)
EXTENDS Naturals, FiniteSets

CONSTANTS Codes,     \* latest_version_code values the validation lets through
          TooLarge,  \* those of them that do not fit the integer column
          Requests   \* slots for concurrent admin requests

ASSUME AppVersionAssumption == TooLarge \subseteq Codes

VARIABLES rows,     \* committed rows
          active,   \* committed rows whose is_active is true
          phase,    \* request -> the statement it is at
          code,     \* request -> the version code it names, or 0
          todo,     \* request -> rows its clear statement has still to visit
          cleared,  \* request -> rows it has set inactive, uncommitted (locked)
          resp      \* request -> HTTP status answered, 0 before the answer

table == <<rows, active>>
tx    == <<todo, cleared>>
vars  == <<rows, active, phase, code, todo, cleared, resp>>

Phases == {"idle", "create", "inserted", "activate", "clear", "enter", "ready", "committed"}

Holds(r) == cleared[r] \cup (IF phase[r] \in {"enter", "ready"} THEN {code[r]} ELSE {})

Locked(c, r) == \E q \in Requests \ {r} : c \in Holds(q)

(* Entries of app_version_manifest_active, whose key is the constant true:    *)
(* committed ones not removed by r, and those of open transactions.           *)
Rivals(r)     == active \ ({code[r]} \cup cleared[r])
OpenRivals(r) == {q \in Requests \ {r} : phase[q] = "ready"}

Blockers(r) ==
    CASE phase[r] = "clear" /\ todo[r] # {} ->
             {q \in Requests \ {r} : todo[r] \cap Holds(q) # {}}
      [] phase[r] = "clear" /\ todo[r] = {} ->
             {q \in Requests \ {r} : code[r] \in Holds(q)}
      [] phase[r] = "enter" ->
             OpenRivals(r) \cup {q \in Requests \ {r} : Rivals(r) \cap Holds(q) # {}}
      [] OTHER -> {}

Deadlocked(r) ==
    \E S \in SUBSET Requests : r \in S /\ \A p \in S : Blockers(p) \cap S # {}

TypeOK ==
    /\ rows \subseteq Codes \ TooLarge
    /\ active \subseteq rows
    /\ phase \in [Requests -> Phases]
    /\ code \in [Requests -> Codes \cup {0}]
    /\ todo \in [Requests -> SUBSET rows]
    /\ cleared \in [Requests -> SUBSET rows]
    /\ resp \in [Requests -> {0, 200, 201, 404, 409, 500}]

Init ==
    /\ rows = {} /\ active = {}
    /\ phase = [r \in Requests |-> "idle"]
    /\ code = [r \in Requests |-> 0]
    /\ todo = [r \in Requests |-> {}]
    /\ cleared = [r \in Requests |-> {}]
    /\ resp = [r \in Requests |-> 0]

-----------------------------------------------------------------------------
Goto(r, p) == phase' = [phase EXCEPT ![r] = p]

Receive(r, p) ==
    /\ phase[r] = "idle"
    /\ Goto(r, p)
    /\ \E c \in Codes : code' = [code EXCEPT ![r] = c]
    /\ resp' = [resp EXCEPT ![r] = 0]
    /\ UNCHANGED <<table, tx>>

Release(r) ==
    /\ Goto(r, "idle")
    /\ code' = [code EXCEPT ![r] = 0]
    /\ todo' = [todo EXCEPT ![r] = {}]
    /\ cleared' = [cleared EXCEPT ![r] = {}]

Answer(r, status) ==
    /\ Release(r)
    /\ resp' = [resp EXCEPT ![r] = status]
    /\ UNCHANGED table

(* POST /admin/app-versions *)
CreateAppVersion(r) == Receive(r, "create")

Insert(r) ==
    /\ phase[r] = "create"
    /\ code[r] \notin rows \cup TooLarge
    /\ rows' = rows \cup {code[r]}
    /\ \/ resp[r] = 0 /\ Goto(r, "inserted") /\ UNCHANGED <<code, tx>>
       \/ resp[r] = 500 /\ Release(r)
    /\ UNCHANGED <<active, resp>>

InsertConflict(r) == /\ phase[r] = "create" /\ resp[r] = 0
                     /\ code[r] \in rows
                     /\ Answer(r, 409)

InsertTooLarge(r) == /\ phase[r] = "create" /\ resp[r] = 0
                     /\ code[r] \in TooLarge
                     /\ Answer(r, 500)

(* POST /admin/app-versions/{versionCode}/activate *)
ActivateAppVersion(r) == Receive(r, "activate")

ClearActive(r) ==
    /\ phase[r] = "activate" /\ resp[r] = 0
    /\ Goto(r, "clear")
    /\ todo' = [todo EXCEPT ![r] = active]
    /\ UNCHANGED <<table, code, cleared, resp>>

ClearRow(r, c) ==
    /\ phase[r] = "clear" /\ c \in todo[r]
    /\ ~Locked(c, r)
    /\ todo' = [todo EXCEPT ![r] = @ \ {c}]
    /\ cleared' = [cleared EXCEPT ![r] = @ \cup ({c} \cap active)]
    /\ UNCHANGED <<table, phase, code, resp>>

SetReady(r) == phase[r] = "clear" /\ todo[r] = {} /\ resp[r] = 0

(* Mutant: RowsAffected() is not looked at.                                   *)
SetActiveUnchecked(r) ==
    /\ SetReady(r)
    /\ ~Locked(code[r], r)
    /\ Goto(r, IF code[r] \in active \ cleared[r] THEN "ready" ELSE "enter")
    /\ UNCHANGED <<table, code, tx, resp>>

(* A row that is active and not cleared here needs no new index entry. *)
SetActive(r) ==
    /\ SetReady(r)
    /\ code[r] \in rows
    /\ ~Locked(code[r], r)
    /\ Goto(r, IF code[r] \in active \ cleared[r] THEN "ready" ELSE "enter")
    /\ UNCHANGED <<table, code, tx, resp>>

(* Mutant: the clear is committed although there is no such row.              *)
SetMissingCommits(r) ==
    /\ SetReady(r)
    /\ code[r] \notin rows
    /\ active' = active \ cleared[r]
    /\ Release(r)
    /\ resp' = [resp EXCEPT ![r] = 404]
    /\ UNCHANGED rows

(* Mutant: the activation of a version without a row is tried again.          *)
SetMissingRetried(r) ==
    /\ SetReady(r)
    /\ code[r] \notin rows
    /\ Goto(r, "activate")
    /\ UNCHANGED <<table, code, tx, resp>>

(* No row: rolled back, and the rows just cleared are active as before.  A    *)
(* code the column cannot hold is refused by the driver.                      *)
SetMissing(r) ==
    /\ SetReady(r)
    /\ code[r] \notin rows
    /\ Answer(r, IF code[r] \in TooLarge THEN 500 ELSE 404)

(* Mutant: the table has no unique index.                                     *)
EnterUnindexed(r) ==
    /\ phase[r] = "enter" /\ resp[r] = 0
    /\ Goto(r, "ready")
    /\ UNCHANGED <<table, code, tx, resp>>

EnterIndex(r) ==
    /\ phase[r] = "enter" /\ resp[r] = 0
    /\ Rivals(r) = {} /\ OpenRivals(r) = {}
    /\ Goto(r, "ready")
    /\ UNCHANGED <<table, code, tx, resp>>

UniqueViolation(r) ==
    /\ phase[r] = "enter" /\ resp[r] = 0
    /\ \E c \in Rivals(r) : ~Locked(c, r)
    /\ Answer(r, 500)

Commit(r) ==
    /\ phase[r] = "ready"
    /\ active' = (active \ cleared[r]) \cup {code[r]}
    /\ \/ /\ resp[r] = 0
          /\ Goto(r, "committed")
          /\ cleared' = [cleared EXCEPT ![r] = {}]
          /\ UNCHANGED <<code, todo>>
       \/ resp[r] = 500 /\ Release(r)
    /\ UNCHANGED <<rows, resp>>

DeadlockDetected(r) == Deadlocked(r) /\ Answer(r, 500)

ReadBack(r) ==
    /\ phase[r] \in {"inserted", "committed"}
    /\ Answer(r, IF phase[r] = "inserted" THEN 201 ELSE 200)

(* As in CertConfigStore: the handler gives up, the database may not know.    *)
StoreError(r) ==
    /\ resp[r] = 0
    /\ \/ /\ phase[r] \in {"create", "activate", "clear", "enter", "ready"}
          /\ resp' = [resp EXCEPT ![r] = 500]
          /\ UNCHANGED <<table, phase, code, tx>>
       \/ phase[r] \in {"inserted", "committed"} /\ Answer(r, 500)

Rollback(r) ==
    /\ phase[r] # "idle" /\ resp[r] = 500
    /\ Release(r)
    /\ UNCHANGED <<table, resp>>

-----------------------------------------------------------------------------
Serve(r) ==
    \/ Insert(r) \/ InsertConflict(r) \/ InsertTooLarge(r)
    \/ ClearActive(r) \/ (\E c \in Codes : ClearRow(r, c))
    \/ SetActive(r) \/ SetMissing(r)
    \/ EnterIndex(r) \/ UniqueViolation(r) \/ Commit(r)
    \/ ReadBack(r) \/ Rollback(r)

Next == \E r \in Requests :
    \/ CreateAppVersion(r) \/ ActivateAppVersion(r)
    \/ Serve(r) \/ DeadlockDetected(r) \/ StoreError(r)

Spec == Init /\ [][Next]_vars

(* As in CertConfigStore. *)
LiveSpec == Spec /\ \A r \in Requests : SF_vars(Serve(r)) /\ WF_vars(DeadlockDetected(r))

-----------------------------------------------------------------------------
(* Safety: the index comment's promise that at most one row is active         *)
(* (db/migrations/0005_add_app_version_manifest.up.sql), whatever the         *)
(* operators activate at the same time.                                       *)
OneActiveManifest == \A c, d \in active : c = d

(* Safety: once a manifest is offered, GET /v1/app/version always finds one,  *)
(* also while an activation runs, fails or names a version without a row.     *)
ManifestNeverWithdrawn == [][active # {} => active' # {}]_vars

(* Liveness: every admin request ends and its locks are released.             *)
EveryRequestEnds == \A r \in Requests : phase[r] # "idle" ~> phase[r] = "idle"
=============================================================================
