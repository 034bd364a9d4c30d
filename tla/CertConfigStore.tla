--------------------------- MODULE CertConfigStore ---------------------------
(* The cert_config table under concurrent operator requests: the statements   *)
(* of internal/store/certconfig.go (Insert, Activate) as the handlers of      *)
(* internal/api/admin.go issue them, over PostgreSQL at READ COMMITTED with   *)
(* its row locks, its partial unique index and its deadlock detector.         *)
EXTENDS Naturals, FiniteSets

CONSTANTS Versions,     \* config_version values
          Values,       \* non-empty selector strings
          Null, Empty,  \* an absent selector; the empty string
          Docs,         \* the selector triples operators submit
          Requests,     \* slots for concurrent admin requests
          NoRow         \* "no row has this config_version"

Selectors == {"manufacturer", "model", "fingerprint"}
Targets   == [Selectors -> Values \cup {Null}]

ASSUME StoreAssumption ==
    /\ Null # Empty /\ Null \notin Values /\ Empty \notin Values
    /\ Docs \subseteq [Selectors -> Values \cup {Null, Empty}]
    /\ NoRow \notin Targets

VARIABLES row,      \* committed rows: config_version -> target, or NoRow
          active,   \* committed rows whose is_active is true
          phase,    \* request -> the statement it is at
          asks,     \* request -> the operation it carries
          todo,     \* request -> rows its clear statement has still to visit
          cleared,  \* request -> rows it has set inactive, uncommitted (locked)
          resp      \* request -> HTTP status answered, 0 before the answer

table == <<row, active>>
tx    == <<todo, cleared>>
vars  == <<row, active, phase, asks, todo, cleared, resp>>

Phases == {"idle",       \* no handler is running in this slot
           "create",     \* CreateCertConfig is about to Insert
           "inserted",   \* the row is in; the read-back follows
           "activate",   \* Activate has begun its transaction
           "clear",      \* clearSameGroup is visiting the rows of its snapshot
           "enter",      \* the row is updated, its index entry is not yet in
           "ready",      \* both updates are done; COMMIT is sent
           "committed"}  \* the read-back follows

Nothing == [op |-> "none"]

-----------------------------------------------------------------------------
(* Target groups.  The clear statement and the unique index each have their   *)
(* own idea of "the same target".                                             *)

(* Mutant: the selector is stored as it was sent.                             *)
StoredTargetVerbatim(doc) == doc

(* stringPtrFromDoc: "" is stored as NULL. *)
StoredTarget(doc) == [s \in Selectors |-> IF doc[s] = Empty THEN Null ELSE doc[s]]

(* coalesce(column, '') *)
Coalesced(t) == [s \in Selectors |-> IF t[s] = Null THEN Empty ELSE t[s]]

(* Mutant: a null selector is taken to be in every group.                     *)
SameGroupNullMatches(v, w) ==
    \A s \in Selectors : row[v][s] = row[w][s] \/ Null \in {row[v][s], row[w][s]}

(* The where clause of clearSameGroup. *)
SameGroup(v, w) == Coalesced(row[v]) = Coalesced(row[w])

(* Mutant: an index without "nulls not distinct".                             *)
SameKeyNullsDistinct(v, w) == row[v] = row[w] /\ \A s \in Selectors : row[v][s] # Null

(* The key of cert_config_active_per_target: nulls are not distinct. *)
SameKey(v, w) == row[v] = row[w]

-----------------------------------------------------------------------------
(* Locks and index entries. *)

Version(r) == asks[r].version

(* Row versions written by the open transaction of r, hence locked by it. *)
Holds(r) == cleared[r] \cup (IF phase[r] \in {"enter", "ready"} THEN {Version(r)} ELSE {})

Locked(v, r) == \E q \in Requests \ {r} : v \in Holds(q)

(* Index entries with the key of r's row that r itself has not removed:       *)
(* committed ones, and those of transactions still open.                      *)
Rivals(r) == {v \in active \ ({Version(r)} \cup cleared[r]) : SameKey(v, Version(r))}
OpenRivals(r) == {q \in Requests \ {r} : phase[q] = "ready" /\ SameKey(Version(q), Version(r))}

(* The transactions r has to wait for. *)
Blockers(r) ==
    CASE phase[r] = "clear" /\ todo[r] # {} ->
             {q \in Requests \ {r} : todo[r] \cap Holds(q) # {}}
      [] phase[r] = "clear" /\ todo[r] = {} ->
             {q \in Requests \ {r} : Version(r) \in Holds(q)}
      [] phase[r] = "enter" ->
             OpenRivals(r) \cup {q \in Requests \ {r} : Rivals(r) \cap Holds(q) # {}}
      [] OTHER -> {}

(* r is on, or waits behind, a cycle of transactions waiting for each other.  *)
Deadlocked(r) ==
    \E S \in SUBSET Requests : r \in S /\ \A p \in S : Blockers(p) \cap S # {}

-----------------------------------------------------------------------------
TypeOK ==
    /\ row \in [Versions -> Targets \cup {NoRow}]
    /\ active \subseteq Versions
    /\ phase \in [Requests -> Phases]
    /\ asks \in [Requests -> {Nothing}
                    \cup [op : {"create"}, version : Versions, doc : Docs]
                    \cup [op : {"activate"}, version : Versions]]
    /\ todo \in [Requests -> SUBSET Versions]
    /\ cleared \in [Requests -> SUBSET Versions]
    /\ resp \in [Requests -> {0, 200, 201, 404, 409, 500}]

(* A migrated database holds no row until an operator creates one. *)
Init ==
    /\ row = [v \in Versions |-> NoRow]
    /\ active = {}
    /\ phase = [r \in Requests |-> "idle"]
    /\ asks = [r \in Requests |-> Nothing]
    /\ todo = [r \in Requests |-> {}]
    /\ cleared = [r \in Requests |-> {}]
    /\ resp = [r \in Requests |-> 0]

-----------------------------------------------------------------------------
(* Steps shared by the handlers. *)

Goto(r, p) == phase' = [phase EXCEPT ![r] = p]

Receive(r, operation, p) ==
    /\ phase[r] = "idle"
    /\ Goto(r, p)
    /\ asks' = [asks EXCEPT ![r] = operation]
    /\ resp' = [resp EXCEPT ![r] = 0]
    /\ UNCHANGED <<table, tx>>

(* The slot is free again and what its transaction wrote is gone, either      *)
(* committed or rolled back by the deferred tx.Rollback.                      *)
Release(r) ==
    /\ Goto(r, "idle")
    /\ asks' = [asks EXCEPT ![r] = Nothing]
    /\ todo' = [todo EXCEPT ![r] = {}]
    /\ cleared' = [cleared EXCEPT ![r] = {}]

Answer(r, status) ==
    /\ Release(r)
    /\ resp' = [resp EXCEPT ![r] = status]
    /\ UNCHANGED table

-----------------------------------------------------------------------------
(* POST /admin/cert-configs: one insert, outside any transaction.          *)

CreateCertConfig(r) ==
    \E v \in Versions, d \in Docs :
        Receive(r, [op |-> "create", version |-> v, doc |-> d], "create")

Insert(r) ==
    /\ phase[r] = "create"
    /\ row[Version(r)] = NoRow
    /\ row' = [row EXCEPT ![Version(r)] = StoredTarget(asks[r].doc)]
    /\ \/ /\ resp[r] = 0
          /\ Goto(r, "inserted")
          /\ UNCHANGED <<asks, tx>>
       \/ /\ resp[r] = 500
          /\ Release(r)
    /\ UNCHANGED <<active, resp>>

InsertConflict(r) ==
    /\ phase[r] = "create" /\ resp[r] = 0
    /\ row[Version(r)] # NoRow
    /\ Answer(r, 409)

-----------------------------------------------------------------------------
(* POST /admin/cert-configs/{version}/activate: a transaction of two       *)
(* updates.                                                                   *)

ActivateCertConfig(r) ==
    \E v \in Versions : Receive(r, [op |-> "activate", version |-> v], "activate")

(* Mutant: clearSameGroup loses its config_version <> $1.                     *)
ClearSameGroupSelf(r) ==
    /\ phase[r] = "activate" /\ resp[r] = 0
    /\ Goto(r, "clear")
    /\ todo' = [todo EXCEPT ![r] =
                   {v \in active : row[Version(r)] # NoRow /\ SameGroup(v, Version(r))}]
    /\ UNCHANGED <<table, asks, cleared, resp>>

(* clearSameGroup starts.  It will visit the rows that are active in its      *)
(* snapshot and in the target's group; none when the target has no row, since *)
(* its subquery is then null.                                                 *)
ClearSameGroup(r) ==
    /\ phase[r] = "activate" /\ resp[r] = 0
    /\ Goto(r, "clear")
    /\ todo' = [todo EXCEPT ![r] =
                   {v \in active \ {Version(r)} :
                       row[Version(r)] # NoRow /\ SameGroup(v, Version(r))}]
    /\ UNCHANGED <<table, asks, cleared, resp>>

(* Mutant: the clear statement runs outside the transaction.                  *)
ClearRowAutocommit(r, v) ==
    /\ phase[r] = "clear" /\ v \in todo[r]
    /\ ~Locked(v, r)
    /\ todo' = [todo EXCEPT ![r] = @ \ {v}]
    /\ active' = active \ {v}
    /\ UNCHANGED <<row, phase, asks, cleared, resp>>

(* It visits one row, after any transaction that holds the row has ended, and *)
(* evaluates its condition again on the row as it is by then.  The row lock   *)
(* that PostgreSQL keeps when the condition no longer holds is left out: it   *)
(* only makes others wait longer.                                             *)
ClearRow(r, v) ==
    /\ phase[r] = "clear" /\ v \in todo[r]
    /\ ~Locked(v, r)
    /\ todo' = [todo EXCEPT ![r] = @ \ {v}]
    /\ cleared' = [cleared EXCEPT ![r] = @ \cup ({v} \cap active)]
    /\ UNCHANGED <<table, phase, asks, resp>>

(* The second update writes the row.  When the row is active already the      *)
(* update changes no indexed value and adds no index entry.                   *)
SetActive(r) ==
    /\ phase[r] = "clear" /\ todo[r] = {} /\ resp[r] = 0
    /\ row[Version(r)] # NoRow
    /\ ~Locked(Version(r), r)
    /\ Goto(r, IF Version(r) \in active THEN "ready" ELSE "enter")
    /\ UNCHANGED <<table, asks, tx, resp>>

(* Mutant: RowsAffected() is not looked at.                                   *)
SetMissingIgnored(r) ==
    /\ phase[r] = "clear" /\ todo[r] = {} /\ resp[r] = 0
    /\ row[Version(r)] = NoRow
    /\ Goto(r, "committed")
    /\ UNCHANGED <<table, asks, tx, resp>>

(* Mutant: the activation of a version without a row is tried again.          *)
SetMissingRetried(r) ==
    /\ phase[r] = "clear" /\ todo[r] = {} /\ resp[r] = 0
    /\ row[Version(r)] = NoRow
    /\ Goto(r, "activate")
    /\ UNCHANGED <<table, asks, tx, resp>>

(* RowsAffected() = 0: ErrConfigNotFound. *)
SetMissing(r) ==
    /\ phase[r] = "clear" /\ todo[r] = {} /\ resp[r] = 0
    /\ row[Version(r)] = NoRow
    /\ Answer(r, 404)

(* The new row version enters the unique index, after every open transaction  *)
(* with a say on this key has ended.                                          *)
EnterIndex(r) ==
    /\ phase[r] = "enter" /\ resp[r] = 0
    /\ Rivals(r) = {} /\ OpenRivals(r) = {}
    /\ Goto(r, "ready")
    /\ UNCHANGED <<table, asks, tx, resp>>

UniqueViolation(r) ==
    /\ phase[r] = "enter" /\ resp[r] = 0
    /\ \E v \in Rivals(r) : ~Locked(v, r)
    /\ Answer(r, 500)

Commit(r) ==
    /\ phase[r] = "ready"
    /\ active' = (active \ cleared[r]) \cup {Version(r)}
    /\ \/ /\ resp[r] = 0
          /\ Goto(r, "committed")
          /\ todo' = [todo EXCEPT ![r] = {}]
          /\ cleared' = [cleared EXCEPT ![r] = {}]
          /\ UNCHANGED asks
       \/ /\ resp[r] = 500
          /\ Release(r)
    /\ UNCHANGED <<row, resp>>

(* PostgreSQL cancels one of the transactions on a cycle. *)
DeadlockDetected(r) ==
    /\ Deadlocked(r)
    /\ Answer(r, 500)

-----------------------------------------------------------------------------
(* The handlers' ends. *)

(* GetByVersion reads the row back and the handler answers 201 or 200. *)
ReadBack(r) ==
    /\ phase[r] \in {"inserted", "committed"}
    /\ row[Version(r)] # NoRow
    /\ Answer(r, IF phase[r] = "inserted" THEN 201 ELSE 200)

(* Any statement, and the read-back, may fail in the handler's eyes: the pool *)
(* is exhausted, the request context ends, the connection or the process is   *)
(* lost.  The handler answers 500.  What it had sent to the database is still *)
(* on its way, and its locks stay until the server notices.                   *)
StoreError(r) ==
    /\ resp[r] = 0
    /\ \/ /\ phase[r] \in {"create", "activate", "clear", "enter", "ready"}
          /\ resp' = [resp EXCEPT ![r] = 500]
          /\ UNCHANGED <<table, phase, asks, tx>>
       \/ /\ phase[r] \in {"inserted", "committed"}
          /\ Answer(r, 500)

(* The server ends the session of a handler that has given up. *)
Rollback(r) ==
    /\ phase[r] # "idle" /\ resp[r] = 500
    /\ Release(r)
    /\ UNCHANGED <<table, resp>>

-----------------------------------------------------------------------------
(* Steps of the service and of the database, as opposed to operators and      *)
(* faults.                                                                    *)
Serve(r) ==
    \/ Insert(r) \/ InsertConflict(r)
    \/ ClearSameGroup(r) \/ (\E v \in Versions : ClearRow(r, v))
    \/ SetActive(r) \/ SetMissing(r)
    \/ EnterIndex(r) \/ UniqueViolation(r) \/ Commit(r)
    \/ ReadBack(r) \/ Rollback(r)

Next == \E r \in Requests :
    \/ CreateCertConfig(r) \/ ActivateCertConfig(r)
    \/ Serve(r) \/ DeadlockDetected(r) \/ StoreError(r)

Spec == Init /\ [][Next]_vars

(* Handlers run, statements finish, and sessions that wait for a row get it   *)
(* in the order they asked, so a wait that is over again and again ends:      *)
(* strong fairness per request.  The detector runs after deadlock_timeout.    *)
Fairness == \A r \in Requests : SF_vars(Serve(r)) /\ WF_vars(DeadlockDetected(r))

LiveSpec == Spec /\ Fairness

-----------------------------------------------------------------------------
(* Safety: no two active rows carry the same target, so a device that matches *)
(* a tier finds one row there (0008_add_cert_config_targeting.up.sql).        *)
OneActivePerTarget ==
    \A v, w \in active : row[v] = row[w] => v = w

(* Safety: once a target group has an active row it always has one.  Devices  *)
(* read between any two commits, so there must be no gap in a swap.           *)
NeverUnserved ==
    [][\A v \in active : \E w \in active' : row'[w] = row[v]]_vars

(* Safety: an activation touches the rows of one target group only: the       *)
(* default survives the activation of a targeted row, and the reverse.        *)
SwapWithinGroup ==
    [][\A v, w \in (active \ active') \cup (active' \ active) : row[v] = row[w]]_vars

(* Safety: a request only ever ends up changing what its own operation names, *)
(* and the answer tells the truth: see CertConfigRegistry.                    *)
StageOf(p) == IF p = "idle" THEN "idle"
              ELSE IF p \in {"inserted", "committed"} THEN "applied" ELSE "pending"

Stage == [r \in Requests |-> StageOf(phase[r])]

Asked == [r \in Requests |->
             IF asks[r].op = "create"
             THEN [op |-> "create", version |-> asks[r].version,
                   target |-> StoredTarget(asks[r].doc)]
             ELSE asks[r]]

Registry == INSTANCE CertConfigRegistry WITH stage <- Stage, asks <- Asked

ImplementsRegistry == Registry!Spec

(* Liveness: every admin request is answered and its locks are released,      *)
(* whatever the other requests do.                                            *)
EveryRequestEnds == \A r \in Requests : phase[r] # "idle" ~> phase[r] = "idle"

-----------------------------------------------------------------------------
(* The inductive invariant behind the safety properties, in parts.            *)

(* What each phase knows about its request. *)
PhaseInv == \A r \in Requests :
    /\ phase[r] = "idle" <=> asks[r].op = "none"
    /\ phase[r] \in {"create", "inserted"} <=> asks[r].op = "create"
    /\ phase[r] \in {"inserted", "enter", "ready", "committed"} => row[Version(r)] # NoRow
    /\ phase[r] # "clear" => todo[r] = {}
    /\ phase[r] \notin {"clear", "enter", "ready"} => cleared[r] = {}

ActiveStored == \A v \in active : row[v] # NoRow

(* A clear statement visits and clears rows of its own group only, and what   *)
(* it cleared is still active for everyone else.                              *)
ClearInv == \A r \in Requests :
    /\ \A v \in todo[r] : v # Version(r) /\ row[v] # NoRow /\ row[v] = row[Version(r)]
    /\ \A v \in cleared[r] : v # Version(r) /\ v \in active /\ row[v] = row[Version(r)]

(* Safety: no row is locked by two open transactions. *)
LocksExclusive == \A r, q \in Requests : r # q => Holds(r) \cap Holds(q) = {}

(* A transaction ready to commit has the only index entry with its key. *)
ReadyOwnsKey == \A r \in Requests :
    phase[r] = "ready" => Rivals(r) = {} /\ OpenRivals(r) = {}

IndInv == /\ TypeOK /\ PhaseInv /\ ActiveStored /\ ClearInv
          /\ LocksExclusive /\ ReadyOwnsKey /\ OneActivePerTarget
=============================================================================
