------------------------ MODULE CertConfigStoreProofs ------------------------
(* Theorems about CertConfigStore, for any sets of versions, selector values  *)
(* and concurrent requests.                                                   *)
EXTENDS CertConfigStore, TLAPS

(* Lemma: what stringPtrFromDoc stores is a target, never an empty selector.  *)
LEMMA StoredTargetType ==
    ASSUME NEW d \in Docs PROVE StoredTarget(d) \in Targets
BY StoreAssumption DEF StoredTarget, Targets, Selectors

(* Lemma: on stored targets the clear statement's coalesce and the unique     *)
(* index's NULLS NOT DISTINCT agree on what the same target is.               *)
LEMMA CoalesceInjective ==
    ASSUME NEW t \in Targets, NEW u \in Targets, Coalesced(t) = Coalesced(u)
    PROVE  t = u
<1>1. ASSUME NEW s \in Selectors PROVE t[s] = u[s]
  <2>1. Coalesced(t)[s] = Coalesced(u)[s]
    OBVIOUS
  <2>2. t[s] \in Values \cup {Null} /\ u[s] \in Values \cup {Null}
    BY DEF Targets
  <2>. QED BY <2>1, <2>2, StoreAssumption DEF Coalesced
<1>. QED BY <1>1 DEF Targets

(* Lemma: Init establishes the inductive invariant. *)
LEMMA InitIndInv == Init => IndInv
BY DEF Init, IndInv, TypeOK, PhaseInv, ActiveStored, ClearInv, LocksExclusive, Holds,
       ReadyOwnsKey, OneActivePerTarget, Phases, Nothing

-----------------------------------------------------------------------------
(* One lemma per action: the action preserves the inductive invariant.        *)

(* Lemma: a create request that arrives touches neither rows nor locks.       *)
LEMMA CreateCertConfigStep ==
    ASSUME IndInv, NEW r \in Requests, CreateCertConfig(r)
    PROVE  IndInv'
<1>1. TypeOK'
  BY DEF IndInv, TypeOK, Phases, Nothing, CreateCertConfig, Receive, Goto, tx, table
<1>2. PhaseInv'
  BY DEF IndInv, TypeOK, PhaseInv, Nothing, Version, CreateCertConfig, Receive,
         Goto, tx, table
<1>3. ActiveStored' /\ OneActivePerTarget'
  BY DEF IndInv, ActiveStored, OneActivePerTarget, CreateCertConfig, Receive, table
<1>4. ClearInv'
  BY DEF IndInv, TypeOK, PhaseInv, ClearInv, Version, CreateCertConfig, Receive,
         Goto, tx, table
<1>5. LocksExclusive'
  BY DEF IndInv, TypeOK, PhaseInv, LocksExclusive, Holds, Version, CreateCertConfig,
         Receive, Goto, tx, table
<1>6. ReadyOwnsKey'
  BY DEF IndInv, TypeOK, PhaseInv, ReadyOwnsKey, Rivals, OpenRivals, SameKey,
         Version, CreateCertConfig, Receive, Goto, tx, table
<1>. QED BY <1>1, <1>2, <1>3, <1>4, <1>5, <1>6 DEF IndInv

(* Lemma: an activate request that arrives touches neither rows nor locks.    *)
LEMMA ActivateCertConfigStep ==
    ASSUME IndInv, NEW r \in Requests, ActivateCertConfig(r)
    PROVE  IndInv'
<1>1. TypeOK'
  BY DEF IndInv, TypeOK, Phases, Nothing, ActivateCertConfig, Receive, Goto, tx,
         table
<1>2. PhaseInv'
  BY DEF IndInv, TypeOK, PhaseInv, Nothing, Version, ActivateCertConfig, Receive,
         Goto, tx, table
<1>3. ActiveStored' /\ OneActivePerTarget'
  BY DEF IndInv, ActiveStored, OneActivePerTarget, ActivateCertConfig, Receive,
         table
<1>4. ClearInv'
  BY DEF IndInv, TypeOK, PhaseInv, ClearInv, Version, ActivateCertConfig, Receive,
         Goto, tx, table
<1>5. LocksExclusive'
  BY DEF IndInv, TypeOK, PhaseInv, LocksExclusive, Holds, Version,
         ActivateCertConfig, Receive, Goto, tx, table
<1>6. ReadyOwnsKey'
  BY DEF IndInv, TypeOK, PhaseInv, ReadyOwnsKey, Rivals, OpenRivals, SameKey,
         Version, ActivateCertConfig, Receive, Goto, tx, table
<1>. QED BY <1>1, <1>2, <1>3, <1>4, <1>5, <1>6 DEF IndInv

(* Lemma: an insert fills a free config_version with an inactive row.         *)
LEMMA InsertStep ==
    ASSUME IndInv, NEW r \in Requests, Insert(r)
    PROVE  IndInv'
<1>1. TypeOK'
  <2>1. Version(r) \in Versions /\ asks[r].doc \in Docs
    BY DEF IndInv, TypeOK, PhaseInv, Version, Nothing, Insert
  <2>2. StoredTarget(asks[r].doc) \in Targets
    BY <2>1, StoredTargetType
  <2>3. row' \in [Versions -> Targets \cup {NoRow}]
    BY <2>1, <2>2 DEF IndInv, TypeOK, Insert
  <2>4. CASE resp[r] = 0
    BY <2>3, <2>4 DEF IndInv, TypeOK, Phases, Insert, Goto, tx
  <2>5. CASE resp[r] = 500
    BY <2>3, <2>5 DEF IndInv, TypeOK, Phases, Nothing, Insert, Release, Goto, tx
  <2>. QED BY <2>4, <2>5 DEF Insert
<1>2. PhaseInv'
  <2>1. Version(r) \in Versions /\ asks[r].doc \in Docs
    BY DEF IndInv, TypeOK, PhaseInv, Version, Nothing, Insert
  <2>2. row'[Version(r)] # NoRow
    BY <2>1, StoredTargetType, StoreAssumption DEF IndInv, TypeOK, Insert
  <2>3. \A v \in Versions : row[v] # NoRow => row'[v] # NoRow
    BY <2>1 DEF IndInv, TypeOK, Insert
  <2>4. CASE resp[r] = 0
    BY <2>2, <2>3, <2>4 DEF IndInv, TypeOK, PhaseInv, Version, Nothing, Insert, Goto, tx
  <2>5. CASE resp[r] = 500
    BY <2>2, <2>3, <2>5 DEF IndInv, TypeOK, PhaseInv, Version, Nothing, Insert, Release,
                            Goto, tx
  <2>. QED BY <2>4, <2>5 DEF Insert
<1>3. ActiveStored'
  BY DEF IndInv, ActiveStored, TypeOK, Insert, Goto, Release, tx
<1>4. ClearInv'
  BY DEF IndInv, TypeOK, PhaseInv, ClearInv, Version, ActiveStored, Insert, Goto,
         Release, tx
<1>5. LocksExclusive'
  BY DEF IndInv, TypeOK, PhaseInv, LocksExclusive, Holds, Version, Insert, Goto,
         Release, tx
<1>6. ReadyOwnsKey'
  BY DEF IndInv, TypeOK, PhaseInv, ReadyOwnsKey, Rivals, OpenRivals, SameKey,
         Version, ActiveStored, Insert, Goto, Release, tx
<1>7. OneActivePerTarget'
  BY DEF IndInv, OneActivePerTarget, ActiveStored, TypeOK, Insert, Goto, Release, tx
<1>. QED BY <1>1, <1>2, <1>3, <1>4, <1>5, <1>6, <1>7 DEF IndInv

(* Lemma: a duplicate config_version ends the request.                        *)
LEMMA InsertConflictStep ==
    ASSUME IndInv, NEW r \in Requests, InsertConflict(r)
    PROVE  IndInv'
<1>1. TypeOK'
  BY DEF IndInv, TypeOK, Phases, Nothing, InsertConflict, Answer, Release, Goto,
         table
<1>2. PhaseInv'
  BY DEF IndInv, TypeOK, PhaseInv, Nothing, Version, InsertConflict, Answer,
         Release, Goto, table
<1>3. ActiveStored' /\ OneActivePerTarget'
  BY DEF IndInv, ActiveStored, OneActivePerTarget, InsertConflict, Answer, table
<1>4. ClearInv'
  BY DEF IndInv, TypeOK, PhaseInv, ClearInv, Version, InsertConflict, Answer,
         Release, Goto, table
<1>5. LocksExclusive'
  BY DEF IndInv, TypeOK, PhaseInv, LocksExclusive, Holds, Version, InsertConflict,
         Answer, Release, Goto, table
<1>6. ReadyOwnsKey'
  BY DEF IndInv, TypeOK, PhaseInv, ReadyOwnsKey, Rivals, OpenRivals, SameKey,
         Version, InsertConflict, Answer, Release, Goto, table
<1>. QED BY <1>1, <1>2, <1>3, <1>4, <1>5, <1>6 DEF IndInv

(* Lemma: the clear statement aims at rows of the target group only.          *)
LEMMA ClearSameGroupStep ==
    ASSUME IndInv, NEW r \in Requests, ClearSameGroup(r)
    PROVE  IndInv'
<1>1. TypeOK'
  BY DEF IndInv, TypeOK, Phases, ClearSameGroup, Goto, table
<1>2. PhaseInv'
  BY DEF IndInv, TypeOK, PhaseInv, Version, ClearSameGroup, Goto, table
<1>3. ActiveStored' /\ OneActivePerTarget'
  BY DEF IndInv, ActiveStored, OneActivePerTarget, ClearSameGroup, table
<1>4. ClearInv'
  <2>1. \A v \in todo'[r] : v # Version(r) /\ row[v] # NoRow /\ row[v] = row[Version(r)]
    <3>1. Version(r) \in Versions
      BY DEF IndInv, TypeOK, PhaseInv, Version, Nothing, ClearSameGroup
    <3>2. ASSUME NEW v \in todo'[r]
          PROVE  v # Version(r) /\ row[v] # NoRow /\ row[v] = row[Version(r)]
      <4>1. /\ v \in active /\ v # Version(r)
            /\ row[Version(r)] # NoRow
            /\ Coalesced(row[v]) = Coalesced(row[Version(r)])
        BY <3>2 DEF IndInv, TypeOK, ClearSameGroup, SameGroup
      <4>2. row[v] \in Targets /\ row[v] # NoRow /\ row[Version(r)] \in Targets
        BY <3>1, <4>1 DEF IndInv, TypeOK, ActiveStored
      <4>. QED BY <4>1, <4>2, CoalesceInjective
    <3>. QED BY <3>2
  <2>. QED BY <2>1 DEF IndInv, TypeOK, ClearInv, Version, ClearSameGroup, Goto, table
<1>5. LocksExclusive'
  BY DEF IndInv, TypeOK, PhaseInv, LocksExclusive, Holds, Version, ClearSameGroup,
         Goto, table
<1>6. ReadyOwnsKey'
  BY DEF IndInv, TypeOK, PhaseInv, ReadyOwnsKey, Rivals, OpenRivals, SameKey,
         Version, ClearSameGroup, Goto, table
<1>. QED BY <1>1, <1>2, <1>3, <1>4, <1>5, <1>6 DEF IndInv

(* Lemma: a visited row is locked, and cleared only if still active.          *)
LEMMA ClearRowStep ==
    ASSUME IndInv, NEW r \in Requests, NEW v \in Versions, ClearRow(r, v)
    PROVE  IndInv'
<1>1. TypeOK'
  BY DEF IndInv, TypeOK, Phases, ClearRow, table
<1>2. PhaseInv'
  BY DEF IndInv, TypeOK, PhaseInv, Version, ClearRow, table
<1>3. ActiveStored' /\ OneActivePerTarget'
  BY DEF IndInv, ActiveStored, OneActivePerTarget, ClearRow, table
<1>4. ClearInv'
  BY DEF IndInv, TypeOK, PhaseInv, ClearInv, Version, ClearRow, table
<1>5. LocksExclusive'
  BY DEF IndInv, TypeOK, PhaseInv, LocksExclusive, Holds, Version, Locked, ClearRow,
         table
<1>6. ReadyOwnsKey'
  BY DEF IndInv, TypeOK, PhaseInv, ReadyOwnsKey, Rivals, OpenRivals, SameKey,
         Version, ClearRow, table
<1>. QED BY <1>1, <1>2, <1>3, <1>4, <1>5, <1>6 DEF IndInv

(* Lemma: the target row is locked when nobody else holds it.                 *)
LEMMA SetActiveStep ==
    ASSUME IndInv, NEW r \in Requests, SetActive(r)
    PROVE  IndInv'
<1>1. TypeOK'
  BY DEF IndInv, TypeOK, Phases, SetActive, Goto, table, tx
<1>2. PhaseInv'
  BY DEF IndInv, TypeOK, PhaseInv, Version, SetActive, Goto, table, tx
<1>3. ActiveStored' /\ OneActivePerTarget'
  BY DEF IndInv, ActiveStored, OneActivePerTarget, SetActive, table
<1>4. ClearInv'
  BY DEF IndInv, TypeOK, PhaseInv, ClearInv, Version, SetActive, Goto, table, tx
<1>5. LocksExclusive'
  BY DEF IndInv, TypeOK, PhaseInv, LocksExclusive, Holds, Version, Locked,
         SetActive, Goto, table, tx
<1>6. ReadyOwnsKey'
  BY DEF IndInv, TypeOK, PhaseInv, ReadyOwnsKey, Rivals, OpenRivals, SameKey,
         Version, OneActivePerTarget, Locked, ClearInv, Holds, SetActive, Goto,
         table, tx
<1>. QED BY <1>1, <1>2, <1>3, <1>4, <1>5, <1>6 DEF IndInv

(* Lemma: an activation of a missing version ends without effect.             *)
LEMMA SetMissingStep ==
    ASSUME IndInv, NEW r \in Requests, SetMissing(r)
    PROVE  IndInv'
<1>1. TypeOK'
  BY DEF IndInv, TypeOK, Phases, Nothing, SetMissing, Answer, Release, Goto, table
<1>2. PhaseInv'
  BY DEF IndInv, TypeOK, PhaseInv, Nothing, Version, SetMissing, Answer, Release,
         Goto, table
<1>3. ActiveStored' /\ OneActivePerTarget'
  BY DEF IndInv, ActiveStored, OneActivePerTarget, SetMissing, Answer, table
<1>4. ClearInv'
  BY DEF IndInv, TypeOK, PhaseInv, ClearInv, Version, SetMissing, Answer, Release,
         Goto, table
<1>5. LocksExclusive'
  BY DEF IndInv, TypeOK, PhaseInv, LocksExclusive, Holds, Version, SetMissing,
         Answer, Release, Goto, table
<1>6. ReadyOwnsKey'
  BY DEF IndInv, TypeOK, PhaseInv, ReadyOwnsKey, Rivals, OpenRivals, SameKey,
         Version, SetMissing, Answer, Release, Goto, table
<1>. QED BY <1>1, <1>2, <1>3, <1>4, <1>5, <1>6 DEF IndInv

(* Lemma: a row enters the unique index only as the single owner of its key.  *)
LEMMA EnterIndexStep ==
    ASSUME IndInv, NEW r \in Requests, EnterIndex(r)
    PROVE  IndInv'
<1>1. TypeOK'
  BY DEF IndInv, TypeOK, Phases, EnterIndex, Goto, table, tx
<1>2. PhaseInv'
  BY DEF IndInv, TypeOK, PhaseInv, Version, EnterIndex, Goto, table, tx
<1>3. ActiveStored' /\ OneActivePerTarget'
  BY DEF IndInv, ActiveStored, OneActivePerTarget, EnterIndex, table
<1>4. ClearInv'
  BY DEF IndInv, TypeOK, PhaseInv, ClearInv, Version, EnterIndex, Goto, table, tx
<1>5. LocksExclusive'
  BY DEF IndInv, TypeOK, PhaseInv, LocksExclusive, Holds, Version, EnterIndex, Goto,
         table, tx
<1>6. ReadyOwnsKey'
  BY DEF IndInv, TypeOK, PhaseInv, ReadyOwnsKey, Rivals, OpenRivals, SameKey,
         Version, EnterIndex, Goto, table, tx
<1>. QED BY <1>1, <1>2, <1>3, <1>4, <1>5, <1>6 DEF IndInv

(* Lemma: a unique violation rolls the transaction back.                      *)
LEMMA UniqueViolationStep ==
    ASSUME IndInv, NEW r \in Requests, UniqueViolation(r)
    PROVE  IndInv'
<1>1. TypeOK'
  BY DEF IndInv, TypeOK, Phases, Nothing, UniqueViolation, Answer, Release, Goto,
         table
<1>2. PhaseInv'
  BY DEF IndInv, TypeOK, PhaseInv, Nothing, Version, UniqueViolation, Answer,
         Release, Goto, table
<1>3. ActiveStored' /\ OneActivePerTarget'
  BY DEF IndInv, ActiveStored, OneActivePerTarget, UniqueViolation, Answer, table
<1>4. ClearInv'
  BY DEF IndInv, TypeOK, PhaseInv, ClearInv, Version, UniqueViolation, Answer,
         Release, Goto, table
<1>5. LocksExclusive'
  BY DEF IndInv, TypeOK, PhaseInv, LocksExclusive, Holds, Version, UniqueViolation,
         Answer, Release, Goto, table
<1>6. ReadyOwnsKey'
  BY DEF IndInv, TypeOK, PhaseInv, ReadyOwnsKey, Rivals, OpenRivals, SameKey,
         Version, UniqueViolation, Answer, Release, Goto, table
<1>. QED BY <1>1, <1>2, <1>3, <1>4, <1>5, <1>6 DEF IndInv

(* Lemma: the swap keeps one active row per target.                           *)
LEMMA CommitStep ==
    ASSUME IndInv, NEW r \in Requests, Commit(r)
    PROVE  IndInv'
<1>1. TypeOK'
  <2>1. Version(r) \in Versions
    BY DEF IndInv, TypeOK, PhaseInv, Version, Nothing, Commit
  <2>2. active' \subseteq Versions
    BY <2>1 DEF IndInv, TypeOK, Commit
  <2>3. CASE resp[r] = 0
    BY <2>2, <2>3 DEF IndInv, TypeOK, Phases, Commit, Goto
  <2>4. CASE resp[r] = 500
    BY <2>2, <2>4 DEF IndInv, TypeOK, Phases, Nothing, Commit, Release, Goto
  <2>. QED BY <2>3, <2>4 DEF Commit
<1>2. PhaseInv'
  BY DEF IndInv, TypeOK, PhaseInv, Nothing, Version, Commit, Goto, Release
<1>3. ActiveStored'
  BY DEF IndInv, ActiveStored, TypeOK, PhaseInv, ClearInv, Version, Commit, Goto,
         Release
<1>4. ClearInv'
  BY DEF IndInv, TypeOK, PhaseInv, ClearInv, Version, LocksExclusive, Holds, Commit,
         Goto, Release
<1>5. LocksExclusive'
  BY DEF IndInv, TypeOK, PhaseInv, LocksExclusive, Holds, Version, Commit, Goto,
         Release
<1>6. ReadyOwnsKey'
  BY DEF IndInv, TypeOK, PhaseInv, ReadyOwnsKey, Rivals, OpenRivals, SameKey,
         Version, ClearInv, LocksExclusive, Holds, Commit, Goto, Release
<1>7. OneActivePerTarget'
  BY DEF IndInv, OneActivePerTarget, TypeOK, PhaseInv, ReadyOwnsKey, Rivals,
         SameKey, Version, Commit, Goto, Release
<1>. QED BY <1>1, <1>2, <1>3, <1>4, <1>5, <1>6, <1>7 DEF IndInv

(* Lemma: the deadlock victim gives up its locks.                             *)
LEMMA DeadlockDetectedStep ==
    ASSUME IndInv, NEW r \in Requests, DeadlockDetected(r)
    PROVE  IndInv'
<1>1. TypeOK'
  BY DEF IndInv, TypeOK, Phases, Nothing, DeadlockDetected, Answer, Release, Goto,
         table
<1>2. PhaseInv'
  BY DEF IndInv, TypeOK, PhaseInv, Nothing, Version, DeadlockDetected, Answer,
         Release, Goto, table
<1>3. ActiveStored' /\ OneActivePerTarget'
  BY DEF IndInv, ActiveStored, OneActivePerTarget, DeadlockDetected, Answer, table
<1>4. ClearInv'
  BY DEF IndInv, TypeOK, PhaseInv, ClearInv, Version, DeadlockDetected, Answer,
         Release, Goto, table
<1>5. LocksExclusive'
  BY DEF IndInv, TypeOK, PhaseInv, LocksExclusive, Holds, Version, DeadlockDetected,
         Answer, Release, Goto, table
<1>6. ReadyOwnsKey'
  BY DEF IndInv, TypeOK, PhaseInv, ReadyOwnsKey, Rivals, OpenRivals, SameKey,
         Version, DeadlockDetected, Answer, Release, Goto, table
<1>. QED BY <1>1, <1>2, <1>3, <1>4, <1>5, <1>6 DEF IndInv

(* Lemma: the final answer changes no row.                                    *)
LEMMA ReadBackStep ==
    ASSUME IndInv, NEW r \in Requests, ReadBack(r)
    PROVE  IndInv'
<1>1. TypeOK'
  BY DEF IndInv, TypeOK, Phases, Nothing, ReadBack, Answer, Release, Goto, table
<1>2. PhaseInv'
  BY DEF IndInv, TypeOK, PhaseInv, Nothing, Version, ReadBack, Answer, Release,
         Goto, table
<1>3. ActiveStored' /\ OneActivePerTarget'
  BY DEF IndInv, ActiveStored, OneActivePerTarget, ReadBack, Answer, table
<1>4. ClearInv'
  BY DEF IndInv, TypeOK, PhaseInv, ClearInv, Version, ReadBack, Answer, Release,
         Goto, table
<1>5. LocksExclusive'
  BY DEF IndInv, TypeOK, PhaseInv, LocksExclusive, Holds, Version, ReadBack, Answer,
         Release, Goto, table
<1>6. ReadyOwnsKey'
  BY DEF IndInv, TypeOK, PhaseInv, ReadyOwnsKey, Rivals, OpenRivals, SameKey,
         Version, ReadBack, Answer, Release, Goto, table
<1>. QED BY <1>1, <1>2, <1>3, <1>4, <1>5, <1>6 DEF IndInv

(* Lemma: a handler that gives up changes no row and no lock.                 *)
LEMMA StoreErrorStep ==
    ASSUME IndInv, NEW r \in Requests, StoreError(r)
    PROVE  IndInv'
<1>1. TypeOK'
  BY DEF IndInv, TypeOK, Phases, Nothing, StoreError, Answer, Release, Goto, table,
         tx
<1>2. PhaseInv'
  BY DEF IndInv, TypeOK, PhaseInv, Nothing, Version, StoreError, Answer, Release,
         Goto, table, tx
<1>3. ActiveStored' /\ OneActivePerTarget'
  BY DEF IndInv, ActiveStored, OneActivePerTarget, StoreError, Answer, table
<1>4. ClearInv'
  BY DEF IndInv, TypeOK, PhaseInv, ClearInv, Version, StoreError, Answer, Release,
         Goto, table, tx
<1>5. LocksExclusive'
  BY DEF IndInv, TypeOK, PhaseInv, LocksExclusive, Holds, Version, StoreError,
         Answer, Release, Goto, table, tx
<1>6. ReadyOwnsKey'
  BY DEF IndInv, TypeOK, PhaseInv, ReadyOwnsKey, Rivals, OpenRivals, SameKey,
         Version, StoreError, Answer, Release, Goto, table, tx
<1>. QED BY <1>1, <1>2, <1>3, <1>4, <1>5, <1>6 DEF IndInv

(* Lemma: a rollback frees the locks and changes no row.                      *)
LEMMA RollbackStep ==
    ASSUME IndInv, NEW r \in Requests, Rollback(r)
    PROVE  IndInv'
<1>1. TypeOK'
  BY DEF IndInv, TypeOK, Phases, Nothing, Rollback, Release, Goto, table
<1>2. PhaseInv'
  BY DEF IndInv, TypeOK, PhaseInv, Nothing, Version, Rollback, Release, Goto, table
<1>3. ActiveStored' /\ OneActivePerTarget'
  BY DEF IndInv, ActiveStored, OneActivePerTarget, Rollback, table
<1>4. ClearInv'
  BY DEF IndInv, TypeOK, PhaseInv, ClearInv, Version, Rollback, Release, Goto, table
<1>5. LocksExclusive'
  BY DEF IndInv, TypeOK, PhaseInv, LocksExclusive, Holds, Version, Rollback,
         Release, Goto, table
<1>6. ReadyOwnsKey'
  BY DEF IndInv, TypeOK, PhaseInv, ReadyOwnsKey, Rivals, OpenRivals, SameKey,
         Version, Rollback, Release, Goto, table
<1>. QED BY <1>1, <1>2, <1>3, <1>4, <1>5, <1>6 DEF IndInv

-----------------------------------------------------------------------------
(* Lemma: every step of the specification preserves the inductive invariant.  *)
LEMMA NextIndInv == IndInv /\ [Next]_vars => IndInv'
<1>. SUFFICES ASSUME IndInv, [Next]_vars PROVE IndInv'
  OBVIOUS
<1>1. CASE UNCHANGED vars
  BY <1>1 DEF IndInv, vars, TypeOK, PhaseInv, ActiveStored, ClearInv, LocksExclusive,
              Holds, Version, ReadyOwnsKey, Rivals, OpenRivals, SameKey, OneActivePerTarget
<1>2. ASSUME NEW r \in Requests, Serve(r) PROVE IndInv'
  BY <1>2, InsertStep, InsertConflictStep, ClearSameGroupStep, ClearRowStep, SetActiveStep,
     SetMissingStep, EnterIndexStep, UniqueViolationStep, CommitStep, ReadBackStep,
     RollbackStep DEF Serve
<1>3. ASSUME NEW r \in Requests,
             CreateCertConfig(r) \/ ActivateCertConfig(r) \/ DeadlockDetected(r) \/ StoreError(r)
      PROVE  IndInv'
  BY <1>3, CreateCertConfigStep, ActivateCertConfigStep, DeadlockDetectedStep, StoreErrorStep
<1>. QED BY <1>1, <1>2, <1>3 DEF Next

(* Theorem: the inductive invariant holds in every reachable state, whatever  *)
(* the sets of versions, selector values and concurrent requests.             *)
THEOREM Invariance == Spec => []IndInv
BY InitIndInv, NextIndInv, PTL DEF Spec

(* Theorem: the table, the locks and the answers keep their types.            *)
THEOREM TypeCorrectness == Spec => []TypeOK
<1>1. IndInv => TypeOK
  BY DEF IndInv
<1>. QED BY <1>1, Invariance, PTL

(* Theorem: at most one row is active per target group, whatever activations  *)
(* run at once, fail halfway or are abandoned.                                *)
THEOREM OneActive == Spec => []OneActivePerTarget
<1>1. IndInv => OneActivePerTarget
  BY DEF IndInv
<1>. QED BY <1>1, Invariance, PTL

(* Lemma: only an insert and a commit touch the table.                        *)
LEMMA TableSteps ==
    ASSUME [Next]_vars
    PROVE  UNCHANGED table \/ \E r \in Requests : Insert(r) \/ Commit(r)
BY DEF Next, vars, Serve, CreateCertConfig, ActivateCertConfig, Receive, InsertConflict,
       ClearSameGroup, ClearRow, SetActive, SetMissing, EnterIndex, UniqueViolation,
       DeadlockDetected, ReadBack, StoreError, Rollback, Answer, table

(* Lemma: an insert leaves the active rows, and what they say, alone.         *)
LEMMA InsertKeepsActive ==
    ASSUME IndInv, NEW r \in Requests, Insert(r)
    PROVE  active' = active /\ \A v \in active : row'[v] = row[v]
<1>1. Version(r) \notin active
  BY DEF IndInv, ActiveStored, Insert
<1>. QED BY <1>1 DEF IndInv, TypeOK, Insert

(* Lemma: a commit makes its version active in place of active rows of the    *)
(* same target, all of them.                                                  *)
LEMMA CommitSwaps ==
    ASSUME IndInv, NEW r \in Requests, Commit(r)
    PROVE  /\ row' = row
           /\ Version(r) \in active'
           /\ row[Version(r)] # NoRow
           /\ active' = {v \in active : row[v] # row[Version(r)]} \cup {Version(r)}
<1>1. \A v \in cleared[r] : row[v] = row[Version(r)]
  BY DEF IndInv, ClearInv
<1>2. \A v \in active : row[v] = row[Version(r)] => v = Version(r) \/ v \in cleared[r]
  BY DEF IndInv, TypeOK, ReadyOwnsKey, Rivals, SameKey, Commit
<1>3. row[Version(r)] # NoRow
  BY DEF IndInv, PhaseInv, Commit
<1>. QED BY <1>1, <1>2, <1>3 DEF Commit

(* Theorem: a target group that has an active row never loses it: a device    *)
(* that reads between any two steps finds a configuration.                    *)
THEOREM NoGap == Spec => NeverUnserved
<1>1. ASSUME IndInv, [Next]_vars
      PROVE  \A v \in active : \E w \in active' : row'[w] = row[v]
  <2>1. CASE UNCHANGED table
    BY <2>1 DEF table
  <2>2. ASSUME NEW r \in Requests, Insert(r)
        PROVE  \A v \in active : \E w \in active' : row'[w] = row[v]
    BY <1>1, <2>2, InsertKeepsActive
  <2>3. ASSUME NEW r \in Requests, Commit(r)
        PROVE  \A v \in active : \E w \in active' : row'[w] = row[v]
    BY <1>1, <2>3, CommitSwaps
  <2>. QED BY <1>1, <2>1, <2>2, <2>3, TableSteps
<1>. QED BY <1>1, Invariance, PTL DEF Spec, NeverUnserved

(* Theorem: an activation changes the active rows of one target group only.   *)
THEOREM SwapIsLocal == Spec => SwapWithinGroup
<1>. DEFINE Swapped == (active \ active') \cup (active' \ active)
<1>1. ASSUME IndInv, [Next]_vars
      PROVE  \A v, w \in Swapped : row[v] = row[w]
  <2>1. CASE UNCHANGED table
    BY <2>1 DEF table
  <2>2. ASSUME NEW r \in Requests, Insert(r)
        PROVE  \A v, w \in Swapped : row[v] = row[w]
    BY <1>1, <2>2, InsertKeepsActive
  <2>3. ASSUME NEW r \in Requests, Commit(r)
        PROVE  \A v, w \in Swapped : row[v] = row[w]
    BY <1>1, <2>3, CommitSwaps
  <2>. QED BY <1>1, <2>1, <2>2, <2>3, TableSteps
<1>. QED BY <1>1, Invariance, PTL DEF Spec, SwapWithinGroup

-----------------------------------------------------------------------------
(* CertConfigStore implements CertConfigRegistry.                             *)

(* Lemma: the initial states of the store are those of the registry.          *)
LEMMA InitRefines == Init => Registry!Init
BY DEF Init, Registry!Init, Stage, StageOf, Asked, Nothing, Registry!Nothing

(* Lemma: a change of phase, seen by the registry.                            *)
LEMMA StageStep ==
    ASSUME TypeOK, NEW r \in Requests, NEW p, Goto(r, p)
    PROVE  Stage' = [Stage EXCEPT ![r] = StageOf(p)]
BY DEF TypeOK, Goto, Stage, StageOf

(* Lemma: a request that ends, seen by the registry.                          *)
LEMMA ReleaseStep ==
    ASSUME TypeOK, NEW r \in Requests, Release(r)
    PROVE  /\ Stage' = [Stage EXCEPT ![r] = "idle"]
           /\ Asked' = [Asked EXCEPT ![r] = Registry!Nothing]
<1>1. Stage' = [Stage EXCEPT ![r] = "idle"]
  BY StageStep DEF Release, StageOf
<1>2. Asked' = [Asked EXCEPT ![r] = Registry!Nothing]
  <2>1. asks' = [asks EXCEPT ![r] = Nothing]
    BY DEF Release
  <2>. QED BY <2>1 DEF TypeOK, Asked, Nothing, Registry!Nothing
<1>. QED BY <1>1, <1>2

(* Lemma: to the registry, a step that leaves the table, the answers and the  *)
(* operations alone, and stays before the effect, is a stutter.               *)
LEMMA StutterRefines ==
    ASSUME TypeOK, NEW r \in Requests, UNCHANGED <<table, asks, resp>>, NEW p \in Phases,
           phase' = [phase EXCEPT ![r] = p],
           phase[r] \notin {"idle", "inserted", "committed"},
           p \notin {"idle", "inserted", "committed"}
    PROVE  UNCHANGED Registry!vars
BY StageStep DEF TypeOK, Goto, Registry!vars, Stage, StageOf, Asked, table

(* Lemma: an answer given by the store is one Told by the registry.           *)
LEMMA AnswerRefines ==
    ASSUME TypeOK, NEW r \in Requests, NEW code, Answer(r, code)
    PROVE  Registry!Told(r, code)
BY ReleaseStep DEF Answer, table, Registry!Told

(* Lemma: starting a request is a Submit.                                     *)
LEMMA ReceiveRefines ==
    ASSUME IndInv, NEW r \in Requests, CreateCertConfig(r) \/ ActivateCertConfig(r)
    PROVE  Registry!Submit(r)
<1>1. CASE CreateCertConfig(r)
  <2>1. PICK v \in Versions, d \in Docs :
            Receive(r, [op |-> "create", version |-> v, doc |-> d], "create")
    BY <1>1 DEF CreateCertConfig
  <2>. DEFINE o == [op |-> "create", version |-> v, target |-> StoredTarget(d)]
  <2>2. o \in Registry!Operations
    BY StoredTargetType DEF Registry!Operations
  <2>3. Asked' = [Asked EXCEPT ![r] = o]
    BY <2>1 DEF IndInv, TypeOK, Receive, Asked
  <2>4. Stage[r] = "idle" /\ Stage' = [Stage EXCEPT ![r] = "pending"]
    BY <2>1, StageStep DEF IndInv, Receive, Stage, StageOf
  <2>. QED BY <2>1, <2>2, <2>3, <2>4 DEF Registry!Submit, Receive, table
<1>2. CASE ActivateCertConfig(r)
  <2>1. PICK v \in Versions : Receive(r, [op |-> "activate", version |-> v], "activate")
    BY <1>2 DEF ActivateCertConfig
  <2>. DEFINE o == [op |-> "activate", version |-> v]
  <2>2. o \in Registry!Operations
    BY DEF Registry!Operations
  <2>3. Asked' = [Asked EXCEPT ![r] = o]
    BY <2>1 DEF IndInv, TypeOK, Receive, Asked
  <2>4. Stage[r] = "idle" /\ Stage' = [Stage EXCEPT ![r] = "pending"]
    BY <2>1, StageStep DEF IndInv, Receive, Stage, StageOf
  <2>. QED BY <2>1, <2>2, <2>3, <2>4 DEF Registry!Submit, Receive, table
<1>. QED BY <1>1, <1>2

(* Lemma: the insert statement is the registry's Create.                      *)
LEMMA InsertRefines ==
    ASSUME IndInv, NEW r \in Requests, Insert(r)
    PROVE  Registry!Create(r)
<1>1. asks[r].op = "create" /\ Stage[r] = "pending"
  BY DEF IndInv, TypeOK, PhaseInv, Insert, Stage, StageOf
<1>2. /\ Asked[r].op = "create" /\ Asked[r].version = Version(r)
      /\ Asked[r].target = StoredTarget(asks[r].doc)
  BY <1>1 DEF Asked, Version
<1>3. Registry!Apply(r)
  <2>1. CASE resp[r] = 0
    BY <1>1, <2>1, StageStep DEF IndInv, TypeOK, Insert, Registry!Apply, StageOf, Asked
  <2>2. CASE resp[r] = 500
    BY <1>1, <2>2, ReleaseStep DEF IndInv, Insert, Registry!Apply
  <2>. QED BY <2>1, <2>2 DEF Insert
<1>. QED BY <1>1, <1>2, <1>3 DEF Registry!Create, Insert

(* Lemma: the commit is the registry's Activate, one atomic swap.             *)
LEMMA CommitRefines ==
    ASSUME IndInv, NEW r \in Requests, Commit(r)
    PROVE  Registry!Activate(r)
<1>1. asks[r].op = "activate" /\ Stage[r] = "pending"
  BY DEF IndInv, TypeOK, PhaseInv, Commit, Stage, StageOf, Nothing
<1>2. Asked[r].op = "activate" /\ Asked[r].version = Version(r)
  BY <1>1 DEF Asked, Version
<1>3. Registry!Apply(r)
  <2>1. CASE resp[r] = 0
    BY <1>1, <2>1, StageStep DEF IndInv, TypeOK, Commit, Registry!Apply, StageOf, Asked
  <2>2. CASE resp[r] = 500
    BY <1>1, <2>2, ReleaseStep DEF IndInv, Commit, Registry!Apply
  <2>. QED BY <2>1, <2>2 DEF Commit
<1>. QED BY <1>1, <1>2, <1>3, CommitSwaps DEF Registry!Activate

(* Lemma: 409 and 404 are told only when the registry may refuse.             *)
LEMMA RefusalRefines ==
    ASSUME IndInv, NEW r \in Requests, InsertConflict(r) \/ SetMissing(r)
    PROVE  Registry!Refuse(r)
<1>1. CASE InsertConflict(r)
  <2>1. Stage[r] = "pending" /\ Asked[r].op = "create" /\ Asked[r].version = Version(r)
    BY <1>1 DEF IndInv, TypeOK, PhaseInv, InsertConflict, Stage, StageOf, Asked, Version
  <2>2. Registry!Told(r, 409)
    BY <1>1, AnswerRefines DEF IndInv, InsertConflict
  <2>. QED BY <1>1, <2>1, <2>2 DEF InsertConflict, Registry!Refuse
<1>2. CASE SetMissing(r)
  <2>1. Stage[r] = "pending" /\ Asked[r].op = "activate" /\ Asked[r].version = Version(r)
    BY <1>2 DEF IndInv, TypeOK, PhaseInv, SetMissing, Stage, StageOf, Asked, Version, Nothing
  <2>2. Registry!Told(r, 404)
    BY <1>2, AnswerRefines DEF IndInv, SetMissing
  <2>. QED BY <1>2, <2>1, <2>2 DEF SetMissing, Registry!Refuse
<1>. QED BY <1>1, <1>2

(* Lemma: 201 and 200 are told only of effects that took place.               *)
LEMMA ReadBackRefines ==
    ASSUME IndInv, NEW r \in Requests, ReadBack(r)
    PROVE  Registry!Confirm(r)
<1>1. Stage[r] = "applied" /\ (phase[r] = "inserted" <=> Asked[r].op = "create")
  BY DEF IndInv, TypeOK, PhaseInv, ReadBack, Stage, StageOf, Asked
<1>2. ASSUME NEW code, Answer(r, code) PROVE Registry!Told(r, code)
  BY <1>2, AnswerRefines DEF IndInv
<1>. QED BY <1>1, <1>2 DEF ReadBack, Registry!Confirm

(* Lemma: the other endings are the registry's Fail.                          *)
LEMMA FailureRefines ==
    ASSUME IndInv, NEW r \in Requests,
           UniqueViolation(r) \/ DeadlockDetected(r) \/ Rollback(r)
    PROVE  Registry!Fail(r)
<1>1. Stage[r] # "idle"
  <2>1. CASE UniqueViolation(r)
    BY <2>1 DEF IndInv, TypeOK, UniqueViolation, Stage, StageOf
  <2>2. CASE DeadlockDetected(r)
    <3>1. Blockers(r) # {}
      BY <2>2 DEF DeadlockDetected, Deadlocked
    <3>. QED BY <3>1 DEF Blockers, Stage, StageOf
  <2>3. CASE Rollback(r)
    BY <2>3 DEF IndInv, TypeOK, Rollback, Stage, StageOf
  <2>. QED BY <2>1, <2>2, <2>3
<1>2. Registry!Told(r, 500)
  <2>1. CASE UniqueViolation(r) \/ DeadlockDetected(r)
    BY <2>1, AnswerRefines DEF IndInv, UniqueViolation, DeadlockDetected
  <2>2. CASE Rollback(r)
    <3>1. Answer(r, 500)
      BY <2>2 DEF IndInv, TypeOK, Rollback, Answer
    <3>. QED BY <3>1, AnswerRefines DEF IndInv
  <2>. QED BY <2>1, <2>2
<1>. QED BY <1>1, <1>2 DEF Registry!Fail

(* Lemma: a handler that gives up is a GiveUp, or a Fail after the effect.    *)
LEMMA StoreErrorRefines ==
    ASSUME IndInv, NEW r \in Requests, StoreError(r)
    PROVE  Registry!GiveUp(r) \/ Registry!Fail(r)
<1>1. CASE phase[r] \in {"inserted", "committed"}
  <2>1. Answer(r, 500)
    BY <1>1 DEF StoreError
  <2>2. Registry!Told(r, 500)
    BY <2>1, AnswerRefines DEF IndInv
  <2>. QED BY <1>1, <2>2 DEF Registry!Fail, Stage, StageOf
<1>2. CASE phase[r] \notin {"inserted", "committed"}
  BY <1>2 DEF StoreError, Registry!GiveUp, Stage, StageOf, Asked, table
<1>. QED BY <1>1, <1>2

(* Lemma: the statements between Begin and Commit are stutters.               *)
LEMMA StatementRefines ==
    ASSUME IndInv, NEW r \in Requests,
           \/ ClearSameGroup(r) \/ SetActive(r) \/ EnterIndex(r)
           \/ \E v \in Versions : ClearRow(r, v)
    PROVE  UNCHANGED Registry!vars
<1>1. CASE ClearSameGroup(r)
  BY <1>1, StutterRefines DEF IndInv, ClearSameGroup, Goto, Phases
<1>2. CASE SetActive(r)
  BY <1>2, StutterRefines DEF IndInv, SetActive, Goto, Phases
<1>3. CASE EnterIndex(r)
  BY <1>3, StutterRefines DEF IndInv, EnterIndex, Goto, Phases
<1>4. CASE \E v \in Versions : ClearRow(r, v)
  BY <1>4 DEF ClearRow, table, Registry!vars, Stage, StageOf, Asked
<1>. QED BY <1>1, <1>2, <1>3, <1>4

(* Theorem: the store's statements, locks and index checks implement the      *)
(* registry's atomic operations, and every answer is true of them.            *)
THEOREM Refinement == Spec => ImplementsRegistry
<1>1. ASSUME IndInv, [Next]_vars PROVE [Registry!Next]_(Registry!vars)
  <2>1. CASE UNCHANGED vars
    BY <2>1 DEF vars, Registry!vars, Stage, StageOf, Asked
  <2>2. ASSUME NEW r \in Requests,
               CreateCertConfig(r) \/ ActivateCertConfig(r) \/ Serve(r)
               \/ DeadlockDetected(r) \/ StoreError(r)
        PROVE  [Registry!Next]_(Registry!vars)
    <3>1. \/ Registry!Submit(r) \/ Registry!Create(r) \/ Registry!Activate(r)
          \/ Registry!Confirm(r) \/ Registry!Refuse(r) \/ Registry!Fail(r)
          \/ Registry!GiveUp(r) \/ UNCHANGED Registry!vars
      BY <1>1, <2>2, ReceiveRefines, InsertRefines, CommitRefines, RefusalRefines,
         ReadBackRefines, FailureRefines, StoreErrorRefines, StatementRefines DEF Serve
    <3>. QED BY <3>1 DEF Registry!Next
  <2>. QED BY <1>1, <2>1, <2>2 DEF Next
<1>. QED BY <1>1, InitRefines, Invariance, PTL DEF Spec, ImplementsRegistry, Registry!Spec
=============================================================================
