------------------------ MODULE ServerLifecycleProofs ------------------------
(* Theorems about ServerLifecycle, for any number of servers and migration    *)
(* files and for deaths at any stages.                                        *)
EXTENDS ServerLifecycle, TLAPS

(* The inductive invariant, part by part. *)

(* Who applies a migration has the advisory lock, and who has the lock is in  *)
(* RunMigrations.                                                             *)
LockInv == \A s \in Servers :
    /\ stage[s] = "applying" => lock = s /\ dirty
    /\ lock = s => stage[s] \in {"migrate", "applying"}

(* The stages of SeedIfEmpty are there with DEV_SEED=1 only.                  *)
SeedStages == \A s \in Servers : stage[s] \in {"precheck", "insert", "activate"} => DevSeed

(* With DEV_SEED=1 the first active row is the seed's, and one process ever   *)
(* gets to activate it.                                                       *)
SeedInv == DevSeed =>
    /\ active # None => "seed" \in rows
    /\ \A s \in Servers : stage[s] = "activate" => "seed" \in rows /\ active = None
    /\ \A s, t \in Servers : stage[s] = "activate" /\ stage[t] = "activate" => s = t

IndInv == /\ TypeOK /\ LockInv /\ SeedStages /\ SeedInv
          /\ SeededBeforeListening /\ MigratedBeforeListening

(* Lemma: Init establishes the inductive invariant. *)
LEMMA InitIndInv == Init => IndInv
<1>. SUFFICES ASSUME Init PROVE IndInv
  OBVIOUS
<1>1. TypeOK
  <2>1. version \in 0..Migrations /\ stops \in 0..MaxStops
    BY LifecycleAssumption DEF Init
  <2>2. dirty \in BOOLEAN
    BY DEF Init
  <2>3. /\ stage \in [Servers -> Stages] /\ lock \in Servers \cup {None}
        /\ rows \subseteq {"seed", "other"} /\ active \in rows \cup {None}
        /\ database \in {"up", "hung"} /\ health \in [Servers -> {0, 200, 503}]
    BY DEF Init, Stages
  <2>. QED BY <2>1, <2>2, <2>3 DEF TypeOK
<1>2. LockInv /\ SeedStages
  BY LifecycleAssumption DEF Init, LockInv, SeedStages
<1>3. SeedInv /\ SeededBeforeListening /\ MigratedBeforeListening
  BY LifecycleAssumption DEF Init, SeedInv, SeededBeforeListening, MigratedBeforeListening
<1>. QED BY <1>1, <1>2, <1>3 DEF IndInv

-----------------------------------------------------------------------------
(* Lemma: the rows, of which there are two at most, are only added to.        *)
LEMMA RowsStep ==
    ASSUME [Next]_vars
    PROVE  rows' = rows \/ rows' = rows \cup {"seed"} \/ rows' = rows \cup {"other"}
BY DEF Next, vars, config, DatabaseHangs, DatabaseAnswers, Boot, Start, LockMigrations,
       LockTimeout, RefuseDirty, BeginMigration, EndMigration, Migrated, Precheck, SeedInsert,
       SeedActivate, Drained, AdminInsert, AdminActivate, Healthz, Sigterm, Crash

(* Lemma: every step keeps the types. *)
LEMMA TypeStep ==
    ASSUME TypeOK, SeedStages, SeedInv, [Next]_vars
    PROVE  TypeOK'
<1>. USE DEF Next, vars, DatabaseHangs, DatabaseAnswers, Boot, Start, LockMigrations,
             LockTimeout, RefuseDirty, BeginMigration, EndMigration, Migrated, Precheck,
             SeedInsert, SeedActivate, Drained, AdminInsert, AdminActivate, Healthz, Sigterm,
             Crash
<1>1. version' \in 0..Migrations
  BY LifecycleAssumption DEF TypeOK, schema
<1>2. stops' \in 0..MaxStops
  BY LifecycleAssumption DEF TypeOK
<1>3. dirty' \in BOOLEAN
  BY DEF TypeOK, schema
<1>4. stage' \in [Servers -> Stages]
  BY DEF TypeOK, Stages, Goto, Exit
<1>5. health' \in [Servers -> {0, 200, 503}]
  BY DEF TypeOK
<1>6. lock' \in Servers \cup {None}
  BY DEF TypeOK, schema
<1>7. database' \in {"up", "hung"}
  BY DEF TypeOK
<1>8. rows' \subseteq {"seed", "other"}
  BY RowsStep DEF TypeOK
<1>9. active' \in rows' \cup {None}
  BY RowsStep DEF TypeOK, SeedStages, SeedInv, config, At
<1>. QED BY <1>1, <1>2, <1>3, <1>4, <1>5, <1>6, <1>7, <1>8, <1>9 DEF TypeOK

-----------------------------------------------------------------------------
(* The actions preserve the inductive invariant. *)

(* Lemma: RunMigrations takes one server at a time through each file.         *)
LEMMA MigrateStep ==
    ASSUME IndInv, NEW s \in Servers,
           \/ Start(s) \/ LockMigrations(s) \/ LockTimeout(s) \/ RefuseDirty(s)
           \/ BeginMigration(s) \/ EndMigration(s) \/ Migrated(s)
    PROVE  /\ LockInv' /\ SeedStages' /\ SeedInv'
           /\ SeededBeforeListening' /\ MigratedBeforeListening'
<1>. USE DEF Start, LockMigrations, LockTimeout, RefuseDirty, BeginMigration, EndMigration,
             Migrated, At, Goto, Exit, schema, config
<1>1. LockInv'
  BY LifecycleAssumption DEF IndInv, TypeOK, LockInv
<1>2. SeedStages' /\ SeedInv'
  BY LifecycleAssumption DEF IndInv, TypeOK, SeedStages, SeedInv
<1>3. SeededBeforeListening'
  BY LifecycleAssumption DEF IndInv, TypeOK, SeededBeforeListening
<1>4. MigratedBeforeListening'
  BY DEF IndInv, TypeOK, LockInv, MigratedBeforeListening
<1>. QED BY <1>1, <1>2, <1>3, <1>4

(* Lemma: of several servers that seed, one inserts the row and activates it. *)
LEMMA SeedStep ==
    ASSUME IndInv, NEW s \in Servers, Precheck(s) \/ SeedInsert(s) \/ SeedActivate(s)
    PROVE  /\ LockInv' /\ SeedStages' /\ SeedInv'
           /\ SeededBeforeListening' /\ MigratedBeforeListening'
<1>. USE DEF Precheck, SeedInsert, SeedActivate, At, Goto, Exit, schema, config
<1>1. LockInv'
  BY LifecycleAssumption DEF IndInv, TypeOK, LockInv
<1>2. SeedStages' /\ SeedInv'
  BY LifecycleAssumption DEF IndInv, TypeOK, SeedStages, SeedInv
<1>3. SeededBeforeListening'
  BY LifecycleAssumption DEF IndInv, TypeOK, SeededBeforeListening
<1>4. MigratedBeforeListening'
  BY DEF IndInv, TypeOK, MigratedBeforeListening
<1>. QED BY <1>1, <1>2, <1>3, <1>4

(* Lemma: a server that takes requests, stops or dies.                        *)
LEMMA ServeStep ==
    ASSUME IndInv, NEW s \in Servers,
           \/ AdminInsert(s) \/ AdminActivate(s) \/ Healthz(s) \/ Sigterm(s) \/ Drained(s)
           \/ Crash(s)
    PROVE  /\ LockInv' /\ SeedStages' /\ SeedInv'
           /\ SeededBeforeListening' /\ MigratedBeforeListening'
<1>. USE DEF AdminInsert, AdminActivate, Healthz, Sigterm, Drained, Crash, At, Goto, schema,
             config
<1>1. LockInv'
  BY LifecycleAssumption DEF IndInv, TypeOK, LockInv
<1>2. SeedStages' /\ SeedInv'
  BY LifecycleAssumption DEF IndInv, TypeOK, SeedStages, SeedInv, SeededBeforeListening
<1>3. SeededBeforeListening'
  BY LifecycleAssumption DEF IndInv, TypeOK, SeededBeforeListening
<1>4. MigratedBeforeListening'
  BY DEF IndInv, TypeOK, MigratedBeforeListening
<1>. QED BY <1>1, <1>2, <1>3, <1>4

(* Lemma: every step preserves the inductive invariant. *)
LEMMA NextIndInv == IndInv /\ [Next]_vars => IndInv'
<1>. SUFFICES ASSUME IndInv, [Next]_vars PROVE IndInv'
  OBVIOUS
<1>1. TypeOK'
  BY TypeStep DEF IndInv
<1>2. CASE UNCHANGED vars \/ DatabaseHangs \/ DatabaseAnswers
  <2>1. UNCHANGED <<stage, schema, config>>
    BY <1>2 DEF vars, DatabaseHangs, DatabaseAnswers, schema, config
  <2>2. LockInv' /\ SeedStages' /\ SeedInv'
    BY <2>1 DEF IndInv, LockInv, SeedStages, SeedInv, schema, config
  <2>3. SeededBeforeListening' /\ MigratedBeforeListening'
    BY <2>1 DEF IndInv, SeededBeforeListening, MigratedBeforeListening, schema, config
  <2>. QED BY <1>1, <2>2, <2>3 DEF IndInv
<1>3. ASSUME NEW s \in Servers, Boot(s) PROVE IndInv'
  BY <1>1, <1>3, MigrateStep, SeedStep, ServeStep DEF Boot, IndInv
<1>4. ASSUME NEW s \in Servers,
             AdminInsert(s) \/ AdminActivate(s) \/ Healthz(s) \/ Sigterm(s) \/ Crash(s)
      PROVE  IndInv'
  BY <1>1, <1>4, ServeStep DEF IndInv
<1>. QED BY <1>2, <1>3, <1>4 DEF Next

-----------------------------------------------------------------------------
(* The theorems. *)

(* Theorem: the inductive invariant holds throughout. *)
THEOREM Invariance == Spec => []IndInv
BY InitIndInv, NextIndInv, PTL DEF Spec

(* Theorem: every variable keeps its type; the active row is one of the rows. *)
THEOREM TypeCorrectness == Spec => []TypeOK
<1>1. IndInv => TypeOK
  BY DEF IndInv
<1>. QED BY <1>1, Invariance, PTL

(* Theorem: two servers never apply migrations at the same time, and while    *)
(* one does the schema is marked dirty.                                       *)
THEOREM OneMigrator ==
    Spec => [](\A s, t \in Servers :
                   stage[s] = "applying" => dirty /\ (stage[t] = "applying" => s = t))
<1>1. IndInv => \A s, t \in Servers :
                    stage[s] = "applying" => dirty /\ (stage[t] = "applying" => s = t)
  BY DEF IndInv, LockInv
<1>. QED BY <1>1, Invariance, PTL

(* Theorem: no server takes requests on a schema that is behind or half       *)
(* changed, whoever migrates and dies at the same time.                       *)
THEOREM SchemaReady == Spec => []MigratedBeforeListening
<1>1. IndInv => MigratedBeforeListening
  BY DEF IndInv
<1>. QED BY <1>1, Invariance, PTL

(* Theorem: with DEV_SEED=1 no server takes requests without an active        *)
(* default configuration.                                                     *)
THEOREM Seeded == Spec => []SeededBeforeListening
<1>1. IndInv => SeededBeforeListening
  BY DEF IndInv
<1>. QED BY <1>1, Invariance, PTL

(* Theorem: a server that starts replaces no active configuration.            *)
THEOREM NoOverride == Spec => SeedNeverOverrides
<1>. DEFINE Keeps == \A s \in Servers : stage[s] # "listening" /\ stage'[s] = "listening" =>
                         active = None \/ active' = active
<1>1. IndInv /\ [Next]_vars => [Keeps]_vars
  <2>. SUFFICES ASSUME IndInv, Next PROVE Keeps
    OBVIOUS
  <2>1. CASE DatabaseHangs \/ DatabaseAnswers
    BY <2>1 DEF DatabaseHangs, DatabaseAnswers
  <2>2. ASSUME NEW s \in Servers, SeedActivate(s) PROVE active = None
    BY <2>2 DEF SeedActivate, At, IndInv, SeedStages, SeedInv
  <2>3. ASSUME NEW s \in Servers, AdminInsert(s) \/ AdminActivate(s) PROVE stage' = stage
    BY <2>3 DEF AdminInsert, AdminActivate
  <2>4. ASSUME NEW s \in Servers, \/ Boot(s) /\ ~SeedActivate(s)
                                  \/ Healthz(s) \/ Sigterm(s) \/ Crash(s)
        PROVE  active' = active
    BY <2>4 DEF Boot, Start, LockMigrations, LockTimeout, RefuseDirty, BeginMigration,
                EndMigration, Migrated, Precheck, SeedInsert, Drained, Healthz, Sigterm, Crash,
                config
  <2>. QED BY <2>1, <2>2, <2>3, <2>4 DEF Next
<1>. QED BY <1>1, Invariance, PTL DEF Spec, SeedNeverOverrides
=============================================================================
