--------------------------- MODULE ServerLifecycle ---------------------------
(* From process start to shutdown: main (cmd/server/main.go), RunMigrations   *)
(* (internal/store/migrate.go) over golang-migrate, SeedIfEmpty               *)
(* (internal/store/seed.go) and GET /healthz (internal/api/router.go), with   *)
(* several processes starting on one database and dying at any point.         *)
EXTENDS Naturals

CONSTANTS Servers,     \* server processes; each is started again when it ends
          Migrations,  \* number of .up.sql files
          DevSeed,     \* DEV_SEED=1
          CrashAt,     \* stages at which a process or its connection may die
          MaxStops,    \* bound on deaths and orderly stops
          None

ASSUME LifecycleAssumption ==
    /\ Migrations \in Nat \ {0} /\ MaxStops \in Nat
    /\ DevSeed \in BOOLEAN
    /\ None \notin Servers \cup {"seed", "other"}

VARIABLES stage,    \* server -> where its main is
          version,  \* schema_migrations.version
          dirty,    \* schema_migrations.dirty
          lock,     \* the server holding golang-migrate's advisory lock, or None
          rows,     \* default-target cert_config rows: the seed's, another
          active,   \* the active one of them, or None
          database, \* "up" or "hung"
          health,   \* server -> the last /healthz answer, 0 before one
          stops     \* deaths and stops so far

schema == <<version, dirty, lock>>
config == <<rows, active>>
vars   == <<stage, version, dirty, lock, rows, active, database, health, stops>>

Stages == {"down", "migrate", "applying", "precheck", "insert", "activate", "listening",
           "draining"}

TypeOK ==
    /\ stage \in [Servers -> Stages]
    /\ version \in 0..Migrations
    /\ dirty \in BOOLEAN
    /\ lock \in Servers \cup {None}
    /\ rows \subseteq {"seed", "other"}
    /\ active \in rows \cup {None}
    /\ database \in {"up", "hung"}
    /\ health \in [Servers -> {0, 200, 503}]
    /\ stops \in 0..MaxStops

Init ==
    /\ stage = [s \in Servers |-> "down"]
    /\ version = 0 /\ dirty = FALSE /\ lock = None
    /\ rows = {} /\ active = None
    /\ database = "up"
    /\ health = [s \in Servers |-> 0]
    /\ stops = 0

Goto(s, there) == stage' = [stage EXCEPT ![s] = there]
At(s, here)    == stage[s] = here /\ database = "up"

Exit(s) == Goto(s, "down")   \* os.Exit(1)

-----------------------------------------------------------------------------
(* RunMigrations. *)

Start(s) == /\ stage[s] = "down"
            /\ Goto(s, "migrate")
            /\ health' = [health EXCEPT ![s] = 0]
            /\ UNCHANGED <<schema, config, database, stops>>

(* The process takes the advisory lock, or gives up after a while. *)
LockMigrations(s) ==
    /\ At(s, "migrate")
    /\ lock = None /\ lock' = s
    /\ UNCHANGED <<stage, version, dirty, config, database, health, stops>>

LockTimeout(s) ==
    /\ At(s, "migrate")
    /\ lock \notin {None, s}
    /\ Exit(s)
    /\ UNCHANGED <<schema, config, database, health, stops>>

(* A dirty version is an error; main exits. *)
RefuseDirty(s) ==
    /\ At(s, "migrate") /\ lock = s
    /\ dirty
    /\ lock' = None
    /\ Exit(s)
    /\ UNCHANGED <<version, dirty, config, database, health, stops>>

(* Each file runs between two updates of schema_migrations. *)
BeginMigration(s) ==
    /\ At(s, "migrate") /\ lock = s
    /\ ~dirty /\ version < Migrations
    /\ version' = version + 1 /\ dirty' = TRUE
    /\ Goto(s, "applying")
    /\ UNCHANGED <<lock, config, database, health, stops>>

EndMigration(s) ==
    /\ At(s, "applying")
    /\ dirty' = FALSE
    /\ Goto(s, "migrate")
    /\ UNCHANGED <<version, lock, config, database, health, stops>>

(* Mutant: the dirty flag is not looked at.                                   *)
MigratedDirty(s) ==
    /\ At(s, "migrate") /\ lock = s
    /\ version = Migrations
    /\ lock' = None
    /\ Goto(s, IF DevSeed THEN "precheck" ELSE "listening")
    /\ UNCHANGED <<version, dirty, config, database, health, stops>>

(* Nothing is left to apply: nil or ErrNoChange.  main opens the pool. *)
Migrated(s) ==
    /\ At(s, "migrate") /\ lock = s
    /\ ~dirty /\ version = Migrations
    /\ lock' = None
    /\ Goto(s, IF DevSeed THEN "precheck" ELSE "listening")
    /\ UNCHANGED <<version, dirty, config, database, health, stops>>

-----------------------------------------------------------------------------
(* SeedIfEmpty: three statements, each on its own. *)

(* Mutant: any row, active or not, counts as seeded.                          *)
PrecheckAnyRow(s) ==
    /\ At(s, "precheck")
    /\ Goto(s, IF rows = {} THEN "insert" ELSE "listening")
    /\ UNCHANGED <<schema, config, database, health, stops>>

(* Mutant: there is no precheck.                                              *)
PrecheckSkipped(s) ==
    /\ At(s, "precheck")
    /\ Goto(s, "insert")
    /\ UNCHANGED <<schema, config, database, health, stops>>

(* GetActive: is there an active row for a device without headers? *)
Precheck(s) ==
    /\ At(s, "precheck")
    /\ Goto(s, IF active = None THEN "insert" ELSE "listening")
    /\ UNCHANGED <<schema, config, database, health, stops>>

(* Mutant: a duplicate key is not an error.                                   *)
SeedInsertTolerant(s) ==
    /\ At(s, "insert")
    /\ rows' = rows \cup {"seed"}
    /\ Goto(s, "activate")
    /\ UNCHANGED <<schema, active, database, health, stops>>

SeedInsert(s) ==
    /\ At(s, "insert")
    /\ \/ "seed" \notin rows /\ rows' = rows \cup {"seed"} /\ Goto(s, "activate")
       \/ "seed" \in rows /\ Exit(s) /\ UNCHANGED rows    \* duplicate key
    /\ UNCHANGED <<schema, active, database, health, stops>>

SeedActivate(s) ==
    /\ At(s, "activate")
    /\ active' = "seed"
    /\ Goto(s, "listening")
    /\ UNCHANGED <<schema, rows, database, health, stops>>

-----------------------------------------------------------------------------
(* Serving. *)

(* An operator inserts and activates a default through some server. *)
AdminInsert(s) ==
    /\ At(s, "listening") /\ "other" \notin rows
    /\ rows' = rows \cup {"other"}
    /\ UNCHANGED <<stage, schema, active, database, health, stops>>

(* Mutant: a version without a row can be activated.                          *)
AdminActivateUnchecked(s) ==
    /\ At(s, "listening")
    /\ \E c \in {"seed", "other"} : active' = c
    /\ UNCHANGED <<stage, schema, rows, database, health, stops>>

AdminActivate(s) ==
    /\ At(s, "listening")
    /\ \E c \in rows : active' = c
    /\ UNCHANGED <<stage, schema, rows, database, health, stops>>

(* GET /healthz pings the pool with a 500 ms timeout. *)
Healthz(s) ==
    /\ stage[s] = "listening"
    /\ health' = [health EXCEPT ![s] = IF database = "up" THEN 200 ELSE 503]
    /\ UNCHANGED <<stage, schema, config, database, stops>>

(* SIGTERM: Shutdown stops the listener and waits for the handlers, at most   *)
(* ten seconds; main returns.                                                 *)
Sigterm(s) ==
    /\ stage[s] = "listening"
    /\ stops < MaxStops /\ stops' = stops + 1
    /\ Goto(s, "draining")
    /\ UNCHANGED <<schema, config, database, health>>

Drained(s) ==
    /\ stage[s] = "draining"
    /\ Goto(s, "down")
    /\ UNCHANGED <<schema, config, database, health, stops>>

-----------------------------------------------------------------------------
(* Faults.  A process that dies, or loses its connection and exits, leaves    *)
(* the database as it is; PostgreSQL drops its advisory lock.                 *)
Crash(s) ==
    /\ stage[s] \in CrashAt
    /\ stops < MaxStops /\ stops' = stops + 1
    /\ Goto(s, "down")
    /\ lock' = IF lock = s THEN None ELSE lock
    /\ UNCHANGED <<version, dirty, config, database, health>>

DatabaseHangs  == /\ database = "up" /\ database' = "hung"
                  /\ UNCHANGED <<stage, schema, config, health, stops>>
DatabaseAnswers == /\ database = "hung" /\ database' = "up"
                   /\ UNCHANGED <<stage, schema, config, health, stops>>

-----------------------------------------------------------------------------
Boot(s) ==
    \/ Start(s) \/ LockMigrations(s) \/ LockTimeout(s) \/ RefuseDirty(s)
    \/ BeginMigration(s) \/ EndMigration(s) \/ Migrated(s)
    \/ Precheck(s) \/ SeedInsert(s) \/ SeedActivate(s) \/ Drained(s)

Next == \/ DatabaseHangs \/ DatabaseAnswers
        \/ \E s \in Servers : \/ Boot(s) \/ AdminInsert(s) \/ AdminActivate(s)
                              \/ Healthz(s) \/ Sigterm(s) \/ Crash(s)

Spec == Init /\ [][Next]_vars

(* Processes are restarted and run; the database does not hang for ever.      *)
Fairness == /\ WF_vars(DatabaseAnswers)
            /\ \A s \in Servers : SF_vars(Boot(s))

LiveSpec == Spec /\ Fairness

-----------------------------------------------------------------------------
(* Safety: with DEV_SEED=1 a server that takes requests has a default         *)
(* configuration to give, whichever process wrote it.                         *)
SeededBeforeListening ==
    DevSeed => \A s \in Servers : stage[s] \in {"listening", "draining"} => active # None

(* Safety: no server takes requests on a schema that is behind or half        *)
(* changed, however many processes migrate at once.                           *)
MigratedBeforeListening ==
    \A s \in Servers :
        stage[s] \in {"precheck", "insert", "activate", "listening", "draining"} =>
            version = Migrations /\ ~dirty

(* Safety: starting a server never replaces an active configuration.          *)
SeedNeverOverrides ==
    [][\A s \in Servers : stage[s] # "listening" /\ stage'[s] = "listening" =>
          active = None \/ active' = active]_vars

(* Liveness: RunMigrations is "safe to call on every server start" and        *)
(* SeedIfEmpty a "no-op if an active row already exists": a process that is   *)
(* started again and again ends up listening.                                 *)
ServersComeUp == \A s \in Servers : stage[s] = "down" ~> stage[s] = "listening"

(* A death has left a migration or the seed half done; no process is at it.   *)
HalfDone == \/ dirty /\ \A s \in Servers : stage[s] # "applying"
            \/ rows = {"seed"} /\ active = None /\ \A s \in Servers : stage[s] # "activate"

(* Liveness: that is the only way to keep a server down: neither two seeds at *)
(* once, nor two migrations, nor a hung database, nor a death at any other    *)
(* point does.                                                                *)
OnlyHalfDoneKeepsDown ==
    \A s \in Servers : stage[s] = "down" ~> stage[s] = "listening" \/ HalfDone
=============================================================================
