# Verification of the HWC network-quality backend

TLA+ models of the Go service in `src/`, the TLC runs that check them on small
instances, and TLAPS proofs about the core of the system for every instance.

The service is small in lines and stateful in nature: one or more processes
over one PostgreSQL database, an operator API (`/admin/*`), a device API
(`/v1/*`), and a fleet of set-top boxes that poll, time out and retry. What can
go wrong lies between statements, between processes and between attempts; the
models are about that.

## 1. Inventory

| component | source | state | operations |
|---|---|---|---|
| `cert_config` table and operator API | `internal/store/certconfig.go`, `internal/api/admin.go`, migrations 0001, 0008 | rows (never changed once created) with a target of three selectors; `is_active` | `POST /admin/cert-configs` (Insert), `POST .../{version}/activate` (Activate: transaction of clear-same-group and set), list, get |
| configuration resolution and delivery | `GetActiveForDevice`, `internal/api/certconfig.go` | none on the server; the device's cached document and ETag | `GET /v1/cert-config` |
| document envelopes | `validateCertConfigEnvelope`, `validateAppVersionManifest` | none | predicates over documents |
| certification ingest | `internal/api/certifications.go`, `Upsert` | `certifications` rows with payload and payload hash; the device's publish queue and clock | `POST /v1/certifications` (validate, hash, redact, insert, probe), `GET /v1/certifications/{id}` |
| PII redaction | `pii/hash.go`, `jsonpath.go` | pepper, list of paths | a map over a payload |
| admin listing | `List`, `ListCertifications` | none; the client's offset | `GET /admin/certifications` |
| statistics and single reads | `QueueStats`, `Get...` | none | queries |
| process lifecycle | `cmd/server/main.go`, `migrate.go`, `seed.go`, `/healthz` | `schema_migrations` (version, dirty), advisory lock, the default rows | boot, migrate, seed, listen, drain |
| `app_version_manifest` and operator API | `internal/store/appversion.go`, `admin.go`, `appversion.go`, migration 0005 | rows keyed by version code; one active; what a device runs | create, activate, `GET /v1/app/version` |
| device authentication | `env.go`, `middleware.go` (`v1Auth`), `auth/hmac.go` | settings, secret, clocks | boot check, verification |
| operator authentication | `admin_auth.go` | none | one comparison (not modelled) |

How they interact: `main` runs migrations, then the dev seed (which calls the
store's `GetActive`, `Insert`, `Activate` like an operator would), then serves.
Every `/v1` request passes the body cap and `v1Auth`. The config store is
written by the operator API and the seed and read by device polls; a poll reads
between any two commits. Ingest and listing share the `certifications` table.
All shared state is in PostgreSQL; the process itself holds none.

What is hard here, and what each component has to get right:

* **Concurrent activations** run two updates in a READ COMMITTED transaction.
  Each sees its own snapshot, waits for row locks, re-evaluates, meets the
  partial unique index, may deadlock. Correct means: never two active rows of
  one target, never a moment without one, no other target touched, a true
  answer, and an end to every request.
* **A lost answer**: a handler that gives up, or dies, leaves statements with
  the database that may still take effect. An answer other than 500 has to be
  true all the same.
* **Retries**: devices time out and send again, in parallel with their own
  earlier attempt, across restarts and across deployments with another pepper.
  Correct means: what is acknowledged is stored, once, unchanged.
* **Clocks**: certifications carry times of a device whose clock may be off
  either way and be set right in the middle of a run. Correct means: a run is
  refused for good only when its clock was off beyond the tolerance, and no such
  clock reaches the statistics.
* **Stale reads**: ETags, and the row that a poll resolved before an activation.
* **Documents** that operators mistype: a selector that is no string becomes
  `NULL`, which means the whole fleet.
* **Boot**: several processes migrate and seed at once and die anywhere.
* **Paging** by offset over a table that grows meanwhile, with ties in the order
  and rows that fail the query.
* **Rollout** of request signing, where settings, builds and clocks change at
  different times.

`PROJECT.json` lists these hazards at their lines.

## 2. Modules

```
CertConfigRegistry          what the operator API promises (abstract)
      ^ implemented by (refinement, checked and proved)
CertConfigStore             statements, locks, index, deadlocks, lost answers
      ^ EXTENDS             MCCertConfigStore, CertConfigStoreProofs
ConfigService               the store with devices that poll between statements
      | implements          MCConfigService, ConfigServiceProofs
      | (refinement, checked and proved)
      v
ConfigDelivery              atomic admin steps, polls, ETags, lost replies
      | EXTENDS             MCConfigDelivery, ConfigDeliveryProofs
      v
ConfigResolution            which row a device gets (operators)
Envelopes                   which documents the operator API lets through
                            (both EXTENDed by ConfigDelivery)

AppVersionDelivery          devices that poll manifests and update themselves
      | EXTENDS             MCAppVersionDelivery, AppVersionProofs
      v
AppVersionStore, Envelopes  the manifest table under concurrent requests

CertificationIngest         attempts, inserts, probes, retries, restarts, clocks
      | EXTENDS             MCCertificationIngest, CertificationIngestProofs
      v
CertificationRules          timestamps, redaction and columns of one body

ServerLifecycle             boot, migrate, seed, serve, die
                            MCServerLifecycle, ServerLifecycleProofs
AdminListing                a paged walk; MCAdminListing, AdminListingProofs
DeviceAuth                  settings, builds, clocks, headers
                            MCDeviceAuth, DeviceAuthProofs
```

The modules MC... hold instances for TLC, the modules ...Proofs theorems that
TLAPS checks.

Definitions that begin "Mutant:" in their comment are not part of a model: each
is a way the definition after it could have been written wrongly. For every
property there is one that the property catches (`PROJECT.json`, "mutants").

### CertConfigStore

`row` and `active` are the committed table. A request slot has a `phase` (the
statement it is at), `asks` (its operation), `todo` and `cleared` (the rows its
clear statement has to visit and has written) and `resp`. One action per
statement:

| code | action |
|---|---|
| `CreateCertConfig` / `Insert` / 23505 | `CreateCertConfig`, `Insert`, `InsertConflict` |
| `clearSameGroup` snapshot, one visited row | `ClearSameGroup`, `ClearRow` |
| `update ... is_active = true`, `RowsAffected() == 0` | `SetActive`, `SetMissing` |
| the row's entry into `cert_config_active_per_target` | `EnterIndex`, `UniqueViolation` |
| `tx.Commit`, `GetByVersion`, answer | `Commit`, `ReadBack` |
| any statement's error, in the handler's eyes | `StoreError` |
| deferred `tx.Rollback`, session ended by the server | `Rollback` |
| deadlock detector | `DeadlockDetected` |

A 500 after `StoreError` leaves the transaction where it is: it may still
commit, or be rolled back later. Row locks are derived, not stored: a
transaction holds what it has written (`Holds`), and an action that needs a row
is guarded by `~Locked`. The clear statement's idea of "same target"
(`coalesce`) and the index's (`nulls not distinct`) are separate operators, as in
the code; that they agree is a lemma.

PostgreSQL is modelled as far as the code relies on it: snapshot per statement,
re-evaluation after a lock wait, unique checks that wait for the other
transaction, detection of cycles. One lock is left out on purpose (see
`ClearRow`), it only lengthens waits.

### CertConfigRegistry

The same table with every activation one atomic swap. An answer of 200 or 201
is given only after the effect, 404 and 409 only when there was no effect and at
that moment could be none, and 500 says nothing. `CertConfigStore` maps onto it
by `Stage` and `Asked`; `row`, `active` and `resp` map to themselves.

### Envelopes

A JSON value is a record of its kind and of what the checks ask of it: a
string's length and whether it is empty, a number's value in tenths and whether
it is an integer, an array's items, an object's fields. `CertConfigValid` and
`ManifestValid` are conjunctions of one predicate per section, each true exactly
when the code reports no problem for it. As in the code, an optional section
that has another JSON type is not looked at.

### ConfigResolution, ConfigDelivery and ConfigService

`Matches` is the where clause, `Rank` the order by, `Resolve` the row.
`ConfigDelivery` has operators who post `Drafts`, good and mistyped, of which
`CertConfigValid` ones are stored with the selectors that `stringPtrFromDoc`
makes of them, and a device that polls with an `X-Schema-Version`, keeps the
document of a 200, sends its ETag back, and may lose a reply or meet a store
error. A device's headers are any of `Identities`, fixed per behaviour.
An ETag is the hash of the document: equal for equal documents.

Admin requests are atomic there. That this is how devices see them is checked
and proved: `ConfigService` puts the same polls between the statements of
`CertConfigStore`, and has `ConfigDelivery` as a property
(`ImplementsDelivery`), with the document column computed from what was posted.

### CertificationRules and CertificationIngest

`TimesValid` has the cross-field rules of `buildCertification`; `Redact`,
`Columns`, `PayloadHash` and `Row` are what the handler makes of a body. Values at
the policy's paths are hashed when they are non-empty strings; the hash is over
the raw body. The columns come in two groups, as in the code: those `Built`
before the redaction keep what the device reported, those `Extracted` after it
show the redacted payload. That no column is in the wrong group is
`ColumnsMatchPayload`; it depends on which paths a policy redacts, so a policy's
paths are those of today's list (`piiPaths`) and those that `hash.go` says were
taken off it (`Demoted`).

A body is a run and its timestamps. `StoreError` and `Restart` leave an
`orphan`: the insert is with the database and may or may not take effect. A run
whose payload PostgreSQL cannot hold (`storable`) is answered 500 each time. The
device's clock is `drift` off until `SetClock` sets it right, perhaps during a
run; times are those it shows when a run starts, completes, is queued and is
sent. The queue sends when it has no answer, stops waiting at any time, drops a
run on 2xx and 4xx and keeps it on 5xx. `stamping` says what clients do about
`submittedAt`: never set it (before contract v1.1.0), set it once, or refresh it
on every attempt as migration 0004 says. `rollout` is the set of redaction
policies (path list and pepper) that are deployed during the behaviour.
`Delays` is what `QueueStats` aggregates.

### ServerLifecycle

`stage` is where `main` is. Migrations are the steps golang-migrate makes:
advisory lock, `dirty = true` with the new version, run the file, `dirty =
false`. The seed is its three separate calls. `Crash` stops a process at any
stage in `CrashAt` and frees its advisory lock; what it wrote stays. The rows
are those of the default target, the only one the seed looks at.

### AppVersionStore and AppVersionDelivery

`AppVersionStore` is as `CertConfigStore`, with one group. The clear statement
visits every active row, its own target included, so `SetActive` always enters
the index. Codes in `TooLarge` pass the validation (64-bit) and fail in the
integer column.

`AppVersionDelivery` adds the documents (`ManifestValid`, then the row's
`document`) and devices that poll between any two statements, keep the manifest
of a 200, send its ETag back and install what is newer than what they run;
Android takes no lower version code. An answer other than 200 leaves a device as
it is whenever it arrives, so only a 200 is followed on its way.

### AdminListing

One page is one query: the filter, the limit normalised, rows in some order
allowed by `order by <column> <dir> nulls last, completed_at desc`. A page is
what lies between two sets of first rows, so rows that tie on both keys may swap
between pages. The total rides on the rows. A row in `Unreadable` has an
`rssiDbm` that the query cannot cast; the query may then fail, and must when the
page contains it. The client goes on behind what it got until `total` is
reached. Rows arrive anywhere in the order between pages.

### DeviceAuth

The checks keep no state, so they are operators: `Load` (the defaults of what is
not set) and `Boots` (`validateProductionSafety`), `Last` and `Parses` (the
header's parameter list), `Skew`, `Verified`, `PassesUnsigned`, and `Answer` (what
a POST gets behind the body cap and `v1Auth`). `Sub` is `time.Sub`, which
saturates; the lowest Duration stays negative when `Verify` negates it, and
`Skew` says so. What changes are the settings, by restarts that `Load` may
refuse, the builds, by upgrades, the clock, and the requests under way; clocks
are off by a constant per device.
The invariants ask every layout of a header and every body of every request
that may arrive in a state. In an `orderly` behaviour operators follow the
comments in `env.go`: require only when all builds sign, keep a secret that
builds use.

## 3. Runs

| run | asks | bounds | states |
|---|---|---|---|
| `store_safety` | `TypeOK`, `OneActivePerTarget`, `IndInv`, `NeverUnserved`, `SwapWithinGroup`, `ImplementsRegistry` | 3 versions, 3 requests, 2 targets | 269,155 |
| `service` | `EveryRequestEnds`, `ImplementsDelivery` | 2 versions, 2 requests, 1 target, 1 device | 87,680 |
| `delivery` | `TypeOK`, `OnceServedAlwaysServed`, `DeliveredAsMeant`, `DeliveredUsable`, `SpecificityNeverDrops`, `DevicesConverge` | 3 versions, 9 good and 28 bad drafts, a device with all, some or no headers | 53,580 |
| `killswitch` | `KillswitchUnambiguous` (violated) | the same | |
| `ingest` | `TypeOK`, `AcknowledgedIsStored`, `CreatedOnce`, `GivenUpForCause`, `DelaysPlausible`, `ColumnsMatchPayload`, `FirstWriteWins`, `QueueDrains` | 1 run, 2 attempts at once, 2 policies, 3 ways of stamping, drift -2..2, clock 0..2, tolerance 1 | 98,667 |
| `ingest_refresh` | `RetriesAccepted` (violated) | the same with an accurate clock, refreshed stamps | |
| `ingest_echo` | `EchoIsStored` (violated) | the same, one stamp, a rollout of another policy | |
| `boot` | `TypeOK`, `SeededBeforeListening`, `MigratedBeforeListening`, `SeedNeverOverrides`, `OnlyHalfDoneKeepsDown` | 2 processes, 2 migrations, 3 deaths or stops | 3,778 |
| `boot_seed_crash` | `ServersComeUp` (violated) | 1 process, 1 death | |
| `app_version` | `TypeOK`, `OneActiveManifest`, `ManifestNeverWithdrawn`, `EveryRequestEnds`, `FleetMeetsMinimum` | 3 codes, 1 of them too large, 3 good and 9 bad manifests, 2 requests, 1 device | 72,584 |
| `listing` | `TypeOK`, `WalkMissesNothing`, `RepeatsOnlyAfterArrivals`, `WalkEnds` | 5 rows, limits 0, 1, 3, 4 with cap 3 and default 2, two columns, three filters | 45,820 |
| `auth` | `TypeOK`, `NeverLockedOut`, `RequireServesSignedOnly`, `ClaimsVerified` | 2 devices, 2 secrets, window 2, a Duration of 4, clock 0..3, drift -1, 1 or 6, 11 header layouts, 3 bodies | 194,880 |

Why these bounds show the interesting cases:

* Three requests make cycles of two and of three transactions, and one that
  waits behind a cycle. Three versions give an old and a new row of one target
  and a row of another target. The targets are the default, submitted with empty
  strings, and one manufacturer; every stored target is made of null and
  non-null selectors, which is all that the two notions of equality distinguish.
* `service` has one target, since what it asks happens inside one target group:
  a poll between a clear and a set, two activations in each other's way, one
  rolled back next to a poll. The target is written with an empty and a null
  selector, so that its columns differ from its document. Schema versions that
  are refused read nothing, and `delivery` has them.
* Devices do not influence each other in `delivery`, so one device with every
  kind of headers stands for a fleet; three tiers and three rows let a default,
  a manufacturer row and a model row be active together, or two rows of one
  target replace each other. Each bad draft differs from a good one in one
  field, at the boundary where there is one; the good ones sit on the other side
  of those boundaries.
* One certification is enough, since `Upsert` touches one id. Two attempts are
  under way at once, and slots are used again, so a third and a fourth attempt
  meet rows and orphans of the earlier ones. A unit of time is the tolerance of
  60 s: drifts lie before it, at it and beyond it, and the server's clock moves
  far enough for a clock that was ahead to be set right and to be overtaken.
  `MCInit` splits the behaviours: rollouts of another policy, payloads
  PostgreSQL refuses and clients without `submittedAt` are tried with accurate
  clocks, since the rules on times look at none of them. The window of the
  statistics is 0 units, the narrowest one, so that rows do leave it.
* In `boot` the seed and the migrations of one process may meet those of the
  other at every point, and three deaths allow one on each side and one more.
* In `app_version` the two codes that fit are an optional and a forced update, so
  that activating them in either order is an update and a rollback.
* In `auth` delays up to 3 with a drift of 1 lie on both sides of a window of 2.
  With a drift of 6 and a Duration of 4 a timestamp is ahead by more than the
  window, by exactly a Duration and one more, and by more than it.
* In `listing` five rows give pages that are full, partial and empty, under
  limits of 1, 2 and 3; both columns have a tie, one has nulls, two rows complete
  together, and one row cannot be listed.

Symmetry is used only in runs without a liveness property. Deadlock is checked
everywhere.

### Fairness

* `CertConfigStore`, `AppVersionStore`, and with them `ConfigService` and
  `AppVersionDelivery`: strong fairness per request for the steps of service and
  database. A request may be blocked by a lock again and again; PostgreSQL queues
  waiters of a row, so one whose wait keeps ending gets its turn. Weak fairness
  for the deadlock detector, which runs after `deadlock_timeout`. Operators and
  errors have no fairness, and `ConfigService` asks none of devices.
* `ConfigDelivery`, `AppVersionDelivery`: devices poll on, some polls carry a
  usable version header, the handler answers, and neither the store nor the
  network fails for ever (strong fairness of a successful `Get` and of the
  delivery of its reply); a device installs an update it keeps being offered.
* `CertificationIngest`: tests end; a queued run is sent again; of the attempts
  that are still awaited, not every one is cut short by an error, a restart or a
  timeout (strong fairness on awaited steps). Without it a device whose timeout is
  always shorter than the answer would loop for ever, and the code does nothing
  about that.
* `ServerLifecycle`: processes are started again (the container's restart
  policy) and run; a hung database answers again.
* `AdminListing`: the client asks for its next page and a query that can be
  answered is, in the end (weak fairness).
* `DeviceAuth`: none, there is no liveness property.

### Disagreements that runs show

* `killswitch`: the comment wants a `killswitch` that is no object with a
  boolean `enabled` rejected with its whole document. One that is no object at
  all, say `"yes"`, is not looked at, and the document is stored and served.
  `wifiLinkQuality` and `healthAssessment` are skipped alike.
* `boot_seed_crash`: `SeedIfEmpty` inserts and activates in two statements. A
  death between them leaves an inactive row; every later boot finds no active
  one, inserts again, gets a duplicate key and exits, until an operator
  intervenes. The comment promises seeding whenever no row is active.
* `ingest_refresh`: the payload hash is taken over the raw body, and the body
  contains `submittedAt`, which migration 0004 says is refreshed on retry. A
  stored but unanswered first attempt makes the retry a 409.
* `ingest_echo`: a duplicate is answered with the payload as the running process
  redacts it, which after a change of pepper or paths is not what is stored, as
  the comment says it is.

Seen while reading or modelling, without a run of their own:

* `/healthz` pings the database and answers 503 when that fails (action
  `Healthz`); `docs/DEPLOY.md` says it does not touch it.
* `completedAt >= startedAt` has no tolerance, while the comment above the rules
  names one of 60 s: a clock that NTP sets back during a run by more than the run
  took has it refused for good (`SetBack`, a cause in `GivenUpForCause`).
* `QueueStats` may report negative delays, within the tolerance
  (`DelaysPlausible`), while `queueDelay` makes them 0 in the list.
* A payload that passes every check and that PostgreSQL refuses (a NUL in a
  string, a `schemaVersion` beyond `int`) is a 500, which invites retries for
  ever (`QueueDrains` leaves such runs out).
* One row whose `rssiDbm` is no integer fails every page that contains it
  (`WalkEnds` leaves such filters out).
* A page behind the last row reports a total of 0, and the response tells the
  limit that was asked for, not the one used. `ListFilter`'s comment says a limit
  is capped to 200 where a larger one becomes 50.
* A signed body over the cap is answered 400 by `v1Auth` where an unsigned one
  gets the 413 that the tests name; without a secret but with
  `V1_HMAC_REQUIRE=true` in dev every request is refused, though the comment on
  `v1Auth` calls that mode legacy passthrough.
* A rightly signed timestamp more than 292 years ahead passes the window of
  `Verify`: `time.Sub` saturates at the lowest Duration, which is its own negative
  (the exception in `ClaimsVerified`).
* `ActivateCertConfig`'s comment and `docs/DEPLOY.md` still speak of exactly one
  active row, from before targets. The comment on selectors says their columns
  are sized for 255 characters; they are `text`.

## 4. Proofs

Every safety property that a run checks, invariants and action properties, is a
theorem, and so are the two refinements. A theorem holds for every value of the
constants that the named assumptions of its module allow: any number of
requests, devices, processes, versions, documents, rows. Each module of proofs
has an inductive invariant, one lemma per action that preserves it, and theorems
that follow from it. TLC checked every inductive invariant on the instance of
the component's run before it was proved; `IndInv` of `CertConfigStore` is one of
the properties of `store_safety`.

### CertConfigStoreProofs

`StoreAssumption` says that null, the empty string, the selector values and "no
row" are different things, and that submitted documents are made of them.

`OneActivePerTarget` is not inductive: nothing in it says why a commit does not
add a second active row. `IndInv` is its strengthening:

* `TypeOK`, `PhaseInv`: what a phase knows of its request (its row exists, what
  it has still to visit);
* `ActiveStored`: active versions have rows;
* `ClearInv`: a clear statement visits and clears only rows of its target, and
  what it cleared is still active for the others. This carries `SwapWithinGroup`
  and, with the row's own activation, `NeverUnserved`;
* `LocksExclusive`: no row is written by two open transactions. Without it a row
  that one transaction cleared could be set active by another before the commit;
* `ReadyOwnsKey`: a transaction that may commit has no rival in the index, neither
  committed nor pending. With `CoalesceInjective` (the two notions of a target
  agree) this is what makes `Commit` safe.

One lemma per action shows that it preserves `IndInv`. From it follow:

| theorem | says |
|---|---|
| `Invariance` | `Spec => []IndInv` |
| `TypeCorrectness` | `Spec => []TypeOK` |
| `OneActive` | `Spec => []OneActivePerTarget` |
| `NoGap` | `Spec => NeverUnserved`: no commit leaves a served target unserved |
| `SwapIsLocal` | `Spec => SwapWithinGroup` |
| `Refinement` | `Spec => ImplementsRegistry`: `Init` maps to the registry's, and every step to a step of it or a stutter |

### ConfigDeliveryProofs

`ResolutionUnambiguous` and `ResolutionTotal` are the pure part: where no two
active rows share a target (`OneActive`), the order by determines the row before
`created_at` is looked at, which is the claim in the comment on
`GetActiveForDevice`; and a device matched by an active row is given one.
`ResolvedIsBest` and `ResolvedNoStepDown` add that what a device gets ranks
highest, and that a target which is served stays an alternative for it.

The properties speak of what devices keep, so the invariant follows a document
from the draft to the device: its columns are its selectors and it is valid
(`ColumnInv`), what a device keeps or is about to get is of a target that names
it and that is still served (`CacheInv`, `ReplyInv`), and no two active rows share
a target (`ActiveInv`). "Still served" is what makes `OnceServedAlwaysServed`
inductive: an activation replaces a row, it empties no target.

| theorem | says |
|---|---|
| `DeliveryInvariance`, `TypeCorrectness` | `Spec => []IndInv`, `Spec => []TypeOK` |
| `NoGapInService` | `Spec => []OnceServedAlwaysServed` |
| `OnlyMeantDevices` | `Spec => []DeliveredAsMeant`, by `AcceptedMeantFor`: no selector of an accepted document is lost on the way to the columns |
| `OnlyUsableDocuments` | `Spec => []DeliveredUsable`, by `AcceptedUsable`: `validateCertConfigEnvelope` lets only reachable bands and real tests through |
| `NoStepDown` | `Spec => SpecificityNeverDrops` |

`DeliveryAssumption`: finitely many versions, "no row" and "idle" differ from
what they are compared with. `DraftAssumption`: the sets of versions and selector
values hold the strings that drafts name; a string has a length; a number written
as an integer is whole. No draft is assumed to be valid.

### ConfigServiceProofs

`ServiceRefinement`: the composed service implements `ConfigDelivery`. Of all
statements only `Insert` and `Commit` change what is committed; the first is
`CreateCertConfig` (`InsertCreates`, by `ColumnsFromJson`), the second
`Activate` (`CommitActivates`, where `ClearInv`, `LocksExclusive` and
`ReadyOwnsKey` of the store say that what a commit clears is exactly the active
rows of the target). `DevicesServed` then carries the four theorems on devices
over: they hold with polls between any two statements of any number of
concurrent activations, where TLC has two.
`ServiceAssumption`: what gets as far as the store is a JSON object that the
validation let through, with the posted version and selectors.

### CertificationIngestProofs

`CreatedOnce` and `AcknowledgedIsStored` need to know what a slot knows at every
phase. The invariant says that answers are true (`AnswerInv`), that a probe finds
its row (`ProbeInv`), that whatever is with the database has passed the rules on
time and still would (`PassedInv`), and where the bytes of two attempts agree
(`BytesInv`, `UnsentInv`). Clocks are the hard part of `GivenUpForCause`:
`DriftInv` and `ReadingsInv` bound every timestamp of a run whose clock was
neither ahead beyond the tolerance nor set back by more than the run took.
`ColumnsAgree` rests on `BuiltStays`: what is extracted before the redaction is
nothing that a policy redacts.

| theorem | says |
|---|---|
| `AlwaysIndInv`, `Typed` | `Spec => []IndInv`, `Spec => []TypeOK` |
| `NoAcknowledgedLoss` | `Spec => []AcknowledgedIsStored` |
| `OneCreation`, `RowsStay` | `Spec => []CreatedOnce`, `Spec => FirstWriteWins` |
| `RefusalsHaveCause` | `Spec => []GivenUpForCause` |
| `PlausibleDelays` | `Spec => []DelaysPlausible` |
| `ColumnsAgree` | `Spec => []ColumnsMatchPayload` |

`IngestAssumption`: names of phases, slots and "none" differ, drifts are integers,
clients stamp in one of three ways, and policies redact paths that are or once
were on the list; `RulesAssumption`: the tolerance is a
number.

### AppVersionProofs

As for `CertConfigStore`, with one group: `LocksExclusive` and `ReadyOwnsKey`
make `OneActive` inductive, and with them `NeverWithdrawn` follows
(`ManifestNeverWithdrawn`). `DeliveryUsesStore` shows that the fleet's operators
take only steps of the store. Two theorems on the fleet have no run of their own:

* `FleetIsSafe`: what a device keeps or is about to get is a manifest that passed
  the validation and that the table holds unchanged for its version code, and
  from the first one on there is always one to offer. The invariant ties the
  document column to its row and the request that is about to insert to its
  draft (`DocumentInv`, `DraftInv`).
* `UpdatesSuffice`: a device that updates itself moves up, to a stored version
  that meets the minimum its manifest states. It is the safe half of
  `FleetMeetsMinimum`.

`AppVersionAssumption`: the codes that do not fit are codes. `DraftsAssumption`:
a valid manifest names one of the codes, and its version codes are whole.

### ServerLifecycleProofs

For any number of processes and migrations: `SchemaReady`
(`MigratedBeforeListening`), `Seeded` (`SeededBeforeListening`), `NoOverride`
(`SeedNeverOverrides`), and `OneMigrator`, which no run asks: two processes never
apply migrations together. The invariant says who has the advisory lock
(`LockInv`) and that of all seeding processes one gets to activate (`SeedInv`),
since only one insert of the seed's version succeeds.

### DeviceAuthProofs

For any devices, clocks, secrets, windows and headers: `SignedOnly`
(`RequireServesSignedOnly`), `VerifiedClaims` (`ClaimsVerified`) and
`NobodyLockedOut` (`NeverLockedOut`). The checks are operators, so most of the
work is lemmas on them: what the last parameter of a key is (`Parameters`), that
a header whose signature counts is complete (`ParsesComplete`), what the
saturating difference is inside a Duration and beyond it (`SkewIs`). The invariant
adds how an orderly rollout leaves the builds (`RolloutInv`) and that requests were
sent in the past (`SentInv`). `AuthAssumption`: layouts are sequences of pairs of
strings, secrets are none of the schemes, and the window is less than a Duration.

### AdminListingProofs

`FirstsByRank` is the key: whichever way ties fall, a row that ties with none is
among the first rows exactly when fewer rows are ahead of it. `PageByRank`
applies it to the two sets of first rows between which a page lies. So a row of
the walk's beginning that was not seen has at least as many rows ahead of it as
the walk has passed, and arrivals only add to them (`AheadInv`); while nothing
arrives, one that was seen has fewer (`BehindInv`). From this follow
`NothingMissed` (`WalkMissesNothing`), `RepeatsNeedArrivals`
(`RepeatsOnlyAfterArrivals`) and `TypeCorrectness`, for any table, column,
filter and limit. `ListingAssumption`: columns map rows to integers or null, and
the default limit is between 1 and the largest.

### Only model-checked

Liveness: `EveryRequestEnds` (twice), `DevicesConverge`, `QueueDrains`,
`OnlyHalfDoneKeepsDown`, `FleetMeetsMinimum`, `WalkEnds`. The prover's temporal
backend does not reach fairness and ENABLED. It cannot do induction over data
either, so nothing recursive is proved, and no module here declares a RECURSIVE
operator.

## 5. Not modelled

* Of a body posted to `/v1/certifications`: that it parses, and that required
  strings and numbers are present. `Bodies` are those that passed; one that does
  not is answered 400 and changes nothing. Bodies with a submittedAt but without
  an enqueuedAt, which no client sends.
* Operator authentication: one comparison of a header with `ADMIN_TOKEN`, without
  state. Its default token is in `Boots`.
* Settings that differ between the processes of one deployment. `DEV_SEED` is the
  same for all: a server without it, whose operator activates a default while
  another one seeds, is not in `ServerLifecycle`.
* The wording of problems and how many are reported at once.
* The descent of `Redact` and `getString` through nested objects: a path is an
  atom, and its value is a string, an empty one or something else.
* HMAC and SHA-256 themselves, timing-safe comparison, and the hex of
  headers: a signature is right or wrong.
* Equality filters of the listing (device, HSN, address, tier, config version):
  predicates on rows that never change, of the kind of those that are modelled.
* Single-row and list reads of `cert_config` and `app_version_manifest`,
  percentiles, logging, request ids, panic recovery: no state.
* The connection pool: exhaustion is one of the causes of `StoreError`.
* Android, dashboard, PostgreSQL and golang-migrate: only as far as the code
  relies on them; definitions for them are marked external.

## 6. Plan

Every property on safety is proved. What could still be proved:

1. Of the liveness properties, the steps that need no fairness: that a request
   which is not idle and waits for nobody has a step to take, and that whoever
   waits in a cycle is found by the detector.
2. Of `CertificationRules`, what redaction promises of a second pass over a
   payload, as lemmas.
