------------------------- MODULE CertificationIngest -------------------------
(* POST /v1/certifications (internal/api/certifications.go) and Upsert        *)
(* (internal/store/certifications.go), called by devices whose publish queue  *)
(* sends a certification again until it is answered.                          *)
EXTENDS CertificationRules

CONSTANTS Runs,            \* certification ids, one per test run of the device
          Slots,           \* places for requests in the service or the database
          Rollouts,        \* the sets of redaction policies deployed side by side
          Stampings,       \* what clients do about submittedAt
          Drifts,          \* how far a device's clock may be ahead
          MaxTime,         \* bound on the server's clock
          Window           \* the window of GET /admin/queue-stats

Policies == UNION Rollouts
Readings == {n + d : n \in 0..MaxTime, d \in Drifts \cup {0}}
Times    == [started : Readings, completed : Readings \cup {None},
             enqueued : Readings \cup {None}, submitted : Readings \cup {None}]
Bodies   == [run : Runs, times : Times]
Rows     == {Row(b, p) : b \in Bodies, p \in Policies}

ASSUME IngestAssumption ==
    /\ Stampings \subseteq {"absent",   \* clients before contract v1.1.0
                            "once",     \* stamped before the first attempt
                            "always"}   \* stamped before every attempt
    /\ {} \notin Rollouts
    /\ \A p \in Policies : PiiPaths[p] \subseteq piiPaths \cup Demoted
    /\ Drifts \subseteq Int /\ MaxTime \in Nat /\ Window \in Nat
    /\ None \notin Bodies \cup Rows \cup Policies \cup Int
    /\ Slots \cap {"running", "completed", "queued", "done", "rejected"} = {}

VARIABLES stored,    \* run -> the row of its certification_id, or None
          rollout,   \* the policies deployments may have
          policy,    \* the policy of the running deployment
          phase,     \* slot -> how far its request is
          body,      \* slot -> the raw body of its request
          under,     \* slot -> the policy its handler runs under
          status,    \* slot -> the status it answers, 0 before
          stamping,  \* what the clients do
          storable,  \* the runs whose payload PostgreSQL takes
          queue,     \* run -> how far it is, or the slot it awaits
          times,     \* run -> its timestamps by the device's clock
          acked,     \* run -> the body acknowledged by a 2xx, or None
          created,   \* run -> the number of 201 answers given, counted up to 2
          now,       \* the server's clock
          drift,     \* the device's clock minus the server's
          stepped    \* runs during which the device's clock was set

server == <<stored, rollout, policy, created>>
slots  == <<phase, body, under, status>>
fixed  == <<stamping, storable>>
clocks == <<now, drift, stepped>>
client == <<stamping, storable, queue, times, acked>>
vars   == <<stored, rollout, policy, phase, body, under, status, stamping, storable, queue, times,
            acked, created, now, drift, stepped>>

Phases == {"free",
           "insert",   \* validated and redacted; the insert is next
           "probe",    \* the insert returned no row; the probe is next
           "orphan",   \* the handler is gone, its insert is not
           "reply"}    \* the answer is on its way

TypeOK ==
    /\ stored \in [Runs -> Rows \cup {None}]
    /\ \A r \in Runs : stored[r] # None =>
           /\ stored[r].hash \in Bodies /\ stored[r].payload.body.run = r
           /\ stored[r].payload.body.times.completed # None
    /\ rollout \in Rollouts /\ policy \in rollout
    /\ phase \in [Slots -> Phases]
    /\ body \in [Slots -> Bodies \cup {None}]
    /\ under \in [Slots -> Policies \cup {None}]
    /\ status \in [Slots -> {0, 200, 201, 400, 409, 500}]
    /\ stamping \in Stampings /\ storable \subseteq Runs
    /\ queue \in [Runs -> Slots \cup {"running", "completed", "queued", "done", "rejected"}]
    /\ times \in [Runs -> Times]
    /\ acked \in [Runs -> Bodies \cup {None}]
    /\ created \in [Runs -> 0..2]
    /\ now \in 0..MaxTime /\ drift \in Drifts \cup {0} /\ stepped \subseteq Runs

(* The test runs have just begun, by the device's clock. *)
Init ==
    /\ stored = [r \in Runs |-> None]
    /\ rollout \in Rollouts /\ policy \in rollout
    /\ phase = [s \in Slots |-> "free"]
    /\ body = [s \in Slots |-> None]
    /\ under = [s \in Slots |-> None]
    /\ status = [s \in Slots |-> 0]
    /\ stamping \in Stampings /\ storable \in SUBSET Runs
    /\ queue = [r \in Runs |-> "running"]
    /\ now = 0 /\ drift \in Drifts /\ stepped = {}
    /\ times = [r \in Runs |-> [started |-> drift, completed |-> None,
                                enqueued |-> None, submitted |-> None]]
    /\ acked = [r \in Runs |-> None]
    /\ created = [r \in Runs |-> 0]

-----------------------------------------------------------------------------
(* The handler. *)

RunOf(s) == body[s].run

Reply(s, code) == /\ phase' = [phase EXCEPT ![s] = "reply"]
                  /\ status' = [status EXCEPT ![s] = code]
                  /\ UNCHANGED <<body, under>>

Free(s) == /\ phase' = [phase EXCEPT ![s] = "free"]
           /\ body' = [body EXCEPT ![s] = None]
           /\ under' = [under EXCEPT ![s] = None]
           /\ status' = [status EXCEPT ![s] = 0]

Store(s) == stored' = [stored EXCEPT ![RunOf(s)] = Row(body[s], under[s])]

(* Mutant: on conflict do update.                                             *)
InsertOverwrites(s) ==
    /\ phase[s] = "insert"
    /\ Store(s)
    /\ Reply(s, 201)
    /\ created' = [created EXCEPT ![RunOf(s)] = IF @ < 2 THEN @ + 1 ELSE @]
    /\ UNCHANGED <<rollout, policy, client, clocks>>

(* insert ... on conflict (certification_id) do nothing returning: a row      *)
(* comes back when this statement created it.                                 *)
InsertCreates(s) ==
    /\ phase[s] = "insert" /\ stored[RunOf(s)] = None /\ RunOf(s) \in storable
    /\ Store(s)
    /\ Reply(s, 201)
    /\ created' = [created EXCEPT ![RunOf(s)] = IF @ < 2 THEN @ + 1 ELSE @]
    /\ UNCHANGED <<rollout, policy, client, clocks>>

(* Mutant: an insert without an error counts as created.                      *)
InsertConflictCreated(s) ==
    /\ phase[s] = "insert" /\ stored[RunOf(s)] # None
    /\ Reply(s, 201)
    /\ created' = [created EXCEPT ![RunOf(s)] = IF @ < 2 THEN @ + 1 ELSE @]
    /\ UNCHANGED <<stored, rollout, policy, client, clocks>>

(* No row comes back. *)
InsertConflicts(s) ==
    /\ phase[s] = "insert" /\ stored[RunOf(s)] # None
    /\ phase' = [phase EXCEPT ![s] = "probe"]
    /\ UNCHANGED <<server, body, under, status, client, clocks>>

(* Values that pass every check may still be none of PostgreSQL's: a NUL in a *)
(* string of the jsonb, an integer beyond the column.  That is a 500, each    *)
(* time.                                                                      *)
InsertRefused(s) ==
    /\ phase[s] = "insert" /\ RunOf(s) \notin storable
    /\ Reply(s, 500)
    /\ UNCHANGED <<server, client, clocks>>

(* Mutant: every second copy is a duplicate, whatever it holds.               *)
ProbeAlwaysDuplicate(s) ==
    phase[s] = "probe" /\ Reply(s, 200) /\ UNCHANGED <<server, client, clocks>>

(* Mutant: every second copy is a conflict.                                   *)
ProbeAlwaysConflict(s) ==
    phase[s] = "probe" /\ Reply(s, 409) /\ UNCHANGED <<server, client, clocks>>

(* The second statement reads the row's payload_hash. *)
Probe(s) ==
    /\ phase[s] = "probe"
    /\ Reply(s, IF stored[RunOf(s)].hash = PayloadHash(body[s], under[s]) THEN 200 ELSE 409)
    /\ UNCHANGED <<server, client, clocks>>

(* Either statement fails in the handler's eyes, which answers 500.  An       *)
(* insert that was sent is still with the database, and the device queues the *)
(* run again as soon as it is told.                                           *)
StoreError(s) ==
    \/ /\ phase[s] = "insert"
       /\ phase' = [phase EXCEPT ![s] = "orphan"]
       /\ queue' = [queue EXCEPT ![RunOf(s)] = IF @ = s THEN "queued" ELSE @]
       /\ UNCHANGED <<server, body, under, status, fixed, times, acked, clocks>>
    \/ /\ phase[s] = "probe"
       /\ Reply(s, 500)
       /\ UNCHANGED <<server, client, clocks>>

(* The process dies and another takes its place, of this deployment or the    *)
(* next.  Inserts that were sent are still with the database.                 *)
Restart ==
    /\ policy' \in rollout
    /\ phase' = [s \in Slots |-> IF phase[s] \in {"insert", "orphan"} THEN "orphan" ELSE "free"]
    /\ body' = [s \in Slots |-> IF phase'[s] = "free" THEN None ELSE body[s]]
    /\ under' = [s \in Slots |-> IF phase'[s] = "free" THEN None ELSE under[s]]
    /\ status' = [s \in Slots |-> 0]
    /\ queue' = [r \in Runs |-> IF queue[r] \in Slots THEN "queued" ELSE queue[r]]
    /\ UNCHANGED <<stored, rollout, created, fixed, times, acked, clocks>>

OrphanEnds(s) ==
    /\ phase[s] = "orphan"
    /\ \/ UNCHANGED stored
       \/ stored[RunOf(s)] = None /\ RunOf(s) \in storable /\ Store(s)
    /\ Free(s)
    /\ UNCHANGED <<rollout, policy, created, client, clocks>>

-----------------------------------------------------------------------------
(* The device: its test runs, its clock and its publish queue. *)

Clock == now + drift

Complete(r) ==
    /\ queue[r] = "running"
    /\ queue' = [queue EXCEPT ![r] = "completed"]
    /\ times' = [times EXCEPT ![r].completed = Clock]
    /\ UNCHANGED <<server, slots, fixed, acked, clocks>>

Enqueue(r) ==
    /\ queue[r] = "completed"
    /\ queue' = [queue EXCEPT ![r] = "queued"]
    /\ times' = [times EXCEPT ![r].enqueued = IF stamping = "absent" THEN None ELSE Clock]
    /\ UNCHANGED <<server, slots, fixed, acked, clocks>>

(* Time passes while tests run and between attempts.  A unit is the tolerance *)
(* of a minute or so; the server cuts a handler off after thirty seconds, so  *)
(* only inserts that have lost their handler last into the next.              *)
Tick ==
    /\ now < MaxTime
    /\ \A r \in Runs : queue[r] \in {"running", "queued", "done", "rejected"}
    /\ \A s \in Slots : phase[s] \in {"free", "orphan"}
    /\ now' = now + 1
    /\ UNCHANGED <<server, slots, client, drift, stepped>>

(* NTP sets the device's clock right. *)
SetClock ==
    /\ drift # 0
    /\ drift' = 0
    /\ stepped' = {r \in Runs : queue[r] \in {"running", "completed"}}
    /\ UNCHANGED <<server, slots, client, now>>

Stamp(r) == CASE stamping = "absent" -> None
              [] stamping = "once" /\ times[r].submitted # None -> times[r].submitted
              [] OTHER -> Clock

(* The device posts the run; the handler checks it, answers 400 or redacts it *)
(* and goes on to the insert.  One free slot is as good as another.           *)
FreeSlot == CHOOSE s \in Slots : phase[s] = "free"

Post(r, s) ==
    /\ queue[r] = "queued" /\ phase[s] = "free" /\ s = FreeSlot
    /\ times' = [times EXCEPT ![r].submitted = Stamp(r)]
    /\ queue' = [queue EXCEPT ![r] = s]
    /\ body' = [body EXCEPT ![s] = [run |-> r, times |-> times'[r]]]
    /\ under' = [under EXCEPT ![s] = policy]
    /\ \/ /\ TimesValid(times'[r], now)
          /\ phase' = [phase EXCEPT ![s] = "insert"]
          /\ UNCHANGED status
       \/ /\ ~TimesValid(times'[r], now)
          /\ phase' = [phase EXCEPT ![s] = "reply"]
          /\ status' = [status EXCEPT ![s] = 400]
    /\ UNCHANGED <<server, fixed, acked, clocks>>

(* The device stops waiting; its request goes on without it. *)
Timeout(r) ==
    /\ queue[r] \in Slots
    /\ queue' = [queue EXCEPT ![r] = "queued"]
    /\ UNCHANGED <<server, slots, fixed, times, acked, clocks>>

(* A 2xx takes the run off the queue, a 4xx gives it up, a 5xx keeps it.      *)
Deliver(s) ==
    /\ phase[s] = "reply"
    /\ LET r == RunOf(s)
       IN IF queue[r] # s
          THEN UNCHANGED client
          ELSE /\ queue' = [queue EXCEPT ![r] =
                                CASE status[s] \in {200, 201} -> "done"
                                  [] status[s] \in {400, 409} -> "rejected"
                                  [] OTHER -> "queued"]
               /\ acked' = [acked EXCEPT ![r] = IF status[s] \in {200, 201} THEN body[s] ELSE @]
               /\ UNCHANGED <<fixed, times>>
    /\ Free(s)
    /\ UNCHANGED <<server, clocks>>

-----------------------------------------------------------------------------
Serve(s) == \/ InsertCreates(s) \/ InsertConflicts(s) \/ InsertRefused(s)
            \/ Probe(s) \/ OrphanEnds(s) \/ Deliver(s)

Next == \/ Restart
        \/ Tick \/ SetClock
        \/ \E r \in Runs : \/ Complete(r) \/ Enqueue(r) \/ Timeout(r)
                           \/ \E s \in Slots : Post(r, s)
        \/ \E s \in Slots : Serve(s) \/ StoreError(s)

Spec == Init /\ [][Next]_vars

(* Tests end, handlers run and the database answers; a device sends again as  *)
(* long as it has to; restarts, errors and timeouts do not hit every attempt. *)
Awaited(s) == phase[s] # "free" /\ queue[RunOf(s)] = s

Fairness ==
    /\ \A r \in Runs : /\ WF_vars(Complete(r) \/ Enqueue(r))
                       /\ SF_vars(\E s \in Slots : Post(r, s))
    /\ \A s \in Slots :
           /\ WF_vars(Serve(s))
           /\ SF_vars(Awaited(s) /\ (InsertCreates(s) \/ InsertConflicts(s)))
           /\ SF_vars(Awaited(s) /\ Probe(s))
           /\ SF_vars(Awaited(s) /\ status[s] \in {200, 201, 400, 409} /\ Deliver(s))

LiveSpec == Spec /\ Fairness

-----------------------------------------------------------------------------
(* Safety: a run leaves a device's queue only when the database holds it, and *)
(* holds the bytes that were acknowledged.                                    *)
AcknowledgedIsStored ==
    \A r \in Runs : acked[r] # None => stored[r] # None /\ stored[r].payload.body = acked[r]

(* Safety: among all attempts for one certification_id, timed out, retried or *)
(* concurrent, one is told 201.                                               *)
CreatedOnce == \A r \in Runs : created[r] <= 1

(* Safety: a row, once stored, stays as it is.                                *)
FirstWriteWins == [][\A r \in Runs : stored[r] # None => stored'[r] = stored[r]]_vars

(* What "byte-stable" duplicate detection (certifications.go) is to give      *)
(* clients: the retries of a run are never told that they conflict with the   *)
(* run's own first attempt.  submittedAt is "refreshed on retry"              *)
(* (0004_add_queue_timestamps.up.sql).                                        *)
RetriesAccepted == \A s \in Slots : status[s] # 409

(* Safety: "200 echoes the stored record" (internal/api/certifications.go).   *)
EchoIsStored ==
    \A s \in Slots :
        status[s] = 200 => stored[RunOf(s)].payload = Canonical(body[s], under[s])

(* Safety: "a 60s tolerance keeps near-misses from rejecting otherwise-valid  *)
(* payloads" (internal/api/certifications.go): a run is given up only when    *)
(* the clock was ahead by more than that, or was set back during the run by   *)
(* more than the run took, or the run is stored and its retries differ from   *)
(* the copy that is.  A device that sends the same bytes again is not         *)
(* refused, whatever deployment stored the first copy and under what policy.  *)
SetBack(r) == /\ r \in stepped /\ Moment(times[r].completed)
              /\ times[r].completed < times[r].started

ClockOff(r) == times[r].started > Tolerance \/ SetBack(r)

GivenUpForCause ==
    \A r \in Runs : queue[r] = "rejected" =>
                      ClockOff(r) \/ (stamping = "always" /\ stored[r] # None)

(* Safety: the delays that GET /admin/queue-stats takes its percentiles of    *)
(* are those of the window, give or take the tolerance, whatever the devices' *)
(* clocks show.                                                               *)
Delays ==
    {t.submitted - t.completed :
        t \in {u \in {stored[r].payload.body.times : r \in {q \in Runs : stored[q] # None}} :
                  Moment(u.submitted) /\ u.completed >= now - Window}}

DelaysPlausible == \A d \in Delays : -Tolerance <= d /\ d <= Window + Tolerance

(* Safety: "what lands in those columns matches what's in the JSONB payload"  *)
(* (internal/api/certifications.go), for every column of an optional text,    *)
(* those included that were filled before the redaction and not again, and    *)
(* under the policy of any deployment.                                        *)
ColumnsMatchPayload ==
    \A r \in Runs : stored[r] # None =>
        \A f \in Built \cup Extracted :
            stored[r].columns[f] = Column(stored[r].payload.values[f])

(* Liveness: every run that PostgreSQL can hold gets off its device's queue,  *)
(* acknowledged or for cause.                                                 *)
QueueDrains ==
    \A r \in Runs :
        <>(r \notin storable \/ queue[r] = "done"
            \/ (queue[r] = "rejected" /\ (ClockOff(r) \/ stamping = "always")))
=============================================================================
