---------------------- MODULE CertificationIngestProofs ----------------------
(* Theorems about CertificationIngest, for any runs, slots, redaction         *)
(* policies, clocks and tolerance.                                            *)
EXTENDS CertificationIngest, TLAPS

(* The inductive invariant, part by part. *)

(* A request under way has a body, a policy and a run that is over. *)
SlotInv == \A s \in Slots : phase[s] # "free" =>
    body[s] # None /\ under[s] # None /\ body[s].times.completed # None

(* A test is running until it has a completion time. *)
QueueInv == \A r \in Runs : queue[r] = "running" <=> times[r].completed = None

(* A run that was never sent is nowhere but on its device. *)
Unsent(r) == \/ queue[r] \in {"running", "completed"}
             \/ stamping = "once" /\ times[r].submitted = None

UnsentInv == \A r \in Runs : Unsent(r) =>
    stored[r] = None /\ \A s \in Slots : phase[s] # "free" => RunOf(s) # r

(* Without a fresh submittedAt all attempts of a run have the same bytes. *)
BytesInv == stamping # "always" =>
    /\ \A s \in Slots : phase[s] # "free" => body[s].times = times[RunOf(s)]
    /\ \A r \in Runs : /\ stored[r] # None => stored[r].payload.body.times = times[r]
                       /\ stamping = "absent" => times[r].submitted = None

(* A clock is off by what it was at first, or right. *)
DriftInv == /\ drift # 0 => stepped = {} /\ \A r \in Runs : times[r].started = drift
            /\ \A r \in Runs : queue[r] \in {"running", "completed"} /\ drift = 0
                                   /\ times[r].started > 0 => r \in stepped

(* What a clock shows that is not off by more than the rules allow. *)
ReadingsInv == \A r \in Runs : ClockOff(r) \/
    LET t == times[r]
    IN /\ t.completed # None => /\ t.started <= t.completed
                                /\ t.completed <= now + Tolerance
                                /\ drift # 0 => t.completed <= now + drift
       /\ t.enqueued # None => t.completed # None /\ t.enqueued >= t.completed - Tolerance
       /\ t.submitted # None => /\ t.completed # None
                                /\ t.submitted >= t.completed - Tolerance
                                /\ t.submitted <= now + Tolerance

(* What is sent to the database has passed the rules, by now as well. *)
PassedInv ==
    /\ \A s \in Slots : phase[s] \in {"insert", "probe", "orphan"} =>
                            TimesValid(body[s].times, now)
    /\ \A r \in Runs : stored[r] # None => TimesValid(stored[r].payload.body.times, now)

(* A probe finds the row that its insert met. *)
ProbeInv == \A s \in Slots : phase[s] = "probe" => stored[RunOf(s)] # None

(* Every answer is true. *)
AnswerInv == \A s \in Slots : phase[s] = "reply" =>
    /\ status[s] \in {200, 201} =>
           stored[RunOf(s)] # None /\ stored[RunOf(s)].payload.body = body[s]
    /\ status[s] = 409 => stored[RunOf(s)] # None /\ stamping = "always"
    /\ status[s] = 400 => ClockOff(RunOf(s))

CreatedInv == \A r \in Runs : created[r] <= 1 /\ (created[r] = 1 => stored[r] # None)

IndInv == /\ TypeOK /\ SlotInv /\ QueueInv /\ UnsentInv /\ BytesInv /\ DriftInv
          /\ ReadingsInv /\ PassedInv /\ ProbeInv /\ AnswerInv /\ CreatedInv
          /\ AcknowledgedIsStored /\ GivenUpForCause

-----------------------------------------------------------------------------
(* What the types say. *)

(* Lemma: clocks and timestamps are integers. *)
LEMMA ReadingsAreIntegers == Readings \subseteq Int
BY IngestAssumption DEF Readings

(* Lemma: the device's clock shows a reading. *)
LEMMA ClockType ==
    ASSUME now \in 0..MaxTime, drift \in Drifts \cup {0}
    PROVE  /\ Clock \in Readings /\ Clock \in Int /\ Clock # None
           /\ Clock = now + drift /\ now \in Int /\ drift \in Int /\ 0 <= now
<1>1. MaxTime \in Int /\ drift \in Int
  BY IngestAssumption
<1>2. now \in Int /\ 0 <= now
  BY <1>1
<1>3. Clock = now + drift
  BY DEF Clock
<1>4. Clock \in Readings
  <2>1. \E n \in 0..MaxTime, d \in Drifts \cup {0} : Clock = n + d
    BY <1>3
  <2>. QED BY <1>1, <1>2, <1>3, <2>1, IngestAssumption DEF Readings
<1>5. Clock \in Int
  BY <1>1, <1>2, <1>3
<1>6. Clock # None
  BY <1>5, IngestAssumption
<1>. QED BY <1>1, <1>2, <1>3, <1>4, <1>5, <1>6

(* Lemma: a timestamp is an integer or absent. *)
LEMMA TimesType ==
    ASSUME NEW t \in Times
    PROVE  /\ t.started \in Int
           /\ t.completed \in Int \cup {None}
           /\ t.enqueued \in Int \cup {None}
           /\ t.submitted \in Int \cup {None}
BY ReadingsAreIntegers DEF Times

(* Lemma: a timestamp set from a clock leaves the others.                     *)
LEMMA TimesSet ==
    ASSUME NEW t \in Times, NEW x \in Readings \cup {None}
    PROVE  /\ [t EXCEPT !.completed = x] \in Times
           /\ [t EXCEPT !.enqueued = x] \in Times
           /\ [t EXCEPT !.submitted = x] \in Times
BY DEF Times

(* Lemma: a row is not None, and its hash is that of the body it holds.       *)
LEMMA RowFacts ==
    ASSUME NEW b \in Bodies, NEW p \in Policies
    PROVE  /\ Row(b, p) \in Rows /\ Row(b, p) # None
           /\ Row(b, p).hash = b /\ Row(b, p).payload.body = b
<1>1. Row(b, p) \in Rows
  BY DEF Rows
<1>2. Row(b, p) # None
  BY <1>1, IngestAssumption
<1>3. Row(b, p).hash = b /\ Row(b, p).payload.body = b
  BY DEF Row, PayloadHash, Canonical
<1>. QED BY <1>1, <1>2, <1>3

(* Lemma: a stored row is the row of a body of its run.                       *)
LEMMA StoredFacts ==
    ASSUME TypeOK, NEW r \in Runs, stored[r] # None
    PROVE  /\ stored[r].hash = stored[r].payload.body
           /\ stored[r].payload.body \in Bodies
           /\ stored[r].payload.body.run = r
           /\ stored[r].payload.body.times \in Times
<1>1. PICK b \in Bodies, p \in Policies : stored[r] = Row(b, p)
  BY DEF TypeOK, Rows
<1>. QED BY <1>1, RowFacts DEF TypeOK, Bodies

(* Lemma: what a slot that is not free holds. *)
LEMMA SlotFacts ==
    ASSUME TypeOK, SlotInv, NEW s \in Slots, phase[s] # "free"
    PROVE  /\ body[s] \in Bodies /\ under[s] \in Policies
           /\ RunOf(s) \in Runs /\ body[s].times \in Times
BY DEF TypeOK, SlotInv, RunOf, Bodies

(* Lemma: what passes the rules goes on passing them as time goes by.         *)
LEMMA PassedStays ==
    ASSUME NEW t \in Times, NEW m \in Int, NEW n \in Int, m <= n, TimesValid(t, m)
    PROVE  TimesValid(t, n)
BY TimesType, RulesAssumption DEF TimesValid, Moment

-----------------------------------------------------------------------------
(* Lemma: Init establishes the inductive invariant. *)
LEMMA InitIndInv == Init => IndInv
<1>. SUFFICES ASSUME Init PROVE IndInv
  OBVIOUS
<1>1. drift \in Readings
  BY IngestAssumption DEF Init, Readings
<1>2. TypeOK
  <2>1. times \in [Runs -> Times]
    BY <1>1 DEF Init, Times
  <2>2. policy \in Policies /\ now \in 0..MaxTime
    BY IngestAssumption DEF Init, Policies
  <2>. QED BY <2>1, <2>2 DEF Init, TypeOK, Phases
<1>3. SlotInv /\ QueueInv /\ UnsentInv /\ BytesInv
  BY DEF Init, SlotInv, QueueInv, UnsentInv, BytesInv
<1>4. DriftInv /\ ReadingsInv /\ PassedInv
  BY DEF Init, DriftInv, ReadingsInv, PassedInv
<1>5. ProbeInv /\ AnswerInv /\ CreatedInv /\ AcknowledgedIsStored /\ GivenUpForCause
  BY DEF Init, ProbeInv, AnswerInv, CreatedInv, AcknowledgedIsStored, GivenUpForCause
<1>. QED BY <1>2, <1>3, <1>4, <1>5 DEF IndInv

-----------------------------------------------------------------------------
(* One lemma per action: the action preserves the inductive invariant.        *)

(* Lemma: what the service and the database do is nothing to the device.      *)
LEMMA DeviceStays ==
    ASSUME QueueInv, DriftInv, ReadingsInv, UNCHANGED <<queue, times, clocks>>
    PROVE  QueueInv' /\ DriftInv' /\ ReadingsInv'
BY DEF QueueInv, DriftInv, ReadingsInv, ClockOff, SetBack, Moment, clocks

(* Lemma: the insert that creates the row. *)
LEMMA InsertCreatesStep ==
    ASSUME IndInv, NEW s \in Slots, InsertCreates(s)
    PROVE  IndInv'
<1>. USE DEF InsertCreates, Store, Reply, client, clocks
<1>1. /\ body[s] \in Bodies /\ under[s] \in Policies /\ RunOf(s) \in Runs
      /\ body[s].run = RunOf(s) /\ body[s].times \in Times /\ phase[s] = "insert"
  BY SlotFacts DEF IndInv, RunOf
<1>2. /\ Row(body[s], under[s]) \in Rows /\ Row(body[s], under[s]) # None
      /\ Row(body[s], under[s]).hash = body[s]
      /\ Row(body[s], under[s]).payload.body = body[s]
  BY <1>1, RowFacts
<1>3. /\ stored' = [stored EXCEPT ![RunOf(s)] = Row(body[s], under[s])]
      /\ stored \in [Runs -> Rows \cup {None}]
  BY DEF IndInv, TypeOK
<1>4. \A r \in Runs : stored'[r] = IF r = RunOf(s) THEN Row(body[s], under[s]) ELSE stored[r]
  BY <1>3
<1>5. TypeOK'
  <2>1. stored' \in [Runs -> Rows \cup {None}]
    BY <1>1, <1>2, <1>3
  <2>2. \A r \in Runs : stored'[r] # None =>
            /\ stored'[r].hash \in Bodies /\ stored'[r].payload.body.run = r
            /\ stored'[r].payload.body.times.completed # None
    BY <1>1, <1>2, <1>4 DEF IndInv, TypeOK, SlotInv
  <2>. QED BY <1>1, <2>1, <2>2 DEF IndInv, TypeOK, Phases
<1>6. SlotInv'
  BY DEF IndInv, TypeOK, SlotInv
<1>7. UnsentInv'
  BY <1>1, <1>4 DEF IndInv, TypeOK, UnsentInv, Unsent, RunOf
<1>8. BytesInv'
  BY <1>1, <1>2, <1>4 DEF IndInv, TypeOK, BytesInv, RunOf
<1>9. QueueInv' /\ DriftInv' /\ ReadingsInv'
  BY DeviceStays DEF IndInv
<1>10. PassedInv'
  BY <1>1, <1>2, <1>4 DEF IndInv, TypeOK, PassedInv
<1>11. ProbeInv'
  BY <1>1, <1>2, <1>4 DEF IndInv, TypeOK, ProbeInv, RunOf
<1>12. AnswerInv'
  BY <1>1, <1>2, <1>4 DEF IndInv, TypeOK, AnswerInv, RunOf, ClockOff, SetBack, Moment
<1>13. CreatedInv'
  BY <1>1, <1>2, <1>4 DEF IndInv, TypeOK, CreatedInv
<1>14. AcknowledgedIsStored' /\ GivenUpForCause'
  BY <1>1, <1>2, <1>4 DEF IndInv, TypeOK, AcknowledgedIsStored, GivenUpForCause, ClockOff, SetBack, Moment
<1>. QED BY <1>5, <1>6, <1>7, <1>8, <1>9, <1>10, <1>11, <1>12, <1>13, <1>14 DEF IndInv

(* Lemma: the insert that meets a row. *)
LEMMA InsertConflictsStep ==
    ASSUME IndInv, NEW s \in Slots, InsertConflicts(s)
    PROVE  IndInv'
<1>. USE DEF InsertConflicts, server, client, clocks
<1>1. TypeOK' /\ SlotInv'
  BY DEF IndInv, TypeOK, SlotInv, Phases
<1>2. UnsentInv' /\ BytesInv'
  BY DEF IndInv, TypeOK, UnsentInv, Unsent, BytesInv, RunOf
<1>3. QueueInv' /\ DriftInv' /\ ReadingsInv'
  BY DeviceStays DEF IndInv
<1>4. PassedInv' /\ ProbeInv'
  BY DEF IndInv, TypeOK, PassedInv, ProbeInv, RunOf
<1>5. AnswerInv'
  BY DEF IndInv, TypeOK, AnswerInv, RunOf, ClockOff, SetBack, Moment
<1>6. CreatedInv' /\ AcknowledgedIsStored' /\ GivenUpForCause'
  BY DEF IndInv, CreatedInv, AcknowledgedIsStored, GivenUpForCause, ClockOff, SetBack, Moment
<1>. QED BY <1>1, <1>2, <1>3, <1>4, <1>5, <1>6 DEF IndInv

(* Lemma: an answer that leaves the rows as they are. *)
LEMMA ReplyStep ==
    ASSUME IndInv, NEW s \in Slots, phase[s] \in {"insert", "probe"},
           NEW code \in {200, 409, 500}, Reply(s, code), UNCHANGED <<server, client, clocks>>,
           code = 200 => stored[RunOf(s)] # None /\ stored[RunOf(s)].payload.body = body[s],
           code = 409 => stored[RunOf(s)] # None /\ stamping = "always"
    PROVE  IndInv'
<1>. USE DEF Reply, server, client, clocks
<1>1. TypeOK' /\ SlotInv'
  BY DEF IndInv, TypeOK, SlotInv, Phases
<1>2. UnsentInv' /\ BytesInv'
  BY DEF IndInv, TypeOK, UnsentInv, Unsent, BytesInv, RunOf
<1>3. QueueInv' /\ DriftInv' /\ ReadingsInv'
  BY DeviceStays DEF IndInv
<1>4. PassedInv' /\ ProbeInv'
  BY DEF IndInv, TypeOK, PassedInv, ProbeInv, RunOf
<1>5. AnswerInv'
  BY DEF IndInv, TypeOK, AnswerInv, RunOf, ClockOff, SetBack, Moment
<1>6. CreatedInv' /\ AcknowledgedIsStored' /\ GivenUpForCause'
  BY DEF IndInv, CreatedInv, AcknowledgedIsStored, GivenUpForCause, ClockOff, SetBack, Moment
<1>. QED BY <1>1, <1>2, <1>3, <1>4, <1>5, <1>6 DEF IndInv

(* Lemma: the insert that PostgreSQL refuses. *)
LEMMA InsertRefusedStep ==
    ASSUME IndInv, NEW s \in Slots, InsertRefused(s)
    PROVE  IndInv'
BY ReplyStep DEF InsertRefused

(* Lemma: the probe.  Copies of one run differ only if they are stamped       *)
(* afresh.                                                                    *)
LEMMA ProbeStep ==
    ASSUME IndInv, NEW s \in Slots, Probe(s)
    PROVE  IndInv'
<1>1. /\ phase[s] = "probe" /\ body[s] \in Bodies /\ RunOf(s) \in Runs
      /\ stored[RunOf(s)] # None
  BY SlotFacts DEF IndInv, Probe, ProbeInv
<1>2. /\ stored[RunOf(s)].hash = stored[RunOf(s)].payload.body
      /\ stored[RunOf(s)].payload.body \in Bodies
      /\ stored[RunOf(s)].payload.body.run = RunOf(s)
  BY <1>1, StoredFacts DEF IndInv
<1>3. CASE stored[RunOf(s)].hash = body[s]
  <2>1. Reply(s, 200) /\ UNCHANGED <<server, client, clocks>>
    BY <1>3 DEF Probe, PayloadHash
  <2>2. stored[RunOf(s)].payload.body = body[s]
    BY <1>2, <1>3
  <2>. QED BY <1>1, <2>1, <2>2, ReplyStep
<1>4. CASE stored[RunOf(s)].hash # body[s]
  <2>1. Reply(s, 409) /\ UNCHANGED <<server, client, clocks>>
    BY <1>4 DEF Probe, PayloadHash
  <2>2. stored[RunOf(s)].payload.body.times # body[s].times
    BY <1>1, <1>2, <1>4 DEF Bodies, RunOf
  <2>3. stamping = "always"
    BY <1>1, <2>2 DEF IndInv, BytesInv
  <2>. QED BY <1>1, <2>1, <2>3, ReplyStep
<1>. QED BY <1>3, <1>4

(* Lemma: the insert whose handler gives up goes on; the probe that fails     *)
(* ends in a 500.                                                             *)
LEMMA StoreErrorStep ==
    ASSUME IndInv, NEW s \in Slots, StoreError(s)
    PROVE  IndInv'
<1>1. CASE phase[s] = "probe" /\ Reply(s, 500) /\ UNCHANGED <<server, client, clocks>>
  BY <1>1, ReplyStep
<1>2. CASE /\ phase[s] = "insert"
           /\ phase' = [phase EXCEPT ![s] = "orphan"]
           /\ queue' = [queue EXCEPT ![RunOf(s)] = IF @ = s THEN "queued" ELSE @]
           /\ UNCHANGED <<server, body, under, status, fixed, times, acked, clocks>>
  <2>. USE <1>2 DEF server, fixed, clocks
  <2>1. \A r \in Runs : \/ queue'[r] = queue[r]
                        \/ queue[r] \in Slots /\ queue'[r] = "queued"
    BY DEF IndInv, TypeOK
  <2>2. \A r \in Runs : queue[r] \in Slots =>
            queue[r] \notin {"running", "completed", "queued", "done", "rejected"}
    BY IngestAssumption
  <2>3. queue' \in [Runs -> Slots \cup {"running", "completed", "queued", "done", "rejected"}]
    BY DEF IndInv, TypeOK
  <2>4. TypeOK' /\ SlotInv'
    BY <2>3 DEF IndInv, TypeOK, SlotInv, Phases
  <2>5. UnsentInv' /\ BytesInv'
    BY <2>1, <2>2 DEF IndInv, TypeOK, UnsentInv, Unsent, BytesInv, RunOf
  <2>6. QueueInv' /\ DriftInv' /\ ReadingsInv'
    BY <2>1, <2>2 DEF IndInv, QueueInv, DriftInv, ReadingsInv, ClockOff, SetBack, Moment
  <2>7. PassedInv' /\ ProbeInv'
    BY DEF IndInv, TypeOK, PassedInv, ProbeInv, RunOf
  <2>8. AnswerInv'
    BY DEF IndInv, TypeOK, AnswerInv, RunOf, ClockOff, SetBack, Moment
  <2>9. CreatedInv' /\ AcknowledgedIsStored' /\ GivenUpForCause'
    BY <2>1, <2>2 DEF IndInv, CreatedInv, AcknowledgedIsStored, GivenUpForCause, ClockOff, SetBack, Moment
  <2>. QED BY <2>4, <2>5, <2>6, <2>7, <2>8, <2>9 DEF IndInv
<1>. QED BY <1>1, <1>2 DEF StoreError

(* Lemma: a restart frees the slots but for the inserts that were sent.       *)
LEMMA RestartStep ==
    ASSUME IndInv, Restart
    PROVE  IndInv'
<1>. USE DEF Restart, fixed, clocks
<1>1. \A s \in Slots :
          /\ phase'[s] \in {"orphan", "free"} /\ status'[s] = 0
          /\ phase'[s] # "free" =>
                 /\ phase[s] \in {"insert", "orphan"}
                 /\ body'[s] = body[s] /\ under'[s] = under[s]
  OBVIOUS
<1>2. \A r \in Runs : \/ queue'[r] = queue[r]
                      \/ queue[r] \in Slots /\ queue'[r] = "queued"
  OBVIOUS
<1>3. \A r \in Runs : queue[r] \in Slots =>
          queue[r] \notin {"running", "completed", "queued", "done", "rejected"}
  BY IngestAssumption
<1>4. TypeOK'
  <2>1. phase' \in [Slots -> Phases] /\ status' \in [Slots -> {0, 200, 201, 400, 409, 500}]
    BY DEF Phases
  <2>2. body' \in [Slots -> Bodies \cup {None}] /\ under' \in [Slots -> Policies \cup {None}]
    BY DEF IndInv, TypeOK
  <2>3. queue' \in [Runs -> Slots \cup {"running", "completed", "queued", "done", "rejected"}]
    BY DEF IndInv, TypeOK
  <2>. QED BY <2>1, <2>2, <2>3 DEF IndInv, TypeOK
<1>5. SlotInv'
  BY <1>1 DEF IndInv, SlotInv
<1>6. UnsentInv' /\ BytesInv'
  BY <1>1, <1>2, <1>3 DEF IndInv, UnsentInv, Unsent, BytesInv, RunOf
<1>7. QueueInv' /\ DriftInv' /\ ReadingsInv'
  BY <1>2, <1>3 DEF IndInv, QueueInv, DriftInv, ReadingsInv, ClockOff, SetBack, Moment
<1>8. PassedInv' /\ ProbeInv' /\ AnswerInv'
  BY <1>1 DEF IndInv, PassedInv, ProbeInv, AnswerInv
<1>9. CreatedInv' /\ AcknowledgedIsStored' /\ GivenUpForCause'
  BY <1>2, <1>3 DEF IndInv, CreatedInv, AcknowledgedIsStored, GivenUpForCause, ClockOff, SetBack, Moment
<1>. QED BY <1>4, <1>5, <1>6, <1>7, <1>8, <1>9 DEF IndInv

(* Lemma: a slot that becomes free takes nothing with it. *)
LEMMA FreeStep ==
    ASSUME IndInv, NEW s \in Slots, Free(s)
    PROVE  /\ \A q \in Slots : phase'[q] # "free" =>
                  /\ q # s /\ phase'[q] = phase[q] /\ body'[q] = body[q]
                  /\ under'[q] = under[q] /\ status'[q] = status[q]
           /\ phase' \in [Slots -> Phases]
           /\ body' \in [Slots -> Bodies \cup {None}]
           /\ under' \in [Slots -> Policies \cup {None}]
           /\ status' \in [Slots -> {0, 200, 201, 400, 409, 500}]
BY DEF IndInv, TypeOK, Free, Phases

(* Lemma: an insert without a handler ends, with a row or without one.        *)
LEMMA OrphanEndsStep ==
    ASSUME IndInv, NEW s \in Slots, OrphanEnds(s)
    PROVE  IndInv'
<1>. USE DEF client, clocks
<1>1. /\ body[s] \in Bodies /\ under[s] \in Policies /\ RunOf(s) \in Runs
      /\ body[s].run = RunOf(s) /\ body[s].times \in Times /\ phase[s] = "orphan"
  BY SlotFacts DEF OrphanEnds, IndInv, RunOf
<1>2. /\ Row(body[s], under[s]) \in Rows /\ Row(body[s], under[s]) # None
      /\ Row(body[s], under[s]).hash = body[s]
      /\ Row(body[s], under[s]).payload.body = body[s]
  BY <1>1, RowFacts
<1>3. \A r \in Runs : \/ stored'[r] = stored[r]
                      \/ /\ r = RunOf(s) /\ stored[r] = None
                         /\ stored'[r] = Row(body[s], under[s])
  BY DEF OrphanEnds, Store, IndInv, TypeOK
<1>4. /\ \A q \in Slots : phase'[q] # "free" =>
             /\ q # s /\ phase'[q] = phase[q] /\ body'[q] = body[q]
             /\ under'[q] = under[q] /\ status'[q] = status[q]
      /\ phase' \in [Slots -> Phases]
      /\ body' \in [Slots -> Bodies \cup {None}]
      /\ under' \in [Slots -> Policies \cup {None}]
      /\ status' \in [Slots -> {0, 200, 201, 400, 409, 500}]
  BY FreeStep DEF OrphanEnds
<1>5. UNCHANGED <<rollout, policy, created, stamping, storable, queue, times, acked, now,
                  drift, stepped>>
  BY DEF OrphanEnds
<1>6. TypeOK'
  <2>1. stored' \in [Runs -> Rows \cup {None}]
    BY <1>1, <1>2 DEF OrphanEnds, Store, IndInv, TypeOK
  <2>2. \A r \in Runs : stored'[r] # None =>
            /\ stored'[r].hash \in Bodies /\ stored'[r].payload.body.run = r
            /\ stored'[r].payload.body.times.completed # None
    BY <1>1, <1>2, <1>3 DEF IndInv, TypeOK, SlotInv
  <2>. QED BY <1>4, <1>5, <2>1, <2>2 DEF IndInv, TypeOK
<1>7. SlotInv'
  BY <1>4 DEF IndInv, SlotInv
<1>8. UnsentInv'
  BY <1>1, <1>3, <1>4, <1>5 DEF IndInv, UnsentInv, Unsent, RunOf
<1>9. BytesInv'
  BY <1>1, <1>2, <1>3, <1>4, <1>5 DEF IndInv, BytesInv, RunOf
<1>10. QueueInv' /\ DriftInv' /\ ReadingsInv'
  BY <1>5, DeviceStays DEF IndInv
<1>11. PassedInv'
  BY <1>1, <1>2, <1>3, <1>4, <1>5 DEF IndInv, PassedInv
<1>12. ProbeInv'
  BY <1>2, <1>3, <1>4, SlotFacts DEF IndInv, ProbeInv, RunOf
<1>13. AnswerInv'
  BY <1>2, <1>3, <1>4, <1>5, SlotFacts DEF IndInv, AnswerInv, RunOf, ClockOff, SetBack, Moment
<1>14. CreatedInv' /\ AcknowledgedIsStored' /\ GivenUpForCause'
  BY <1>2, <1>3, <1>5 DEF IndInv, CreatedInv, AcknowledgedIsStored, GivenUpForCause, ClockOff, SetBack, Moment
<1>. QED BY <1>6, <1>7, <1>8, <1>9, <1>10, <1>11, <1>12, <1>13, <1>14 DEF IndInv

(* Lemma: a test ends, at a time of the device's clock. *)
LEMMA CompleteStep ==
    ASSUME IndInv, NEW r \in Runs, Complete(r)
    PROVE  IndInv'
<1>. USE DEF server, slots, fixed, clocks
<1>1. /\ Clock \in Readings /\ Clock \in Int /\ Clock # None
      /\ Clock = now + drift /\ now \in Int /\ drift \in Int /\ 0 <= now
  <2>1. now \in 0..MaxTime /\ drift \in Drifts \cup {0}
    BY DEF IndInv, TypeOK
  <2>. QED BY <2>1, ClockType
<1>2. \A q \in Runs : /\ times[q] \in Times
                      /\ times[q].started \in Int
                      /\ times[q].completed \in Int \cup {None}
  BY TimesType DEF IndInv, TypeOK
<1>3. /\ times' = [times EXCEPT ![r] = [@ EXCEPT !.completed = Clock]]
      /\ queue' = [queue EXCEPT ![r] = "completed"] /\ queue[r] = "running"
      /\ UNCHANGED <<stored, rollout, policy, created, phase, body, under, status, stamping,
                     storable, acked, now, drift, stepped>>
  BY DEF Complete
<1>4. \A q \in Runs : q # r => times'[q] = times[q] /\ queue'[q] = queue[q]
  BY <1>3 DEF IndInv, TypeOK
<1>5. /\ times'[r].started = times[r].started /\ times'[r].completed = Clock
      /\ times'[r].enqueued = times[r].enqueued
      /\ times'[r].submitted = times[r].submitted /\ queue'[r] = "completed"
  BY <1>2, <1>3 DEF IndInv, TypeOK, Times
<1>6. TypeOK'
  <2>1. times' \in [Runs -> Times]
    BY <1>1, <1>2, <1>3, TimesSet DEF IndInv, TypeOK
  <2>2. queue' \in [Runs -> Slots \cup {"running", "completed", "queued", "done", "rejected"}]
    BY <1>3 DEF IndInv, TypeOK
  <2>. QED BY <1>3, <2>1, <2>2 DEF IndInv, TypeOK
<1>7. SlotInv' /\ QueueInv'
  BY <1>1, <1>3, <1>4, <1>5 DEF IndInv, SlotInv, QueueInv
<1>8. UnsentInv'
  BY <1>3, <1>4, <1>5 DEF IndInv, UnsentInv, Unsent, RunOf
<1>9. BytesInv'
  <2>1. stored[r] = None /\ \A s \in Slots : phase[s] # "free" => RunOf(s) # r
    BY <1>3 DEF IndInv, UnsentInv, Unsent
  <2>. QED BY <1>3, <1>4, <1>5, <2>1, SlotFacts DEF IndInv, BytesInv, RunOf
<1>10. DriftInv'
  BY <1>3, <1>4, <1>5 DEF IndInv, DriftInv
<1>11. \A q \in Runs : /\ ClockOff(q) => ClockOff(q)'
                       /\ q # r => (ClockOff(q)' <=> ClockOff(q))
  <2>1. times[r].completed = None
    BY <1>3 DEF IndInv, QueueInv
  <2>. QED BY <1>3, <1>4, <1>5, <2>1 DEF ClockOff, SetBack, Moment
<1>12. ReadingsInv'
  <2>1. ~ClockOff(r)' => times[r].started <= Clock /\ Clock <= now + Tolerance
    BY <1>1, <1>2, <1>3, <1>5, RulesAssumption DEF IndInv, DriftInv, ClockOff, SetBack, Moment
  <2>2. ~ClockOff(r) => times[r].submitted = None /\ times[r].enqueued = None
    BY <1>3 DEF IndInv, QueueInv, ReadingsInv
  <2>. QED BY <1>1, <1>3, <1>4, <1>5, <1>11, <2>1, <2>2 DEF IndInv, ReadingsInv
<1>13. PassedInv' /\ ProbeInv'
  BY <1>3 DEF IndInv, PassedInv, ProbeInv, RunOf
<1>14. AnswerInv' /\ GivenUpForCause'
  BY <1>3, <1>4, <1>5, <1>11, SlotFacts DEF IndInv, AnswerInv, GivenUpForCause, RunOf
<1>15. CreatedInv' /\ AcknowledgedIsStored'
  BY <1>3 DEF IndInv, CreatedInv, AcknowledgedIsStored
<1>. QED BY <1>6, <1>7, <1>8, <1>9, <1>10, <1>12, <1>13, <1>14, <1>15 DEF IndInv

(* Lemma: a run is queued, at a time of the device's clock. *)
LEMMA EnqueueStep ==
    ASSUME IndInv, NEW r \in Runs, Enqueue(r)
    PROVE  IndInv'
<1>. DEFINE x == IF stamping = "absent" THEN None ELSE Clock
<1>. USE DEF server, slots, fixed, clocks
<1>1. /\ Clock \in Readings /\ Clock \in Int /\ Clock # None
      /\ Clock = now + drift /\ now \in Int /\ drift \in Int /\ 0 <= now
  <2>1. now \in 0..MaxTime /\ drift \in Drifts \cup {0}
    BY DEF IndInv, TypeOK
  <2>. QED BY <2>1, ClockType
<1>2. \A q \in Runs : /\ times[q] \in Times
                      /\ times[q].started \in Int
                      /\ times[q].completed \in Int \cup {None}
  BY TimesType DEF IndInv, TypeOK
<1>3. /\ times' = [times EXCEPT ![r] = [@ EXCEPT !.enqueued = x]]
      /\ queue' = [queue EXCEPT ![r] = "queued"] /\ queue[r] = "completed"
      /\ UNCHANGED <<stored, rollout, policy, created, phase, body, under, status, stamping,
                     storable, acked, now, drift, stepped>>
  BY DEF Enqueue
<1>4. \A q \in Runs : q # r => times'[q] = times[q] /\ queue'[q] = queue[q]
  BY <1>3 DEF IndInv, TypeOK
<1>5. /\ times'[r].started = times[r].started
      /\ times'[r].completed = times[r].completed
      /\ times'[r].enqueued = x
      /\ times'[r].submitted = times[r].submitted /\ queue'[r] = "queued"
  BY <1>2, <1>3 DEF IndInv, TypeOK, Times
<1>6. TypeOK'
  <2>1. times' \in [Runs -> Times]
    BY <1>1, <1>2, <1>3, TimesSet DEF IndInv, TypeOK
  <2>2. queue' \in [Runs -> Slots \cup {"running", "completed", "queued", "done", "rejected"}]
    BY <1>3 DEF IndInv, TypeOK
  <2>. QED BY <1>3, <2>1, <2>2 DEF IndInv, TypeOK
<1>7. SlotInv' /\ QueueInv'
  BY <1>1, <1>3, <1>4, <1>5 DEF IndInv, SlotInv, QueueInv
<1>8. stored[r] = None /\ \A s \in Slots : phase[s] # "free" => RunOf(s) # r
  BY <1>3 DEF IndInv, UnsentInv, Unsent
<1>9. UnsentInv'
  BY <1>3, <1>4, <1>5, <1>8 DEF IndInv, UnsentInv, Unsent, RunOf
<1>10. BytesInv'
  BY <1>3, <1>4, <1>5, <1>8, SlotFacts DEF IndInv, BytesInv, RunOf
<1>11. DriftInv'
  BY <1>3, <1>4, <1>5 DEF IndInv, DriftInv
<1>12. \A q \in Runs : ClockOff(q)' <=> ClockOff(q)
  BY <1>3, <1>4, <1>5 DEF ClockOff, SetBack, Moment
<1>13. ReadingsInv'
  <2>1. ~ClockOff(r) => x = None \/ x >= times[r].completed - Tolerance
    BY <1>1, <1>2, <1>3, RulesAssumption DEF IndInv, QueueInv, ReadingsInv
  <2>2. times[r].completed # None
    BY <1>3 DEF IndInv, QueueInv
  <2>. QED BY <1>3, <1>4, <1>5, <1>12, <2>1, <2>2 DEF IndInv, ReadingsInv
<1>14. PassedInv' /\ ProbeInv'
  BY <1>3 DEF IndInv, PassedInv, ProbeInv, RunOf
<1>15. AnswerInv' /\ GivenUpForCause'
  BY <1>3, <1>4, <1>5, <1>12, SlotFacts DEF IndInv, AnswerInv, GivenUpForCause, RunOf
<1>16. CreatedInv' /\ AcknowledgedIsStored'
  BY <1>3 DEF IndInv, CreatedInv, AcknowledgedIsStored
<1>. QED BY <1>6, <1>7, <1>9, <1>10, <1>11, <1>13, <1>14, <1>15, <1>16 DEF IndInv

(* Lemma: time passes. *)
LEMMA TickStep ==
    ASSUME IndInv, Tick
    PROVE  IndInv'
<1>. USE DEF server, slots, client
<1>1. now \in Int /\ now' = now + 1 /\ drift \in Int /\ now' \in 0..MaxTime
  BY IngestAssumption DEF Tick, IndInv, TypeOK
<1>2. UNCHANGED <<stored, rollout, policy, created, phase, body, under, status, stamping,
                  storable, queue, times, acked, drift, stepped>>
  BY DEF Tick
<1>3. TypeOK' /\ SlotInv' /\ QueueInv' /\ UnsentInv'
  BY <1>1, <1>2 DEF IndInv, TypeOK, SlotInv, QueueInv, UnsentInv, Unsent, RunOf
<1>4. BytesInv' /\ DriftInv' /\ ProbeInv'
  BY <1>2 DEF IndInv, BytesInv, DriftInv, ProbeInv, RunOf
<1>5. \A q \in Runs : ClockOff(q)' <=> ClockOff(q)
  BY <1>2 DEF ClockOff, SetBack, Moment
<1>6. ReadingsInv'
  <2>1. \A q \in Runs : /\ times[q].completed \in Int \cup {None}
                        /\ times[q].submitted \in Int \cup {None}
    BY TimesType DEF IndInv, TypeOK
  <2>. QED BY <1>1, <1>2, <1>5, <2>1, RulesAssumption DEF IndInv, ReadingsInv
<1>7. PassedInv'
  <2>1. \A t \in Times : TimesValid(t, now) => TimesValid(t, now')
    BY <1>1, PassedStays
  <2>. QED BY <1>2, <2>1, SlotFacts, StoredFacts DEF IndInv, PassedInv
<1>8. AnswerInv' /\ GivenUpForCause'
  BY <1>2, <1>5, SlotFacts DEF IndInv, AnswerInv, GivenUpForCause, RunOf
<1>9. CreatedInv' /\ AcknowledgedIsStored'
  BY <1>2 DEF IndInv, CreatedInv, AcknowledgedIsStored
<1>. QED BY <1>3, <1>4, <1>6, <1>7, <1>8, <1>9 DEF IndInv

(* Lemma: the device's clock is set; tests under way see it jump. *)
LEMMA SetClockStep ==
    ASSUME IndInv, SetClock
    PROVE  IndInv'
<1>. USE DEF server, slots, client
<1>1. now \in Int /\ drift \in Int /\ drift # 0 /\ drift' = 0 /\ stepped = {}
  BY IngestAssumption DEF SetClock, IndInv, TypeOK, DriftInv
<1>2. UNCHANGED <<stored, rollout, policy, created, phase, body, under, status, stamping,
                  storable, queue, times, acked, now>>
  BY DEF SetClock
<1>3. stepped' = {r \in Runs : queue[r] \in {"running", "completed"}}
  BY DEF SetClock
<1>4. TypeOK' /\ SlotInv' /\ QueueInv' /\ UnsentInv'
  BY <1>1, <1>2, <1>3 DEF IndInv, TypeOK, SlotInv, QueueInv, UnsentInv, Unsent, RunOf
<1>5. BytesInv' /\ DriftInv' /\ ProbeInv'
  BY <1>1, <1>2, <1>3 DEF IndInv, BytesInv, DriftInv, ProbeInv, RunOf
<1>6. \A q \in Runs : ClockOff(q) => ClockOff(q)'
  BY <1>1, <1>2 DEF ClockOff, SetBack, Moment
<1>7. ReadingsInv'
  BY <1>1, <1>2, <1>6 DEF IndInv, ReadingsInv
<1>8. PassedInv'
  BY <1>2 DEF IndInv, PassedInv
<1>9. AnswerInv' /\ GivenUpForCause'
  BY <1>2, <1>6, SlotFacts DEF IndInv, AnswerInv, GivenUpForCause, RunOf
<1>10. CreatedInv' /\ AcknowledgedIsStored'
  BY <1>2 DEF IndInv, CreatedInv, AcknowledgedIsStored
<1>. QED BY <1>4, <1>5, <1>7, <1>8, <1>9, <1>10 DEF IndInv

(* Lemma: a device that stops waiting has the run on its queue again.         *)
LEMMA TimeoutStep ==
    ASSUME IndInv, NEW r \in Runs, Timeout(r)
    PROVE  IndInv'
<1>. USE DEF server, slots, fixed, clocks
<1>1. UNCHANGED <<stored, rollout, policy, created, phase, body, under, status, stamping,
                  storable, times, acked, now, drift, stepped>>
  BY DEF Timeout
<1>2. \A q \in Runs : \/ queue'[q] = queue[q]
                      \/ queue[q] \in Slots /\ queue'[q] = "queued"
  BY DEF Timeout, IndInv, TypeOK
<1>3. \A q \in Runs : queue[q] \in Slots =>
          queue[q] \notin {"running", "completed", "queued", "done", "rejected"}
  BY IngestAssumption
<1>4. TypeOK' /\ SlotInv'
  BY <1>1 DEF Timeout, IndInv, TypeOK, SlotInv
<1>5. QueueInv' /\ UnsentInv' /\ BytesInv'
  BY <1>1, <1>2, <1>3 DEF IndInv, QueueInv, UnsentInv, Unsent, BytesInv, RunOf
<1>6. DriftInv' /\ ReadingsInv'
  BY <1>1, <1>2, <1>3 DEF IndInv, DriftInv, ReadingsInv, ClockOff, SetBack, Moment
<1>7. PassedInv' /\ ProbeInv' /\ AnswerInv'
  BY <1>1 DEF IndInv, PassedInv, ProbeInv, AnswerInv, RunOf, ClockOff, SetBack, Moment
<1>8. CreatedInv' /\ AcknowledgedIsStored' /\ GivenUpForCause'
  BY <1>1, <1>2, <1>3 DEF IndInv, CreatedInv, AcknowledgedIsStored, GivenUpForCause, ClockOff, SetBack, Moment
<1>. QED BY <1>4, <1>5, <1>6, <1>7, <1>8 DEF IndInv

(* Lemma: an attempt.  What the rules turn down is a clock's fault; what they *)
(* pass differs from earlier copies only if it is stamped afresh.             *)
LEMMA PostStep ==
    ASSUME IndInv, NEW r \in Runs, NEW s \in Slots, Post(r, s)
    PROVE  IndInv'
<1>. USE DEF server, fixed, clocks
<1>1. /\ Clock \in Readings /\ Clock \in Int /\ Clock # None
      /\ Clock = now + drift /\ now \in Int /\ drift \in Int /\ 0 <= now
  <2>1. now \in 0..MaxTime /\ drift \in Drifts \cup {0}
    BY DEF IndInv, TypeOK
  <2>. QED BY <2>1, ClockType
<1>2. \A q \in Runs : /\ times[q] \in Times
                      /\ times[q].started \in Int
                      /\ times[q].completed \in Int \cup {None}
                      /\ times[q].enqueued \in Int \cup {None}
                      /\ times[q].submitted \in Int \cup {None}
  BY TimesType DEF IndInv, TypeOK
<1>3. /\ times' = [times EXCEPT ![r] = [@ EXCEPT !.submitted = Stamp(r)]]
      /\ queue' = [queue EXCEPT ![r] = s] /\ queue[r] = "queued" /\ phase[s] = "free"
      /\ body' = [body EXCEPT ![s] = [run |-> r, times |-> times'[r]]]
      /\ under' = [under EXCEPT ![s] = policy]
      /\ UNCHANGED <<stored, rollout, policy, created, stamping, storable, acked, now, drift,
                     stepped>>
  BY DEF Post
<1>4. Stamp(r) \in Readings \cup {None} /\ Stamp(r) \in {None, times[r].submitted, Clock}
  BY <1>1, <1>2 DEF Stamp, Times
<1>5. \A q \in Runs : q # r => times'[q] = times[q] /\ queue'[q] = queue[q]
  BY <1>3 DEF IndInv, TypeOK
<1>6. /\ times'[r].started = times[r].started
      /\ times'[r].completed = times[r].completed
      /\ times'[r].enqueued = times[r].enqueued
      /\ times'[r].submitted = Stamp(r) /\ queue'[r] = s
  BY <1>2, <1>3 DEF IndInv, TypeOK, Times
<1>7. times' \in [Runs -> Times] /\ times'[r] \in Times
  BY <1>2, <1>3, <1>4, TimesSet DEF IndInv, TypeOK
<1>8. /\ body'[s] \in Bodies /\ body'[s] # None /\ body'[s].run = r
      /\ body'[s].times = times'[r]
  BY <1>3, <1>7, IngestAssumption DEF IndInv, TypeOK, Bodies
<1>9. policy \in Policies /\ policy # None
  BY IngestAssumption DEF IndInv, TypeOK, Policies
<1>10. /\ \A q \in Slots : q # s => /\ phase'[q] = phase[q] /\ body'[q] = body[q]
                                    /\ under'[q] = under[q] /\ status'[q] = status[q]
       /\ \/ TimesValid(times'[r], now) /\ phase'[s] = "insert" /\ status'[s] = status[s]
          \/ ~TimesValid(times'[r], now) /\ phase'[s] = "reply" /\ status'[s] = 400
       /\ phase' \in [Slots -> Phases]
       /\ status' \in [Slots -> {0, 200, 201, 400, 409, 500}]
  BY DEF Post, IndInv, TypeOK, Phases
<1>11. s \notin {"running", "completed", "queued", "done", "rejected"}
  BY IngestAssumption
<1>12. times[r].completed # None
  BY <1>3 DEF IndInv, QueueInv
<1>13. \A q \in Runs : ClockOff(q)' <=> ClockOff(q)
  BY <1>3, <1>5, <1>6 DEF ClockOff, SetBack, Moment
<1>14. TypeOK'
  <2>1. queue' \in [Runs -> Slots \cup {"running", "completed", "queued", "done", "rejected"}]
    BY <1>3 DEF IndInv, TypeOK
  <2>2. body' \in [Slots -> Bodies \cup {None}] /\ under' \in [Slots -> Policies \cup {None}]
    BY <1>3, <1>8, <1>9 DEF IndInv, TypeOK
  <2>. QED BY <1>3, <1>7, <1>10, <2>1, <2>2 DEF IndInv, TypeOK
<1>15. SlotInv' /\ QueueInv'
  <2>1. under'[s] = policy
    BY <1>3 DEF IndInv, TypeOK
  <2>2. SlotInv'
    BY <1>6, <1>8, <1>9, <1>10, <1>12, <2>1 DEF IndInv, SlotInv
  <2>3. QueueInv'
    BY <1>5, <1>6, <1>11, <1>12 DEF IndInv, QueueInv
  <2>. QED BY <2>2, <2>3
<1>16. UnsentInv'
  <2>1. ~Unsent(r)'
    BY <1>1, <1>3, <1>6, <1>11 DEF Unsent, Stamp
  <2>2. \A q \in Runs : q # r => (Unsent(q)' <=> Unsent(q))
    BY <1>3, <1>5 DEF Unsent
  <2>. QED BY <1>3, <1>8, <1>10, <2>1, <2>2 DEF IndInv, UnsentInv, RunOf
<1>17. BytesInv'
  <2>1. CASE stamping = "always"
    BY <1>3, <2>1 DEF BytesInv
  <2>2. CASE stamping # "always" /\ times[r].submitted = Stamp(r)
    <3>1. times' = times
      BY <1>2, <1>3, <2>2 DEF IndInv, TypeOK, Times
    <3>. QED BY <1>3, <1>8, <1>10, <2>2, <3>1 DEF IndInv, BytesInv, RunOf
  <2>3. CASE stamping # "always" /\ times[r].submitted # Stamp(r)
    <3>1. stamping = "once" /\ times[r].submitted = None
      BY <2>3, IngestAssumption DEF Stamp, IndInv, TypeOK, BytesInv
    <3>2. stored[r] = None /\ \A q \in Slots : phase[q] # "free" => RunOf(q) # r
      BY <3>1 DEF IndInv, UnsentInv, Unsent
    <3>3. \A q \in Slots : q # s /\ phase[q] # "free" => RunOf(q) \in Runs
      BY SlotFacts DEF IndInv
    <3>. QED BY <1>3, <1>5, <1>8, <1>10, <3>1, <3>2, <3>3 DEF IndInv, BytesInv, RunOf
  <2>. QED BY <2>1, <2>2, <2>3
<1>18. DriftInv'
  BY <1>3, <1>5, <1>6, <1>11 DEF IndInv, DriftInv
<1>19. ReadingsInv'
  <2>1. ~ClockOff(r) /\ Stamp(r) # None =>
            Stamp(r) >= times[r].completed - Tolerance /\ Stamp(r) <= now + Tolerance
    BY <1>1, <1>2, <1>4, <1>12, RulesAssumption
       DEF IndInv, ReadingsInv, DriftInv, ClockOff, SetBack, Moment
  <2>. QED BY <1>3, <1>5, <1>6, <1>12, <1>13, <2>1 DEF IndInv, ReadingsInv
<1>20. ProbeInv' /\ PassedInv'
  BY <1>3, <1>8, <1>10 DEF IndInv, ProbeInv, PassedInv, RunOf
<1>21. AnswerInv'
  <2>1. ~TimesValid(times'[r], now) => ClockOff(r)'
    BY <1>3, <1>6, <1>12, <1>19 DEF ReadingsInv, TimesValid, Moment
  <2>2. \A q \in Slots : q # s /\ phase[q] # "free" => RunOf(q) \in Runs
    BY SlotFacts DEF IndInv
  <2>3. RunOf(s)' = r /\ \A q \in Slots : q # s => RunOf(q)' = RunOf(q)
    BY <1>8, <1>10 DEF RunOf
  <2>. QED BY <1>3, <1>10, <1>13, <2>1, <2>2, <2>3 DEF IndInv, AnswerInv
<1>22. CreatedInv' /\ AcknowledgedIsStored'
  BY <1>3 DEF IndInv, CreatedInv, AcknowledgedIsStored
<1>23. GivenUpForCause'
  BY <1>3, <1>5, <1>6, <1>11, <1>13 DEF IndInv, GivenUpForCause
<1>. QED BY <1>14, <1>15, <1>16, <1>17, <1>18, <1>19, <1>20, <1>21, <1>22, <1>23 DEF IndInv

(* Lemma: an answer reaches its device, or nobody. *)
LEMMA DeliverStep ==
    ASSUME IndInv, NEW s \in Slots, Deliver(s)
    PROVE  IndInv'
<1>. USE DEF server, clocks
<1>1. /\ body[s] \in Bodies /\ RunOf(s) \in Runs /\ body[s].run = RunOf(s)
      /\ phase[s] = "reply"
  BY SlotFacts DEF Deliver, IndInv, RunOf
<1>2. /\ \A q \in Slots : phase'[q] # "free" =>
             /\ q # s /\ phase'[q] = phase[q] /\ body'[q] = body[q]
             /\ under'[q] = under[q] /\ status'[q] = status[q]
      /\ phase' \in [Slots -> Phases]
      /\ body' \in [Slots -> Bodies \cup {None}]
      /\ under' \in [Slots -> Policies \cup {None}]
      /\ status' \in [Slots -> {0, 200, 201, 400, 409, 500}]
  BY FreeStep DEF Deliver
<1>3. UNCHANGED <<stored, rollout, policy, created, stamping, storable, times, now, drift,
                  stepped>>
  BY DEF Deliver, client, fixed
<1>4. \A r \in Runs :
          \/ queue'[r] = queue[r] /\ acked'[r] = acked[r]
          \/ /\ r = RunOf(s) /\ queue[r] = s
             /\ \/ /\ status[s] \in {200, 201} /\ queue'[r] = "done"
                   /\ acked'[r] = body[s]
                \/ /\ status[s] \in {400, 409} /\ queue'[r] = "rejected"
                   /\ acked'[r] = acked[r]
                \/ queue'[r] = "queued" /\ acked'[r] = acked[r]
  BY <1>1 DEF Deliver, client, IndInv, TypeOK
<1>5. s \notin {"running", "completed", "queued", "done", "rejected"}
  BY IngestAssumption
<1>6. TypeOK'
  <2>1. queue' \in [Runs -> Slots \cup {"running", "completed", "queued", "done", "rejected"}]
    BY DEF Deliver, client, IndInv, TypeOK
  <2>2. acked' \in [Runs -> Bodies \cup {None}]
    BY <1>1 DEF Deliver, client, IndInv, TypeOK
  <2>. QED BY <1>2, <1>3, <2>1, <2>2 DEF IndInv, TypeOK
<1>7. SlotInv'
  BY <1>2 DEF IndInv, SlotInv
<1>8. QueueInv' /\ DriftInv'
  BY <1>3, <1>4, <1>5 DEF IndInv, QueueInv, DriftInv
<1>9. UnsentInv'
  BY <1>2, <1>3, <1>4, <1>5 DEF IndInv, UnsentInv, Unsent, RunOf
<1>10. BytesInv'
  BY <1>2, <1>3 DEF IndInv, BytesInv, RunOf
<1>11. \A r \in Runs : ClockOff(r)' <=> ClockOff(r)
  BY <1>3 DEF ClockOff, SetBack, Moment
<1>12. ReadingsInv' /\ PassedInv'
  BY <1>2, <1>3, <1>11 DEF IndInv, ReadingsInv, PassedInv
<1>13. ProbeInv' /\ AnswerInv'
  BY <1>2, <1>3, <1>11, SlotFacts DEF IndInv, ProbeInv, AnswerInv, RunOf
<1>14. CreatedInv'
  BY <1>3 DEF IndInv, CreatedInv
<1>15. AcknowledgedIsStored'
  BY <1>1, <1>3, <1>4 DEF IndInv, AnswerInv, AcknowledgedIsStored
<1>16. GivenUpForCause'
  BY <1>1, <1>3, <1>4, <1>5, <1>11 DEF IndInv, AnswerInv, GivenUpForCause
<1>. QED BY <1>6, <1>7, <1>8, <1>9, <1>10, <1>12, <1>13, <1>14, <1>15, <1>16 DEF IndInv

(* Lemma: a stuttering step keeps the inductive invariant. *)
LEMMA StutterStep ==
    ASSUME IndInv, UNCHANGED vars
    PROVE  IndInv'
<1>. USE DEF vars
<1>1. TypeOK' /\ SlotInv' /\ QueueInv' /\ UnsentInv' /\ BytesInv'
  BY DEF IndInv, TypeOK, SlotInv, QueueInv, UnsentInv, Unsent, BytesInv, RunOf
<1>2. DriftInv' /\ ReadingsInv' /\ PassedInv' /\ ProbeInv'
  BY DEF IndInv, DriftInv, ReadingsInv, ClockOff, SetBack, Moment, PassedInv, ProbeInv, RunOf
<1>3. AnswerInv' /\ CreatedInv' /\ AcknowledgedIsStored' /\ GivenUpForCause'
  BY DEF IndInv, AnswerInv, ClockOff, SetBack, Moment, CreatedInv, AcknowledgedIsStored, GivenUpForCause, RunOf
<1>. QED BY <1>1, <1>2, <1>3 DEF IndInv

(* Lemma: every step preserves the inductive invariant. *)
LEMMA NextIndInv == IndInv /\ [Next]_vars => IndInv'
<1>. SUFFICES ASSUME IndInv, [Next]_vars PROVE IndInv'
  OBVIOUS
<1>1. CASE Restart
  BY <1>1, RestartStep
<1>2. CASE Tick \/ SetClock
  BY <1>2, TickStep, SetClockStep
<1>3. ASSUME NEW r \in Runs, Complete(r) \/ Enqueue(r) \/ Timeout(r) PROVE IndInv'
  BY <1>3, CompleteStep, EnqueueStep, TimeoutStep
<1>4. ASSUME NEW r \in Runs, NEW s \in Slots, Post(r, s) PROVE IndInv'
  BY <1>4, PostStep
<1>5. ASSUME NEW s \in Slots, Serve(s) PROVE IndInv'
  BY <1>5, InsertCreatesStep, InsertConflictsStep, InsertRefusedStep, ProbeStep,
     OrphanEndsStep, DeliverStep DEF Serve
<1>6. ASSUME NEW s \in Slots, StoreError(s) PROVE IndInv'
  BY <1>6, StoreErrorStep
<1>7. CASE UNCHANGED vars
  BY <1>7, StutterStep
<1>. QED BY <1>1, <1>2, <1>3, <1>4, <1>5, <1>6, <1>7 DEF Next

-----------------------------------------------------------------------------
(* The theorems: what holds of every reachable state and step.                *)

(* Theorem: the inductive invariant holds throughout. *)
THEOREM AlwaysIndInv == Spec => []IndInv
BY InitIndInv, NextIndInv, PTL DEF Spec

(* Theorem: every variable stays within its type; each stored row is that of  *)
(* a body of its own run, whatever handler or orphaned insert wrote it.       *)
THEOREM Typed == Spec => []TypeOK
<1>1. IndInv => TypeOK
  BY DEF IndInv
<1>. QED BY <1>1, AlwaysIndInv, PTL

(* Theorem: what a device takes off its queue as acknowledged is stored, byte *)
(* for byte, over all retries, timeouts, restarts and concurrent copies.      *)
THEOREM NoAcknowledgedLoss == Spec => []AcknowledgedIsStored
<1>1. IndInv => AcknowledgedIsStored
  BY DEF IndInv
<1>. QED BY <1>1, AlwaysIndInv, PTL

(* Theorem: no certification is created twice. *)
THEOREM OneCreation == Spec => []CreatedOnce
<1>1. IndInv => CreatedOnce
  BY DEF IndInv, CreatedInv, CreatedOnce
<1>. QED BY <1>1, AlwaysIndInv, PTL

(* Theorem: a run is given up only for a clock that was off by more than the  *)
(* tolerance or set back during the run, or, by clients that stamp every      *)
(* attempt, while the run is stored.                                          *)
THEOREM RefusalsHaveCause == Spec => []GivenUpForCause
<1>1. IndInv => GivenUpForCause
  BY DEF IndInv
<1>. QED BY <1>1, AlwaysIndInv, PTL

(* Theorem: the delays behind the queue statistics lie within the window, the *)
(* tolerance apart, whatever clocks the devices have.                         *)
THEOREM PlausibleDelays == Spec => []DelaysPlausible
<1>1. IndInv => DelaysPlausible
  <2>. SUFFICES ASSUME IndInv, NEW r \in Runs, stored[r] # None,
                       NEW t, t = stored[r].payload.body.times,
                       Moment(t.submitted), t.completed >= now - Window
                PROVE  /\ -Tolerance <= t.submitted - t.completed
                       /\ t.submitted - t.completed <= Window + Tolerance
    BY DEF DelaysPlausible, Delays
  <2>1. t \in Times /\ t.completed # None /\ t.submitted # None
    BY StoredFacts DEF IndInv, TypeOK, Moment
  <2>2. t.submitted \in Int /\ t.completed \in Int /\ now \in Int /\ Window \in Int
    BY <2>1, TimesType, IngestAssumption DEF IndInv, TypeOK
  <2>3. t.submitted >= t.completed - Tolerance /\ t.submitted <= now + Tolerance
    BY DEF IndInv, PassedInv, TimesValid
  <2>. QED BY <2>2, <2>3, RulesAssumption
<1>. QED BY <1>1, AlwaysIndInv, PTL

(* Lemma: what is extracted before the redaction is nothing that a policy     *)
(* redacts, so Redact leaves it as the device reported it.                    *)
LEMMA BuiltStays ==
    ASSUME NEW p \in Policies, NEW payload, NEW f \in Built
    PROVE  Redact(p, payload)[f] = payload[f]
<1>1. f \in Fields /\ f \notin piiPaths \cup Demoted
  BY DEF Fields, piiPaths, Demoted, Built
<1>2. f \notin PiiPaths[p]
  BY <1>1, IngestAssumption
<1>. QED BY <1>1, <1>2 DEF Redact

(* Theorem: the columns of every row, those filled before the redaction and   *)
(* those filled after it, agree with its redacted payload, under any policy   *)
(* made of paths that are or once were redacted.                              *)
THEOREM ColumnsAgree == Spec => []ColumnsMatchPayload
<1>1. IndInv => ColumnsMatchPayload
  <2>. SUFFICES ASSUME IndInv, NEW r \in Runs, stored[r] # None,
                       NEW f \in Built \cup Extracted
                PROVE  stored[r].columns[f] = Column(stored[r].payload.values[f])
    BY DEF ColumnsMatchPayload
  <2>1. PICK b \in Bodies, p \in Policies : stored[r] = Row(b, p)
    BY DEF IndInv, TypeOK, Rows
  <2>2. stored[r].columns = Columns(b, p) /\ stored[r].payload = Canonical(b, p)
    BY <2>1 DEF Row
  <2>3. Canonical(b, p).values = Redact(p, Reported(b.run))
    BY DEF Canonical
  <2>4. f \notin Extracted => Canonical(b, p).values[f] = Reported(b.run)[f]
    BY <2>3, BuiltStays
  <2>5. Columns(b, p)[f] = Column(Canonical(b, p).values[f])
    BY <2>4 DEF Columns
  <2>. QED BY <2>2, <2>5
<1>. QED BY <1>1, AlwaysIndInv, PTL

(* Theorem: a row once stored stays as it is. *)
THEOREM RowsStay == Spec => FirstWriteWins
<1>1. IndInv /\ [Next]_vars =>
          [\A r \in Runs : stored[r] # None => stored'[r] = stored[r]]_vars
  <2>. SUFFICES ASSUME IndInv, Next, NEW r \in Runs, stored[r] # None
                PROVE  stored'[r] = stored[r]
    OBVIOUS
  <2>. USE DEF server, slots, client, fixed, clocks
  <2>1. CASE Restart \/ Tick \/ SetClock
    BY <2>1 DEF Restart, Tick, SetClock
  <2>2. ASSUME NEW q \in Runs,
               Complete(q) \/ Enqueue(q) \/ Timeout(q) \/ \E s \in Slots : Post(q, s)
        PROVE  stored'[r] = stored[r]
    BY <2>2 DEF Complete, Enqueue, Timeout, Post
  <2>3. ASSUME NEW s \in Slots, InsertCreates(s) \/ OrphanEnds(s)
        PROVE  stored'[r] = stored[r]
    BY <2>3 DEF InsertCreates, OrphanEnds, Store, IndInv, TypeOK
  <2>4. ASSUME NEW s \in Slots,
               InsertConflicts(s) \/ InsertRefused(s) \/ Probe(s) \/ Deliver(s) \/ StoreError(s)
        PROVE  stored'[r] = stored[r]
    BY <2>4 DEF InsertConflicts, InsertRefused, Probe, Deliver, StoreError
  <2>. QED BY <2>1, <2>2, <2>3, <2>4 DEF Next, Serve
<1>. QED BY <1>1, AlwaysIndInv, PTL DEF Spec, FirstWriteWins
=============================================================================
