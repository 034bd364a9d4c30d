--------------------------- MODULE ConfigDelivery ---------------------------
(* Devices that poll GET /v1/cert-config (internal/api/certconfig.go) while   *)
(* operators create and activate rows.  An admin request is one atomic step   *)
(* here: ConfigService checks that this is how devices see them.              *)
EXTENDS ConfigResolution, Envelopes, FiniteSets

CONSTANTS Versions,        \* config_version values
          Devices,
          Identities,      \* the selector headers a device may send
          Drafts,          \* JSON objects operators post
          SchemaVersions,  \* X-Schema-Version headers devices send, 0 if unusable
          NoRow,           \* no such row, no such document
          Idle             \* no request under way

MinSchemaVersion == 1   \* minSchemaVersion

ASSUME DeliveryAssumption ==
    /\ IsFiniteSet(Versions)
    /\ Identities \subseteq DeviceTargets
    /\ SchemaVersions \subseteq Nat
    /\ NoRow \notin Targets \cup Versions \cup Drafts /\ Idle \notin Nat

(* Versions and Values hold the strings that the drafts name; a string has a  *)
(* length, and a number that is written as an integer is one.                 *)
Integral(v)      == Integer(v) => v.tenths \in Int /\ v.tenths % 10 = 0
WholeNumbers(o)  == IsObject(o) => \A key \in DOMAIN o.fields : Integral(o.fields[key])

WellWritten(doc) ==
    /\ LET v == Field(doc, "configVersion") IN NonEmptyString(v) => v.text \in Versions
    /\ \A s \in Selectors :
           LET v == Field(doc, SelectorField[s])
           IN v.kind = "string" => v.bytes \in Nat /\ (v.bytes \in 1..255 => v.text \in Values)
    /\ \A part \in {"wifiLinkQuality", "healthAssessment"} : WholeNumbers(Field(doc, part))
    /\ LET tests == Field(doc, "tests")
       IN IsObject(tests) => \A key \in DOMAIN tests.fields : WholeNumbers(tests.fields[key])

ASSUME DraftAssumption == \A doc \in Drafts : WellWritten(doc)

VARIABLES row, active,  \* as in CertConfigStore
          createdAt,    \* version -> creation order
          document,     \* version -> the document as posted, or NoRow
          identity,     \* device -> the selector headers it sends
          cached,       \* device -> the version of the document it keeps, or NoRow
          poll,         \* device -> the X-Schema-Version of its request, or Idle
          reply         \* device -> the reply on its way: status and row served

table  == <<row, active, createdAt, document>>
device == <<identity, cached, poll, reply>>
vars   == <<row, active, createdAt, document, identity, cached, poll, reply>>

NoReply == [status |-> 0, version |-> NoRow]
Statuses == {200, 304, 400, 500, 503}

TypeOK ==
    /\ row \in [Versions -> Targets \cup {NoRow}]
    /\ active \subseteq {v \in Versions : row[v] # NoRow}
    /\ createdAt \in [Versions -> 0..Cardinality(Versions)]
    /\ document \in [Versions -> Drafts \cup {NoRow}]
    /\ \A v \in Versions : row[v] = NoRow <=> document[v] = NoRow
    /\ identity \in [Devices -> Identities]
    /\ cached \in [Devices -> Versions \cup {NoRow}]
    /\ poll \in [Devices -> SchemaVersions \cup {Idle}]
    /\ reply \in [Devices -> [status : {0} \cup Statuses, version : Versions \cup {NoRow}]]

Init ==
    /\ row = [v \in Versions |-> NoRow]
    /\ active = {}
    /\ createdAt = [v \in Versions |-> 0]
    /\ document = [v \in Versions |-> NoRow]
    /\ identity \in [Devices -> Identities]
    /\ cached = [d \in Devices |-> NoRow]
    /\ poll = [d \in Devices |-> Idle]
    /\ reply = [d \in Devices |-> NoReply]

-----------------------------------------------------------------------------
(* Operators. *)

Rows == {v \in Versions : row[v] # NoRow}

(* stringPtrFromDoc: absent, null, empty and misspelt selectors give NULL.    *)
StringPtrFromDoc(v) == IF NonEmptyString(v) THEN v.text ELSE Null

TargetOf(doc) == [s \in Selectors |-> StringPtrFromDoc(Field(doc, SelectorField[s]))]

(* POST /admin/cert-configs.  A draft that is refused, with 400 for its       *)
(* problems or 409 for its version, changes nothing.                          *)
CreateCertConfig(doc) ==
    /\ CertConfigValid(doc)
    /\ LET v == Field(doc, "configVersion").text
       IN /\ v \notin Rows
          /\ row' = [row EXCEPT ![v] = TargetOf(doc)]
          /\ createdAt' = [createdAt EXCEPT ![v] = Cardinality(Rows) + 1]
          /\ document' = [document EXCEPT ![v] = doc]
    /\ UNCHANGED <<active, device>>

(* Mutant: the number of updated rows is not looked at.                       *)
ActivateUnchecked(v) ==
    /\ active' = {w \in active : row[w] # row[v]} \cup {v}
    /\ UNCHANGED <<row, createdAt, document, device>>

(* Mutant: an activation clears the rows of every target.                     *)
ActivateClearsAll(v) ==
    /\ v \in Rows
    /\ active' = {v}
    /\ UNCHANGED <<row, createdAt, document, device>>

Activate(v) ==
    /\ v \in Rows
    /\ active' = {w \in active : row[w] # row[v]} \cup {v}
    /\ UNCHANGED <<row, createdAt, document, device>>

-----------------------------------------------------------------------------
(* Devices and the handler. *)

Configured(d) == Candidates(row, active, identity[d]) # {}
Resolved(d)   == Resolve(row, active, createdAt, identity[d])

Poll(d, schema) ==
    /\ poll[d] = Idle
    /\ poll' = [poll EXCEPT ![d] = schema]
    /\ UNCHANGED <<table, identity, cached, reply>>

Send(d, status, v) ==
    /\ poll[d] # Idle /\ reply[d] = NoReply
    /\ reply' = [reply EXCEPT ![d] = [status |-> status, version |-> v]]
    /\ UNCHANGED <<table, identity, cached, poll>>

Served(d) == poll[d] # Idle /\ poll[d] >= MinSchemaVersion

(* 400 for an X-Schema-Version below 1.  The 426 for one below                *)
(* minSchemaVersion cannot happen while minSchemaVersion is 1.                *)
RejectSchema(d) == poll[d] # Idle /\ poll[d] < 1 /\ Send(d, 400, NoRow)

(* Mutant: any If-None-Match is answered 304.                                 *)
ETagPresent(d) == cached[d] # NoRow

(* If-None-Match carries the ETag of the cached document, its SHA-256:        *)
(* equal for equal documents only.                                            *)
ETagMatches(d) == cached[d] # NoRow /\ document[cached[d]] = document[Resolved(d)]

Get(d) ==
    /\ Served(d)
    /\ \/ ~Configured(d) /\ Send(d, 503, NoRow)
       \/ Configured(d) /\ ETagMatches(d) /\ Send(d, 304, NoRow)
       \/ Configured(d) /\ ~ETagMatches(d) /\ Send(d, 200, Resolved(d))

GetStoreError(d) == Served(d) /\ Send(d, 500, NoRow)

(* The reply reaches the device, which keeps the document of a 200 and its    *)
(* own otherwise, or it is lost.                                              *)
Done(d) == /\ poll' = [poll EXCEPT ![d] = Idle]
           /\ reply' = [reply EXCEPT ![d] = NoReply]
           /\ UNCHANGED <<table, identity>>

Deliver(d) ==
    /\ reply[d] # NoReply
    /\ cached' = [cached EXCEPT ![d] = IF reply[d].status = 200 THEN reply[d].version ELSE @]
    /\ Done(d)

LoseReply(d) == reply[d] # NoReply /\ UNCHANGED cached /\ Done(d)

-----------------------------------------------------------------------------
Operate == \/ \E doc \in Drafts : CreateCertConfig(doc)
           \/ \E v \in Versions : Activate(v)

Next == \/ Operate
        \/ \E d \in Devices :
               \/ \E schema \in SchemaVersions : Poll(d, schema)
               \/ RejectSchema(d) \/ Get(d) \/ GetStoreError(d)
               \/ Deliver(d) \/ LoseReply(d)

Spec == Init /\ [][Next]_vars

(* A device keeps polling, some polls carry a usable schema version, the      *)
(* handler answers, and neither the store nor the network fails for ever.     *)
Fairness == \A d \in Devices :
    /\ SF_vars(\E schema \in SchemaVersions : schema >= MinSchemaVersion /\ Poll(d, schema))
    /\ WF_vars(RejectSchema(d))
    /\ SF_vars(Get(d))
    /\ SF_vars(Deliver(d) /\ reply[d].status \in {200, 304})
    /\ WF_vars(Deliver(d))

LiveSpec == Spec /\ Fairness

-----------------------------------------------------------------------------
(* Safety: a device that has once been given a configuration is never again   *)
(* told that there is none (503), whatever operators activate.                *)
OnceServedAlwaysServed == \A d \in Devices : cached[d] # NoRow => reply[d].status # 503

(* Safety: a document reaches the devices it is meant for: each selector it   *)
(* names is the device's own.  A selector the columns do not take over, say a *)
(* number, would turn a trial for one model into the default of the fleet.    *)
MeantFor(doc, dev) ==
    \A s \in Selectors :
        LET v == Field(doc, SelectorField[s])
        IN Optional(v) \/ (v.kind = "string" /\ (v.bytes = 0 \/ v.text = dev[s]))

DeliveredAsMeant ==
    \A d \in Devices : cached[d] # NoRow => MeantFor(document[cached[d]], identity[d])

(* Safety: on the scales of a document a device keeps, each named band is the *)
(* verdict on some reading ("without it the boundary semantics are nonsense", *)
(* admin.go), and the tests it asks for open a stream and play for a while.   *)
Verdict(o, x, top, mid, low) ==
    CASE 10 * x >= Field(o, top).tenths -> "excellent"
      [] 10 * x < Field(o, top).tenths /\ 10 * x >= Field(o, mid).tenths -> "strong"
      [] 10 * x < Field(o, mid).tenths /\ 10 * x >= Field(o, low).tenths -> "good"
      [] OTHER -> "poor"

BandsReachable(o, readings, top, mid, low) ==
    IsObject(o) => \A band \in {"excellent", "strong", "good"} :
                       \E x \in readings : Verdict(o, x, top, mid, low) = band

Usable(doc) ==
    /\ BandsReachable(Field(doc, "wifiLinkQuality"), -100..0,
                      "excellentRssiMin", "strongRssiMin", "goodRssiMin")
    /\ BandsReachable(Field(doc, "healthAssessment"), 1..100,
                      "excellentMin", "strongMin", "goodMin")
    /\ LET tests == Field(doc, "tests")
       IN /\ \A t \in {"download", "upload"} : Field(Field(tests, t), "parallel").tenths >= 10
          /\ Field(Field(tests, "playback"), "durationSec").tenths > 0

DeliveredUsable == \A d \in Devices : cached[d] # NoRow => Usable(document[cached[d]])

(* What the comment on killswitch says: "When present, must be an object with *)
(* a boolean enabled ... Reject the whole config" (admin.go).                 *)
KillswitchUnambiguous ==
    \A v \in Rows : LET k == Field(document[v], "killswitch")
                    IN Optional(k) \/ (IsObject(k) /\ Field(k, "enabled").kind = "bool")

(* Safety: a device only ever moves to another row of the same target, or to  *)
(* a more specific one: activating a new default does not take a device away  *)
(* from a row that targets it.                                                *)
SpecificityNeverDrops ==
    [][\A d \in Devices :
          LET old == row[cached[d]]
              new == row[cached'[d]]
          IN cached[d] # NoRow => new = old \/ Rank(new) > Rank(old)]_vars

(* Liveness: once operators stop, every polling device ends up with the row   *)
(* that resolves for it, across lost replies, cached ETags and errors.        *)
DevicesConverge ==
    <>[][UNCHANGED table]_vars =>
        \A d \in Devices : <>[](Configured(d) => cached[d] = Resolved(d))
=============================================================================
