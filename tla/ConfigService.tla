---------------------------- MODULE ConfigService ----------------------------
(* The service as a whole, as far as cert_config goes: devices poll           *)
(* GET /v1/cert-config (ConfigDelivery) against a table whose rows operators  *)
(* create and activate in several statements each (CertConfigStore).  A       *)
(* device's query reads the committed rows, between any two statements.       *)
EXTENDS CertConfigStore

CONSTANTS Devices, Identities, SchemaVersions, Idle,   \* as in ConfigDelivery
          JsonOf(_, _)   \* the JSON object an operator posts: version and selectors

VARIABLES createdAt,     \* version -> creation order
          posted,        \* version -> the selectors as posted, or NoRow
          identity, cached, poll, reply   \* as in ConfigDelivery

device      == <<identity, cached, poll, reply>>
serviceVars == <<vars, createdAt, posted, device>>

(* The document column, as JSON. *)
DocumentColumn ==
    [v \in Versions |-> IF posted[v] = NoRow THEN NoRow ELSE JsonOf(v, posted[v])]

Delivery == INSTANCE ConfigDelivery
                WITH document <- DocumentColumn,
                     Drafts <- {JsonOf(v, d) : v \in Versions, d \in Docs}

(* Requests that get as far as the store carry what the validation let        *)
(* through; their selectors are those of the JSON object, as a Go map has     *)
(* them: null or missing, empty, or with a text.                              *)
ASSUME ServiceAssumption ==
    /\ IsFiniteSet(Versions)
    /\ Identities \subseteq Delivery!DeviceTargets
    /\ SchemaVersions \subseteq Nat /\ Idle \notin Nat
    /\ NoRow \notin Versions \cup Docs
    /\ \A v \in Versions, d \in Docs :
           /\ NoRow # JsonOf(v, d)
           /\ Delivery!CertConfigValid(JsonOf(v, d)) /\ Delivery!WellWritten(JsonOf(v, d))
           /\ Delivery!Field(JsonOf(v, d), "configVersion").text = v
           /\ \A s \in Selectors :
                  LET x == Delivery!Field(JsonOf(v, d), Delivery!SelectorField[s])
                  IN /\ d[s] = Null  => Delivery!Optional(x)
                     /\ d[s] = Empty => x.kind = "string" /\ x.bytes = 0
                     /\ d[s] \in Values => Delivery!NonEmptyString(x) /\ x.text = d[s]

-----------------------------------------------------------------------------
ServiceInit ==
    /\ Init
    /\ createdAt = [v \in Versions |-> 0]
    /\ posted = [v \in Versions |-> NoRow]
    /\ identity \in [Devices -> Identities]
    /\ cached = [d \in Devices |-> NoRow]
    /\ poll = [d \in Devices |-> Idle]
    /\ reply = [d \in Devices |-> Delivery!NoReply]

(* The columns of an insert that CertConfigStore leaves out. *)
InsertRest(r) ==
    LET v == Version(r)
    IN /\ createdAt' = [createdAt EXCEPT ![v] = Cardinality(Delivery!Rows) + 1]
       /\ posted' = [posted EXCEPT ![v] = asks[r].doc]

(* One step of an admin request. *)
Admin(r) ==
    /\ \/ CreateCertConfig(r) \/ ActivateCertConfig(r)
       \/ Serve(r) \/ DeadlockDetected(r) \/ StoreError(r)
    /\ IF row' = row THEN UNCHANGED <<createdAt, posted>> ELSE InsertRest(r)
    /\ UNCHANGED device

(* One step of a device, its query included. *)
Device(d) ==
    /\ UNCHANGED <<vars, createdAt, posted>>
    /\ \/ \E schema \in SchemaVersions : Delivery!Poll(d, schema)
       \/ Delivery!Get(d) \/ Delivery!GetStoreError(d)
       \/ Delivery!Deliver(d) \/ Delivery!LoseReply(d)

ServiceNext == (\E r \in Requests : Admin(r)) \/ \E d \in Devices : Device(d)

(* Fairness on the admin side only: requests end whatever devices do. *)
ServiceSpec ==
    ServiceInit /\ [][ServiceNext]_serviceVars
        /\ \A r \in Requests :
               /\ SF_serviceVars(Serve(r) /\ Admin(r))
               /\ WF_serviceVars(DeadlockDetected(r) /\ Admin(r))

-----------------------------------------------------------------------------
(* Safety: to devices each admin request is one step.  A poll that falls      *)
(* between two statements of an activation, or next to one that rolls back,   *)
(* sees the table before or after it; the columns hold what the document      *)
(* says.                                                                      *)
ImplementsDelivery == Delivery!Spec
=============================================================================
