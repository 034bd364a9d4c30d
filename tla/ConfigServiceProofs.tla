------------------------- MODULE ConfigServiceProofs -------------------------
(* ConfigService implements ConfigDelivery: what devices see of the admin     *)
(* requests is one atomic step each.                                          *)
EXTENDS ConfigService, CertConfigStoreProofs

(* What the document column is made of is what operators may submit.          *)
PostedInv == posted \in [Versions -> Docs \cup {NoRow}]

ServiceInv == IndInv /\ PostedInv

(* Lemma: the columns that CertConfigStore writes are those that the handler  *)
(* takes from the JSON object.                                                *)
LEMMA ColumnsFromJson ==
    ASSUME NEW v \in Versions, NEW d \in Docs
    PROVE  Delivery!TargetOf(JsonOf(v, d)) = StoredTarget(d)
<1>1. ASSUME NEW s \in Selectors
      PROVE  Delivery!StringPtrFromDoc(Delivery!Field(JsonOf(v, d), Delivery!SelectorField[s]))
             = IF d[s] = Empty THEN Null ELSE d[s]
  <2>1. d[s] \in Values \cup {Null, Empty} /\ Null # Empty /\ Null \notin Values
        /\ Empty \notin Values
    BY StoreAssumption
  <2>2. LET x == Delivery!Field(JsonOf(v, d), Delivery!SelectorField[s])
        IN /\ d[s] = Null  => Delivery!Optional(x)
           /\ d[s] = Empty => x.kind = "string" /\ x.bytes = 0
           /\ d[s] \in Values => Delivery!NonEmptyString(x) /\ x.text = d[s]
    BY ServiceAssumption
  <2>. DEFINE x == Delivery!Field(JsonOf(v, d), Delivery!SelectorField[s])
  <2>3. /\ d[s] = Null  => Delivery!Optional(x)
        /\ d[s] = Empty => x.kind = "string" /\ x.bytes = 0
        /\ d[s] \in Values => Delivery!NonEmptyString(x) /\ x.text = d[s]
    BY <2>2
  <2>. HIDE DEF x
  <2>4. Delivery!StringPtrFromDoc(x) = IF d[s] = Empty THEN Null ELSE d[s]
    BY <2>1, <2>3 DEF Delivery!StringPtrFromDoc, Delivery!NonEmptyString, Delivery!Optional
  <2>. QED BY <2>4 DEF x
<1>2. Delivery!Selectors = Selectors
  BY DEF Delivery!Selectors, Selectors
<1>. QED BY <1>1, <1>2 DEF Delivery!TargetOf, StoredTarget

-----------------------------------------------------------------------------
(* Lemma: initial states map to initial states. *)
LEMMA ServiceInitRefines == ServiceInit => ServiceInv /\ Delivery!Init
<1>1. ServiceInit => IndInv
  BY InitIndInv DEF ServiceInit
<1>2. ServiceInit => PostedInv
  BY DEF ServiceInit, PostedInv
<1>3. ServiceInit => Delivery!Init
  BY DEF ServiceInit, Init, Delivery!Init, DocumentColumn
<1>. QED BY <1>1, <1>2, <1>3 DEF ServiceInv

(* Lemma: a service step is a store step or leaves the store alone.           *)
LEMMA ServiceStepsStore == [ServiceNext]_serviceVars => [Next]_vars
BY DEF ServiceNext, serviceVars, Admin, Device, Next

(* Lemma: only an insert and a commit change what is committed.               *)
LEMMA AdminTable ==
    ASSUME NEW r \in Requests, Admin(r)
    PROVE  UNCHANGED table \/ Insert(r) \/ Commit(r)
BY DEF Admin, Serve, CreateCertConfig, ActivateCertConfig, Receive, InsertConflict,
       ClearSameGroup, ClearRow, SetActive, SetMissing, EnterIndex, UniqueViolation,
       DeadlockDetected, ReadBack, StoreError, Rollback, Answer, table

(* Lemma: an insert is of a document that operators may submit, as a row that *)
(* was not there.                                                             *)
LEMMA InsertPosts ==
    ASSUME IndInv, NEW r \in Requests, Insert(r)
    PROVE  /\ Version(r) \in Versions /\ asks[r].doc \in Docs
           /\ row[Version(r)] = NoRow /\ row' # row /\ active' = active
           /\ row' = [row EXCEPT ![Version(r)] = StoredTarget(asks[r].doc)]
<1>1. asks[r].op = "create"
  BY DEF IndInv, PhaseInv, Insert
<1>2. Version(r) \in Versions /\ asks[r].doc \in Docs
  BY <1>1 DEF IndInv, TypeOK, Nothing, Version
<1>3. StoredTarget(asks[r].doc) # NoRow
  BY <1>2, StoredTargetType, StoreAssumption
<1>4. row' = [row EXCEPT ![Version(r)] = StoredTarget(asks[r].doc)] /\ row[Version(r)] = NoRow
      /\ active' = active
  BY DEF Insert
<1>5. row'[Version(r)] # row[Version(r)]
  BY <1>2, <1>3, <1>4 DEF IndInv, TypeOK
<1>. QED BY <1>2, <1>4, <1>5

(* Lemma: the insert statement is ConfigDelivery's CreateCertConfig.          *)
LEMMA InsertCreates ==
    ASSUME ServiceInv, NEW r \in Requests, Admin(r), Insert(r)
    PROVE  PostedInv' /\ Delivery!Operate
<1>. DEFINE v == Version(r)
            d == asks[r].doc
<1>1. /\ v \in Versions /\ d \in Docs /\ row[v] = NoRow /\ row' # row /\ active' = active
      /\ row' = [row EXCEPT ![v] = StoredTarget(d)]
  BY InsertPosts DEF ServiceInv
<1>2. /\ createdAt' = [createdAt EXCEPT ![v] = Cardinality(Delivery!Rows) + 1]
      /\ posted' = [posted EXCEPT ![v] = d]
      /\ UNCHANGED device
  BY <1>1 DEF Admin, InsertRest
<1>3. PostedInv'
  BY <1>1, <1>2 DEF ServiceInv, PostedInv
<1>4. /\ Delivery!CertConfigValid(JsonOf(v, d))
      /\ Delivery!Field(JsonOf(v, d), "configVersion").text = v
      /\ Delivery!TargetOf(JsonOf(v, d)) = StoredTarget(d)
  BY <1>1, ServiceAssumption, ColumnsFromJson
<1>5. DocumentColumn' = [DocumentColumn EXCEPT ![v] = JsonOf(v, d)]
  <2>1. posted' \in [Versions -> Docs \cup {NoRow}] /\ posted'[v] = d /\ d # NoRow
    BY <1>1, <1>2, <1>3, ServiceAssumption DEF ServiceInv, PostedInv
  <2>2. \A w \in Versions : w # v => posted'[w] = posted[w]
    BY <1>2 DEF ServiceInv, PostedInv
  <2>3. DocumentColumn' = [w \in Versions |-> IF posted'[w] = NoRow THEN NoRow
                                              ELSE JsonOf(w, posted'[w])]
    BY DEF DocumentColumn
  <2>4. \A w \in Versions : DocumentColumn'[w] = IF w = v THEN JsonOf(v, d) ELSE DocumentColumn[w]
    BY <2>1, <2>2, <2>3 DEF DocumentColumn
  <2>. QED BY <2>3, <2>4 DEF DocumentColumn
<1>6. v \notin Delivery!Rows
  BY <1>1 DEF Delivery!Rows
<1>7. UNCHANGED <<active, Delivery!device>>
  BY <1>1, <1>2 DEF device, Delivery!device
<1>8. Delivery!CreateCertConfig(JsonOf(v, d))
  <2>. DEFINE doc == JsonOf(v, d)
  <2>1. /\ row' = [row EXCEPT ![v] = Delivery!TargetOf(doc)]
        /\ createdAt' = [createdAt EXCEPT ![v] = Cardinality(Delivery!Rows) + 1]
        /\ DocumentColumn' = [DocumentColumn EXCEPT ![v] = doc]
        /\ Delivery!CertConfigValid(doc) /\ Delivery!Field(doc, "configVersion").text = v
    BY <1>1, <1>2, <1>4, <1>5
  <2>2. Delivery!Cardinality(Delivery!Rows) = Cardinality(Delivery!Rows)
    BY DEF Cardinality, Delivery!Cardinality, IsFiniteSet, Delivery!IsFiniteSet
  <2>3. ASSUME NEW json, NEW w, Delivery!Field(json, "configVersion").text = w,
               Delivery!CertConfigValid(json), w \notin Delivery!Rows,
               row' = [row EXCEPT ![w] = Delivery!TargetOf(json)],
               createdAt' = [createdAt EXCEPT ![w] = Delivery!Cardinality(Delivery!Rows) + 1],
               DocumentColumn' = [DocumentColumn EXCEPT ![w] = json]
        PROVE  Delivery!CreateCertConfig(json)
    BY <1>7, <2>3 DEF Delivery!CreateCertConfig
  <2>. QED BY <1>6, <2>1, <2>2, <2>3
<1>. QED BY <1>1, <1>3, <1>8 DEF Delivery!Operate

(* Lemma: the commit is ConfigDelivery's Activate. *)
LEMMA CommitActivates ==
    ASSUME ServiceInv, NEW r \in Requests, Admin(r), Commit(r)
    PROVE  PostedInv' /\ Delivery!Operate
<1>1. /\ row' = row /\ row[Version(r)] # NoRow
      /\ active' = {w \in active : row[w] # row[Version(r)]} \cup {Version(r)}
  BY CommitSwaps DEF ServiceInv
<1>2. Version(r) \in Versions
  BY DEF ServiceInv, IndInv, TypeOK, PhaseInv, Version, Nothing, Commit
<1>3. UNCHANGED <<createdAt, posted, device>>
  BY <1>1 DEF Admin
<1>4. PostedInv' /\ DocumentColumn' = DocumentColumn
  BY <1>3 DEF ServiceInv, PostedInv, DocumentColumn
<1>5. Delivery!Activate(Version(r))
  BY <1>1, <1>2, <1>3, <1>4 DEF Delivery!Activate, Delivery!Rows, device, Delivery!device
<1>. QED BY <1>2, <1>4, <1>5 DEF Delivery!Operate

(* Theorem: whatever statements of concurrent admin requests interleave with  *)
(* the polls, devices see creations and activations that are each one step.   *)
THEOREM ServiceRefinement == ServiceSpec => ImplementsDelivery
<1>1. ASSUME ServiceInv, [ServiceNext]_serviceVars
      PROVE  ServiceInv' /\ [Delivery!Next]_(Delivery!vars)
  <2>1. IndInv'
    BY <1>1, ServiceStepsStore, NextIndInv DEF ServiceInv
  <2>2. CASE UNCHANGED <<table, createdAt, posted, device>>
    BY <1>1, <2>1, <2>2
       DEF ServiceInv, PostedInv, table, device, DocumentColumn, Delivery!vars
  <2>3. ASSUME NEW r \in Requests, Admin(r)
        PROVE  PostedInv' /\ [Delivery!Next]_(Delivery!vars)
    <3>1. CASE Insert(r)
      BY <1>1, <2>3, <3>1, InsertCreates DEF Delivery!Next
    <3>2. CASE Commit(r)
      BY <1>1, <2>3, <3>2, CommitActivates DEF Delivery!Next
    <3>3. CASE UNCHANGED table
      <4>1. UNCHANGED <<row, active, createdAt, posted, device>>
        BY <2>3, <3>3 DEF Admin, table
      <4>. QED BY <1>1, <4>1
               DEF ServiceInv, PostedInv, device, DocumentColumn, Delivery!vars
    <3>. QED BY <2>3, <3>1, <3>2, <3>3, AdminTable
  <2>4. ASSUME NEW d \in Devices, Device(d)
        PROVE  PostedInv' /\ Delivery!Next
    <3>1. posted' = posted
      BY <2>4 DEF Device
    <3>2. PostedInv'
      BY <1>1, <3>1 DEF ServiceInv, PostedInv
    <3>. QED BY <2>4, <3>2 DEF Device, Delivery!Next
  <2>. QED BY <1>1, <2>1, <2>2, <2>3, <2>4
           DEF ServiceNext, serviceVars, vars, table, ServiceInv
<1>. QED BY <1>1, ServiceInitRefines, PTL DEF ServiceSpec, ImplementsDelivery, Delivery!Spec

-----------------------------------------------------------------------------
(* What is shown of ConfigDelivery, for the service.                          *)
Proved == INSTANCE ConfigDeliveryProofs
              WITH document <- DocumentColumn,
                   Drafts <- {JsonOf(v, d) : v \in Versions, d \in Docs}

(* Lemma: both instances of ConfigDelivery let the same documents through.    *)
LEMMA SameValidation == \A doc : Proved!CertConfigValid(doc) <=> Delivery!CertConfigValid(doc)
BY DEF Proved!Absent, Delivery!Absent, Proved!Field, Delivery!Field, Proved!Optional,
       Delivery!Optional, Proved!IsObject, Delivery!IsObject, Proved!NonEmptyString,
       Delivery!NonEmptyString, Proved!ShortString, Delivery!ShortString,
       Proved!NonEmptyArray, Delivery!NonEmptyArray, Proved!Integer, Delivery!Integer,
       Proved!Positive, Delivery!Positive, Proved!IntRange, Delivery!IntRange,
       Proved!Fraction, Delivery!Fraction, Proved!Descending, Delivery!Descending,
       Proved!SelectorField, Delivery!SelectorField, Proved!SelectorLenient,
       Delivery!SelectorLenient, Proved!SelectorValid, Delivery!SelectorValid,
       Proved!DnsPolicyValid, Delivery!DnsPolicyValid, Proved!ThroughputValid,
       Delivery!ThroughputValid, Proved!TestsValid, Delivery!TestsValid, Proved!WifiValid,
       Delivery!WifiValid, Proved!HealthValid, Delivery!HealthValid,
       Proved!KillswitchValid, Delivery!KillswitchValid, Proved!CertConfigValid,
       Delivery!CertConfigValid, Proved!Digest, Delivery!Digest

(* Lemma: and resolve devices alike.                                          *)
LEMMA SameResolution ==
    \A d : /\ Proved!Configured(d) <=> Delivery!Configured(d)
           /\ Proved!Resolved(d) = Delivery!Resolved(d)
BY DEF Proved!Configured, Delivery!Configured, Proved!Resolved, Delivery!Resolved,
       Proved!Resolve, Delivery!Resolve, Proved!Best, Delivery!Best, Proved!Candidates,
       Delivery!Candidates, Proved!Matches, Delivery!Matches, Proved!Rank, Delivery!Rank,
       Proved!Selectors, Delivery!Selectors

(* Lemma: and count alike.                                                    *)
LEMMA SameCardinality ==
    /\ \A S : Proved!Cardinality(S) = Delivery!Cardinality(S)
    /\ \A S : Proved!IsFiniteSet(S) <=> IsFiniteSet(S)
BY DEF Proved!Cardinality, Delivery!Cardinality, Proved!IsFiniteSet, Delivery!IsFiniteSet,
       IsFiniteSet

(* Lemma: and take the same steps.                                            *)
LEMMA SameSpec == Delivery!Spec => Proved!Spec
<1>1. Delivery!Init => Proved!Init
  BY DEF Proved!Init, Delivery!Init, Proved!NoReply, Delivery!NoReply
<1>2. Delivery!Operate => Proved!Operate
  <2>1. /\ \A doc : Proved!TargetOf(doc) = Delivery!TargetOf(doc)
        /\ \A doc, key : Proved!Field(doc, key) = Delivery!Field(doc, key)
    BY DEF Proved!TargetOf, Delivery!TargetOf, Proved!StringPtrFromDoc,
           Delivery!StringPtrFromDoc, Proved!NonEmptyString, Delivery!NonEmptyString,
           Proved!Field, Delivery!Field, Proved!Absent, Delivery!Absent, Proved!Selectors,
           Delivery!Selectors, Proved!SelectorField, Delivery!SelectorField
  <2>2. Proved!Rows = Delivery!Rows /\ Proved!device = Delivery!device
        /\ (Proved!device)' = (Delivery!device)'
    BY DEF Proved!Rows, Delivery!Rows, Proved!device, Delivery!device
  <2>3. ASSUME NEW doc, Delivery!CreateCertConfig(doc)
        PROVE  Proved!CreateCertConfig(doc)
    BY <2>1, <2>2, <2>3, SameValidation, SameCardinality
       DEF Proved!CreateCertConfig, Delivery!CreateCertConfig
  <2>4. ASSUME NEW v, Delivery!Activate(v)
        PROVE  Proved!Activate(v)
    BY <2>2, <2>4 DEF Proved!Activate, Delivery!Activate
  <2>. QED BY <2>3, <2>4 DEF Proved!Operate, Delivery!Operate
<1>3. ASSUME NEW d \in Devices
      PROVE  /\ \A schema : Delivery!Poll(d, schema) => Proved!Poll(d, schema)
             /\ Delivery!RejectSchema(d) => Proved!RejectSchema(d)
             /\ Delivery!Get(d) => Proved!Get(d)
             /\ Delivery!GetStoreError(d) => Proved!GetStoreError(d)
             /\ Delivery!Deliver(d) => Proved!Deliver(d)
             /\ Delivery!LoseReply(d) => Proved!LoseReply(d)
  BY SameResolution
     DEF Proved!Poll, Delivery!Poll, Proved!RejectSchema, Delivery!RejectSchema,
         Proved!Get, Delivery!Get, Proved!GetStoreError, Delivery!GetStoreError,
         Proved!Deliver, Delivery!Deliver, Proved!LoseReply, Delivery!LoseReply,
         Proved!Send, Delivery!Send, Proved!Served, Delivery!Served,
         Proved!MinSchemaVersion, Delivery!MinSchemaVersion, Proved!ETagMatches,
         Delivery!ETagMatches, Proved!Done, Delivery!Done, Proved!NoReply,
         Delivery!NoReply, Proved!table, Delivery!table
<1>4. Delivery!Next => Proved!Next
  <2>1. ASSUME NEW d \in Devices,
               \/ \E schema \in SchemaVersions : Delivery!Poll(d, schema)
               \/ Delivery!RejectSchema(d) \/ Delivery!Get(d) \/ Delivery!GetStoreError(d)
               \/ Delivery!Deliver(d) \/ Delivery!LoseReply(d)
        PROVE  \/ \E schema \in SchemaVersions : Proved!Poll(d, schema)
               \/ Proved!RejectSchema(d) \/ Proved!Get(d) \/ Proved!GetStoreError(d)
               \/ Proved!Deliver(d) \/ Proved!LoseReply(d)
    BY <1>3, <2>1
  <2>. QED BY <1>2, <2>1 DEF Delivery!Next, Proved!Next
<1>5. Delivery!vars = Proved!vars /\ (Delivery!vars)' = (Proved!vars)'
  BY DEF Delivery!vars, Proved!vars
<1>6. [Delivery!Next]_(Delivery!vars) => [Proved!Next]_(Proved!vars)
  BY <1>4, <1>5
<1>. QED BY <1>1, <1>6, PTL DEF Delivery!Spec, Proved!Spec

(* Lemma: ConfigDelivery's assumptions hold of the documents of the service.  *)
LEMMA DeliveryAssumptions ==
    LET drafts == {JsonOf(v, d) : v \in Versions, d \in Docs}
    IN /\ Null # Empty /\ Null \notin Values /\ Empty \notin Values
       /\ Proved!IsFiniteSet(Versions) /\ Identities \subseteq Proved!DeviceTargets
       /\ SchemaVersions \subseteq Nat /\ Idle \notin Nat
       /\ NoRow \notin Proved!Targets \cup Versions \cup drafts
       /\ \A doc \in drafts : Proved!WellWritten(doc)
<1>1. Null # Empty /\ Null \notin Values /\ Empty \notin Values /\ NoRow \notin Targets
  BY StoreAssumption
<1>2. Proved!Targets = Targets
  BY DEF Proved!Targets, Targets, Proved!Selectors, Selectors
<1>3. Proved!DeviceTargets = Delivery!DeviceTargets
  BY DEF Proved!DeviceTargets, Delivery!DeviceTargets, Proved!Selectors, Delivery!Selectors
<1>4. \A doc : Proved!WellWritten(doc) <=> Delivery!WellWritten(doc)
  BY DEF Proved!WellWritten, Delivery!WellWritten, Proved!Field, Delivery!Field,
         Proved!Absent, Delivery!Absent, Proved!NonEmptyString, Delivery!NonEmptyString,
         Proved!Selectors, Delivery!Selectors, Proved!SelectorField, Delivery!SelectorField,
         Proved!WholeNumbers, Delivery!WholeNumbers, Proved!IsObject, Delivery!IsObject,
         Proved!Integral, Delivery!Integral, Proved!Integer, Delivery!Integer
<1>. QED BY <1>1, <1>2, <1>3, <1>4, SameCardinality, ServiceAssumption

(* Theorem: what ConfigDelivery promises to devices holds when the admin      *)
(* requests are the concurrent transactions they are: a device once served is *)
(* never told that there is nothing, keeps only documents that are meant for  *)
(* it and usable, and never steps down.                                       *)
THEOREM DevicesServed ==
    ServiceSpec => /\ []Delivery!OnceServedAlwaysServed
                   /\ []Delivery!DeliveredAsMeant
                   /\ []Delivery!DeliveredUsable
                   /\ Delivery!SpecificityNeverDrops
<1>1. Proved!Spec => []Proved!OnceServedAlwaysServed
  BY Proved!NoGapInService, DeliveryAssumptions
<1>2. Proved!Spec => []Proved!DeliveredAsMeant
  BY Proved!OnlyMeantDevices, DeliveryAssumptions
<1>3. Proved!Spec => []Proved!DeliveredUsable
  BY Proved!OnlyUsableDocuments, DeliveryAssumptions
<1>4. Proved!Spec => Proved!SpecificityNeverDrops
  BY Proved!NoStepDown, DeliveryAssumptions
<1>5. ServiceSpec => Proved!Spec
  BY ServiceRefinement, SameSpec, PTL DEF ImplementsDelivery
<1>6. Proved!OnceServedAlwaysServed => Delivery!OnceServedAlwaysServed
  BY DEF Proved!OnceServedAlwaysServed, Delivery!OnceServedAlwaysServed
<1>7. Proved!DeliveredAsMeant => Delivery!DeliveredAsMeant
  BY DEF Proved!DeliveredAsMeant, Delivery!DeliveredAsMeant, Proved!MeantFor,
         Delivery!MeantFor, Proved!Field, Delivery!Field, Proved!Absent, Delivery!Absent,
         Proved!Optional, Delivery!Optional, Proved!Selectors, Delivery!Selectors,
         Proved!SelectorField, Delivery!SelectorField
<1>8. Proved!DeliveredUsable => Delivery!DeliveredUsable
  BY DEF Proved!DeliveredUsable, Delivery!DeliveredUsable, Proved!Usable, Delivery!Usable,
         Proved!BandsReachable, Delivery!BandsReachable, Proved!Verdict, Delivery!Verdict,
         Proved!Field, Delivery!Field, Proved!Absent, Delivery!Absent, Proved!IsObject,
         Delivery!IsObject
<1>9. Proved!SpecificityNeverDrops => Delivery!SpecificityNeverDrops
  <2>. DEFINE old(d) == row[cached[d]]
              new(d) == row[cached'[d]]
  <2>1. \A t : Proved!Rank(t) = Delivery!Rank(t)
    BY DEF Proved!Rank, Delivery!Rank
  <2>2. Proved!vars = Delivery!vars /\ (Proved!vars)' = (Delivery!vars)'
    BY DEF Proved!vars, Delivery!vars
  <2>3. [\A d \in Devices : cached[d] # NoRow =>
             new(d) = old(d) \/ Proved!Rank(new(d)) > Proved!Rank(old(d))]_(Proved!vars)
        => [\A d \in Devices : cached[d] # NoRow =>
             new(d) = old(d) \/ Delivery!Rank(new(d)) > Delivery!Rank(old(d))]_(Delivery!vars)
    BY <2>1, <2>2
  <2>. QED BY <2>3, PTL DEF Proved!SpecificityNeverDrops, Delivery!SpecificityNeverDrops
<1>. QED BY <1>1, <1>2, <1>3, <1>4, <1>5, <1>6, <1>7, <1>8, <1>9, PTL
=============================================================================
