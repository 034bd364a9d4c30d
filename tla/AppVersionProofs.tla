--------------------------- MODULE AppVersionProofs ---------------------------
(* Theorems about AppVersionStore, and about the fleet that polls it in       *)
(* AppVersionDelivery, for any version codes, requests, devices and drafts.   *)
EXTENDS AppVersionDelivery, TLAPS

(* The inductive invariant, part by part. *)

(* What each phase knows about its request. *)
PhaseInv == \A r \in Requests :
    /\ phase[r] # "idle" => code[r] \in Codes
    /\ phase[r] \in {"enter", "ready", "committed"} => code[r] \in rows
    /\ phase[r] # "clear" => todo[r] = {}
    /\ phase[r] \notin {"clear", "enter", "ready"} => cleared[r] = {}

(* What a transaction has cleared is still active for everyone else.          *)
ClearInv == \A r \in Requests : cleared[r] \subseteq active

(* No row is locked by two open transactions. *)
LocksExclusive == \A r, q \in Requests : r # q => Holds(r) \cap Holds(q) = {}

(* A transaction ready to commit has the only entry of the unique index.      *)
ReadyOwnsKey == \A r \in Requests :
    phase[r] = "ready" => Rivals(r) = {} /\ OpenRivals(r) = {}

IndInv == /\ TypeOK /\ PhaseInv /\ ClearInv /\ LocksExclusive /\ ReadyOwnsKey
          /\ OneActiveManifest

(* Lemma: Init establishes the inductive invariant. *)
LEMMA InitIndInv == Init => IndInv
BY DEF Init, IndInv, TypeOK, Phases, PhaseInv, ClearInv, LocksExclusive, Holds, ReadyOwnsKey,
       OneActiveManifest

-----------------------------------------------------------------------------
(* The actions preserve the inductive invariant. *)

(* Lemma: a request that arrives touches neither rows nor locks.              *)
LEMMA ReceiveStep ==
    ASSUME IndInv, NEW r \in Requests, NEW p \in {"create", "activate"}, Receive(r, p)
    PROVE  IndInv'
<1>. USE DEF Receive, Goto, table, tx
<1>1. TypeOK' /\ PhaseInv'
  BY DEF IndInv, TypeOK, Phases, PhaseInv
<1>2. ClearInv' /\ OneActiveManifest'
  BY DEF IndInv, ClearInv, OneActiveManifest
<1>3. LocksExclusive'
  BY DEF IndInv, TypeOK, LocksExclusive, Holds
<1>4. ReadyOwnsKey'
  BY DEF IndInv, TypeOK, ReadyOwnsKey, Rivals, OpenRivals
<1>. QED BY <1>1, <1>2, <1>3, <1>4 DEF IndInv

(* Lemma: a request that ends leaves the table alone and gives up its locks.  *)
LEMMA ReleaseStep ==
    ASSUME IndInv, NEW r \in Requests, Release(r), UNCHANGED table,
           resp' \in [Requests -> {0, 200, 201, 404, 409, 500}]
    PROVE  IndInv'
<1>. USE DEF Release, Goto, table
<1>1. TypeOK'
  BY DEF IndInv, TypeOK, Phases
<1>2. PhaseInv'
  BY DEF IndInv, TypeOK, PhaseInv
<1>3. ClearInv' /\ OneActiveManifest'
  BY DEF IndInv, TypeOK, ClearInv, OneActiveManifest
<1>4. LocksExclusive'
  BY DEF IndInv, TypeOK, LocksExclusive, Holds
<1>5. ReadyOwnsKey'
  BY DEF IndInv, TypeOK, ReadyOwnsKey, Rivals, OpenRivals
<1>. QED BY <1>1, <1>2, <1>3, <1>4, <1>5 DEF IndInv

(* Lemma: every refusal and failure, and the final answer, end the request.   *)
LEMMA EndingStep ==
    ASSUME IndInv, NEW r \in Requests,
           \/ InsertConflict(r) \/ InsertTooLarge(r) \/ SetMissing(r) \/ UniqueViolation(r)
           \/ DeadlockDetected(r) \/ ReadBack(r) \/ Rollback(r)
    PROVE  IndInv'
<1>1. CASE Rollback(r)
  BY <1>1, ReleaseStep DEF IndInv, TypeOK, Rollback
<1>2. ASSUME NEW c \in {200, 201, 404, 409, 500}, Answer(r, c) PROVE IndInv'
  BY <1>2, ReleaseStep DEF IndInv, TypeOK, Answer
<1>. QED BY <1>1, <1>2 DEF InsertConflict, InsertTooLarge, SetMissing, UniqueViolation,
                           DeadlockDetected, ReadBack

(* Lemma: an insert adds a row that is not active. *)
LEMMA InsertStep ==
    ASSUME IndInv, NEW r \in Requests, Insert(r)
    PROVE  IndInv'
<1>. USE DEF Insert, Goto, Release, tx
<1>1. TypeOK'
  BY DEF IndInv, TypeOK, Phases, PhaseInv
<1>2. PhaseInv'
  BY DEF IndInv, TypeOK, PhaseInv
<1>3. ClearInv' /\ OneActiveManifest'
  BY DEF IndInv, TypeOK, ClearInv, OneActiveManifest
<1>4. LocksExclusive'
  BY DEF IndInv, TypeOK, LocksExclusive, Holds
<1>5. ReadyOwnsKey'
  BY DEF IndInv, TypeOK, ReadyOwnsKey, Rivals, OpenRivals
<1>. QED BY <1>1, <1>2, <1>3, <1>4, <1>5 DEF IndInv

(* Lemma: the clear statement aims at the rows that are active now.           *)
LEMMA ClearActiveStep ==
    ASSUME IndInv, NEW r \in Requests, ClearActive(r)
    PROVE  IndInv'
<1>. USE DEF ClearActive, Goto, table
<1>1. TypeOK' /\ PhaseInv'
  BY DEF IndInv, TypeOK, Phases, PhaseInv
<1>2. ClearInv' /\ OneActiveManifest'
  BY DEF IndInv, ClearInv, OneActiveManifest
<1>3. LocksExclusive'
  BY DEF IndInv, TypeOK, LocksExclusive, Holds
<1>4. ReadyOwnsKey'
  BY DEF IndInv, TypeOK, ReadyOwnsKey, Rivals, OpenRivals
<1>. QED BY <1>1, <1>2, <1>3, <1>4 DEF IndInv

(* Lemma: a visited row is locked, and cleared only if still active.          *)
LEMMA ClearRowStep ==
    ASSUME IndInv, NEW r \in Requests, NEW c \in Codes, ClearRow(r, c)
    PROVE  IndInv'
<1>. USE DEF ClearRow, table
<1>1. TypeOK' /\ PhaseInv'
  BY DEF IndInv, TypeOK, PhaseInv
<1>2. ClearInv' /\ OneActiveManifest'
  BY DEF IndInv, TypeOK, ClearInv, OneActiveManifest
<1>3. LocksExclusive'
  BY DEF IndInv, TypeOK, LocksExclusive, Holds, Locked
<1>4. ReadyOwnsKey'
  BY DEF IndInv, TypeOK, ReadyOwnsKey, Rivals, OpenRivals
<1>. QED BY <1>1, <1>2, <1>3, <1>4 DEF IndInv

(* Lemma: a row that stays active and unlocked has no rival, for there is one *)
(* active row and who is ready to replace it has it locked.                   *)
LEMMA SetActiveStep ==
    ASSUME IndInv, NEW r \in Requests, SetActive(r)
    PROVE  IndInv'
<1>. USE DEF SetActive, SetReady, Goto, table, tx
<1>1. TypeOK' /\ PhaseInv'
  BY DEF IndInv, TypeOK, Phases, PhaseInv
<1>2. ClearInv' /\ OneActiveManifest'
  BY DEF IndInv, ClearInv, OneActiveManifest
<1>3. LocksExclusive'
  BY DEF IndInv, TypeOK, LocksExclusive, Holds, Locked
<1>4. ReadyOwnsKey'
  <2>1. CASE code[r] \notin active \ cleared[r]
    BY <2>1 DEF IndInv, TypeOK, ReadyOwnsKey, Rivals, OpenRivals
  <2>2. CASE code[r] \in active \ cleared[r]
    <3>1. Rivals(r) = {}
      BY <2>2 DEF IndInv, OneActiveManifest, Rivals
    <3>2. ASSUME NEW q \in Requests, q # r, phase[q] = "ready" PROVE FALSE
      <4>1. code[r] \in {code[q]} \cup cleared[q]
        BY <2>2, <3>2 DEF IndInv, ReadyOwnsKey, Rivals
      <4>. QED BY <3>2, <4>1 DEF Locked, Holds
    <3>. QED BY <3>1, <3>2 DEF IndInv, TypeOK, ReadyOwnsKey, Rivals, OpenRivals
  <2>. QED BY <2>1, <2>2
<1>. QED BY <1>1, <1>2, <1>3, <1>4 DEF IndInv

(* Lemma: a row enters the unique index only where there is no rival.         *)
LEMMA EnterIndexStep ==
    ASSUME IndInv, NEW r \in Requests, EnterIndex(r)
    PROVE  IndInv'
<1>. USE DEF EnterIndex, Goto, table, tx
<1>1. TypeOK' /\ PhaseInv'
  BY DEF IndInv, TypeOK, Phases, PhaseInv
<1>2. ClearInv' /\ OneActiveManifest'
  BY DEF IndInv, ClearInv, OneActiveManifest
<1>3. LocksExclusive'
  BY DEF IndInv, TypeOK, LocksExclusive, Holds
<1>4. ReadyOwnsKey'
  BY DEF IndInv, TypeOK, ReadyOwnsKey, Rivals, OpenRivals
<1>. QED BY <1>1, <1>2, <1>3, <1>4 DEF IndInv

(* Lemma: a commit leaves its row the one active row. *)
LEMMA CommitSwaps ==
    ASSUME IndInv, NEW r \in Requests, Commit(r)
    PROVE  active' = {code[r]} /\ rows' = rows /\ code[r] \in rows
<1>1. active \subseteq {code[r]} \cup cleared[r]
  BY DEF IndInv, ReadyOwnsKey, Rivals, Commit
<1>. QED BY <1>1 DEF Commit, IndInv, PhaseInv

(* Lemma: the swap keeps one active row, and no other transaction has it      *)
(* locked.                                                                    *)
LEMMA CommitStep ==
    ASSUME IndInv, NEW r \in Requests, Commit(r)
    PROVE  IndInv'
<1>. USE DEF Commit, Goto, Release
<1>1. active' = {code[r]} /\ rows' = rows /\ code[r] \in rows
  BY CommitSwaps
<1>2. TypeOK' /\ PhaseInv'
  BY <1>1 DEF IndInv, TypeOK, Phases, PhaseInv
<1>3. ClearInv' /\ OneActiveManifest'
  BY <1>1 DEF IndInv, TypeOK, ClearInv, OneActiveManifest, LocksExclusive, Holds
<1>4. LocksExclusive'
  BY DEF IndInv, TypeOK, LocksExclusive, Holds
<1>5. ReadyOwnsKey'
  <2>1. \A q \in Requests : q # r => phase[q] # "ready"
    BY DEF IndInv, ReadyOwnsKey, OpenRivals
  <2>. QED BY <2>1 DEF IndInv, TypeOK, ReadyOwnsKey
<1>. QED BY <1>2, <1>3, <1>4, <1>5 DEF IndInv

(* Lemma: a handler that gives up changes no row and no lock, unless its work *)
(* was done.                                                                  *)
LEMMA StoreErrorStep ==
    ASSUME IndInv, NEW r \in Requests, StoreError(r)
    PROVE  IndInv'
<1>1. CASE Answer(r, 500)
  BY <1>1, ReleaseStep DEF IndInv, TypeOK, Answer
<1>2. CASE /\ resp' = [resp EXCEPT ![r] = 500]
           /\ UNCHANGED <<table, phase, code, tx>>
  BY <1>2 DEF IndInv, TypeOK, PhaseInv, ClearInv, LocksExclusive, Holds, ReadyOwnsKey, Rivals,
              OpenRivals, OneActiveManifest, table, tx
<1>. QED BY <1>1, <1>2 DEF StoreError

(* Lemma: every step preserves the inductive invariant. *)
LEMMA NextIndInv == IndInv /\ [Next]_vars => IndInv'
<1>. SUFFICES ASSUME IndInv, [Next]_vars PROVE IndInv'
  OBVIOUS
<1>1. CASE UNCHANGED vars
  BY <1>1 DEF vars, IndInv, TypeOK, PhaseInv, ClearInv, LocksExclusive, Holds, ReadyOwnsKey,
              Rivals, OpenRivals, OneActiveManifest
<1>2. ASSUME NEW r \in Requests,
             CreateAppVersion(r) \/ ActivateAppVersion(r) \/ DeadlockDetected(r) \/ StoreError(r)
      PROVE  IndInv'
  BY <1>2, ReceiveStep, EndingStep, StoreErrorStep DEF CreateAppVersion, ActivateAppVersion
<1>3. ASSUME NEW r \in Requests, Serve(r) PROVE IndInv'
  BY <1>3, InsertStep, EndingStep, ClearActiveStep, ClearRowStep, SetActiveStep,
     EnterIndexStep, CommitStep DEF Serve
<1>. QED BY <1>1, <1>2, <1>3 DEF Next

-----------------------------------------------------------------------------
(* The theorems. *)

(* Theorem: the inductive invariant holds throughout. *)
THEOREM Invariance == Spec => []IndInv
BY InitIndInv, NextIndInv, PTL DEF Spec

(* Theorem: the table, the locks and the answers keep their types; no code    *)
(* that is too large for the column becomes a row.                            *)
THEOREM TypeCorrectness == Spec => []TypeOK
<1>1. IndInv => TypeOK
  BY DEF IndInv
<1>. QED BY <1>1, Invariance, PTL

(* Theorem: at most one manifest is active, whatever operators activate at    *)
(* the same time, and whatever fails or is abandoned.                         *)
THEOREM OneActive == Spec => []OneActiveManifest
<1>1. IndInv => OneActiveManifest
  BY DEF IndInv
<1>. QED BY <1>1, Invariance, PTL

(* Theorem: a manifest once offered is only ever replaced by another.         *)
THEOREM NeverWithdrawn == Spec => ManifestNeverWithdrawn
<1>1. IndInv /\ [Next]_vars => [active # {} => active' # {}]_vars
  <2>. SUFFICES ASSUME IndInv, Next, active # {} PROVE active' # {}
    OBVIOUS
  <2>1. ASSUME NEW r \in Requests, Commit(r) PROVE active' # {}
    BY <2>1, CommitSwaps
  <2>2. ASSUME NEW r \in Requests, ~Commit(r),
               \/ CreateAppVersion(r) \/ ActivateAppVersion(r) \/ Serve(r)
               \/ DeadlockDetected(r) \/ StoreError(r)
        PROVE  active' = active
    BY <2>2 DEF CreateAppVersion, ActivateAppVersion, Receive, Serve, Insert, InsertConflict,
                InsertTooLarge, ClearActive, ClearRow, SetActive, SetMissing, EnterIndex,
                UniqueViolation, ReadBack, Rollback, DeadlockDetected, StoreError, Answer, table
  <2>. QED BY <2>1, <2>2 DEF Next
<1>. QED BY <1>1, Invariance, PTL DEF Spec, ManifestNeverWithdrawn

(* Theorem: the operators and devices of AppVersionDelivery use the store as  *)
(* it is specified, so what is shown of the store holds for the fleet.        *)
THEOREM DeliveryUsesStore == DeliverySpec => Spec
<1>1. DeliveryInit => Init
  BY DEF DeliveryInit
<1>2. [DeliveryNext]_allVars => [Next]_vars
  <2>1. ASSUME NEW r \in Requests, Operator(r) PROVE Next
    BY <2>1 DEF Operator, PostManifest, StoreStep, Next
  <2>2. ASSUME NEW d \in Devices, Device(d) PROVE UNCHANGED vars
    BY <2>2 DEF Device, Get, KeepsItsOwn, Deliver, LoseAnswer, Install, operatorVars
  <2>3. CASE UNCHANGED allVars
    BY <2>3 DEF allVars, operatorVars
  <2>. QED BY <2>1, <2>2, <2>3 DEF DeliveryNext
<1>. QED BY <1>1, <1>2, PTL DEF DeliverySpec, Spec

-----------------------------------------------------------------------------
(* The fleet. *)

(* A manifest that passed the validation and is the one stored for its code.  *)
Genuine(doc) == /\ ManifestValid(doc) /\ MinRequired(doc) <= Latest(doc)
                /\ Latest(doc) \in rows /\ document[Latest(doc)] = doc

(* What a device keeps or is on its way to it is genuine, and then there is   *)
(* one to offer; a device runs what it came with or some stored version.      *)
FleetSafe == \A d \in Devices :
    /\ \A doc \in {manifest[d], answer[d]} : doc # NoDoc => Genuine(doc) /\ active # {}
    /\ installed[d] \in Installed \cup rows

(* A device that updates itself moves up, to a version that is stored and     *)
(* meets the minimum its manifest states.                                     *)
UpdatesMeetMinimum ==
    [][\A d \in Devices : installed'[d] # installed[d] =>
           /\ installed'[d] > installed[d]
           /\ \E c \in rows : installed'[d] = c /\ MinRequired(document[c]) <= c]_allVars

(* The document column belongs to its row, and a request that has still to    *)
(* insert carries a manifest for the code that it names.                      *)
DocumentInv == /\ document \in [Codes -> Drafts \cup {NoDoc}]
               /\ \A c \in Codes : c \in rows =>
                      document[c] # NoDoc /\ ManifestValid(document[c]) /\ Latest(document[c]) = c

DraftInv == /\ draft \in [Requests -> Drafts \cup {NoDoc}]
            /\ \A r \in Requests : phase[r] = "create" =>
                   /\ draft[r] \in Drafts
                   /\ ManifestValid(draft[r]) /\ Latest(draft[r]) = code[r]

FleetTypes == /\ installed \in [Devices -> Nat]
              /\ manifest \in [Devices -> Drafts \cup {NoDoc}]
              /\ answer \in [Devices -> Drafts \cup {NoDoc}]

FleetInv == IndInv /\ DocumentInv /\ DraftInv /\ FleetTypes /\ FleetSafe

(* Lemma: a valid manifest's version codes are whole, and in order.           *)
LEMMA CodesInOrder ==
    ASSUME NEW doc \in Drafts, ManifestValid(doc)
    PROVE  /\ Latest(doc) \in Codes /\ Latest(doc) \in Nat /\ MinRequired(doc) \in Nat
           /\ MinRequired(doc) <= Latest(doc)
<1>. DEFINE l == Field(doc, "latestVersionCode").tenths
            m == Field(doc, "minRequiredVersionCode").tenths
<1>1. \A key \in {"latestVersionCode", "minRequiredVersionCode"} :
          Integer(Field(doc, key)) /\ Field(doc, key).tenths >= 10
  BY DEF ManifestValid, Positive
<1>2. l \in Int /\ m \in Int /\ 10 <= l /\ 10 <= m
  BY <1>1, DraftsAssumption
<1>3. m <= l
  BY DEF ManifestValid
<1>4. \A a \in Int, b \in Int : 10 <= a /\ a <= b =>
          a \div 10 \in Nat /\ b \div 10 \in Nat /\ a \div 10 <= b \div 10
  OBVIOUS
<1>5. Latest(doc) = l \div 10 /\ MinRequired(doc) = m \div 10
  BY DEF Latest, MinRequired
<1>. HIDE DEF l, m
<1>6. Latest(doc) \in Nat /\ MinRequired(doc) \in Nat /\ MinRequired(doc) <= Latest(doc)
  BY <1>2, <1>3, <1>4, <1>5
<1>. QED BY <1>6, DraftsAssumption

(* Lemma: what is stored is genuine.                                          *)
LEMMA StoredIsGenuine ==
    ASSUME FleetInv, NEW c \in rows
    PROVE  /\ c \in Codes /\ document[c] \in Drafts /\ document[c] # NoDoc
           /\ Genuine(document[c]) /\ Latest(document[c]) = c
<1>1. c \in Codes
  BY DEF FleetInv, IndInv, TypeOK
<1>2. document[c] \in Drafts /\ document[c] # NoDoc /\ ManifestValid(document[c])
      /\ Latest(document[c]) = c
  BY <1>1 DEF FleetInv, DocumentInv
<1>. QED BY <1>1, <1>2, CodesInOrder DEF Genuine

(* Lemma: a fleet starts safe.                                                *)
LEMMA FleetInit == DeliveryInit => FleetInv
<1>. SUFFICES ASSUME DeliveryInit PROVE FleetInv
  OBVIOUS
<1>1. IndInv
  BY InitIndInv DEF DeliveryInit
<1>2. DocumentInv /\ DraftInv
  BY DEF DeliveryInit, Init, DocumentInv, DraftInv
<1>3. FleetTypes
  BY DraftsAssumption DEF DeliveryInit, FleetTypes
<1>4. FleetSafe
  BY DEF DeliveryInit, FleetSafe
<1>. QED BY <1>1, <1>2, <1>3, <1>4 DEF FleetInv

(* Lemma: only an insert adds a row, of the code its request names; nothing   *)
(* removes one, nor takes the last active row away.                           *)
LEMMA StoreKeepsRows ==
    ASSUME IndInv, NEW r \in Requests,
           \/ CreateAppVersion(r) \/ ActivateAppVersion(r)
           \/ Serve(r) \/ DeadlockDetected(r) \/ StoreError(r)
    PROVE  /\ rows' = rows \/ Insert(r)
           /\ rows \subseteq rows' /\ (active # {} => active' # {})
BY DEF IndInv, TypeOK, CreateAppVersion, ActivateAppVersion, Receive, Serve, Insert,
       InsertConflict, InsertTooLarge, ClearActive, ClearRow, SetActive, SetMissing,
       EnterIndex, UniqueViolation, Commit, ReadBack, Rollback, DeadlockDetected, StoreError,
       Answer, table

(* Lemma: a request is about to insert only when it has just been received,   *)
(* or still is and names the same code.                                       *)
LEMMA CreatePhase ==
    ASSUME IndInv, NEW r \in Requests, NEW q \in Requests,
           Serve(r) \/ DeadlockDetected(r) \/ StoreError(r), phase'[q] = "create"
    PROVE  phase[q] = "create" /\ code'[q] = code[q]
BY DEF IndInv, TypeOK, Serve, Insert, InsertConflict, InsertTooLarge, ClearActive, ClearRow,
       SetActive, SetMissing, EnterIndex, UniqueViolation, Commit, ReadBack, Rollback,
       DeadlockDetected, StoreError, Answer, Release, Goto, tx

(* Lemma: operators leave what devices have genuine.                          *)
LEMMA OperatorStep ==
    ASSUME FleetInv, NEW r \in Requests, Operator(r)
    PROVE  FleetInv'
<1>1. /\ \/ CreateAppVersion(r) \/ ActivateAppVersion(r)
         \/ Serve(r) \/ DeadlockDetected(r) \/ StoreError(r)
      /\ UNCHANGED deviceVars
  BY DEF Operator, PostManifest, StoreStep
<1>2. IndInv'
  BY <1>1, NextIndInv DEF FleetInv, Next
<1>3. /\ rows' = rows \/ Insert(r)
      /\ rows \subseteq rows' /\ (active # {} => active' # {})
  BY <1>1, StoreKeepsRows DEF FleetInv
<1>4. DocumentInv' /\ \A c \in rows : document'[c] = document[c]
  <2>1. CASE document' = document /\ rows' = rows
    BY <2>1 DEF FleetInv, DocumentInv
  <2>2. CASE Insert(r) /\ document' = [document EXCEPT ![code[r]] = draft[r]]
    <3>1. rows' = rows \cup {code[r]} /\ code[r] \notin rows /\ phase[r] = "create"
      BY <2>2 DEF Insert
    <3>2. draft[r] \in Drafts /\ ManifestValid(draft[r]) /\ Latest(draft[r]) = code[r]
      BY <3>1 DEF FleetInv, DraftInv
    <3>3. code[r] \in Codes /\ draft[r] # NoDoc
      BY <3>2, DraftsAssumption
    <3>4. document \in [Codes -> Drafts \cup {NoDoc}]
      BY DEF FleetInv, DocumentInv
    <3>5. document'[code[r]] = draft[r]
      BY <2>2, <3>3, <3>4
    <3>6. \A c \in Codes : c # code[r] => document'[c] = document[c]
      BY <2>2, <3>4
    <3>7. document' \in [Codes -> Drafts \cup {NoDoc}]
      BY <2>2, <3>2, <3>4
    <3>8. \A c \in rows : c \in Codes
      BY DEF FleetInv, IndInv, TypeOK
    <3>. QED BY <3>1, <3>2, <3>3, <3>5, <3>6, <3>7, <3>8 DEF FleetInv, DocumentInv
  <2>3. rows' # rows => Insert(r)
    BY <1>3
  <2>4. Insert(r) => rows' # rows
    BY DEF Insert
  <2>5. CASE StoreStep(r)
    BY <2>1, <2>2, <2>3, <2>5 DEF StoreStep
  <2>6. CASE ~StoreStep(r)
    <3>1. document' = document /\ UNCHANGED table
      BY <2>6 DEF Operator, PostManifest, CreateAppVersion, ActivateAppVersion, Receive
    <3>. QED BY <2>1, <3>1 DEF table
  <2>. QED BY <2>5, <2>6
<1>5. DraftInv'
  <2>1. ASSUME NEW doc \in Drafts, PostManifest(r, doc) PROVE DraftInv'
    <3>1. /\ draft' = [draft EXCEPT ![r] = doc] /\ ManifestValid(doc)
          /\ code'[r] = Latest(doc)
      BY <2>1 DEF PostManifest
    <3>2. \A q \in Requests : q # r => phase'[q] = phase[q] /\ code'[q] = code[q]
      BY <2>1 DEF PostManifest, CreateAppVersion, Receive, Goto, FleetInv, IndInv, TypeOK
    <3>. QED BY <3>1, <3>2 DEF FleetInv, DraftInv
  <2>2. CASE ActivateAppVersion(r) /\ UNCHANGED <<draft, document, deviceVars>>
    <3>1. \A q \in Requests : phase'[q] = "create" =>
              phase[q] = "create" /\ code'[q] = code[q]
      BY <2>2 DEF ActivateAppVersion, Receive, Goto, FleetInv, IndInv, TypeOK
    <3>. QED BY <2>2, <3>1 DEF FleetInv, DraftInv
  <2>3. CASE StoreStep(r)
    <3>1. Serve(r) \/ DeadlockDetected(r) \/ StoreError(r)
      BY <2>3 DEF StoreStep
    <3>2. \A q \in Requests : phase'[q] = "create" =>
              phase[q] = "create" /\ code'[q] = code[q]
      BY <3>1, CreatePhase DEF FleetInv
    <3>3. draft' = IF phase'[r] = "idle" THEN [draft EXCEPT ![r] = NoDoc] ELSE draft
      BY <2>3 DEF StoreStep
    <3>4. \A q \in Requests : phase'[q] = "create" => draft'[q] = draft[q]
      BY <3>3 DEF FleetInv, DraftInv
    <3>5. draft' \in [Requests -> Drafts \cup {NoDoc}]
      BY <3>3 DEF FleetInv, DraftInv
    <3>. QED BY <3>2, <3>4, <3>5 DEF FleetInv, DraftInv
  <2>. QED BY <2>1, <2>2, <2>3 DEF Operator
<1>6. FleetTypes'
  BY <1>1 DEF FleetInv, FleetTypes, deviceVars
<1>7. FleetSafe'
  <2>1. ASSUME NEW doc, Genuine(doc) PROVE Genuine(doc)'
    BY <1>3, <1>4, <2>1 DEF Genuine
  <2>. QED BY <1>1, <1>3, <2>1 DEF FleetInv, FleetSafe, deviceVars
<1>. QED BY <1>2, <1>4, <1>5, <1>6, <1>7 DEF FleetInv

(* Lemma: devices get what is stored, and keep it.                            *)
LEMMA DeviceStep ==
    ASSUME FleetInv, NEW d \in Devices, Device(d)
    PROVE  FleetInv'
<1>1. UNCHANGED operatorVars
  BY DEF Device, Get, KeepsItsOwn, Deliver, LoseAnswer, Install
<1>2. UNCHANGED <<vars, draft, document>>
  BY <1>1 DEF operatorVars
<1>3. IndInv'
  BY <1>2, NextIndInv DEF FleetInv
<1>4. DocumentInv' /\ DraftInv'
  BY <1>2 DEF FleetInv, DocumentInv, DraftInv, vars, table
<1>5. \A doc : Genuine(doc)' <=> Genuine(doc)
  BY <1>2 DEF Genuine, vars, table
<1>6. rows' = rows /\ active' = active
  BY <1>2 DEF vars, table
<1>7. CASE UNCHANGED deviceVars
  BY <1>3, <1>4, <1>5, <1>6, <1>7 DEF FleetInv, FleetTypes, FleetSafe, deviceVars
<1>8. ASSUME NEW c \in active, answer' = [answer EXCEPT ![d] = document[c]],
             UNCHANGED <<installed, manifest>>
      PROVE  FleetInv'
  <2>1. c \in rows
    BY DEF FleetInv, IndInv, TypeOK
  <2>2. document[c] \in Drafts /\ Genuine(document[c])
    BY <2>1, StoredIsGenuine
  <2>3. FleetTypes' /\ answer'[d] = document[c]
        /\ \A e \in Devices : e # d => answer'[e] = answer[e]
    BY <1>8, <2>2 DEF FleetInv, FleetTypes
  <2>4. FleetSafe'
    BY <1>5, <1>6, <1>8, <2>2, <2>3 DEF FleetInv, FleetSafe
  <2>. QED BY <1>3, <1>4, <2>3, <2>4 DEF FleetInv
<1>9. CASE Get(d, 0) \/ Get(d, installed[d])
  <2>1. CASE KeepsItsOwn
    BY <1>7, <2>1 DEF KeepsItsOwn
  <2>. QED BY <1>8, <1>9, <2>1 DEF Get
<1>10. CASE Deliver(d) \/ LoseAnswer(d)
  <2>1. /\ answer' = [answer EXCEPT ![d] = NoDoc] /\ installed' = installed
        /\ manifest' = manifest \/ manifest' = [manifest EXCEPT ![d] = answer[d]]
    BY <1>10 DEF Deliver, LoseAnswer
  <2>2. FleetTypes'
    BY <2>1 DEF FleetInv, FleetTypes
  <2>3. \A e \in Devices : /\ answer'[e] \in {answer[e], NoDoc}
                           /\ manifest'[e] \in {manifest[e], answer[e]}
    BY <2>1 DEF FleetInv, FleetTypes
  <2>4. FleetSafe'
    BY <1>5, <1>6, <2>1, <2>3 DEF FleetInv, FleetSafe
  <2>. QED BY <1>3, <1>4, <2>2, <2>4 DEF FleetInv
<1>11. CASE Install(d)
  <2>1. /\ manifest[d] # NoDoc
        /\ installed' = [installed EXCEPT ![d] = Latest(manifest[d])]
        /\ UNCHANGED <<manifest, answer>>
    BY <1>11 DEF Install
  <2>2. manifest[d] \in Drafts /\ Genuine(manifest[d])
    BY <2>1 DEF FleetInv, FleetTypes, FleetSafe
  <2>3. Latest(manifest[d]) \in Nat /\ Latest(manifest[d]) \in rows
    BY <2>2, CodesInOrder DEF Genuine
  <2>4. FleetTypes'
    BY <2>1, <2>3 DEF FleetInv, FleetTypes
  <2>5. \A e \in Devices : installed'[e] \in Installed \cup rows
    BY <2>1, <2>3 DEF FleetInv, FleetTypes, FleetSafe
  <2>6. FleetSafe'
    BY <1>5, <1>6, <2>1, <2>5 DEF FleetInv, FleetSafe
  <2>. QED BY <1>3, <1>4, <2>4, <2>6 DEF FleetInv
<1>. QED BY <1>9, <1>10, <1>11 DEF Device

(* Theorem: the invariant of operators and fleet holds in every state.        *)
THEOREM FleetInvariance == DeliverySpec => []FleetInv
<1>1. FleetInv /\ [DeliveryNext]_allVars => FleetInv'
  <2>. SUFFICES ASSUME FleetInv, [DeliveryNext]_allVars PROVE FleetInv'
    OBVIOUS
  <2>1. CASE UNCHANGED allVars
    <3>1. UNCHANGED <<vars, draft, document, installed, manifest, answer>>
      BY <2>1 DEF allVars, operatorVars, deviceVars
    <3>2. IndInv'
      BY <3>1, NextIndInv DEF FleetInv
    <3>. QED BY <3>1, <3>2 DEF FleetInv, DocumentInv, DraftInv, FleetTypes, FleetSafe, Genuine,
                              vars, table
  <2>. QED BY <2>1, OperatorStep, DeviceStep DEF DeliveryNext
<1>. QED BY FleetInit, <1>1, PTL DEF DeliverySpec

(* Theorem: whatever operators post and activate at the same time, a device   *)
(* only ever gets manifests that passed the validation and that the table     *)
(* holds unchanged, and from then on there is one to offer.                   *)
THEOREM FleetIsSafe == DeliverySpec => []FleetSafe
<1>1. FleetInv => FleetSafe
  BY DEF FleetInv
<1>. QED BY FleetInvariance, <1>1, PTL

(* Theorem: every update goes up, to a stored version that meets its own      *)
(* minimum, so that no device is told to update once more by the manifest     *)
(* that it has just followed.                                                 *)
THEOREM UpdatesSuffice == DeliverySpec => UpdatesMeetMinimum
<1>1. ASSUME FleetInv, [DeliveryNext]_allVars
      PROVE  [\A d \in Devices : installed'[d] # installed[d] =>
                  /\ installed'[d] > installed[d]
                  /\ \E c \in rows : installed'[d] = c /\ MinRequired(document[c]) <= c]_allVars
  <2>. SUFFICES ASSUME NEW d \in Devices, installed'[d] # installed[d], DeliveryNext
       PROVE  /\ installed'[d] > installed[d]
              /\ \E c \in rows : installed'[d] = c /\ MinRequired(document[c]) <= c
    BY <1>1 DEF allVars, deviceVars
  <2>1. PICK e \in Devices : Install(e)
    BY DEF DeliveryNext, Operator, PostManifest, StoreStep, Device, Get, KeepsItsOwn, Deliver,
           LoseAnswer, deviceVars
  <2>2. e = d /\ manifest[d] # NoDoc /\ installed'[d] = Latest(manifest[d])
        /\ Latest(manifest[d]) > installed[d]
    BY <1>1, <2>1 DEF Install, FleetInv, FleetTypes
  <2>3. Genuine(manifest[d])
    BY <1>1, <2>2 DEF FleetInv, FleetSafe
  <2>. QED BY <2>2, <2>3 DEF Genuine
<1>. QED BY FleetInvariance, <1>1, PTL DEF DeliverySpec, UpdatesMeetMinimum
=============================================================================
