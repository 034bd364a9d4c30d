-------------------------- MODULE AppVersionDelivery --------------------------
(* Self-update: operators post and activate manifests (AppVersionStore, whose *)
(* requests take several statements), devices poll GET /v1/app/version        *)
(* (internal/api/appversion.go) between them and install what they are        *)
(* offered.                                                                   *)
EXTENDS AppVersionStore, Envelopes

CONSTANTS Devices,
          Installed,   \* version codes devices start with
          Drafts,      \* JSON objects operators post
          NoDoc        \* no document, no answer

VARIABLES draft,      \* request -> the document it inserts, or NoDoc
          document,   \* version code -> the document column, or NoDoc
          installed,  \* device -> the version code it runs
          manifest,   \* device -> the manifest it keeps, or NoDoc
          answer      \* device -> the answer on its way, or NoDoc

operatorVars == <<vars, draft, document>>
deviceVars   == <<installed, manifest, answer>>

(* The hot-path columns, parsed from the document. *)
Latest(doc)      == Field(doc, "latestVersionCode").tenths \div 10
MinRequired(doc) == Field(doc, "minRequiredVersionCode").tenths \div 10

ASSUME DraftsAssumption ==
    /\ Installed \subseteq Nat \ {0}
    /\ NoDoc \notin Drafts
    /\ \A doc \in Drafts : ManifestValid(doc) => Latest(doc) \in Codes
    /\ \A doc \in Drafts, key \in {"latestVersionCode", "minRequiredVersionCode"} :
           Integer(Field(doc, key)) => Field(doc, key).tenths \in Int

DeliveryInit ==
    /\ Init
    /\ draft = [r \in Requests |-> NoDoc]
    /\ document = [c \in Codes |-> NoDoc]
    /\ installed \in [Devices -> Installed]
    /\ manifest = [d \in Devices |-> NoDoc]
    /\ answer = [d \in Devices |-> NoDoc]

-----------------------------------------------------------------------------
(* Operators. *)

(* A document that is refused with 400 changes nothing. *)
PostManifest(r, doc) ==
    /\ ManifestValid(doc)
    /\ CreateAppVersion(r)
    /\ code'[r] = Latest(doc)
    /\ draft' = [draft EXCEPT ![r] = doc]
    /\ UNCHANGED <<document, deviceVars>>

(* The document goes in with its row.  The check constraint on the two        *)
(* version columns repeats what ManifestValid has seen to.                    *)
StoreStep(r) ==
    /\ Serve(r) \/ DeadlockDetected(r) \/ StoreError(r)
    /\ document' = IF rows' = rows THEN document
                   ELSE [document EXCEPT ![code[r]] = draft[r]]
    /\ draft' = IF phase'[r] = "idle" THEN [draft EXCEPT ![r] = NoDoc] ELSE draft
    /\ UNCHANGED deviceVars

Operator(r) == \/ \E doc \in Drafts : PostManifest(r, doc)
               \/ ActivateAppVersion(r) /\ UNCHANGED <<draft, document, deviceVars>>
               \/ StoreStep(r)

-----------------------------------------------------------------------------
(* Devices. *)

(* 304, 400, 404, 500: the device keeps what it has, whenever the answer      *)
(* arrives, so only a 200 is followed on its way.                             *)
KeepsItsOwn == UNCHANGED <<operatorVars, deviceVars>>

(* Mutant: any If-None-Match is answered 304.                                 *)
ETagMatchesAny(d, doc) == manifest[d] # NoDoc

(* If-None-Match carries the hash of the manifest the device keeps. *)
ETagMatches(d, doc) == manifest[d] = doc

(* 400 when X-App-Version-Code is missing or no positive integer, 500 when    *)
(* the query fails, 404 when it finds no row, 304 when the ETag matches.      *)
Get(d, versionCode) ==
    /\ answer[d] = NoDoc
    /\ \/ versionCode < 1 /\ KeepsItsOwn
       \/ versionCode >= 1 /\ KeepsItsOwn    \* the query fails
       \/ versionCode >= 1 /\ active = {} /\ KeepsItsOwn
       \/ versionCode >= 1 /\ \E c \in active :
             IF ETagMatches(d, document[c]) THEN KeepsItsOwn
             ELSE /\ answer' = [answer EXCEPT ![d] = document[c]]
                  /\ UNCHANGED <<operatorVars, installed, manifest>>

(* The document arrives, or is lost. *)
Deliver(d) ==
    /\ answer[d] # NoDoc
    /\ manifest' = [manifest EXCEPT ![d] = answer[d]]
    /\ answer' = [answer EXCEPT ![d] = NoDoc]
    /\ UNCHANGED <<operatorVars, installed>>

LoseAnswer(d) ==
    /\ answer[d] # NoDoc
    /\ answer' = [answer EXCEPT ![d] = NoDoc]
    /\ UNCHANGED <<operatorVars, installed, manifest>>

(* The device updates itself: Android takes no lower version code. *)
Install(d) ==
    /\ manifest[d] # NoDoc /\ Latest(manifest[d]) > installed[d]
    /\ installed' = [installed EXCEPT ![d] = Latest(manifest[d])]
    /\ UNCHANGED <<operatorVars, manifest, answer>>

Device(d) == \/ \E versionCode \in {0, installed[d]} : Get(d, versionCode)
             \/ Deliver(d) \/ LoseAnswer(d) \/ Install(d)

-----------------------------------------------------------------------------
DeliveryNext == (\E r \in Requests : Operator(r)) \/ \E d \in Devices : Device(d)

allVars == <<operatorVars, deviceVars>>

(* As in AppVersionStore; and devices keep polling, neither the store nor the *)
(* network fails for ever, and an update that is offered gets installed.      *)
DeliverySpec ==
    /\ DeliveryInit /\ [][DeliveryNext]_allVars
    /\ \A r \in Requests : /\ SF_allVars(Serve(r) /\ StoreStep(r))
                           /\ WF_allVars(DeadlockDetected(r) /\ StoreStep(r))
    /\ \A d \in Devices : /\ SF_allVars(Get(d, installed[d]))
                          /\ SF_allVars(Deliver(d))
                          /\ WF_allVars(Install(d))

-----------------------------------------------------------------------------
(* Liveness: once operators stop, every device ends up running at least the   *)
(* minimum version that the active manifest requires, across errors, lost     *)
(* answers, cached manifests and rollbacks to an older one.                   *)
FleetMeetsMinimum ==
    <>[][UNCHANGED table]_allVars =>
        \A d \in Devices :
            <>[](\A c \in active : installed[d] >= MinRequired(document[c]))
=============================================================================
