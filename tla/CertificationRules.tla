------------------------- MODULE CertificationRules -------------------------
(* What POST /v1/certifications (internal/api/certifications.go) makes of one *)
(* body: the rules on its timestamps and the row it becomes.                  *)
EXTENDS Integers

CONSTANTS PiiPaths,   \* redaction policy -> the paths it redacts
          Pepper,     \* redaction policy -> its PII_PEPPER
          Content,    \* run -> path -> "text", "empty" or "other": what it reports there
          Tolerance,  \* the 60 s of skew
          None        \* no such timestamp, no value, no row, no body

ASSUME RulesAssumption == Tolerance \in Nat

(* started and completed are always there, the others since contract v1.1.0.  *)
Moment(t) == t # None

(* Mutant: nothing compares submittedAt with the server's clock.              *)
TimesTrusted(t, received) ==
    /\ t.completed >= t.started
    /\ Moment(t.submitted) => t.submitted >= t.completed - Tolerance
    /\ Moment(t.enqueued) => t.enqueued >= t.completed - Tolerance

(* Mutant: no tolerance for the server's clock being behind.                  *)
TimesStrict(t, received) ==
    /\ t.completed >= t.started
    /\ Moment(t.submitted) => t.submitted >= t.completed - Tolerance
    /\ Moment(t.enqueued) => t.enqueued >= t.completed - Tolerance
    /\ Moment(t.submitted) => t.submitted <= received

(* The cross-field rules, received being the server's clock.                  *)
TimesValid(t, received) ==
    /\ t.completed >= t.started
    /\ Moment(t.submitted) => t.submitted >= t.completed - Tolerance
    /\ Moment(t.enqueued) => t.enqueued >= t.completed - Tolerance
    /\ Moment(t.submitted) => t.submitted <= received + Tolerance

-----------------------------------------------------------------------------
(* Paths into a payload, by their last name: those that are redacted today,   *)
(* those that once were ("Demotions to plain text over time"), the optional   *)
(* texts that buildCertification extracts before the redaction, and those     *)
(* that Post extracts after it.                                               *)
piiPaths  == {"ethernetMac", "wifiMac", "ssid", "bssid"}
Demoted   == {"hsn", "publicIp", "gatewayIp"}
Built     == {"hardwareSerial", "marginalMetric", "widevineSecurityLevel", "status"}
Extracted == {"hsn", "ethernetMac", "publicIp"}
Fields    == piiPaths \cup Demoted \cup Built

(* The value at a path of a payload: as the device reported it, or hashed.    *)
Reported(run) ==
    [f \in Fields |-> [kind |-> Content[run][f], run |-> run, field |-> f, pepper |-> None]]

Hash(p, value) == [value EXCEPT !.pepper = Pepper[p]]

(* pii.Redact: the strings that are not empty, at the paths of the policy.    *)
Redact(p, payload) ==
    [f \in Fields |-> IF f \in PiiPaths[p] /\ payload[f].kind = "text"
                      THEN Hash(p, payload[f]) ELSE payload[f]]

(* The canonical payload: the body with its redacted values in place.         *)
Canonical(b, p) == [body |-> b, values |-> Redact(p, Reported(b.run))]

(* strPtr(getString(...)): null for what is no string, or an empty one. *)
Column(value) == IF value.kind = "text" THEN value ELSE None

(* Mutant: payload_hash is taken over the canonical payload.                  *)
PayloadHashRedacted(b, p) == Canonical(b, p)

(* payload_hash is taken over the raw bytes, before redaction. *)
PayloadHash(b, p) == b

(* Mutant: the MAC address is extracted where the other parts of the identity *)
(* are, and not again.                                                        *)
ColumnsMacBuilt(b, p) ==
    [f \in Built \cup Extracted |->
        Column(IF f \in Extracted \ {"ethernetMac"} THEN Canonical(b, p).values[f]
                                                    ELSE Reported(b.run)[f])]

(* The columns that buildCertification fills from the payload as it came, and *)
(* those that Post fills after Redact has changed it in place.                *)
Columns(b, p) ==
    [f \in Built \cup Extracted |->
        Column(IF f \in Extracted THEN Canonical(b, p).values[f] ELSE Reported(b.run)[f])]

Row(b, p) == [hash |-> PayloadHash(b, p), payload |-> Canonical(b, p), columns |-> Columns(b, p)]
=============================================================================
