------------------------------ MODULE Envelopes ------------------------------
(* The checks of internal/api/admin.go on the documents operators post, over  *)
(* JSON values as records with a kind:                                        *)
(*   "string" has a text and its length in bytes, "number" a value in tenths  *)
(*   and whether it is written as an integer, "array" the set of its items,   *)
(*   "object" its fields; "null" and "bool" (with its value) are the rest.    *)
EXTENDS Integers

Absent == [kind |-> "absent"]

(* doc[key] of a Go map: absent keys and values of another kind both fail a   *)
(* type assertion.                                                            *)
Field(object, key) == IF key \in DOMAIN object.fields THEN object.fields[key] ELSE Absent

Optional(v)       == v.kind \in {"absent", "null"}
IsObject(v)       == v.kind = "object"
NonEmptyString(v) == v.kind = "string" /\ v.bytes > 0
ShortString(v)    == v.kind = "string" /\ v.bytes <= 255
NonEmptyArray(v)  == v.kind = "array" /\ v.items # {}
Integer(v)        == v.kind = "number" /\ v.integer

Positive(v)         == Integer(v) /\ v.tenths >= 10
IntRange(v, lo, hi) == Integer(v) /\ 10 * lo <= v.tenths /\ v.tenths <= 10 * hi
Fraction(v)         == v.kind = "number" /\ 0 <= v.tenths /\ v.tenths <= 10

(* The top three bands of a scale begin at three integers, highest first. *)
Descending(o, top, mid, low) ==
    Field(o, top).tenths > Field(o, mid).tenths /\ Field(o, mid).tenths > Field(o, low).tenths

-----------------------------------------------------------------------------
(* validateCertConfigEnvelope. *)

SelectorField == [manufacturer |-> "targetManufacturer", model |-> "targetModel",
                  fingerprint |-> "targetBuildFingerprint"]

(* Mutant: a selector that is no string is skipped, like a missing one.       *)
SelectorLenient(v) == v.kind = "string" => v.bytes <= 255

SelectorValid(v) == Optional(v) \/ ShortString(v)

DnsPolicyValid(v) ==
    \/ Optional(v)
    \/ /\ IsObject(v)
       /\ LET servers == Field(v, "preferredServers")
          IN NonEmptyArray(servers)
             /\ \A s \in servers.items : NonEmptyString(s) /\ ShortString(s)

ThroughputValid(v) == IsObject(v) /\ IntRange(Field(v, "parallel"), 1, 16)

TestsValid(v) ==
    /\ IsObject(v)
    /\ ThroughputValid(Field(v, "download"))
    /\ ThroughputValid(Field(v, "upload"))
    /\ IsObject(Field(v, "playback"))
    /\ IntRange(Field(Field(v, "playback"), "durationSec"), 5, 120)
    /\ NonEmptyString(Field(Field(v, "playback"), "manifestUrl"))

(* Mutant: the ranges are checked and the order of the bands is not.          *)
WifiUnordered(v) ==
    /\ \A key \in {"excellentRssiMin", "strongRssiMin", "goodRssiMin"} :
           IntRange(Field(v, key), -100, 0)
    /\ Fraction(Field(v, "rateAdaptationDegradedThreshold"))

(* wifiLinkQuality, healthAssessment and killswitch are looked at only when   *)
(* they are objects.                                                          *)
WifiValid(v) ==
    /\ \A key \in {"excellentRssiMin", "strongRssiMin", "goodRssiMin"} :
           IntRange(Field(v, key), -100, 0)
    /\ Fraction(Field(v, "rateAdaptationDegradedThreshold"))
    /\ Descending(v, "excellentRssiMin", "strongRssiMin", "goodRssiMin")

HealthValid(v) ==
    /\ \A key \in {"excellentMin", "strongMin", "goodMin"} : IntRange(Field(v, key), 1, 100)
    /\ Field(v, "topTierStretchUpFactor").kind = "number"
    /\ Field(v, "topTierStretchUpFactor").tenths > 10
    /\ Fraction(Field(v, "topTierStretchDownFactor"))
    /\ Descending(v, "excellentMin", "strongMin", "goodMin")

KillswitchValid(v) ==
    /\ Field(v, "enabled").kind = "bool"
    /\ Optional(Field(v, "reason")) \/ Field(v, "reason").kind = "string"

CertConfigValid(doc) ==
    /\ NonEmptyString(Field(doc, "configVersion"))
    /\ Positive(Field(doc, "schemaVersion"))
    /\ NonEmptyArray(Field(doc, "tiers"))
    /\ \A s \in DOMAIN SelectorField : SelectorValid(Field(doc, SelectorField[s]))
    /\ DnsPolicyValid(Field(doc, "dnsPolicy"))
    /\ IsObject(Field(doc, "uploadResults"))
    /\ TestsValid(Field(doc, "tests"))
    /\ IsObject(Field(doc, "wifiLinkQuality")) => WifiValid(Field(doc, "wifiLinkQuality"))
    /\ IsObject(Field(doc, "healthAssessment")) => HealthValid(Field(doc, "healthAssessment"))
    /\ IsObject(Field(doc, "killswitch")) => KillswitchValid(Field(doc, "killswitch"))

-----------------------------------------------------------------------------
(* validateAppVersionManifest.  The text of a URL is its scheme; of a digest  *)
(* or a time it is "wellformed" or not.                                       *)

Digest(v) == v.kind = "string" /\ v.text = "wellformed"

ManifestValid(doc) ==
    /\ \A key \in {"schemaVersion", "latestVersionCode", "minRequiredVersionCode",
                   "apkSizeBytes"} : Positive(Field(doc, key))
    /\ Field(doc, "minRequiredVersionCode").tenths <= Field(doc, "latestVersionCode").tenths
    /\ NonEmptyString(Field(doc, "latestVersionName"))
    /\ NonEmptyString(Field(doc, "apkUrl"))
    /\ Field(doc, "apkUrl").text \in {"http", "https"}
    /\ Digest(Field(doc, "apkSha256")) /\ Digest(Field(doc, "signingCertSha256"))
    /\ NonEmptyString(Field(doc, "publishedAt")) => Field(doc, "publishedAt").text = "wellformed"
=============================================================================
