--------------------------- MODULE MCConfigService ---------------------------
(* Small instances of ConfigService for TLC.                                  *)
EXTENDS ConfigService, TLC

CONSTANTS v1, v2, r1, r2, sei, box

(* One manufacturer, written with an empty and with an absent selector. *)
OneTarget == {[manufacturer |-> sei, model |-> Empty, fingerprint |-> Null]}

Boxes == {[manufacturer |-> sei, model |-> Empty, fingerprint |-> Empty]}

JStr(t) == [kind |-> "string", text |-> t, bytes |-> IF t = Empty THEN 0 ELSE 8]
JNum(n) == [kind |-> "number", integer |-> TRUE, tenths |-> 10 * n]
JObj(f) == [kind |-> "object", fields |-> f]

JSelector(v) == IF v = Null THEN [kind |-> "null"] ELSE JStr(v)

Json(v, doc) ==
    JObj([configVersion |-> JStr(v), schemaVersion |-> JNum(1),
          tiers |-> [kind |-> "array", items |-> {JObj(<<>>)}], uploadResults |-> JObj(<<>>),
          tests |-> JObj([download |-> JObj("parallel" :> JNum(1)),
                          upload |-> JObj("parallel" :> JNum(1)),
                          playback |-> JObj([durationSec |-> JNum(30),
                                             manifestUrl |-> JStr("url")])]),
          targetManufacturer |-> JSelector(doc["manufacturer"]),
          targetModel |-> JSelector(doc["model"]),
          targetBuildFingerprint |-> JSelector(doc["fingerprint"])])
=============================================================================
