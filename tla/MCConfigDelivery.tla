-------------------------- MODULE MCConfigDelivery --------------------------
(* Small instances of ConfigDelivery for TLC.                                 *)
EXTENDS ConfigDelivery, TLC

CONSTANTS v1, v2, v3, sei, ultra, build, box

(* A device that sends every header, one that sends some and an old client    *)
(* that sends none.                                                           *)
Unknown == [s \in Selectors |-> Empty]
Full    == [manufacturer |-> sei, model |-> ultra, fingerprint |-> build]
Model   == [Unknown EXCEPT !["model"] = ultra]

AnyIdentity == {Full, Model, Unknown}

-----------------------------------------------------------------------------
JNull    == [kind |-> "null"]
Bool(b)  == [kind |-> "bool", value |-> b]
Str(t)   == [kind |-> "string", text |-> t, bytes |-> 8]
EmptyStr == [kind |-> "string", text |-> "", bytes |-> 0]
LongStr  == [kind |-> "string", text |-> "long", bytes |-> 256]
Num(n)   == [kind |-> "number", integer |-> TRUE, tenths |-> 10 * n]
Frac(t)  == [kind |-> "number", integer |-> FALSE, tenths |-> t]
Arr(S)   == [kind |-> "array", items |-> S]
Obj(f)   == [kind |-> "object", fields |-> f]

(* Edits of an object: a field set, or dropped. *)
With(o, key, v)  == Obj((key :> v) @@ o.fields)
Without(o, key)  == Obj([k \in DOMAIN o.fields \ {key} |-> o.fields[k]])

Throughput(n) == Obj("parallel" :> Num(n))
Playback      == Obj([durationSec |-> Num(30), manifestUrl |-> Str("url")])
Tests         == Obj([download |-> Throughput(1), upload |-> Throughput(16),
                      playback |-> Playback])

Plain(v) == Obj([configVersion |-> Str(v), schemaVersion |-> Num(1),
                 tiers |-> Arr({Obj(<<>>)}), tests |-> Tests, uploadResults |-> Obj(<<>>)])

Wifi   == Obj([excellentRssiMin |-> Num(0), strongRssiMin |-> Num(-1),
               goodRssiMin |-> Num(-100), rateAdaptationDegradedThreshold |-> Frac(5)])
Health == Obj([excellentMin |-> Num(100), strongMin |-> Num(99), goodMin |-> Num(1),
               topTierStretchUpFactor |-> Frac(11), topTierStretchDownFactor |-> Num(1)])
Switch == Obj([enabled |-> Bool(FALSE), reason |-> JNull])
Dns    == Obj("preferredServers" :> Arr({Str("resolver")}))

Tuned(v) == Obj([wifiLinkQuality |-> Wifi, healthAssessment |-> Health, killswitch |-> Switch,
                 dnsPolicy |-> Dns, targetModel |-> JNull, targetManufacturer |-> EmptyStr]
                @@ Plain(v).fields)

SeiOnly(doc)   == With(doc, "targetManufacturer", Str(sei))
UltraOnly(doc) == With(doc, "targetModel", Str(ultra))

(* Drafts that the validation lets through: a default and two targeted ones   *)
(* per version.                                                               *)
Good == UNION {{Plain(v), SeiOnly(Plain(v)), UltraOnly(Plain(v))} : v \in {v1, v2}}
        \cup {Tuned(v3), SeiOnly(Tuned(v3)), With(UltraOnly(Plain(v3)), "killswitch", Str("yes"))}

(* One-field variants of a tuned draft, each refused for one reason.          *)
WifiWith(key, v)   == With(Tuned(v3), "wifiLinkQuality", With(Wifi, key, v))
HealthWith(key, v) == With(Tuned(v3), "healthAssessment", With(Health, key, v))
SwitchWith(key, v) == With(Tuned(v3), "killswitch", With(Switch, key, v))
TestsWith(key, v)  == With(Tuned(v3), "tests", With(Tests, key, v))

Bad == {With(Tuned(v3), "configVersion", EmptyStr), With(Tuned(v3), "schemaVersion", Num(0)),
        With(Tuned(v3), "schemaVersion", Str("1")), With(Tuned(v3), "tiers", Arr({})),
        With(Tuned(v3), "targetModel", Num(42)), With(Tuned(v3), "targetModel", LongStr),
        With(Tuned(v3), "dnsPolicy", Obj("preferredServers" :> Arr({EmptyStr, Str("r")}))),
        With(Tuned(v3), "dnsPolicy", Obj("preferredServers" :> Arr({}))),
        With(Tuned(v3), "dnsPolicy", Str("r")), Without(Tuned(v3), "uploadResults"),
        Without(Tuned(v3), "tests"), TestsWith("download", Throughput(0)),
        TestsWith("upload", Throughput(17)), TestsWith("playback", JNull),
        TestsWith("playback", With(Playback, "durationSec", Num(4))),
        TestsWith("playback", With(Playback, "durationSec", Frac(300))),
        TestsWith("playback", Without(Playback, "manifestUrl")),
        WifiWith("excellentRssiMin", Num(1)), WifiWith("goodRssiMin", Num(-1)),
        WifiWith("strongRssiMin", Num(0)), WifiWith("rateAdaptationDegradedThreshold", Num(2)),
        HealthWith("goodMin", Num(99)), HealthWith("excellentMin", Num(101)),
        HealthWith("topTierStretchUpFactor", Num(1)), HealthWith("strongMin", JNull),
        SwitchWith("enabled", Str("yes")), SwitchWith("reason", Num(1)),
        With(Tuned(v3), "killswitch", Without(Switch, "enabled"))}

AllDrafts == Good \cup Bad
=============================================================================
