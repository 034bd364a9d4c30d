------------------------ MODULE MCAppVersionDelivery ------------------------
(* Small instances of AppVersionDelivery for TLC.                             *)
EXTENDS AppVersionDelivery, TLC

CONSTANTS box

Text(t)  == [kind |-> "string", text |-> t, bytes |-> 8]
Num(n)   == [kind |-> "number", integer |-> TRUE, tenths |-> 10 * n]
Obj(f)   == [kind |-> "object", fields |-> f]

Manifest(latest, min) ==
    Obj([schemaVersion |-> Num(1), latestVersionCode |-> Num(latest),
         latestVersionName |-> Text("name"), minRequiredVersionCode |-> Num(min),
         apkUrl |-> Text("https"), apkSizeBytes |-> Num(1), publishedAt |-> Text("wellformed"),
         apkSha256 |-> Text("wellformed"), signingCertSha256 |-> Text("wellformed")])

With(m, key, v)  == Obj((key :> v) @@ m.fields)
Without(m, key)  == Obj([k \in DOMAIN m.fields \ {key} |-> m.fields[k]])

(* An optional and a forced update; 3 does not fit the column. *)
Valid == {Manifest(1, 1), With(Manifest(2, 2), "apkUrl", Text("http")),
          Without(Manifest(3, 1), "publishedAt")}

(* Each refused for one reason. *)
Invalid == {Manifest(1, 2), Manifest(2, 0), Without(Manifest(2, 2), "latestVersionName"),
            With(Manifest(2, 2), "latestVersionCode", Text("2")),
            With(Manifest(2, 2), "apkUrl", Text("ftp")),
            With(Manifest(2, 2), "apkSizeBytes", Num(0)),
            With(Manifest(2, 2), "apkSha256", Text("uppercase")),
            With(Manifest(2, 2), "signingCertSha256", Num(1)),
            With(Manifest(2, 2), "publishedAt", Text("yesterday"))}

Posted == Valid \cup Invalid
=============================================================================
