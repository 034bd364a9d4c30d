----------------------------- MODULE DeviceAuth -----------------------------
(* Who gets through to a handler: the boot checks of Load                     *)
(* (internal/config/env.go), the v1Auth middleware                            *)
(* (internal/api/middleware.go) with Verify (internal/auth/hmac.go) behind    *)
(* the body cap, through the rollout of request signing to devices whose      *)
(* builds and clocks differ.  The checks keep no state: what is answered is a *)
(* function of it.                                                            *)
EXTENDS Integers, Sequences, FiniteSets

CONSTANTS Devices,
          Offsets,     \* how far a device's clock may be ahead of the server's
          Secrets,     \* HMAC secrets
          Layouts,     \* parameter lists of signed headers: sequences of <<key, value>>
          MaxSkew,     \* five minutes in the source
          MaxDuration, \* what a time.Duration holds, 292 years
          MaxTime,     \* bound on the server's clock
          None         \* not set, no secret, no token, no request

ASSUME AuthAssumption ==
    /\ MaxSkew \in Nat /\ MaxTime \in Nat /\ MaxDuration \in Nat /\ MaxSkew < MaxDuration
    /\ Offsets \subseteq Int
    /\ Layouts \subseteq Seq(STRING \X STRING)
    /\ None \notin Secrets \cup {"none", "bearer", "basic"}
    /\ Secrets \cap {"none", "bearer", "basic"} = {}

VARIABLES orderly,  \* whether the rollout keeps to the order of env.go's comments
          offset,   \* device -> how far its clock is ahead of the server's
          env,      \* the environment as last set
          up,       \* whether Load let the server boot
          build,    \* device -> the secret it signs with, or "none", "bearer", "basic"
          now,      \* the server's clock
          request   \* device -> when the request under way was sent, or None

world == <<orderly, offset>>
vars  == <<orderly, offset, env, up, build, now, request>>

(* V1_HMAC_SECRET, V1_HMAC_REQUIRE, ADMIN_TOKEN, PII_PEPPER and APP_ENV, as a *)
(* deployment sets them or not, and as Load hands them on; "dev" is the value *)
(* that the repository tells, and Load does not care whether another          *)
(* ADMIN_TOKEN is one of its own or none.                                     *)
Settings == [secret : Secrets \cup {None}, require : BOOLEAN, admin : {"dev", "other"},
             pepper : {None, "dev", "own"}, app : {None, "dev", "live"}]
Envs     == [secret : Secrets \cup {None}, require : BOOLEAN, admin : {"dev", "other"},
             pepper : {"dev", "own"}, app : {"dev", "live"}]
Builds == Secrets \cup {"none", "bearer", "basic"}
Bodies == {"as sent", "altered", "oversize"}   \* against what the device signed

-----------------------------------------------------------------------------
(* Load: what is not set has a default, if any. *)
OrDev(value) == IF value = None THEN "dev" ELSE value

Load(set) == [set EXCEPT !.app = OrDev(@), !.pepper = OrDev(@)]

(* validateProductionSafety *)
Boots(e) == e.app # "dev" => /\ e.admin # "dev" /\ e.pepper # "dev"
                             /\ ~(e.require /\ e.secret = None)

TypeOK ==
    /\ orderly \in BOOLEAN /\ offset \in [Devices -> Offsets]
    /\ env \in Envs
    /\ up = Boots(env)
    /\ build \in [Devices -> Builds]
    /\ now \in 0..MaxTime
    /\ request \in [Devices -> {None} \cup 0..MaxTime]

Init ==
    /\ orderly \in BOOLEAN /\ offset \in [Devices -> Offsets]
    /\ env \in {e \in Envs : e.secret = None /\ ~e.require /\ Boots(e)}
    /\ up = TRUE
    /\ build \in [Devices -> {"none", "bearer"}]
    /\ now = 0
    /\ request = [d \in Devices |-> None]

-----------------------------------------------------------------------------
(* parseHeader: any order, unknown keys are skipped, the last of a repeated   *)
(* key counts; a parameter without a key spoils the header.                   *)

Last(layout, key) ==
    {i \in DOMAIN layout :
        layout[i][1] = key /\ \A j \in DOMAIN layout : layout[j][1] = key => j <= i}

Parses(layout) == /\ \A i \in DOMAIN layout : layout[i][1] # ""
                  /\ \E i \in Last(layout, "t") : layout[i][2] = "unix"
                  /\ \E i \in Last(layout, "sig") : layout[i][2] # ""

(* time.Sub stays within what a Duration holds, whose lowest value is its own *)
(* negative.                                                                  *)
Sub(t, u) == CASE t - u > MaxDuration      -> MaxDuration
               [] t - u < -MaxDuration - 1 -> -MaxDuration - 1
               [] OTHER                    -> t - u

(* Mutant: a timestamp ahead of the clock has no skew.                        *)
SkewBehind(d) == Sub(now, request[d] + offset[d])

(* The drift between the server's clock and the signed timestamp. *)
Skew(d) == LET skew == Sub(now, request[d] + offset[d])
           IN IF -MaxDuration <= skew /\ skew < 0 THEN -skew ELSE skew

Signed(layout) == \E i \in Last(layout, "sig") : layout[i][2] = "hmac"

(* Mutant: the window is closed one second early.                             *)
VerifiedStrictly(d, layout, body) ==
    /\ Parses(layout) /\ Skew(d) < MaxSkew
    /\ Signed(layout) /\ build[d] = env.secret /\ body = "as sent"

(* Verify: the signature is that of the canonical request, body included.     *)
Verified(d, layout, body) ==
    /\ Parses(layout) /\ Skew(d) <= MaxSkew
    /\ Signed(layout) /\ build[d] = env.secret /\ body = "as sent"

(* schemeOf the Authorization header that a build sends. *)
Scheme(d) == IF build[d] \in Secrets THEN "hmac" ELSE build[d]

(* Mutant: a bearer token is let through whatever the mode.                   *)
PassesBearerOpen(d) == Scheme(d) = "bearer" \/ (Scheme(d) = "none" /\ ~env.require)

(* The legacy passthrough. *)
PassesUnsigned(d) == Scheme(d) \in {"bearer", "none"} /\ ~env.require

(* What a POST of d is answered.  A body over the cap cannot be read: v1Auth, *)
(* which reads only signed ones, says 400, the handler 413.                   *)
Answer(d, layout, body) ==
    CASE Scheme(d) = "hmac" /\ env.secret # None ->
             IF body = "oversize" THEN 400
             ELSE IF Verified(d, layout, body) THEN 200 ELSE 401
      [] PassesUnsigned(d) -> IF body = "oversize" THEN 413 ELSE 200
      [] OTHER -> 401

-----------------------------------------------------------------------------
(* Deployments.  "Only flip this once the field fleet is on a HMAC-aware      *)
(* client build"; and a secret that builds sign with stays.                   *)

Advised(e) ==
    /\ e.secret # env.secret => \A d \in Devices : build[d] \notin Secrets
    /\ e.require => \A d \in Devices : build[d] = e.secret

(* Mutant: Load's error is not looked at.                                     *)
RestartRegardless(set) ==
    /\ env' = Load(set) /\ up' = TRUE
    /\ orderly => Advised(env')
    /\ UNCHANGED <<world, build, now, request>>

Restart(set) ==
    /\ env' = Load(set) /\ up' = Boots(Load(set))
    /\ orderly => Advised(env')
    /\ UNCHANGED <<world, build, now, request>>

(* A new build is installed; the app starts afresh and awaits nothing. *)
Upgrade(d, b) ==
    /\ b # build[d]
    /\ orderly => b = env.secret
    /\ build' = [build EXCEPT ![d] = b]
    /\ request' = [request EXCEPT ![d] = None]
    /\ UNCHANGED <<world, env, up, now>>

-----------------------------------------------------------------------------
(* Requests. *)

Tick == now < MaxTime /\ now' = now + 1 /\ UNCHANGED <<world, env, up, build, request>>

Send(d) ==
    /\ request[d] = None
    /\ request' = [request EXCEPT ![d] = now]
    /\ UNCHANGED <<world, env, up, build, now>>

(* The request arrives and is given its Answer, or is lost. *)
Arrive(d) ==
    /\ request[d] # None
    /\ request' = [request EXCEPT ![d] = None]
    /\ UNCHANGED <<world, env, up, build, now>>

Next == \/ Tick
        \/ \E set \in Settings : Restart(set)
        \/ \E d \in Devices :
              \/ \E b \in Builds : Upgrade(d, b)
              \/ Send(d) \/ Arrive(d)

Spec == Init /\ [][Next]_vars

-----------------------------------------------------------------------------
(* The requests that may arrive now. *)
Pending == IF up THEN {d \in Devices : request[d] # None} ELSE {}

(* A header that says what it has to, once, in any order and among unknown    *)
(* parameters ("so future extensions (e.g. kid) don't break older verifiers", *)
(* hmac.go).                                                                  *)
Complete(layout) ==
    /\ \A i \in DOMAIN layout : layout[i][1] # ""
    /\ \E i, j \in DOMAIN layout : layout[i] = <<"t", "unix">> /\ layout[j] = <<"sig", "hmac">>

Conforming == {layout \in Layouts :
    Complete(layout) /\ Cardinality({i \in DOMAIN layout : layout[i][1] \in {"t", "sig"}}) = 2}

(* Safety: a rollout in the advised order locks no device out: a request that *)
(* arrives intact within the window left by its device's clock is answered    *)
(* 200, whatever the server and the fleet change meanwhile.                   *)
NeverLockedOut ==
    orderly => \A d \in Pending, layout \in Conforming :
        LET drift == IF offset[d] < 0 THEN -offset[d] ELSE offset[d]
        IN Answer(d, layout, "as sent") = 200
           \/ (Scheme(d) = "hmac" /\ now - request[d] + drift > MaxSkew)

(* Safety: once signatures are required only intact requests signed with the  *)
(* server's own secret reach a handler, in whatever order the settings were   *)
(* made and also when the secret is missing; and no body over the cap does.   *)
RequireServesSignedOnly ==
    \A d \in Pending, layout \in Layouts, body \in Bodies :
        Answer(d, layout, body) = 200 =>
            /\ body # "oversize"
            /\ env.require => build[d] \in Secrets /\ build[d] = env.secret /\ body = "as sent"

(* How far the timestamp of a request is ahead of the server's clock.         *)
Ahead(d)  == request[d] + offset[d] - now
Timely(d) == Ahead(d) \in -MaxSkew..MaxSkew

(* Safety: a header that claims a signature is served only while it is one:   *)
(* complete, made with the secret that the server has by now, over the body   *)
(* that arrives, and with a timestamp no further than the window from the     *)
(* clock at the arrival, on either side ("a +-5-minute timestamp window",     *)
(* hmac.go), whatever the mode, the settings made since it was sent, and its  *)
(* delay.  A clock more than a Duration ahead is beyond what Verify can tell. *)
ClaimsVerified ==
    \A d \in Pending, layout \in Layouts, body \in Bodies :
        Scheme(d) = "hmac" /\ Answer(d, layout, body) = 200 =>
            /\ Complete(layout) /\ build[d] = env.secret /\ body = "as sent"
            /\ Timely(d) \/ Ahead(d) > MaxDuration
=============================================================================
