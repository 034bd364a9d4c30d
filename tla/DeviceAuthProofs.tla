--------------------------- MODULE DeviceAuthProofs ---------------------------
(* Theorems about DeviceAuth, for any devices, clocks, secrets and headers.   *)
EXTENDS DeviceAuth, FiniteSetTheorems, TLAPS

(* In an orderly rollout every build is unsigned or signs with the secret of  *)
(* the server, and all sign before signatures are required.                   *)
RolloutInv == orderly => \A d \in Devices :
    /\ build[d] \in {"none", "bearer"} \cup Secrets
    /\ build[d] \in Secrets \/ env.require => build[d] = env.secret

(* No request was sent in the future. *)
SentInv == \A d \in Devices : request[d] # None => request[d] <= now

IndInv == TypeOK /\ RolloutInv /\ SentInv

(* Lemma: Init establishes the inductive invariant. *)
LEMMA InitIndInv == Init => IndInv
<1>. SUFFICES ASSUME Init PROVE IndInv
  OBVIOUS
<1>1. env \in Envs /\ up = Boots(env) /\ ~env.require
  BY DEF Init
<1>2. TypeOK
  BY <1>1, AuthAssumption DEF Init, TypeOK, Builds
<1>3. RolloutInv /\ SentInv
  BY <1>1, AuthAssumption DEF Init, RolloutInv, SentInv
<1>. QED BY <1>2, <1>3 DEF IndInv

(* Lemma: every step preserves the inductive invariant. *)
LEMMA NextIndInv == IndInv /\ [Next]_vars => IndInv'
<1>. SUFFICES ASSUME IndInv, [Next]_vars PROVE IndInv'
  OBVIOUS
<1>1. CASE UNCHANGED vars
  <2>1. TypeOK'
    BY <1>1 DEF vars, world, IndInv, TypeOK
  <2>2. RolloutInv' /\ SentInv'
    BY <1>1 DEF vars, world, IndInv, RolloutInv, SentInv
  <2>. QED BY <2>1, <2>2 DEF IndInv
<1>2. CASE Tick
  <2>1. TypeOK'
    BY <1>2, AuthAssumption DEF Tick, world, IndInv, TypeOK
  <2>2. RolloutInv'
    BY <1>2 DEF Tick, world, IndInv, RolloutInv
  <2>3. SentInv'
    BY <1>2, AuthAssumption DEF Tick, world, IndInv, TypeOK, SentInv
  <2>. QED BY <2>1, <2>2, <2>3 DEF IndInv
<1>3. ASSUME NEW set \in Settings, Restart(set) PROVE IndInv'
  <2>1. TypeOK'
    <3>1. Load(set) \in Envs
      BY DEF Load, OrDev, Settings, Envs
    <3>. QED BY <1>3, <3>1 DEF Restart, world, IndInv, TypeOK
  <2>2. RolloutInv'
    BY <1>3 DEF Restart, Advised, world, IndInv, RolloutInv
  <2>3. SentInv'
    BY <1>3 DEF Restart, world, IndInv, SentInv
  <2>. QED BY <2>1, <2>2, <2>3 DEF IndInv
<1>4. ASSUME NEW d \in Devices, NEW b \in Builds, Upgrade(d, b) PROVE IndInv'
  <2>1. TypeOK'
    BY <1>4 DEF Upgrade, world, IndInv, TypeOK
  <2>2. RolloutInv'
    <3>1. orderly => b = env.secret /\ b \in Secrets
      BY <1>4, AuthAssumption DEF Upgrade, IndInv, TypeOK, Envs, Builds
    <3>. QED BY <1>4, <3>1 DEF Upgrade, world, IndInv, TypeOK, RolloutInv
  <2>3. SentInv'
    BY <1>4 DEF Upgrade, world, IndInv, TypeOK, SentInv
  <2>. QED BY <2>1, <2>2, <2>3 DEF IndInv
<1>5. ASSUME NEW d \in Devices, Send(d) \/ Arrive(d) PROVE IndInv'
  <2>1. TypeOK'
    BY <1>5 DEF Send, Arrive, world, IndInv, TypeOK
  <2>2. RolloutInv'
    BY <1>5 DEF Send, Arrive, world, IndInv, RolloutInv
  <2>3. SentInv'
    BY <1>5, AuthAssumption DEF Send, Arrive, world, IndInv, TypeOK, SentInv
  <2>. QED BY <2>1, <2>2, <2>3 DEF IndInv
<1>. QED BY <1>1, <1>2, <1>3, <1>4, <1>5 DEF Next

-----------------------------------------------------------------------------
(* Lemma: the scheme is that of the build. *)
LEMMA Schemes ==
    ASSUME TypeOK, NEW d \in Devices
    PROVE  /\ Scheme(d) = "hmac" <=> build[d] \in Secrets
           /\ build[d] \in {"none", "bearer"} => Scheme(d) = build[d]
BY AuthAssumption DEF TypeOK, Builds, Scheme

(* Lemma: what is answered to a build that signs, while a secret is set.      *)
LEMMA SignedAnswer ==
    ASSUME NEW d, NEW layout, NEW body, Scheme(d) = "hmac", env.secret # None
    PROVE  Answer(d, layout, body) = IF body = "oversize" THEN 400
                                     ELSE IF Verified(d, layout, body) THEN 200 ELSE 401
BY DEF Answer, PassesUnsigned

(* Lemma: what is answered to the others. *)
LEMMA UnsignedAnswer ==
    ASSUME NEW d, NEW layout, NEW body, Scheme(d) # "hmac" \/ env.secret = None
    PROVE  Answer(d, layout, body) = IF ~PassesUnsigned(d) THEN 401
                                     ELSE IF body = "oversize" THEN 413 ELSE 200
BY DEF Answer

(* Lemma: a parameter is a pair of strings, at a position that is an integer. *)
LEMMA Parameters ==
    ASSUME NEW layout \in Layouts
    PROVE  /\ DOMAIN layout \in SUBSET Int /\ IsFiniteSet(DOMAIN layout)
           /\ \A i \in DOMAIN layout : layout[i] = <<layout[i][1], layout[i][2]>>
<1>1. layout \in Seq(STRING \X STRING)
  BY AuthAssumption
<1>2. DOMAIN layout = 1..Len(layout) /\ Len(layout) \in Nat
  BY <1>1
<1>3. IsFiniteSet(1..Len(layout))
  BY <1>2, FS_Interval
<1>4. \A i \in DOMAIN layout : layout[i] \in STRING \X STRING
  BY <1>1
<1>. QED BY <1>2, <1>3, <1>4

(* Lemma: what parseHeader takes for complete is.                             *)
LEMMA ParsesComplete ==
    ASSUME NEW layout \in Layouts, Parses(layout), Signed(layout)
    PROVE  Complete(layout)
<1>1. PICK i \in DOMAIN layout : layout[i][1] = "t" /\ layout[i][2] = "unix"
  BY DEF Parses, Last
<1>2. PICK j \in DOMAIN layout : layout[j][1] = "sig" /\ layout[j][2] = "hmac"
  BY DEF Signed, Last
<1>3. layout[i] = <<"t", "unix">> /\ layout[j] = <<"sig", "hmac">>
  BY <1>1, <1>2, Parameters
<1>. QED BY <1>3 DEF Parses, Complete

(* Lemma: parseHeader finds t and sig in a header that has them once, in      *)
(* whatever order and among whatever other parameters.                        *)
LEMMA ConformingParses ==
    ASSUME NEW layout \in Conforming
    PROVE  Parses(layout) /\ Signed(layout)
<1>. DEFINE Both == {k \in DOMAIN layout : layout[k][1] \in {"t", "sig"}}
<1>1. layout \in Layouts /\ Complete(layout) /\ Cardinality(Both) = 2
  BY DEF Conforming
<1>2. PICK i, j \in DOMAIN layout : layout[i] = <<"t", "unix">> /\ layout[j] = <<"sig", "hmac">>
  BY <1>1 DEF Complete
<1>3. /\ layout[i][1] = "t" /\ layout[i][2] = "unix"
      /\ layout[j][1] = "sig" /\ layout[j][2] = "hmac" /\ i # j
  BY <1>2
<1>4. DOMAIN layout \in SUBSET Int /\ IsFiniteSet(DOMAIN layout)
  BY <1>1, Parameters
<1>5. Both = {i} \cup {j}
  <2>1. IsFiniteSet(Both) /\ {i} \cup {j} \in SUBSET Both
    BY <1>3, <1>4, FS_Subset
  <2>2. IsFiniteSet({i}) /\ Cardinality({i}) = 1 /\ j \notin {i}
    BY <1>3, FS_Singleton
  <2>3. Cardinality({i} \cup {j}) = Cardinality({i}) + 1
    BY <2>2, FS_AddElement
  <2>4. Cardinality({i} \cup {j}) = 2
    BY <2>2, <2>3
  <2>. QED BY <1>1, <2>1, <2>4, FS_Subset
<1>6. i \in Last(layout, "t") /\ j \in Last(layout, "sig")
  <2>1. \A k \in DOMAIN layout : layout[k][1] \in {"t", "sig"} => k \in {i, j}
    BY <1>5
  <2>. QED BY <1>3, <1>4, <2>1 DEF Last
<1>. QED BY <1>1, <1>3, <1>6 DEF Parses, Signed, Complete

(* Lemma: a request was sent at some time, by a clock that is some time off.  *)
LEMMA Moments ==
    ASSUME IndInv, NEW d \in Devices, request[d] # None
    PROVE  /\ now \in Int /\ request[d] \in Int /\ offset[d] \in Int
           /\ request[d] <= now
<1>1. /\ request \in [Devices -> {None} \cup 0..MaxTime]
      /\ now \in 0..MaxTime /\ offset \in [Devices -> Offsets]
  BY DEF IndInv, TypeOK
<1>2. request[d] <= now
  BY DEF IndInv, SentInv
<1>3. MaxTime \in Nat /\ Offsets \subseteq Int
  BY AuthAssumption
<1>4. request[d] \in 0..MaxTime /\ offset[d] \in Offsets
  BY <1>1
<1>5. request[d] \in Int
  BY <1>3, <1>4
<1>6. now \in Int
  BY <1>1, <1>3
<1>7. offset[d] \in Int
  BY <1>3, <1>4
<1>. QED BY <1>2, <1>5, <1>6, <1>7

(* Lemma: what Verify makes of two times is their distance, unless a Duration *)
(* cannot hold it.                                                            *)
LEMMA SkewIs ==
    ASSUME NEW d, now \in Int, request[d] \in Int, offset[d] \in Int
    PROVE  /\ Ahead(d) < -MaxDuration => Skew(d) = MaxDuration
           /\ -MaxDuration <= Ahead(d) /\ Ahead(d) < 0 => Skew(d) = -Ahead(d)
           /\ 0 <= Ahead(d) /\ Ahead(d) <= MaxDuration => Skew(d) = Ahead(d)
           /\ MaxDuration < Ahead(d) => Skew(d) = -MaxDuration - 1
<1>1. MaxDuration \in Int /\ MaxDuration >= 0 /\ Ahead(d) \in Int
  BY AuthAssumption DEF Ahead
<1>2. now - (request[d] + offset[d]) = -Ahead(d)
  BY DEF Ahead
<1>3. Sub(now, request[d] + offset[d]) =
          IF -Ahead(d) > MaxDuration THEN MaxDuration
          ELSE IF -Ahead(d) < -MaxDuration - 1 THEN -MaxDuration - 1 ELSE -Ahead(d)
  BY <1>1, <1>2 DEF Sub
<1>. QED BY <1>1, <1>3 DEF Skew

(* Lemma: the skew is at most the time under way and the error of the clock.  *)
LEMMA SkewBound ==
    ASSUME IndInv, NEW d \in Devices, request[d] # None
    PROVE  LET drift == IF offset[d] < 0 THEN -offset[d] ELSE offset[d]
           IN /\ Skew(d) \in Int /\ now - request[d] + drift \in Int
              /\ Skew(d) <= now - request[d] + drift
<1>1. /\ now \in Int /\ request[d] \in Int /\ offset[d] \in Int
      /\ request[d] <= now /\ MaxDuration \in Nat
  BY Moments, AuthAssumption
<1>2. /\ Ahead(d) < -MaxDuration => Skew(d) = MaxDuration
      /\ -MaxDuration <= Ahead(d) /\ Ahead(d) < 0 => Skew(d) = -Ahead(d)
      /\ 0 <= Ahead(d) /\ Ahead(d) <= MaxDuration => Skew(d) = Ahead(d)
      /\ MaxDuration < Ahead(d) => Skew(d) = -MaxDuration - 1
  BY <1>1, SkewIs
<1>. QED BY <1>1, <1>2 DEF Ahead

-----------------------------------------------------------------------------
(* The theorems. *)

(* Theorem: the inductive invariant holds throughout. *)
THEOREM Invariance == Spec => []IndInv
BY InitIndInv, NextIndInv, PTL DEF Spec

(* Theorem: every variable keeps its type; the server is up exactly when the  *)
(* environment passed validateProductionSafety.                               *)
THEOREM TypeCorrectness == Spec => []TypeOK
<1>1. IndInv => TypeOK
  BY DEF IndInv
<1>. QED BY <1>1, Invariance, PTL

(* Theorem: no request that is unsigned, altered, signed with another secret  *)
(* or over the cap reaches a handler once signatures are required, in         *)
(* whatever order settings and builds were changed.                           *)
THEOREM SignedOnly == Spec => []RequireServesSignedOnly
<1>1. IndInv => RequireServesSignedOnly
  <2>. SUFFICES ASSUME TypeOK, NEW d \in Devices, NEW layout \in Layouts, NEW body \in Bodies,
                       Answer(d, layout, body) = 200
                PROVE  /\ body # "oversize"
                       /\ env.require => /\ build[d] \in Secrets /\ build[d] = env.secret
                                         /\ body = "as sent"
    BY DEF IndInv, RequireServesSignedOnly, Pending
  <2>1. CASE Scheme(d) = "hmac" /\ env.secret # None
    <3>1. body # "oversize" /\ Verified(d, layout, body)
      BY <2>1, SignedAnswer
    <3>2. build[d] = env.secret /\ body = "as sent"
      BY <3>1 DEF Verified
    <3>. QED BY <2>1, <3>1, <3>2, Schemes
  <2>2. CASE Scheme(d) # "hmac" \/ env.secret = None
    <3>1. body # "oversize" /\ PassesUnsigned(d)
      BY <2>2, UnsignedAnswer
    <3>2. ~env.require
      BY <3>1 DEF PassesUnsigned
    <3>. QED BY <3>1, <3>2
  <2>. QED BY <2>1, <2>2
<1>. QED BY <1>1, Invariance, PTL

(* Theorem: what claims a signature and is served is complete, signed with    *)
(* the secret the server has by then, as it was sent, and within the window   *)
(* of its clock, whatever was changed or waited for since.                    *)
THEOREM VerifiedClaims == Spec => []ClaimsVerified
<1>1. IndInv => ClaimsVerified
  <2>. SUFFICES ASSUME IndInv,
                       NEW d \in Pending, NEW layout \in Layouts, NEW body \in Bodies
                PROVE  Scheme(d) = "hmac" /\ Answer(d, layout, body) = 200 =>
                           /\ Complete(layout) /\ build[d] = env.secret /\ body = "as sent"
                           /\ Timely(d) \/ Ahead(d) > MaxDuration
    BY DEF ClaimsVerified
  <2>. HAVE Scheme(d) = "hmac" /\ Answer(d, layout, body) = 200
  <2>0. d \in Devices /\ request[d] # None
    BY DEF Pending
  <2>1. env.secret # None
    BY DEF Answer, PassesUnsigned
  <2>2. Verified(d, layout, body)
    BY <2>0, <2>1, SignedAnswer
  <2>3. Complete(layout)
    BY <2>2, ParsesComplete DEF Verified
  <2>4. now \in Int /\ request[d] \in Int /\ offset[d] \in Int
    BY <2>0, Moments
  <2>5. Skew(d) <= MaxSkew
    BY <2>2 DEF Verified
  <2>6. /\ MaxSkew \in Int /\ MaxDuration \in Int /\ MaxSkew < MaxDuration
        /\ Ahead(d) \in Int
    BY <2>4, AuthAssumption DEF Ahead
  <2>7. /\ Ahead(d) < -MaxDuration => Skew(d) = MaxDuration
        /\ -MaxDuration <= Ahead(d) /\ Ahead(d) < 0 => Skew(d) = -Ahead(d)
        /\ 0 <= Ahead(d) /\ Ahead(d) <= MaxDuration => Skew(d) = Ahead(d)
    BY <2>0, <2>4, SkewIs DEF Ahead
  <2>8. Timely(d) \/ Ahead(d) > MaxDuration
    BY <2>5, <2>6, <2>7 DEF Timely
  <2>. QED BY <2>2, <2>3, <2>8 DEF Verified
<1>. QED BY <1>1, Invariance, PTL

(* Theorem: a rollout in the advised order locks no device out.               *)
THEOREM NobodyLockedOut == Spec => []NeverLockedOut
<1>1. IndInv => NeverLockedOut
  <2>. DEFINE drift(d) == IF offset[d] < 0 THEN -offset[d] ELSE offset[d]
  <2>. SUFFICES ASSUME IndInv, orderly, NEW d \in Devices, request[d] # None,
                       NEW layout \in Conforming
                PROVE  \/ Answer(d, layout, "as sent") = 200
                       \/ Scheme(d) = "hmac" /\ now - request[d] + drift(d) > MaxSkew
    BY DEF NeverLockedOut, Pending
  <2>1. CASE build[d] \in Secrets
    <3>1. Scheme(d) = "hmac" /\ build[d] = env.secret /\ env.secret # None
      BY <2>1, Schemes, AuthAssumption DEF IndInv, RolloutInv
    <3>2. Skew(d) <= MaxSkew \/ now - request[d] + drift(d) > MaxSkew
      BY SkewBound, AuthAssumption
    <3>3. Skew(d) <= MaxSkew => Verified(d, layout, "as sent")
      BY <3>1, ConformingParses DEF Verified
    <3>4. Verified(d, layout, "as sent") => Answer(d, layout, "as sent") = 200
      BY <3>1 DEF Answer, PassesUnsigned
    <3>. QED BY <3>1, <3>2, <3>3, <3>4
  <2>2. CASE build[d] \in {"none", "bearer"}
    <3>1. ~env.require
      BY <2>2, AuthAssumption DEF IndInv, TypeOK, RolloutInv, Envs
    <3>2. Scheme(d) \in {"none", "bearer"}
      BY <2>2, Schemes DEF IndInv
    <3>3. PassesUnsigned(d) /\ Scheme(d) # "hmac"
      BY <3>1, <3>2 DEF PassesUnsigned
    <3>4. Answer(d, layout, "as sent") = 200
      BY <3>3 DEF Answer
    <3>. QED BY <3>4
  <2>. QED BY <2>1, <2>2 DEF IndInv, RolloutInv
<1>. QED BY <1>1, Invariance, PTL
=============================================================================
