------------------------ MODULE ConfigDeliveryProofs ------------------------
(* Theorems about ConfigDelivery, for any sets of versions, documents and     *)
(* devices.                                                                   *)
EXTENDS ConfigDelivery, FiniteSetTheorems, TLAPS

(* No two active rows carry one target. *)
ActiveInv == \A v, w \in active : row[v] = row[w] => v = w

(* A row is of a document that the validation let through, and its columns    *)
(* are that document's selectors.                                             *)
ColumnInv == \A v \in Rows :
    CertConfigValid(document[v]) /\ row[v] = TargetOf(document[v])

(* The device is in the target of the row, and that target is served.         *)
Eligible(d, v) == /\ v \in Rows /\ Matches(row[v], identity[d])
                  /\ \E w \in active : row[w] = row[v]

CacheInv == \A d \in Devices : cached[d] # NoRow => Eligible(d, cached[d])

(* A document on its way is the device's, and no step down from the one that  *)
(* it keeps; that there is none is told to devices that keep none.            *)
ReplyInv == \A d \in Devices :
    /\ reply[d].status = 200 =>
           /\ Eligible(d, reply[d].version)
           /\ cached[d] # NoRow =>
                  LET old == row[cached[d]]
                      new == row[reply[d].version]
                  IN new = old \/ Rank(new) > Rank(old)
    /\ reply[d].status = 503 => cached[d] = NoRow

IndInv == TypeOK /\ ActiveInv /\ ColumnInv /\ CacheInv /\ ReplyInv

-----------------------------------------------------------------------------
(* The order by of the query, for any table. *)

(* Lemma: targets of equal rank constrain the same selectors.                 *)
LEMMA EqualRank ==
    ASSUME NEW t \in Targets, NEW u \in Targets, Rank(t) = Rank(u)
    PROVE  \A s \in Selectors : t[s] = Null <=> u[s] = Null
BY DEF Rank, Selectors

(* Lemma: two targets of equal rank that match one device are the same.       *)
LEMMA EqualRankMatch ==
    ASSUME NEW t \in Targets, NEW u \in Targets, NEW dev,
           Rank(t) = Rank(u), Matches(t, dev), Matches(u, dev)
    PROVE  t = u
<1>1. ASSUME NEW s \in Selectors PROVE t[s] = u[s]
  BY EqualRank DEF Matches
<1>. QED BY <1>1 DEF Targets

(* Theorem: when no two active rows carry the same target, as the index       *)
(* cert_config_active_per_target enforces, the order by leaves one row for    *)
(* every device and created_at never decides.                                 *)
THEOREM ResolutionUnambiguous ==
    ASSUME NEW rows, NEW served, \A v \in served : rows[v] \in Targets,
           \A v, w \in served : rows[v] = rows[w] => v = w,
           NEW dev,
           NEW v \in Best(rows, served, dev), NEW w \in Best(rows, served, dev)
    PROVE  v = w
<1>1. v \in served /\ w \in served /\ Matches(rows[v], dev) /\ Matches(rows[w], dev)
  BY DEF Best, Candidates
<1>2. Rank(rows[v]) \in Nat /\ Rank(rows[w]) \in Nat
  BY DEF Rank
<1>3. Rank(rows[v]) = Rank(rows[w])
  BY <1>2 DEF Best
<1>. QED BY <1>1, <1>3, EqualRankMatch

(* Theorem: a device that some active row matches is given one, whatever the  *)
(* ranks: the order by always has a first row.                                *)
THEOREM ResolutionTotal ==
    ASSUME NEW served, NEW rows, NEW dev, Candidates(rows, served, dev) # {}
    PROVE  Best(rows, served, dev) # {}
<1>. DEFINE C == Candidates(rows, served, dev)
            has(n) == \E v \in C : Rank(rows[v]) = n
<1>1. \A v \in C : Rank(rows[v]) \in 0..7
  BY DEF Rank
<1>2. ASSUME NEW n \in 0..7, has(n), \A m \in 0..7 : m > n => ~has(m)
      PROVE  Best(rows, served, dev) # {}
  <2>1. PICK v \in C : Rank(rows[v]) = n
    BY <1>2
  <2>2. \A w \in C : Rank(rows[w]) <= n
    BY <1>1, <1>2
  <2>. QED BY <2>1, <2>2 DEF Best
<1>3. \E n \in 0..7 : has(n) /\ \A m \in 0..7 : m > n => ~has(m)
  <2>1. has(0) \/ has(1) \/ has(2) \/ has(3) \/ has(4) \/ has(5) \/ has(6) \/ has(7)
    BY <1>1
  <2>. HIDE DEF has
  <2>. QED BY <2>1
<1>. QED BY <1>2, <1>3

-----------------------------------------------------------------------------
(* The documents. *)

(* Lemma: an accepted document's version is one of Versions, and what         *)
(* stringPtrFromDoc makes of its selectors is a target.                       *)
LEMMA AcceptedColumns ==
    ASSUME NEW doc \in Drafts, CertConfigValid(doc)
    PROVE  Field(doc, "configVersion").text \in Versions /\ TargetOf(doc) \in Targets
<1>1. Field(doc, "configVersion").text \in Versions
  BY DraftAssumption DEF CertConfigValid, WellWritten
<1>2. ASSUME NEW s \in Selectors
      PROVE  StringPtrFromDoc(Field(doc, SelectorField[s])) \in Values \cup {Null}
  <2>. DEFINE v == Field(doc, SelectorField[s])
  <2>1. SelectorValid(v)
    BY DEF CertConfigValid, SelectorField, Selectors
  <2>2. v.kind = "string" => v.bytes \in Nat /\ (v.bytes \in 1..255 => v.text \in Values)
    BY DraftAssumption DEF WellWritten
  <2>. HIDE DEF v
  <2>3. NonEmptyString(v) => v.text \in Values
    <3>1. NonEmptyString(v) => v.bytes \in 1..255
      BY <2>1, <2>2 DEF SelectorValid, Optional, ShortString, NonEmptyString
    <3>. QED BY <2>2, <3>1 DEF NonEmptyString
  <2>4. StringPtrFromDoc(v) \in Values \cup {Null}
    BY <2>3 DEF StringPtrFromDoc
  <2>. QED BY <2>4 DEF v
<1>. QED BY <1>1, <1>2 DEF TargetOf, Targets

(* Lemma: a device that matches the columns of an accepted document is meant  *)
(* by its selectors: none that says something is dropped.                     *)
LEMMA AcceptedMeantFor ==
    ASSUME NEW doc \in Drafts, CertConfigValid(doc), NEW dev, Matches(TargetOf(doc), dev)
    PROVE  MeantFor(doc, dev)
<1>1. SUFFICES ASSUME NEW s \in Selectors
      PROVE  LET v == Field(doc, SelectorField[s])
             IN Optional(v) \/ (v.kind = "string" /\ (v.bytes = 0 \/ v.text = dev[s]))
  BY DEF MeantFor
<1>. DEFINE v == Field(doc, SelectorField[s])
<1>2. SelectorValid(v)
  BY DEF CertConfigValid, SelectorField, Selectors
<1>3. v.kind = "string" => v.bytes \in Nat /\ (v.bytes \in 1..255 => v.text \in Values)
  BY DraftAssumption DEF WellWritten
<1>4. StringPtrFromDoc(v) = Null \/ StringPtrFromDoc(v) = dev[s]
  BY DEF Matches, TargetOf
<1>. HIDE DEF v
<1>5. CASE NonEmptyString(v)
  <2>1. v.bytes \in 1..255
    BY <1>2, <1>3, <1>5 DEF SelectorValid, Optional, ShortString, NonEmptyString
  <2>2. v.kind = "string" /\ v.text \in Values
    BY <1>3, <1>5, <2>1 DEF NonEmptyString
  <2>3. v.text = dev[s]
    BY <1>4, <1>5, <2>2, ResolutionAssumption DEF StringPtrFromDoc
  <2>. QED BY <2>2, <2>3 DEF v
<1>6. CASE ~NonEmptyString(v)
  <2>1. v.kind = "string" => v.bytes = 0
    BY <1>3, <1>6 DEF NonEmptyString
  <2>2. Optional(v) \/ v.kind = "string"
    BY <1>2 DEF SelectorValid, ShortString
  <2>. QED BY <2>1, <2>2 DEF v
<1>. QED BY <1>5, <1>6

(* Lemma: on a descending scale every named band is the verdict on the        *)
(* reading at which it begins, if there is one.                               *)
LEMMA ScaleReachable ==
    ASSUME NEW o, NEW readings \in SUBSET Int, NEW top, NEW mid, NEW low,
           \A key \in {top, mid, low} : \E x \in readings : Field(o, key).tenths = 10 * x,
           Descending(o, top, mid, low)
    PROVE  BandsReachable(o, readings, top, mid, low)
<1>. DEFINE a == Field(o, top).tenths
            b == Field(o, mid).tenths
            c == Field(o, low).tenths
<1>1. PICK x \in readings, y \in readings, z \in readings :
          a = 10 * x /\ b = 10 * y /\ c = 10 * z
  OBVIOUS
<1>2. a \in Int /\ b \in Int /\ c \in Int /\ a > b /\ b > c
  BY <1>1 DEF Descending
<1>3. x \in Int /\ y \in Int /\ z \in Int
  OBVIOUS
<1>4. 10 * x >= a /\ ~(10 * x < a) /\ 10 * y >= b /\ 10 * z >= c
  BY <1>1, <1>2, <1>3
<1>5. 10 * x >= b /\ ~(10 * x < b) /\ 10 * y < a /\ ~(10 * y >= a) /\ ~(10 * y < b)
  BY <1>1, <1>2, <1>3
<1>6. 10 * z < b /\ ~(10 * z >= b) /\ ~(10 * z >= a)
  BY <1>1, <1>2, <1>3
<1>7. Verdict(o, x, top, mid, low) = "excellent"
  BY <1>4, <1>5 DEF Verdict
<1>8. Verdict(o, y, top, mid, low) = "strong"
  BY <1>4, <1>5 DEF Verdict
<1>9. Verdict(o, z, top, mid, low) = "good"
  BY <1>4, <1>6 DEF Verdict
<1>. QED BY <1>7, <1>8, <1>9 DEF BandsReachable

(* Lemma: the validation leaves no document whose bands or tests make no      *)
(* sense.                                                                     *)
LEMMA AcceptedUsable ==
    ASSUME NEW doc \in Drafts, CertConfigValid(doc)
    PROVE  Usable(doc)
<1>1. ASSUME NEW o, IsObject(o), WholeNumbers(o), NEW key, Integer(Field(o, key))
      PROVE  Integral(Field(o, key))
  BY <1>1 DEF WholeNumbers, Field, Absent, Integer
<1>2. BandsReachable(Field(doc, "wifiLinkQuality"), -100..0,
                     "excellentRssiMin", "strongRssiMin", "goodRssiMin")
  <2>. DEFINE o == Field(doc, "wifiLinkQuality")
  <2>1. CASE IsObject(o)
    <3>1. WifiValid(o) /\ WholeNumbers(o)
      BY <2>1, DraftAssumption DEF CertConfigValid, WellWritten
    <3>. HIDE DEF o
    <3>2. Descending(o, "excellentRssiMin", "strongRssiMin", "goodRssiMin")
      BY <3>1 DEF WifiValid
    <3>3. \A key \in {"excellentRssiMin", "strongRssiMin", "goodRssiMin"} :
              \E x \in -100..0 : Field(o, key).tenths = 10 * x
      <4>1. SUFFICES ASSUME NEW v, IntRange(v, -100, 0), Integral(v)
                     PROVE  \E x \in -100..0 : v.tenths = 10 * x
        BY <2>1, <3>1, <1>1 DEF WifiValid, IntRange
      <4>2. v.tenths \in Int /\ v.tenths = 10 * (v.tenths \div 10) /\ v.tenths \div 10 \in Int
        BY <4>1 DEF IntRange, Integral
      <4>. QED BY <4>1, <4>2 DEF IntRange
    <3>. QED BY <3>2, <3>3, ScaleReachable DEF o
  <2>2. CASE ~IsObject(o)
    BY <2>2 DEF BandsReachable
  <2>. QED BY <2>1, <2>2
<1>3. BandsReachable(Field(doc, "healthAssessment"), 1..100,
                     "excellentMin", "strongMin", "goodMin")
  <2>. DEFINE o == Field(doc, "healthAssessment")
  <2>1. CASE IsObject(o)
    <3>1. HealthValid(o) /\ WholeNumbers(o)
      BY <2>1, DraftAssumption DEF CertConfigValid, WellWritten
    <3>. HIDE DEF o
    <3>2. Descending(o, "excellentMin", "strongMin", "goodMin")
      BY <3>1 DEF HealthValid
    <3>3. \A key \in {"excellentMin", "strongMin", "goodMin"} :
              \E x \in 1..100 : Field(o, key).tenths = 10 * x
      <4>1. SUFFICES ASSUME NEW v, IntRange(v, 1, 100), Integral(v)
                     PROVE  \E x \in 1..100 : v.tenths = 10 * x
        BY <2>1, <3>1, <1>1 DEF HealthValid, IntRange
      <4>2. v.tenths \in Int /\ v.tenths = 10 * (v.tenths \div 10) /\ v.tenths \div 10 \in Int
        BY <4>1 DEF IntRange, Integral
      <4>. QED BY <4>1, <4>2 DEF IntRange
    <3>. QED BY <3>2, <3>3, ScaleReachable DEF o
  <2>2. CASE ~IsObject(o)
    BY <2>2 DEF BandsReachable
  <2>. QED BY <2>1, <2>2
<1>4. LET tests == Field(doc, "tests")
      IN /\ \A t \in {"download", "upload"} : Field(Field(tests, t), "parallel").tenths >= 10
         /\ Field(Field(tests, "playback"), "durationSec").tenths > 0
  <2>. DEFINE tests == Field(doc, "tests")
  <2>1. TestsValid(tests) /\ IsObject(tests)
    BY DEF CertConfigValid, TestsValid
  <2>2. \A key \in DOMAIN tests.fields : WholeNumbers(tests.fields[key])
    BY <2>1, DraftAssumption DEF WellWritten
  <2>. HIDE DEF tests
  <2>3. ASSUME NEW key, IsObject(Field(tests, key)) PROVE WholeNumbers(Field(tests, key))
    BY <2>2, <2>3 DEF Field, IsObject, Absent
  <2>4. ASSUME NEW t \in {"download", "upload"}
        PROVE  Field(Field(tests, t), "parallel").tenths >= 10
    <3>1. IsObject(Field(tests, t)) /\ IntRange(Field(Field(tests, t), "parallel"), 1, 16)
      BY <2>1 DEF TestsValid, ThroughputValid
    <3>2. /\ Field(Field(tests, t), "parallel").tenths \in Int
          /\ 10 * 1 <= Field(Field(tests, t), "parallel").tenths
      BY <3>1, <2>3, <1>1 DEF IntRange, Integral
    <3>. QED BY <3>2
  <2>5. Field(Field(tests, "playback"), "durationSec").tenths > 0
    <3>1. /\ IsObject(Field(tests, "playback"))
          /\ IntRange(Field(Field(tests, "playback"), "durationSec"), 5, 120)
      BY <2>1 DEF TestsValid
    <3>2. /\ Field(Field(tests, "playback"), "durationSec").tenths \in Int
          /\ 10 * 5 <= Field(Field(tests, "playback"), "durationSec").tenths
      BY <3>1, <2>3, <1>1 DEF IntRange, Integral
    <3>. QED BY <3>2
  <2>. QED BY <2>4, <2>5 DEF tests
<1>. QED BY <1>2, <1>3, <1>4 DEF Usable

-----------------------------------------------------------------------------
(* Resolution in a reachable table. *)

(* Lemma: a configured device resolves to an active row that matches it and   *)
(* that no other one outranks.                                                *)
LEMMA ResolvedIsBest ==
    ASSUME IndInv, NEW d \in Devices, Configured(d)
    PROVE  Resolved(d) \in Best(row, active, identity[d])
<1>. DEFINE best == Best(row, active, identity[d])
<1>1. PICK v \in best : TRUE
  BY ResolutionTotal DEF Configured
<1>2. /\ \A w \in best : w \in active /\ w \in Versions /\ row[w] \in Targets
      /\ \A w \in best : createdAt[w] \in Nat
  BY DEF Best, Candidates, IndInv, TypeOK
<1>3. ASSUME NEW w \in best PROVE w = v
  <2>1. /\ \A x \in active : row[x] \in Targets
        /\ \A x, y \in active : row[x] = row[y] => x = y
    BY DEF IndInv, TypeOK, ActiveInv
  <2>. QED BY <2>1, ResolutionUnambiguous
<1>4. \A w \in best : createdAt[w] <= createdAt[v]
  BY <1>2, <1>3
<1>5. \E x \in best : \A w \in best : createdAt[w] <= createdAt[x]
  BY <1>1, <1>4
<1>. QED BY <1>5 DEF Resolved, Resolve

(* Lemma: what is resolved now is no step down from a row of a target that    *)
(* is served and that the device is in.                                       *)
LEMMA ResolvedNoStepDown ==
    ASSUME IndInv, NEW d \in Devices, Configured(d)
    PROVE  /\ Eligible(d, Resolved(d))
           /\ \A v : Eligible(d, v) => \/ row[Resolved(d)] = row[v]
                                      \/ Rank(row[Resolved(d)]) > Rank(row[v])
<1>. DEFINE u == Resolved(d)
<1>1. /\ u \in Candidates(row, active, identity[d])
      /\ \A w \in Candidates(row, active, identity[d]) : Rank(row[w]) <= Rank(row[u])
  BY ResolvedIsBest DEF Best
<1>. HIDE DEF u
<1>2. u \in active /\ Matches(row[u], identity[d]) /\ u \in Rows
  BY <1>1 DEF Candidates, IndInv, TypeOK, Rows
<1>3. Eligible(d, u)
  BY <1>2 DEF Eligible
<1>4. ASSUME NEW v, Eligible(d, v), row[u] # row[v]
      PROVE  Rank(row[u]) > Rank(row[v])
  <2>1. PICK w \in active : row[w] = row[v]
    BY <1>4 DEF Eligible
  <2>2. Matches(row[v], identity[d]) /\ row[v] \in Targets /\ row[u] \in Targets
    BY <1>2, <1>4 DEF Eligible, Rows, IndInv, TypeOK
  <2>3. Rank(row[v]) <= Rank(row[u])
    <3>1. w \in Candidates(row, active, identity[d])
      BY <2>1, <2>2 DEF Candidates
    <3>. QED BY <1>1, <2>1, <3>1
  <2>4. Rank(row[v]) # Rank(row[u])
    BY <1>2, <1>4, <2>2, EqualRankMatch
  <2>5. Rank(row[v]) \in Nat /\ Rank(row[u]) \in Nat
    BY DEF Rank
  <2>. QED BY <2>3, <2>4, <2>5
<1>. QED BY <1>3, <1>4 DEF u

(* Lemma: a device that may be served a row is configured. *)
LEMMA EligibleConfigured ==
    ASSUME NEW d \in Devices, NEW v, Eligible(d, v)
    PROVE  Configured(d)
BY DEF Eligible, Configured, Candidates

-----------------------------------------------------------------------------
(* One lemma per action: the action preserves the inductive invariant.        *)

(* Lemma: Init establishes the inductive invariant. *)
LEMMA InitIndInv == Init => IndInv
<1>. SUFFICES ASSUME Init PROVE IndInv
  OBVIOUS
<1>1. TypeOK
  <2>1. 0 \in 0..Cardinality(Versions)
    BY DeliveryAssumption, FS_CardinalityType
  <2>2. NoReply \in [status : {0} \cup Statuses, version : Versions \cup {NoRow}]
    BY DEF NoReply
  <2>. QED BY <2>1, <2>2 DEF Init, TypeOK
<1>2. ActiveInv /\ ColumnInv /\ CacheInv
  BY DEF Init, ActiveInv, ColumnInv, CacheInv, Rows
<1>3. ReplyInv
  BY DEF Init, ReplyInv, NoReply
<1>. QED BY <1>1, <1>2, <1>3 DEF IndInv

(* Lemma: what a device may be served it still may, when rows stay and each   *)
(* active row gives way to one of its target only.                            *)
LEMMA EligibleStays ==
    ASSUME UNCHANGED identity, \A v \in Rows : v \in Rows' /\ row'[v] = row[v],
           active \subseteq Rows, \A v \in active : \E w \in active' : row'[w] = row[v],
           NEW d, NEW v, Eligible(d, v)
    PROVE  Eligible(d, v)'
BY DEF Eligible

(* Lemma: neither a device nor a reply notices such a change of the table.    *)
LEMMA TableStep ==
    ASSUME IndInv, UNCHANGED device, \A v \in Rows : v \in Rows' /\ row'[v] = row[v],
           \A v \in active : \E w \in active' : row'[w] = row[v]
    PROVE  CacheInv' /\ ReplyInv'
<1>1. /\ identity' = identity /\ cached' = cached /\ reply' = reply
      /\ active \subseteq Rows
  BY DEF device, IndInv, TypeOK, Rows
<1>2. \A d, v : Eligible(d, v) => Eligible(d, v)' /\ v \in Rows
  BY <1>1, EligibleStays DEF Eligible
<1>3. CacheInv'
  BY <1>1, <1>2 DEF IndInv, CacheInv
<1>4. ReplyInv'
  BY <1>1, <1>2 DEF IndInv, CacheInv, ReplyInv
<1>. QED BY <1>3, <1>4

(* Lemma: a created row is new and of no target that was served.              *)
LEMMA CreateIndInv ==
    ASSUME IndInv, NEW doc \in Drafts, CreateCertConfig(doc)
    PROVE  IndInv'
<1>. DEFINE v == Field(doc, "configVersion").text
<1>1. /\ CertConfigValid(doc) /\ v \notin Rows
      /\ row' = [row EXCEPT ![v] = TargetOf(doc)]
      /\ createdAt' = [createdAt EXCEPT ![v] = Cardinality(Rows) + 1]
      /\ document' = [document EXCEPT ![v] = doc]
      /\ active' = active /\ UNCHANGED device
  BY DEF CreateCertConfig
<1>2. v \in Versions /\ TargetOf(doc) \in Targets
  BY <1>1, AcceptedColumns
<1>. HIDE DEF v
<1>3. NoRow \notin Targets /\ NoRow # doc
  BY DeliveryAssumption
<1>4. \A w \in Rows : w # v /\ w \in Rows' /\ row'[w] = row[w] /\ document'[w] = document[w]
  BY <1>1, <1>2, <1>3 DEF Rows, IndInv, TypeOK
<1>5. active \subseteq Rows
  BY DEF IndInv, TypeOK, Rows
<1>6. TypeOK'
  <2>1. row' \in [Versions -> Targets \cup {NoRow}]
    BY <1>1, <1>2 DEF IndInv, TypeOK
  <2>2. active' \subseteq {w \in Versions : row'[w] # NoRow}
    BY <1>1, <1>4, <1>5 DEF Rows
  <2>3. createdAt' \in [Versions -> 0..Cardinality(Versions)]
    <3>1. Rows \cup {v} \subseteq Versions /\ IsFiniteSet(Rows)
      BY <1>2, DeliveryAssumption, FS_Subset DEF Rows
    <3>2. Cardinality(Rows \cup {v}) = Cardinality(Rows) + 1
      BY <1>1, <3>1, FS_AddElement
    <3>3. Cardinality(Rows \cup {v}) <= Cardinality(Versions)
      BY <3>1, DeliveryAssumption, FS_Subset
    <3>4. Cardinality(Rows) \in Nat /\ Cardinality(Versions) \in Nat
      BY <3>1, DeliveryAssumption, FS_CardinalityType
    <3>5. Cardinality(Rows) + 1 \in 0..Cardinality(Versions)
      BY <3>2, <3>3, <3>4
    <3>. QED BY <1>1, <3>5 DEF IndInv, TypeOK
  <2>4. document' \in [Versions -> Drafts \cup {NoRow}]
    BY <1>1 DEF IndInv, TypeOK
  <2>5. \A w \in Versions : row'[w] = NoRow <=> document'[w] = NoRow
    BY <1>1, <1>2, <1>3 DEF IndInv, TypeOK
  <2>. QED BY <1>1, <2>1, <2>2, <2>3, <2>4, <2>5 DEF device, IndInv, TypeOK
<1>7. ActiveInv'
  BY <1>1, <1>4, <1>5 DEF IndInv, ActiveInv
<1>8. ColumnInv'
  <2>1. ASSUME NEW w \in Rows' PROVE w = v \/ w \in Rows
    BY <1>1, <1>2 DEF Rows, IndInv, TypeOK
  <2>2. row'[v] = TargetOf(doc) /\ document'[v] = doc
    BY <1>1, <1>2 DEF IndInv, TypeOK
  <2>. QED BY <1>1, <1>4, <2>1, <2>2 DEF IndInv, ColumnInv
<1>9. CacheInv' /\ ReplyInv'
  BY <1>1, <1>4, <1>5, TableStep
<1>. QED BY <1>6, <1>7, <1>8, <1>9 DEF IndInv

(* Lemma: an activation replaces the active row of one target.                *)
LEMMA ActivateIndInv ==
    ASSUME IndInv, NEW v \in Versions, Activate(v)
    PROVE  IndInv'
<1>1. /\ v \in Rows /\ active' = {w \in active : row[w] # row[v]} \cup {v}
      /\ row' = row /\ document' = document /\ createdAt' = createdAt /\ UNCHANGED device
  BY DEF Activate
<1>2. TypeOK'
  BY <1>1 DEF device, IndInv, TypeOK, Rows
<1>3. ActiveInv'
  BY <1>1 DEF IndInv, ActiveInv
<1>4. ColumnInv'
  BY <1>1 DEF IndInv, ColumnInv, Rows
<1>5. CacheInv' /\ ReplyInv'
  <2>1. \A w \in active : \E u \in active' : row'[u] = row[w]
    BY <1>1
  <2>2. \A w \in Rows : w \in Rows' /\ row'[w] = row[w]
    BY <1>1 DEF Rows
  <2>. QED BY <1>1, <2>1, <2>2, TableStep
<1>. QED BY <1>2, <1>3, <1>4, <1>5 DEF IndInv

(* Lemma: what a step of a device leaves alone. *)
LEMMA DeviceStep ==
    ASSUME IndInv, UNCHANGED <<table, identity>>
    PROVE  /\ ActiveInv' /\ ColumnInv'
           /\ \A d, v : Eligible(d, v)' <=> Eligible(d, v)
           /\ (/\ cached' \in [Devices -> Versions \cup {NoRow}]
               /\ poll' \in [Devices -> SchemaVersions \cup {Idle}]
               /\ reply' \in [Devices -> [status : {0} \cup Statuses,
                                          version : Versions \cup {NoRow}]]) => TypeOK'
<1>1. row' = row /\ active' = active /\ createdAt' = createdAt /\ document' = document
      /\ identity' = identity
  BY DEF table
<1>2. ActiveInv' /\ ColumnInv'
  BY <1>1 DEF IndInv, ActiveInv, ColumnInv, Rows
<1>3. \A d, v : Eligible(d, v)' <=> Eligible(d, v)
  BY <1>1 DEF Eligible, Rows
<1>4. ASSUME cached' \in [Devices -> Versions \cup {NoRow}],
             poll' \in [Devices -> SchemaVersions \cup {Idle}],
             reply' \in [Devices -> [status : {0} \cup Statuses, version : Versions \cup {NoRow}]]
      PROVE  TypeOK'
  BY <1>1, <1>4 DEF IndInv, TypeOK
<1>. QED BY <1>2, <1>3, <1>4

(* Lemma: a request alone promises nothing. *)
LEMMA PollIndInv ==
    ASSUME IndInv, NEW d \in Devices, NEW schema \in SchemaVersions, Poll(d, schema)
    PROVE  IndInv'
<1>1. /\ UNCHANGED <<table, identity>> /\ row' = row
      /\ cached' = cached /\ reply' = reply
      /\ poll' = [poll EXCEPT ![d] = schema]
  BY DEF Poll, table
<1>2. TypeOK'
  <2>1. poll' \in [Devices -> SchemaVersions \cup {Idle}]
    BY <1>1 DEF IndInv, TypeOK
  <2>. QED BY <1>1, <2>1, DeviceStep DEF IndInv, TypeOK
<1>3. CacheInv'
  BY <1>1, DeviceStep DEF IndInv, CacheInv
<1>4. ReplyInv'
  BY <1>1, DeviceStep DEF IndInv, ReplyInv
<1>. QED BY <1>1, <1>2, <1>3, <1>4, DeviceStep DEF IndInv

(* Lemma: a reply that promises no more than the handler may keeps the        *)
(* invariant.                                                                 *)
LEMMA SendIndInv ==
    ASSUME IndInv, NEW d \in Devices, NEW status \in Statuses, NEW v \in Versions \cup {NoRow},
           Send(d, status, v),
           status = 200 => /\ Eligible(d, v)
                           /\ \A w : Eligible(d, w) => \/ row[v] = row[w]
                                                       \/ Rank(row[v]) > Rank(row[w]),
           status = 503 => cached[d] = NoRow
    PROVE  IndInv'
<1>1. /\ UNCHANGED <<table, identity>> /\ row' = row
      /\ cached' = cached /\ poll' = poll
      /\ reply' = [reply EXCEPT ![d] = [status |-> status, version |-> v]]
  BY DEF Send, table
<1>2. TypeOK'
  <2>1. reply' \in [Devices -> [status : {0} \cup Statuses, version : Versions \cup {NoRow}]]
    BY <1>1 DEF IndInv, TypeOK
  <2>. QED BY <1>1, <2>1, DeviceStep DEF IndInv, TypeOK
<1>3. CacheInv'
  BY <1>1, DeviceStep DEF IndInv, CacheInv
<1>4. ReplyInv'
  <2>. SUFFICES ASSUME NEW e \in Devices
       PROVE  /\ reply'[e].status = 200 =>
                     /\ Eligible(e, reply'[e].version)
                     /\ cached[e] # NoRow =>
                            LET old == row[cached[e]]
                                new == row[reply'[e].version]
                            IN new = old \/ Rank(new) > Rank(old)
              /\ reply'[e].status = 503 => cached[e] = NoRow
    BY <1>1, DeviceStep DEF ReplyInv
  <2>1. CASE e = d
    <3>1. reply'[e].status = status /\ reply'[e].version = v
      BY <1>1, <2>1 DEF IndInv, TypeOK
    <3>2. cached[e] # NoRow => Eligible(e, cached[e])
      BY DEF IndInv, CacheInv
    <3>. QED BY <2>1, <3>1, <3>2
  <2>2. CASE e # d
    <3>1. reply'[e] = reply[e]
      BY <1>1, <2>2 DEF IndInv, TypeOK
    <3>. QED BY <3>1 DEF IndInv, ReplyInv
  <2>. QED BY <2>1, <2>2
<1>. QED BY <1>1, <1>2, <1>3, <1>4, DeviceStep DEF IndInv

(* Lemma: the handler answers with what resolves, or tells that there is none *)
(* to a device that keeps none.                                               *)
LEMMA HandlerIndInv ==
    ASSUME IndInv, NEW d \in Devices, RejectSchema(d) \/ Get(d) \/ GetStoreError(d)
    PROVE  IndInv'
<1>1. CASE RejectSchema(d)
  BY <1>1, SendIndInv DEF RejectSchema, Statuses
<1>2. CASE GetStoreError(d)
  BY <1>2, SendIndInv DEF GetStoreError, Statuses
<1>3. CASE ~Configured(d) /\ Send(d, 503, NoRow)
  <2>1. cached[d] = NoRow
    BY <1>3, EligibleConfigured DEF IndInv, CacheInv
  <2>. QED BY <1>3, <2>1, SendIndInv DEF Statuses
<1>4. CASE Configured(d) /\ Send(d, 304, NoRow)
  BY <1>4, SendIndInv DEF Statuses
<1>5. CASE Configured(d) /\ Send(d, 200, Resolved(d))
  <2>1. Resolved(d) \in Versions
    BY <1>5, ResolvedNoStepDown DEF Eligible, Rows
  <2>. QED BY <1>5, <2>1, ResolvedNoStepDown, SendIndInv DEF Statuses
<1>. QED BY <1>1, <1>2, <1>3, <1>4, <1>5 DEF Get

(* Lemma: the device keeps what it was promised, or nothing new.              *)
LEMMA ReplyEndsIndInv ==
    ASSUME IndInv, NEW d \in Devices, Deliver(d) \/ LoseReply(d)
    PROVE  IndInv'
<1>1. /\ UNCHANGED <<table, identity>> /\ row' = row
      /\ poll' = [poll EXCEPT ![d] = Idle]
      /\ reply' = [reply EXCEPT ![d] = NoReply]
      /\ \/ cached' = [cached EXCEPT ![d] = reply[d].version] /\ reply[d].status = 200
         \/ cached' = cached
  BY DEF Deliver, LoseReply, Done, table, IndInv, TypeOK
<1>2. reply[d].status = 200 => Eligible(d, reply[d].version) /\ reply[d].version \in Versions
  BY DEF IndInv, ReplyInv, Eligible, Rows
<1>3. TypeOK'
  <2>1. cached' \in [Devices -> Versions \cup {NoRow}]
    BY <1>1, <1>2 DEF IndInv, TypeOK
  <2>2. poll' \in [Devices -> SchemaVersions \cup {Idle}]
    BY <1>1 DEF IndInv, TypeOK
  <2>3. NoReply \in [status : {0} \cup Statuses, version : Versions \cup {NoRow}]
    BY DEF NoReply
  <2>4. reply' \in [Devices -> [status : {0} \cup Statuses, version : Versions \cup {NoRow}]]
    BY <1>1, <2>3 DEF IndInv, TypeOK
  <2>. QED BY <1>1, <2>1, <2>2, <2>4, DeviceStep
<1>4. ASSUME NEW e \in Devices
      PROVE  /\ e # d => cached'[e] = cached[e] /\ reply'[e] = reply[e]
             /\ cached'[d] = cached[d] \/ (reply[d].status = 200 /\ cached'[d] = reply[d].version)
             /\ reply'[d].status = 0
  BY <1>1 DEF IndInv, TypeOK, NoReply
<1>5. CacheInv'
  BY <1>1, <1>2, <1>4, DeviceStep DEF IndInv, CacheInv
<1>6. ReplyInv'
  <2>. SUFFICES ASSUME NEW e \in Devices
       PROVE  /\ reply'[e].status = 200 =>
                     /\ Eligible(e, reply'[e].version)
                     /\ cached'[e] # NoRow =>
                            LET old == row[cached'[e]]
                                new == row[reply'[e].version]
                            IN new = old \/ Rank(new) > Rank(old)
              /\ reply'[e].status = 503 => cached'[e] = NoRow
    BY <1>1, DeviceStep DEF ReplyInv
  <2>1. CASE e = d
    BY <2>1, <1>4
  <2>2. CASE e # d
    BY <2>2, <1>4 DEF IndInv, ReplyInv
  <2>. QED BY <2>1, <2>2
<1>. QED BY <1>1, <1>3, <1>5, <1>6, DeviceStep DEF IndInv

(* Lemma: Next preserves the inductive invariant, and so does stuttering.     *)
LEMMA NextIndInv == IndInv /\ [Next]_vars => IndInv'
<1>. SUFFICES ASSUME IndInv, [Next]_vars PROVE IndInv'
  OBVIOUS
<1>1. CASE UNCHANGED vars
  BY <1>1 DEF vars, IndInv, TypeOK, ActiveInv, ColumnInv, CacheInv, ReplyInv, Eligible, Rows
<1>2. CASE Operate
  BY <1>2, CreateIndInv, ActivateIndInv DEF Operate
<1>3. ASSUME NEW d \in Devices, NEW schema \in SchemaVersions, Poll(d, schema) PROVE IndInv'
  BY <1>3, PollIndInv
<1>4. ASSUME NEW d \in Devices, RejectSchema(d) \/ Get(d) \/ GetStoreError(d) PROVE IndInv'
  BY <1>4, HandlerIndInv
<1>5. ASSUME NEW d \in Devices, Deliver(d) \/ LoseReply(d) PROVE IndInv'
  BY <1>5, ReplyEndsIndInv
<1>. QED BY <1>1, <1>2, <1>3, <1>4, <1>5 DEF Next

-----------------------------------------------------------------------------
(* The theorems. *)

(* Theorem: the inductive invariant holds throughout. *)
THEOREM DeliveryInvariance == Spec => []IndInv
BY InitIndInv, NextIndInv, PTL DEF Spec

(* Theorem: every variable keeps its type; only stored rows are active, and a *)
(* row has a document exactly when it exists.                                 *)
THEOREM TypeCorrectness == Spec => []TypeOK
<1>1. IndInv => TypeOK
  BY DEF IndInv
<1>. QED BY <1>1, DeliveryInvariance, PTL

(* Theorem: a device that was once given a configuration is never told that   *)
(* there is none, whatever operators activate meanwhile.                      *)
THEOREM NoGapInService == Spec => []OnceServedAlwaysServed
<1>1. IndInv => OnceServedAlwaysServed
  BY DEF IndInv, ReplyInv, OnceServedAlwaysServed
<1>. QED BY <1>1, DeliveryInvariance, PTL

(* Theorem: a document reaches only devices that its selectors mean.          *)
THEOREM OnlyMeantDevices == Spec => []DeliveredAsMeant
<1>1. IndInv => DeliveredAsMeant
  <2>. SUFFICES ASSUME IndInv, NEW d \in Devices, cached[d] # NoRow
                PROVE  MeantFor(document[cached[d]], identity[d])
    BY DEF DeliveredAsMeant
  <2>1. cached[d] \in Rows /\ Matches(row[cached[d]], identity[d])
    BY DEF IndInv, CacheInv, Eligible
  <2>2. document[cached[d]] \in Drafts /\ CertConfigValid(document[cached[d]])
        /\ row[cached[d]] = TargetOf(document[cached[d]])
    BY <2>1 DEF IndInv, TypeOK, ColumnInv, Rows
  <2>. QED BY <2>1, <2>2, AcceptedMeantFor
<1>. QED BY <1>1, DeliveryInvariance, PTL

(* Theorem: every document that a device keeps makes sense: its bands can all *)
(* be reached and its tests do something.                                     *)
THEOREM OnlyUsableDocuments == Spec => []DeliveredUsable
<1>1. IndInv => DeliveredUsable
  <2>. SUFFICES ASSUME IndInv, NEW d \in Devices, cached[d] # NoRow
                PROVE  Usable(document[cached[d]])
    BY DEF DeliveredUsable
  <2>1. cached[d] \in Rows
    BY DEF IndInv, CacheInv, Eligible
  <2>2. document[cached[d]] \in Drafts /\ CertConfigValid(document[cached[d]])
    BY <2>1 DEF IndInv, TypeOK, ColumnInv, Rows
  <2>. QED BY <2>2, AcceptedUsable
<1>. QED BY <1>1, DeliveryInvariance, PTL

(* Theorem: no device is ever taken from a row to one of another target that  *)
(* is no more specific, whatever is activated between its poll and the reply. *)
THEOREM NoStepDown == Spec => SpecificityNeverDrops
<1>. DEFINE Keeps == \A d \in Devices :
                LET old == row[cached[d]]
                    new == row[cached'[d]]
                IN cached[d] # NoRow => new = old \/ Rank(new) > Rank(old)
<1>1. IndInv /\ [Next]_vars => [Keeps]_vars
  <2>. SUFFICES ASSUME IndInv, Next PROVE Keeps
    OBVIOUS
  <2>1. CASE cached' = cached
    BY <2>1
  <2>2. ASSUME NEW e \in Devices, Deliver(e) PROVE Keeps
    <3>. SUFFICES ASSUME NEW d \in Devices, cached[d] # NoRow
                  PROVE  \/ row[cached'[d]] = row[cached[d]]
                         \/ Rank(row[cached'[d]]) > Rank(row[cached[d]])
      OBVIOUS
    <3>1. CASE cached'[d] = cached[d]
      BY <3>1
    <3>2. CASE reply[d].status = 200 /\ cached'[d] = reply[d].version
      BY <3>2 DEF IndInv, ReplyInv
    <3>. QED BY <2>2, <3>1, <3>2 DEF Deliver, IndInv, TypeOK
  <2>. QED BY <2>1, <2>2
           DEF Next, Operate, CreateCertConfig, Activate, Poll, RejectSchema, Get, GetStoreError,
               Send, LoseReply, device
<1>. QED BY <1>1, DeliveryInvariance, PTL DEF Spec, SpecificityNeverDrops
=============================================================================
