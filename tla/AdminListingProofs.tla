------------------------- MODULE AdminListingProofs -------------------------
(* Theorems about AdminListing, for any rows, columns, filters and limits.    *)
EXTENDS AdminListing, FiniteSetTheorems, TLAPS

(* What the order by puts before a row, and whether it leaves it in a tie.    *)
Ahead(rows, column, dir, c) == {d \in rows : Before(column, dir, d, c)}
TiedIn(rows, column, c) ==
    \E d \in rows \ {c} : column[d] = column[c] /\ Completed[d] = Completed[c]

(* A row that was there when the walk began still matches.  While it is not   *)
(* seen at least as many rows are ahead of it as the walk has passed, or      *)
(* another ties with it.                                                      *)
AheadInv == walk # None =>
    /\ walk.base \cup walk.seen \subseteq Matching(walk.filter)
    /\ ~walk.ended => walk.offset <= Cardinality(Certs)
    /\ \A c \in walk.base \ walk.seen :
           \/ Tied(c)
           \/ /\ ~walk.ended
              /\ walk.offset <= Cardinality(Ahead(Matching(walk.filter), walk.column, walk.dir, c))

(* As long as nothing arrives that matches, fewer rows are ahead of a row     *)
(* that was seen than the walk has passed.                                    *)
BehindInv == walk # None /\ Matching(walk.filter) = walk.base =>
    /\ \A c \in walk.seen :
           \/ Tied(c)
           \/ Cardinality(Ahead(Matching(walk.filter), walk.column, walk.dir, c)) < walk.offset
    /\ \A c \in walk.repeated : Tied(c)

IndInv == TypeOK /\ AheadInv /\ BehindInv

-----------------------------------------------------------------------------
(* The query. *)

(* Lemma: of two rows one is before the other, unless they tie on both keys.  *)
LEMMA BeforeTotal ==
    ASSUME NEW column \in Columns, NEW dir \in {"asc", "desc"}, NEW c \in Certs, NEW d \in Certs,
           column[c] # column[d] \/ Completed[c] # Completed[d]
    PROVE  Before(column, dir, c, d) \/ Before(column, dir, d, c)
<1>1. Completed[c] \in Int /\ Completed[d] \in Int
  BY ListingAssumption
<1>2. column[c] \in Int \cup {Null} /\ column[d] \in Int \cup {Null}
  BY ListingAssumption
<1>3. CASE column[c] = column[d]
  BY <1>1, <1>3 DEF Before
<1>4. CASE column[c] # column[d] /\ (column[c] = Null \/ column[d] = Null)
  BY <1>4 DEF Before
<1>5. CASE column[c] # column[d] /\ column[c] # Null /\ column[d] # Null
  <2>1. column[c] < column[d] \/ column[d] < column[c]
    BY <1>2, <1>5
  <2>2. column[c] > column[d] \/ column[d] > column[c]
    BY <1>2, <1>5
  <2>. QED BY <1>5, <2>1, <2>2 DEF Before
<1>. QED BY <1>3, <1>4, <1>5

(* Lemma: no row is before itself. *)
LEMMA BeforeIrreflexive ==
    ASSUME NEW column, NEW dir, NEW c \in Certs
    PROVE  ~Before(column, dir, c, c)
<1>1. Completed[c] \in Int
  BY ListingAssumption
<1>. QED BY <1>1 DEF Before

(* Lemma: the rows are finitely many, and so are those ahead of one of them.  *)
LEMMA AheadSize ==
    ASSUME NEW rows \in SUBSET Certs, NEW column, NEW dir, NEW c \in rows
    PROVE  /\ IsFiniteSet(rows) /\ IsFiniteSet(Ahead(rows, column, dir, c))
           /\ Cardinality(rows) \in Nat /\ Cardinality(Ahead(rows, column, dir, c)) \in Nat
           /\ Cardinality(Ahead(rows, column, dir, c)) < Cardinality(rows)
<1>. DEFINE A == Ahead(rows, column, dir, c)
<1>1. IsFiniteSet(rows) /\ Cardinality(rows) \in Nat
  BY ListingAssumption, FS_Subset, FS_CardinalityType
<1>2. A \in SUBSET rows /\ c \notin A
  BY BeforeIrreflexive DEF Ahead
<1>3. IsFiniteSet(A) /\ Cardinality(A) <= Cardinality(rows)
      /\ (Cardinality(rows) = Cardinality(A) => rows = A)
  BY <1>1, <1>2, FS_Subset
<1>4. Cardinality(A) \in Nat
  BY <1>3, FS_CardinalityType
<1>. QED BY <1>1, <1>2, <1>3, <1>4

(* Lemma: a row that ties with none is among the first rows exactly when      *)
(* fewer rows are ahead of it.                                                *)
LEMMA FirstsByRank ==
    ASSUME NEW rows \in SUBSET Certs, NEW column \in Columns, NEW dir \in {"asc", "desc"},
           NEW n \in Nat, NEW P \in Firsts(rows, column, dir, n)
    PROVE  /\ P \in SUBSET rows /\ IsFiniteSet(P) /\ Cardinality(P) \in Nat
           /\ Cardinality(rows) \in Nat
           /\ Cardinality(P) = IF n < Cardinality(rows) THEN n ELSE Cardinality(rows)
           /\ \A c \in rows : ~TiedIn(rows, column, c) =>
                  (c \in P <=> Cardinality(Ahead(rows, column, dir, c)) < Cardinality(P))
<1>1. IsFiniteSet(rows) /\ Cardinality(rows) \in Nat
  BY ListingAssumption, FS_Subset, FS_CardinalityType
<1>2. /\ P \in SUBSET rows
      /\ Cardinality(P) = IF n < Cardinality(rows) THEN n ELSE Cardinality(rows)
      /\ \A c \in P, d \in rows \ P : ~Before(column, dir, d, c)
  BY DEF Firsts, kSubset
<1>3. IsFiniteSet(P) /\ Cardinality(P) \in Nat
  BY <1>1, <1>2, FS_Subset, FS_CardinalityType
<1>4. ASSUME NEW c \in rows, ~TiedIn(rows, column, c)
      PROVE  c \in P <=> Cardinality(Ahead(rows, column, dir, c)) < Cardinality(P)
  <2>. DEFINE A == Ahead(rows, column, dir, c)
  <2>1. IsFiniteSet(A) /\ Cardinality(A) \in Nat
    BY AheadSize
  <2>2. ASSUME c \in P PROVE Cardinality(A) < Cardinality(P)
    <3>1. A \in SUBSET P
      BY <1>2, <2>2 DEF Ahead
    <3>2. c \notin A
      BY BeforeIrreflexive DEF Ahead
    <3>3. Cardinality(A) <= Cardinality(P) /\ (Cardinality(P) = Cardinality(A) => P = A)
      BY <1>3, <3>1, FS_Subset
    <3>. QED BY <1>3, <2>1, <2>2, <3>2, <3>3
  <2>3. ASSUME c \notin P PROVE Cardinality(P) <= Cardinality(A)
    <3>1. ASSUME NEW d \in P PROVE d \in A
      <4>1. d \in rows /\ d # c /\ ~Before(column, dir, c, d)
        BY <1>2, <2>3
      <4>2. column[d] # column[c] \/ Completed[d] # Completed[c]
        BY <1>4, <4>1 DEF TiedIn
      <4>3. Before(column, dir, d, c)
        BY <4>1, <4>2, BeforeTotal
      <4>. QED BY <4>1, <4>3 DEF Ahead
    <3>2. P \in SUBSET A
      BY <3>1
    <3>. QED BY <2>1, <3>2, FS_Subset
  <2>. QED BY <1>3, <2>1, <2>2, <2>3
<1>. QED BY <1>1, <1>2, <1>3, <1>4

(* Lemma: every limit comes down to between 1 and the largest page.           *)
LEMMA EffectiveLimitBounds ==
    ASSUME NEW l \in Limits
    PROVE  EffectiveLimit(l) \in Nat /\ 1 <= EffectiveLimit(l) /\ EffectiveLimit(l) <= MaxLimit
BY ListingAssumption DEF EffectiveLimit

(* What a page behind offset rows holds: at most limit rows, of those that    *)
(* tie with none exactly the ones whose rank is behind the offset and within  *)
(* the page.                                                                  *)
PageOf(rows, column, dir, limit, offset, items) ==
    /\ items \in SUBSET rows /\ Cardinality(items) \in Nat /\ Cardinality(items) <= limit
    /\ Cardinality(items) <= Cardinality(rows)
    /\ \A c \in rows \ items :
           \/ TiedIn(rows, column, c)
           \/ Cardinality(Ahead(rows, column, dir, c)) < offset
           \/ /\ items # {}
              /\ offset + Cardinality(items) <= Cardinality(Ahead(rows, column, dir, c))
    /\ \A c \in items :
           \/ TiedIn(rows, column, c)
           \/ /\ offset <= Cardinality(Ahead(rows, column, dir, c))
              /\ Cardinality(Ahead(rows, column, dir, c)) < offset + Cardinality(items)

(* Lemma: the difference of two sets of first rows is such a page.            *)
LEMMA PageByRank ==
    ASSUME NEW rows \in SUBSET Certs, NEW column \in Columns, NEW dir \in {"asc", "desc"},
           NEW limit \in Nat, 1 <= limit, NEW offset \in Nat, NEW end \in Nat,
           end = offset + limit,
           NEW P \in Firsts(rows, column, dir, offset),
           NEW Q \in Firsts(rows, column, dir, end), P \subseteq Q,
           NEW items, items = Q \ P
    PROVE  PageOf(rows, column, dir, limit, offset, items)
<1>1. /\ Q \in SUBSET rows /\ IsFiniteSet(Q) /\ Cardinality(Q) \in Nat
      /\ Cardinality(rows) \in Nat
      /\ Cardinality(Q) = IF end < Cardinality(rows) THEN end ELSE Cardinality(rows)
      /\ \A c \in rows : ~TiedIn(rows, column, c) =>
             (c \in Q <=> Cardinality(Ahead(rows, column, dir, c)) < Cardinality(Q))
  BY FirstsByRank
<1>2. /\ Cardinality(P) \in Nat
      /\ Cardinality(P) = IF offset < Cardinality(rows) THEN offset ELSE Cardinality(rows)
      /\ \A c \in rows : ~TiedIn(rows, column, c) =>
             (c \in P <=> Cardinality(Ahead(rows, column, dir, c)) < Cardinality(P))
  BY FirstsByRank
<1>3. /\ items \in SUBSET rows /\ Cardinality(items) \in Nat
      /\ Cardinality(items) = Cardinality(Q) - Cardinality(P)
  <2>1. items \in SUBSET Q
    OBVIOUS
  <2>2. Cardinality(items) \in Nat
    BY <1>1, <2>1, FS_Subset, FS_CardinalityType
  <2>3. Cardinality(items) = Cardinality(Q) - Cardinality(Q \cap P)
    BY <1>1, FS_Difference
  <2>4. Q \cap P = P
    OBVIOUS
  <2>. QED BY <1>1, <2>1, <2>2, <2>3, <2>4
<1>4. Cardinality(items) <= limit /\ Cardinality(items) <= Cardinality(rows)
  BY <1>1, <1>2, <1>3
<1>5. ASSUME NEW c \in rows \ items, ~TiedIn(rows, column, c),
             offset <= Cardinality(Ahead(rows, column, dir, c))
      PROVE  /\ items # {}
             /\ offset + Cardinality(items) <= Cardinality(Ahead(rows, column, dir, c))
  <2>. DEFINE a == Cardinality(Ahead(rows, column, dir, c))
  <2>1. a \in Nat /\ a < Cardinality(rows)
    BY AheadSize
  <2>2. Cardinality(P) = offset /\ c \notin P
    BY <1>2, <1>5, <2>1
  <2>3. c \notin Q
    BY <1>5, <2>2
  <2>4. Cardinality(Q) <= a
    BY <1>1, <1>5, <2>1, <2>3
  <2>5. Cardinality(Q) = offset + limit
    BY <1>1, <2>1, <2>4
  <2>6. Cardinality(items) = limit
    BY <1>3, <2>2, <2>5
  <2>7. items # {}
    BY <2>6, FS_EmptySet
  <2>. QED BY <2>2, <2>4, <2>5, <2>6, <2>7
<1>6. ASSUME NEW c \in items, ~TiedIn(rows, column, c)
      PROVE  /\ offset <= Cardinality(Ahead(rows, column, dir, c))
             /\ Cardinality(Ahead(rows, column, dir, c)) < offset + Cardinality(items)
  <2>. DEFINE a == Cardinality(Ahead(rows, column, dir, c))
  <2>1. c \in rows /\ c \in Q /\ c \notin P
    BY <1>1, <1>6
  <2>2. a \in Nat /\ a < Cardinality(rows)
    BY <2>1, AheadSize
  <2>3. a < Cardinality(Q) /\ ~(a < Cardinality(P))
    BY <1>1, <1>2, <1>6, <2>1
  <2>4. offset <= a
    BY <1>2, <2>2, <2>3
  <2>5. a < offset + Cardinality(items)
    BY <1>1, <1>2, <1>3, <2>2, <2>3
  <2>. QED BY <2>4, <2>5
<1>7. ASSUME NEW c \in rows \ items
      PROVE  \/ TiedIn(rows, column, c)
             \/ Cardinality(Ahead(rows, column, dir, c)) < offset
             \/ /\ items # {}
                /\ offset + Cardinality(items) <= Cardinality(Ahead(rows, column, dir, c))
  <2>1. Cardinality(Ahead(rows, column, dir, c)) \in Nat
    BY AheadSize
  <2>. QED BY <1>5, <2>1
<1>8. ASSUME NEW c \in items
      PROVE  \/ TiedIn(rows, column, c)
             \/ /\ offset <= Cardinality(Ahead(rows, column, dir, c))
                /\ Cardinality(Ahead(rows, column, dir, c)) < offset + Cardinality(items)
  BY <1>6
<1>. QED BY <1>3, <1>4, <1>7, <1>8 DEF PageOf

-----------------------------------------------------------------------------
(* Every step preserves the invariant.                                        *)

(* Lemma: no walk is None. *)
LEMMA WalkFields ==
    ASSUME walk \in Walks
    PROVE  /\ walk.filter \in Filters /\ walk.limit \in Limits /\ walk.column \in Columns
           /\ walk.dir \in {"asc", "desc"} /\ walk.base \in SUBSET Certs
           /\ walk.seen \in SUBSET Certs /\ walk.repeated \in SUBSET Certs
           /\ walk.offset \in 0..2 * Cardinality(Certs) /\ walk.ended \in BOOLEAN
           /\ walk = [filter |-> walk.filter, limit |-> walk.limit, column |-> walk.column,
                      dir |-> walk.dir, base |-> walk.base, seen |-> walk.seen,
                      repeated |-> walk.repeated, offset |-> walk.offset, ended |-> walk.ended]
BY DEF Walks

(* Lemma: the certifications are finitely many, and so are those stored.      *)
LEMMA TableSize ==
    ASSUME NEW rows \in SUBSET Certs
    PROVE  /\ IsFiniteSet(rows) /\ Cardinality(rows) \in Nat
           /\ Cardinality(Certs) \in Nat /\ Cardinality(rows) <= Cardinality(Certs)
BY ListingAssumption, FS_Subset, FS_CardinalityType

(* Lemma: at the start nothing is stored and nobody reads.                    *)
LEMMA InitIndInv == Init => IndInv
BY DEF Init, IndInv, TypeOK, AheadInv, BehindInv

(* Lemma: a row that arrives leaves what was ahead of another there, and what *)
(* tied with it; one that does not match changes nothing.                     *)
LEMMA ReceiveStep ==
    ASSUME IndInv, NEW c \in Certs, Receive(c)
    PROVE  IndInv'
<1>. DEFINE rows == Matching(walk.filter)
<1>1. /\ table \in SUBSET Certs /\ table' \in SUBSET Certs /\ table \subseteq table'
      /\ walk' = walk /\ response' = response
  BY DEF IndInv, TypeOK, Receive
<1>2. /\ Cardinality(table) \in Nat /\ Cardinality(table') \in Nat
      /\ Cardinality(table) <= Cardinality(table')
  <2>1. IsFiniteSet(table') /\ Cardinality(table) \in Nat /\ Cardinality(table') \in Nat
    BY <1>1, TableSize
  <2>. QED BY <1>1, <2>1, FS_Subset
<1>3. TypeOK'
  <2>1. response' = None \/
           /\ response'.status \in {200, 500}
           /\ response'.items \subseteq table' /\ response'.total \in 0..Cardinality(table')
           /\ response'.limit \in Limits
           /\ Cardinality(response'.items) <= MaxLimit
    BY <1>1, <1>2 DEF IndInv, TypeOK
  <2>2. walk' \in Walks \cup {None}
    BY <1>1 DEF IndInv, TypeOK
  <2>. QED BY <1>1, <2>1, <2>2 DEF TypeOK, Walks
<1>4. walk # None => walk \in Walks
  BY DEF IndInv, TypeOK
<1>5. rows \in SUBSET Certs /\ rows' \in SUBSET Certs /\ rows \subseteq rows'
  BY <1>1 DEF Matching
<1>6. AheadInv'
  <2>. SUFFICES ASSUME walk # None
       PROVE  /\ walk.base \cup walk.seen \subseteq rows'
              /\ ~walk.ended => walk.offset <= Cardinality(Certs)
              /\ \A d \in walk.base \ walk.seen :
                     \/ Tied(d)'
                     \/ /\ ~walk.ended
                        /\ walk.offset <= Cardinality(Ahead(rows', walk.column, walk.dir, d))
    BY <1>1 DEF AheadInv
  <2>1. /\ walk.base \cup walk.seen \subseteq rows
        /\ ~walk.ended => walk.offset <= Cardinality(Certs)
    BY DEF IndInv, AheadInv
  <2>2. walk.offset \in Int
    BY <1>4, WalkFields, TableSize, ListingAssumption
  <2>3. ASSUME NEW d \in walk.base \ walk.seen
        PROVE  \/ Tied(d)'
               \/ /\ ~walk.ended
                  /\ walk.offset <= Cardinality(Ahead(rows', walk.column, walk.dir, d))
    <3>. DEFINE A == Ahead(rows, walk.column, walk.dir, d)
                B == Ahead(rows', walk.column, walk.dir, d)
    <3>1. Tied(d) \/ (~walk.ended /\ walk.offset <= Cardinality(A))
      BY <2>3 DEF IndInv, AheadInv
    <3>2. Tied(d) => Tied(d)'
      BY <1>1, <1>5 DEF Tied
    <3>3. A \in SUBSET B
      BY <1>5 DEF Ahead
    <3>4. B \in SUBSET Certs
      BY <1>5 DEF Ahead
    <3>5. IsFiniteSet(B) /\ Cardinality(B) \in Nat
      BY <3>4, TableSize
    <3>6. Cardinality(A) <= Cardinality(B) /\ Cardinality(A) \in Nat
      BY <3>3, <3>5, FS_Subset, FS_CardinalityType
    <3>. QED BY <2>2, <3>1, <3>2, <3>5, <3>6
  <2>. QED BY <1>5, <2>1, <2>3
<1>7. BehindInv'
  <2>. SUFFICES ASSUME walk # None, rows' = walk.base
       PROVE  /\ \A d \in walk.seen :
                     \/ Tied(d)'
                     \/ Cardinality(Ahead(rows', walk.column, walk.dir, d)) < walk.offset
              /\ \A d \in walk.repeated : Tied(d)'
    BY <1>1 DEF BehindInv
  <2>1. rows = walk.base /\ rows' = rows
    BY <1>5 DEF IndInv, AheadInv
  <2>2. \A d : Tied(d) => Tied(d)'
    BY <1>1, <1>5 DEF Tied
  <2>. QED BY <2>1, <2>2 DEF IndInv, BehindInv
<1>. QED BY <1>3, <1>6, <1>7 DEF IndInv

(* Lemma: a walk begins before the first row, with nothing seen.              *)
LEMMA BeginStep ==
    ASSUME IndInv, NEW f \in Filters, NEW l \in Limits, NEW k \in Columns,
           NEW d \in {"asc", "desc"}, Begin(f, l, k, d)
    PROVE  IndInv'
<1>1. /\ table' = table /\ response' = response
      /\ walk' = [filter |-> f, limit |-> l, column |-> k, dir |-> d,
                  base |-> Matching(f), seen |-> {}, repeated |-> {}, offset |-> 0,
                  ended |-> FALSE]
  BY DEF Begin
<1>2. Matching(f) \in SUBSET Certs /\ Matching(f)' = Matching(f)
  BY <1>1 DEF IndInv, TypeOK, Matching
<1>3. Cardinality(Certs) \in Nat
  BY <1>2, TableSize
<1>4. TypeOK'
  <2>1. walk' \in Walks
    BY <1>1, <1>2, <1>3 DEF Walks
  <2>. QED BY <1>1, <2>1 DEF IndInv, TypeOK
<1>5. ASSUME NEW c \in Matching(f)
      PROVE  Cardinality(Ahead(Matching(f), k, d, c)) \in Nat
  BY <1>2, AheadSize
<1>6. walk'.filter = f /\ walk'.base = Matching(f) /\ walk'.seen = {} /\ walk'.repeated = {}
      /\ walk'.offset = 0 /\ walk'.ended = FALSE /\ walk'.column = k /\ walk'.dir = d
  BY <1>1
<1>7. AheadInv'
  BY <1>2, <1>3, <1>5, <1>6 DEF AheadInv
<1>8. BehindInv'
  BY <1>6 DEF BehindInv
<1>. QED BY <1>4, <1>7, <1>8 DEF IndInv

(* Lemma: a page moves the walk on.  What it leaves behind ties, was seen, or *)
(* has at least as many rows ahead of it as the walk has passed by now.       *)
LEMMA ListStep ==
    ASSUME IndInv, ListCertifications
    PROVE  IndInv'
<1>. DEFINE rows == Matching(walk.filter)
            lm   == EffectiveLimit(walk.limit)
            end  == walk.offset + lm
            rank(c) == Cardinality(Ahead(rows, walk.column, walk.dir, c))
            tied(c) == TiedIn(rows, walk.column, c)
<1>1. walk # None /\ ~walk.ended /\ table' = table /\ walk \in Walks
  BY DEF ListCertifications, IndInv, TypeOK
<1>2. PICK items \in Pages(rows, walk.column, walk.dir, lm, walk.offset) :
         /\ response' = [status |-> 200, items |-> items, total |-> Total(items),
                         limit |-> walk.limit]
         /\ walk' = [walk EXCEPT !.seen = @ \cup items,
                                 !.repeated = @ \cup (walk.seen \cap items),
                                 !.offset = walk.offset + Cardinality(items),
                                 !.ended = walk.offset + Cardinality(items) >= Total(items)]
  BY DEF ListCertifications
<1>3. PICK P \in Firsts(rows, walk.column, walk.dir, walk.offset),
           Q \in Firsts(rows, walk.column, walk.dir, end) : P \subseteq Q /\ items = Q \ P
  BY DEF Pages
<1>4. /\ walk.filter \in Filters /\ walk.limit \in Limits /\ walk.column \in Columns
      /\ walk.dir \in {"asc", "desc"} /\ walk.base \in SUBSET Certs
      /\ walk.seen \in SUBSET Certs /\ walk.repeated \in SUBSET Certs
  BY <1>1, WalkFields
<1>5. rows \in SUBSET Certs /\ rows \in SUBSET table /\ table \in SUBSET Certs
  BY DEF IndInv, TypeOK, Matching
<1>6. /\ Cardinality(Certs) \in Nat /\ IsFiniteSet(table) /\ Cardinality(table) \in Nat
      /\ Cardinality(rows) \in Nat /\ Cardinality(rows) <= Cardinality(table)
      /\ Cardinality(rows) <= Cardinality(Certs)
  BY <1>5, TableSize, FS_Subset
<1>7. walk.offset \in Nat /\ walk.offset <= Cardinality(Certs)
  <2>1. walk.offset \in 0..2 * Cardinality(Certs)
    BY <1>1, WalkFields
  <2>2. walk.offset <= Cardinality(Certs)
    BY <1>1 DEF IndInv, AheadInv
  <2>. QED BY <1>6, <2>1, <2>2
<1>8. lm \in Nat /\ 1 <= lm /\ lm <= MaxLimit /\ end \in Nat
  BY <1>4, <1>7, EffectiveLimitBounds
<1>9. /\ items \in SUBSET rows /\ Cardinality(items) \in Nat /\ Cardinality(items) <= lm
      /\ Cardinality(items) <= Cardinality(rows)
      /\ \A c \in rows \ items :
             \/ tied(c)
             \/ rank(c) < walk.offset
             \/ items # {} /\ walk.offset + Cardinality(items) <= rank(c)
      /\ \A c \in items :
             \/ tied(c)
             \/ walk.offset <= rank(c) /\ rank(c) < walk.offset + Cardinality(items)
  <2>. DEFINE k == walk.column
              d == walk.dir
              o == walk.offset
  <2>1. end = o + lm /\ o \in Nat /\ lm \in Nat /\ 1 <= lm /\ end \in Nat
    BY <1>7, <1>8
  <2>2. rows \in SUBSET Certs /\ k \in Columns /\ d \in {"asc", "desc"}
    BY <1>4, <1>5
  <2>3. /\ P \in Firsts(rows, k, d, o) /\ Q \in Firsts(rows, k, d, end)
        /\ P \subseteq Q /\ items = Q \ P
    BY <1>3
  <2>. HIDE DEF rows, lm, end, k, d, o
  <2>4. PageOf(rows, k, d, lm, o, items)
    BY <2>1, <2>2, <2>3, PageByRank
  <2>. QED BY <2>4 DEF PageOf, k, d, o
<1>10. Total(items) = IF items = {} THEN 0 ELSE Cardinality(rows)
  BY DEF Total
<1>11. /\ walk'.filter = walk.filter /\ walk'.limit = walk.limit /\ walk'.column = walk.column
       /\ walk'.dir = walk.dir /\ walk'.base = walk.base
       /\ walk'.seen = walk.seen \cup items
       /\ walk'.repeated = walk.repeated \cup (walk.seen \cap items)
       /\ walk'.offset = walk.offset + Cardinality(items)
       /\ walk'.ended = (walk'.offset >= Total(items))
  BY <1>1, <1>2 DEF Walks
<1>12. rows' = rows
  BY <1>1, <1>11 DEF Matching
<1>13. \A c : Tied(c)' <=> tied(c)
  BY <1>11, <1>12 DEF Tied, TiedIn
<1>14. \A c : Tied(c) <=> tied(c)
  BY DEF Tied, TiedIn
<1>15. ASSUME NEW c \in rows PROVE rank(c) \in Nat /\ rank(c) < Cardinality(rows)
  BY <1>5, AheadSize
<1>16. TypeOK'
  <2>1. walk' \in Walks
    <3>1. walk'.offset \in 0..2 * Cardinality(Certs)
      BY <1>6, <1>7, <1>9, <1>11
    <3>2. walk'.seen \in SUBSET Certs /\ walk'.repeated \in SUBSET Certs
      BY <1>4, <1>5, <1>9, <1>11
    <3>3. walk'.ended \in BOOLEAN
      BY <1>11
    <3>. QED BY <1>1, <1>2, <3>1, <3>2, <3>3, <1>11 DEF Walks
  <2>2. /\ response'.status = 200 /\ response'.items = items
        /\ response'.total = Total(items) /\ response'.limit = walk.limit
    BY <1>2
  <2>3. Total(items) \in 0..Cardinality(table')
    BY <1>1, <1>6, <1>10
  <2>4. response'.items \subseteq table'
    BY <1>1, <1>5, <1>9, <2>2
  <2>5. Cardinality(response'.items) <= MaxLimit
    BY <1>8, <1>9, <2>2, ListingAssumption
  <2>. QED BY <1>1, <1>4, <1>5, <2>1, <2>2, <2>3, <2>4, <2>5 DEF TypeOK
<1>17. AheadInv'
  <2>1. walk'.base \cup walk'.seen \subseteq rows
    BY <1>1, <1>9, <1>11 DEF IndInv, AheadInv
  <2>2. ~walk'.ended => walk'.offset <= Cardinality(Certs)
    <3>1. Total(items) \in Nat /\ Total(items) <= Cardinality(Certs)
      BY <1>6, <1>10
    <3>2. walk'.offset \in Nat
      BY <1>7, <1>9, <1>11
    <3>3. ~(walk'.offset >= Total(items)) => walk'.offset <= Cardinality(Certs)
      BY <1>6, <3>1, <3>2
    <3>. QED BY <1>11, <3>3
  <2>3. ASSUME NEW c \in walk'.base \ walk'.seen, ~tied(c)
        PROVE  ~walk'.ended /\ walk'.offset <= rank(c)
    <3>1. c \in walk.base \ walk.seen /\ c \in rows \ items
      BY <1>11, <2>1, <2>3
    <3>2. walk.offset <= rank(c)
      BY <1>1, <1>14, <2>3, <3>1 DEF IndInv, AheadInv
    <3>3. rank(c) \in Nat /\ rank(c) < Cardinality(rows)
      BY <1>15, <3>1
    <3>4. items # {} /\ walk.offset + Cardinality(items) <= rank(c)
      BY <1>7, <1>9, <2>3, <3>1, <3>2, <3>3
    <3>5. Total(items) = Cardinality(rows)
      BY <1>10, <3>4
    <3>6. walk'.offset \in Nat /\ walk'.offset <= rank(c)
      BY <1>7, <1>9, <1>11, <3>4
    <3>7. ~(walk'.offset >= Total(items))
      BY <1>6, <3>3, <3>5, <3>6
    <3>. QED BY <1>11, <3>6, <3>7
  <2>. QED BY <1>11, <1>12, <1>13, <2>1, <2>2, <2>3 DEF AheadInv
<1>18. BehindInv'
  <2>. SUFFICES ASSUME rows = walk.base
       PROVE  /\ \A c \in walk'.seen : tied(c) \/ rank(c) < walk'.offset
              /\ \A c \in walk'.repeated : tied(c)
    BY <1>11, <1>12, <1>13 DEF BehindInv
  <2>1. /\ \A c \in walk.seen : tied(c) \/ rank(c) < walk.offset
        /\ \A c \in walk.repeated : tied(c)
    BY <1>1, <1>14 DEF IndInv, BehindInv
  <2>2. ASSUME NEW c \in walk'.seen, ~tied(c)
        PROVE  rank(c) < walk'.offset
    <3>1. c \in rows
      BY <1>1, <1>9, <1>11 DEF IndInv, AheadInv
    <3>2. CASE c \in items
      BY <1>9, <1>11, <2>2, <3>2
    <3>3. CASE c \in walk.seen
      BY <1>7, <1>9, <1>11, <1>15, <2>1, <2>2, <3>1, <3>3
    <3>. QED BY <1>11, <3>2, <3>3
  <2>3. ASSUME NEW c \in walk.seen \cap items PROVE tied(c)
    <3>1. c \in rows /\ rank(c) \in Nat
      BY <1>9, <1>15
    <3>2. tied(c) \/ rank(c) < walk.offset
      BY <2>1
    <3>3. tied(c) \/ walk.offset <= rank(c)
      BY <1>9
    <3>. QED BY <1>7, <3>1, <3>2, <3>3
  <2>. QED BY <1>11, <2>1, <2>2, <2>3
<1>. QED BY <1>16, <1>17, <1>18 DEF IndInv

(* Lemma: a failed request leaves the walk where it was.                      *)
LEMMA ListErrorStep ==
    ASSUME IndInv, ListError
    PROVE  IndInv'
<1>1. /\ walk \in Walks /\ table' = table /\ walk' = walk
      /\ response' = [status |-> 500, items |-> {}, total |-> 0, limit |-> walk.limit]
  BY DEF ListError, IndInv, TypeOK
<1>2. table \in SUBSET Certs
  BY DEF IndInv, TypeOK
<1>3. Cardinality(table) \in Nat /\ Cardinality({}) = 0 /\ walk.limit \in Limits
  BY <1>1, <1>2, TableSize, WalkFields, FS_EmptySet
<1>4. MaxLimit \in Nat
  BY ListingAssumption
<1>5. TypeOK'
  BY <1>1, <1>2, <1>3, <1>4 DEF TypeOK, Walks
<1>6. AheadInv' /\ BehindInv'
  BY <1>1 DEF IndInv, AheadInv, BehindInv, Matching, Tied
<1>. QED BY <1>5, <1>6 DEF IndInv

-----------------------------------------------------------------------------
(* Theorems.                                                                  *)

(* Theorem: the invariant the other proofs rest on holds in every state.      *)
THEOREM Invariance == Spec => []IndInv
<1>1. IndInv /\ [Next]_vars => IndInv'
  <2>. SUFFICES ASSUME IndInv, [Next]_vars PROVE IndInv'
    OBVIOUS
  <2>1. CASE \E c \in Certs : Receive(c)
    BY <2>1, ReceiveStep
  <2>2. CASE \E f \in Filters, l \in Limits, k \in Columns, d \in {"asc", "desc"} :
                 Begin(f, l, k, d)
    BY <2>2, BeginStep
  <2>3. CASE ListCertifications
    BY <2>3, ListStep
  <2>4. CASE ListError
    BY <2>4, ListErrorStep
  <2>5. CASE Finish
    BY <2>5 DEF Finish, IndInv, TypeOK, AheadInv, BehindInv
  <2>6. CASE UNCHANGED vars
    BY <2>6 DEF vars, IndInv, TypeOK, Walks, AheadInv, BehindInv, Matching, Tied
  <2>. QED BY <2>1, <2>2, <2>3, <2>4, <2>5, <2>6 DEF Next
<1>. QED BY InitIndInv, <1>1, PTL DEF Spec

(* Theorem: table, walk and answers keep their types; no page is longer than  *)
(* the cap and no total larger than the table (List).                         *)
THEOREM TypeCorrectness == Spec => []TypeOK
<1>1. IndInv => TypeOK
  BY DEF IndInv
<1>. QED BY Invariance, <1>1, PTL

(* Theorem: whatever arrives between the pages, a client that reads to the    *)
(* total has seen every row that was there at the start and ties with none    *)
(* (handleListCertifications over List).                                      *)
THEOREM NothingMissed == Spec => []WalkMissesNothing
<1>1. IndInv => WalkMissesNothing
  BY DEF IndInv, AheadInv, WalkMissesNothing
<1>. QED BY Invariance, <1>1, PTL

(* Theorem: a row that ties with none is listed twice only if rows arrived    *)
(* during the walk (List: limit and offset).                                  *)
THEOREM RepeatsNeedArrivals == Spec => []RepeatsOnlyAfterArrivals
<1>1. IndInv => RepeatsOnlyAfterArrivals
  BY DEF IndInv, BehindInv, RepeatsOnlyAfterArrivals
<1>. QED BY Invariance, <1>1, PTL
=============================================================================
