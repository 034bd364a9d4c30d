---------------------------- MODULE AdminListing ----------------------------
(* GET /admin/certifications (internal/api/admin.go) over List                *)
(* (internal/store/certifications.go): a client reads a list page by page     *)
(* while devices add rows to the table.  Each page is one query.              *)
EXTENDS Integers, FiniteSets, FiniteSetsExt

CONSTANTS Certs,                   \* certifications
          Completed, Submitted,    \* certification -> completed_at; submitted_at or Null
          DnsPreferred,            \* certification -> BOOLEAN or Null
          Unreadable,              \* those whose rssiDbm is in the payload, and no integer
          Columns,                 \* sort columns: certification -> value or Null
          Filters,                 \* filters clients use
          QueuedAfter,             \* the 5 minutes of queuedOnly
          Limits,                  \* limit parameters clients send
          MaxLimit, DefaultLimit,  \* 200 and 50 in the source
          Null, None

ASSUME ListingAssumption ==
    /\ IsFiniteSet(Certs)
    /\ Completed \in [Certs -> Nat] /\ Submitted \in [Certs -> Nat \cup {Null}]
    /\ DnsPreferred \in [Certs -> BOOLEAN \cup {Null}]
    /\ Unreadable \subseteq Certs
    /\ Filters \subseteq [from : Nat \cup {Null}, to : Nat \cup {Null},
                        queuedOnly : BOOLEAN, dnsFlagged : BOOLEAN]
    /\ Columns \subseteq [Certs -> Int \cup {Null}] /\ Null \notin Int
    /\ Limits \subseteq Int /\ MaxLimit \in Nat /\ DefaultLimit \in 1..MaxLimit

VARIABLES table,     \* certifications stored
          walk,      \* the walk under way, or None: its parameters and progress
          response   \* the last answer: status, items, total and limit; or None

vars == <<table, walk, response>>

Walks == [filter : Filters, limit : Limits, column : Columns, dir : {"asc", "desc"},
          base : SUBSET Certs,     \* what was stored when the walk began
          seen : SUBSET Certs, repeated : SUBSET Certs,
          offset : 0..2 * Cardinality(Certs), ended : BOOLEAN]

TypeOK ==
    /\ table \subseteq Certs
    /\ walk \in Walks \cup {None}
    /\ response = None \/
           /\ response.status \in {200, 500}
           /\ response.items \subseteq table /\ response.total \in 0..Cardinality(table)
           /\ response.limit \in Limits
           /\ Cardinality(response.items) <= MaxLimit

Init == table = {} /\ walk = None /\ response = None

-----------------------------------------------------------------------------
(* The query. *)

(* The where clause.  A null compares as neither true nor false. *)
Matches(f, c) ==
    /\ f.from # Null => Completed[c] >= f.from
    /\ f.to # Null => Completed[c] < f.to
    /\ f.queuedOnly => Submitted[c] # Null /\ Submitted[c] - Completed[c] > QueuedAfter
    /\ f.dnsFlagged => DnsPreferred[c] = FALSE

Matching(f) == {c \in table : Matches(f, c)}

(* Mutant: no upper bound. *)
EffectiveLimitUncapped(l) == IF l <= 0 THEN DefaultLimit ELSE l

EffectiveLimit(l) == IF l <= 0 \/ l > MaxLimit THEN DefaultLimit ELSE l

(* Mutant: order by the column alone.                                         *)
BeforeByColumn(column, dir, c, d) ==
    /\ column[c] # Null
    /\ \/ column[d] = Null
       \/ dir = "asc" /\ column[c] < column[d]
       \/ dir = "desc" /\ column[c] > column[d]

(* order by <column> <dir> nulls last, completed_at desc *)
Before(column, dir, c, d) ==
    \/ column[c] = column[d] /\ Completed[c] > Completed[d]
    \/ /\ column[c] # column[d] /\ column[c] # Null
       /\ \/ column[d] = Null
          \/ dir = "asc" /\ column[c] < column[d]
          \/ dir = "desc" /\ column[c] > column[d]

(* The first n rows.  Rows that tie on both keys come in either order, and    *)
(* not always in the same, so there may be several sets of first rows.        *)
Firsts(rows, column, dir, n) ==
    {P \in kSubset(IF n < Cardinality(rows) THEN n ELSE Cardinality(rows), rows) :
        \A c \in P, d \in rows \ P : ~Before(column, dir, d, c)}

(* Mutant: the last row of a page is the first of the next.                   *)
PagesOverlapping(rows, column, dir, limit, offset) ==
    {X[2] \ X[1] : X \in {Y \in Firsts(rows, column, dir, IF offset = 0 THEN 0 ELSE offset - 1)
                                 \X Firsts(rows, column, dir, offset + limit) :
                             Y[1] \subseteq Y[2]}}

(* limit ... offset ... *)
Pages(rows, column, dir, limit, offset) ==
    {X[2] \ X[1] : X \in {Y \in Firsts(rows, column, dir, offset)
                                 \X Firsts(rows, column, dir, offset + limit) :
                             Y[1] \subseteq Y[2]}}

(* Mutant: counted by a query of its own, without the where clause.           *)
TotalUnfiltered(items) == Cardinality(table)

(* The count rides on the rows as a column, so an empty page reports 0. *)
Total(items) == IF items = {} THEN 0 ELSE Cardinality(Matching(walk.filter))

-----------------------------------------------------------------------------
(* A new row, anywhere in the order: a device may deliver late. *)
Receive(c) == /\ c \notin table
              /\ table' = table \cup {c}
              /\ UNCHANGED <<walk, response>>

Begin(f, limit, column, dir) ==
    /\ walk = None
    /\ walk' = [filter |-> f, limit |-> limit, column |-> column, dir |-> dir,
                base |-> Matching(f), seen |-> {}, repeated |-> {}, offset |-> 0,
                ended |-> FALSE]
    /\ UNCHANGED <<table, response>>

(* One request.  The limit of the response is the one asked for.  The client  *)
(* goes on behind the items it got until the total is reached.                *)
ListCertifications ==
    /\ walk # None /\ ~walk.ended
    /\ \E items \in Pages(Matching(walk.filter), walk.column, walk.dir,
                            EffectiveLimit(walk.limit), walk.offset) :
          LET total  == Total(items)
              offset == walk.offset + Cardinality(items)
          IN /\ items \cap Unreadable = {}
             /\ response' = [status |-> 200, items |-> items, total |-> total,
                             limit |-> walk.limit]
             /\ walk' = [walk EXCEPT !.seen = @ \cup items,
                                     !.repeated = @ \cup (walk.seen \cap items),
                                     !.offset = offset,
                                     !.ended = offset >= total]
    /\ UNCHANGED table

(* The select list casts rssiDbm to int.  PostgreSQL evaluates it at least    *)
(* for the rows of the page, at most for all that match; one that cannot be   *)
(* cast fails the query, and the client asks again.                           *)
ListError ==
    /\ walk # None /\ ~walk.ended
    /\ Matching(walk.filter) \cap Unreadable # {}
    /\ response' = [status |-> 500, items |-> {}, total |-> 0, limit |-> walk.limit]
    /\ UNCHANGED <<table, walk>>

(* Whether all rows are read or a client gives up. *)
Finish == /\ walk # None /\ (walk.ended \/ (response # None /\ response.status = 500))
          /\ walk' = None /\ response' = None
          /\ UNCHANGED table

Next == \/ \E c \in Certs : Receive(c)
        \/ \E f \in Filters, l \in Limits, k \in Columns, d \in {"asc", "desc"} :
               Begin(f, l, k, d)
        \/ ListCertifications \/ ListError \/ Finish

Spec == Init /\ [][Next]_vars

(* A client goes on with its walk and every query is answered. *)
LiveSpec == Spec /\ WF_vars(ListCertifications)

-----------------------------------------------------------------------------
(* Rows that nothing in the order by tells apart. *)
Tied(c) == \E d \in Matching(walk.filter) \ {c} :
               walk.column[d] = walk.column[c] /\ Completed[d] = Completed[c]

(* Safety: a walk that reaches the end has seen every row that was there when *)
(* it began, whatever arrives meanwhile and however others tie, unless the    *)
(* row itself ties with another on both keys of the order by.                 *)
WalkMissesNothing ==
    walk # None /\ walk.ended => \A c \in walk.base \ walk.seen : Tied(c)

(* Safety: a row shows up twice only when rows arrived during the walk, or    *)
(* when it ties with another.                                                 *)
RepeatsOnlyAfterArrivals ==
    walk # None /\ Matching(walk.filter) = walk.base => \A c \in walk.repeated : Tied(c)

(* Liveness: a walk ends, under arrivals and with every limit, unless a row   *)
(* that matches its filter cannot be listed at all.                           *)
WalkEnds ==
    walk # None ~> walk = None \/ walk.ended \/ Matching(walk.filter) \cap Unreadable # {}
=============================================================================
