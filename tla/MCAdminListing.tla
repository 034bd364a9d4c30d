--------------------------- MODULE MCAdminListing ---------------------------
(* Small instances of AdminListing for TLC.                                   *)
EXTENDS AdminListing

Rows == 1..5

(* Two runs complete at the same time; one device sends no submittedAt, two   *)
(* deliver late; the last payload has an rssiDbm of -50.5.                    *)
CompletedAt == <<1, 2, 3, 3, 2>>
SubmittedAt == <<3, Null, 5, 3, 2>>
Preferred   == <<FALSE, Null, TRUE, FALSE, TRUE>>

(* The default sort, and a column with a tie and with nulls. *)
SortColumns == {CompletedAt, <<7, 7, Null, Null, 8>>}

NoFilter  == [from |-> Null, to |-> Null, queuedOnly |-> FALSE, dnsFlagged |-> FALSE]
AnyFilter == {NoFilter, [NoFilter EXCEPT !.queuedOnly = TRUE],
              [NoFilter EXCEPT !.dnsFlagged = TRUE, !.from = 1, !.to = 3]}

(* Of the limits, 0 and 4 are out of range. *)
SomeLimits == {0, 1, 3, 4}
=============================================================================
