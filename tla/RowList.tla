------------------------------ MODULE RowList ------------------------------
(***************************************************************************)
(* What a table window of the navigator promises: its list is the rows of  *)
(* a report that its filter accepts, in the order of its sort column.  The *)
(* list follows a change of order at once and a change of filter later:    *)
(* in between it still shows what an earlier filter accepted.              *)
(***************************************************************************)
EXTENDS Integers, Sequences, FiniteSets

CONSTANTS
    Reports,    \* the reports a window may show
    NumRows,    \* NumRows[r]: how many rows it has
    Key,        \* Key[r][i]: what the sort column compares of row i
    Filters,    \* valid filter patterns
    Accepts,    \* Accepts[f][r]: the rows of r that f matches
    NoReport

VARIABLES
    report,     \* the report of the open window, or NoReport
    wanted,     \* [filter |-> ., order |-> .] as the user set them
    rows        \* the list on the screen: rows of the report

avars == <<report, wanted, rows>>

Orders == {"none", "ascending", "descending"}

Before(r, i, j) == Key[r][i] < Key[r][j] \/ (Key[r][i] = Key[r][j] /\ i < j)

(* The order of the list: rows with equal keys by number.                  *)
Earlier(r, order, i, j) ==
    CASE order = "none" -> i < j
      [] order = "ascending" -> Before(r, i, j)
      [] order = "descending" -> Before(r, j, i)

(* The rows of r that the filter accepts, each at its rank among them.     *)
Listing(r, w) ==
    LET kept == Accepts[w.filter][r] IN
    [p \in 1..Cardinality(kept) |->
        CHOOSE i \in kept : Cardinality({j \in kept : Earlier(r, w.order, j, i)}) = p - 1]

AInit == report = NoReport /\ rows = <<>> /\ wanted \in [filter : Filters, order : Orders]

(* A window opens with its whole report in it. *)
AOpen(r) ==
    /\ report = NoReport
    /\ report' = r /\ wanted' \in [filter : Filters, order : {"none"}]
    /\ rows' = [i \in 1..NumRows[r] |-> i]

ASetFilter(f) ==
    /\ report # NoReport
    /\ wanted' = [wanted EXCEPT !.filter = f]
    /\ UNCHANGED <<report, rows>>

ASetOrder(o) ==
    /\ report # NoReport
    /\ o # wanted.order
    /\ wanted' = [wanted EXCEPT !.order = o]
    /\ rows' = Listing(report, wanted')
    /\ UNCHANGED report

AShow ==
    /\ report # NoReport
    /\ UNCHANGED <<report, wanted>>
    /\ rows' # rows
    /\ rows' = Listing(report, wanted)

AClose == report' = NoReport /\ rows' = <<>> /\ UNCHANGED wanted

ANext ==
    \/ \E r \in Reports : AOpen(r)
    \/ \E f \in Filters : ASetFilter(f)
    \/ \E o \in Orders : ASetOrder(o)
    \/ AShow \/ AClose

(* Once the user leaves the window alone, the list becomes what is wanted. *)
CatchesUp ==
    <>[][FALSE]_<<report, wanted>> =>
        <>[](report # NoReport => rows = Listing(report, wanted))

ListSpec == AInit /\ [][ANext]_avars /\ CatchesUp
=============================================================================
