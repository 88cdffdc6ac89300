-------------------------- MODULE TableReportView --------------------------
(***************************************************************************)
(* A table window of the navigator (TableReportView.cc): a report, a sort  *)
(* proxy and a filter proxy above it, a filter that runs in batches on     *)
(* Qt's pool threads while the user goes on sorting, selecting and typing, *)
(* and a selection and a scroll position into the filtered list.           *)
(*                                                                         *)
(* Rows and list positions count from 1 and 0 is the code's -1. A report   *)
(* has one column; its heights are counted in rows.                        *)
(***************************************************************************)
EXTENDS Integers, SequencesExt

CONSTANTS
    Reports, NumRows, Key, Filters, Accepts, NoReport,  \* as in RowList
    RowWidth,       \* RowWidth[r][i]: the width of a row's text
    EmptyFilter,    \* the pattern a window starts with
    Workers,        \* threads of Qt's pool
    BatchMin,       \* the 100 of makeBatches
    HeaderWidth,    \* the width of the column's heading
    ViewSizes,      \* the widget's room for the list: its width, and its
                    \* height in rows; a scroll bar takes one of either
    NoProxy, NoResult, NoFilterer

(* An empty pattern matches every row. *)
ASSUME ViewAssumption ==
    /\ NumRows \in [Reports -> Nat]
    /\ \A r \in Reports : \A i \in 1..NumRows[r] : Key[r][i] \in Int /\ RowWidth[r][i] \in Nat
    /\ EmptyFilter \in Filters
    /\ \A f \in Filters, r \in Reports : Accepts[f][r] \subseteq 1..NumRows[r]
    /\ \A r \in Reports : Accepts[EmptyFilter][r] = 1..NumRows[r]
    /\ BatchMin \in Nat \ {0}
    /\ HeaderWidth \in Nat /\ ViewSizes \subseteq [width : Nat, height : Nat]
    /\ NoReport \notin Reports
    /\ NoProxy \notin Seq(Nat)

VARIABLES
    viewSize,       \* one of ViewSizes
    m_report,
    m_filter,
    sortOrder,      \* the header's sort indicator: "none" is section -1
    m_sort,         \* m_remap of m_sortProxyReport, or NoProxy
    m_list,         \* m_remap of m_filterProxyReport, empty when there is none
    m_contentWidth,
    m_selectedIndex,
    scroll,         \* the vertical scroll bar: list positions above the viewport
    m_filterer,     \* the filter in progress, or NoFilterer
    told,           \* the row last passed to TableReport::select
    crashed         \* a thread used a proxy after it was deleted

vars == <<viewSize, m_report, m_filter, sortOrder, m_sort, m_list, m_contentWidth,
          m_selectedIndex, scroll, m_filterer, told, crashed>>

SortOrders == {"none", "ascending", "descending"}
least(a, b) == IF a < b THEN a ELSE b
most(a, b) == IF a > b THEN a ELSE b
Numbers(n) == [i \in 1..n |-> i]

-----------------------------------------------------------------------------
(* Proxies *)

(* The comparison that orders m_remap of a sort proxy; descending order    *)
(* swaps the rows first, so that equal keys descend as well.               *)
SortsBefore(r, order, row1, row2) ==
    LET a == IF order = "descending" THEN row2 ELSE row1
        b == IF order = "descending" THEN row1 ELSE row2
    IN  \/ Key[r][a] < Key[r][b]
        \/ Key[r][a] = Key[r][b] /\ a < b

SortProxyReport ==
    [r \in Reports |-> [order \in {"ascending", "descending"} |->
        LET n == NumRows[r] IN
        CHOOSE remap \in [1..n -> 1..n] :
            \A i, j \in 1..n : i < j => SortsBefore(r, order, remap[i], remap[j])]]

(* What the filter proxy's rows refer to. *)
ProxyForFilter(sort, r) == IF sort = NoProxy THEN Numbers(NumRows[r]) ELSE sort

(* FilterProxyReport: rows ascend, and a binary search maps them back.     *)
MapFromSource(list, row) == SelectInSeq(list, LAMBDA x : x = row)

(* The same through both proxies, for rows of the report.                  *)
MapToTableReport(sort, list, r, index) == ProxyForFilter(sort, r)[list[index]]
MapFromTableReport(sort, list, r, row) ==
    MapFromSource(list, SelectInSeq(ProxyForFilter(sort, r), LAMBDA x : x = row))

-----------------------------------------------------------------------------
(* The filter *)

(* makeBatches: ranges <<first, count>> that cover the list. *)
MakeBatches(count) ==
    LET size == most(BatchMin, count \div 20)
    IN  [b \in 1..((count + size - 1) \div size) |->
            <<(b - 1) * size + 1, least(size, count - (b - 1) * size)>>]

(* TableReport::filter *)
RowMatches(r, pattern, row) == row \in Accepts[pattern][r]

(* MapFunc: goes through one batch and collects the positions whose row    *)
(* the pattern matches, and the width they take.                           *)
MapBatch(sort, r, pattern, range) ==
    LET proxy == ProxyForFilter(sort, r)
        batch[k \in 0..range[2]] ==
            LET i == range[1] + k - 1 IN
            IF k = 0 THEN [indices |-> <<>>, width |-> 0]
            ELSE IF ~RowMatches(r, pattern, proxy[i]) THEN batch[k - 1]
            ELSE [indices |-> Append(batch[k - 1].indices, i),
                  width |-> most(RowWidth[r][proxy[i]], batch[k - 1].width)]
    IN  batch[range[2]]

(* ReduceFunc *)
ReduceBatch(result, batch) ==
    [indices |-> result.indices \o batch.indices, width |-> most(result.width, batch.width)]

Reduce(result, batches) ==
    LET reduced[k \in 0..Len(batches)] ==
            IF k = 0 THEN result ELSE ReduceBatch(reduced[k - 1], batches[k])
    IN  reduced[Len(batches)]

(* QtConcurrent::mappedReduced under OrderedReduce: results of batches     *)
(* wait for those before them; reduced counts those that are in result.    *)
ReduceReady(done, reduced, result) ==
    LET ready == CHOOSE n \in 0..(Len(done) - reduced) :
                    /\ \A i \in 1..n : done[reduced + i] # NoResult
                    /\ n = Len(done) - reduced \/ done[reduced + n + 1] = NoResult
    IN  [reduced |-> reduced + ready,
         result |-> Reduce(result, [i \in 1..ready |-> done[reduced + i]])]

EmptyResult == [indices |-> <<>>, width |-> HeaderWidth]

(* The result of a filter that is waited for. *)
FilterResult(sort, r, pattern) ==
    LET batches == MakeBatches(NumRows[r])
    IN  Reduce(EmptyResult,
               [b \in 1..Len(batches) |-> MapBatch(sort, r, pattern, batches[b])])

(* A filterer that was just started on the present proxies. *)
Started(r, pattern) ==
    [pattern |-> pattern, next |-> 1,
     running |-> [w \in Workers |-> 0],
     done |-> [b \in 1..Len(MakeBatches(NumRows[r])) |-> NoResult],
     reduced |-> 0, result |-> EmptyResult]

AllReduced(f) == f.reduced = Len(f.done)

(* A pool thread takes the next batch. *)
TakeBatch(w) ==
    /\ m_filterer # NoFilterer
    /\ m_filterer.running[w] = 0
    /\ m_filterer.next <= Len(m_filterer.done)
    /\ m_filterer' = [m_filterer EXCEPT !.running[w] = m_filterer.next,
                                          !.next = m_filterer.next + 1]
    /\ UNCHANGED <<viewSize, m_report, m_filter, sortOrder, m_sort, m_list, m_contentWidth,
                   m_selectedIndex, scroll, told, crashed>>

(* It has filtered the batch; whatever is ready in order is reduced. *)
EndBatch(w) ==
    /\ m_filterer # NoFilterer
    /\ m_filterer.running[w] # 0
    /\ LET b == m_filterer.running[w]
       IN  \E rows \in {MapBatch(m_sort, m_report, m_filterer.pattern,
                                 MakeBatches(NumRows[m_report])[b])} :
           \E done \in {[m_filterer.done EXCEPT ![b] = rows]} :
           \E after \in {ReduceReady(done, m_filterer.reduced, m_filterer.result)} :
              m_filterer' = [m_filterer EXCEPT !.running[w] = 0, !.done = done,
                                               !.reduced = after.reduced,
                                               !.result = after.result]
    /\ UNCHANGED <<viewSize, m_report, m_filter, sortOrder, m_sort, m_list, m_contentWidth,
                   m_selectedIndex, scroll, told, crashed>>

-----------------------------------------------------------------------------
(* The list, the selection and the scroll bar *)

(* estimatedViewportSize: a bar for rows that do not fit takes width, and  *)
(* a bar for width takes a row, which may make the other one necessary.    *)
EstimatedViewportHeight(size, count, contentWidth) ==
    LET NeedsH(vbar) == size.width - (IF vbar THEN 1 ELSE 0) < contentWidth
        Height(hbar) == size.height - (IF hbar THEN 1 ELSE 0)
        vbar1 == size.height < count
        hbar1 == NeedsH(vbar1)
        vbar2 == vbar1 \/ Height(hbar1) < count
    IN  Height(hbar1 \/ NeedsH(vbar2))

VisibleItemCount(size, list, contentWidth) ==
    most(1, EstimatedViewportHeight(size, Len(list), contentWidth))

(* Mutant: the scroll bar keeps its range when the list shrinks.           *)
ScrollKept(size, list, contentWidth, top) == top

(* updateScrollBars: the range of the scroll bar bounds its value.         *)
UpdatedScroll(size, list, contentWidth, top) ==
    least(top, most(0, Len(list) - VisibleItemCount(size, list, contentWidth)))

EnsureIndexVisible(size, list, contentWidth, top, index) ==
    LET i == least(Len(list), index)
        page == VisibleItemCount(size, list, contentWidth)
    IN  IF i = 0 THEN 0
        ELSE IF i <= top THEN i - 1
        ELSE IF i > top + page THEN i - page
        ELSE top

(* Mutant: the report hears of a selection only when it is told to.        *)
SelectQuietly(sort, list, contentWidth, old, top, index, forceReportCallback) ==
    /\ m_selectedIndex' = index
    /\ scroll' = IF index = old THEN top
                 ELSE EnsureIndexVisible(viewSize, list, contentWidth, top, index)
    /\ told' = IF index # 0 /\ forceReportCallback
               THEN MapToTableReport(sort, list, m_report, index) ELSE told

(* setSelectedIndex, in a view with the given sort proxy, list and width   *)
(* whose selection is old and whose scroll bar is at top.                  *)
SetSelectedIndex(sort, list, contentWidth, old, top, index, forceReportCallback) ==
    /\ m_selectedIndex' = index
    /\ scroll' = IF index = old THEN top
                 ELSE EnsureIndexVisible(viewSize, list, contentWidth, top, index)
    /\ told' = IF index # 0 /\ (index # old \/ forceReportCallback)
               THEN MapToTableReport(sort, list, m_report, index) ELSE told

(* Mutant: the selection stays where it was in the list.                   *)
FinishInPlace(result) ==
    /\ m_list' = result.indices
    /\ m_contentWidth' = result.width
    /\ SetSelectedIndex(m_sort, result.indices, result.width, 0,
                        UpdatedScroll(viewSize, result.indices, result.width, scroll),
                        least(m_selectedIndex, Len(result.indices)), FALSE)
    /\ m_filterer' = NoFilterer
    /\ UNCHANGED <<viewSize, m_report, m_filter, sortOrder, m_sort, crashed>>

(* finishBackgroundFiltering: the result becomes the list, and the row     *)
(* that was selected is looked up in it.                                   *)
FinishBackgroundFiltering(result) ==
    LET list == result.indices
        old == IF m_selectedIndex = 0 THEN 0 ELSE m_list[m_selectedIndex]
    IN  /\ m_list' = list
        /\ m_contentWidth' = result.width
        /\ SetSelectedIndex(m_sort, list, result.width, 0,
                            UpdatedScroll(viewSize, list, result.width, scroll),
                            IF old = 0 THEN 0 ELSE MapFromSource(list, old), FALSE)
        /\ m_filterer' = NoFilterer
        /\ UNCHANGED <<viewSize, m_report, m_filter, sortOrder, m_sort, crashed>>

(* The event loop delivers the watcher's finished signal. *)
FilterFinished ==
    /\ ~crashed
    /\ m_filterer # NoFilterer
    /\ AllReduced(m_filterer)
    /\ FinishBackgroundFiltering(m_filterer.result)

(* A proxy is deleted while a filter may read it: undefined behaviour.     *)
Dangling(filterer) ==
    IF filterer # NoFilterer /\ ~AllReduced(filterer) THEN BOOLEAN ELSE {FALSE}

(* A window is opened on a report: setTableReport of a new view, which     *)
(* filters with the empty pattern before it returns.                       *)
SetTableReport(r) ==
    /\ ~crashed
    /\ m_report = NoReport
    /\ m_report' = r
    /\ m_filter' = EmptyFilter
    /\ sortOrder' = "none"
    /\ m_sort' = NoProxy
    /\ LET whole == FilterResult(NoProxy, r, EmptyFilter)
       IN  m_list' = whole.indices /\ m_contentWidth' = whole.width
    /\ m_selectedIndex' = 0 /\ scroll' = 0 /\ told' = 0
    /\ m_filterer' = NoFilterer
    /\ UNCHANGED <<viewSize, crashed>>

(* The filter box was edited to a valid pattern. A filter in progress is   *)
(* cancelled and waited for before its successor starts.                   *)
SetFilter(pattern) ==
    /\ ~crashed
    /\ m_report # NoReport
    /\ pattern # m_filter
    /\ m_filter' = pattern
    /\ m_filterer' = Started(m_report, pattern)
    /\ scroll' = IF m_selectedIndex = 0
                 THEN EnsureIndexVisible(viewSize, m_list, m_contentWidth, scroll, 1) ELSE scroll
    /\ UNCHANGED <<viewSize, m_report, sortOrder, m_sort, m_list, m_contentWidth,
                   m_selectedIndex, told, crashed>>

(* Mutant: sorting leaves the filter in progress alone.                    *)
SortUnderFilter(order) ==
    /\ ~crashed
    /\ m_report # NoReport
    /\ order \in {"ascending", "descending"} \ {sortOrder}
    /\ sortOrder' = order
    /\ m_sort' = SortProxyReport[m_report][order]
    /\ LET result == FilterResult(m_sort', m_report, m_filter)
       IN  m_list' = result.indices /\ m_contentWidth' = result.width
    /\ m_selectedIndex' = 0 /\ scroll' = 0
    /\ UNCHANGED <<viewSize, m_report, m_filter, m_filterer, told, crashed>>

(* Mutant: the proxies are deleted before the filterer is.                 *)
SortBeforeReset(order) ==
    /\ ~crashed
    /\ m_report # NoReport
    /\ order \in {"ascending", "descending"} \ {sortOrder}
    /\ sortOrder' = order
    /\ crashed' \in Dangling(m_filterer)
    /\ m_sort' = SortProxyReport[m_report][order]
    /\ LET result == FilterResult(m_sort', m_report, m_filter)
       IN  m_list' = result.indices /\ m_contentWidth' = result.width
    /\ m_selectedIndex' = 0 /\ scroll' = 0
    /\ m_filterer' = NoFilterer
    /\ UNCHANGED <<viewSize, m_report, m_filter, told>>

(* A column header was clicked. The old filterer is gone before the sort   *)
(* proxy is replaced; the list is filtered anew before the slot returns.   *)
SortIndicatorChanged(order) ==
    /\ ~crashed
    /\ m_report # NoReport
    /\ order \in {"ascending", "descending"} \ {sortOrder}
    /\ sortOrder' = order
    /\ m_sort' = SortProxyReport[m_report][order]
    /\ LET result == FilterResult(m_sort', m_report, m_filter)
           list == result.indices
           old == IF m_selectedIndex = 0 THEN 0
                  ELSE MapToTableReport(m_sort, m_list, m_report, m_selectedIndex)
       IN  /\ m_list' = list
           /\ m_contentWidth' = result.width
           /\ SetSelectedIndex(m_sort', list, result.width, 0,
                               UpdatedScroll(viewSize, list, result.width, scroll),
                               IF old = 0 THEN 0
                               ELSE MapFromTableReport(m_sort', list, m_report, old), FALSE)
    /\ m_filterer' = NoFilterer
    /\ crashed' \in Dangling(NoFilterer)
    /\ UNCHANGED <<viewSize, m_report, m_filter>>

(* The window is closed. Members are destroyed from the last declared to   *)
(* the first, so the proxies go before the filterer waits for its threads. *)
Close ==
    /\ ~crashed
    /\ m_report # NoReport
    /\ m_report' = NoReport
    /\ m_sort' = NoProxy /\ m_list' = <<>> /\ m_contentWidth' = 0
    /\ m_filterer' = NoFilterer
    /\ crashed' \in Dangling(m_filterer)
    /\ m_selectedIndex' = 0 /\ scroll' = 0 /\ told' = 0
    /\ UNCHANGED <<viewSize, m_filter, sortOrder>>

-----------------------------------------------------------------------------
(* The user selects and scrolls *)

Select(index, force) ==
    /\ SetSelectedIndex(m_sort, m_list, m_contentWidth, m_selectedIndex, scroll, index, force)
    /\ UNCHANGED <<viewSize, m_report, m_filter, sortOrder, m_sort, m_list, m_contentWidth,
                   m_filterer, crashed>>

page == VisibleItemCount(viewSize, m_list, m_contentWidth)
Usable == ~crashed /\ m_list # <<>>

(* Enter activates the selected row and no report then closes its window.  *)
KeyPressEvent(key) ==
    /\ Usable
    /\ Select(CASE key = "Home" -> 1
                [] key = "End" -> Len(m_list)
                [] OTHER -> least(Len(m_list), most(1, m_selectedIndex +
                                CASE key = "Up" -> -1 [] key = "Down" -> 1
                                  [] key = "PageUp" -> -page [] key = "PageDown" -> page)),
              TRUE)

(* A point y rows below the top of the viewport. *)
IndexFromPoint(y) == least(Len(m_list), scroll + y + 1)

MousePressEvent(y) == Usable /\ Select(IndexFromPoint(y), TRUE)
MouseMoveEvent(y) == Usable /\ Select(IndexFromPoint(y), FALSE)

(* The second press: on another row it selects; on the selected row it     *)
(* activates, which opens another window or does nothing.                  *)
MouseDoubleClickEvent(y) ==
    /\ Usable
    /\ IndexFromPoint(y) # m_selectedIndex
    /\ Select(IndexFromPoint(y), TRUE)

Scroll(delta) ==
    /\ Usable
    /\ scroll' = UpdatedScroll(viewSize, m_list, m_contentWidth, most(0, scroll + delta))
    /\ UNCHANGED <<viewSize, m_report, m_filter, sortOrder, m_sort, m_list, m_contentWidth,
                   m_selectedIndex, m_filterer, told, crashed>>

(* event: the window is resized. The range of the scroll bar follows, and  *)
(* the selection may be left out of view.                                  *)
Resize(size) ==
    /\ ~crashed
    /\ m_report # NoReport
    /\ viewSize' = size
    /\ scroll' = UpdatedScroll(size, m_list, m_contentWidth, scroll)
    /\ UNCHANGED <<m_report, m_filter, sortOrder, m_sort, m_list, m_contentWidth,
                   m_selectedIndex, m_filterer, told, crashed>>

-----------------------------------------------------------------------------
(* The window around the list *)

(* The filter box was edited; what is no regular expression is not passed  *)
(* on.                                                                     *)
FilterTextChanged == \E pattern \in Filters : SetFilter(pattern)

(* The filter box passes the keys that move the selection on to the list.  *)
EventFilter ==
    \E key \in {"Up", "Down", "PageUp", "PageDown", "Home", "End"} : KeyPressEvent(key)

-----------------------------------------------------------------------------
Init ==
    /\ viewSize \in ViewSizes
    /\ m_report = NoReport
    /\ m_filter = EmptyFilter
    /\ sortOrder = "none"
    /\ m_sort = NoProxy /\ m_list = <<>> /\ m_contentWidth = 0
    /\ m_selectedIndex = 0 /\ scroll = 0 /\ told = 0
    /\ m_filterer = NoFilterer
    /\ crashed = FALSE

BackgroundStep == (\E w \in Workers : TakeBatch(w) \/ EndBatch(w)) \/ FilterFinished

Next ==
    \/ \E r \in Reports : SetTableReport(r)
    \/ FilterTextChanged
    \/ \E o \in SortOrders : SortIndicatorChanged(o)
    \/ EventFilter
    \/ \E y \in 0..(viewSize.height - 1) :
          MousePressEvent(y) \/ MouseMoveEvent(y) \/ MouseDoubleClickEvent(y)
    \/ \E delta \in {-1, 1} : Scroll(delta)
    \/ \E size \in ViewSizes : Resize(size)
    \/ BackgroundStep
    \/ Close

(* Pool threads run and the event loop delivers signals; no user need act. *)
Spec == Init /\ [][Next]_vars /\ WF_vars(BackgroundStep)

-----------------------------------------------------------------------------
(* The rows of the report in the order they are shown. *)
Shown == [i \in 1..Len(m_list) |-> MapToTableReport(m_sort, m_list, m_report, i)]

(* Types; the list holds positions of the sorted report in ascending       *)
(* order, as the binary search of FilterProxyReport needs, and selection   *)
(* and scroll bar point into it.                                           *)
TypeOK ==
    /\ viewSize \in ViewSizes
    /\ m_report \in Reports \cup {NoReport}
    /\ m_filter \in Filters
    /\ sortOrder \in SortOrders
    /\ crashed \in BOOLEAN
    /\ m_list # <<>> => m_report # NoReport
    /\ \A i \in 1..Len(m_list) : m_list[i] \in 1..NumRows[m_report]
    /\ \A i \in 1..(Len(m_list) - 1) : m_list[i] < m_list[i + 1]
    /\ m_selectedIndex \in 0..Len(m_list)
    /\ scroll \in 0..most(0, Len(m_list) - page)

(* The list implements the promise of RowList: it is the filtered report   *)
(* in the order of the header, never a mixture of two filters or orders,   *)
(* and it catches up with the filter box.                                  *)
ListOf == INSTANCE RowList
            WITH report <- m_report,
                 wanted <- [filter |-> m_filter, order |-> sortOrder],
                 rows <- Shown
ListSpec == ListOf!ListSpec

(* "When a selected item disappears from the filter results, no other item *)
(* should become selected" (notes/queries.txt:65), and while it stays, it  *)
(* stays selected: whatever replaces the list, on a header click or when a *)
(* filter ends, takes the selection to the same row, and when the new list *)
(* or its order is another one the row is scrolled into view.              *)
SelectionFollows ==
    [][ <<m_list, m_sort, m_filterer>>' # <<m_list, m_sort, m_filterer>> /\ m_report' = m_report =>
        IF m_selectedIndex # 0 /\ \E i \in DOMAIN Shown' : Shown'[i] = Shown[m_selectedIndex]
        THEN /\ m_selectedIndex' # 0
             /\ Shown'[m_selectedIndex'] = Shown[m_selectedIndex]
             /\ <<m_list, m_sort>>' # <<m_list, m_sort>> =>
                    m_selectedIndex' \in (scroll' + 1)..(scroll' + page')
        ELSE m_selectedIndex' = 0 ]_vars

(* "Selecting an item navigates to the corresponding location"             *)
(* (notes/queries.txt:23): the row last passed to the report is the one    *)
(* that is selected, however it came to be selected.                       *)
SelectionNavigates ==
    /\ TypeOK
    /\ m_selectedIndex # 0 => told = Shown[m_selectedIndex]

(* Threads read a deleted proxy only when a window is closed while its     *)
(* filter runs, never through sorting, filtering or opening.               *)
CrashHasCause == crashed => m_report = NoReport
=============================================================================
