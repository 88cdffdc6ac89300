---------------------------- MODULE SourceWidget ----------------------------
(***************************************************************************)
(* navigator/SourceWidget.cc: the scroll area that shows a file, and the   *)
(* search in it.  Everything here runs on the GUI thread, one handler at a *)
(* time, so a handler is a function from the widget's state to the next.   *)
(*                                                                         *)
(* Scrolling is vertical and in whole lines; the margin that the code      *)
(* keeps around a match (50 pixels) is a number of lines too.              *)
(***************************************************************************)
EXTENDS RegexMatchList

LOCAL INSTANCE FiniteSetsExt
LOCAL INSTANCE TLC

CONSTANTS NoFile,   \* NULL
          Heights,  \* bound: the heights the viewport can have, in lines
          YMargin   \* the margin of ensureVisible

ASSUME SourceWidgetAssumption ==
    /\ NoFile \notin Files
    /\ Heights \subseteq Nat \ {0}
    /\ YMargin \in Nat

(* The widget and its view.  matchInfo is what the find bar was last told: *)
(* updateFindBarInfo is connected to both signals about the matches.       *)
Widget ==
    [m_file : Files \cup {NoFile},
     origin : Nat,                     \* verticalScrollBar()->value()
     height : Heights,
     m_findRegex : Regexes,
     m_findMatches : Seq(Nat \X Nat),
     m_selectedMatchIndex : Nat \cup {-1},
     m_findStartOffset : Nat \cup {-1},
     m_findStartOrigin : Nat,
     matchInfo : [index : Nat \cup {-1}, count : Nat]]

MatchCount(w) == Len(w.m_findMatches)
Match(w, index) == w.m_findMatches[index + 1]
First(match) == match[1]
Second(match) == match[2]

(* SourceWidgetView::SourceWidgetView *)
NewView ==
    [m_file |-> NoFile, m_findRegex |-> EmptyRegex, m_findMatches |-> <<>>,
     m_selectedMatchIndex |-> -1]

(* SourceWidget::SourceWidget, with no file yet; a search seems begun.     *)
NewWidget(height) ==
    NewView @@ [origin |-> 0, height |-> height,
                m_findStartOffset |-> 0, m_findStartOrigin |-> 0,
                matchInfo |-> [index |-> -1, count |-> 0]]
-----------------------------------------------------------------------------
(* SCROLLING.  updateScrollBars: the range of the scroll bar.              *)
MaxOrigin(w) ==
    IF w.m_file = NoFile THEN 0 ELSE Max({0, LineCount(w.m_file) - w.height})

(* A scroll bar keeps its value inside its range.                          *)
SetViewportOrigin(w, line) == [w EXCEPT !.origin = Max({0, Min({line, MaxOrigin(w)})})]

(* layoutSourceWidget, when the file or the size has changed.              *)
LayoutSourceWidget(w) == SetViewportOrigin(w, w.origin)

ResizeEvent(w, height) == LayoutSourceWidget([w EXCEPT !.height = height])

(* QRect::contains, for the lines of a range: its last line wholly.        *)
Shows(w, line, lastLine) ==
    /\ line \in w.origin .. w.origin + w.height - 1
    /\ lastLine + 1 \in w.origin .. w.origin + w.height - 1

(* ensureVisible: the bottom margin first, then the top one.               *)
EnsureVisible(w, line) ==
    LET up == IF w.origin + w.height - line < YMargin
              THEN line - w.height + YMargin ELSE w.origin
        down == IF line - up < YMargin THEN line - YMargin ELSE up
    IN SetViewportOrigin(w, down)

(* matchFileRange: the lines where a match starts and ends.                *)
MatchFileRange(w, index) ==
    [start |-> LineOf(w.m_file, First(Match(w, index))),
     end   |-> LineOf(w.m_file, Second(Match(w, index)))]

(* ensureSelectedMatchVisible: the end, then the start, which wins.        *)
EnsureSelectedMatchVisible(w) ==
    IF w.m_selectedMatchIndex = -1 THEN w
    ELSE LET range == MatchFileRange(w, w.m_selectedMatchIndex)
         IN IF Shows(w, range.start, range.end) THEN w
            ELSE EnsureVisible(EnsureVisible(w, range.end + 1), range.start)
-----------------------------------------------------------------------------
(* THE VIEW.  findMatchListChanged and findMatchSelectionChanged.          *)
Told(w) == [w EXCEPT !.matchInfo = [index |-> w.m_selectedMatchIndex, count |-> MatchCount(w)]]

(* Mutant: the selected match keeps its number in the new list.            *)
UpdateFindMatches_selected(w) ==
    Told([w EXCEPT !.m_findMatches = IF w.m_file = NoFile THEN <<>>
                                     ELSE Matches[w.m_file][w.m_findRegex]])

(* updateFindMatches: the list is made anew and no match is selected.      *)
UpdateFindMatches(w) ==
    Told([w EXCEPT !.m_findMatches = IF w.m_file = NoFile THEN <<>>
                                     ELSE Matches[w.m_file][w.m_findRegex],
                   !.m_selectedMatchIndex = -1])

(* SourceWidgetView::setFindRegex                                          *)
ViewSetFindRegex(w, regex) ==
    IF w.m_findRegex = regex THEN w
    ELSE UpdateFindMatches([w EXCEPT !.m_findRegex = regex])

(* SourceWidgetView::setSelectedMatchIndex                                 *)
ViewSetSelectedMatchIndex(w, index) ==
    IF (MatchCount(w) = 0 /\ index # -1) \/ index = w.m_selectedMatchIndex THEN w
    ELSE Told([w EXCEPT !.m_selectedMatchIndex = index])

(* SourceWidget::setSelectedMatchIndex                                     *)
SetSelectedMatchIndex(w, index) ==
    EnsureSelectedMatchVisible(ViewSetSelectedMatchIndex(w, index))

(* SourceWidgetView::setFile *)
ViewSetFile(w, file) == UpdateFindMatches([w EXCEPT !.m_file = file])

(* Mutant: where the search began is kept.                                 *)
SetFile_start(w, file) ==
    IF w.m_file = file THEN w
    ELSE LayoutSourceWidget(ViewSetFile([w EXCEPT !.origin = 0], file))

(* SourceWidget::setFile: from the top, with the expression searched for   *)
(* in the new file and no search begun in it.                              *)
SetFile(w, file) ==
    IF w.m_file = file THEN w
    ELSE [LayoutSourceWidget(ViewSetFile([w EXCEPT !.origin = 0], file))
             EXCEPT !.m_findStartOffset = -1, !.m_findStartOrigin = 0]

(* selectIdentifier: centred if it is not in view, or if told so.          *)
SelectIdentifier(w, line, forceCenter) ==
    IF ~forceCenter /\ Shows(w, line, line) THEN w
    ELSE SetViewportOrigin(w, line - w.height \div 2)
-----------------------------------------------------------------------------
(* THE SEARCH.  hitTest at the left of a line: null without a file, else   *)
(* that line or the end of the file.                                       *)
HitTest(w, line) ==
    IF w.m_file = NoFile THEN -1 ELSE Min({line, LineCount(w.m_file)})

(* FileLocation(line, 0).toOffset(file)                                    *)
ToOffset(w, line) == IF line = -1 THEN -1 ELSE OffsetOf(w.m_file, line)

(* recordFindStart: the first line that is wholly in view.                 *)
RecordFindStart(w) ==
    [w EXCEPT !.m_findStartOffset = ToOffset(w, HitTest(w, w.origin)),
              !.m_findStartOrigin = w.origin]

RecordFindStartOnce(w) == IF w.m_findStartOffset = -1 THEN RecordFindStart(w) ELSE w

(* endFind *)
EndFind(w) ==
    ViewSetFindRegex([w EXCEPT !.m_findStartOffset = -1, !.m_findStartOrigin = 0], EmptyRegex)

(* std::lower_bound for <<offset, 0>>: the matches that start before it.   *)
LowerBound(w, offset) ==
    Cardinality({i \in DOMAIN w.m_findMatches : First(w.m_findMatches[i]) < offset})

(* Mutant: a search that has wrapped around is not told apart.             *)
BestMatchIndex_unwrapped(w, previousOffset) ==
    LET start == w.m_findStartOffset
        count == MatchCount(w)
        after == LowerBound(w, previousOffset + 1)
        before == IF after > 0 THEN after - 1 ELSE count - 1
        atOrAfter(offset) == IF LowerBound(w, offset) = count THEN 0 ELSE LowerBound(w, offset)
    IN  CASE count = 0 -> -1
          [] count > 0 /\ previousOffset = -1 -> IF start = -1 THEN 0 ELSE atOrAfter(start)
          [] OTHER -> IF First(Match(w, before)) \in start .. previousOffset
                      THEN before ELSE atOrAfter(previousOffset)

(* bestMatchIndex: the last match up to the previous one, wrapping around, *)
(* if it is no further back than where the search began; otherwise the     *)
(* first one from there on.  If none was selected, the first one from      *)
(* where the search began.                                                 *)
BestMatchIndex(w, previousOffset) ==
    LET start == w.m_findStartOffset
        count == MatchCount(w)
        after == LowerBound(w, previousOffset + 1)
        before == IF after > 0 THEN after - 1 ELSE count - 1
        offset == First(Match(w, before))
        inRange == IF start <= previousOffset
                   THEN offset >= start /\ offset <= previousOffset
                   ELSE offset >= start \/ offset <= previousOffset
        atOrAfter(o) == IF LowerBound(w, o) = count THEN 0 ELSE LowerBound(w, o)
    IN  CASE count = 0 -> -1
          [] count > 0 /\ previousOffset = -1 -> IF start = -1 THEN 0 ELSE atOrAfter(start)
          [] OTHER -> IF inRange THEN before ELSE atOrAfter(previousOffset)

PreviousOffset(w) ==
    IF w.m_selectedMatchIndex = -1 THEN -1 ELSE First(Match(w, w.m_selectedMatchIndex))

(* SourceWidget::setFindRegex                                              *)
SetFindRegex(w, regex, advanceToMatch) ==
    LET restored == IF regex = EmptyRegex /\ w.m_findStartOffset # -1 /\ advanceToMatch
                    THEN SetViewportOrigin(w, w.m_findStartOrigin) ELSE w
        searched == ViewSetFindRegex(restored, regex)
        begun == RecordFindStartOnce(searched)
    IN IF ~advanceToMatch THEN searched
       ELSE SetSelectedMatchIndex(begun, BestMatchIndex(begun, PreviousOffset(w)))

(* selectNextMatch *)
SelectNextMatch(w) ==
    LET begun == RecordFindStartOnce(w) IN
    CASE MatchCount(w) = 0 -> w
      [] w.m_selectedMatchIndex = -1 /\ MatchCount(w) > 0 ->
            SetSelectedMatchIndex(begun, BestMatchIndex(begun, -1))
      [] OTHER -> SetSelectedMatchIndex(begun, (w.m_selectedMatchIndex + 1) % MatchCount(w))

(* selectPreviousMatch: with none selected, the one before the best.       *)
SelectPreviousMatch(w) ==
    LET begun == RecordFindStartOnce(w)
        from == IF w.m_selectedMatchIndex # -1 THEN begun
                ELSE SetSelectedMatchIndex(begun, BestMatchIndex(begun, -1))
        count == MatchCount(w)
    IN IF count = 0 THEN w
       ELSE SetSelectedMatchIndex(from, (from.m_selectedMatchIndex + count - 1) % count)
=============================================================================
