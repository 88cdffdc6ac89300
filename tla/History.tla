------------------------------ MODULE History -------------------------------
(***************************************************************************)
(* navigator/History.cc and the code of MainWindow that records into it:   *)
(* where the main window is, where it has been, and Back and Forward.      *)
(*                                                                         *)
(* Positions are 1 more than the code's: m_historyIndex 0 is the code's -1.*)
(* An offset stands for the vertical scroll position; it never exceeds the *)
(* scroll range of the shown file, which changes with the window's size.   *)
(***************************************************************************)
EXTENDS Naturals, SequencesExt

CONSTANTS File,
          NoFile,           \* NULL
          MaxOffset,        \* bound: scroll positions
          MaximumLocations  \* kMaximumHistoryLocations

ASSUME HistoryAssumption ==
    /\ NoFile \notin File
    /\ MaxOffset \in Nat
    /\ MaximumLocations \in Nat \ {0}

VARIABLES m_history,       \* the locations, oldest first
          m_historyIndex,  \* the current one, 0 when there is none
          here,            \* currentLocation()
          range,           \* range[f]: how far f can be scrolled
          crashed,         \* NULL was dereferenced
          trail            \* history: how `here` was reached, and from where

vars == <<m_history, m_historyIndex, here, range, crashed, trail>>

Offset == 0..MaxOffset
Location == [file : File, offset : Offset]
Nowhere == [file |-> NoFile, offset |-> 0]

(* trail: "jump" or "back" is the last step, made from `from`. *)
Trail == [step : {"other"}, from : {Nowhere}] \cup [step : {"jump", "back"}, from : Location]
Aside == [step |-> "other", from |-> Nowhere]

(* A history value: the list and the index in it. *)
Current == [list |-> m_history, index |-> m_historyIndex]

Become(h) ==
    /\ m_history' = h.list
    /\ m_historyIndex' = h.index
-----------------------------------------------------------------------------
Least(x, y) == IF x < y THEN x ELSE y
Excess(n) == IF n > MaximumLocations THEN n - MaximumLocations ELSE 0

(* Mutant: the index is not moved with the list.                           *)
CapHistorySize_index(h) ==
    [h EXCEPT !.list = SubSeq(@, 1 + Excess(h.index - 1), Len(@))]

(* Mutant: only the oldest are cut.                                        *)
CapHistorySize_front(h) ==
    LET drop == Excess(h.index - 1) IN
    [list |-> SubSeq(h.list, drop + 1, Len(h.list)), index |-> h.index - drop]

(* capHistorySize: at most MaximumLocations before and after the current.  *)
CapHistorySize(h) ==
    LET drop == Excess(h.index - 1) IN
    [list |-> SubSeq(h.list, drop + 1, Least(Len(h.list), h.index + MaximumLocations)),
     index |-> h.index - drop]

(* Mutant: the entry ahead is not looked at. *)
RecordLocation_behind(h, loc) ==
    IF loc.file = NoFile \/ (h.index > 0 /\ h.list[h.index] = loc)
    THEN h
    ELSE CapHistorySize([list |-> InsertAt(h.list, h.index + 1, loc), index |-> h.index + 1])

(* recordLocation: nothing if the location is the current one, one forward *)
(* if it is the next one, otherwise it comes next and becomes current.     *)
RecordLocation(h, loc) ==
    LET recorded == h.index > 0
        isNext == recorded /\ h.index < Len(h.list) /\ h.list[h.index + 1] = loc
    IN CASE loc.file = NoFile -> h
         [] recorded /\ h.list[h.index] = loc -> h
         [] isNext /\ h.list[h.index] # loc -> [h EXCEPT !.index = @ + 1]
         [] OTHER -> CapHistorySize([list |-> InsertAt(h.list, h.index + 1, loc),
                                     index |-> h.index + 1])

RecordJump(h, from, to) == RecordLocation(RecordLocation(h, from), to)

CanGoBack == m_historyIndex > 1
CanGoForward == m_historyIndex < Len(m_history)

(* goBack, goForward: the history afterwards; the same one is for NULL.    *)
GoBack(h) == IF h.index <= 1 THEN h ELSE CapHistorySize([h EXCEPT !.index = @ - 1])

GoForward(h) ==
    IF h.index >= Len(h.list) THEN h ELSE CapHistorySize([h EXCEPT !.index = @ + 1])
-----------------------------------------------------------------------------
Init ==
    /\ m_history = <<>> /\ m_historyIndex = 0
    /\ here = Nowhere
    /\ range \in [File -> Offset]
    /\ crashed = FALSE
    /\ trail = Aside

(* The user scrolls. *)
Scroll(offset) ==
    /\ ~crashed
    /\ here.file # NoFile /\ offset <= range[here.file]
    /\ here' = [here EXCEPT !.offset = offset]
    /\ trail' = Aside
    /\ UNCHANGED <<m_history, m_historyIndex, range, crashed>>

(* The window gets another size; the scroll bar stays within its range.    *)
Resize(newRange) ==
    /\ ~crashed
    /\ range' = newRange
    /\ here' = IF here.file = NoFile THEN here
               ELSE [here EXCEPT !.offset = Least(@, newRange[here.file])]
    /\ trail' = Aside
    /\ UNCHANGED <<m_history, m_historyIndex, crashed>>

(* SourceWidget::setFile: another file is shown from its top. *)
AfterSetFile(file) == IF here.file = file THEN here ELSE [file |-> file, offset |-> 0]

(* Mutant: the place is read after the file is set. *)
JumpTo_late(to) ==
    /\ ~crashed
    /\ Become(RecordJump(Current, AfterSetFile(to.file), to))
    /\ here' = to
    /\ trail' = IF here \in {Nowhere, to} THEN Aside ELSE [step |-> "jump", from |-> here]
    /\ UNCHANGED <<range, crashed>>

JumpTo(to) ==
    /\ ~crashed
    /\ Become(RecordJump(Current, here, to))
    /\ here' = to
    /\ trail' = IF here \in {Nowhere, to} THEN Aside ELSE [step |-> "jump", from |-> here]
    /\ UNCHANGED <<range, crashed>>

(* navigateToFile, from the folder tree or a report. *)
NavigateToFile(file) == JumpTo(AfterSetFile(file))

(* navigateToRef: selectIdentifier scrolls the reference into view; where  *)
(* that is depends on the line.                                            *)
NavigateToRef(file, offset) ==
    /\ offset <= range[file]
    /\ JumpTo([file |-> file, offset |-> offset])

(* setFile and setViewportOrigin, which stays within the scroll range.     *)
Show(loc) == here' = [loc EXCEPT !.offset = Least(@, range[loc.file])]

(* Mutant: Back forgets where it is called. *)
Back_forget ==
    /\ ~crashed
    /\ CanGoBack
    /\ LET h == GoBack(Current) IN Become(h) /\ Show(h.list[h.index])
    /\ trail' = [step |-> "back", from |-> here]
    /\ UNCHANGED <<range, crashed>>

(* actionBack *)
Back ==
    /\ ~crashed
    /\ CanGoBack
    /\ LET h == GoBack(RecordLocation(Current, here)) IN Become(h) /\ Show(h.list[h.index])
    /\ trail' = [step |-> "back", from |-> here]
    /\ UNCHANGED <<range, crashed>>

(* actionForward; canGoForward is asked before the location is recorded.   *)
Forward ==
    /\ ~crashed
    /\ CanGoForward
    /\ LET recorded == RecordLocation(Current, here)
           h == GoForward(recorded)
       IN /\ Become(h)
          /\ IF recorded.index < Len(recorded.list)
             THEN Show(h.list[h.index]) /\ crashed' = FALSE
             ELSE here' = here /\ crashed' = TRUE
    /\ trail' = Aside
    /\ UNCHANGED range

Next ==
    \/ \E offset \in Offset : Scroll(offset)
    \/ \E newRange \in [File -> Offset] : Resize(newRange)
    \/ \E file \in File : NavigateToFile(file)
    \/ \E file \in File, offset \in Offset : NavigateToRef(file, offset)
    \/ Back \/ Forward

Spec == Init /\ [][Next]_vars
-----------------------------------------------------------------------------
(* checkHistoryIndex (History.cc:80-87): the index is one of the list's,   *)
(* and the window's place is one the scroll bar allows.                    *)
TypeOK ==
    /\ m_history \in Seq(Location)
    /\ Len(m_history) <= 2 * MaximumLocations + 1
    /\ m_historyIndex \in 0..Len(m_history)
    /\ m_historyIndex = 0 <=> m_history = <<>>
    /\ range \in [File -> Offset]
    /\ here = Nowhere \/ (here \in Location /\ here.offset <= range[here.file])
    /\ crashed \in BOOLEAN
    /\ trail \in Trail

(* No location follows itself, so Back and Forward always lead elsewhere:  *)
(* an entry is inserted between two others (History.cc:41) and differs     *)
(* from both, and cutting the ends keeps it so.                            *)
NoRepeat ==
    /\ TypeOK
    /\ \A i \in 1..(Len(m_history) - 1) : m_history[i] # m_history[i + 1]

(* Back right after a jump returns to where the jump began, in whatever    *)
(* part of the list the jump was recorded and however it was cut; Forward  *)
(* right after Back returns to where Back was called, if Back could show   *)
(* the place it went to.                                                   *)
BackAndForwardUndo ==
    /\ [][Back /\ trail.step = "jump" => here' = trail.from]_vars
    /\ [][Forward /\ trail.step = "back" /\ here = m_history[m_historyIndex]
          => here' = trail.from]_vars

(* goForward "Returns NULL on failure" (History.h:31), and actionForward   *)
(* asks canGoForward to exclude that before it dereferences the result.    *)
ForwardFinds == ~crashed
=============================================================================
