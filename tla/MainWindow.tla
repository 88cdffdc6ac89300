----------------------------- MODULE MainWindow -----------------------------
(***************************************************************************)
(* navigator/MainWindow.cc and FindBar.cc: the source widget, the find bar *)
(* and the folder tree, and the signals that keep them together.  Files    *)
(* are the items of the folder tree.                                       *)
(***************************************************************************)
EXTENDS SourceWidget, FolderWidget

LOCAL INSTANCE FiniteSetsExt

CONSTANT InvalidText  \* what can be typed that is no expression

Texts == Regexes \cup InvalidText

ASSUME MainWindowAssumption ==
    /\ Files = TreeFiles
    /\ NoFile = NoItem
    /\ Regexes \cap InvalidText = {}

VARIABLES sourceWidget,
          findBar,       \* whether it is visible, its text, m_regex
          folderWidget,
          searchedFrom   \* history: where the view was when the search in
                         \* this file began, NotSearching when none has

vars == <<sourceWidget, findBar, folderWidget, searchedFrom>>

NotSearching == -1
FindBar == [visible : BOOLEAN, text : Texts, m_regex : Regexes]

-----------------------------------------------------------------------------
(* fileChanged goes to sourceWidgetFileChanged, which selects the file in  *)
(* the tree; that emits nothing.                                           *)

(* Mutant: the tree is not told.                                           *)
Show_untold(w, v) ==
    /\ sourceWidget' = w
    /\ folderWidget' = v
    /\ searchedFrom' = IF w.m_file = sourceWidget.m_file THEN searchedFrom ELSE NotSearching

Show(w, v) ==
    /\ sourceWidget' = w
    /\ folderWidget' = IF w.m_file = sourceWidget.m_file THEN v ELSE SelectFile(v, w.m_file)
    /\ searchedFrom' = IF w.m_file = sourceWidget.m_file THEN searchedFrom ELSE NotSearching

(* navigateToFile: from a report, or from the tree.                        *)
NavigateToFile(file, v) ==
    /\ Show(IF file = NoFile THEN sourceWidget ELSE SetFile(sourceWidget, file), v)
    /\ UNCHANGED findBar

OpenFile == \E file \in Files : NavigateToFile(file, folderWidget)

(* navigateToRef *)
NavigateToRef ==
    \E file \in Files : \E line \in 0 .. LineCount(file) - 1 :
        /\ Show(SelectIdentifier(SetFile(sourceWidget, file), line, sourceWidget.m_file # file),
                folderWidget)
        /\ UNCHANGED findBar

(* actionBack, actionForward: to a location recorded earlier, which is any *)
(* file at any scroll position.                                            *)
BackOrForward ==
    \E file \in Files : \E line \in 0 .. LineCount(file) :
        /\ sourceWidget.m_file # NoFile
        /\ Show(SetViewportOrigin(SetFile(sourceWidget, file), line), folderWidget)
        /\ UNCHANGED findBar

(* Wheel, scroll bar and keys: any of them may lead anywhere.              *)
ScrollTo(line) ==
    /\ sourceWidget' = SetViewportOrigin(sourceWidget, line)
    /\ UNCHANGED <<findBar, folderWidget, searchedFrom>>

Scroll == \E line \in 0 .. MaxOrigin(sourceWidget) : ScrollTo(line)

(* eventFilter: while a search is typed, these keys go to the source       *)
(* widget all the same, and scroll by a line, by a page or to an end.      *)
EventFilter ==
    /\ findBar.visible
    /\ \E delta \in {-1, 1, -sourceWidget.height, sourceWidget.height,
                     -MaxOrigin(sourceWidget), MaxOrigin(sourceWidget)} :
          ScrollTo(sourceWidget.origin + delta)

Resize ==
    /\ \E height \in Heights : sourceWidget' = ResizeEvent(sourceWidget, height)
    /\ UNCHANGED <<findBar, folderWidget, searchedFrom>>
-----------------------------------------------------------------------------
(* The tree.  selectionChanged goes to folderWidgetSelectionChanged.       *)
FolderPress ==
    \E item \in UnderMouse(folderWidget) :
        LET v == MousePressEvent(folderWidget, item) IN
        /\ ~folderWidget.held
        /\ IF item \in TreeFiles THEN NavigateToFile(v.m_selectedFile, v)
           ELSE Show(sourceWidget, v) /\ UNCHANGED findBar

FolderDrag ==
    \E item \in UnderMouse(folderWidget) :
        LET v == MouseMoveEvent(folderWidget, item) IN
        /\ folderWidget.held
        /\ {item, folderWidget.m_mousePressItem} \subseteq TreeFiles
        /\ NavigateToFile(v.m_selectedFile, v)

FolderRelease ==
    /\ folderWidget.held
    /\ \E item \in UnderMouse(folderWidget) : folderWidget' = MouseReleaseEvent(folderWidget, item)
    /\ UNCHANGED <<sourceWidget, findBar, searchedFrom>>

(* actionRevealInSideBar *)
RevealInSideBar ==
    /\ sourceWidget.m_file # NoFile
    /\ folderWidget' = EnsureItemVisible(folderWidget, sourceWidget.m_file)
    /\ UNCHANGED <<sourceWidget, findBar, searchedFrom>>
-----------------------------------------------------------------------------
(* A step of the search begins it, unless it has begun in this file.       *)
SearchStep(w) ==
    /\ sourceWidget' = w
    /\ searchedFrom' = IF searchedFrom = NotSearching /\ w.m_file # NoFile
                       THEN sourceWidget.origin ELSE searchedFrom
    /\ UNCHANGED folderWidget

(* on_actionEditFind_triggered *)
EditFind ==
    /\ findBar' = [findBar EXCEPT !.visible = TRUE]
    /\ sourceWidget' = SetFindRegex(RecordFindStart(sourceWidget), findBar.m_regex, FALSE)
    /\ searchedFrom' = IF sourceWidget.m_file = NoFile THEN NotSearching ELSE sourceWidget.origin
    /\ UNCHANGED folderWidget

(* onFindBarClose *)
FindBarClose ==
    /\ findBar.visible
    /\ findBar' = [findBar EXCEPT !.visible = FALSE]
    /\ sourceWidget' = EndFind(sourceWidget)
    /\ searchedFrom' = NotSearching
    /\ UNCHANGED folderWidget

(* FindBar::onEditTextChanged, onFindBarRegexChanged: a text that is no    *)
(* expression is shown in red and changes nothing else.                    *)
EditTextChanged ==
    \E text \in Texts \ {findBar.text} :
        /\ findBar.visible
        /\ findBar' = [findBar EXCEPT !.text = text,
                                      !.m_regex = IF text \in Regexes THEN text ELSE @]
        /\ IF text \in Regexes THEN SearchStep(SetFindRegex(sourceWidget, text, TRUE))
           ELSE UNCHANGED <<sourceWidget, folderWidget, searchedFrom>>

(* FindBar::next, FindBar::previous: Enter, Shift+Enter and the buttons.   *)
StepTo(next) ==
    /\ findBar.visible
    /\ MatchCount(sourceWidget) > 0
    /\ SearchStep(next)
    /\ UNCHANGED findBar

NextMatch == StepTo(SelectNextMatch(sourceWidget))
PreviousMatch == StepTo(SelectPreviousMatch(sourceWidget))
-----------------------------------------------------------------------------
Init ==
    /\ sourceWidget \in {NewWidget(height) : height \in Heights}
    /\ findBar = [visible |-> FALSE, text |-> EmptyRegex, m_regex |-> EmptyRegex]
    /\ folderWidget = NewFolding
    /\ searchedFrom = NotSearching

Next ==
    \/ OpenFile \/ NavigateToRef \/ BackOrForward \/ Scroll \/ EventFilter \/ Resize
    \/ FolderPress \/ FolderDrag \/ FolderRelease \/ RevealInSideBar
    \/ EditFind \/ FindBarClose \/ EditTextChanged \/ NextMatch \/ PreviousMatch

Spec == Init /\ [][Next]_vars
-----------------------------------------------------------------------------
(* The list of matches, the selected match, the start of the search and    *)
(* what the find bar shows of them belong to the file shown and to the     *)
(* expression searched for, which is the find bar's while that is visible  *)
(* and none otherwise, after any order of navigation, typing and steps.    *)
SearchAgrees ==
    LET w == sourceWidget IN
    /\ w \in Widget /\ findBar \in FindBar /\ folderWidget \in Folding
    /\ w.origin <= MaxOrigin(w)
    /\ w.m_findMatches = IF w.m_file = NoFile THEN <<>> ELSE Matches[w.m_file][w.m_findRegex]
    /\ w.m_findRegex = IF findBar.visible THEN findBar.m_regex ELSE EmptyRegex
    /\ w.m_selectedMatchIndex < MatchCount(w)
    /\ w.m_selectedMatchIndex # -1 => w.m_findStartOffset # -1
    /\ w.matchInfo = [index |-> w.m_selectedMatchIndex, count |-> MatchCount(w)]

(* The matches are occurrences of the expression, each one after the one   *)
(* before; none is longer than it was found; and an occurrence that is not *)
(* in the list touches one that is (RegexMatchList's constructor and its   *)
(* operator[] together).                                                   *)
MatchesFound ==
    LET list == sourceWidget.m_findMatches
        file == sourceWidget.m_file
        regex == sourceWidget.m_findRegex
        occurrences == {m \in (0 .. Size(file)) \X (0 .. Size(file)) :
                           First(m) <= Second(m) /\ Occurs(file, regex, First(m), Second(m))}
    IN file # NoFile =>
        /\ \A i \in DOMAIN list : list[i] \in occurrences
        /\ \A i \in 2 .. Len(list) :
              First(list[i]) >= Second(list[i - 1]) /\ Second(list[i]) > Second(list[i - 1])
        /\ \A m \in occurrences : \E i \in DOMAIN list :
              First(m) <= Second(list[i]) /\ First(list[i]) <= Second(m)

(* How far an offset is in front of or behind another one, going around.   *)
Ahead(w, from, to) == (to - from + Size(w.m_file) + 1) % (Size(w.m_file) + 1)

(* The match to select when the expression changes, from where it began:   *)
(* if there are matches on the way from there to the match selected        *)
(* before, the last of them; otherwise the first one after that way.       *)
IsBestMatch(w, index, previousOffset) ==
    LET start == w.m_findStartOffset
        end == IF previousOffset = -1 THEN start ELSE previousOffset
        ahead(i) == Ahead(w, start, First(Match(w, i)))
        onTheWay == {i \in 0 .. MatchCount(w) - 1 : ahead(i) <= Ahead(w, start, end)}
        beyond == (0 .. MatchCount(w) - 1) \ onTheWay
    IN  CASE MatchCount(w) = 0 -> index = -1
          [] MatchCount(w) > 0 /\ onTheWay # {} ->
                index \in onTheWay /\ \A i \in onTheWay : ahead(i) <= ahead(index)
          [] OTHER -> index \in beyond /\ \A i \in beyond : ahead(index) <= ahead(i)

(* Typing selects the best match and brings its start into view (or the    *)
(* last line, when it is past it), whatever was searched for before,       *)
(* however the view was scrolled since, and also when the search has       *)
(* wrapped around the end of the file.                                     *)
TypingFinds ==
    [][(findBar'.text # findBar.text /\ findBar'.text \in Regexes /\ sourceWidget.m_file # NoFile)
       => LET w == sourceWidget' IN
          /\ IsBestMatch(w, w.m_selectedMatchIndex, PreviousOffset(sourceWidget))
          /\ w.m_selectedMatchIndex # -1 =>
                Min({MatchFileRange(w, w.m_selectedMatchIndex).start,
                     LineCount(w.m_file) - 1})
                    \in w.origin .. w.origin + w.height - 1]_vars

(* "The view origin ... when the user began searching.  Clearing the search*)
(* returns the view to this origin": where Find was chosen or, after the   *)
(* file changed, where the first step of the search was made; as far as    *)
(* the window's height now allows.                                         *)
ClearReturns ==
    [][(findBar'.text # findBar.text /\ findBar'.text = EmptyRegex)
       => sourceWidget'.origin =
             IF searchedFrom = NotSearching THEN sourceWidget.origin
             ELSE Min({searchedFrom, MaxOrigin(sourceWidget')})]_vars

(* "The current SourceWidget file and the selected file are always         *)
(* matched. A directory is never selected": after every way to change the  *)
(* file, also while files are being dragged over.                          *)
FolderFollows == folderWidget.m_selectedFile = sourceWidget.m_file
=============================================================================
