---------------------------- MODULE FolderWidget ----------------------------
(***************************************************************************)
(* navigator/FolderWidget.cc: the tree at the left of the source widget.   *)
(* Its scroll position is left out: the mouse may be over any item of the  *)
(* layout.                                                                 *)
(***************************************************************************)
EXTENDS Naturals, FileManager

LOCAL INSTANCE SequencesExt

CONSTANT NoItem  \* NULL

Items == (Folders \ {CategoryProject, CategoryOutside, CategorySpecial}) \cup TreeFiles

Folding ==
    [m_selectedFile : TreeFiles \cup {NoItem},
     m_openFolders : SUBSET Folders,
     m_mousePressItem : Items \cup {NoItem},
     held : BOOLEAN]   \* a mouse button is down over the tree

(* FolderWidgetView::FolderWidgetView and expandSingleChildren: a folder   *)
(* that is all its parent has is open.                                     *)
NewFolding ==
    [m_selectedFile |-> NoItem,
     m_openFolders |-> {f \in Folders : /\ ~IsRootFolder(f)
                                        /\ SubFolders[Parent(f)] = <<f>>
                                        /\ FilesOf[Parent(f)] = <<>>},
     m_mousePressItem |-> NoItem,
     held |-> FALSE]

Ancestors(item) == {f \in Folders : /\ ~IsRootFolder(f)
                                    /\ \E n \in 1 .. Len(item) - 1 : f = SubSeq(item, 1, n)}

(* traverseLayoutFolderChildren and traverseLayoutItem: the folders of a   *)
(* folder and then its files; below an open folder, what is in it.         *)
RECURSIVE LayoutFolder(_, _)
LayoutFolder(v, folder) ==
    LET LayoutItem(item) ==
            <<item>> \o (IF item \in v.m_openFolders THEN LayoutFolder(v, item) ELSE <<>>)
    IN FlattenSeq([i \in DOMAIN SubFolders[folder] |-> LayoutItem(SubFolders[folder][i])])
       \o FilesOf[folder]

(* traverseLayout: the items from top to bottom; every category is titled  *)
(* by a line that is no item.                                              *)
Layout(v) == FlattenSeq([i \in DOMAIN Roots |-> <<NoItem>> \o LayoutFolder(v, Roots[i])])

(* What the mouse can be over.                                             *)
UnderMouse(v) == ToSet(Layout(v))

(* selectFile: unless ancestorsAreOpen, that is all; otherwise the file is *)
(* also scrolled to.                                                       *)
SelectFile(v, file) == [v EXCEPT !.m_selectedFile = file]

(* ensureItemVisible, openAncestors                                        *)
EnsureItemVisible(v, item) == [v EXCEPT !.m_openFolders = @ \cup Ancestors(item)]

(* mousePressEvent: a file is selected at once.                            *)
MousePressEvent(v, item) ==
    [v EXCEPT !.m_mousePressItem = item, !.held = TRUE,
              !.m_selectedFile = IF item \in TreeFiles THEN item ELSE @]

(* mouseMoveEvent: dragging from a file selects the files it comes over.   *)
MouseMoveEvent(v, item) ==
    [v EXCEPT !.m_selectedFile = IF {item, v.m_mousePressItem} \subseteq TreeFiles
                                 THEN item ELSE @]

(* mouseReleaseEvent: a folder that was clicked is opened or closed.  The  *)
(* pressed item is not read before the next press sets it; it is cleared   *)
(* here so that states that differ only in it are one.                     *)
MouseReleaseEvent(v, item) ==
    [v EXCEPT !.held = FALSE, !.m_mousePressItem = NoItem,
              !.m_openFolders = IF item \in Folders /\ item = v.m_mousePressItem
                                THEN (@ \cup {item}) \ (@ \cap {item}) ELSE @]
=============================================================================
