---------------------------- MODULE FileManager -----------------------------
(***************************************************************************)
(* navigator/FileManager.cc, Folder.cc and File.cc: the tree of folders    *)
(* and files made of the paths in the index.                               *)
(*                                                                         *)
(* A path is split at its separators: "/a/f" is <<"", "a", "f">>, and "/"  *)
(* is <<"", "">>.  A folder or a file is known by its parents' titles and  *)
(* its own, which starts with the category.                                *)
(***************************************************************************)
EXTENDS Naturals, Sequences, FiniteSets

LOCAL INSTANCE SequencesExt

CONSTANTS ProjectRoot,  \* the path of the project's directory
          IndexPaths,   \* the paths in the index, in order
          TitleOrder    \* every title, as operator< of QString orders them

CategoryProject == <<"Project">>
CategoryOutside == <<"External">>
CategorySpecial == <<"Special">>
DirProject == <<"Project", Last(ProjectRoot)>>
DirFilesystem == <<"External", "/">>

Rank(title) == CHOOSE i \in DOMAIN TitleOrder : TitleOrder[i] = title
TitleBefore(x, y) == Rank(Last(x)) < Rank(Last(y))

IsRootFolder(folder) == Len(folder) = 1
Parent(item) == Front(item)

(* folders, files: item -> its path()                                      *)
NewTree ==
    [folders |-> [f \in {CategoryProject, CategoryOutside, CategorySpecial} |-> <<>>]
                 @@ (DirProject :> ProjectRoot @@ DirFilesystem :> <<"", "">>),
     files |-> <<>>]

(* No separator is added after "/" ...                                     *)
FolderPath(path, part) == IF Last(path) = "" THEN Front(path) \o <<part>> ELSE path \o <<part>>
(* ... except in front of a file's name.                                   *)
FilePath(path, part) == path \o <<part>>

(* FileManager::file(folder, relativePath): folders are made on the way.   *)
RECURSIVE FileIn(_, _, _)
FileIn(tree, folder, relativePath) ==
    LET item == folder \o <<Head(relativePath)>>
        path == tree.folders[folder]
        deeper == [tree EXCEPT !.folders = (item :> FolderPath(path, Head(relativePath))) @@ @]
    IN  CASE Len(relativePath) = 1 /\ item \in DOMAIN tree.files -> tree
          [] Len(relativePath) = 1 /\ item \notin DOMAIN tree.files ->
                [tree EXCEPT !.files = (item :> FilePath(path, Head(relativePath))) @@ @]
          [] Len(relativePath) > 1 /\ item \in DOMAIN tree.folders ->
                FileIn(tree, item, Tail(relativePath))
          [] OTHER -> FileIn(deeper, item, Tail(relativePath))

(* FileManager::file(path): where a path belongs.                          *)
Place(path) ==
    IF path[1] # "" THEN CategorySpecial
    ELSE IF IsStrictPrefix(ProjectRoot, path) THEN DirProject
    ELSE DirFilesystem

ItemOf(path) ==
    LET skipped == [p \in {DirProject, DirFilesystem} |->
                       IF p = DirProject THEN Len(ProjectRoot) ELSE 1]
    IN IF Place(path) = CategorySpecial THEN CategorySpecial \o path
       ELSE Place(path) \o SubSeq(path, skipped[Place(path)] + 1, Len(path))

AddPath(tree, path) ==
    IF Place(path) = CategorySpecial
    THEN [tree EXCEPT !.files = (ItemOf(path) :> path) @@ @]
    ELSE FileIn(tree, Place(path), SubSeq(ItemOf(path), 3, Len(ItemOf(path))))

(* FileManager::FileManager                                                *)
Tree == FoldLeft(AddPath, NewTree, IndexPaths)

Folders == DOMAIN Tree.folders
TreeFiles == DOMAIN Tree.files

(* Folder::sort *)
Sorted(items) == SortSeq(SetToSeq(items), TitleBefore)

(* folders(), files() *)
SubFolders == [folder \in Folders |-> Sorted({f \in Folders : Len(f) > 1 /\ Parent(f) = folder})]
FilesOf == [folder \in Folders |-> Sorted({f \in TreeFiles : Parent(f) = folder})]

(* roots: the categories shown, the last two only when they have an item.  *)
Roots ==
    <<CategoryProject>> \o
    SelectSeq(<<CategoryOutside, CategorySpecial>>,
              LAMBDA c : SubFolders[c] \o FilesOf[c] # <<>>)

(* No name in the index is both a file and a folder, as FileManager::file  *)
(* asserts.  No file of the index is directly in "/": FilePath names it    *)
(* "//f", and nothing in the index is found under that name.               *)
ASSUME TreeAssumption == Folders \cap TreeFiles = {}

(* Every path of the index is the path() of its file.                      *)
ASSUME PathsKept ==
    \A i \in DOMAIN IndexPaths : Tree.files[ItemOf(IndexPaths[i])] = IndexPaths[i]
=============================================================================
