---------------------------- MODULE IndexArchive ----------------------------
(***************************************************************************)
(* The idx files of clang-indexer: how IndexArchiveBuilder::write produces *)
(* one (libindexdb/IndexArchiveBuilder.cc over FileIo's Writer), what an   *)
(* unfinished or doubly written one looks like, and what                   *)
(* IndexArchiveReader makes of it.                                         *)
(*                                                                         *)
(* A file is a record: `st` says how far its writing got, `of` whose       *)
(* translation unit it holds, `fresh` whether its modification time is at  *)
(* least that of every input it lists, `by` which writer truncated it last *)
(* (NoWriter for a file that predates this run).                           *)
(*   "missing"   no such file                                              *)
(*   "empty"     created or truncated; no signature yet                    *)
(*   "zeroToc"   signature, and a table of contents whose hashes, offsets  *)
(*               and lengths are still zero                                *)
(*   "complete"  the table of contents has been rewritten, file closed     *)
(*   "garbage"   two writers' output mixed                                 *)
(* The content of a complete file is its sequence of entry hashes; SHA-256 *)
(* is taken to be collision free, so a hash stands for the entry itself.   *)
(***************************************************************************)
EXTENDS Naturals, Sequences

CONSTANTS NSource,   \* number of compile commands
          Path,      \* file names
          Writer,    \* processes that write idx files
          NoWriter,  \* the writer of a file left by an earlier run
          Hash,      \* entry hashes
          ZeroHash,  \* the 32 zero bytes of an unfinished table of contents
          NewEntry,  \* NewEntry[s]: entry hashes of source s as it is now
          OldEntry   \* OldEntry[s]: those of the version an old idx file holds

Source == 1..NSource

ASSUME ArchiveAssumption ==
    /\ NSource \in Nat \ {0}
    /\ NoWriter \notin Writer
    /\ ZeroHash \notin Hash
    /\ NewEntry \in [Source -> Seq(Hash)]
    /\ OldEntry \in [Source -> Seq(Hash)]

VARIABLE file        \* file[p]: what the file system holds at p

FileState == {"missing", "empty", "zeroToc", "complete", "garbage"}

FileRecord == [st : FileState, of : Source \cup {0}, fresh : BOOLEAN,
               by : Writer \cup {NoWriter}]

Missing == [st |-> "missing", of |-> 0, fresh |-> FALSE, by |-> NoWriter]

(* A file made by QTemporaryFile::open, or just truncated by `w`. *)
EmptyBy(w) == [st |-> "empty", of |-> 0, fresh |-> TRUE, by |-> w]

(* What a writer finds when another one truncated the file under it. *)
Mixed(f) == [f EXCEPT !.st = "garbage"]
-----------------------------------------------------------------------------
(* Mutant: a writer that leaves the previous file in place. *)
TruncateArchive_keep(w, p) == UNCHANGED file

(* Writer::Writer: open(path, O_WRONLY | O_CREAT | O_TRUNC), in place. *)
TruncateArchive(w, p) == file' = [file EXCEPT ![p] = EmptyBy(w)]

(* The signature, the count and the zeroed table of contents, then the     *)
(* entries behind it.                                                      *)
WriteEntries(w, p, s) ==
    file' = [file EXCEPT ![p] =
        IF @.by = w /\ @.st = "empty"
        THEN [@ EXCEPT !.st = "zeroToc", !.of = s]
        ELSE Mixed(@)]

(* seek(tocOffset), rewrite the table of contents, ~Writer closes. *)
RewriteToc(w, p) ==
    file' = [file EXCEPT ![p] =
        IF @.by = w /\ @.st = "zeroToc"
        THEN [@ EXCEPT !.st = "complete"]
        ELSE Mixed(@)]

RemoveArchive(p) == file' = [file EXCEPT ![p] = Missing]
-----------------------------------------------------------------------------
(* IndexArchiveReader's constructor asserts that it can open the file, that *)
(* the signature is there and that every read is satisfied.                 *)
HasToc(p) == file[p].st \in {"zeroToc", "complete"}

Entries(f) == IF f.fresh THEN NewEntry[f.of] ELSE OldEntry[f.of]

(* The hashes the reader finds in the table of contents. *)
TocOf(f) == IF f.st = "complete"
            THEN Entries(f)
            ELSE [i \in 1..Len(Entries(f)) |-> ZeroHash]

(* openEntry(i): MappedReader asserts that the entry can be mapped; a zero *)
(* length, or an offset in a file that has changed since, cannot.          *)
CanOpenEntry(p, toc) == file[p].st = "complete" /\ Entries(file[p]) = toc
=============================================================================
