---------------------------- MODULE IndexProject ----------------------------
(***************************************************************************)
(* One `ccb-clang-indexer --index-project [--incremental]` run             *)
(* (clang-indexer/main.cc, indexProject): the main thread schedules one    *)
(* task per compile command on Qt's thread pool, the pool's threads drive  *)
(* daemon processes that each write one idx file, and the main thread      *)
(* takes the results in source order, merges the archives' entries and     *)
(* writes the project's index.                                             *)
(*                                                                         *)
(* Abstracted: the text of requests (DaemonPool.cc writes a request and a  *)
(* daemon reads it in one step here), what a translation unit contains     *)
(* (an archive is a sequence of entry hashes) and what merging does to     *)
(* tables (a merged entry is its hash).                                    *)
(***************************************************************************)
EXTENDS DaemonPool, IndexArchive

CONSTANTS MainThread,   \* the thread that runs indexProject
          IdxPath,      \* IdxPath[s]: the idx file readSourcesJson chose for s
          TempPath,     \* TempPath[s]: the temporary file s would get
          MaxCrashes,   \* bound: daemons that die while they index
          Indexed       \* bound: the sources an earlier run may have left a file for

ASSUME ProjectAssumption ==
    /\ MainThread \in Thread
    /\ Writer = Daemon /\ NoWriter = NoDaemon
    /\ IdxPath \in [Source -> Path]
    /\ TempPath \in [Source -> Path]
    /\ \A r, s \in Source : TempPath[r] = TempPath[s] => r = s
    /\ \A r, s \in Source : IdxPath[r] # TempPath[s]
    /\ MaxCrashes \in Nat
    /\ Indexed \in SUBSET Source

VARIABLES incremental,  \* --incremental was given
          mainPc,       \* where indexProject is
          cur,          \* the source its loop is at
          toc,          \* hashes of the archive being merged
          entry,        \* next entry of that archive
          merged,       \* entry hashes merged so far, in order
          index,        \* the output file `index`
          task,         \* task[s]: state of the future of source s
          stage,        \* stage[t]: where thread t is in its task
          runs,         \* runs[t]: the source thread t works for, 0 if none
          proc,         \* proc[d]: what daemon process d is doing
          job,          \* job[d]: the source d was asked to index
          crashes       \* daemons that died so far

mainVars == <<mainPc, cur, toc, entry, merged, index>>
procVars == <<proc, job, crashes>>
vars == <<poolVars, file, incremental, mainVars, task, stage, runs, procVars>>

Worker == Thread \ {MainThread}

OutPath(s) == IF incremental THEN IdxPath[s] ELSE TempPath[s]

(* An idx file of an earlier run: absent, complete and up to date,         *)
(* complete for an older version of the inputs, or unfinished because that *)
(* run was interrupted.                                                    *)
LeftOver(s) ==
    {Missing} \cup
    {[st |-> st, of |-> s, fresh |-> fresh, by |-> NoWriter] :
        st \in {"complete", "zeroToc"}, fresh \in BOOLEAN} \cup
    {EmptyBy(NoWriter)}

Damaged(f) == f.st \in {"empty", "zeroToc", "garbage"}

Init ==
    /\ PoolInit
    /\ incremental \in BOOLEAN
    /\ \E left \in [Source -> UNION {LeftOver(s) : s \in Source}] :
          /\ \A s \in Source : left[s] \in LeftOver(s)
          /\ \A s \in Source \ Indexed : left[s] = Missing
          /\ \A r, s \in Source : IdxPath[r] = IdxPath[s] => left[r] = left[s]
          /\ ~incremental => \A s \in Source : left[s] = Missing
          /\ file = [p \in Path |->
                IF \E s \in Source : IdxPath[s] = p
                THEN left[CHOOSE s \in Source : IdxPath[s] = p]
                ELSE Missing]
    /\ mainPc = "schedule"
    /\ cur = 1
    /\ toc = <<>>
    /\ entry = 1
    /\ merged = <<>>
    /\ index = "old"
    /\ task = [s \in Source |-> "none"]
    /\ stage = [t \in Thread |-> "idle"]
    /\ runs = [t \in Thread |-> 0]
    /\ proc = [d \in Daemon |-> "idle"]
    /\ job = [d \in Daemon |-> 0]
    /\ crashes = 0

(* The process is still there: no assertion failed, no SIGPIPE arrived. *)
Alive == mainPc \notin {"aborted", "done"}

(* A failed assertion, or a write to the pipe of a dead process with       *)
(* SIGPIPE at its default action, ends the process with all its threads.   *)
Abort ==
    /\ mainPc' = "aborted"
    /\ UNCHANGED <<cur, toc, entry, merged, index>>
-----------------------------------------------------------------------------
(* The scheduling loop. *)

(* Mutant: the loop runs once too often.                                   *)
NextSource_over(after) ==
    IF cur <= NSource THEN cur' = cur + 1 /\ UNCHANGED mainPc
                      ELSE cur' = 1 /\ mainPc' = after

NextSource(after) ==
    IF cur < NSource THEN cur' = cur + 1 /\ UNCHANGED mainPc
                     ELSE cur' = 1 /\ mainPc' = after

(* canReuseExistingIndexFile opens an idx file that exists, whatever state *)
(* an earlier run left it in.                                              *)
ScheduleFails ==
    /\ mainPc = "schedule"
    /\ incremental
    /\ file[OutPath(cur)].st # "missing"
    /\ ~HasToc(OutPath(cur))
    /\ Abort
    /\ UNCHANGED <<poolVars, file, incremental, task, stage, runs, procVars>>

CanReuse(s) == incremental /\ HasToc(OutPath(s)) /\ file[OutPath(s)].fresh

(* QtConcurrent::run of identityString or of indexProjectFile. *)
Schedule ==
    /\ mainPc = "schedule"
    /\ incremental => file[OutPath(cur)].st = "missing" \/ HasToc(OutPath(cur))
    /\ task' = [task EXCEPT ![cur] = IF CanReuse(cur) THEN "reuse" ELSE "index"]
    /\ NextSource("collect")
    /\ UNCHANGED <<poolVars, file, incremental, toc, entry, merged, index,
                   stage, runs, procVars>>
-----------------------------------------------------------------------------
(* The tasks, on a thread of the pool.                                     *)

Queued(s) == task[s] \in {"reuse", "index"}

(* Qt's thread pool starts queued tasks first in, first out.               *)
Oldest(s) == Queued(s) /\ \A r \in Source : Queued(r) => s <= r

(* A thread starts the task of source s.  An index task without an idx     *)
(* path first creates its temporary file.                                  *)
Start(t, s) ==
    /\ stage[t] = "idle"
    /\ runs' = [runs EXCEPT ![t] = s]
    /\ task' = [task EXCEPT ![s] = "running"]
    /\ stage' = [stage EXCEPT ![t] =
                    IF task[s] = "reuse" THEN "return" ELSE "get"]
    /\ file' = IF task[s] = "index" /\ ~incremental
               THEN [file EXCEPT ![TempPath[s]] = EmptyBy(NoDaemon)]
               ELSE file
    /\ UNCHANGED <<poolVars, incremental, mainVars, procVars>>

StartTask(t) ==
    /\ Alive
    /\ t # MainThread
    /\ \E s \in Source : Oldest(s) /\ Start(t, s)

(* QFuture::result() may run a task that is still queued in the calling    *)
(* thread instead of waiting for it.                                       *)
StealTask ==
    /\ mainPc = "collect"
    /\ Queued(cur)
    /\ Start(MainThread, cur)

(* DaemonPool::get. *)
TaskGet(t) ==
    /\ Alive
    /\ stage[t] = "get"
    /\ GetLock(t) \/ GetBack(t) \/ GetPop(t) \/ GetNew(t)
    /\ UNCHANGED <<file, incremental, mainVars, task, stage, runs, procVars>>

(* Daemon::run writes the request: to a living daemon...                   *)
SendRequest(t) ==
    /\ Alive
    /\ stage[t] = "get" /\ at[t] = "using"
    /\ proc[held[t]] # "dead"
    /\ proc' = [proc EXCEPT ![held[t]] = "parsing"]
    /\ job' = [job EXCEPT ![held[t]] = runs[t]]
    /\ stage' = [stage EXCEPT ![t] = "await"]
    /\ UNCHANGED <<poolVars, file, incremental, mainVars, task, runs, crashes>>

(* ... or to one that died in an earlier request and was released.         *)
SendToDead(t) ==
    /\ Alive
    /\ stage[t] = "get" /\ at[t] = "using"
    /\ proc[held[t]] = "dead"
    /\ Abort
    /\ UNCHANGED <<poolVars, file, incremental, task, stage, runs, procVars>>

(* Mutant: Daemon::run does not wait for "DONE". *)
AwaitDone_early(t) ==
    /\ Alive
    /\ stage[t] = "await"
    /\ stage' = [stage EXCEPT ![t] = "release"]
    /\ UNCHANGED <<poolVars, file, incremental, mainVars, task, runs, procVars>>

(* Mutant: Daemon::run does not stop at end of file.                       *)
AwaitDone_noeof(t) ==
    /\ Alive
    /\ stage[t] = "await"
    /\ proc[held[t]] = "closed"
    /\ proc' = [proc EXCEPT ![held[t]] = "idle"]
    /\ job' = [job EXCEPT ![held[t]] = 0]
    /\ stage' = [stage EXCEPT ![t] = "release"]
    /\ UNCHANGED <<poolVars, file, incremental, mainVars, task, runs, crashes>>

(* Daemon::run reads "DONE", or end of file from a daemon that died; its   *)
(* caller ignores which.                                                   *)
AwaitDone(t) ==
    /\ Alive
    /\ stage[t] = "await"
    /\ proc[held[t]] \in {"closed", "dead"}
    /\ proc' = [proc EXCEPT ![held[t]] = IF @ = "closed" THEN "idle" ELSE @]
    /\ job' = [job EXCEPT ![held[t]] = 0]
    /\ stage' = [stage EXCEPT ![t] = "release"]
    /\ UNCHANGED <<poolVars, file, incremental, mainVars, task, runs, crashes>>

(* DaemonPool::release. *)
TaskRelease(t) ==
    /\ Alive
    /\ stage[t] = "release"
    /\ \/ ReleaseLock(t) /\ UNCHANGED stage
       \/ ReleasePush(t) /\ stage' = [stage EXCEPT ![t] = "return"]
    /\ UNCHANGED <<file, incremental, mainVars, task, runs, procVars>>

(* Mutant: the result is published before the daemon is released.          *)
FinishTask_early(t) ==
    /\ Alive
    /\ stage[t] \in {"release", "return"}
    /\ task' = [task EXCEPT ![runs[t]] = "done"]
    /\ IF stage[t] = "return"
       THEN /\ stage' = [stage EXCEPT ![t] = "idle"]
            /\ runs' = [runs EXCEPT ![t] = 0]
       ELSE UNCHANGED <<stage, runs>>
    /\ UNCHANGED <<poolVars, file, incremental, mainVars, procVars>>

(* The future's result becomes available. *)
FinishTask(t) ==
    /\ Alive
    /\ stage[t] = "return"
    /\ task' = [task EXCEPT ![runs[t]] = "done"]
    /\ stage' = [stage EXCEPT ![t] = "idle"]
    /\ runs' = [runs EXCEPT ![t] = 0]
    /\ UNCHANGED <<poolVars, file, incremental, mainVars, procVars>>
-----------------------------------------------------------------------------
(* A daemon process indexing job[d]: parse the translation unit, then      *)
(* write the archive, then print "DONE".                                   *)

DaemonStep(d, from, to) ==
    /\ Alive
    /\ proc[d] = from
    /\ proc' = [proc EXCEPT ![d] = to]
    /\ UNCHANGED <<poolVars, incremental, mainVars, task, stage, runs, job, crashes>>

DaemonOpen(d) ==
    /\ DaemonStep(d, "parsing", "open")
    /\ TruncateArchive(d, OutPath(job[d]))

DaemonWrite(d) ==
    /\ DaemonStep(d, "open", "body")
    /\ WriteEntries(d, OutPath(job[d]), job[d])

DaemonClose(d) ==
    /\ DaemonStep(d, "body", "closed")
    /\ RewriteToc(d, OutPath(job[d]))

(* The daemon crashes in the compiler front end or exits because chdir     *)
(* failed (from "parsing"), or dies while it writes.                       *)
DaemonDies(d) ==
    /\ Alive
    /\ proc[d] \in {"parsing", "open", "body"}
    /\ crashes < MaxCrashes
    /\ crashes' = crashes + 1
    /\ proc' = [proc EXCEPT ![d] = "dead"]
    /\ UNCHANGED <<poolVars, file, incremental, mainVars, task, stage, runs, job>>
-----------------------------------------------------------------------------
(* The merging loop: futures in source order.                              *)

MainStep == UNCHANGED <<poolVars, incremental, task, stage, runs, procVars>>

(* result() returned; IndexArchiveReader reads the table of contents, or   *)
(* fails an assertion.                                                     *)
OpenResult ==
    /\ mainPc = "collect"
    /\ task[cur] = "done"
    /\ IF HasToc(OutPath(cur))
       THEN /\ mainPc' = "merge"
            /\ toc' = TocOf(file[OutPath(cur)])
            /\ entry' = 1
            /\ UNCHANGED <<cur, merged, index>>
       ELSE Abort
    /\ UNCHANGED file
    /\ MainStep

(* mergedEntrySet holds the hashes merged so far.                          *)
AlreadyMerged(h) == \E i \in 1..Len(merged) : merged[i] = h

(* Mutant: mergedEntrySet is not consulted.                                *)
MergeEntry_nodedup ==
    /\ mainPc = "merge"
    /\ entry <= Len(toc)
    /\ merged' = Append(merged, toc[entry])
    /\ entry' = entry + 1
    /\ UNCHANGED <<mainPc, cur, toc, index, file>>
    /\ MainStep

MergeEntry ==
    /\ mainPc = "merge"
    /\ entry <= Len(toc)
    /\ LET h == toc[entry] IN
       IF AlreadyMerged(h)
       THEN entry' = entry + 1 /\ UNCHANGED <<mainPc, cur, toc, merged, index>>
       ELSE IF CanOpenEntry(OutPath(cur), toc)
       THEN /\ merged' = Append(merged, h)
            /\ entry' = entry + 1
            /\ UNCHANGED <<mainPc, cur, toc, index>>
       ELSE Abort
    /\ UNCHANGED file
    /\ MainStep

(* Mutant: the temporary file is left behind. *)
CloseResult_keep ==
    /\ mainPc = "merge"
    /\ entry > Len(toc)
    /\ IF cur < NSource THEN cur' = cur + 1 /\ mainPc' = "collect"
                        ELSE cur' = 1 /\ mainPc' = "finalize"
    /\ UNCHANGED <<toc, entry, merged, index, file>>
    /\ MainStep

(* The archive is merged; a temporary one is removed.                      *)
CloseResult ==
    /\ mainPc = "merge"
    /\ entry > Len(toc)
    /\ IF incremental THEN UNCHANGED file ELSE RemoveArchive(OutPath(cur))
    /\ IF cur < NSource THEN cur' = cur + 1 /\ mainPc' = "collect"
                        ELSE cur' = 1 /\ mainPc' = "finalize"
    /\ UNCHANGED <<toc, entry, merged, index>>
    /\ MainStep

(* Mutant: `index` is opened for writing before the archives are merged.   *)
TruncateIndex_early ==
    /\ mainPc \in {"schedule", "finalize"}
    /\ mainPc = "schedule" => index = "old"
    /\ mainPc' = IF mainPc = "finalize" THEN "write" ELSE mainPc
    /\ index' = "partial"
    /\ UNCHANGED <<cur, toc, entry, merged, file>>
    /\ MainStep

(* finalizeTables, populateIndexTables, finalizeTables, then Index::write  *)
(* truncates the previous `index`...                                       *)
TruncateIndex ==
    /\ mainPc = "finalize"
    /\ mainPc' = "write"
    /\ index' = "partial"
    /\ UNCHANGED <<cur, toc, entry, merged, file>>
    /\ MainStep

(* ... and fills it.                                                       *)
WriteIndex ==
    /\ mainPc = "write"
    /\ mainPc' = "leave"
    /\ index' = "complete"
    /\ UNCHANGED <<cur, toc, entry, merged, file>>
    /\ MainStep

(* indexProject returns: ~DaemonPool.  The pool's own guard, that no       *)
(* thread is in its code, is not one of the program's: whether it holds    *)
(* here is for PoolSpec to say.                                            *)
BeginDestroy ==
    /\ mainPc = "leave"
    /\ ~closing
    /\ closing' = TRUE
    /\ UNCHANGED <<mutex, m_daemons, made, at, held, file, incremental,
                   mainVars, task, stage, runs, procVars>>

(* ~Daemon closes the daemon's pipes; it reads end of file and exits, and  *)
(* Process::wait reaps it.                                                 *)
DeleteDaemon ==
    /\ mainPc = "leave"
    /\ PoolDelete
    /\ proc[Head(m_daemons)] \in {"idle", "dead"}
    /\ proc' = [proc EXCEPT ![Head(m_daemons)] = "reaped"]
    /\ UNCHANGED <<file, incremental, mainVars, task, stage, runs, job, crashes>>

Return ==
    /\ mainPc = "leave"
    /\ closing
    /\ m_daemons = <<>>
    /\ mainPc' = "done"
    /\ UNCHANGED <<cur, toc, entry, merged, index, file, poolVars>>
    /\ UNCHANGED <<incremental, task, stage, runs, procVars>>

(* The process has ended.                                                  *)
Ended == ~Alive /\ UNCHANGED vars

MainNext ==
    \/ ScheduleFails \/ Schedule
    \/ StealTask \/ OpenResult \/ MergeEntry \/ CloseResult
    \/ TruncateIndex \/ WriteIndex
    \/ BeginDestroy \/ DeleteDaemon \/ Return

ThreadNext(t) ==
    \/ StartTask(t) \/ TaskGet(t) \/ SendRequest(t) \/ SendToDead(t)
    \/ AwaitDone(t) \/ TaskRelease(t) \/ FinishTask(t)

DaemonNext(d) == DaemonOpen(d) \/ DaemonWrite(d) \/ DaemonClose(d)

Next ==
    \/ MainNext
    \/ \E t \in Thread : ThreadNext(t)
    \/ \E d \in Daemon : DaemonNext(d) \/ DaemonDies(d)
    \/ Ended

Spec == Init /\ [][Next]_vars

(* Every thread and every daemon process is scheduled by the operating     *)
(* system; nothing obliges a daemon to die.                                *)
Fairness ==
    /\ WF_vars(MainNext)
    /\ \A t \in Thread : WF_vars(ThreadNext(t))
    /\ \A d \in Daemon : WF_vars(DaemonNext(d))

FairSpec == Spec /\ Fairness
-----------------------------------------------------------------------------
(* The type invariant of the pipeline. *)
TypeOK ==
    /\ PoolTypeOK
    /\ file \in [Path -> FileRecord]
    /\ incremental \in BOOLEAN
    /\ mainPc \in {"schedule", "collect", "merge", "finalize", "write",
                   "leave", "done", "aborted"}
    /\ cur \in Source
    /\ toc \in Seq(Hash \cup {ZeroHash})
    /\ entry \in Nat \ {0}
    /\ merged \in Seq(Hash)
    /\ index \in {"old", "partial", "complete"}
    /\ task \in [Source -> {"none", "reuse", "index", "running", "done"}]
    /\ stage \in [Thread -> {"idle", "get", "await", "release", "return"}]
    /\ runs \in [Thread -> Source \cup {0}]
    /\ proc \in [Daemon -> {"idle", "parsing", "open", "body", "closed",
                            "dead", "reaped"}]
    /\ job \in [Daemon -> Source \cup {0}]
    /\ crashes \in 0..MaxCrashes

Working == {"parsing", "open", "body", "closed"}

(* A daemon works only for the thread that owns it, on the source that     *)
(* thread is waiting for: a "DONE" line never answers another request      *)
(* (Daemon::run, DaemonPool.cc:32-58).                                     *)
RequestsMatch ==
    \A d \in Daemon : proc[d] \in Working =>
        \E t \in Thread : /\ Owns(t, d)
                          /\ stage[t] = "await"
                          /\ runs[t] = job[d]

(* While an archive is merged nobody writes it, and its table of contents  *)
(* is still what was read: a future is done only after its daemon closed   *)
(* the file (indexFile returns before "DONE" is printed, main.cc:355-457). *)
NoTornRead ==
    mainPc = "merge" =>
        /\ TocOf(file[OutPath(cur)]) = toc
        /\ \A d \in Daemon :
              proc[d] \in {"parsing", "open", "body"} =>
                  OutPath(job[d]) # OutPath(cur)

(* The hashes that one pass over the sources' current contents meets       *)
(* before entry k of source s.                                             *)
MetBefore(s, k) ==
    {h \in Hash : \E r \in Source : \E j \in 1..Len(NewEntry[r]) :
                     (r < s \/ (r = s /\ j < k)) /\ NewEntry[r][j] = h}

MergedFirst(n) == {merged[i] : i \in 1..n}

(* "the merging happens in a deterministic order" (main.cc:185): whatever  *)
(* order the threads finish in, each entry is merged where one sequential  *)
(* pass over the sources' current contents first meets it, when all that   *)
(* it met before have been merged, once, and nothing else; and the index   *)
(* that is written has every entry.  The exception is an incremental run   *)
(* that lost a daemon, see OnlyCurrentMerged.                              *)
DeterministicMerge ==
    (incremental => crashes = 0)
    =>  /\ \A n \in 1..Len(merged) : \E s \in Source : \E k \in 1..Len(NewEntry[s]) :
              /\ merged[n] = NewEntry[s][k]
              /\ merged[n] \notin MetBefore(s, k)
              /\ MergedFirst(n - 1) = MetBefore(s, k)
        /\ index = "complete" => MergedFirst(Len(merged)) = MetBefore(NSource + 1, 1)

(* A run that gets to its end leaves no daemon process and no temporary    *)
(* idx file.                                                               *)
NothingLeftBehind ==
    mainPc = "done" =>
        /\ made = {}
        /\ \A s \in Source : file[TempPath[s]] = Missing

(* The run fails only for a reason outside it: a daemon died, or an        *)
(* interrupted earlier run left an unfinished idx file.                    *)
AbortHasCause ==
    mainPc = "aborted" =>
        \/ \E d \in Daemon : proc[d] = "dead"
        \/ \E s \in Source : /\ incremental
                             /\ Damaged(file[IdxPath[s]])
                             /\ file[IdxPath[s]].by = NoDaemon

(* A run whose tasks fail leaves the previous `index` as it was: the       *)
(* output file is truncated only when every task is done.  That the write  *)
(* of it fails is not modelled.                                            *)
OldIndexKept ==
    /\ mainPc = "aborted" => index = "old"
    /\ index # "old" => \A s \in Source : task[s] = "done"

(* No future is waited for in vain: every run ends, whichever threads and  *)
(* daemons are slow and whichever daemons die.                             *)
Termination == <>(~Alive)

(* "each translation unit's index is saved to a separate idx file, which   *)
(* is reused by later --index-project invocations if none of its           *)
(* referenced files have changed" (main.cc:377-379): entries of an older   *)
(* version are never merged.                                               *)
OnlyCurrentMerged ==
    \A i \in 1..Len(merged) :
        \E s \in Source : \E j \in 1..Len(NewEntry[s]) : merged[i] = NewEntry[s][j]

(* The assertions of FileIo.cc (384, 418) and of MappedReader hold.        *)
AssertionsHold == mainPc # "aborted"
=============================================================================
