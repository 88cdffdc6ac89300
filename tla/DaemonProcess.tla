--------------------------- MODULE DaemonProcess ----------------------------
(***************************************************************************)
(* clang-indexer/Process.cc on Unix: how the master starts a daemon, talks *)
(* to it over two pipes and reaps it, at the level of file descriptors.    *)
(* Several threads create processes; fork() copies every descriptor of the *)
(* master, and exec closes those that are close-on-exec by then.           *)
(*                                                                         *)
(* The callers are those of DaemonPool: each thread constructs a Process,  *)
(* uses it and leaves it in the pool, and at the end the main thread       *)
(* deletes them one after the other.  One pool would construct them under  *)
(* its own lock too; here only Process's m_creationMutex orders them,      *)
(* which is what it promises to callers that have nothing else in common.  *)
(*                                                                         *)
(* Pipes, fork, exec, end of file and SIGPIPE are those of POSIX.          *)
(* Abstracted: what is sent (a request is one message, and there is one to *)
(* each process), and the exit status.                                     *)
(***************************************************************************)
EXTENDS Naturals, Sequences, FiniteSets, Functions, FiniteSetsExt

CONSTANTS Thread,    \* threads of the master that construct Processes
          NoThread,  \* m_creationMutex is free
          Proc,      \* Process objects, and the child process of each
          NoProc,
          Master,    \* the process the threads run in
          MaxDeaths  \* bound: children that die of themselves

ASSUME ProcessAssumption ==
    /\ NoThread \notin Thread
    /\ NoProc \notin Proc
    /\ Master \notin Proc
    /\ MaxDeaths \in Nat

VARIABLES m_creationMutex,  \* its owner
          pc,               \* where a thread is
          mine,             \* the Process a thread constructs and uses
          pool,             \* those that wait to be deleted
          mainPc,           \* the main thread: in ~DaemonPool or before it
          pipes,            \* pipes[p]: the array of the constructor
          fds,              \* fds[p]: the descriptors of Master or a child
          child,            \* child[p]: the life of the child process of p
          mail,             \* mail[p]: the request and its answer
          deaths,           \* children that died of themselves
          killed            \* SIGPIPE has ended the master

poolVars == <<pool, mainPc>>
threadVars == <<m_creationMutex, pc, mine, pipes>>
vars == <<threadVars, poolVars, fds, child, mail, deaths, killed>>

Process == Proc \cup {Master}

(* The ends of the two pipes of a process; a terminal is anything else.    *)
InRead(p)   == <<p, "in", "read">>
InWrite(p)  == <<p, "in", "write">>
OutRead(p)  == <<p, "out", "read">>
OutWrite(p) == <<p, "out", "write">>
Terminal    == <<"terminal">>
End == {Terminal} \cup UNION {{InRead(p), InWrite(p), OutRead(p), OutWrite(p)} : p \in Proc}

STDIN == 0
STDOUT == 1
Opened(end) == [end |-> end, cloexec |-> FALSE]
Standard == [fd \in 0..2 |-> Opened(Terminal)]
Nothing == <<>>

(* Somebody, in any process, has this end of a pipe open.                  *)
Held(end) == \E q \in Process : \E fd \in DOMAIN fds[q] : fds[q][fd].end = end

Close(table, closed) == Restrict(table, DOMAIN table \ closed)

(* The descriptor names this end now, and is inheritable. *)
Enter(table, fd, end) ==
    [f \in DOMAIN table \cup {fd} |-> IF f = fd THEN Opened(end) ELSE table[f]]

Mark(table, marked) ==
    [fd \in DOMAIN table |-> [table[fd] EXCEPT !.cloexec = @ \/ fd \in marked]]

(* pipe(): the two lowest descriptors that are free. *)
Lowest(table) == Min({fd \in 0..Cardinality(DOMAIN table) : fd \notin DOMAIN table})
Open(table, end) == Enter(table, Lowest(table), end)

Alive == ~killed

(* Objects not constructed yet; which of them is next makes no difference. *)
Unused == {p \in Proc \ Range(mine) : child[p] = "none"}

Goto(t, here, there) ==
    /\ Alive /\ mainPc = "out"
    /\ pc[t] = here
    /\ pc' = [pc EXCEPT ![t] = there]
    /\ UNCHANGED mainPc
-----------------------------------------------------------------------------
Init ==
    /\ m_creationMutex = NoThread
    /\ pc = [t \in Thread |-> "idle"]
    /\ mine = [t \in Thread |-> NoProc]
    /\ pool = <<>>
    /\ mainPc = "out"
    /\ pipes = [p \in Proc |-> <<>>]
    /\ fds = [q \in Process |-> IF q = Master THEN Standard ELSE Nothing]
    /\ child = [p \in Proc |-> "none"]
    /\ mail = [p \in Proc |-> "none"]
    /\ deaths = 0
    /\ killed = FALSE

(* Mutant: m_creationMutex is not taken. *)
Lock_none(t) ==
    /\ Goto(t, "idle", "pipe")
    /\ m_creationMutex' = t
    /\ Unused # {}
    /\ mine' = [mine EXCEPT ![t] = CHOOSE p \in Unused : TRUE]
    /\ UNCHANGED <<pool, pipes, fds, child, mail, deaths, killed>>

(* The constructor is entered: m_creationMutex.lock(). *)
Lock(t) ==
    /\ Goto(t, "idle", "pipe")
    /\ m_creationMutex = NoThread
    /\ m_creationMutex' = t
    /\ Unused # {}
    /\ mine' = [mine EXCEPT ![t] = CHOOSE p \in Unused : TRUE]
    /\ UNCHANGED <<pool, pipes, fds, child, mail, deaths, killed>>

(* pipe(pipes), then pipe(pipes + 2): both ends are inheritable.           *)
Pipe(t, here, there, read, write) ==
    /\ Goto(t, here, there)
    /\ LET half == Open(fds[Master], read) IN
       /\ fds' = [fds EXCEPT ![Master] = Open(half, write)]
       /\ pipes' = [pipes EXCEPT ![mine[t]] = @ \o <<Lowest(fds[Master]), Lowest(half)>>]
    /\ UNCHANGED <<pool, m_creationMutex, mine, child, mail, deaths, killed>>

PipeIn(t) == Pipe(t, "pipe", "pipe2", InRead(mine[t]), InWrite(mine[t]))
PipeOut(t) == Pipe(t, "pipe2", "cloexec", OutRead(mine[t]), OutWrite(mine[t]))

(* fcntl(fd, F_SETFD, ... | FD_CLOEXEC) for the four descriptors. *)
SetCloexec(t) ==
    /\ Goto(t, "cloexec", "fork")
    /\ fds' = [fds EXCEPT ![Master] = Mark(@, Range(pipes[mine[t]]))]
    /\ UNCHANGED <<pool, m_creationMutex, mine, pipes, child, mail, deaths, killed>>

(* fork(): the child has a copy of every descriptor of the master. *)
Fork(t) ==
    /\ Goto(t, "fork", "unlock")
    /\ fds' = [fds EXCEPT ![mine[t]] = fds[Master]]
    /\ child' = [child EXCEPT ![mine[t]] = "forked"]
    /\ UNCHANGED <<pool, m_creationMutex, mine, pipes, mail, deaths, killed>>

(* Mutant: the mutex is not released. *)
Unlock_none(t) ==
    /\ Goto(t, "unlock", "parent")
    /\ UNCHANGED <<pool, m_creationMutex, mine, pipes, fds, child, mail, deaths, killed>>

Unlock(t) ==
    /\ Goto(t, "unlock", "parent")
    /\ m_creationMutex' = NoThread
    /\ UNCHANGED <<pool, mine, pipes, fds, child, mail, deaths, killed>>

(* Mutant: the child's end of the second pipe is left open.                *)
CloseInParent_keep(t) ==
    /\ Goto(t, "parent", "ready")
    /\ fds' = [fds EXCEPT ![Master] = Close(@, {pipes[mine[t]][1]})]
    /\ UNCHANGED <<pool, m_creationMutex, mine, pipes, child, mail, deaths, killed>>

(* The rest of the parent's branch: fdopen takes over pipes[1] and         *)
(* pipes[2], and close(pipes[0]), close(pipes[3]).                         *)
CloseInParent(t) ==
    /\ Goto(t, "parent", "ready")
    /\ fds' = [fds EXCEPT ![Master] = Close(@, {pipes[mine[t]][1], pipes[mine[t]][4]})]
    /\ UNCHANGED <<pool, m_creationMutex, mine, pipes, child, mail, deaths, killed>>
-----------------------------------------------------------------------------
(* Daemon::run: the request is written and flushed. Without a reader that  *)
(* is SIGPIPE, which nothing in the program handles.                       *)
SendRequest(t) ==
    /\ Goto(t, "ready", "await")
    /\ mail[mine[t]] = "none"
    /\ IF Held(InRead(mine[t]))
       THEN mail' = [mail EXCEPT ![mine[t]] = "request"] /\ UNCHANGED <<pool, fds, killed>>
       ELSE /\ killed' = TRUE
            /\ fds' = [fds EXCEPT ![Master] = Nothing]
            /\ UNCHANGED mail
    /\ UNCHANGED <<pool, m_creationMutex, mine, pipes, child, deaths>>

(* Daemon::run returns: on "DONE", or on the end of file of the pipe.      *)
ReadAnswer(t) ==
    /\ Goto(t, "await", "ready")
    /\ mail[mine[t]] = "answer" \/ ~Held(OutWrite(mine[t]))
    /\ mail' = [mail EXCEPT ![mine[t]] = "read"]
    /\ UNCHANGED <<pool, m_creationMutex, mine, pipes, fds, child, deaths, killed>>

(* The thread leaves the process to the pool. *)
Release(t) ==
    /\ Goto(t, "ready", "idle")
    /\ pool' = Append(pool, mine[t])
    /\ mine' = [mine EXCEPT ![t] = NoProc]
    /\ UNCHANGED <<m_creationMutex, pipes, fds, child, mail, deaths, killed>>

MainGoto(here, there) ==
    /\ Alive
    /\ mainPc = here
    /\ mainPc' = there
    /\ UNCHANGED <<m_creationMutex, pc, pipes, mine, mail, deaths, killed>>

(* No thread will use the pool any more: ~DaemonPool. *)
Destroy ==
    /\ \A t \in Thread : pc[t] = "idle"
    /\ MainGoto("out", "delete")
    /\ UNCHANGED <<pool, fds, child>>

(* ~Process of the next one, wait(): closeStdin(), closeStdout()...        *)
ClosePipes ==
    /\ pool # <<>>
    /\ MainGoto("delete", "wait")
    /\ fds' = [fds EXCEPT ![Master] =
          Close(@, {pipes[Head(pool)][2], pipes[Head(pool)][3]})]
    /\ UNCHANGED <<pool, child>>

(* ... and waitpid(), which returns when the child has exited.             *)
Reap ==
    /\ MainGoto("wait", "delete")
    /\ child[Head(pool)] = "exited"
    /\ child' = [child EXCEPT ![Head(pool)] = "reaped"]
    /\ pool' = Tail(pool)
    /\ UNCHANGED fds

Destroyed ==
    /\ pool = <<>>
    /\ MainGoto("delete", "done")
    /\ UNCHANGED <<pool, fds, child>>
-----------------------------------------------------------------------------
ChildStep(p, from, to) ==
    /\ child[p] = from
    /\ child' = [child EXCEPT ![p] = to]
    /\ UNCHANGED <<threadVars, poolVars, killed>>

(* The child's branch: dup2 of pipes[0] and pipes[3], which are inheritable*)
(* then, close(pipes[1]), close(pipes[2]), and execv.                      *)
Exec(p) ==
    /\ ChildStep(p, "forked", "running")
    /\ LET std == Enter(Enter(fds[p], STDIN, fds[p][pipes[p][1]].end),
                        STDOUT, fds[p][pipes[p][4]].end)
           open == Close(std, {pipes[p][2], pipes[p][3]})
       IN fds' = [fds EXCEPT ![p] = RestrictDomain(open, LAMBDA fd : ~open[fd].cloexec)]
    /\ UNCHANGED <<mail, deaths>>

Exits(p, from) ==
    /\ ChildStep(p, from, "exited")
    /\ fds' = [fds EXCEPT ![p] = Nothing]
    /\ UNCHANGED mail

(* execv fails, or the daemon crashes, or it gives up (chdir).             *)
Dies(p) ==
    /\ deaths < MaxDeaths
    /\ deaths' = deaths + 1
    /\ Exits(p, "forked") \/ Exits(p, "running")

(* runDaemon indexes and prints "DONE"; with nobody to read it, that is    *)
(* its SIGPIPE.                                                            *)
Serve(p) ==
    /\ mail[p] = "request"
    /\ IF Held(OutRead(p))
       THEN /\ ChildStep(p, "running", "running")
            /\ mail' = [mail EXCEPT ![p] = "answer"]
            /\ UNCHANGED <<fds, deaths>>
       ELSE Exits(p, "running") /\ UNCHANGED deaths

(* Mutant: the end of file is not told from an empty line. *)
ReadEof_spin(p) ==
    /\ mail[p] # "request"
    /\ ~Held(InWrite(p))
    /\ ChildStep(p, "running", "running")
    /\ UNCHANGED <<fds, mail, deaths>>

(* runDaemon reads the end of file of its standard input and returns.      *)
ReadEof(p) ==
    /\ mail[p] # "request"
    /\ ~Held(InWrite(p))
    /\ Exits(p, "running")
    /\ UNCHANGED deaths

ThreadNext(t) ==
    \/ Lock(t) \/ PipeIn(t) \/ PipeOut(t) \/ SetCloexec(t) \/ Fork(t) \/ Unlock(t)
    \/ CloseInParent(t) \/ SendRequest(t) \/ ReadAnswer(t) \/ Release(t)

MainNext == Destroy \/ ClosePipes \/ Reap \/ Destroyed

ChildNext(p) == Exec(p) \/ Serve(p) \/ ReadEof(p)

Next ==
    \/ \E t \in Thread : ThreadNext(t)
    \/ MainNext
    \/ \E p \in Proc : ChildNext(p) \/ Dies(p)

(* The system schedules every thread and every child; nothing obliges a    *)
(* child to die.                                                           *)
Spec ==
    /\ Init /\ [][Next]_vars
    /\ \A t \in Thread : WF_vars(ThreadNext(t))
    /\ WF_vars(MainNext)
    /\ \A p \in Proc : WF_vars(ChildNext(p))
-----------------------------------------------------------------------------
Descriptor == [end : End, cloexec : BOOLEAN]

(* The types of the tables; the constructor holds m_creationMutex up to   *)
(* the fork.                                                               *)
TypeOK ==
    /\ m_creationMutex \in Thread \cup {NoThread}
    /\ pc \in [Thread -> {"idle", "pipe", "pipe2", "cloexec", "fork", "unlock",
                          "parent", "ready", "await"}]
    /\ \A t \in Thread : m_creationMutex = t <=>
          pc[t] \in {"pipe", "pipe2", "cloexec", "fork", "unlock"}
    /\ pool \in Seq(Proc)
    /\ mainPc \in {"out", "delete", "wait", "done"}
    /\ mine \in [Thread -> Proc \cup {NoProc}]
    /\ \A p \in Proc : pipes[p] \in Seq(Nat)
    /\ \A q \in Process : \A fd \in DOMAIN fds[q] : fd \in Nat /\ fds[q][fd] \in Descriptor
    /\ child \in [Proc -> {"none", "forked", "running", "exited", "reaped"}]
    /\ mail \in [Proc -> {"none", "request", "answer", "read"}]
    /\ deaths \in 0..MaxDeaths
    /\ killed \in BOOLEAN

(* "To avoid leaking open files to subprocesses, grab this mutex before    *)
(* creating inheritable files" (Process.cc:44-46): once a child runs the   *)
(* daemon's program it has its own ends of its own two pipes, as standard  *)
(* input and output, and no other's.                                       *)
NoLeak ==
    /\ TypeOK
    /\ \A p \in Proc : child[p] = "running" =>
          fds[p] = [fd \in 0..2 |-> Opened(IF fd = STDIN THEN InRead(p)
                                           ELSE IF fd = STDOUT THEN OutWrite(p) ELSE Terminal)]

(* Once constructed, a Process leaves its own two ends to the master,      *)
(* under descriptors that no other Process uses, and none of the child's;  *)
(* once deleted it leaves nothing: the master does not run out of          *)
(* descriptors, and closes none that has been reused.                      *)
MasterHoldsItsEnds ==
    killed \/ \A p \in Proc :
        LET ends == {fds[Master][fd].end : fd \in DOMAIN fds[Master]}
            used == \/ \E t \in Thread : mine[t] = p /\ pc[t] \in {"ready", "await"}
                    \/ \E i \in 1..Len(pool) : pool[i] = p /\ (i = 1 => mainPc # "wait")
        IN /\ used => /\ fds[Master][pipes[p][2]].end = InWrite(p)
                      /\ fds[Master][pipes[p][3]].end = OutRead(p)
                      /\ {InRead(p), OutWrite(p)} \cap ends = {}
           /\ child[p] = "reaped" => {InRead(p), OutWrite(p), InWrite(p), OutRead(p)} \cap ends = {}

(* Neither Daemon::run nor ~DaemonPool blocks for ever, although a read    *)
(* ends, and a child exits, only when the last copy of the other end of    *)
(* the pipe is closed, in whatever process it is.                          *)
Termination == <>(killed \/ mainPc = "done")

(* A master that is killed leaves no daemon behind: each reads the end of  *)
(* its input, none keeps another one's open.                               *)
NoOrphans ==
    \A p \in Proc : killed /\ child[p] # "none" ~> child[p] \in {"exited", "reaped"}
=============================================================================
