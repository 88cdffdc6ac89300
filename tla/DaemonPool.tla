----------------------------- MODULE DaemonPool -----------------------------
(***************************************************************************)
(* clang-indexer/DaemonPool.cc: the free list of daemon processes that the *)
(* indexing threads of one `--index-project` run share.                    *)
(*                                                                         *)
(* DaemonPool::get and DaemonPool::release run under m_mutex (a LockGuard  *)
(* on entry), so each is a locking step followed by the steps of its body; *)
(* get() reads m_daemons.back() and then calls pop_back().  The            *)
(* destructor takes no lock: it relies on its caller having waited for     *)
(* every thread, which is what the environment guard of PoolBeginDestroy   *)
(* says.  A module that uses the pool shows that it keeps to this by       *)
(* implementing PoolSpec.                                                  *)
(***************************************************************************)
EXTENDS Naturals, Sequences, FiniteSets

CONSTANTS Thread,    \* threads that may call get() and release()
          Daemon,    \* identities of Daemon objects
          NoThread,  \* m_mutex is free
          NoDaemon   \* a Daemon* that holds nothing

ASSUME PoolAssumption ==
    /\ IsFiniteSet(Thread)
    /\ NoThread \notin Thread
    /\ NoDaemon \notin Daemon

VARIABLES mutex,      \* owner of DaemonPool::m_mutex
          m_daemons,  \* the free daemons, last one on top
          made,       \* Daemon objects constructed and not deleted
          at,         \* where a thread is in the pool's code
          held,       \* the Daemon* a thread got and has not released
          closing     \* ~DaemonPool has started

poolVars == <<mutex, m_daemons, made, at, held, closing>>

PoolPc == {"out", "getting", "popping", "using", "putting"}

PoolInit ==
    /\ mutex = NoThread
    /\ m_daemons = <<>>
    /\ made = {}
    /\ at = [t \in Thread |-> "out"]
    /\ held = [t \in Thread |-> NoDaemon]
    /\ closing = FALSE
-----------------------------------------------------------------------------
(* LockGuard's constructor, from `here` to `there`. *)
Acquire(t, here, there) ==
    /\ at[t] = here
    /\ mutex = NoThread
    /\ mutex' = t
    /\ at' = [at EXCEPT ![t] = there]

(* LockGuard's destructor, at the end of get() or release(). *)
Unlock(t, there) ==
    /\ mutex' = NoThread
    /\ at' = [at EXCEPT ![t] = there]

(* Mutant: a get() without its LockGuard.                                  *)
GetLock_unguarded(t) ==
    /\ at[t] = "out"
    /\ mutex' = t
    /\ at' = [at EXCEPT ![t] = "getting"]
    /\ UNCHANGED <<m_daemons, made, held, closing>>

(* Mutant: a daemon is made although the list has some.                    *)
GetNew_always(t) ==
    /\ at[t] = "getting"
    /\ \E d \in Daemon \ made :
          /\ made' = made \cup {d}
          /\ held' = [held EXCEPT ![t] = d]
    /\ Unlock(t, "using")
    /\ UNCHANGED <<m_daemons, closing>>

(* Mutant: the daemon is not put back.                                     *)
ReleasePush_dropped(t) ==
    /\ at[t] = "putting"
    /\ held' = [held EXCEPT ![t] = NoDaemon]
    /\ Unlock(t, "out")
    /\ UNCHANGED <<m_daemons, made, closing>>

(* get(): lock m_mutex. *)
GetLock(t) ==
    /\ Acquire(t, "out", "getting")
    /\ UNCHANGED <<m_daemons, made, held, closing>>

(* get(): result = m_daemons.back(), when the list is not empty. *)
GetBack(t) ==
    /\ at[t] = "getting"
    /\ m_daemons # <<>>
    /\ held' = [held EXCEPT ![t] = m_daemons[Len(m_daemons)]]
    /\ at' = [at EXCEPT ![t] = "popping"]
    /\ UNCHANGED <<mutex, m_daemons, made, closing>>

(* get(): m_daemons.pop_back(), unlock, return. *)
GetPop(t) ==
    /\ at[t] = "popping"
    /\ m_daemons # <<>>
    /\ m_daemons' = SubSeq(m_daemons, 1, Len(m_daemons) - 1)
    /\ Unlock(t, "using")
    /\ UNCHANGED <<made, held, closing>>

(* get(): new Daemon() when the list is empty, still under the lock. *)
GetNew(t) ==
    /\ at[t] = "getting"
    /\ m_daemons = <<>>
    /\ \E d \in Daemon \ made :
          /\ made' = made \cup {d}
          /\ held' = [held EXCEPT ![t] = d]
    /\ Unlock(t, "using")
    /\ UNCHANGED <<m_daemons, closing>>

(* release(): lock m_mutex. *)
ReleaseLock(t) ==
    /\ Acquire(t, "using", "putting")
    /\ UNCHANGED <<m_daemons, made, held, closing>>

(* release(): m_daemons.push_back(daemon), unlock. *)
ReleasePush(t) ==
    /\ at[t] = "putting"
    /\ m_daemons' = Append(m_daemons, held[t])
    /\ held' = [held EXCEPT ![t] = NoDaemon]
    /\ Unlock(t, "out")
    /\ UNCHANGED <<made, closing>>

(* ~DaemonPool is entered.  The caller guarantees that no thread is inside *)
(* the pool's code or still holds a daemon, and that none will call again. *)
PoolBeginDestroy ==
    /\ ~closing
    /\ \A t \in Thread : at[t] = "out"
    /\ closing' = TRUE
    /\ UNCHANGED <<mutex, m_daemons, made, at, held>>

(* ~DaemonPool: delete the next daemon of the list. *)
PoolDelete ==
    /\ closing
    /\ m_daemons # <<>>
    /\ made' = made \ {Head(m_daemons)}
    /\ m_daemons' = Tail(m_daemons)
    /\ UNCHANGED <<mutex, at, held, closing>>

PoolNext ==
    \/ /\ ~closing
       /\ \E t \in Thread :
            \/ GetLock(t) \/ GetBack(t) \/ GetPop(t) \/ GetNew(t)
            \/ ReleaseLock(t) \/ ReleasePush(t)
    \/ PoolBeginDestroy
    \/ PoolDelete

PoolSpec == PoolInit /\ [][PoolNext]_poolVars
-----------------------------------------------------------------------------
(* The type invariant of the pool. *)
PoolTypeOK ==
    /\ mutex \in Thread \cup {NoThread}
    /\ m_daemons \in Seq(Daemon)
    /\ made \in SUBSET Daemon
    /\ at \in [Thread -> PoolPc]
    /\ held \in [Thread -> Daemon \cup {NoDaemon}]
    /\ closing \in BOOLEAN

Pooled == {m_daemons[i] : i \in 1..Len(m_daemons)}

(* A thread that has read back() but not yet called pop_back() does not    *)
(* own the daemon: the list still does.                                    *)
Owns(t, d) == at[t] \in {"using", "putting"} /\ held[t] = d

(* Every daemon that exists has one owner: it is in one slot of the free   *)
(* list, or one thread drives it (DaemonPool.cc:74-90).  Two owners would  *)
(* write two requests into one pipe; a daemon with none would never be     *)
(* reaped.                                                                 *)
OneOwner ==
    /\ \A i, j \in 1..Len(m_daemons) : m_daemons[i] = m_daemons[j] => i = j
    /\ \A t, u \in Thread, d \in Daemon : Owns(t, d) /\ Owns(u, d) => t = u
    /\ \A t \in Thread, d \in Pooled : ~Owns(t, d)

(* No daemon is used after its deletion, and none is lost: the daemons     *)
(* that exist are those in the free list and those the threads own.        *)
NoLostDaemon ==
    made = Pooled \cup {d \in Daemon : \E t \in Thread : Owns(t, d)}

(* The pool never starts more daemon processes than there are threads,     *)
(* since get() only makes one when every existing daemon is in use.        *)
PoolBound == Cardinality(made) <= Cardinality(Thread)
=============================================================================
