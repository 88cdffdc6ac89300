------------------------- MODULE IndexProjectProofs -------------------------
(***************************************************************************)
(* Proofs about DaemonPool, and then about IndexProject, for any number of *)
(* sources, threads, daemons and crashes: its types, that it uses the      *)
(* daemon pool as the pool requires (and so has the pool's properties),    *)
(* and that a failing run leaves the previous index alone; then that an    *)
(* answer belongs to its request, no file is written while it is merged,   *)
(* entries are merged in a deterministic order, a run fails only for a     *)
(* reason, and one that ends leaves nothing behind.                        *)
(***************************************************************************)
EXTENDS IndexProject, FiniteSetTheorems, SequenceTheorems, TLAPS

-----------------------------------------------------------------------------
(* THE POOL, for whatever uses it as DaemonPool says: any number of        *)
(* threads and daemons.                                                    *)

(* Who holds m_mutex, and what a thread's Daemon* is at each point.        *)
LockInv == \A t \in Thread : (at[t] \in {"getting", "popping", "putting"}) <=> (mutex = t)

HeldInv ==
    /\ \A t \in Thread : at[t] \in {"out", "getting"} => held[t] = NoDaemon
    /\ \A t \in Thread : at[t] \in {"popping", "using", "putting"} => held[t] \in Daemon
    /\ \A t \in Thread : at[t] = "popping" =>
          m_daemons # <<>> /\ held[t] = m_daemons[Len(m_daemons)]

ClosingInv == closing => \A t \in Thread : at[t] = "out"

PoolInv ==
    /\ PoolTypeOK
    /\ LockInv
    /\ HeldInv
    /\ ClosingInv
    /\ OneOwner
    /\ NoLostDaemon
-----------------------------------------------------------------------------
(* What pop_back, push_back and the destructor's loop do to the free list. *)
LEMMA PopBack ==
    ASSUME m_daemons \in Seq(Daemon), m_daemons # <<>>,
           m_daemons' = SubSeq(m_daemons, 1, Len(m_daemons) - 1),
           \A i, j \in 1..Len(m_daemons) : m_daemons[i] = m_daemons[j] => i = j
    PROVE  /\ m_daemons' \in Seq(Daemon)
           /\ \A i, j \in 1..Len(m_daemons') : m_daemons'[i] = m_daemons'[j] => i = j
           /\ Pooled' = Pooled \ {m_daemons[Len(m_daemons)]}
<1> DEFINE n == Len(m_daemons)
<1>1. n \in Nat \ {0} /\ \A i \in 1..n : m_daemons[i] \in Daemon
  BY LenProperties, EmptySeq, ElementOfSeq
<1>2. /\ m_daemons' \in Seq(Daemon)
      /\ Len(m_daemons') = n - 1
      /\ \A i \in 1..(n - 1) : m_daemons'[i] = m_daemons[i]
  <2>1. \A i \in 1..(n - 1) : m_daemons[i] \in Daemon
    BY <1>1
  <2>2. 1 \in Int /\ n - 1 \in Int
    BY <1>1
  <2> HIDE DEF n
  <2>3. /\ SubSeq(m_daemons, 1, n - 1) \in Seq(Daemon)
        /\ Len(SubSeq(m_daemons, 1, n - 1)) = IF 1 <= n - 1 THEN (n - 1) - 1 + 1 ELSE 0
        /\ \A i \in 1..((n - 1) - 1 + 1) : SubSeq(m_daemons, 1, n - 1)[i] = m_daemons[1 + i - 1]
    BY <2>1, <2>2, SubSeqProperties
  <2>4. m_daemons' = SubSeq(m_daemons, 1, n - 1)
    BY DEF n
  <2> QED
    BY <1>1, <2>3, <2>4
<1>3. \A i, j \in 1..(n - 1) : m_daemons'[i] = m_daemons'[j] => i = j
  BY <1>1, <1>2
<1>4. Pooled' = Pooled \ {m_daemons[n]}
  <2>1. Pooled' = {m_daemons[i] : i \in 1..(n - 1)}
    BY <1>1, <1>2 DEF Pooled
  <2>2. \A i \in 1..n : m_daemons[i] = m_daemons[n] => i = n
    BY <1>1
  <2>3. \A i \in 1..n : i \in 1..(n - 1) \/ i = n
    BY <1>1
  <2>4. \A i \in 1..(n - 1) : i \in 1..n /\ i # n
    BY <1>1
  <2> HIDE DEF n
  <2>5. Pooled = {m_daemons[i] : i \in 1..n}
    BY DEF Pooled, n
  <2> QED
    BY <2>1, <2>2, <2>3, <2>4, <2>5
<1> QED
  BY <1>2, <1>3, <1>4

LEMMA PushBack ==
    ASSUME m_daemons \in Seq(Daemon), NEW d \in Daemon, d \notin Pooled,
           m_daemons' = Append(m_daemons, d),
           \A i, j \in 1..Len(m_daemons) : m_daemons[i] = m_daemons[j] => i = j
    PROVE  /\ m_daemons' \in Seq(Daemon)
           /\ \A i, j \in 1..Len(m_daemons') : m_daemons'[i] = m_daemons'[j] => i = j
           /\ Pooled' = Pooled \cup {d}
<1> DEFINE n == Len(m_daemons)
<1>1. n \in Nat
  BY LenProperties
<1>2. /\ m_daemons' \in Seq(Daemon)
      /\ Len(m_daemons') = n + 1
      /\ \A i \in 1..n : m_daemons'[i] = m_daemons[i]
      /\ m_daemons'[n + 1] = d
  BY AppendProperties
<1>3. \A i \in 1..n : m_daemons[i] # d
  BY DEF Pooled
<1>4. \A i \in 1..(n + 1) : i \in 1..n \/ i = n + 1
  BY <1>1
<1>5. \A i \in 1..n : i \in 1..(n + 1)
  BY <1>1
<1>6. n + 1 \in 1..(n + 1)
  BY <1>1
<1>7. Pooled = {m_daemons[i] : i \in 1..n} /\ Pooled' = {m_daemons'[i] : i \in 1..(n + 1)}
  BY <1>2 DEF Pooled
<1> HIDE DEF n
<1>8. \A i, j \in 1..(n + 1) : m_daemons'[i] = m_daemons'[j] => i = j
  <2> SUFFICES ASSUME NEW i \in 1..(n + 1), NEW j \in 1..(n + 1), m_daemons'[i] = m_daemons'[j]
               PROVE  i = j
    OBVIOUS
  <2> QED
    BY <1>2, <1>3, <1>4 DEF n
<1>9. Pooled' = Pooled \cup {d}
  BY <1>2, <1>4, <1>5, <1>6, <1>7
<1> QED
  BY <1>2, <1>8, <1>9

LEMMA DeleteFront ==
    ASSUME m_daemons \in Seq(Daemon), m_daemons # <<>>,
           m_daemons' = Tail(m_daemons),
           \A i, j \in 1..Len(m_daemons) : m_daemons[i] = m_daemons[j] => i = j
    PROVE  /\ m_daemons' \in Seq(Daemon)
           /\ \A i, j \in 1..Len(m_daemons') : m_daemons'[i] = m_daemons'[j] => i = j
           /\ Pooled' = Pooled \ {Head(m_daemons)}
<1> DEFINE n == Len(m_daemons)
<1>1. n \in Nat \ {0} /\ Head(m_daemons) = m_daemons[1]
  BY LenProperties, EmptySeq
<1>2. /\ m_daemons' \in Seq(Daemon)
      /\ Len(m_daemons') = n - 1
      /\ \A i \in 1..(n - 1) : m_daemons'[i] = m_daemons[i + 1]
  BY HeadTailProperties
<1>3. \A i \in 1..(n - 1) : i + 1 \in 1..n /\ i + 1 # 1
  BY <1>1
<1>4. \A i, j \in 1..(n - 1) : m_daemons'[i] = m_daemons'[j] => i = j
  <2> SUFFICES ASSUME NEW i \in 1..(n - 1), NEW j \in 1..(n - 1), m_daemons'[i] = m_daemons'[j]
               PROVE  i = j
    OBVIOUS
  <2>1. m_daemons[i + 1] = m_daemons[j + 1] /\ i + 1 \in 1..n /\ j + 1 \in 1..n
    BY <1>2, <1>3
  <2>2. i + 1 = j + 1
    BY <2>1
  <2> QED
    BY <2>2
<1>5. \A i \in 1..n : i = 1 \/ \E j \in 1..(n - 1) : i = j + 1
  <2> SUFFICES ASSUME NEW i \in 1..n, i # 1 PROVE i - 1 \in 1..(n - 1) /\ i = (i - 1) + 1
    OBVIOUS
  <2> QED
    BY <1>1
<1>6. \A i \in 1..n : m_daemons[i] = m_daemons[1] => i = 1
  BY <1>1
<1>7. Pooled = {m_daemons[i] : i \in 1..n} /\ Pooled' = {m_daemons'[i] : i \in 1..(n - 1)}
  BY <1>2 DEF Pooled
<1> HIDE DEF n
<1>8. Pooled' = Pooled \ {m_daemons[1]}
  BY <1>2, <1>3, <1>5, <1>6, <1>7
<1> QED
  BY <1>1, <1>2, <1>4, <1>8
-----------------------------------------------------------------------------
LEMMA PooledType ==
    ASSUME m_daemons \in Seq(Daemon)
    PROVE  Pooled \in SUBSET Daemon
BY ElementOfSeq DEF Pooled

LEMMA PoolInitInv == PoolInit => PoolInv
<1> SUFFICES ASSUME PoolInit PROVE PoolInv
  OBVIOUS
<1> USE PoolAssumption DEF PoolInit
<1>1. PoolTypeOK /\ ClosingInv
  BY EmptySeq DEF PoolTypeOK, PoolPc, ClosingInv
<1>2. LockInv /\ HeldInv
  BY DEF LockInv, HeldInv
<1>3. Pooled = {} /\ 1..Len(m_daemons) = {}
  BY EmptySeq DEF Pooled
<1>4. \A t \in Thread, d \in Daemon : ~Owns(t, d)
  BY DEF Owns
<1>5. OneOwner /\ NoLostDaemon
  BY <1>3, <1>4 DEF OneOwner, NoLostDaemon
<1> QED
  BY <1>1, <1>2, <1>5 DEF PoolInv

(* Steps that move one thread between places where it owns nothing.        *)
LEMMA GetLockInv ==
    ASSUME PoolInv, NEW t \in Thread, ~closing, GetLock(t)
    PROVE  PoolInv'
<1> USE PoolAssumption DEF PoolInv, GetLock, Acquire, PoolTypeOK, PoolPc
<1>1. PoolTypeOK' /\ ClosingInv'
  BY DEF ClosingInv
<1>2. LockInv'
  BY DEF LockInv
<1>3. HeldInv'
  BY DEF HeldInv
<1>4. \A u \in Thread, d \in Daemon : Owns(u, d)' = Owns(u, d)
  BY DEF Owns
<1>5. OneOwner'
  BY <1>4 DEF OneOwner, Pooled
<1>6. NoLostDaemon'
  BY <1>4 DEF NoLostDaemon, Pooled
<1> QED
  BY <1>1, <1>2, <1>3, <1>5, <1>6

LEMMA GetBackInv ==
    ASSUME PoolInv, NEW t \in Thread, ~closing, GetBack(t)
    PROVE  PoolInv'
<1> USE PoolAssumption DEF PoolInv, GetBack, PoolTypeOK, PoolPc
<1>1. m_daemons[Len(m_daemons)] \in Daemon
  BY EmptySeq, LenProperties, ElementOfSeq
<1>2. PoolTypeOK' /\ ClosingInv'
  BY <1>1 DEF ClosingInv
<1>3. LockInv'
  BY DEF LockInv
<1>4. HeldInv'
  BY <1>1 DEF HeldInv
<1>5. \A u \in Thread, d \in Daemon : Owns(u, d)' = Owns(u, d)
  BY DEF Owns
<1>6. OneOwner'
  BY <1>5 DEF OneOwner, Pooled
<1>7. NoLostDaemon'
  BY <1>5 DEF NoLostDaemon, Pooled
<1> QED
  BY <1>2, <1>3, <1>4, <1>6, <1>7

(* pop_back() turns the daemon read by back() from pooled into owned.      *)
LEMMA GetPopInv ==
    ASSUME PoolInv, NEW t \in Thread, ~closing, GetPop(t)
    PROVE  PoolInv'
<1> USE PoolAssumption DEF PoolInv, GetPop, Unlock, PoolTypeOK, PoolPc
<1>0. Pooled \in SUBSET Daemon
  BY PooledType
<1> DEFINE d0 == m_daemons[Len(m_daemons)]
<1>1. /\ m_daemons' \in Seq(Daemon)
      /\ \A i, j \in 1..Len(m_daemons') : m_daemons'[i] = m_daemons'[j] => i = j
      /\ Pooled' = Pooled \ {d0}
  BY PopBack DEF OneOwner
<1>2. held[t] = d0 /\ d0 \in Daemon /\ d0 \in Pooled
  <2>1. held[t] = d0 /\ held[t] \in Daemon
    BY DEF HeldInv
  <2>2. Len(m_daemons) \in 1..Len(m_daemons)
    BY LenProperties, EmptySeq
  <2> QED
    BY <2>1, <2>2 DEF Pooled
<1>3. PoolTypeOK' /\ ClosingInv'
  BY <1>1 DEF ClosingInv
<1>4. LockInv'
  BY DEF LockInv
<1>5. HeldInv'
  BY DEF HeldInv, LockInv
<1>6. \A u \in Thread, d \in Daemon :
         Owns(u, d)' <=> Owns(u, d) \/ (u = t /\ d = d0)
  BY <1>2 DEF Owns
<1>7. \A u \in Thread : ~Owns(u, d0)
  BY <1>2 DEF OneOwner
<1> HIDE DEF d0
<1>8. OneOwner'
  BY <1>0, <1>1, <1>2, <1>6, <1>7 DEF OneOwner
<1>9. NoLostDaemon'
  BY <1>1, <1>2, <1>6 DEF NoLostDaemon
<1> QED
  BY <1>3, <1>4, <1>5, <1>8, <1>9

LEMMA GetNewInv ==
    ASSUME PoolInv, NEW t \in Thread, ~closing, GetNew(t)
    PROVE  PoolInv'
<1> USE PoolAssumption DEF PoolInv, GetNew, Unlock, PoolTypeOK, PoolPc
<1>0. Pooled \in SUBSET Daemon
  BY PooledType
<1> PICK d0 \in Daemon \ made : /\ made' = made \cup {d0}
                                /\ held' = [held EXCEPT ![t] = d0]
  OBVIOUS
<1>1. PoolTypeOK' /\ ClosingInv'
  BY DEF ClosingInv
<1>2. LockInv'
  BY DEF LockInv
<1>3. HeldInv'
  BY DEF HeldInv
<1>4. \A u \in Thread, d \in Daemon :
         Owns(u, d)' <=> Owns(u, d) \/ (u = t /\ d = d0)
  BY DEF Owns, HeldInv
<1>5. d0 \notin Pooled /\ \A u \in Thread : ~Owns(u, d0)
  BY DEF NoLostDaemon
<1>6. Pooled' = Pooled
  BY DEF Pooled
<1>7. OneOwner'
  BY <1>0, <1>4, <1>5, <1>6 DEF OneOwner
<1>8. NoLostDaemon'
  BY <1>4, <1>6 DEF NoLostDaemon
<1> QED
  BY <1>1, <1>2, <1>3, <1>7, <1>8

LEMMA ReleaseLockInv ==
    ASSUME PoolInv, NEW t \in Thread, ~closing, ReleaseLock(t)
    PROVE  PoolInv'
<1> USE PoolAssumption DEF PoolInv, ReleaseLock, Acquire, PoolTypeOK, PoolPc
<1>1. PoolTypeOK' /\ ClosingInv'
  BY DEF ClosingInv
<1>2. LockInv'
  BY DEF LockInv
<1>3. HeldInv'
  BY DEF HeldInv
<1>4. \A u \in Thread, d \in Daemon : Owns(u, d)' = Owns(u, d)
  BY DEF Owns
<1>5. OneOwner'
  BY <1>4 DEF OneOwner, Pooled
<1>6. NoLostDaemon'
  BY <1>4 DEF NoLostDaemon, Pooled
<1> QED
  BY <1>1, <1>2, <1>3, <1>5, <1>6

(* push_back() turns the owned daemon into a pooled one.                   *)
LEMMA ReleasePushInv ==
    ASSUME PoolInv, NEW t \in Thread, ~closing, ReleasePush(t)
    PROVE  PoolInv'
<1> USE PoolAssumption DEF PoolInv, ReleasePush, Unlock, PoolTypeOK, PoolPc
<1>0. Pooled \in SUBSET Daemon
  BY PooledType
<1> DEFINE d0 == held[t]
<1>1. d0 \in Daemon /\ Owns(t, d0) /\ d0 \notin Pooled
  BY DEF HeldInv, Owns, OneOwner
<1>2. /\ m_daemons' \in Seq(Daemon)
      /\ \A i, j \in 1..Len(m_daemons') : m_daemons'[i] = m_daemons'[j] => i = j
      /\ Pooled' = Pooled \cup {d0}
  BY <1>1, PushBack DEF OneOwner
<1>3. PoolTypeOK' /\ ClosingInv'
  BY <1>2 DEF ClosingInv
<1>4. LockInv'
  BY DEF LockInv
<1>5. HeldInv'
  BY DEF HeldInv, LockInv
<1>6. \A u \in Thread, d \in Daemon : Owns(u, d)' <=> Owns(u, d) /\ u # t
  BY DEF Owns
<1>7. \A u \in Thread : Owns(u, d0) => u = t
  BY <1>1 DEF OneOwner
<1>8. \A d \in Daemon : Owns(t, d) => d = d0
  BY DEF Owns
<1> HIDE DEF d0
<1>9. OneOwner'
  BY <1>0, <1>1, <1>2, <1>6, <1>7 DEF OneOwner
<1>10. NoLostDaemon'
  BY <1>1, <1>2, <1>6, <1>8 DEF NoLostDaemon
<1> QED
  BY <1>3, <1>4, <1>5, <1>9, <1>10

LEMMA PoolBeginDestroyInv ==
    ASSUME PoolInv, PoolBeginDestroy
    PROVE  PoolInv'
BY DEF PoolInv, PoolBeginDestroy, PoolTypeOK, LockInv, HeldInv, ClosingInv,
   OneOwner, NoLostDaemon, Pooled, Owns

LEMMA PoolDeleteInv ==
    ASSUME PoolInv, PoolDelete
    PROVE  PoolInv'
<1> USE PoolAssumption DEF PoolInv, PoolDelete, PoolTypeOK, PoolPc
<1>0. Pooled \in SUBSET Daemon
  BY PooledType
<1>1. /\ m_daemons' \in Seq(Daemon)
      /\ \A i, j \in 1..Len(m_daemons') : m_daemons'[i] = m_daemons'[j] => i = j
      /\ Pooled' = Pooled \ {Head(m_daemons)}
  BY DeleteFront DEF OneOwner
<1>2. \A u \in Thread, d \in Daemon : ~Owns(u, d) /\ ~Owns(u, d)'
  BY DEF Owns, ClosingInv
<1>3. PoolTypeOK' /\ ClosingInv' /\ LockInv'
  BY <1>1 DEF ClosingInv, LockInv
<1>4. HeldInv'
  BY DEF HeldInv, ClosingInv
<1>5. OneOwner'
  BY <1>0, <1>1, <1>2 DEF OneOwner
<1>6. NoLostDaemon'
  BY <1>1, <1>2 DEF NoLostDaemon
<1> QED
  BY <1>3, <1>4, <1>5, <1>6

LEMMA PoolNextInv == PoolInv /\ [PoolNext]_poolVars => PoolInv'
<1> SUFFICES ASSUME PoolInv, [PoolNext]_poolVars PROVE PoolInv'
  OBVIOUS
<1>1. CASE UNCHANGED poolVars
  BY <1>1 DEF poolVars, PoolInv, PoolTypeOK, LockInv, HeldInv, ClosingInv,
              OneOwner, NoLostDaemon, Pooled, Owns
<1>2. ASSUME ~closing, NEW t \in Thread,
             GetLock(t) \/ GetBack(t) \/ GetPop(t) \/ GetNew(t)
             \/ ReleaseLock(t) \/ ReleasePush(t)
      PROVE  PoolInv'
  BY <1>2, GetLockInv, GetBackInv, GetPopInv, GetNewInv, ReleaseLockInv, ReleasePushInv
<1>3. CASE PoolBeginDestroy
  BY <1>3, PoolBeginDestroyInv
<1>4. CASE PoolDelete
  BY <1>4, PoolDeleteInv
<1> QED
  BY <1>1, <1>2, <1>3, <1>4 DEF PoolNext
-----------------------------------------------------------------------------
THEOREM PoolInvariance == PoolSpec => []PoolInv
BY PoolInitInv, PoolNextInv, PTL DEF PoolSpec

(* The pool's variables keep their types (DaemonPool.h:42-54).             *)
THEOREM PoolTypeCorrect == PoolSpec => []PoolTypeOK
<1>1. PoolInv => PoolTypeOK
  BY DEF PoolInv
<1> QED
  BY <1>1, PoolInvariance, PTL

(* No daemon is driven by two threads, or free and driven at once, for any *)
(* number of threads calling get() and release().                          *)
THEOREM PoolOneOwner == PoolSpec => []OneOwner
<1>1. PoolInv => OneOwner
  BY DEF PoolInv
<1> QED
  BY <1>1, PoolInvariance, PTL

(* Every constructed daemon is free or owned until ~DaemonPool deletes it. *)
THEOREM PoolNoLostDaemon == PoolSpec => []NoLostDaemon
<1>1. PoolInv => NoLostDaemon
  BY DEF PoolInv
<1> QED
  BY <1>1, PoolInvariance, PTL
-----------------------------------------------------------------------------
FiniteBound == IsFiniteSet(made) /\ PoolBound

NoneFree == m_daemons = <<>>

(* When the free list is empty, each daemon is owned by a thread of its    *)
(* own, so there are no more daemons than threads.                         *)
LEMMA AllOwnedBound ==
    PoolTypeOK /\ NoLostDaemon /\ NoneFree => FiniteBound
<1> SUFFICES ASSUME PoolTypeOK, NoLostDaemon, m_daemons = <<>>
             PROVE  IsFiniteSet(made) /\ Cardinality(made) <= Cardinality(Thread)
  BY DEF NoneFree, FiniteBound, PoolBound
<1> DEFINE Owners == {t \in Thread : \E d \in Daemon : Owns(t, d)}
           f == [t \in Owners |-> held[t]]
<1>1. IsFiniteSet(Owners) /\ Cardinality(Owners) <= Cardinality(Thread)
  BY PoolAssumption, FS_Subset
<1>2. made = {d \in Daemon : \E t \in Thread : Owns(t, d)}
  BY DEF NoLostDaemon, Pooled
<1>3. f \in Surjection(Owners, made)
  <2>1. f \in [Owners -> made]
    BY <1>2 DEF Owns
  <2>2. \A d \in made : \E t \in Owners : f[t] = d
    BY <1>2 DEF Owns
  <2> QED
    BY <2>1, <2>2 DEF Surjection
<1>4. IsFiniteSet(made) /\ Cardinality(made) <= Cardinality(Owners)
  <2> HIDE DEF Owners, f
  <2> QED
    BY <1>1, <1>3, FS_Surjection
<1>5. /\ Cardinality(made) \in Nat
      /\ Cardinality(Owners) \in Nat
      /\ Cardinality(Thread) \in Nat
  BY <1>1, <1>4, PoolAssumption, FS_CardinalityType
<1> QED
  BY <1>1, <1>4, <1>5

LEMMA PoolInitBound == PoolInit => FiniteBound
<1> SUFFICES ASSUME PoolInit PROVE FiniteBound
  OBVIOUS
<1>1. made = {} /\ Cardinality(made) = 0 /\ IsFiniteSet(made)
  BY FS_EmptySet DEF PoolInit
<1>2. Cardinality(Thread) \in Nat
  BY PoolAssumption, FS_CardinalityType
<1> QED
  BY <1>1, <1>2 DEF FiniteBound, PoolBound

LEMMA PoolNextBound ==
    PoolInv /\ PoolInv' /\ FiniteBound /\ [PoolNext]_poolVars => FiniteBound'
<1> SUFFICES ASSUME PoolInv, PoolInv', FiniteBound, [PoolNext]_poolVars
             PROVE  FiniteBound'
  OBVIOUS
<1>1. ASSUME made' = made PROVE FiniteBound'
  BY <1>1 DEF FiniteBound, PoolBound
<1>2. CASE UNCHANGED poolVars
  BY <1>1, <1>2 DEF poolVars
<1>3. ASSUME NEW t \in Thread,
             GetLock(t) \/ GetBack(t) \/ GetPop(t) \/ ReleaseLock(t) \/ ReleasePush(t)
      PROVE  FiniteBound'
  BY <1>1, <1>3 DEF GetLock, GetBack, GetPop, ReleaseLock, ReleasePush
<1>4. ASSUME NEW t \in Thread, GetNew(t) PROVE FiniteBound'
  <2>1. NoneFree' /\ PoolTypeOK' /\ NoLostDaemon'
    BY <1>4 DEF GetNew, PoolInv, NoneFree
  <2> QED
    BY <2>1, AllOwnedBound, PTL
<1>5. CASE PoolBeginDestroy
  BY <1>1, <1>5 DEF PoolBeginDestroy
<1>6. CASE PoolDelete
  <2>1. made' \in SUBSET made
    BY <1>6 DEF PoolDelete
  <2>2. IsFiniteSet(made) /\ Cardinality(made) <= Cardinality(Thread)
    BY DEF FiniteBound, PoolBound
  <2>3. IsFiniteSet(made') /\ Cardinality(made') <= Cardinality(made)
    BY <2>1, <2>2, FS_Subset
  <2>4. /\ Cardinality(made) \in Nat
        /\ Cardinality(made') \in Nat
        /\ Cardinality(Thread) \in Nat
    BY <2>2, <2>3, PoolAssumption, FS_CardinalityType
  <2> QED
    BY <2>2, <2>3, <2>4 DEF FiniteBound, PoolBound
<1> QED
  BY <1>2, <1>3, <1>4, <1>5, <1>6 DEF PoolNext

(* However many sources there are, never more daemon processes exist than  *)
(* threads call the pool.                                                  *)
THEOREM PoolBounded == PoolSpec => []PoolBound
<1>1. FiniteBound => PoolBound
  BY DEF FiniteBound
<1> QED
  BY <1>1, PoolInitBound, PoolNextBound, PoolInvariance, PTL DEF PoolSpec

-----------------------------------------------------------------------------
(* THE PIPELINE. *)

(* A file with a table of contents says whose it is.                       *)
FileInv == \A p \in Path : HasToc(p) => file[p].of \in Source

(* Where a thread is in its task, against where it is in the pool.         *)
StageInv == \A t \in Thread :
    /\ stage[t] \in {"idle", "return"} => at[t] = "out"
    /\ stage[t] = "await" => at[t] = "using"
    /\ stage[t] = "release" => at[t] \in {"using", "putting"}
    /\ stage[t] = "get" => at[t] # "putting"

(* A busy thread runs a task that nobody else runs.                        *)
RunInv ==
    /\ \A t \in Thread : stage[t] # "idle" =>
          runs[t] \in Source /\ task[runs[t]] = "running"
    /\ \A t, u \in Thread :
          stage[t] # "idle" /\ stage[u] # "idle" /\ runs[t] = runs[u] => t = u

(* What the main thread has got through.                                   *)
PhaseInv ==
    /\ mainPc = "schedule" => \A s \in Source : s >= cur => task[s] = "none"
    /\ mainPc \in {"collect", "merge"} => \A s \in Source : s < cur => task[s] = "done"
    /\ mainPc = "merge" => task[cur] = "done"
    /\ mainPc \in {"finalize", "write", "leave", "done"} =>
          \A s \in Source : task[s] = "done"
    /\ closing => mainPc \in {"leave", "done"}
    /\ index # "old" => mainPc \in {"write", "leave", "done"}

ControlInv == StageInv /\ RunInv /\ PhaseInv

(* A daemon at work has a source to index.                                 *)
JobInv == \A d \in Daemon : proc[d] \in {"parsing", "open", "body"} => job[d] \in Source

ProjectInv == TypeOK /\ FileInv /\ ControlInv /\ JobInv

-----------------------------------------------------------------------------
LEMMA TocType ==
    ASSUME TypeOK, FileInv, NEW p \in Path, HasToc(p)
    PROVE  TocOf(file[p]) \in Seq(Hash \cup {ZeroHash})
<1> DEFINE f == file[p]
<1>1. f.of \in Source
  BY DEF FileInv
<1>2. Entries(f) \in Seq(Hash)
  BY <1>1, ArchiveAssumption DEF Entries
<1>3. Len(Entries(f)) \in Nat
  BY <1>2, LenProperties
<1>4. [i \in 1..Len(Entries(f)) |-> ZeroHash] \in Seq(Hash \cup {ZeroHash})
  <2> DEFINE n == Len(Entries(f))
  <2> HIDE DEF f, n
  <2> QED
    BY <1>3 DEF n
<1>5. Entries(f) \in Seq(Hash \cup {ZeroHash})
  BY <1>2, SeqMonotonic
<1> QED
  BY <1>4, <1>5 DEF TocOf

LEMMA ProjectInitInv == Init => ProjectInv
<1> SUFFICES ASSUME Init PROVE ProjectInv
  OBVIOUS
<1> USE ArchiveAssumption, ProjectAssumption, PoolAssumption
<1>1. PoolTypeOK
  BY PoolInitInv DEF Init, PoolInv
<1>2. cur \in Source /\ toc \in Seq(Hash \cup {ZeroHash}) /\ merged \in Seq(Hash)
  BY EmptySeq DEF Init, Source
<1>3. file \in [Path -> FileRecord] /\ FileInv
  <2> PICK left \in [Source -> UNION {LeftOver(s) : s \in Source}] :
          /\ \A s \in Source : left[s] \in LeftOver(s)
          /\ file = [p \in Path |->
                IF \E s \in Source : IdxPath[s] = p
                THEN left[CHOOSE s \in Source : IdxPath[s] = p]
                ELSE Missing]
    BY DEF Init
  <2>1. \A s \in Source : \A f \in LeftOver(s) :
           f \in FileRecord /\ (f.st \in {"zeroToc", "complete"} => f.of \in Source)
    <3> SUFFICES ASSUME NEW s \in Source, NEW f \in LeftOver(s)
                 PROVE  f \in FileRecord /\ (f.st \in {"zeroToc", "complete"} => f.of \in Source)
      OBVIOUS
    <3>1. CASE f = Missing
      BY <3>1 DEF Missing, FileRecord, FileState
    <3>2. CASE f = EmptyBy(NoWriter)
      BY <3>2 DEF EmptyBy, FileRecord, FileState
    <3>3. ASSUME NEW st \in {"complete", "zeroToc"}, NEW fresh \in BOOLEAN,
                 f = [st |-> st, of |-> s, fresh |-> fresh, by |-> NoWriter]
          PROVE  f \in FileRecord /\ f.of \in Source
      BY <3>3 DEF FileRecord, FileState
    <3> QED
      BY <3>1, <3>2, <3>3 DEF LeftOver, Missing, EmptyBy
  <2>2. Missing \in FileRecord /\ Missing.st = "missing"
    BY DEF Missing, FileRecord, FileState
  <2>3. \A p \in Path :
           file[p] = Missing \/ \E s \in Source : file[p] \in LeftOver(s)
    OBVIOUS
  <2>4. file \in [Path -> FileRecord]
    BY <2>1, <2>2
  <2>5. FileInv
    BY <2>1, <2>2, <2>3 DEF FileInv, HasToc
  <2> QED
    BY <2>4, <2>5
<1>4. TypeOK
  <2>1. /\ incremental \in BOOLEAN /\ mainPc = "schedule" /\ entry = 1
        /\ index = "old" /\ crashes = 0
        /\ task = [s \in Source |-> "none"] /\ stage = [t \in Thread |-> "idle"]
        /\ runs = [t \in Thread |-> 0] /\ job = [d \in Daemon |-> 0]
        /\ proc = [d \in Daemon |-> "idle"]
    BY DEF Init
  <2>2. crashes \in 0..MaxCrashes
    BY <2>1
  <2> QED
    BY <1>1, <1>2, <1>3, <2>1, <2>2 DEF TypeOK
<1>5. /\ at = [t \in Thread |-> "out"] /\ ~closing /\ mainPc = "schedule"
      /\ index = "old" /\ task = [s \in Source |-> "none"]
      /\ stage = [t \in Thread |-> "idle"] /\ runs = [t \in Thread |-> 0]
  BY DEF Init, PoolInit
<1>6. ControlInv
  BY <1>5 DEF ControlInv, StageInv, RunInv, PhaseInv
<1>7. JobInv
  BY DEF Init, JobInv
<1> QED
  BY <1>3, <1>4, <1>6, <1>7 DEF ProjectInv
-----------------------------------------------------------------------------
(* The main thread. *)

LEMMA NextSourceType ==
    ASSUME cur \in Source, NEW after, NextSource(after)
    PROVE  /\ cur' \in Source
           /\ \/ cur < NSource /\ cur' = cur + 1 /\ mainPc' = mainPc
              \/ cur = NSource /\ cur' = 1 /\ mainPc' = after
BY ArchiveAssumption DEF NextSource, Source

LEMMA ScheduleFailsInv ==
    ASSUME ProjectInv, ScheduleFails
    PROVE  ProjectInv'
BY DEF ProjectInv, ScheduleFails, Abort, TypeOK, PoolTypeOK, poolVars, procVars,
   FileInv, HasToc, ControlInv, StageInv, RunInv, PhaseInv, JobInv

LEMMA ScheduleInv ==
    ASSUME ProjectInv, Schedule
    PROVE  ProjectInv'
<1> USE ArchiveAssumption DEF ProjectInv, Schedule, poolVars, procVars
<1>1. /\ cur' \in Source
      /\ \/ cur < NSource /\ cur' = cur + 1 /\ mainPc' = mainPc
         \/ cur = NSource /\ cur' = 1 /\ mainPc' = "collect"
  BY NextSourceType DEF TypeOK
<1>2. cur \in Source /\ task[cur] = "none"
  BY DEF TypeOK, ControlInv, PhaseInv, Source
<1>3. TypeOK'
  BY <1>1, <1>2 DEF TypeOK, PoolTypeOK
<1>4. FileInv'
  BY DEF FileInv, HasToc
<1>5. StageInv'
  BY DEF ControlInv, StageInv
<1>6. RunInv'
  <2>1. \A t \in Thread : stage[t] # "idle" => runs[t] # cur
    BY <1>2 DEF ControlInv, RunInv
  <2> QED
    BY <2>1 DEF ControlInv, RunInv, TypeOK
<1>7. PhaseInv'
  BY <1>1, <1>2 DEF ControlInv, PhaseInv, TypeOK, Source
<1>8. JobInv'
  BY DEF JobInv
<1> QED
  BY <1>3, <1>4, <1>5, <1>6, <1>7, <1>8 DEF ControlInv

LEMMA OpenResultInv ==
    ASSUME ProjectInv, OpenResult
    PROVE  ProjectInv'
<1> USE DEF ProjectInv, OpenResult, MainStep, Abort, poolVars, procVars
<1>1. OutPath(cur) \in Path
  BY ProjectAssumption DEF OutPath, TypeOK
<1>2. CASE HasToc(OutPath(cur))
  <2>1. TocOf(file[OutPath(cur)]) \in Seq(Hash \cup {ZeroHash})
    BY <1>1, <1>2, TocType
  <2>2. TypeOK'
    BY <1>2, <2>1 DEF TypeOK, PoolTypeOK
  <2>3. FileInv' /\ JobInv'
    BY DEF FileInv, HasToc, JobInv
  <2>4. ControlInv'
    BY <1>2 DEF ControlInv, StageInv, RunInv, PhaseInv
  <2> QED
    BY <2>2, <2>3, <2>4
<1>3. CASE ~HasToc(OutPath(cur))
  <2>1. TypeOK'
    BY <1>3 DEF TypeOK, PoolTypeOK
  <2>2. FileInv' /\ JobInv'
    BY DEF FileInv, HasToc, JobInv
  <2>3. ControlInv'
    BY <1>3 DEF ControlInv, StageInv, RunInv, PhaseInv
  <2> QED
    BY <2>1, <2>2, <2>3
<1> QED
  BY <1>2, <1>3

LEMMA MergeEntryInv ==
    ASSUME ProjectInv, MergeEntry
    PROVE  ProjectInv'
<1> USE DEF ProjectInv, MergeEntry, MainStep, Abort, poolVars, procVars
<1>1. \/ mainPc' = "aborted" /\ UNCHANGED <<cur, toc, entry, merged, index>>
      \/ /\ mainPc' = mainPc /\ entry' = entry + 1
         /\ UNCHANGED <<cur, toc, index>>
         /\ \/ merged' = merged
            \/ CanOpenEntry(OutPath(cur), toc) /\ merged' = Append(merged, toc[entry])
  <2>0. AlreadyMerged(toc[entry]) \in BOOLEAN /\ CanOpenEntry(OutPath(cur), toc) \in BOOLEAN
    BY DEF AlreadyMerged, CanOpenEntry
  <2>1. CASE AlreadyMerged(toc[entry])
    BY <2>0, <2>1
  <2>2. CASE ~AlreadyMerged(toc[entry]) /\ CanOpenEntry(OutPath(cur), toc)
    BY <2>0, <2>2
  <2>3. CASE ~AlreadyMerged(toc[entry]) /\ ~CanOpenEntry(OutPath(cur), toc)
    BY <2>0, <2>3
  <2> QED
    BY <2>1, <2>2, <2>3
<1>2. ASSUME CanOpenEntry(OutPath(cur), toc), merged' = Append(merged, toc[entry])
      PROVE  merged' \in Seq(Hash)
  <2>1. OutPath(cur) \in Path
    BY ProjectAssumption DEF OutPath, TypeOK
  <2>2. file[OutPath(cur)].of \in Source
    BY <1>2, <2>1 DEF FileInv, HasToc, CanOpenEntry
  <2>3. toc \in Seq(Hash)
    BY <1>2, <2>2, ArchiveAssumption DEF CanOpenEntry, Entries
  <2>4. entry \in 1..Len(toc)
    BY <2>3, LenProperties DEF TypeOK
  <2> QED
    BY <1>2, <2>3, <2>4, ElementOfSeq, AppendProperties DEF TypeOK
<1>3. merged' \in Seq(Hash)
  BY <1>1, <1>2 DEF TypeOK
<1>4. TypeOK'
  BY <1>1, <1>3 DEF TypeOK, PoolTypeOK
<1>5. FileInv' /\ JobInv'
  BY DEF FileInv, HasToc, JobInv
<1>6. ControlInv'
  BY <1>1 DEF ControlInv, StageInv, RunInv, PhaseInv
<1> QED
  BY <1>4, <1>5, <1>6

LEMMA CloseResultInv ==
    ASSUME ProjectInv, CloseResult
    PROVE  ProjectInv'
<1> USE DEF ProjectInv, CloseResult, MainStep, poolVars, procVars
<1>1. cur \in Source /\ OutPath(cur) \in Path
  BY ProjectAssumption DEF OutPath, TypeOK
<1>2. /\ cur' \in Source
      /\ \/ cur < NSource /\ cur' = cur + 1 /\ mainPc' = "collect"
         \/ cur = NSource /\ cur' = 1 /\ mainPc' = "finalize"
  BY <1>1, ArchiveAssumption DEF Source
<1>3. file' \in [Path -> FileRecord] /\ FileInv'
  <2>1. Missing \in FileRecord /\ Missing.st = "missing"
    BY DEF Missing, FileRecord, FileState
  <2>2. file' = file \/ file' = [file EXCEPT ![OutPath(cur)] = Missing]
    BY DEF RemoveArchive
  <2> QED
    BY <1>1, <2>1, <2>2 DEF FileInv, HasToc, TypeOK
<1>4. TypeOK'
  BY <1>2, <1>3 DEF TypeOK, PoolTypeOK
<1>5. PhaseInv'
  <2>1. /\ mainPc = "merge" /\ ~closing /\ index = "old"
        /\ \A s \in Source : s < cur => task[s] = "done"
        /\ task[cur] = "done"
    BY DEF ControlInv, PhaseInv
  <2>2. \A s \in Source : s <= cur => task[s] = "done"
    BY <1>1, <2>1 DEF Source
  <2>3. CASE cur < NSource
    <3>1. \A s \in Source : s < cur + 1 => s <= cur
      BY <1>1 DEF Source
    <3>2. cur' = cur + 1 /\ mainPc' = "collect"
      BY <2>3
    <3> QED
      BY <2>1, <2>2, <3>1, <3>2 DEF PhaseInv
  <2>4. CASE cur = NSource
    <3>1. \A s \in Source : s <= cur
      BY <2>4, ArchiveAssumption DEF Source
    <3>2. mainPc' = "finalize"
      BY <1>1, <2>4, ArchiveAssumption DEF Source
    <3> QED
      BY <2>1, <2>2, <3>1, <3>2 DEF PhaseInv
  <2> QED
    BY <1>2, <2>3, <2>4
<1>6. StageInv' /\ RunInv' /\ JobInv'
  BY DEF ControlInv, StageInv, RunInv, JobInv
<1> QED
  BY <1>3, <1>4, <1>5, <1>6 DEF ControlInv

LEMMA WriteIndexInv ==
    ASSUME ProjectInv, TruncateIndex \/ WriteIndex
    PROVE  ProjectInv'
BY DEF ProjectInv, TruncateIndex, WriteIndex, MainStep, TypeOK, PoolTypeOK, poolVars,
   procVars, FileInv, HasToc, ControlInv, StageInv, RunInv, PhaseInv, JobInv

-----------------------------------------------------------------------------
(* The threads. *)

LEMMA OutPathType ==
    ASSUME TypeOK, NEW s \in Source
    PROVE  OutPath(s) \in Path
BY ProjectAssumption DEF OutPath

LEMMA StartInv ==
    ASSUME ProjectInv, NEW t \in Thread, NEW s \in Source,
           Queued(s), mainPc # "schedule" \/ s < cur, Start(t, s)
    PROVE  ProjectInv'
<1> USE DEF ProjectInv, Start, poolVars, procVars, mainVars
<1>1. task[s] # "done" /\ task[s] # "running" /\ task[s] # "none"
  BY DEF Queued
<1>2. file' \in [Path -> FileRecord] /\ FileInv'
  <2>1. EmptyBy(NoDaemon) \in FileRecord /\ EmptyBy(NoDaemon).st = "empty"
    BY ProjectAssumption DEF EmptyBy, FileRecord, FileState
  <2>2. file' = file \/ file' = [file EXCEPT ![TempPath[s]] = EmptyBy(NoDaemon)]
    OBVIOUS
  <2> QED
    BY <2>1, <2>2, ProjectAssumption DEF FileInv, HasToc, TypeOK
<1>3. TypeOK'
  BY <1>2 DEF TypeOK, PoolTypeOK
<1>4. StageInv'
  BY DEF ControlInv, StageInv, TypeOK
<1>5. RunInv'
  <2>1. \A u \in Thread : stage[u] # "idle" => runs[u] # s
    BY <1>1 DEF ControlInv, RunInv
  <2> QED
    BY <2>1 DEF ControlInv, RunInv, TypeOK
<1>6. PhaseInv' /\ JobInv'
  BY <1>1 DEF ControlInv, PhaseInv, TypeOK, Source, JobInv
<1> QED
  BY <1>2, <1>3, <1>4, <1>5, <1>6 DEF ControlInv

LEMMA QueuedBehindCur ==
    ASSUME ProjectInv, NEW s \in Source, Queued(s)
    PROVE  mainPc # "schedule" \/ s < cur
BY DEF ProjectInv, ControlInv, PhaseInv, Queued, Source, TypeOK

(* Steps of thread t in its task that touch neither files nor tasks.       *)
LEMMA StageStepInv ==
    ASSUME ProjectInv, PoolTypeOK', NEW t \in Thread, stage[t] # "idle",
           UNCHANGED <<closing, file, incremental, mainVars, task, runs, crashes>>,
           \A u \in Thread : u # t => at'[u] = at[u],
           stage' \in [Thread -> {"idle", "get", "await", "release", "return"}],
           \A u \in Thread : u # t => stage'[u] = stage[u],
           stage'[t] # "idle",
           stage'[t] = "return" => at'[t] = "out",
           stage'[t] = "await" => at'[t] = "using",
           stage'[t] = "release" => at'[t] \in {"using", "putting"},
           stage'[t] = "get" => at'[t] # "putting",
           proc' \in [Daemon -> {"idle", "parsing", "open", "body", "closed",
                                 "dead", "reaped"}],
           job' \in [Daemon -> Source \cup {0}],
           JobInv'
    PROVE  ProjectInv'
<1>1. TypeOK'
  BY DEF ProjectInv, TypeOK, mainVars
<1>2. FileInv'
  BY DEF ProjectInv, FileInv, HasToc
<1>3. StageInv'
  BY DEF ProjectInv, ControlInv, StageInv
<1>4. RunInv'
  BY DEF ProjectInv, ControlInv, RunInv
<1>5. PhaseInv'
  BY DEF ProjectInv, ControlInv, PhaseInv, mainVars
<1> QED
  BY <1>1, <1>2, <1>3, <1>4, <1>5 DEF ProjectInv, ControlInv

LEMMA TaskGetInv ==
    ASSUME ProjectInv, PoolTypeOK', NEW t \in Thread, TaskGet(t)
    PROVE  ProjectInv'
<1>1. at \in [Thread -> PoolPc] /\ UNCHANGED closing
  BY DEF ProjectInv, TypeOK, PoolTypeOK, TaskGet, GetLock, GetBack, GetPop, GetNew
<1>2. at'[t] # "putting" /\ \A u \in Thread : u # t => at'[u] = at[u]
  BY <1>1 DEF TaskGet, GetLock, GetBack, GetPop, GetNew, Acquire, Unlock
<1> QED
  BY <1>1, <1>2, StageStepInv DEF TaskGet, procVars, ProjectInv, TypeOK, JobInv

LEMMA TaskReleaseInv ==
    ASSUME ProjectInv, PoolTypeOK', NEW t \in Thread, TaskRelease(t)
    PROVE  ProjectInv'
<1>1. at \in [Thread -> PoolPc] /\ UNCHANGED closing
  BY DEF ProjectInv, TypeOK, PoolTypeOK, TaskRelease, ReleaseLock, ReleasePush
<1>2. \A u \in Thread : u # t => at'[u] = at[u]
  BY <1>1 DEF TaskRelease, ReleaseLock, ReleasePush, Acquire, Unlock
<1>3. \/ stage' = stage /\ at'[t] = "putting"
      \/ stage' = [stage EXCEPT ![t] = "return"] /\ at'[t] = "out"
  BY <1>1 DEF TaskRelease, ReleaseLock, ReleasePush, Acquire, Unlock
<1>4. stage \in [Thread -> {"idle", "get", "await", "release", "return"}]
      /\ stage[t] = "release"
  BY DEF TaskRelease, ProjectInv, TypeOK
<1>5. UNCHANGED <<file, incremental, mainVars, task, runs, procVars>>
  BY DEF TaskRelease
<1>6. JobInv'
  BY <1>5 DEF procVars, ProjectInv, JobInv
<1>7. /\ stage' \in [Thread -> {"idle", "get", "await", "release", "return"}]
      /\ \A u \in Thread : u # t => stage'[u] = stage[u]
      /\ stage'[t] \in {"release", "return"}
      /\ stage'[t] = "return" => at'[t] = "out"
      /\ stage'[t] = "release" => at'[t] \in {"using", "putting"}
  BY <1>3, <1>4
<1> QED
  BY <1>1, <1>2, <1>4, <1>5, <1>6, <1>7, StageStepInv DEF procVars, ProjectInv, TypeOK

LEMMA RequestInv ==
    ASSUME ProjectInv, NEW t \in Thread, SendRequest(t) \/ AwaitDone(t)
    PROVE  ProjectInv'
<1>1. PoolTypeOK' /\ UNCHANGED <<at, closing>>
  BY DEF ProjectInv, TypeOK, PoolTypeOK, SendRequest, AwaitDone, poolVars
<1>2. at[t] = "using" /\ stage[t] # "idle"
  BY DEF SendRequest, AwaitDone, ProjectInv, ControlInv, StageInv
<1>3. runs[t] \in Source
  BY <1>2 DEF ProjectInv, ControlInv, RunInv
<1>4. \/ stage' = [stage EXCEPT ![t] = "await"]
      \/ stage' = [stage EXCEPT ![t] = "release"]
  BY DEF SendRequest, AwaitDone
<1>5. /\ proc' \in [Daemon -> {"idle", "parsing", "open", "body", "closed",
                               "dead", "reaped"}]
      /\ job' \in [Daemon -> Source \cup {0}]
  BY <1>3 DEF SendRequest, AwaitDone, ProjectInv, TypeOK
<1>6. JobInv'
  BY <1>3 DEF SendRequest, AwaitDone, ProjectInv, TypeOK, JobInv
<1> QED
  BY <1>1, <1>2, <1>4, <1>5, <1>6, StageStepInv
     DEF SendRequest, AwaitDone, ProjectInv, TypeOK

LEMMA SendToDeadInv ==
    ASSUME ProjectInv, NEW t \in Thread, SendToDead(t)
    PROVE  ProjectInv'
<1> USE DEF ProjectInv, SendToDead, Abort, poolVars, procVars
<1>1. \E s \in Source : task[s] # "done"
  BY DEF ControlInv, RunInv
<1>2. index = "old" /\ ~closing
  BY <1>1 DEF ControlInv, PhaseInv
<1>3. TypeOK' /\ FileInv' /\ JobInv'
  BY DEF TypeOK, PoolTypeOK, FileInv, HasToc, JobInv
<1>4. ControlInv'
  BY <1>2 DEF ControlInv, StageInv, RunInv, PhaseInv
<1> QED
  BY <1>3, <1>4

LEMMA FinishTaskInv ==
    ASSUME ProjectInv, NEW t \in Thread, FinishTask(t)
    PROVE  ProjectInv'
<1> USE DEF ProjectInv, FinishTask, poolVars, procVars, mainVars
<1>1. runs[t] \in Source /\ task[runs[t]] = "running" /\ at[t] = "out"
  BY DEF ControlInv, RunInv, StageInv
<1>2. TypeOK' /\ FileInv' /\ JobInv'
  BY <1>1 DEF TypeOK, PoolTypeOK, FileInv, HasToc, JobInv
<1>3. StageInv'
  BY <1>1 DEF ControlInv, StageInv, TypeOK
<1>4. RunInv'
  BY <1>1 DEF ControlInv, RunInv, TypeOK
<1>5. PhaseInv'
  BY <1>1 DEF ControlInv, PhaseInv, TypeOK
<1> QED
  BY <1>2, <1>3, <1>4, <1>5 DEF ControlInv
-----------------------------------------------------------------------------
(* The daemon processes. *)

(* Steps of daemon d in its work that leave a well-typed file behind.      *)
LEMMA DaemonStepInv ==
    ASSUME ProjectInv, NEW d \in Daemon,
           UNCHANGED <<poolVars, incremental, mainVars, task, stage, runs, job>>,
           crashes' \in 0..MaxCrashes,
           proc[d] \in {"parsing", "open", "body"},
           NEW st \in {"open", "body", "closed", "dead"},
           proc' = [proc EXCEPT ![d] = st],
           file' \in [Path -> FileRecord], FileInv'
    PROVE  ProjectInv'
<1> USE DEF ProjectInv, poolVars, mainVars
<1>1. TypeOK'
  BY DEF TypeOK, PoolTypeOK
<1>2. ControlInv'
  BY DEF ControlInv, StageInv, RunInv, PhaseInv
<1>3. JobInv'
  BY DEF JobInv, TypeOK
<1> QED
  BY <1>1, <1>2, <1>3

LEMMA DaemonOpenInv ==
    ASSUME ProjectInv, NEW d \in Daemon, DaemonOpen(d)
    PROVE  ProjectInv'
<1>1. EmptyBy(d) \in FileRecord /\ EmptyBy(d).st = "empty"
  BY ProjectAssumption DEF EmptyBy, FileRecord, FileState
<1>2. file' \in [Path -> FileRecord] /\ FileInv'
  BY <1>1 DEF DaemonOpen, TruncateArchive, ProjectInv, TypeOK, FileInv, HasToc
<1> QED
  BY <1>2, DaemonStepInv DEF DaemonOpen, DaemonStep, ProjectInv, TypeOK

LEMMA MixedType ==
    ASSUME NEW f \in FileRecord
    PROVE  Mixed(f) \in FileRecord /\ Mixed(f).st = "garbage"
BY DEF Mixed, FileRecord, FileState

LEMMA DaemonWriteInv ==
    ASSUME ProjectInv, NEW d \in Daemon, DaemonWrite(d)
    PROVE  ProjectInv'
<1> DEFINE p == OutPath(job[d])
           s == job[d]
<1>1. s \in Source /\ p \in Path /\ file[p] \in FileRecord
  BY OutPathType DEF DaemonWrite, DaemonStep, ProjectInv, JobInv, TypeOK
<1>2. PICK g : /\ file' = [file EXCEPT ![p] = g]
               /\ g = [file[p] EXCEPT !.st = "zeroToc", !.of = s] \/ g = Mixed(file[p])
  BY DEF DaemonWrite, WriteEntries
<1> HIDE DEF p, s
<1>3. g \in FileRecord /\ (g.st \in {"zeroToc", "complete"} => g.of \in Source)
  <2>1. CASE g = [file[p] EXCEPT !.st = "zeroToc", !.of = s]
    BY <1>1, <2>1 DEF FileRecord, FileState
  <2>2. CASE g = Mixed(file[p])
    BY <1>1, <2>2, MixedType
  <2> QED
    BY <1>2, <2>1, <2>2
<1>4. file' \in [Path -> FileRecord] /\ FileInv'
  BY <1>1, <1>2, <1>3 DEF ProjectInv, TypeOK, FileInv, HasToc
<1> QED
  BY <1>4, DaemonStepInv DEF DaemonWrite, DaemonStep, ProjectInv, TypeOK

LEMMA DaemonCloseInv ==
    ASSUME ProjectInv, NEW d \in Daemon, DaemonClose(d)
    PROVE  ProjectInv'
<1> DEFINE p == OutPath(job[d])
<1>1. p \in Path /\ file[p] \in FileRecord
  BY OutPathType DEF DaemonClose, DaemonStep, ProjectInv, JobInv, TypeOK
<1>2. PICK g : /\ file' = [file EXCEPT ![p] = g]
               /\ \/ file[p].st = "zeroToc" /\ g = [file[p] EXCEPT !.st = "complete"]
                  \/ g = Mixed(file[p])
  BY DEF DaemonClose, RewriteToc
<1> HIDE DEF p
<1>3. g \in FileRecord /\ (g.st \in {"zeroToc", "complete"} => g.of \in Source)
  <2>1. CASE file[p].st = "zeroToc" /\ g = [file[p] EXCEPT !.st = "complete"]
    <3>1. file[p].of \in Source
      BY <1>1, <2>1 DEF ProjectInv, FileInv, HasToc
    <3> QED
      BY <1>1, <2>1, <3>1 DEF FileRecord, FileState
  <2>2. CASE g = Mixed(file[p])
    BY <1>1, <2>2, MixedType
  <2> QED
    BY <1>2, <2>1, <2>2
<1>4. file' \in [Path -> FileRecord] /\ FileInv'
  BY <1>1, <1>2, <1>3 DEF ProjectInv, TypeOK, FileInv, HasToc
<1> QED
  BY <1>4, DaemonStepInv DEF DaemonClose, DaemonStep, ProjectInv, TypeOK

LEMMA DaemonDiesInv ==
    ASSUME ProjectInv, NEW d \in Daemon, DaemonDies(d)
    PROVE  ProjectInv'
<1>1. crashes' \in 0..MaxCrashes
  BY ProjectAssumption DEF DaemonDies, ProjectInv, TypeOK
<1>2. file' \in [Path -> FileRecord] /\ FileInv'
  BY DEF DaemonDies, ProjectInv, TypeOK, FileInv, HasToc
<1> QED
  BY <1>1, <1>2, DaemonStepInv DEF DaemonDies
-----------------------------------------------------------------------------
(* ~DaemonPool and the end of the process. *)

LEMMA LeaveInv ==
    ASSUME ProjectInv, PoolTypeOK', BeginDestroy \/ DeleteDaemon \/ Return
    PROVE  ProjectInv'
<1> USE DEF ProjectInv, BeginDestroy, DeleteDaemon, Return, PoolDelete, poolVars,
            procVars, mainVars
<1>1. TypeOK'
  BY DEF TypeOK
<1>2. FileInv' /\ JobInv'
  BY DEF FileInv, HasToc, JobInv, TypeOK
<1>3. StageInv' /\ RunInv'
  BY DEF ControlInv, StageInv, RunInv
<1>4. PhaseInv'
  BY DEF ControlInv, PhaseInv
<1> QED
  BY <1>1, <1>2, <1>3, <1>4 DEF ControlInv

LEMMA UnchangedInv ==
    ASSUME ProjectInv, UNCHANGED vars
    PROVE  ProjectInv'
<1> USE DEF ProjectInv, vars, poolVars, procVars, mainVars
<1>1. TypeOK' /\ FileInv' /\ JobInv'
  BY DEF TypeOK, PoolTypeOK, FileInv, HasToc, JobInv
<1>2. ControlInv'
  BY DEF ControlInv, StageInv, RunInv, PhaseInv
<1> QED
  BY <1>1, <1>2
-----------------------------------------------------------------------------
(* Every step of the pipeline uses the pool as the pool requires, or not   *)
(* at all: while a thread is inside get() or release() its task is not     *)
(* done, and indexProject returns only after it has seen all of them done. *)
LEMMA PoolStep == ProjectInv /\ [Next]_vars => [PoolNext]_poolVars
<1> SUFFICES ASSUME ProjectInv, [Next]_vars PROVE [PoolNext]_poolVars
  OBVIOUS
<1>1. ASSUME NEW t \in Thread, stage[t] # "idle" PROVE ~closing
  <2>1. \E s \in Source : task[s] # "done"
    BY <1>1 DEF ProjectInv, ControlInv, RunInv
  <2> QED
    BY <2>1 DEF ProjectInv, ControlInv, PhaseInv
<1>2. ASSUME NEW t \in Thread, TaskGet(t) \/ TaskRelease(t) PROVE PoolNext
  <2>1. ~closing
    BY <1>1, <1>2 DEF TaskGet, TaskRelease
  <2> QED
    BY <1>2, <2>1 DEF TaskGet, TaskRelease, PoolNext
<1>3. CASE BeginDestroy
  <2>1. \A s \in Source : task[s] = "done"
    BY <1>3 DEF BeginDestroy, ProjectInv, ControlInv, PhaseInv
  <2>2. \A t \in Thread : at[t] = "out"
    BY <2>1 DEF ProjectInv, ControlInv, RunInv, StageInv
  <2> QED
    BY <1>3, <2>2 DEF BeginDestroy, PoolBeginDestroy, PoolNext
<1>4. CASE DeleteDaemon
  BY <1>4 DEF DeleteDaemon, PoolNext
<1>5. CASE ScheduleFails \/ Schedule \/ StealTask \/ OpenResult \/ MergeEntry
           \/ CloseResult \/ TruncateIndex \/ WriteIndex \/ Return
  BY <1>5 DEF ScheduleFails, Schedule, StealTask, Start, OpenResult, MergeEntry,
              CloseResult, TruncateIndex, WriteIndex, Return, MainStep
<1>6. ASSUME NEW t \in Thread,
             StartTask(t) \/ SendRequest(t) \/ SendToDead(t) \/ AwaitDone(t) \/ FinishTask(t)
      PROVE  UNCHANGED poolVars
  BY <1>6 DEF StartTask, Start, SendRequest, SendToDead, AwaitDone, FinishTask
<1>7. ASSUME NEW d \in Daemon, DaemonNext(d) \/ DaemonDies(d)
      PROVE  UNCHANGED poolVars
  BY <1>7 DEF DaemonNext, DaemonOpen, DaemonWrite, DaemonClose, DaemonStep, DaemonDies
<1>8. CASE UNCHANGED vars
  BY <1>8 DEF vars
<1> QED
  BY <1>2, <1>3, <1>4, <1>5, <1>6, <1>7, <1>8 DEF Next, MainNext, ThreadNext, Ended

FullInv == ProjectInv /\ PoolInv

LEMMA ProjectStepInv ==
    ASSUME ProjectInv, PoolTypeOK', [Next]_vars
    PROVE  ProjectInv'
<1>1. CASE ScheduleFails \/ Schedule
  BY <1>1, ScheduleFailsInv, ScheduleInv
<1>2. CASE StealTask
  <2>1. cur \in Source /\ MainThread \in Thread
    BY ProjectAssumption DEF ProjectInv, TypeOK
  <2> QED
    BY <1>2, <2>1, QueuedBehindCur, StartInv DEF StealTask
<1>3. CASE OpenResult \/ MergeEntry \/ CloseResult \/ TruncateIndex \/ WriteIndex
  BY <1>3, OpenResultInv, MergeEntryInv, CloseResultInv, WriteIndexInv
<1>4. CASE BeginDestroy \/ DeleteDaemon \/ Return
  BY <1>4, LeaveInv
<1>5. ASSUME NEW t \in Thread, StartTask(t) PROVE ProjectInv'
  BY <1>5, QueuedBehindCur, StartInv DEF StartTask, Oldest
<1>6. ASSUME NEW t \in Thread, TaskGet(t) \/ TaskRelease(t) PROVE ProjectInv'
  BY <1>6, TaskGetInv, TaskReleaseInv
<1>7. ASSUME NEW t \in Thread,
             SendRequest(t) \/ SendToDead(t) \/ AwaitDone(t) \/ FinishTask(t)
      PROVE  ProjectInv'
  BY <1>7, RequestInv, SendToDeadInv, FinishTaskInv
<1>8. ASSUME NEW d \in Daemon, DaemonNext(d) \/ DaemonDies(d) PROVE ProjectInv'
  BY <1>8, DaemonOpenInv, DaemonWriteInv, DaemonCloseInv, DaemonDiesInv DEF DaemonNext
<1>9. CASE UNCHANGED vars
  BY <1>9, UnchangedInv
<1> QED
  BY <1>1, <1>2, <1>3, <1>4, <1>5, <1>6, <1>7, <1>8, <1>9
     DEF Next, MainNext, ThreadNext, Ended

LEMMA ProjectNextInv == FullInv /\ [Next]_vars => FullInv'
<1> SUFFICES ASSUME ProjectInv, PoolInv, [Next]_vars PROVE ProjectInv' /\ PoolInv'
  BY DEF FullInv
<1>1. PoolInv'
  BY PoolStep, PoolNextInv
<1>2. PoolTypeOK'
  BY <1>1 DEF PoolInv
<1> QED
  BY <1>1, <1>2, ProjectStepInv

LEMMA FullInitInv == Init => FullInv
BY ProjectInitInv, PoolInitInv DEF FullInv, Init

LEMMA ProjectInvariance == Spec => []FullInv
BY FullInitInv, ProjectNextInv, PTL DEF Spec

(* The pipeline's variables keep their types; in particular an entry that  *)
(* is merged is an entry of some source (main.cc:289-353).                 *)
THEOREM ProjectTypeCorrect == Spec => []TypeOK
<1>1. FullInv => TypeOK
  BY DEF FullInv, ProjectInv
<1> QED
  BY <1>1, ProjectInvariance, PTL

(* The indexing threads and indexProject use the daemon pool as            *)
(* DaemonPool.cc requires: get() and release() are never called, and no    *)
(* daemon is out, once ~DaemonPool has started.                            *)
THEOREM ProjectImplementsPool == Spec => PoolSpec
<1>1. Init => PoolInit
  BY DEF Init
<1>2. FullInv /\ [Next]_vars => [PoolNext]_poolVars
  BY PoolStep DEF FullInv
<1> QED
  BY <1>1, <1>2, ProjectInvariance, PTL DEF Spec, PoolSpec

(* So no daemon is driven by two tasks, whatever the number of compile     *)
(* commands and threads.                                                   *)
THEOREM ProjectOneOwner == Spec => []OneOwner
BY ProjectImplementsPool, PoolOneOwner, PTL

(* No daemon process is lost or used after its deletion.                   *)
THEOREM ProjectNoLostDaemon == Spec => []NoLostDaemon
BY ProjectImplementsPool, PoolNoLostDaemon, PTL

(* No more daemon processes than threads, whatever the number of sources.  *)
THEOREM ProjectPoolBound == Spec => []PoolBound
BY ProjectImplementsPool, PoolBounded, PTL

(* A run that fails, in whatever way, has not touched the previous index,  *)
(* and the index is only touched when every task is done.                  *)
THEOREM ProjectOldIndexKept == Spec => []OldIndexKept
<1>1. FullInv => OldIndexKept
  BY DEF FullInv, ProjectInv, ControlInv, PhaseInv, OldIndexKept
<1> QED
  BY <1>1, ProjectInvariance, PTL

-----------------------------------------------------------------------------
(* THE FILES AND THE DAEMONS' WORK. *)
(* A waiting thread's daemon has that thread's source.                     *)
AwaitInv == \A t \in Thread : stage[t] = "await" =>
    job[held[t]] = runs[t] /\ proc[held[t]] \in Working \cup {"dead"}

WorkInv == RequestsMatch /\ AwaitInv

LEMMA OwnerOfDaemon ==
    ASSUME FullInv, NEW t \in Thread, at[t] \in {"using", "putting"}
    PROVE  /\ held[t] \in Daemon
           /\ \A u \in Thread : at[u] \in {"using", "putting"} /\ held[u] = held[t] => u = t
BY DEF FullInv, PoolInv, HeldInv, OneOwner, Owns

LEMMA IdleAtTheEnd ==
    ASSUME FullInv, mainPc \in {"finalize", "write", "leave", "done"}
    PROVE  \A t \in Thread : stage[t] = "idle"
BY DEF FullInv, ProjectInv, ControlInv, RunInv, PhaseInv

LEMMA WorkStart ==
    ASSUME FullInv, WorkInv, NEW t \in Thread, NEW s \in Source, Start(t, s)
    PROVE  WorkInv'
<1>1. /\ stage[t] = "idle" /\ stage'[t] # "await"
      /\ \A u \in Thread : u # t => stage'[u] = stage[u] /\ runs'[u] = runs[u]
  BY DEF Start, FullInv, ProjectInv, TypeOK
<1>2. UNCHANGED <<at, held, proc, job>>
  BY DEF Start, poolVars, procVars
<1> QED
  BY <1>1, <1>2 DEF WorkInv, RequestsMatch, AwaitInv, Owns

(* Steps of a thread inside get() or release().                            *)
LEMMA WorkPool ==
    ASSUME FullInv, WorkInv, NEW t \in Thread, TaskGet(t) \/ TaskRelease(t)
    PROVE  WorkInv'
<1>1. /\ stage[t] # "await" /\ stage'[t] # "await" /\ UNCHANGED <<runs, proc, job>>
      /\ \A u \in Thread : u # t => stage'[u] = stage[u]
  BY DEF TaskGet, TaskRelease, procVars, FullInv, ProjectInv, TypeOK
<1>2. \A u \in Thread : u # t => at'[u] = at[u] /\ held'[u] = held[u]
  BY DEF TaskGet, TaskRelease, GetLock, GetBack, GetPop, GetNew, ReleaseLock, ReleasePush,
         Acquire, Unlock, FullInv, ProjectInv, TypeOK, PoolTypeOK
<1> QED
  BY <1>1, <1>2 DEF WorkInv, RequestsMatch, AwaitInv, Owns

LEMMA WorkSend ==
    ASSUME FullInv, WorkInv, NEW t \in Thread, SendRequest(t)
    PROVE  WorkInv'
<1>1. /\ at[t] = "using" /\ stage[t] # "await" /\ UNCHANGED <<at, held, runs>>
      /\ stage' = [stage EXCEPT ![t] = "await"]
      /\ proc' = [proc EXCEPT ![held[t]] = "parsing"]
      /\ job' = [job EXCEPT ![held[t]] = runs[t]]
  BY DEF SendRequest, poolVars
<1>2. /\ held[t] \in Daemon
      /\ \A u \in Thread : at[u] \in {"using", "putting"} /\ held[u] = held[t] => u = t
  BY <1>1, OwnerOfDaemon
<1>3. \A u \in Thread : stage[u] = "await" => at[u] = "using"
  BY DEF FullInv, ProjectInv, ControlInv, StageInv
<1>4. stage \in [Thread -> {"idle", "get", "await", "release", "return"}]
      /\ proc \in [Daemon -> {"idle", "parsing", "open", "body", "closed", "dead", "reaped"}]
      /\ job \in [Daemon -> Source \cup {0}]
  BY DEF FullInv, ProjectInv, TypeOK
<1>5. RequestsMatch'
  BY <1>1, <1>2, <1>4 DEF WorkInv, RequestsMatch, Owns
<1>6. AwaitInv'
  <2>1. ASSUME NEW u \in Thread, u # t, stage[u] = "await"
        PROVE  held[u] \in Daemon /\ held[u] # held[t]
    BY <1>2, <1>3, <2>1, OwnerOfDaemon
  <2> QED
    BY <1>1, <1>2, <1>4, <2>1 DEF WorkInv, AwaitInv, Working
<1> QED
  BY <1>5, <1>6 DEF WorkInv

LEMMA WorkAwait ==
    ASSUME FullInv, WorkInv, NEW t \in Thread, AwaitDone(t)
    PROVE  WorkInv'
<1>1. /\ stage[t] = "await" /\ UNCHANGED <<at, held, runs>>
      /\ stage' = [stage EXCEPT ![t] = "release"]
      /\ \/ proc' = [proc EXCEPT ![held[t]] = "idle"]
         \/ proc[held[t]] = "dead" /\ proc' = proc
      /\ job' = [job EXCEPT ![held[t]] = 0]
  BY DEF AwaitDone, poolVars, FullInv, ProjectInv, TypeOK
<1>2. /\ held[t] \in Daemon
      /\ \A u \in Thread : at[u] \in {"using", "putting"} /\ held[u] = held[t] => u = t
  BY <1>1, OwnerOfDaemon DEF FullInv, ProjectInv, ControlInv, StageInv
<1>3. \A u \in Thread : stage[u] = "await" => at[u] = "using"
  BY DEF FullInv, ProjectInv, ControlInv, StageInv
<1>4. stage \in [Thread -> {"idle", "get", "await", "release", "return"}]
      /\ proc \in [Daemon -> {"idle", "parsing", "open", "body", "closed", "dead", "reaped"}]
      /\ job \in [Daemon -> Source \cup {0}]
  BY DEF FullInv, ProjectInv, TypeOK
<1>5. ASSUME NEW u \in Thread, u # t, stage[u] = "await"
      PROVE  held[u] \in Daemon /\ held[u] # held[t]
  BY <1>2, <1>3, <1>5, OwnerOfDaemon
<1>6. RequestsMatch'
  <2> SUFFICES ASSUME NEW d \in Daemon, proc'[d] \in Working
               PROVE  \E u \in Thread : Owns(u, d)' /\ stage'[u] = "await" /\ runs'[u] = job'[d]
    BY DEF RequestsMatch
  <2>1. d # held[t] /\ proc[d] \in Working
    BY <1>1, <1>2, <1>4 DEF Working
  <2>2. PICK u \in Thread : Owns(u, d) /\ stage[u] = "await" /\ runs[u] = job[d]
    BY <2>1 DEF WorkInv, RequestsMatch
  <2>3. u # t
    BY <2>1, <2>2 DEF Owns
  <2> QED
    BY <1>1, <1>4, <2>1, <2>2, <2>3 DEF Owns
<1>7. AwaitInv'
  BY <1>1, <1>2, <1>4, <1>5 DEF WorkInv, AwaitInv, Working
<1> QED
  BY <1>6, <1>7 DEF WorkInv

(* A daemon at work goes on or dies.                                       *)
LEMMA WorkDaemon ==
    ASSUME FullInv, WorkInv, NEW d \in Daemon, DaemonNext(d) \/ DaemonDies(d)
    PROVE  WorkInv'
<1>1. /\ UNCHANGED <<at, held, stage, runs, job>>
      /\ proc[d] \in Working
      /\ \E st \in Working \cup {"dead"} : proc' = [proc EXCEPT ![d] = st]
  BY DEF DaemonNext, DaemonOpen, DaemonWrite, DaemonClose, DaemonStep, DaemonDies, poolVars, Working
<1>2. proc \in [Daemon -> {"idle", "parsing", "open", "body", "closed", "dead", "reaped"}]
  BY DEF FullInv, ProjectInv, TypeOK
<1>3. RequestsMatch'
  BY <1>1, <1>2 DEF WorkInv, RequestsMatch, Owns
<1>4. AwaitInv'
  BY <1>1, <1>2 DEF WorkInv, AwaitInv
<1> QED
  BY <1>3, <1>4 DEF WorkInv

LEMMA WorkDelete ==
    ASSUME FullInv, WorkInv, DeleteDaemon
    PROVE  WorkInv'
<1>1. \A t \in Thread : stage[t] = "idle"
  BY IdleAtTheEnd DEF DeleteDaemon
<1>2. \A d \in Daemon : proc[d] \notin Working
  BY <1>1 DEF WorkInv, RequestsMatch
<1>3. stage' = stage /\ \E d : proc' = [proc EXCEPT ![d] = "reaped"]
  BY DEF DeleteDaemon
<1>4. proc \in [Daemon -> {"idle", "parsing", "open", "body", "closed", "dead", "reaped"}]
  BY DEF FullInv, ProjectInv, TypeOK
<1>5. \A d \in Daemon : proc'[d] \notin Working
  BY <1>2, <1>3, <1>4 DEF Working
<1> QED
  BY <1>1, <1>3, <1>5 DEF WorkInv, RequestsMatch, AwaitInv

LEMMA WorkNextInv == FullInv /\ WorkInv /\ [Next]_vars => WorkInv'
<1> SUFFICES ASSUME FullInv, WorkInv, [Next]_vars PROVE WorkInv'
  OBVIOUS
<1>1. CASE UNCHANGED <<at, held, stage, runs, proc, job>>
  BY <1>1 DEF WorkInv, RequestsMatch, AwaitInv, Owns
<1>2. CASE StealTask
  BY <1>2, WorkStart, ProjectAssumption DEF StealTask, FullInv, ProjectInv, TypeOK
<1>3. ASSUME NEW t \in Thread, StartTask(t) PROVE WorkInv'
  BY <1>3, WorkStart DEF StartTask
<1>4. ASSUME NEW t \in Thread, TaskGet(t) \/ TaskRelease(t) \/ SendRequest(t) \/ AwaitDone(t)
      PROVE  WorkInv'
  BY <1>4, WorkPool, WorkSend, WorkAwait
<1>5. ASSUME NEW t \in Thread, FinishTask(t) PROVE WorkInv'
  <2>1. /\ stage[t] # "await" /\ stage'[t] # "await"
        /\ \A u \in Thread : u # t => stage'[u] = stage[u] /\ runs'[u] = runs[u]
        /\ UNCHANGED <<at, held, proc, job>>
    BY <1>5 DEF FinishTask, poolVars, procVars, FullInv, ProjectInv, TypeOK
  <2> QED
    BY <2>1 DEF WorkInv, RequestsMatch, AwaitInv, Owns
<1>6. ASSUME NEW d \in Daemon, DaemonNext(d) \/ DaemonDies(d) PROVE WorkInv'
  BY <1>6, WorkDaemon
<1>7. CASE DeleteDaemon
  BY <1>7, WorkDelete
<1>8. CASE ScheduleFails \/ Schedule \/ OpenResult \/ MergeEntry \/ CloseResult \/ TruncateIndex
           \/ WriteIndex \/ BeginDestroy \/ Return \/ \E t \in Thread : SendToDead(t)
  BY <1>1, <1>8 DEF ScheduleFails, Schedule, OpenResult, MergeEntry, CloseResult, TruncateIndex,
     WriteIndex, BeginDestroy, Return, SendToDead, MainStep, poolVars, procVars
<1>9. CASE UNCHANGED vars
  BY <1>1, <1>9 DEF vars, poolVars, procVars
<1> QED
  BY <1>2, <1>3, <1>4, <1>5, <1>6, <1>7, <1>8, <1>9 DEF Next, MainNext, ThreadNext, Ended

LEMMA WorkInitInv == Init => WorkInv
BY DEF Init, WorkInv, RequestsMatch, AwaitInv, Working

LEMMA WorkInvariance == Spec => []WorkInv
BY ProjectInvariance, WorkInitInv, WorkNextInv, PTL DEF Spec

(* A daemon works only for the thread that waits for it, on that thread's  *)
(* source: no "DONE" line answers another request (DaemonPool.cc:32-58),   *)
(* however many threads, sources and dying daemons there are.              *)
THEOREM ProjectRequestsMatch == Spec => []RequestsMatch
<1>1. WorkInv => RequestsMatch
  BY DEF WorkInv
<1> QED
  BY <1>1, WorkInvariance, PTL
-----------------------------------------------------------------------------
(* THE FILES, when every compile command has an idx file of its own.  Two  *)
(* commands can share one, and then a run can fail: the README's findings  *)
(* show it, and it is why this is a hypothesis here.                       *)
DistinctPaths == \A r, s \in Source : IdxPath[r] = IdxPath[s] => r = s

(* The file that the task of s writes or reuses.                           *)
Result(s) == file[OutPath(s)]

(* Daemon d, and nobody else, has written f, of the archive of s, so far.  *)
Wrote(d, f, st, s) ==
    f.st = st /\ f.by = d /\ f.fresh /\ (st # "empty" => f.of = s)

WritingInv == \A d \in Daemon :
    /\ proc[d] = "open" => Wrote(d, Result(job[d]), "empty", job[d])
    /\ proc[d] = "body" => Wrote(d, Result(job[d]), "zeroToc", job[d])
    /\ proc[d] = "closed" => Wrote(d, Result(job[d]), "complete", job[d])

SomeDead == \E d \in Daemon : proc[d] = "dead"

(* Nobody but the task of s writes its file, and what this run writes is   *)
(* fresh.                                                                  *)
OwnFile(s) == HasToc(OutPath(s)) =>
    Result(s).of = s /\ (Result(s).fresh \/ (incremental /\ Result(s).by = NoDaemon))

(* A current archive: finished, or left unfinished by an earlier run.      *)
Current(s) ==
    /\ HasToc(OutPath(s)) /\ Result(s).fresh
    /\ Result(s).st = "complete" \/ (incremental /\ Result(s).by = NoDaemon)

(* The main thread has merged the archive of s.                            *)
Closed(s) == \/ mainPc \in {"collect", "merge"} /\ s < cur
             \/ mainPc \in {"finalize", "write", "leave", "done"}

(* The file of s against the future of s.                                  *)
SourceInv(s) ==
    /\ OwnFile(s)
    /\ incremental => file[TempPath[s]] = Missing
    /\ task[s] \in {"none", "index"} =>
          IF incremental THEN Result(s).by = NoDaemon ELSE Result(s) = Missing
    /\ task[s] = "reuse" => Current(s)
    /\ \A t \in Thread : stage[t] \in {"release", "return"} /\ runs[t] = s =>
          Current(s) \/ SomeDead
    /\ task[s] = "done" /\ mainPc # "aborted" /\ ~Closed(s) => Current(s) \/ SomeDead
    /\ Closed(s) /\ ~incremental => Result(s) = Missing

ReadInv == mainPc = "merge" => HasToc(OutPath(cur)) /\ toc = TocOf(Result(cur))

EndInv == /\ mainPc = "done" => m_daemons = <<>>
          /\ SomeDead => crashes > 0

FilesInv ==
    /\ WritingInv
    /\ \A s \in Source : SourceInv(s)
    /\ ReadInv /\ EndInv
    /\ AbortHasCause

(* Everything the pipeline keeps true, the files included.                 *)
AllInv == FullInv /\ WorkInv /\ FilesInv
-----------------------------------------------------------------------------
LEMMA PathsApart ==
    ASSUME DistinctPaths, NEW r \in Source, NEW s \in Source
    PROVE  /\ OutPath(r) = OutPath(s) => r = s
           /\ incremental => OutPath(r) # TempPath[s]
           /\ OutPath(r) = TempPath[s] => r = s
           /\ OutPath(r) \in Path
BY ProjectAssumption DEF DistinctPaths, OutPath

(* A step that does not touch the file or the task of s.                   *)
LEMMA SourceKept ==
    ASSUME NEW s \in Source, SourceInv(s), UNCHANGED incremental,
           file'[OutPath(s)] = file[OutPath(s)], file'[TempPath[s]] = file[TempPath[s]],
           task'[s] = task[s],
           \A t \in Thread : stage'[t] \in {"release", "return"} /\ runs'[t] = s =>
               stage[t] \in {"release", "return"} /\ runs[t] = s,
           SomeDead => SomeDead',
           mainPc' # "aborted" => mainPc # "aborted" /\ (Closed(s)' <=> Closed(s))
    PROVE  SourceInv(s)'
<1>1. OutPath(s)' = OutPath(s) /\ Result(s)' = Result(s) /\ HasToc(OutPath(s))' = HasToc(OutPath(s))
  BY DEF OutPath, Result, HasToc
<1>2. Current(s)' = Current(s) /\ OwnFile(s)' = OwnFile(s)
  BY <1>1 DEF Current, OwnFile
<1>3. Closed(s)' => mainPc' # "aborted"
  BY DEF Closed
<1> QED
  BY <1>1, <1>2, <1>3 DEF SourceInv

(* A step that touches no file and no daemon.                              *)
LEMMA WritingKept ==
    ASSUME WritingInv, UNCHANGED <<file, incremental, proc, job>>
    PROVE  WritingInv' /\ SomeDead' = SomeDead
BY DEF WritingInv, Result, OutPath, SomeDead

(* The daemon at work on s: the only one, for a task that is running.      *)
LEMMA AtWork ==
    ASSUME FullInv, WorkInv, NEW d \in Daemon, proc[d] \in Working
    PROVE  /\ job[d] \in Source
           /\ task[job[d]] = "running"
           /\ ~Closed(job[d])
           /\ ~(mainPc = "merge" /\ cur = job[d])
           /\ \A t \in Thread : stage[t] \in {"release", "return"} => runs[t] # job[d]
           /\ \A e \in Daemon : proc[e] \in Working /\ job[e] = job[d] => e = d
<1>1. PICK t \in Thread : Owns(t, d) /\ stage[t] = "await" /\ runs[t] = job[d]
  BY DEF WorkInv, RequestsMatch
<1>2. job[d] \in Source /\ task[job[d]] = "running"
      /\ \A u \in Thread : stage[u] # "idle" /\ runs[u] = job[d] => u = t
  BY <1>1 DEF FullInv, ProjectInv, ControlInv, RunInv
<1>3. ~Closed(job[d]) /\ ~(mainPc = "merge" /\ cur = job[d])
  BY <1>2 DEF FullInv, ProjectInv, ControlInv, PhaseInv, Closed
<1>4. \A u \in Thread : stage[u] \in {"release", "return"} => runs[u] # job[d]
  BY <1>1, <1>2
<1>5. ASSUME NEW e \in Daemon, proc[e] \in Working, job[e] = job[d] PROVE e = d
  <2>1. PICK u \in Thread : Owns(u, e) /\ stage[u] = "await" /\ runs[u] = job[e]
    BY <1>5 DEF WorkInv, RequestsMatch
  <2>2. u = t
    BY <1>2, <1>5, <2>1
  <2> QED
    BY <1>1, <2>1, <2>2 DEF Owns
<1> QED
  BY <1>2, <1>3, <1>4, <1>5
-----------------------------------------------------------------------------
LEMMA FilesInit ==
    ASSUME DistinctPaths, Init
    PROVE  FilesInv
<1>1. /\ mainPc = "schedule" /\ task = [s \in Source |-> "none"] /\ cur = 1
      /\ stage = [t \in Thread |-> "idle"] /\ proc = [d \in Daemon |-> "idle"]
  BY DEF Init
<1>2. PICK left \in [Source -> UNION {LeftOver(s) : s \in Source}] :
          /\ \A s \in Source : left[s] \in LeftOver(s)
          /\ ~incremental => \A s \in Source : left[s] = Missing
          /\ file = [p \in Path |->
                IF \E s \in Source : IdxPath[s] = p
                THEN left[CHOOSE s \in Source : IdxPath[s] = p]
                ELSE Missing]
  BY DEF Init
<1>3. ASSUME NEW s \in Source
      PROVE  /\ file[IdxPath[s]] = left[s] /\ left[s] \in LeftOver(s)
             /\ file[TempPath[s]] = Missing
  <2>1. IdxPath[s] \in Path /\ TempPath[s] \in Path /\ \A r \in Source : IdxPath[r] # TempPath[s]
    BY ProjectAssumption
  <2>2. (CHOOSE r \in Source : IdxPath[r] = IdxPath[s]) = s
    BY DEF DistinctPaths
  <2> QED
    BY <1>2, <2>1, <2>2
<1>4. ASSUME NEW s \in Source PROVE SourceInv(s)
  <2>1. Result(s).by = NoDaemon /\ (Result(s).st \in {"zeroToc", "complete"} => Result(s).of = s)
    <3>1. Result(s) = Missing \/ (incremental /\ Result(s) \in LeftOver(s))
      BY <1>2, <1>3 DEF Result, OutPath
    <3> QED
      BY <3>1, ProjectAssumption DEF LeftOver, Missing, EmptyBy
  <2>2. ~incremental => Result(s) = Missing
    BY <1>3 DEF Result, OutPath
  <2>3. ~incremental => ~HasToc(OutPath(s))
    BY <2>2 DEF Result, HasToc, Missing
  <2> QED
    BY <1>1, <1>3, <2>1, <2>2, <2>3 DEF SourceInv, OwnFile, Closed, Result, HasToc
<1>5. WritingInv /\ ~SomeDead
  BY <1>1 DEF WritingInv, SomeDead
<1> QED
  BY <1>1, <1>4, <1>5 DEF FilesInv, ReadInv, EndInv, AbortHasCause
-----------------------------------------------------------------------------
(* The main thread. *)

LEMMA FilesScheduleFails ==
    ASSUME AllInv, ScheduleFails
    PROVE  FilesInv'
<1>1. /\ mainPc = "schedule" /\ mainPc' = "aborted" /\ incremental
      /\ UNCHANGED <<file, incremental, proc, job, task, stage, runs, crashes>>
      /\ ~HasToc(OutPath(cur)) /\ file[OutPath(cur)].st # "missing"
  BY DEF ScheduleFails, Abort, procVars
<1>2. cur \in Source /\ task[cur] = "none" /\ file[OutPath(cur)] \in FileRecord
  BY <1>1, OutPathType DEF AllInv, FullInv, ProjectInv, TypeOK, ControlInv, PhaseInv, Source
<1>3. WritingInv' /\ SomeDead' = SomeDead
  BY <1>1, WritingKept DEF AllInv, FilesInv
<1>4. \A s \in Source : SourceInv(s)'
  BY <1>1, <1>3, SourceKept DEF AllInv, FilesInv
<1>5. Damaged(file[IdxPath[cur]]) /\ file[IdxPath[cur]].by = NoDaemon
  BY <1>1, <1>2 DEF AllInv, FilesInv, SourceInv, Result, OutPath, Damaged, HasToc,
     FileRecord, FileState
<1>6. AbortHasCause'
  BY <1>1, <1>2, <1>5 DEF AbortHasCause, Damaged
<1> QED
  BY <1>1, <1>3, <1>4, <1>6 DEF AllInv, FilesInv, ReadInv, EndInv

LEMMA FilesSchedule ==
    ASSUME AllInv, Schedule
    PROVE  FilesInv'
<1>1. /\ mainPc = "schedule" /\ mainPc' \in {"schedule", "collect"} /\ cur \in Source
      /\ mainPc' = "collect" => cur' = 1
      /\ UNCHANGED <<file, incremental, proc, job, stage, runs, crashes>>
      /\ task' = [task EXCEPT ![cur] = IF CanReuse(cur) THEN "reuse" ELSE "index"]
      /\ task \in [Source -> {"none", "reuse", "index", "running", "done"}]
  BY NextSourceType DEF Schedule, procVars, AllInv, FullInv, ProjectInv, TypeOK
<1>2. task[cur] = "none"
  BY <1>1 DEF AllInv, FullInv, ProjectInv, ControlInv, PhaseInv, Source
<1>3. WritingInv' /\ SomeDead' = SomeDead
  BY <1>1, WritingKept DEF AllInv, FilesInv
<1>4. \A s \in Source : ~Closed(s) /\ ~Closed(s)'
  BY <1>1 DEF Closed, Source
<1>5. ASSUME NEW s \in Source PROVE SourceInv(s)'
  <2>1. CASE s # cur
    BY <1>1, <1>3, <1>4, <2>1, SourceKept DEF AllInv, FilesInv
  <2>2. CASE s = cur
    <3>1. SourceInv(s)
      BY DEF AllInv, FilesInv
    <3>2. CanReuse(s) => Current(s)
      BY <1>2, <2>2, <3>1 DEF SourceInv, CanReuse, Current, Result
    <3>3. Current(s)' = Current(s) /\ OwnFile(s)' = OwnFile(s) /\ Result(s)' = Result(s)
      BY <1>1 DEF Current, OwnFile, Result, HasToc, OutPath
    <3>4. task'[s] \in {"reuse", "index"} /\ (task'[s] = "reuse" => CanReuse(s))
      BY <1>1, <2>2
    <3> QED
      BY <1>1, <1>2, <1>3, <1>4, <2>2, <3>1, <3>2, <3>3, <3>4 DEF SourceInv
  <2> QED
    BY <2>1, <2>2
<1> QED
  BY <1>1, <1>3, <1>5 DEF AllInv, FilesInv, ReadInv, EndInv, AbortHasCause

(* Steps of the main thread that touch no file and do not end the loop.    *)
LEMMA FilesOpenResult ==
    ASSUME AllInv, OpenResult
    PROVE  FilesInv'
<1>1. /\ mainPc = "collect" /\ cur \in Source /\ task[cur] = "done"
      /\ UNCHANGED <<file, incremental, cur, proc, job, task, stage, runs, crashes>>
      /\ \/ HasToc(OutPath(cur)) /\ mainPc' = "merge" /\ toc' = TocOf(file[OutPath(cur)])
         \/ ~HasToc(OutPath(cur)) /\ mainPc' = "aborted"
  BY DEF OpenResult, Abort, MainStep, procVars, AllInv, FullInv, ProjectInv, TypeOK
<1>2. WritingInv' /\ SomeDead' = SomeDead
  BY <1>1, WritingKept DEF AllInv, FilesInv
<1>3. \A s \in Source : SourceInv(s)'
  BY <1>1, <1>2, SourceKept DEF AllInv, FilesInv, Closed
<1>4. ReadInv'
  BY <1>1 DEF ReadInv, Result, OutPath, HasToc
<1>5. AbortHasCause'
  <2>1. ~Closed(cur)
    BY <1>1 DEF Closed, Source
  <2>2. Current(cur) \/ SomeDead
    BY <1>1, <2>1 DEF AllInv, FilesInv, SourceInv
  <2> QED
    BY <1>1, <1>2, <2>2 DEF AbortHasCause, Current, SomeDead
<1> QED
  BY <1>1, <1>2, <1>3, <1>4, <1>5 DEF AllInv, FilesInv, EndInv

LEMMA FilesMergeEntry ==
    ASSUME AllInv, MergeEntry
    PROVE  FilesInv'
<1>1. /\ mainPc = "merge" /\ cur \in Source
      /\ UNCHANGED <<file, incremental, cur, toc, proc, job, task, stage, runs, crashes>>
      /\ \/ mainPc' = "merge"
         \/ ~CanOpenEntry(OutPath(cur), toc) /\ mainPc' = "aborted"
  <2>0. AlreadyMerged(toc[entry]) \in BOOLEAN /\ CanOpenEntry(OutPath(cur), toc) \in BOOLEAN
    BY DEF AlreadyMerged, CanOpenEntry
  <2>1. /\ mainPc = "merge" /\ cur \in Source
        /\ UNCHANGED <<file, incremental, proc, job, task, stage, runs, crashes>>
    BY DEF MergeEntry, MainStep, procVars, AllInv, FullInv, ProjectInv, TypeOK
  <2>2. CASE AlreadyMerged(toc[entry])
    BY <2>0, <2>1, <2>2 DEF MergeEntry
  <2>3. CASE ~AlreadyMerged(toc[entry]) /\ CanOpenEntry(OutPath(cur), toc)
    BY <2>0, <2>1, <2>3 DEF MergeEntry
  <2>4. CASE ~AlreadyMerged(toc[entry]) /\ ~CanOpenEntry(OutPath(cur), toc)
    BY <2>0, <2>1, <2>4 DEF MergeEntry, Abort
  <2> QED
    BY <2>0, <2>2, <2>3, <2>4
<1>2. WritingInv' /\ SomeDead' = SomeDead
  BY <1>1, WritingKept DEF AllInv, FilesInv
<1>3. \A s \in Source : SourceInv(s)'
  BY <1>1, <1>2, SourceKept DEF AllInv, FilesInv, Closed
<1>4. ReadInv'
  BY <1>1 DEF AllInv, FilesInv, ReadInv, Result, OutPath, HasToc
<1>5. AbortHasCause'
  <2>1. ~Closed(cur) /\ task[cur] = "done"
    BY <1>1 DEF Closed, Source, AllInv, FullInv, ProjectInv, ControlInv, PhaseInv
  <2>2. Current(cur) \/ SomeDead
    BY <1>1, <2>1 DEF AllInv, FilesInv, SourceInv
  <2>3. Result(cur).st = "complete" => CanOpenEntry(OutPath(cur), toc)
    BY <1>1 DEF AllInv, FilesInv, ReadInv, TocOf, Result, CanOpenEntry
  <2>4. SUFFICES ASSUME mainPc' = "aborted", Current(cur), Result(cur).st # "complete"
                 PROVE  AbortHasCause'
    BY <1>1, <1>2, <2>2, <2>3 DEF AbortHasCause, SomeDead
  <2>5. /\ incremental /\ Damaged(file[IdxPath[cur]]) /\ file[IdxPath[cur]].by = NoDaemon
    BY <2>4 DEF Current, Result, OutPath, Damaged, HasToc
  <2> QED
    BY <1>1, <2>5 DEF AbortHasCause, Damaged
<1> QED
  BY <1>1, <1>2, <1>3, <1>4, <1>5 DEF AllInv, FilesInv, EndInv

LEMMA FilesCloseResult ==
    ASSUME DistinctPaths, AllInv, CloseResult
    PROVE  FilesInv'
<1>1. /\ mainPc = "merge" /\ cur \in Source /\ task[cur] = "done"
      /\ UNCHANGED <<incremental, proc, job, task, stage, runs, crashes>>
      /\ file' = IF incremental THEN file ELSE [file EXCEPT ![OutPath(cur)] = Missing]
      /\ \/ cur < NSource /\ cur' = cur + 1 /\ mainPc' = "collect"
         \/ cur = NSource /\ mainPc' = "finalize"
      /\ file \in [Path -> FileRecord]
  BY ArchiveAssumption DEF CloseResult, RemoveArchive, MainStep, procVars, AllInv, FullInv,
     ProjectInv, TypeOK, ControlInv, PhaseInv, Source
<1>2. \A s \in Source : s # cur => file'[OutPath(s)] = file[OutPath(s)]
                                   /\ file'[TempPath[s]] = file[TempPath[s]]
  BY <1>1, PathsApart
<1>3. WritingInv'
  <2>1. ASSUME NEW d \in Daemon, proc[d] \in Working PROVE Result(job[d])' = Result(job[d])
    BY <1>1, <1>2, <2>1, AtWork DEF AllInv, Result, OutPath
  <2> QED
    BY <1>1, <2>1 DEF AllInv, FilesInv, WritingInv, Working
<1>4. SomeDead' = SomeDead
  BY <1>1 DEF SomeDead
<1>5. \A s \in Source : Closed(s)' <=> (Closed(s) \/ s = cur)
  BY <1>1, ArchiveAssumption DEF Closed, Source
<1>6. ASSUME NEW s \in Source PROVE SourceInv(s)'
  <2>1. CASE s # cur
    BY <1>1, <1>2, <1>4, <1>5, <2>1, SourceKept DEF AllInv, FilesInv
  <2>2. CASE s = cur
    <3>1. SourceInv(s) /\ OutPath(s)' = OutPath(s) /\ OutPath(s) \in Path
      BY <1>1, PathsApart DEF AllInv, FilesInv, OutPath
    <3>2. \A t \in Thread : stage[t] \in {"release", "return"} => runs[t] # s
      BY <1>1, <2>2 DEF AllInv, FullInv, ProjectInv, ControlInv, RunInv
    <3>3. CASE incremental
      <4>1. OwnFile(s)' /\ file'[TempPath[s]] = Missing
        BY <1>1, <3>1, <3>3 DEF SourceInv, OwnFile, Result, HasToc, OutPath
      <4> QED
        BY <1>1, <1>5, <2>2, <3>2, <3>3, <4>1 DEF SourceInv
    <3>4. CASE ~incremental
      <4>1. Result(s)' = Missing /\ OwnFile(s)'
        BY <1>1, <2>2, <3>1, <3>4 DEF Result, OwnFile, HasToc, Missing
      <4> QED
        BY <1>1, <1>5, <2>2, <3>2, <3>4, <4>1 DEF SourceInv
    <3> QED
      BY <1>1, <3>3, <3>4 DEF AllInv, FullInv, ProjectInv, TypeOK
  <2> QED
    BY <2>1, <2>2
<1> QED
  BY <1>1, <1>3, <1>4, <1>6 DEF AllInv, FilesInv, ReadInv, EndInv, AbortHasCause

LEMMA FilesWriteIndex ==
    ASSUME AllInv, TruncateIndex \/ WriteIndex \/ BeginDestroy \/ Return
    PROVE  FilesInv'
<1>1. /\ mainPc \in {"finalize", "write", "leave"} /\ mainPc' \in {"write", "leave", "done"}
      /\ mainPc' = "done" => m_daemons' = <<>>
      /\ UNCHANGED <<file, incremental, proc, job, task, stage, runs, crashes>>
  BY DEF TruncateIndex, WriteIndex, BeginDestroy, Return, MainStep, mainVars, procVars, poolVars
<1>2. WritingInv' /\ SomeDead' = SomeDead
  BY <1>1, WritingKept DEF AllInv, FilesInv
<1>3. \A s \in Source : SourceInv(s)'
  BY <1>1, <1>2, SourceKept DEF AllInv, FilesInv, Closed
<1> QED
  BY <1>1, <1>2, <1>3 DEF AllInv, FilesInv, ReadInv, EndInv, AbortHasCause

LEMMA FilesDelete ==
    ASSUME AllInv, DeleteDaemon
    PROVE  FilesInv'
<1>1. /\ mainPc = "leave" /\ proc \in [Daemon -> {"idle", "parsing", "open", "body", "closed",
                                                  "dead", "reaped"}]
      /\ UNCHANGED <<file, incremental, mainPc, cur, job, task, stage, runs, crashes>>
      /\ \E d : proc' = [proc EXCEPT ![d] = "reaped"]
  BY DEF DeleteDaemon, mainVars, AllInv, FullInv, ProjectInv, TypeOK
<1>2. \A d \in Daemon : proc'[d] = proc[d] \/ proc'[d] = "reaped"
  BY <1>1
<1>3. WritingInv' /\ (SomeDead' => SomeDead)
  BY <1>1, <1>2 DEF AllInv, FilesInv, WritingInv, SomeDead, Result, OutPath
<1>4. \A t \in Thread : stage[t] = "idle"
  BY <1>1, IdleAtTheEnd DEF AllInv
<1>5. ASSUME NEW s \in Source PROVE SourceInv(s)'
  <2>1. SourceInv(s) /\ Closed(s) /\ Closed(s)' /\ task[s] = "done"
    BY <1>1 DEF AllInv, FilesInv, Closed, FullInv, ProjectInv, ControlInv, PhaseInv
  <2>2. OwnFile(s)' = OwnFile(s) /\ Result(s)' = Result(s)
    BY <1>1 DEF OwnFile, Result, HasToc, OutPath
  <2> QED
    BY <1>1, <1>4, <2>1, <2>2 DEF SourceInv
<1> QED
  BY <1>1, <1>3, <1>5 DEF AllInv, FilesInv, ReadInv, EndInv, AbortHasCause
-----------------------------------------------------------------------------
(* The threads. *)

LEMMA FilesStart ==
    ASSUME DistinctPaths, AllInv, NEW t \in Thread, NEW s \in Source, Queued(s),
           Alive, Start(t, s)
    PROVE  FilesInv'
<1>1. /\ stage[t] = "idle" /\ task[s] \in {"reuse", "index"}
      /\ runs' = [runs EXCEPT ![t] = s] /\ task' = [task EXCEPT ![s] = "running"]
      /\ stage' = [stage EXCEPT ![t] = IF task[s] = "reuse" THEN "return" ELSE "get"]
      /\ file' = IF task[s] = "index" /\ ~incremental
                 THEN [file EXCEPT ![TempPath[s]] = EmptyBy(NoDaemon)] ELSE file
      /\ UNCHANGED <<m_daemons, incremental, mainPc, cur, toc, proc, job, crashes>>
      /\ mainPc # "aborted" /\ mainPc # "done"
  BY DEF Start, Queued, poolVars, procVars, mainVars, Alive
<1>2. /\ task \in [Source -> {"none", "reuse", "index", "running", "done"}]
      /\ stage \in [Thread -> {"idle", "get", "await", "release", "return"}]
      /\ runs \in [Thread -> Source \cup {0}]
      /\ file \in [Path -> FileRecord] /\ incremental \in BOOLEAN /\ TempPath[s] \in Path
      /\ cur \in Source
  BY ProjectAssumption DEF AllInv, FullInv, ProjectInv, TypeOK
<1>3. ASSUME NEW r \in Source, r # s
      PROVE  file'[OutPath(r)] = file[OutPath(r)] /\ file'[TempPath[r]] = file[TempPath[r]]
  BY <1>1, <1>2, <1>3, PathsApart, ProjectAssumption
<1>4. task[s] = "reuse" \/ incremental => file' = file
  BY <1>1
<1>5. \A d \in Daemon : proc[d] \in Working => job[d] \in Source /\ job[d] # s
  BY <1>1, AtWork DEF AllInv
<1>6. WritingInv' /\ SomeDead' = SomeDead
  <2>1. \A d \in Daemon : proc[d] \in Working => Result(job[d])' = Result(job[d])
    BY <1>1, <1>3, <1>5 DEF Result, OutPath
  <2> QED
    BY <1>1, <2>1 DEF AllInv, FilesInv, WritingInv, SomeDead, Working
<1>7. \A r \in Source : Closed(r)' <=> Closed(r)
  BY <1>1 DEF Closed
<1>8. ASSUME NEW r \in Source PROVE SourceInv(r)'
  <2>1. CASE r # s
    <3>1. \A u \in Thread : stage'[u] \in {"release", "return"} /\ runs'[u] = r =>
             stage[u] \in {"release", "return"} /\ runs[u] = r
      BY <1>1, <1>2, <2>1
    <3> QED
      BY <1>1, <1>2, <1>3, <1>6, <1>7, <2>1, <3>1, SourceKept DEF AllInv, FilesInv
  <2>2. CASE r = s
    <3>1. SourceInv(s) /\ OutPath(s)' = OutPath(s) /\ task'[s] = "running" /\ ~Closed(s)'
      BY <1>1, <1>2, <1>7, <2>2
         DEF AllInv, FilesInv, OutPath, Closed, FullInv, ProjectInv, ControlInv, PhaseInv
    <3>2. \A u \in Thread : stage'[u] \in {"release", "return"} /\ runs'[u] = s =>
              u = t /\ task[s] = "reuse"
      BY <1>1, <1>2 DEF AllInv, FullInv, ProjectInv, ControlInv, RunInv
    <3>3. CASE task[s] = "reuse" \/ incremental
      <4>1. file' = file
        BY <1>4, <3>3
      <4>2. OwnFile(s)' = OwnFile(s) /\ Current(s)' = Current(s)
        BY <1>1, <3>1, <4>1 DEF OwnFile, Current, Result, HasToc, OutPath
      <4> QED
        BY <1>1, <1>6, <2>2, <3>1, <3>2, <4>1, <4>2 DEF SourceInv
    <3>4. CASE task[s] = "index" /\ ~incremental
      <4>1. ~HasToc(OutPath(s))'
        BY <1>1, <1>2, <3>1, <3>4 DEF HasToc, OutPath, EmptyBy
      <4>2. OwnFile(s)'
        BY <4>1 DEF OwnFile
      <4> QED
        BY <1>1, <2>2, <3>1, <3>2, <3>4, <4>2 DEF SourceInv
    <3> QED
      BY <1>1, <1>2, <3>3, <3>4
  <2> QED
    BY <2>1, <2>2
<1>9. ReadInv'
  <2> SUFFICES ASSUME mainPc = "merge" PROVE ReadInv'
    BY <1>1 DEF ReadInv
  <2>1. cur # s
    BY <1>1 DEF AllInv, FullInv, ProjectInv, ControlInv, PhaseInv
  <2>2. file'[OutPath(cur)] = file[OutPath(cur)]
    BY <1>2, <1>3, <2>1
  <2>3. Result(cur)' = Result(cur) /\ HasToc(OutPath(cur))' = HasToc(OutPath(cur))
    BY <1>1, <2>2 DEF Result, HasToc, OutPath
  <2>4. TocOf(Result(cur))' = TocOf(Result(cur))
    BY <2>3 DEF TocOf, Entries
  <2> QED
    BY <1>1, <2>3, <2>4 DEF AllInv, FilesInv, ReadInv
<1> QED
  BY <1>1, <1>6, <1>8, <1>9 DEF AllInv, FilesInv, EndInv, AbortHasCause

(* Steps of thread t that touch no file, no task and no finished daemon.   *)
LEMMA FilesThreadKept ==
    ASSUME AllInv, NEW t \in Thread,
           UNCHANGED <<file, incremental, mainPc, cur, toc, task, runs, crashes>>,
           mainPc # "aborted", mainPc # "done",
           WritingInv', SomeDead' = SomeDead,
           \A u \in Thread : u # t => stage'[u] = stage[u],
           stage'[t] \in {"release", "return"} =>
              stage[t] \in {"release", "return"} \/ Current(runs[t]) \/ SomeDead
    PROVE  FilesInv'
<1>1. ASSUME NEW s \in Source PROVE SourceInv(s)'
  <2>1. SourceInv(s) /\ Closed(s)' = Closed(s)
    BY DEF AllInv, FilesInv, Closed
  <2>2. OwnFile(s)' = OwnFile(s) /\ Current(s)' = Current(s) /\ Result(s)' = Result(s)
    BY DEF OwnFile, Current, Result, HasToc, OutPath
  <2>3. ASSUME NEW u \in Thread, stage'[u] \in {"release", "return"}, runs'[u] = s
        PROVE  Current(s) \/ SomeDead
    BY <2>1, <2>3 DEF SourceInv
  <2> QED
    BY <2>1, <2>2, <2>3 DEF SourceInv
<1>2. ReadInv'
  BY DEF AllInv, FilesInv, ReadInv, Result, HasToc, OutPath
<1> QED
  BY <1>1, <1>2 DEF AllInv, FilesInv, EndInv, AbortHasCause

LEMMA FilesTaskPool ==
    ASSUME AllInv, NEW t \in Thread, TaskGet(t) \/ TaskRelease(t)
    PROVE  FilesInv'
<1>1. /\ UNCHANGED <<file, incremental, mainPc, cur, toc, task, runs, proc, job, crashes>>
      /\ mainPc # "aborted" /\ mainPc # "done"
      /\ \A u \in Thread : u # t => stage'[u] = stage[u]
      /\ stage'[t] \in {"release", "return"} => stage[t] \in {"release", "return"}
  BY DEF TaskGet, TaskRelease, mainVars, procVars, Alive, AllInv, FullInv, ProjectInv, TypeOK
<1>2. WritingInv' /\ SomeDead' = SomeDead
  BY <1>1, WritingKept DEF AllInv, FilesInv
<1> QED
  BY <1>1, <1>2, FilesThreadKept

LEMMA FilesSendRequest ==
    ASSUME AllInv, NEW t \in Thread, SendRequest(t)
    PROVE  FilesInv'
<1>1. /\ UNCHANGED <<file, incremental, mainPc, cur, toc, task, runs, crashes>>
      /\ mainPc # "aborted" /\ mainPc # "done"
      /\ stage' = [stage EXCEPT ![t] = "await"]
      /\ proc[held[t]] # "dead" /\ proc' = [proc EXCEPT ![held[t]] = "parsing"]
      /\ job' = [job EXCEPT ![held[t]] = runs[t]]
      /\ held[t] \in Daemon
  BY DEF SendRequest, mainVars, Alive, AllInv, FullInv, PoolInv, HeldInv
<1>2. /\ stage \in [Thread -> {"idle", "get", "await", "release", "return"}]
      /\ proc \in [Daemon -> {"idle", "parsing", "open", "body", "closed", "dead", "reaped"}]
      /\ job \in [Daemon -> Source \cup {0}]
  BY DEF AllInv, FullInv, ProjectInv, TypeOK
<1>3. WritingInv'
  <2> SUFFICES ASSUME NEW d \in Daemon, proc'[d] \in {"open", "body", "closed"}
               PROVE  proc'[d] = proc[d] /\ job'[d] = job[d]
    BY <1>1 DEF AllInv, FilesInv, WritingInv, Result, OutPath
  <2> QED
    BY <1>1, <1>2
<1>4. SomeDead' = SomeDead
  BY <1>1, <1>2 DEF SomeDead
<1>5. /\ \A u \in Thread : u # t => stage'[u] = stage[u]
      /\ stage'[t] \notin {"release", "return"}
  BY <1>1, <1>2
<1> QED
  BY <1>1, <1>3, <1>4, <1>5, FilesThreadKept

LEMMA FilesAwaitDone ==
    ASSUME AllInv, NEW t \in Thread, AwaitDone(t)
    PROVE  FilesInv'
<1> DEFINE d == held[t]
<1>1. /\ UNCHANGED <<file, incremental, mainPc, cur, toc, task, runs, crashes>>
      /\ mainPc # "aborted" /\ mainPc # "done"
      /\ stage[t] = "await" /\ stage' = [stage EXCEPT ![t] = "release"]
      /\ proc[d] \in {"closed", "dead"}
      /\ proc' = [proc EXCEPT ![d] = IF proc[d] = "closed" THEN "idle" ELSE proc[d]]
      /\ job' = [job EXCEPT ![d] = 0]
  BY DEF AwaitDone, mainVars, Alive
<1>2. d \in Daemon /\ job[d] = runs[t]
  BY <1>1, OwnerOfDaemon DEF AllInv, WorkInv, AwaitInv, FullInv, ProjectInv, ControlInv, StageInv
<1>3. /\ stage \in [Thread -> {"idle", "get", "await", "release", "return"}]
      /\ proc \in [Daemon -> {"idle", "parsing", "open", "body", "closed", "dead", "reaped"}]
      /\ job \in [Daemon -> Source \cup {0}]
  BY DEF AllInv, FullInv, ProjectInv, TypeOK
<1> HIDE DEF d
<1>4. WritingInv'
  <2> SUFFICES ASSUME NEW e \in Daemon, proc'[e] \in {"open", "body", "closed"}
               PROVE  proc'[e] = proc[e] /\ job'[e] = job[e]
    BY <1>1 DEF AllInv, FilesInv, WritingInv, Result, OutPath
  <2> QED
    BY <1>1, <1>2, <1>3
<1>5. SomeDead' = SomeDead
  BY <1>1, <1>2, <1>3 DEF SomeDead
<1>6. Current(runs[t]) \/ SomeDead
  <2>1. CASE proc[d] = "closed"
    <3>1. Wrote(d, Result(job[d]), "complete", job[d])
      BY <1>2, <2>1 DEF AllInv, FilesInv, WritingInv
    <3> QED
      BY <1>2, <3>1 DEF Current, Wrote, HasToc, Result
  <2>2. CASE proc[d] = "dead"
    BY <1>2, <2>2 DEF SomeDead
  <2> QED
    BY <1>1, <2>1, <2>2
<1>7. \A u \in Thread : u # t => stage'[u] = stage[u]
  BY <1>1, <1>3
<1> QED
  BY <1>1, <1>4, <1>5, <1>6, <1>7, FilesThreadKept

LEMMA FilesSendToDead ==
    ASSUME AllInv, NEW t \in Thread, SendToDead(t)
    PROVE  FilesInv'
<1>1. /\ UNCHANGED <<file, incremental, proc, job, task, stage, runs, crashes>>
      /\ mainPc' = "aborted" /\ proc[held[t]] = "dead" /\ held[t] \in Daemon
  BY DEF SendToDead, Abort, procVars, AllInv, FullInv, PoolInv, HeldInv
<1>2. WritingInv' /\ SomeDead' = SomeDead
  BY <1>1, WritingKept DEF AllInv, FilesInv
<1>3. \A s \in Source : SourceInv(s)'
  BY <1>1, <1>2, SourceKept DEF AllInv, FilesInv
<1>4. AbortHasCause'
  BY <1>1 DEF AbortHasCause
<1> QED
  BY <1>1, <1>2, <1>3, <1>4 DEF AllInv, FilesInv, ReadInv, EndInv

LEMMA FilesFinishTask ==
    ASSUME AllInv, NEW t \in Thread, FinishTask(t)
    PROVE  FilesInv'
<1>1. /\ UNCHANGED <<file, incremental, mainPc, cur, toc, proc, job, crashes, m_daemons>>
      /\ mainPc # "aborted" /\ mainPc # "done"
      /\ stage[t] = "return" /\ stage' = [stage EXCEPT ![t] = "idle"]
      /\ runs' = [runs EXCEPT ![t] = 0] /\ task' = [task EXCEPT ![runs[t]] = "done"]
  BY DEF FinishTask, mainVars, procVars, poolVars, Alive
<1>2. /\ task \in [Source -> {"none", "reuse", "index", "running", "done"}]
      /\ stage \in [Thread -> {"idle", "get", "await", "release", "return"}]
      /\ runs \in [Thread -> Source \cup {0}]
      /\ runs[t] \in Source /\ task[runs[t]] = "running"
      /\ \A u \in Thread : stage[u] # "idle" /\ runs[u] = runs[t] => u = t
  BY <1>1 DEF AllInv, FullInv, ProjectInv, TypeOK, ControlInv, RunInv
<1>3. WritingInv' /\ SomeDead' = SomeDead
  BY <1>1, WritingKept DEF AllInv, FilesInv
<1>4. \A s \in Source : Closed(s)' <=> Closed(s)
  BY <1>1 DEF Closed
<1>5. \A u \in Thread : stage'[u] \in {"release", "return"} =>
          u # t /\ stage[u] = stage'[u] /\ runs[u] = runs'[u]
  BY <1>1, <1>2
<1>6. ASSUME NEW s \in Source PROVE SourceInv(s)'
  <2>1. CASE s # runs[t]
    BY <1>1, <1>2, <1>3, <1>4, <1>5, <2>1, SourceKept DEF AllInv, FilesInv
  <2>2. CASE s = runs[t]
    <3>1. SourceInv(s) /\ task'[s] = "done" /\ ~Closed(s)
      BY <1>1, <1>2, <2>2 DEF AllInv, FilesInv, Closed, FullInv, ProjectInv, ControlInv, PhaseInv
    <3>2. OwnFile(s)' = OwnFile(s) /\ Current(s)' = Current(s)
      BY <1>1 DEF OwnFile, Current, Result, HasToc, OutPath
    <3>3. Current(s) \/ SomeDead
      BY <1>1, <2>2, <3>1 DEF SourceInv
    <3> QED
      BY <1>1, <1>3, <1>4, <3>1, <3>2, <3>3 DEF SourceInv
  <2> QED
    BY <2>1, <2>2
<1>7. ReadInv'
  BY <1>1 DEF AllInv, FilesInv, ReadInv, Result, HasToc, OutPath
<1> QED
  BY <1>1, <1>3, <1>6, <1>7 DEF AllInv, FilesInv, EndInv, AbortHasCause
-----------------------------------------------------------------------------
(* The daemon processes. *)

(* Daemon d writes its own file, or dies over it.                          *)
LEMMA FilesDaemon ==
    ASSUME DistinctPaths, AllInv, NEW d \in Daemon, proc[d] \in Working,
           UNCHANGED <<m_daemons, incremental, mainPc, cur, toc, task, stage, runs, job>>,
           mainPc # "aborted", mainPc # "done",
           NEW st \in {"open", "body", "closed", "dead"}, proc' = [proc EXCEPT ![d] = st],
           (crashes' = crashes /\ st # "dead") \/ crashes' = crashes + 1,
           NEW f, file' = [file EXCEPT ![OutPath(job[d])] = f],
           st = "open" => Wrote(d, f, "empty", job[d]),
           st = "body" => Wrote(d, f, "zeroToc", job[d]),
           st = "closed" => Wrote(d, f, "complete", job[d]),
           st = "dead" => f = file[OutPath(job[d])]
    PROVE  FilesInv'
<1>0. PICK s : s = job[d]
  OBVIOUS
<1>1. /\ s \in Source /\ task[s] = "running" /\ ~Closed(s) /\ ~(mainPc = "merge" /\ cur = s)
      /\ \A t \in Thread : stage[t] \in {"release", "return"} => runs[t] # s
      /\ \A e \in Daemon : proc[e] \in Working /\ job[e] = s => e = d
  BY <1>0, AtWork DEF AllInv
<1>2. /\ proc \in [Daemon -> {"idle", "parsing", "open", "body", "closed", "dead", "reaped"}]
      /\ file \in [Path -> FileRecord] /\ cur \in Source /\ crashes \in Nat
      /\ OutPath(s) \in Path
  BY <1>1, OutPathType DEF AllInv, FullInv, ProjectInv, TypeOK
<1>3. ASSUME NEW r \in Source, r # s
      PROVE  file'[OutPath(r)] = file[OutPath(r)] /\ file'[TempPath[r]] = file[TempPath[r]]
  BY <1>1, <1>2, <1>3, PathsApart, <1>0
<1>4. file'[OutPath(s)] = f /\ \A r \in Source : OutPath(r)' = OutPath(r)
  BY <1>0, <1>2 DEF OutPath
<1>5. WritingInv'
  <2> SUFFICES ASSUME NEW e \in Daemon, proc'[e] \in {"open", "body", "closed"}
               PROVE  /\ proc'[e] = "open" => Wrote(e, Result(job[e])', "empty", job[e])
                      /\ proc'[e] = "body" => Wrote(e, Result(job[e])', "zeroToc", job[e])
                      /\ proc'[e] = "closed" => Wrote(e, Result(job[e])', "complete", job[e])
    BY DEF WritingInv
  <2>1. CASE e = d
    BY <1>0, <1>1, <1>2, <1>4, <2>1 DEF Result
  <2>2. CASE e # d
    <3>1. proc'[e] = proc[e] /\ proc[e] \in Working
      BY <1>2, <2>2 DEF Working
    <3>2. job[e] # s /\ job[e] \in Source
      BY <1>1, <2>2, <3>1, AtWork DEF AllInv
    <3>3. Result(job[e])' = Result(job[e])
      BY <1>3, <1>4, <3>2 DEF Result
    <3> QED
      BY <3>1, <3>3 DEF AllInv, FilesInv, WritingInv
  <2> QED
    BY <2>1, <2>2
<1>6. SomeDead => SomeDead'
  BY <1>2 DEF SomeDead, Working
<1>7. \A r \in Source : Closed(r)' <=> Closed(r)
  BY DEF Closed
<1>8. ASSUME NEW r \in Source PROVE SourceInv(r)'
  <2>1. CASE r # s
    BY <1>3, <1>6, <1>7, <2>1, SourceKept DEF AllInv, FilesInv
  <2>2. CASE r = s
    <3>1. SourceInv(s)
      BY <1>1 DEF AllInv, FilesInv
    <3>2. OwnFile(s)'
      <4>1. CASE st = "dead"
        BY <1>0, <1>1, <1>4, <3>1, <4>1 DEF SourceInv, OwnFile, Result, HasToc
      <4>2. CASE st # "dead"
        <5>1. f.st \in {"zeroToc", "complete"} => f.of = s /\ f.fresh
          BY <1>0, <4>2 DEF Wrote
        <5> QED
          BY <1>1, <1>4, <5>1 DEF OwnFile, Result, HasToc
      <4> QED
        BY <4>1, <4>2
    <3>3. incremental => file'[TempPath[s]] = Missing
      BY <1>0, <1>1, <1>2, <3>1, PathsApart DEF SourceInv
    <3> QED
      BY <1>1, <1>7, <2>2, <3>2, <3>3 DEF SourceInv
  <2> QED
    BY <2>1, <2>2
<1>9. ReadInv'
  <2> SUFFICES ASSUME mainPc = "merge" PROVE ReadInv'
    BY DEF ReadInv
  <2>1. Result(cur)' = Result(cur) /\ HasToc(OutPath(cur))' = HasToc(OutPath(cur))
    BY <1>1, <1>2, <1>3, <1>4 DEF Result, HasToc
  <2>2. TocOf(Result(cur))' = TocOf(Result(cur))
    BY <2>1 DEF TocOf, Entries
  <2> QED
    BY <2>1, <2>2 DEF AllInv, FilesInv, ReadInv
<1>10. EndInv'
  <2>1. SomeDead' => SomeDead \/ st = "dead"
    BY <1>2 DEF SomeDead
  <2>2. SomeDead => crashes > 0
    BY DEF AllInv, FilesInv, EndInv
  <2> QED
    BY <1>2, <2>1, <2>2 DEF EndInv
<1> QED
  BY <1>5, <1>8, <1>9, <1>10 DEF FilesInv, AbortHasCause

LEMMA FilesDaemonNext ==
    ASSUME DistinctPaths, AllInv, NEW d \in Daemon, DaemonNext(d) \/ DaemonDies(d)
    PROVE  FilesInv'
<1> DEFINE p == OutPath(job[d])
<1>1. /\ proc[d] \in Working /\ mainPc # "aborted" /\ mainPc # "done"
      /\ UNCHANGED <<m_daemons, incremental, mainPc, cur, toc, task, stage, runs, job>>
      /\ file[p] \in FileRecord
  BY AtWork, OutPathType DEF DaemonNext, DaemonOpen, DaemonWrite, DaemonClose, DaemonStep,
     DaemonDies, Working, poolVars, mainVars, Alive, AllInv, FullInv, ProjectInv, TypeOK
<1>2. CASE DaemonOpen(d)
  <2>1. /\ proc' = [proc EXCEPT ![d] = "open"] /\ crashes' = crashes
        /\ file' = [file EXCEPT ![p] = EmptyBy(d)]
    BY <1>2 DEF DaemonOpen, DaemonStep, TruncateArchive
  <2>2. Wrote(d, EmptyBy(d), "empty", job[d])
    BY DEF Wrote, EmptyBy
  <2> QED
    BY <1>1, <2>1, <2>2, FilesDaemon
<1>3. CASE DaemonWrite(d)
  <2>1. /\ proc[d] = "open" /\ proc' = [proc EXCEPT ![d] = "body"] /\ crashes' = crashes
        /\ file' = [file EXCEPT ![p] = IF file[p].by = d /\ file[p].st = "empty"
                                       THEN [file[p] EXCEPT !.st = "zeroToc", !.of = job[d]]
                                       ELSE Mixed(file[p])]
    BY <1>3 DEF DaemonWrite, DaemonStep, WriteEntries
  <2>2. Wrote(d, file[p], "empty", job[d])
    BY <2>1 DEF AllInv, FilesInv, WritingInv, Result
  <2>3. PICK f : f = [file[p] EXCEPT !.st = "zeroToc", !.of = job[d]]
    OBVIOUS
  <2>4. Wrote(d, f, "zeroToc", job[d])
    BY <1>1, <2>2, <2>3 DEF Wrote, FileRecord
  <2>5. file' = [file EXCEPT ![p] = f]
    BY <2>1, <2>2, <2>3 DEF Wrote
  <2> QED
    BY <1>1, <2>1, <2>4, <2>5, FilesDaemon
<1>4. CASE DaemonClose(d)
  <2>1. /\ proc[d] = "body" /\ proc' = [proc EXCEPT ![d] = "closed"] /\ crashes' = crashes
        /\ file' = [file EXCEPT ![p] = IF file[p].by = d /\ file[p].st = "zeroToc"
                                       THEN [file[p] EXCEPT !.st = "complete"]
                                       ELSE Mixed(file[p])]
    BY <1>4 DEF DaemonClose, DaemonStep, RewriteToc
  <2>2. Wrote(d, file[p], "zeroToc", job[d])
    BY <2>1 DEF AllInv, FilesInv, WritingInv, Result
  <2>3. PICK f : f = [file[p] EXCEPT !.st = "complete"]
    OBVIOUS
  <2>4. Wrote(d, f, "complete", job[d])
    BY <1>1, <2>2, <2>3 DEF Wrote, FileRecord
  <2>5. file' = [file EXCEPT ![p] = f]
    BY <2>1, <2>2, <2>3 DEF Wrote
  <2> QED
    BY <1>1, <2>1, <2>4, <2>5, FilesDaemon
<1>5. CASE DaemonDies(d)
  <2>1. /\ proc' = [proc EXCEPT ![d] = "dead"] /\ crashes' = crashes + 1 /\ file' = file
    BY <1>5 DEF DaemonDies
  <2>2. file' = [file EXCEPT ![p] = file[p]]
    BY <2>1 DEF AllInv, FullInv, ProjectInv, TypeOK
  <2> QED
    BY <1>1, <2>1, <2>2, FilesDaemon
<1> QED
  BY <1>2, <1>3, <1>4, <1>5 DEF DaemonNext

LEMMA FilesNextInv ==
    ASSUME DistinctPaths
    PROVE  AllInv /\ [Next]_vars => FilesInv'
<1> SUFFICES ASSUME AllInv, [Next]_vars PROVE FilesInv'
  OBVIOUS
<1>1. CASE StealTask
  <2>1. cur \in Source /\ MainThread \in Thread
    BY ProjectAssumption DEF AllInv, FullInv, ProjectInv, TypeOK
  <2> QED
    BY <1>1, <2>1, FilesStart DEF StealTask, Alive
<1>2. ASSUME NEW t \in Thread, StartTask(t) PROVE FilesInv'
  BY <1>2, FilesStart DEF StartTask, Oldest
<1>3. CASE ScheduleFails \/ Schedule \/ OpenResult \/ MergeEntry \/ CloseResult
  BY <1>3, FilesScheduleFails, FilesSchedule, FilesOpenResult, FilesMergeEntry, FilesCloseResult
<1>4. CASE TruncateIndex \/ WriteIndex \/ BeginDestroy \/ DeleteDaemon \/ Return
  BY <1>4, FilesWriteIndex, FilesDelete
<1>5. ASSUME NEW t \in Thread, TaskGet(t) \/ TaskRelease(t) PROVE FilesInv'
  BY <1>5, FilesTaskPool
<1>6. ASSUME NEW t \in Thread, SendRequest(t) \/ SendToDead(t) \/ AwaitDone(t) \/ FinishTask(t)
      PROVE  FilesInv'
  BY <1>6, FilesSendRequest, FilesSendToDead, FilesAwaitDone, FilesFinishTask
<1>7. ASSUME NEW d \in Daemon, DaemonNext(d) \/ DaemonDies(d) PROVE FilesInv'
  BY <1>7, FilesDaemonNext
<1>8. CASE UNCHANGED vars
  <2>1. UNCHANGED <<file, incremental, mainPc, cur, toc, m_daemons, proc, job, task, stage,
                    runs, crashes>>
    BY <1>8 DEF vars, poolVars, mainVars, procVars
  <2>2. WritingInv' /\ SomeDead' = SomeDead
    BY <2>1, WritingKept DEF AllInv, FilesInv
  <2>3. \A s \in Source : SourceInv(s)'
    BY <2>1, <2>2, SourceKept DEF AllInv, FilesInv, Closed
  <2>4. ReadInv'
    BY <2>1 DEF AllInv, FilesInv, ReadInv, Result, HasToc, OutPath
  <2>5. AbortHasCause'
    BY <2>1 DEF AllInv, FilesInv, AbortHasCause, Damaged
  <2> QED
    BY <2>1, <2>2, <2>3, <2>4, <2>5 DEF AllInv, FilesInv, EndInv
<1> QED
  BY <1>1, <1>2, <1>3, <1>4, <1>5, <1>6, <1>7, <1>8 DEF Next, MainNext, ThreadNext, Ended

LEMMA AllInvariance ==
    ASSUME DistinctPaths
    PROVE  Spec => []AllInv
<1>1. Init => AllInv
  BY FullInitInv, WorkInitInv, FilesInit DEF AllInv
<1>2. AllInv /\ [Next]_vars => AllInv'
  BY ProjectNextInv, WorkNextInv, FilesNextInv DEF AllInv
<1> QED
  BY <1>1, <1>2, PTL DEF Spec

(* While indexProject merges an archive no daemon writes it and its table  *)
(* of contents is still the one that was read (main.cc:289-353), whatever  *)
(* the number of threads and of daemons that die.                          *)
THEOREM ProjectNoTornRead ==
    ASSUME DistinctPaths
    PROVE  Spec => []NoTornRead
<1>1. AllInv => NoTornRead
  <2> SUFFICES ASSUME AllInv, mainPc = "merge" PROVE NoTornRead
    BY DEF NoTornRead
  <2>1. TocOf(file[OutPath(cur)]) = toc /\ cur \in Source
    BY DEF AllInv, FilesInv, ReadInv, Result, FullInv, ProjectInv, TypeOK
  <2>2. \A d \in Daemon : proc[d] \in Working => OutPath(job[d]) # OutPath(cur)
    BY <2>1, AtWork, PathsApart DEF AllInv
  <2> QED
    BY <2>1, <2>2 DEF NoTornRead, Working
<1> QED
  BY <1>1, AllInvariance, PTL

(* A run fails only because a daemon died or an earlier run was cut short  *)
(* (the assertions of FileIo.cc:384 and 418 and SIGPIPE), never because of *)
(* the order in which its threads and daemons ran.                         *)
THEOREM ProjectAbortHasCause ==
    ASSUME DistinctPaths
    PROVE  Spec => []AbortHasCause
<1>1. AllInv => AbortHasCause
  BY DEF AllInv, FilesInv
<1> QED
  BY <1>1, AllInvariance, PTL

(* A run that ends has reaped every daemon it started and removed every    *)
(* temporary idx file (main.cc:344-352, DaemonPool.cc:66-72).              *)
THEOREM ProjectNothingLeftBehind ==
    ASSUME DistinctPaths
    PROVE  Spec => []NothingLeftBehind
<1>1. AllInv => NothingLeftBehind
  <2> SUFFICES ASSUME AllInv, mainPc = "done"
               PROVE  made = {} /\ \A s \in Source : file[TempPath[s]] = Missing
    BY DEF NothingLeftBehind
  <2>1. \A t \in Thread : at[t] = "out"
    BY IdleAtTheEnd DEF AllInv, FullInv, ProjectInv, ControlInv, StageInv
  <2>2. m_daemons = <<>>
    BY DEF AllInv, FilesInv, EndInv
  <2>3. Pooled = {}
    BY <2>2 DEF Pooled
  <2>4. made = {}
    BY <2>1, <2>3 DEF AllInv, FullInv, PoolInv, NoLostDaemon, Owns
  <2>5. ASSUME NEW s \in Source PROVE file[TempPath[s]] = Missing
    BY DEF AllInv, FilesInv, SourceInv, Closed, Result, OutPath
  <2> QED
    BY <2>4, <2>5
<1> QED
  BY <1>1, AllInvariance, PTL
-----------------------------------------------------------------------------
(* THE MERGE ORDER. *)

(* A run that merges only what is current: an incremental one that lost a  *)
(* daemon may be left with the file of an older version.                   *)
Reliable == incremental => crashes = 0

(* What has been merged, against where the loop is.                        *)
ProgressInv ==
    /\ mainPc = "schedule" => merged = <<>>
    /\ mainPc = "collect" => MergedFirst(Len(merged)) = MetBefore(cur, 1)
    /\ mainPc = "merge" =>
          /\ entry <= Len(NewEntry[cur]) + 1
          /\ MergedFirst(Len(merged)) = MetBefore(cur, entry)
    /\ mainPc \in {"finalize", "write", "leave", "done"} =>
          MergedFirst(Len(merged)) = MetBefore(NSource + 1, 1)

(* Every merged entry was new when it was met.                             *)
OrderInv ==
    \A n \in 1..Len(merged) : \E s \in Source : \E k \in 1..Len(NewEntry[s]) :
        /\ merged[n] = NewEntry[s][k]
        /\ merged[n] \notin MetBefore(s, k)
        /\ MergedFirst(n - 1) = MetBefore(s, k)

MergeInv == Reliable => ProgressInv /\ OrderInv

LEMMA EntryType ==
    ASSUME NEW s \in Source
    PROVE  /\ NewEntry[s] \in Seq(Hash) /\ Len(NewEntry[s]) \in Nat
           /\ \A k \in 1..Len(NewEntry[s]) : NewEntry[s][k] \in Hash
BY ArchiveAssumption, LenProperties, ElementOfSeq

(* One more entry is met.                                                  *)
LEMMA MetNext ==
    ASSUME NEW s \in Source, NEW k \in 1..Len(NewEntry[s])
    PROVE  MetBefore(s, k + 1) = MetBefore(s, k) \cup {NewEntry[s][k]}
<1>1. NewEntry[s][k] \in Hash /\ k \in Nat /\ Len(NewEntry[s]) \in Nat
  BY EntryType
<1>2. ASSUME NEW r \in Source, NEW j \in 1..Len(NewEntry[r])
      PROVE  (r < s \/ (r = s /\ j < k + 1)) <=> (r < s \/ (r = s /\ j < k)) \/ (r = s /\ j = k)
  <2>1. j \in Nat
    BY EntryType
  <2> QED
    BY <1>1, <2>1
<1> QED
  BY <1>1, <1>2 DEF MetBefore

(* All entries of s are met: those before the next source.                 *)
LEMMA MetAll ==
    ASSUME NEW s \in Source
    PROVE  MetBefore(s, Len(NewEntry[s]) + 1) = MetBefore(s + 1, 1)
<1>1. ASSUME NEW r \in Source, NEW j \in 1..Len(NewEntry[r])
      PROVE  (r < s \/ (r = s /\ j < Len(NewEntry[s]) + 1)) <=> (r < s + 1 \/ (r = s + 1 /\ j < 1))
  <2>1. j \in Nat /\ j >= 1 /\ j <= Len(NewEntry[r]) /\ Len(NewEntry[r]) \in Nat
    BY EntryType
  <2>2. r \in Nat /\ s \in Nat
    BY DEF Source
  <2> QED
    BY <2>1, <2>2
<1> QED
  BY <1>1 DEF MetBefore

LEMMA MetNone == MetBefore(1, 1) = {}
<1>1. ASSUME NEW r \in Source, NEW j \in 1..Len(NewEntry[r]) PROVE ~(r < 1 \/ (r = 1 /\ j < 1))
  BY EntryType DEF Source
<1> QED
  BY <1>1 DEF MetBefore

(* What the table of contents of a reliable run's archive says.            *)
LEMMA TocCurrent ==
    ASSUME AllInv, mainPc = "merge", Reliable
    PROVE  /\ cur \in Source
           /\ toc \in Seq(Hash \cup {ZeroHash}) /\ Len(toc) = Len(NewEntry[cur])
           /\ \/ toc = NewEntry[cur]
              \/ \A i \in 1..Len(toc) : toc[i] = ZeroHash /\ ~CanOpenEntry(OutPath(cur), toc)
<1>1. cur \in Source /\ task[cur] = "done" /\ ~Closed(cur) /\ OutPath(cur) \in Path
  BY OutPathType DEF AllInv, FullInv, ProjectInv, TypeOK, ControlInv, PhaseInv, Closed, Source
<1>2. HasToc(OutPath(cur)) /\ toc = TocOf(Result(cur))
  BY DEF AllInv, FilesInv, ReadInv
<1>3. Result(cur).of = cur /\ Result(cur).fresh
  <2>1. SourceInv(cur)
    BY <1>1 DEF AllInv, FilesInv
  <2>2. Result(cur).of = cur /\ (Result(cur).fresh \/ incremental)
    BY <1>2, <2>1 DEF SourceInv, OwnFile
  <2>3. CASE incremental
    <3>1. ~SomeDead
      BY <2>3 DEF Reliable, AllInv, FilesInv, EndInv
    <3>2. Current(cur)
      BY <1>1, <2>1, <3>1 DEF SourceInv
    <3> QED
      BY <2>2, <3>2 DEF Current
  <2> QED
    BY <2>2, <2>3
<1>4. Entries(Result(cur)) = NewEntry[cur]
  BY <1>3 DEF Entries
<1>5. NewEntry[cur] \in Seq(Hash) /\ Len(NewEntry[cur]) \in Nat
  BY <1>1, EntryType
<1>6. CASE Result(cur).st = "complete"
  <2>1. toc = NewEntry[cur]
    BY <1>2, <1>4, <1>6 DEF TocOf
  <2> QED
    BY <1>1, <1>5, <2>1, SeqMonotonic
<1>7. CASE Result(cur).st # "complete"
  <2>1. toc = [i \in 1..Len(NewEntry[cur]) |-> ZeroHash] /\ ~CanOpenEntry(OutPath(cur), toc)
    BY <1>2, <1>4, <1>7 DEF TocOf, CanOpenEntry, Result
  <2>2. PICK n \in Nat : n = Len(NewEntry[cur])
    BY <1>5
  <2>3. toc \in Seq(Hash \cup {ZeroHash}) /\ Len(toc) = n /\ \A i \in 1..n : toc[i] = ZeroHash
    BY <2>1, <2>2
  <2> QED
    BY <1>1, <2>1, <2>2, <2>3
<1> QED
  BY <1>6, <1>7

(* A step of MergeEntry that goes on.                                      *)
LEMMA MergeStep ==
    ASSUME AllInv, Reliable, ProgressInv, OrderInv, MergeEntry, mainPc' # "aborted"
    PROVE  ProgressInv' /\ OrderInv'
<1>1. /\ mainPc = "merge" /\ mainPc' = "merge" /\ entry <= Len(toc) /\ entry' = entry + 1
      /\ cur' = cur /\ toc' = toc
      /\ \/ AlreadyMerged(toc[entry]) /\ merged' = merged
         \/ /\ ~AlreadyMerged(toc[entry]) /\ CanOpenEntry(OutPath(cur), toc)
            /\ merged' = Append(merged, toc[entry])
  <2>0. AlreadyMerged(toc[entry]) \in BOOLEAN /\ CanOpenEntry(OutPath(cur), toc) \in BOOLEAN
    BY DEF AlreadyMerged, CanOpenEntry
  <2>1. CASE AlreadyMerged(toc[entry])
    BY <2>0, <2>1 DEF MergeEntry
  <2>2. CASE ~AlreadyMerged(toc[entry]) /\ CanOpenEntry(OutPath(cur), toc)
    BY <2>0, <2>2 DEF MergeEntry
  <2>3. CASE ~AlreadyMerged(toc[entry]) /\ ~CanOpenEntry(OutPath(cur), toc)
    BY <2>0, <2>3 DEF MergeEntry, Abort
  <2> QED
    BY <2>0, <2>1, <2>2, <2>3
<1>2. /\ cur \in Source /\ toc \in Seq(Hash \cup {ZeroHash}) /\ Len(toc) = Len(NewEntry[cur])
      /\ \/ toc = NewEntry[cur]
         \/ \A i \in 1..Len(toc) : toc[i] = ZeroHash /\ ~CanOpenEntry(OutPath(cur), toc)
  BY <1>1, TocCurrent
<1>3. /\ merged \in Seq(Hash) /\ Len(merged) \in Nat
      /\ \A i \in 1..Len(merged) : merged[i] \in Hash
      /\ entry \in Nat /\ entry >= 1
  BY LenProperties, ElementOfSeq DEF AllInv, FullInv, ProjectInv, TypeOK
<1>4. Len(NewEntry[cur]) \in Nat /\ entry \in 1..Len(NewEntry[cur])
  BY <1>1, <1>2, <1>3, EntryType
<1>5. toc = NewEntry[cur]
  <2> SUFFICES ASSUME toc[entry] = ZeroHash, ~CanOpenEntry(OutPath(cur), toc) PROVE FALSE
    BY <1>2, <1>4
  <2> QED
    BY <1>1, <1>3, ArchiveAssumption DEF AlreadyMerged
<1>0. PICK h, L : h = NewEntry[cur][entry] /\ L = Len(merged)
  OBVIOUS
<1>6. h \in Hash /\ MetBefore(cur, entry + 1) = MetBefore(cur, entry) \cup {h}
  BY <1>0, <1>2, <1>4, EntryType, MetNext
<1>7. MergedFirst(L) = MetBefore(cur, entry)
  BY <1>0, <1>1 DEF ProgressInv
<1>8. AlreadyMerged(h) <=> h \in MergedFirst(L)
  BY <1>0 DEF AlreadyMerged, MergedFirst
<1>9. CASE AlreadyMerged(h) /\ merged' = merged
  <2>1. MetBefore(cur, entry + 1) = MetBefore(cur, entry)
    BY <1>6, <1>7, <1>8, <1>9
  <2>2. \A n : MergedFirst(n)' = MergedFirst(n)
    BY <1>9 DEF MergedFirst
  <2>3. ProgressInv'
    BY <1>0, <1>1, <1>3, <1>4, <1>7, <1>9, <2>1, <2>2 DEF ProgressInv
  <2>4. OrderInv'
    BY <1>9, <2>2 DEF OrderInv
  <2> QED
    BY <2>3, <2>4
<1>10. CASE ~AlreadyMerged(h) /\ merged' = Append(merged, h)
  <2>1. /\ Len(merged') = L + 1 /\ merged'[L + 1] = h
        /\ \A i \in 1..L : merged'[i] = merged[i]
    BY <1>0, <1>3, <1>6, <1>10, AppendProperties
  <2>2. \A n \in 0..L : MergedFirst(n)' = MergedFirst(n)
    <3> SUFFICES ASSUME NEW n \in 0..L PROVE MergedFirst(n)' = MergedFirst(n)
      OBVIOUS
    <3>1. \A i \in 1..n : i \in 1..L
      BY <1>0, <1>3
    <3> QED
      BY <2>1, <3>1 DEF MergedFirst
  <2>3. MergedFirst(L + 1)' = MergedFirst(L) \cup {h}
    <3>1. 1..(L + 1) = (1..L) \cup {L + 1}
      BY <1>0, <1>3
    <3> QED
      BY <2>1, <3>1 DEF MergedFirst
  <2>4. ProgressInv'
    <3>1. entry + 1 <= Len(NewEntry[cur]) + 1
      BY <1>4
    <3>2. MergedFirst(Len(merged))' = MetBefore(cur, entry + 1)
      BY <1>6, <1>7, <2>1, <2>3
    <3> QED
      BY <1>1, <3>1, <3>2 DEF ProgressInv
  <2>5. OrderInv'
    <3> SUFFICES ASSUME NEW n \in 1..(L + 1)
                 PROVE  \E s \in Source : \E k \in 1..Len(NewEntry[s]) :
                           /\ merged'[n] = NewEntry[s][k]
                           /\ merged'[n] \notin MetBefore(s, k)
                           /\ MergedFirst(n - 1)' = MetBefore(s, k)
      BY <2>1 DEF OrderInv
    <3>1. CASE n \in 1..L
      <4>1. n - 1 \in 0..L /\ merged'[n] = merged[n]
        BY <1>0, <1>3, <2>1, <3>1
      <4> QED
        BY <1>0, <2>2, <3>1, <4>1 DEF OrderInv
    <3>2. CASE n = L + 1
      <4>1. n - 1 = L /\ L \in 0..L
        BY <1>0, <1>3, <3>2
      <4>2. /\ merged'[n] = NewEntry[cur][entry]
            /\ merged'[n] \notin MetBefore(cur, entry)
            /\ MergedFirst(n - 1)' = MetBefore(cur, entry)
        BY <1>0, <1>7, <1>8, <1>10, <2>1, <2>2, <3>2, <4>1
      <4> QED
        BY <1>2, <1>4, <4>2
    <3> QED
      BY <1>0, <1>3, <3>1, <3>2
  <2> QED
    BY <2>4, <2>5
<1> QED
  BY <1>0, <1>1, <1>5, <1>9, <1>10

LEMMA MergeInitInv == Init => MergeInv
BY DEF Init, MergeInv, ProgressInv, OrderInv

(* Steps that merge nothing and leave the loop where it is.                *)
LEMMA MergeKept ==
    ASSUME MergeInv, UNCHANGED <<mainPc, cur, entry, merged, incremental>>,
           crashes = 0 \/ crashes' # 0
    PROVE  MergeInv'
<1>1. Reliable' => Reliable
  BY DEF Reliable
<1>2. (ProgressInv <=> ProgressInv') /\ (OrderInv <=> OrderInv')
  BY DEF ProgressInv, OrderInv, MergedFirst, MetBefore
<1> QED
  BY <1>1, <1>2 DEF MergeInv

LEMMA MergeNextInv == AllInv /\ MergeInv /\ [Next]_vars => MergeInv'
<1> SUFFICES ASSUME AllInv, MergeInv, [Next]_vars PROVE MergeInv'
  OBVIOUS
<1>1. \A n : merged' = merged => MergedFirst(n)' = MergedFirst(n)
  BY DEF MergedFirst
<1>2. ASSUME mainPc' = "aborted", UNCHANGED <<merged, incremental, crashes>> PROVE MergeInv'
  <2>1. (OrderInv <=> OrderInv') /\ (Reliable <=> Reliable')
    BY <1>2 DEF OrderInv, Reliable, MergedFirst, MetBefore
  <2>2. ProgressInv'
    BY <1>2 DEF ProgressInv
  <2> QED
    BY <2>1, <2>2 DEF MergeInv
<1>3. ASSUME UNCHANGED <<merged, incremental, crashes>>, ProgressInv => ProgressInv'
      PROVE  MergeInv'
  <2>1. (OrderInv <=> OrderInv') /\ (Reliable <=> Reliable')
    BY <1>3 DEF OrderInv, Reliable, MergedFirst, MetBefore
  <2> QED
    BY <1>3, <2>1 DEF MergeInv
<1>4. CASE Schedule
  <2>1. /\ mainPc = "schedule" /\ UNCHANGED <<merged, incremental, crashes>>
        /\ mainPc' = "schedule" \/ (mainPc' = "collect" /\ cur' = 1)
    BY <1>4, NextSourceType DEF Schedule, procVars, AllInv, FullInv, ProjectInv, TypeOK
  <2>2. merged = <<>> => MergedFirst(Len(merged)) = {}
    BY DEF MergedFirst
  <2> QED
    BY <1>1, <1>3, <2>1, <2>2, MetNone DEF ProgressInv
<1>5. CASE OpenResult
  <2>1. /\ UNCHANGED <<merged, incremental, crashes>>
        /\ \/ mainPc' = "aborted"
           \/ mainPc = "collect" /\ mainPc' = "merge" /\ entry' = 1 /\ cur' = cur
    BY <1>5 DEF OpenResult, Abort, MainStep, procVars
  <2>2. 1 <= Len(NewEntry[cur]) + 1
    BY EntryType DEF AllInv, FullInv, ProjectInv, TypeOK
  <2> QED
    BY <1>1, <1>2, <1>3, <2>1, <2>2 DEF ProgressInv
<1>6. CASE MergeEntry
  <2>1. UNCHANGED <<incremental, crashes>>
    BY <1>6 DEF MergeEntry, MainStep, procVars
  <2>2. mainPc' = "aborted" => merged' = merged
    <3>1. AlreadyMerged(toc[entry]) \in BOOLEAN /\ CanOpenEntry(OutPath(cur), toc) \in BOOLEAN
      BY DEF AlreadyMerged, CanOpenEntry
    <3>2. CASE ~AlreadyMerged(toc[entry]) /\ CanOpenEntry(OutPath(cur), toc)
      BY <1>6, <3>1, <3>2 DEF MergeEntry
    <3>3. CASE AlreadyMerged(toc[entry])
      BY <1>6, <3>1, <3>3 DEF MergeEntry
    <3>4. CASE ~AlreadyMerged(toc[entry]) /\ ~CanOpenEntry(OutPath(cur), toc)
      BY <1>6, <3>1, <3>4 DEF MergeEntry, Abort
    <3> QED
      BY <3>1, <3>2, <3>3, <3>4
  <2>3. CASE mainPc' = "aborted"
    BY <1>2, <2>1, <2>2, <2>3
  <2>4. CASE mainPc' # "aborted"
    BY <1>6, <2>1, <2>4, MergeStep DEF MergeInv, Reliable
  <2> QED
    BY <2>3, <2>4
<1>7. CASE CloseResult
  <2>1. /\ mainPc = "merge" /\ entry > Len(toc) /\ cur \in Source
        /\ UNCHANGED <<merged, incremental, crashes>>
        /\ \/ cur < NSource /\ cur' = cur + 1 /\ mainPc' = "collect"
           \/ cur = NSource /\ mainPc' = "finalize"
    BY <1>7, ArchiveAssumption DEF CloseResult, MainStep, procVars, AllInv, FullInv, ProjectInv,
       TypeOK, Source
  <2> SUFFICES ASSUME Reliable, ProgressInv PROVE ProgressInv'
    <3>1. Reliable <=> Reliable'
      BY <2>1 DEF Reliable
    <3>2. OrderInv <=> OrderInv'
      BY <2>1 DEF OrderInv, MergedFirst, MetBefore
    <3> QED
      BY <3>1, <3>2 DEF MergeInv
  <2>2. entry = Len(NewEntry[cur]) + 1
    <3>1. Len(toc) = Len(NewEntry[cur]) /\ Len(NewEntry[cur]) \in Nat
      BY <2>1, TocCurrent, EntryType
    <3>2. entry \in Nat
      BY DEF AllInv, FullInv, ProjectInv, TypeOK
    <3> QED
      BY <2>1, <3>1, <3>2 DEF ProgressInv
  <2>3. MergedFirst(Len(merged)) = MetBefore(cur + 1, 1)
    BY <2>1, <2>2, MetAll DEF ProgressInv
  <2> QED
    BY <1>1, <2>1, <2>3 DEF ProgressInv
<1>8. CASE TruncateIndex \/ WriteIndex
  <2>1. /\ mainPc \in {"finalize", "write"} /\ mainPc' \in {"write", "leave"}
        /\ UNCHANGED <<merged, incremental, crashes>>
    BY <1>8 DEF TruncateIndex, WriteIndex, MainStep, procVars
  <2> QED
    BY <1>1, <1>3, <2>1 DEF ProgressInv
<1>9. CASE Return
  <2>1. mainPc = "leave" /\ mainPc' = "done" /\ UNCHANGED <<merged, incremental, crashes>>
    BY <1>9 DEF Return, procVars
  <2> QED
    BY <1>1, <1>3, <2>1 DEF ProgressInv
<1>10. CASE ScheduleFails \/ \E t \in Thread : SendToDead(t)
  BY <1>2, <1>10 DEF ScheduleFails, SendToDead, Abort, procVars
<1>11. ASSUME UNCHANGED <<mainPc, cur, entry, merged, incremental>>,
              crashes' = crashes \/ crashes' = crashes + 1
       PROVE  MergeInv'
  BY <1>11, MergeKept DEF AllInv, FullInv, ProjectInv, TypeOK
<1>12. CASE StealTask \/ BeginDestroy \/ DeleteDaemon \/ UNCHANGED vars
  BY <1>11, <1>12 DEF StealTask, Start, BeginDestroy, DeleteDaemon, vars, mainVars, procVars
<1>13. ASSUME NEW t \in Thread,
              StartTask(t) \/ TaskGet(t) \/ SendRequest(t) \/ AwaitDone(t) \/ TaskRelease(t)
                 \/ FinishTask(t)
       PROVE  MergeInv'
  BY <1>11, <1>13 DEF StartTask, Start, TaskGet, SendRequest, AwaitDone, TaskRelease, FinishTask,
     mainVars, procVars
<1>14. ASSUME NEW d \in Daemon, DaemonNext(d) \/ DaemonDies(d) PROVE MergeInv'
  BY <1>11, <1>14 DEF DaemonNext, DaemonOpen, DaemonWrite, DaemonClose, DaemonStep, DaemonDies,
     mainVars
<1> QED
  BY <1>4, <1>5, <1>6, <1>7, <1>8, <1>9, <1>10, <1>12, <1>13, <1>14
     DEF Next, MainNext, ThreadNext, Ended

(* "the merging happens in a deterministic order" (main.cc:185): for any   *)
(* number of compile commands and threads, whatever order the tasks end    *)
(* in, the entries are merged in the order in which one pass over the      *)
(* sources meets them, each once, and a complete index has all of them.    *)
THEOREM ProjectDeterministicMerge ==
    ASSUME DistinctPaths
    PROVE  Spec => []DeterministicMerge
<1>1. Spec => []MergeInv
  BY AllInvariance, MergeInitInv, MergeNextInv, PTL DEF Spec
<1>2. AllInv /\ MergeInv => DeterministicMerge
  <2> SUFFICES ASSUME AllInv, MergeInv, Reliable PROVE DeterministicMerge
    BY DEF DeterministicMerge, Reliable
  <2>1. ProgressInv /\ OrderInv
    BY DEF MergeInv
  <2>2. index = "complete" => mainPc \in {"write", "leave", "done"}
    BY DEF AllInv, FullInv, ProjectInv, ControlInv, PhaseInv
  <2> QED
    BY <2>1, <2>2 DEF DeterministicMerge, ProgressInv, OrderInv
<1> QED
  BY <1>1, <1>2, AllInvariance, PTL
=============================================================================
