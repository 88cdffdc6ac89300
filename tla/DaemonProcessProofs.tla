------------------------ MODULE DaemonProcessProofs -------------------------
(***************************************************************************)
(* Proofs, for any number of threads and of processes, of the two safety   *)
(* properties of DaemonProcess: a child that runs has its own ends of its  *)
(* own pipes and nothing else (NoLeak), and the descriptors the master     *)
(* keeps of a Process name that Process's ends until it is deleted         *)
(* (MasterHoldsItsEnds).                                                   *)
(*                                                                         *)
(* Neither is inductive.  What makes them true is an exact account of the  *)
(* master's table: beside the three terminals it has the ends that the     *)
(* progress of each Process entitles it to and no other, each under the    *)
(* descriptor that pipes[p] remembers, and every one of them is            *)
(* close-on-exec unless its constructor is between pipe() and fcntl().     *)
(* A thread that forks holds m_creationMutex, so at that moment there is   *)
(* no such constructor, and the copy that the child gets has nothing that  *)
(* survives execv but the two ends it moves.                               *)
(***************************************************************************)
EXTENDS DaemonProcess, Integers, FiniteSetTheorems, SequenceTheorems, WellFoundedInduction, TLAPS

-----------------------------------------------------------------------------
(* Every set of natural numbers that is not empty has a least member.      *)
LEMMA Least ==
    ASSUME NEW T \in SUBSET Nat, T # {}
    PROVE  \E n \in T : \A m \in T : n <= m
<1> DEFINE R == OpToRel(<, Nat)
<1>1. IsWellFoundedOn(R, Nat)
  BY NatLessThanWellFounded
<1>2. \A x, y \in Nat : y < x => <<y, x>> \in R
  BY DEF OpToRel
<1> HIDE DEF R
<1>3. PICK x \in T : \A y \in T : ~ (<<y, x>> \in R)
  BY <1>1, WFMin
<1>4. \A m \in T : ~(m < x)
  BY <1>2, <1>3
<1> QED
  BY <1>4

-----------------------------------------------------------------------------
(* The end of a pipe that pipes[p][i] is the descriptor of. *)
PipeEnd(p, i) ==
    IF i = 1 THEN InRead(p)
    ELSE IF i = 2 THEN InWrite(p) ELSE IF i = 3 THEN OutRead(p) ELSE OutWrite(p)

(* Which of the four the master has open, where the constructor is.        *)
EndsAt(here) ==
    IF here = "pipe2" THEN {1, 2}
    ELSE IF here \in {"cloexec", "fork", "unlock", "parent"} THEN {1, 2, 3, 4}
    ELSE IF here \in {"ready", "await"} THEN {2, 3} ELSE {}

(* In the pool, and its pipes are not closed yet. *)
Pooled(p) == \E k \in 1..Len(pool) : pool[k] = p /\ (k = 1 => mainPc # "wait")

EndsOf == [p \in Proc |->
    {i \in 1..4 : \/ \E t \in Thread : mine[t] = p /\ i \in EndsAt(pc[t])
                  \/ i \in {2, 3} /\ Pooled(p)}]

(* Those whose descriptors may still be inheritable. *)
Unmarked == {p \in Proc : \E t \in Thread : mine[t] = p /\ pc[t] \in {"pipe2", "cloexec"}}

Table(M) ==
    /\ DOMAIN M \subseteq Nat
    /\ IsFiniteSet(DOMAIN M)
    /\ \A fd \in DOMAIN M : M[fd] \in Descriptor

(* A table with the terminals, the ends H[p] of each p, and nothing else.  *)
Accounted(M, pp, H, U) ==
    /\ \A fd \in 0..2 : fd \in DOMAIN M /\ M[fd] = Opened(Terminal)
    /\ \A fd \in DOMAIN M : fd > 2 => \E p \in Proc : \E i \in H[p] : fd = pp[p][i]
    /\ \A p \in Proc : \A i \in H[p] :
          /\ i \in 1..Len(pp[p]) /\ pp[p][i] \in DOMAIN M /\ pp[p][i] > 2
          /\ M[pp[p][i]].end = PipeEnd(p, i)
          /\ p \notin U => M[pp[p][i]].cloexec

(* The descriptors of some of the ends of p. *)
Numbers(pp, p, C) == {pp[p][i] : i \in C}

MasterInv == killed \/ Accounted(fds[Master], pipes, EndsOf, Unmarked)

Shapes ==
    /\ pipes \in [Proc -> Seq(Nat)]
    /\ fds = [q \in Process |-> fds[q]]
    /\ \A q \in Process : Table(fds[q])

Born == {"forked", "running", "exited"}

(* A Process belongs to one thread, or is once in the pool, or is not used *)
(* yet or any more; and how far its child and its pipes are.               *)
LifeInv ==
    /\ \A t \in Thread : mine[t] = NoProc <=> pc[t] = "idle"
    /\ \A t, u \in Thread : mine[t] = mine[u] /\ mine[t] # NoProc => t = u
    /\ \A t \in Thread : pc[t] \in {"pipe", "pipe2", "cloexec", "fork"} => child[mine[t]] = "none"
    /\ \A t \in Thread : pc[t] \in {"unlock", "parent", "ready", "await"} =>
          child[mine[t]] \in Born
    /\ \A t \in Thread : pc[t] = "pipe" => Len(pipes[mine[t]]) = 0
    /\ \A t \in Thread : pc[t] = "pipe2" => Len(pipes[mine[t]]) = 2
    /\ \A t \in Thread : pc[t] \in {"cloexec", "fork"} => Len(pipes[mine[t]]) = 4
    /\ \A p \in Proc : child[p] # "none" => Len(pipes[p]) = 4
    /\ \A p \in Proc : child[p] = "none" /\ (\A t \in Thread : mine[t] # p) => Len(pipes[p]) = 0
    /\ \A k \in 1..Len(pool) : child[pool[k]] \in Born /\ \A t \in Thread : mine[t] # pool[k]
    /\ \A k, l \in 1..Len(pool) : pool[k] = pool[l] => k = l
    /\ mainPc = "wait" => pool # <<>>

(* What a child has: a copy of an accounted table in which everything is   *)
(* close-on-exec, or what NoLeak says.                                     *)
CopyOf(M, fd4, p) ==
    /\ \A fd \in 0..2 : fd \in DOMAIN M /\ M[fd] = Opened(Terminal)
    /\ \A fd \in DOMAIN M : fd > 2 => M[fd].cloexec
    /\ \A i \in 1..4 : fd4[i] \in DOMAIN M /\ fd4[i] > 2 /\ M[fd4[i]].end = PipeEnd(p, i)

OwnEnds(p) == [fd \in 0..2 |-> Opened(IF fd = STDIN THEN InRead(p)
                                      ELSE IF fd = STDOUT THEN OutWrite(p) ELSE Terminal)]

ChildInv ==
    \A p \in Proc : /\ child[p] = "forked" => CopyOf(fds[p], pipes[p], p)
                    /\ child[p] = "running" => fds[p] = OwnEnds(p)

Inv == TypeOK /\ Shapes /\ LifeInv /\ MasterInv /\ ChildInv
-----------------------------------------------------------------------------
LEMMA StandardFinite == IsFiniteSet(0..2)
<1>1. PICK a \in Int, b \in Int : a = 0 /\ b = 2
  OBVIOUS
<1>2. IsFiniteSet(a..b)
  BY FS_Interval
<1> QED
  BY <1>1, <1>2

(* pipe() finds a descriptor, and one that is free. *)
LEMMA LowestIsFree ==
    ASSUME NEW M, Table(M)
    PROVE  Lowest(M) \in Nat /\ Lowest(M) \notin DOMAIN M
<1> DEFINE n == Cardinality(DOMAIN M)
           Free == {fd \in 0..n : fd \notin DOMAIN M}
<1>1. n \in Nat
  BY FS_CardinalityType DEF Table
<1>2. Free # {}
  <2> SUFFICES ASSUME Free = {} PROVE FALSE
    OBVIOUS
  <2>1. 0..n \in SUBSET DOMAIN M
    OBVIOUS
  <2>2. Cardinality(0..n) <= n
    BY <2>1, FS_Subset DEF Table
  <2>3. Cardinality(0..n) = n + 1
    BY <1>1, FS_Interval
  <2> QED
    BY <1>1, <2>2, <2>3
<1>3. \E x \in Free : \A y \in Free : x <= y
  <2>1. Free \in SUBSET Nat
    BY <1>1
  <2> HIDE DEF Free
  <2> QED
    BY <1>2, <2>1, Least
<1>4. Lowest(M) \in Free
  BY <1>3 DEF Lowest, Min
<1> QED
  BY <1>1, <1>4

(* The ends of different pipes, and the two of one, are different. *)
LEMMA EndsDiffer ==
    /\ \A p \in Proc : \A i \in 1..4 : PipeEnd(p, i) \in End /\ PipeEnd(p, i) # Terminal
    /\ \A p, q \in Proc : \A i, j \in 1..4 : PipeEnd(p, i) = PipeEnd(q, j) => p = q /\ i = j
<1>1. \A p \in Proc : \A i \in 1..4 : PipeEnd(p, i) \in End
  BY DEF PipeEnd, End
<1>2. \A p \in Proc : \A i \in 1..4 : PipeEnd(p, i) # Terminal
  BY DEF PipeEnd, InRead, InWrite, OutRead, OutWrite, Terminal
<1>3. ASSUME NEW p \in Proc, NEW q \in Proc, NEW i \in 1..4, NEW j \in 1..4,
             PipeEnd(p, i) = PipeEnd(q, j)
      PROVE  p = q /\ i = j
  <2>1. \A r \in Proc : \A k \in 1..4 :
           PipeEnd(r, k) = <<r, IF k < 3 THEN "in" ELSE "out",
                             IF k \in {1, 3} THEN "read" ELSE "write">>
    BY DEF PipeEnd, InRead, InWrite, OutRead, OutWrite
  <2>2. p = q /\ (i < 3 <=> j < 3) /\ (i \in {1, 3} <=> j \in {1, 3})
    BY <1>3, <2>1
  <2> QED
    BY <2>2
<1> QED
  BY <1>1, <1>2, <1>3

(* pipe(): one more descriptor, for one more end of p. *)
LEMMA Opens ==
    ASSUME NEW M, Table(M), NEW pp \in [Proc -> Seq(Nat)],
           NEW H \in [Proc -> SUBSET (1..4)], NEW U, Accounted(M, pp, H, U),
           NEW p \in Proc, NEW i \in 1..4, Len(pp[p]) = i - 1, NEW n, n = Lowest(M)
    PROVE  /\ n \in Nat
           /\ Table(Open(M, PipeEnd(p, i)))
           /\ Accounted(Open(M, PipeEnd(p, i)), [pp EXCEPT ![p] = Append(@, n)],
                        [H EXCEPT ![p] = @ \cup {i}], U \cup {p})
<1> DEFINE N == Open(M, PipeEnd(p, i))
           qq == [pp EXCEPT ![p] = Append(@, n)]
           G == [H EXCEPT ![p] = @ \cup {i}]
<1>1. n \in Nat /\ n \notin DOMAIN M /\ n > 2
  BY LowestIsFree DEF Accounted
<1>2. /\ DOMAIN N = DOMAIN M \cup {n}
      /\ N[n] = Opened(PipeEnd(p, i))
      /\ \A fd \in DOMAIN M : N[fd] = M[fd]
  BY <1>1 DEF Open, Enter
<1>3. Opened(PipeEnd(p, i)) \in Descriptor /\ Opened(PipeEnd(p, i)).end = PipeEnd(p, i)
  BY EndsDiffer DEF Opened, Descriptor
<1>4. Table(N)
  BY <1>1, <1>2, <1>3, FS_AddElement DEF Table
<1>5. /\ qq[p] = Append(pp[p], n) /\ Len(qq[p]) = i /\ qq[p][i] = n
      /\ \A j \in 1..Len(pp[p]) : qq[p][j] = pp[p][j]
  BY <1>1
<1>6. \A q \in Proc : q # p => qq[q] = pp[q] /\ G[q] = H[q]
  OBVIOUS
<1>7. G[p] = H[p] \cup {i}
  OBVIOUS
<1>8. \A q \in Proc : \A j \in H[q] : j \in 1..Len(pp[q]) /\ qq[q][j] = pp[q][j]
  BY <1>5, <1>6 DEF Accounted
<1>9. \A q \in Proc : H[q] \subseteq G[q]
  BY <1>6, <1>7
<1> HIDE DEF N, qq, G
<1>10. ASSUME NEW fd \in DOMAIN N, fd > 2
       PROVE  \E q \in Proc : \E j \in G[q] : fd = qq[q][j]
  <2>1. CASE fd = n
    BY <2>1, <1>5, <1>7
  <2>2. CASE fd \in DOMAIN M
    BY <2>2, <1>8, <1>9, <1>10 DEF Accounted
  <2> QED
    BY <2>1, <2>2, <1>2
<1>11. ASSUME NEW q \in Proc, NEW j \in G[q]
       PROVE  /\ j \in 1..Len(qq[q]) /\ qq[q][j] \in DOMAIN N /\ qq[q][j] > 2
              /\ N[qq[q][j]].end = PipeEnd(q, j)
              /\ q \notin U \cup {p} => N[qq[q][j]].cloexec
  <2>1. CASE q = p /\ j = i
    BY <2>1, <1>1, <1>2, <1>3, <1>5
  <2>2. CASE j \in H[q]
    <3>1. /\ j \in 1..Len(pp[q]) /\ pp[q][j] \in DOMAIN M /\ pp[q][j] > 2
          /\ M[pp[q][j]].end = PipeEnd(q, j)
          /\ q \notin U => M[pp[q][j]].cloexec
      BY <2>2 DEF Accounted
    <3>2. j \in 1..Len(qq[q])
      <4>1. Len(pp[q]) \in Nat /\ (q = p => Len(qq[q]) = Len(pp[q]) + 1)
        BY <1>5
      <4>2. q # p => Len(qq[q]) = Len(pp[q])
        BY <1>6
      <4> QED
        BY <3>1, <4>1, <4>2
    <3> QED
      BY <2>2, <3>1, <3>2, <1>2, <1>8
  <2> QED
    BY <2>1, <2>2, <1>6, <1>7
<1>12. Accounted(N, qq, G, U \cup {p})
  BY <1>2, <1>10, <1>11 DEF Accounted
<1> QED
  BY <1>1, <1>4, <1>12 DEF N, qq, G

(* fcntl: the descriptors of p, all four of them, become close-on-exec. *)
LEMMA Marks ==
    ASSUME NEW M, Table(M), NEW pp \in [Proc -> Seq(Nat)],
           NEW H \in [Proc -> SUBSET (1..4)], NEW U, Accounted(M, pp, H, U),
           NEW p \in Proc, H[p] = 1..Len(pp[p]), NEW N, N = Mark(M, Range(pp[p]))
    PROVE  Table(N) /\ Accounted(N, pp, H, U \ {p})
<1>1. DOMAIN N = DOMAIN M
  BY DEF Mark
<1>2. ASSUME NEW fd \in DOMAIN M
      PROVE  /\ N[fd] \in Descriptor /\ N[fd].end = M[fd].end
             /\ N[fd].cloexec <=> M[fd].cloexec \/ fd \in Range(pp[p])
             /\ fd \notin Range(pp[p]) => N[fd] = M[fd]
  <2>1. PICK e \in End, c \in BOOLEAN : M[fd] = [end |-> e, cloexec |-> c]
    BY DEF Table, Descriptor
  <2>2. N[fd] = [end |-> e, cloexec |-> c \/ fd \in Range(pp[p])]
    BY <2>1 DEF Mark
  <2>3. PICK b \in BOOLEAN : b = (c \/ fd \in Range(pp[p]))
    OBVIOUS
  <2>4. N[fd] = [end |-> e, cloexec |-> b]
    BY <2>2, <2>3
  <2>5. fd \notin Range(pp[p]) => b = c
    BY <2>3
  <2>6. N[fd] \in Descriptor /\ N[fd].end = M[fd].end
    BY <2>1, <2>4 DEF Descriptor
  <2>7. N[fd].cloexec <=> M[fd].cloexec \/ fd \in Range(pp[p])
    <3>1. N[fd].cloexec = b /\ M[fd].cloexec = c
      BY <2>1, <2>4
    <3> QED
      BY <2>3, <3>1
  <2>8. fd \notin Range(pp[p]) => N[fd] = M[fd]
    BY <2>1, <2>4, <2>5
  <2> QED
    BY <2>6, <2>7, <2>8
<1>3. Table(N)
  BY <1>1, <1>2 DEF Table
<1>4. \A fd : fd \in Range(pp[p]) <=> \E i \in H[p] : fd = pp[p][i]
  BY DEF Range
<1>5. ASSUME NEW fd \in 0..2
      PROVE  fd \in DOMAIN N /\ N[fd] = Opened(Terminal)
  <2>1. fd \in DOMAIN M /\ M[fd] = Opened(Terminal)
    BY DEF Accounted
  <2>2. \A i \in H[p] : pp[p][i] > 2
    BY DEF Accounted
  <2>3. fd \notin Range(pp[p])
    BY <1>4, <2>2
  <2> QED
    BY <1>1, <1>2, <2>1, <2>3
<1>6. ASSUME NEW q \in Proc, NEW j \in H[q]
      PROVE  /\ j \in 1..Len(pp[q]) /\ pp[q][j] \in DOMAIN N /\ pp[q][j] > 2
             /\ N[pp[q][j]].end = PipeEnd(q, j)
             /\ q \notin U \ {p} => N[pp[q][j]].cloexec
  <2>1. /\ j \in 1..Len(pp[q]) /\ pp[q][j] \in DOMAIN M /\ pp[q][j] > 2
        /\ M[pp[q][j]].end = PipeEnd(q, j)
        /\ q \notin U => M[pp[q][j]].cloexec
    BY DEF Accounted
  <2> QED
    BY <2>1, <1>1, <1>2, <1>4
<1>7. \A fd \in DOMAIN N : fd > 2 => \E q \in Proc : \E i \in H[q] : fd = pp[q][i]
  BY <1>1 DEF Accounted
<1> QED
  BY <1>3, <1>5, <1>6, <1>7 DEF Accounted

(* close(), or fclose(): the ends in C of p, and these only. *)
LEMMA Closes ==
    ASSUME NEW M, Table(M), NEW pp \in [Proc -> Seq(Nat)],
           NEW H \in [Proc -> SUBSET (1..4)], NEW U, Accounted(M, pp, H, U),
           NEW p \in Proc, NEW C \in SUBSET H[p], NEW N, N = Close(M, Numbers(pp, p, C))
    PROVE  Table(N) /\ Accounted(N, pp, [H EXCEPT ![p] = @ \ C], U)
<1> DEFINE G == [H EXCEPT ![p] = @ \ C]
<1>1. /\ DOMAIN N = DOMAIN M \ Numbers(pp, p, C)
      /\ \A fd \in DOMAIN N : N[fd] = M[fd]
  BY DEF Close, Restrict
<1>0. \A fd : fd \in Numbers(pp, p, C) <=> \E i \in C : fd = pp[p][i]
  BY DEF Numbers
<1>2. Table(N)
  BY <1>1, FS_Subset DEF Table
<1>10. G[p] = H[p] \ C
  OBVIOUS
<1>11. \A q \in Proc : q # p => G[q] = H[q]
  OBVIOUS
<1> HIDE DEF G
<1>3. ASSUME NEW q \in Proc, NEW j \in H[q]
      PROVE  j \in G[q] \/ (q = p /\ j \in C)
  <2>1. CASE q = p
    BY <2>1, <1>10
  <2>2. CASE q # p
    BY <2>2, <1>11
  <2> QED
    BY <2>1, <2>2
<1>4. ASSUME NEW q \in Proc, NEW j \in G[q]
      PROVE  j \in H[q] /\ ~(q = p /\ j \in C)
  <2>1. CASE q = p
    BY <2>1, <1>10
  <2>2. CASE q # p
    BY <2>2, <1>11
  <2> QED
    BY <2>1, <2>2
<1>5. \A q \in Proc : \A j \in H[q] : \A i \in C : pp[q][j] = pp[p][i] => q = p /\ j = i
  <2> SUFFICES ASSUME NEW q \in Proc, NEW j \in H[q], NEW i \in C, pp[q][j] = pp[p][i]
               PROVE  q = p /\ j = i
    OBVIOUS
  <2>1. PipeEnd(q, j) = PipeEnd(p, i)
    <3>1. M[pp[q][j]].end = PipeEnd(q, j)
      BY DEF Accounted
    <3>2. i \in H[p]
      OBVIOUS
    <3>3. M[pp[p][i]].end = PipeEnd(p, i)
      BY <3>2 DEF Accounted
    <3> QED
      BY <3>1, <3>3
  <2>2. i \in 1..4 /\ j \in 1..4
    OBVIOUS
  <2> QED
    BY <2>1, <2>2, EndsDiffer
<1>6. ASSUME NEW fd \in 0..2
      PROVE  fd \in DOMAIN N /\ N[fd] = Opened(Terminal)
  <2>1. \A i \in H[p] : pp[p][i] > 2
    BY DEF Accounted
  <2>2. fd \notin Numbers(pp, p, C)
    BY <2>1, <1>0
  <2> QED
    BY <1>1, <2>2 DEF Accounted
<1>7. ASSUME NEW fd \in DOMAIN N, fd > 2
      PROVE  \E q \in Proc : \E j \in G[q] : fd = pp[q][j]
  <2>1. PICK q \in Proc : \E j \in H[q] : fd = pp[q][j]
    BY <1>1, <1>7 DEF Accounted
  <2> QED
    BY <2>1, <1>0, <1>1, <1>3
<1>8. ASSUME NEW q \in Proc, NEW j \in G[q]
      PROVE  /\ j \in 1..Len(pp[q]) /\ pp[q][j] \in DOMAIN N /\ pp[q][j] > 2
             /\ N[pp[q][j]].end = PipeEnd(q, j)
             /\ q \notin U => N[pp[q][j]].cloexec
  <2>1. j \in H[q]
    BY <1>4
  <2>2. /\ j \in 1..Len(pp[q]) /\ pp[q][j] \in DOMAIN M /\ pp[q][j] > 2
        /\ M[pp[q][j]].end = PipeEnd(q, j)
        /\ q \notin U => M[pp[q][j]].cloexec
    BY <2>1 DEF Accounted
  <2>3. \A i \in C : pp[q][j] # pp[p][i]
    BY <2>1, <1>4, <1>5
  <2>4. pp[q][j] \in DOMAIN N
    BY <2>2, <2>3, <1>0, <1>1
  <2> QED
    BY <2>2, <2>4, <1>1
<1>9. Accounted(N, pp, G, U)
  BY <1>6, <1>7, <1>8 DEF Accounted
<1> QED
  BY <1>2, <1>9 DEF G

(* execv in the child of p: all it keeps is what NoLeak says. *)
LEMMA Keeps ==
    ASSUME NEW M, Table(M), NEW p \in Proc, NEW fd4 \in Seq(Nat), Len(fd4) = 4,
           CopyOf(M, fd4, p)
    PROVE  LET std == Enter(Enter(M, STDIN, M[fd4[1]].end), STDOUT, M[fd4[4]].end)
               open == Close(std, {fd4[2], fd4[3]})
           IN  RestrictDomain(open, LAMBDA fd : ~open[fd].cloexec) = OwnEnds(p)
<1> DEFINE std == Enter(Enter(M, STDIN, M[fd4[1]].end), STDOUT, M[fd4[4]].end)
           open == Close(std, {fd4[2], fd4[3]})
<1>1. M[fd4[1]].end = InRead(p) /\ M[fd4[4]].end = OutWrite(p)
  BY DEF CopyOf, PipeEnd
<1>2. fd4[2] > 2 /\ fd4[3] > 2
  BY DEF CopyOf
<1>3. /\ DOMAIN std = DOMAIN M
      /\ std[0] = Opened(InRead(p)) /\ std[1] = Opened(OutWrite(p)) /\ std[2] = Opened(Terminal)
      /\ \A fd \in DOMAIN M : fd > 2 => std[fd] = M[fd]
  <2>1. 0 \in DOMAIN M /\ 1 \in DOMAIN M /\ 2 \in DOMAIN M /\ M[2] = Opened(Terminal)
    BY DEF CopyOf
  <2> DEFINE first == Enter(M, STDIN, M[fd4[1]].end)
  <2>2. first = [f \in DOMAIN M |-> IF f = 0 THEN Opened(InRead(p)) ELSE M[f]]
    BY <1>1, <2>1 DEF Enter, STDIN
  <2> HIDE DEF first
  <2>3. std = [f \in DOMAIN M |-> IF f = 1 THEN Opened(OutWrite(p)) ELSE first[f]]
    BY <1>1, <2>1, <2>2 DEF Enter, STDOUT
  <2> HIDE DEF std
  <2> QED
    BY <2>1, <2>2, <2>3
<1> HIDE DEF std
<1>4. /\ DOMAIN open = DOMAIN M \ {fd4[2], fd4[3]}
      /\ \A fd \in DOMAIN open : open[fd] = std[fd]
  BY <1>3 DEF Close, Restrict
<1> HIDE DEF open
<1>5. \A fd \in DOMAIN open : ~open[fd].cloexec <=> fd \in 0..2
  <2>1. \A fd \in DOMAIN open : fd > 2 => open[fd].cloexec
    BY <1>3, <1>4 DEF CopyOf
  <2>2. ~open[0].cloexec /\ ~open[1].cloexec /\ ~open[2].cloexec
    BY <1>2, <1>3, <1>4 DEF CopyOf, Opened
  <2>3. \A fd \in DOMAIN open : fd \in Nat
    BY <1>4 DEF Table
  <2> QED
    BY <2>1, <2>2, <2>3
<1>6. 0..2 \subseteq DOMAIN open
  BY <1>2, <1>4 DEF CopyOf
<1>7. {fd \in DOMAIN open : ~open[fd].cloexec} = 0..2
  BY <1>5, <1>6
<1>8. RestrictDomain(open, LAMBDA fd : ~open[fd].cloexec) = [fd \in 0..2 |-> open[fd]]
  BY <1>7 DEF RestrictDomain, Restrict
<1>9. \A fd \in 0..2 : open[fd] = OwnEnds(p)[fd]
  BY <1>3, <1>4, <1>6 DEF OwnEnds, STDIN, STDOUT
<1> QED
  BY <1>8, <1>9 DEF OwnEnds, std, open
-----------------------------------------------------------------------------
(* The steps, one lemma for what each changes.  First the types: only the  *)
(* holder of m_creationMutex is between lock() and unlock().               *)
LEMMA ControlTyped ==
    ASSUME TypeOK, Shapes, LifeInv
    PROVE  /\ \A t \in Thread : pc[t] # "idle" => mine[t] \in Proc
           /\ NoProc \notin Proc /\ NoThread \notin Thread
           /\ Master \in Process /\ Master \notin Proc /\ Proc \subseteq Process
           /\ EndsOf \in [Proc -> SUBSET (1..4)]
<1>1. \A t \in Thread : pc[t] # "idle" => mine[t] \in Proc
  BY DEF LifeInv, TypeOK
<1>2. EndsOf \in [Proc -> SUBSET (1..4)]
  BY DEF EndsOf
<1> QED
  BY <1>1, <1>2, ProcessAssumption DEF ProcessAssumption, Process

(* What a Process that a thread has is entitled to, and one in the pool. *)
LEMMA EndsOfMine ==
    ASSUME TypeOK, LifeInv, NEW t \in Thread, mine[t] \in Proc
    PROVE  /\ EndsOf[mine[t]] = EndsAt(pc[t])
           /\ mine[t] \in Unmarked <=> pc[t] \in {"pipe2", "cloexec"}
<1>1. ~Pooled(mine[t])
  BY DEF LifeInv, Pooled
<1>2. \A u \in Thread : mine[u] = mine[t] => u = t
  BY ProcessAssumption DEF ProcessAssumption, LifeInv
<1>3. EndsAt(pc[t]) \subseteq 1..4
  BY DEF EndsAt
<1>4. EndsOf[mine[t]] = EndsAt(pc[t])
  BY <1>1, <1>2, <1>3 DEF EndsOf
<1> QED
  BY <1>2, <1>4 DEF Unmarked

LEMMA EndsOfPooled ==
    ASSUME TypeOK, LifeInv, NEW p \in Proc, Pooled(p)
    PROVE  EndsOf[p] = {2, 3} /\ p \notin Unmarked
<1>1. \A u \in Thread : mine[u] # p
  BY DEF LifeInv, Pooled
<1> QED
  BY <1>1 DEF EndsOf, Unmarked

(* A step of the thread's own program moves the entitlement of its Process *)
(* only. *)
LEMMA EndsStep ==
    ASSUME TypeOK, LifeInv, NEW t \in Thread, mine[t] \in Proc, NEW here,
           pc' = [pc EXCEPT ![t] = here], UNCHANGED <<mine, pool, mainPc>>
    PROVE  /\ EndsOf' = [EndsOf EXCEPT ![mine[t]] = EndsAt(here)]
           /\ Unmarked' = IF here \in {"pipe2", "cloexec"} THEN Unmarked \cup {mine[t]}
                          ELSE Unmarked \ {mine[t]}
<1>1. \A u \in Thread : mine[u] = mine[t] => u = t
  BY ProcessAssumption DEF ProcessAssumption, LifeInv
<1>2. pc'[t] = here /\ \A u \in Thread : u # t => pc'[u] = pc[u]
  BY DEF TypeOK
<1>3. \A p : Pooled(p)' <=> Pooled(p)
  BY DEF Pooled
<1>4. ~Pooled(mine[t])
  BY DEF LifeInv, Pooled
<1>5. EndsAt(here) \subseteq 1..4
  BY DEF EndsAt
<1>6. ASSUME NEW p \in Proc
      PROVE  EndsOf'[p] = IF p = mine[t] THEN EndsAt(here) ELSE EndsOf[p]
  <2>1. EndsOf'[p] = {i \in 1..4 : \/ \E u \in Thread : mine[u] = p /\ i \in EndsAt(pc'[u])
                                   \/ i \in {2, 3} /\ Pooled(p)}
    BY <1>3 DEF EndsOf, EndsAt
  <2>2. CASE p = mine[t]
    BY <2>1, <2>2, <1>1, <1>2, <1>4, <1>5
  <2>3. CASE p # mine[t]
    <3>1. \A i : (\E u \in Thread : mine[u] = p /\ i \in EndsAt(pc'[u]))
                 <=> (\E u \in Thread : mine[u] = p /\ i \in EndsAt(pc[u]))
      BY <2>3, <1>2
    <3> QED
      BY <2>1, <2>3, <3>1 DEF EndsOf
  <2> QED
    BY <2>2, <2>3
<1>7. EndsOf' = [p \in Proc |-> EndsOf'[p]]
  BY DEF EndsOf
<1>8. EndsOf' = [EndsOf EXCEPT ![mine[t]] = EndsAt(here)]
  BY <1>6, <1>7 DEF EndsOf
<1>9. Unmarked' = IF here \in {"pipe2", "cloexec"} THEN Unmarked \cup {mine[t]}
                  ELSE Unmarked \ {mine[t]}
  BY <1>1, <1>2 DEF Unmarked
<1> QED
  BY <1>8, <1>9

(* The first conjunct of NoLeak, for every step at once: each changes the  *)
(* tables by one of the operations above. *)
LEMMA TypesAfterGoto ==
    ASSUME TypeOK, NEW t \in Thread, NEW here, NEW there, Goto(t, here, there),
           there \in {"idle", "pipe", "pipe2", "cloexec", "fork", "unlock",
                      "parent", "ready", "await"}
    PROVE  /\ pc' \in [Thread -> {"idle", "pipe", "pipe2", "cloexec", "fork", "unlock",
                                  "parent", "ready", "await"}]
           /\ pc[t] = here /\ pc'[t] = there
           /\ \A u \in Thread : u # t => pc'[u] = pc[u]
           /\ mainPc = "out" /\ mainPc' = "out" /\ ~killed
BY DEF Goto, TypeOK, Alive

LEMMA LockStep ==
    ASSUME Inv, NEW t \in Thread, Lock(t)
    PROVE  Inv'
<1>1. TypeOK /\ Shapes /\ LifeInv /\ MasterInv /\ ChildInv
  BY DEF Inv
<1>2. /\ pc' \in [Thread -> {"idle", "pipe", "pipe2", "cloexec", "fork", "unlock",
                             "parent", "ready", "await"}]
      /\ pc[t] = "idle" /\ pc'[t] = "pipe" /\ \A u \in Thread : u # t => pc'[u] = pc[u]
      /\ mainPc = "out" /\ mainPc' = "out" /\ ~killed
  BY <1>1, TypesAfterGoto DEF Lock
<1>3. /\ m_creationMutex = NoThread /\ m_creationMutex' = t
      /\ UNCHANGED <<pool, pipes, fds, child, mail, deaths, killed>>
  BY DEF Lock
<1>4. PICK p \in Unused : mine' = [mine EXCEPT ![t] = p]
  BY DEF Lock
<1>5. p \in Proc /\ child[p] = "none" /\ \A u \in Thread : mine[u] # p
  BY <1>1, <1>4 DEF Unused, Range, TypeOK
<1>6. mine'[t] = p /\ \A u \in Thread : u # t => mine'[u] = mine[u]
  BY <1>1, <1>4 DEF TypeOK
<1>7. TypeOK'
  BY <1>1, <1>2, <1>3, <1>4, <1>5, ProcessAssumption DEF TypeOK, ProcessAssumption
<1>8. Shapes'
  BY <1>1, <1>3 DEF Shapes, Table
<1>9. LifeInv'
  <2>1. \A u \in Thread : mine'[u] = NoProc <=> pc'[u] = "idle"
    BY <1>1, <1>2, <1>5, <1>6, ProcessAssumption DEF LifeInv, ProcessAssumption
  <2>2. \A u, v \in Thread : mine'[u] = mine'[v] /\ mine'[u] # NoProc => u = v
    BY <1>1, <1>5, <1>6 DEF LifeInv
  <2>3. Len(pipes[p]) = 0
    BY <1>1, <1>5 DEF LifeInv
  <2>4. \A k \in 1..Len(pool) : pool[k] # p
    BY <1>1, <1>5 DEF LifeInv, Born
  <2>5. \A k \in 1..Len(pool) : \A u \in Thread : mine'[u] # pool[k]
    BY <1>1, <1>6, <2>4 DEF LifeInv
  <2>6. \A q \in Proc : (\A u \in Thread : mine'[u] # q) => \A u \in Thread : mine[u] # q
    BY <1>1, <1>2, <1>6, ProcessAssumption DEF LifeInv, ProcessAssumption
  <2> QED
    BY <1>1, <1>2, <1>3, <1>5, <1>6, <2>1, <2>2, <2>3, <2>5, <2>6 DEF LifeInv
<1>10. EndsOf' = EndsOf /\ Unmarked' = Unmarked
  <2>1. \A q : Pooled(q)' <=> Pooled(q)
    BY <1>2, <1>3 DEF Pooled
  <2>2. \A q \in Proc : \A i : (\E u \in Thread : mine'[u] = q /\ i \in EndsAt(pc'[u]))
                               <=> (\E u \in Thread : mine[u] = q /\ i \in EndsAt(pc[u]))
    BY <1>2, <1>6 DEF EndsAt
  <2>3. \A q \in Proc : (\E u \in Thread : mine'[u] = q /\ pc'[u] \in {"pipe2", "cloexec"})
                        <=> (\E u \in Thread : mine[u] = q /\ pc[u] \in {"pipe2", "cloexec"})
    BY <1>2, <1>6
  <2>4. EndsOf' = EndsOf
    BY <2>1, <2>2 DEF EndsOf
  <2> QED
    BY <2>3, <2>4 DEF Unmarked
<1>11. MasterInv'
  BY <1>1, <1>3, <1>10 DEF MasterInv, Accounted
<1>12. ChildInv'
  BY <1>1, <1>3 DEF ChildInv, CopyOf, OwnEnds
<1> QED
  BY <1>7, <1>8, <1>9, <1>11, <1>12 DEF Inv

(* What a step of a thread on its own Process has to establish. *)
LEMMA LifeOfThread ==
    ASSUME TypeOK, LifeInv, NEW t \in Thread, mine[t] \in Proc, NEW here, here # "idle",
           pc' = [pc EXCEPT ![t] = here], UNCHANGED <<mine, pool>>, mainPc' = "out",
           \A q \in Proc : q # mine[t] => child'[q] = child[q] /\ pipes'[q] = pipes[q],
           here \in {"pipe", "pipe2", "cloexec", "fork"} => child'[mine[t]] = "none",
           here \in {"unlock", "parent", "ready", "await"} => child'[mine[t]] \in Born,
           here = "pipe" => Len(pipes'[mine[t]]) = 0,
           here = "pipe2" => Len(pipes'[mine[t]]) = 2,
           here \in {"cloexec", "fork"} => Len(pipes'[mine[t]]) = 4,
           child'[mine[t]] # "none" => Len(pipes'[mine[t]]) = 4
    PROVE  LifeInv'
<1>1. pc'[t] = here /\ \A u \in Thread : u # t => pc'[u] = pc[u]
  BY DEF TypeOK
<1>2. \A u \in Thread : u # t => mine[u] # mine[t]
  BY ProcessAssumption DEF LifeInv, ProcessAssumption
<1>3. \A k \in 1..Len(pool) : pool[k] # mine[t] /\ pool[k] \in Proc
  BY DEF LifeInv, TypeOK
<1>4. \A u \in Thread : pc[u] # "idle" => mine[u] \in Proc
  BY DEF LifeInv, TypeOK
<1>5. \A u \in Thread : mine[u] = NoProc <=> pc'[u] = "idle"
  BY <1>1, ProcessAssumption DEF LifeInv, ProcessAssumption
<1>6. ASSUME NEW u \in Thread, pc'[u] # "idle"
      PROVE  /\ pc'[u] \in {"pipe", "pipe2", "cloexec", "fork"} => child'[mine[u]] = "none"
             /\ pc'[u] \in {"unlock", "parent", "ready", "await"} => child'[mine[u]] \in Born
             /\ pc'[u] = "pipe" => Len(pipes'[mine[u]]) = 0
             /\ pc'[u] = "pipe2" => Len(pipes'[mine[u]]) = 2
             /\ pc'[u] \in {"cloexec", "fork"} => Len(pipes'[mine[u]]) = 4
  <2>1. CASE u = t
    BY <2>1, <1>1
  <2>2. CASE u # t
    BY <2>2, <1>1, <1>2, <1>4, <1>6 DEF LifeInv
  <2> QED
    BY <2>1, <2>2
<1>7. \A p \in Proc : child'[p] # "none" => Len(pipes'[p]) = 4
  BY DEF LifeInv
<1>8. \A p \in Proc : child'[p] = "none" /\ (\A u \in Thread : mine[u] # p) => Len(pipes'[p]) = 0
  BY DEF LifeInv
<1>9. \A k \in 1..Len(pool) : child'[pool[k]] \in Born /\ \A u \in Thread : mine[u] # pool[k]
  BY <1>3 DEF LifeInv
<1> QED
  BY <1>5, <1>6, <1>7, <1>8, <1>9 DEF LifeInv

(* One table changes. *)
LEMMA OneTable ==
    ASSUME Shapes, NEW q \in Process, NEW N, Table(N), fds' = [fds EXCEPT ![q] = N]
    PROVE  /\ fds'[q] = N /\ \A r \in Process : r # q => fds'[r] = fds[r]
           /\ fds' = [r \in Process |-> fds'[r]]
           /\ \A r \in Process : Table(fds'[r])
BY DEF Shapes

(* A step that touches neither the tables nor the pipes of the children.   *)
LEMMA ChildrenStay ==
    ASSUME ChildInv, \A p \in Proc : child'[p] \in {"forked", "running"} =>
               child'[p] = child[p] /\ fds'[p] = fds[p] /\ pipes'[p] = pipes[p]
    PROVE  ChildInv'
BY DEF ChildInv, CopyOf, OwnEnds

(* The types of the tables are those of TypeOK. *)
LEMMA TablesTyped ==
    ASSUME \A q \in Process : Table(fds'[q])
    PROVE  \A q \in Process : \A fd \in DOMAIN fds'[q] : fd \in Nat /\ fds'[q][fd] \in Descriptor
BY DEF Table

LEMMA PipeStep ==
    ASSUME Inv, NEW t \in Thread, NEW here, NEW there, NEW i,
           Pipe(t, here, there, PipeEnd(mine[t], i), PipeEnd(mine[t], i + 1)),
           \/ here = "pipe" /\ there = "pipe2" /\ i = 1
           \/ here = "pipe2" /\ there = "cloexec" /\ i = 3
    PROVE  Inv'
<1>1. TypeOK /\ Shapes /\ LifeInv /\ MasterInv /\ ChildInv
  BY DEF Inv
<1>2. /\ pc' \in [Thread -> {"idle", "pipe", "pipe2", "cloexec", "fork", "unlock",
                             "parent", "ready", "await"}]
      /\ pc[t] = here /\ pc'[t] = there /\ \A u \in Thread : u # t => pc'[u] = pc[u]
      /\ mainPc = "out" /\ mainPc' = "out" /\ ~killed
  BY <1>1, TypesAfterGoto DEF Pipe
<1>3. PICK p \in Proc : p = mine[t]
  BY <1>1, <1>2, ControlTyped
<1>4. /\ pc' = [pc EXCEPT ![t] = there]
      /\ UNCHANGED <<pool, m_creationMutex, mine, child, mail, deaths, killed>>
  BY DEF Pipe, Goto
<1>5. i \in 1..4 /\ i + 1 \in 1..4 /\ Len(pipes[p]) = i - 1 /\ child[p] = "none"
  <2>1. CASE here = "pipe" /\ there = "pipe2" /\ i = 1
    BY <2>1, <1>1, <1>2, <1>3 DEF LifeInv
  <2>2. CASE here = "pipe2" /\ there = "cloexec" /\ i = 3
    BY <2>2, <1>1, <1>2, <1>3 DEF LifeInv
  <2> QED
    BY <2>1, <2>2
<1> DEFINE M == fds[Master]
           a == Lowest(M)
           half == Open(M, PipeEnd(p, i))
           b == Lowest(half)
           N == Open(half, PipeEnd(p, i + 1))
           pp1 == [pipes EXCEPT ![p] = Append(@, a)]
           pp2 == [pp1 EXCEPT ![p] = Append(@, b)]
           H1 == [EndsOf EXCEPT ![p] = @ \cup {i}]
           H2 == [H1 EXCEPT ![p] = @ \cup {i + 1}]
<1>6. fds' = [fds EXCEPT ![Master] = N] /\ pipes' = [pipes EXCEPT ![p] = @ \o <<a, b>>]
  BY <1>3 DEF Pipe
<1>7. /\ Table(M) /\ pipes \in [Proc -> Seq(Nat)] /\ EndsOf \in [Proc -> SUBSET (1..4)]
      /\ Accounted(M, pipes, EndsOf, Unmarked)
  BY <1>1, <1>2, ControlTyped DEF Shapes, MasterInv
<1>8. a \in Nat /\ Table(half) /\ Accounted(half, pp1, H1, Unmarked \cup {p})
  BY <1>5, <1>7, Opens
<1>9. pp1 \in [Proc -> Seq(Nat)] /\ H1 \in [Proc -> SUBSET (1..4)] /\ Len(pp1[p]) = (i + 1) - 1
  BY <1>5, <1>7, <1>8
<1> HIDE DEF a, half, pp1, H1
<1>10. b \in Nat /\ Table(N) /\ Accounted(N, pp2, H2, (Unmarked \cup {p}) \cup {p})
  BY <1>5, <1>8, <1>9, Opens
<1>11. pipes' = pp2 /\ pp2 \in [Proc -> Seq(Nat)] /\ Len(pp2[p]) = i + 1
       /\ \A q \in Proc : q # p => pp2[q] = pipes[q]
  <2>1. pp1[p] = Append(pipes[p], a) /\ pp2[p] = Append(pp1[p], b)
    BY <1>7, <1>9 DEF pp1
  <2>2. pipes[p] \o <<a, b>> = Append(Append(pipes[p], a), b)
    BY <1>7, <1>8, <1>10
  <2>3. \A q \in Proc : q # p => pp2[q] = pipes[q]
    BY <1>7, <1>9 DEF pp1
  <2>4. pipes' = [pipes EXCEPT ![p] = Append(Append(@, a), b)]
    BY <1>6, <2>2
  <2>5. pp2 = [pipes EXCEPT ![p] = Append(Append(@, a), b)]
    BY <1>7, <1>9 DEF pp1
  <2>6. pp2 \in [Proc -> Seq(Nat)] /\ Len(pp2[p]) = i + 1
    BY <1>5, <1>9, <1>10
  <2> QED
    BY <2>3, <2>4, <2>5, <2>6
<1>12. EndsOf' = H2 /\ Unmarked' = Unmarked \cup {p}
  <2>1. /\ EndsOf' = [EndsOf EXCEPT ![p] = EndsAt(there)]
        /\ Unmarked' = Unmarked \cup {p}
    BY <1>1, <1>2, <1>3, <1>4, EndsStep
  <2>2. EndsOf[p] = EndsAt(here)
    BY <1>1, <1>2, <1>3, EndsOfMine
  <2>3. H2[p] = EndsAt(there)
    BY <1>7, <2>2 DEF H1, EndsAt
  <2> QED
    BY <1>7, <2>1, <2>3 DEF H1
<1> HIDE DEF b, N, pp2, H2
<1>13. MasterInv'
  <2>1. fds'[Master] = N
    BY <1>1, <1>6, ControlTyped DEF Shapes
  <2>2. (Unmarked \cup {p}) \cup {p} = Unmarked \cup {p}
    OBVIOUS
  <2> QED
    BY <1>10, <1>11, <1>12, <2>1, <2>2 DEF MasterInv
<1>14. Shapes' /\ \A q \in Proc : fds'[q] = fds[q]
  <2>1. Master \in Process /\ \A q \in Proc : q \in Process /\ q # Master
    BY <1>1, ControlTyped
  <2>2. /\ \A q \in Process : q # Master => fds'[q] = fds[q]
        /\ fds' = [q \in Process |-> fds'[q]]
        /\ \A q \in Process : Table(fds'[q])
    BY <1>1, <1>6, <1>10, <2>1, OneTable
  <2>3. Shapes'
    BY <1>11, <2>2 DEF Shapes
  <2> QED
    BY <2>1, <2>2, <2>3
<1>15. TypeOK'
  <2>1. \A q \in Process : \A fd \in DOMAIN fds'[q] : fd \in Nat /\ fds'[q][fd] \in Descriptor
    BY <1>14, TablesTyped DEF Shapes
  <2> QED
    BY <1>1, <1>2, <1>4, <1>11, <2>1 DEF TypeOK
<1>16. LifeInv'
  <2>1. /\ there # "idle" /\ there # "pipe" /\ there \notin {"unlock", "parent", "ready", "await"}
        /\ there = "pipe2" => Len(pipes'[p]) = 2
        /\ there \in {"cloexec", "fork"} => Len(pipes'[p]) = 4
    BY <1>11
  <2>2. child'[p] = "none" /\ \A q \in Proc : q # p => child'[q] = child[q] /\ pipes'[q] = pipes[q]
    BY <1>4, <1>5, <1>11
  <2>3. pc' = [pc EXCEPT ![t] = there] /\ UNCHANGED <<mine, pool>> /\ mainPc' = "out"
    BY <1>2, <1>4
  <2> QED
    BY <1>1, <1>3, <2>1, <2>2, <2>3, LifeOfThread
<1>17. ChildInv'
  BY <1>1, <1>3, <1>4, <1>5, <1>11, <1>14, ChildrenStay
<1> QED
  BY <1>13, <1>14, <1>15, <1>16, <1>17 DEF Inv

(* The facts that every step of a constructor or of Daemon::run starts     *)
(* from. *)
LEMMA OwnStep ==
    ASSUME Inv, NEW t \in Thread, NEW here, NEW there, Goto(t, here, there), here # "idle",
           there \in {"pipe", "pipe2", "cloexec", "fork", "unlock", "parent", "ready", "await"},
           UNCHANGED <<pool, mine>>
    PROVE  /\ TypeOK /\ Shapes /\ LifeInv /\ ChildInv
           /\ Accounted(fds[Master], pipes, EndsOf, Unmarked)
           /\ mine[t] \in Proc
           /\ pc' \in [Thread -> {"idle", "pipe", "pipe2", "cloexec", "fork", "unlock",
                                  "parent", "ready", "await"}]
           /\ pc' = [pc EXCEPT ![t] = there]
           /\ pc[t] = here /\ pc'[t] = there /\ \A u \in Thread : u # t => pc'[u] = pc[u]
           /\ mainPc = "out" /\ mainPc' = "out" /\ ~killed
           /\ EndsOf[mine[t]] = EndsAt(here)
           /\ EndsOf' = [EndsOf EXCEPT ![mine[t]] = EndsAt(there)]
           /\ Unmarked' = IF there \in {"pipe2", "cloexec"} THEN Unmarked \cup {mine[t]}
                          ELSE Unmarked \ {mine[t]}
           /\ mine[t] \in Unmarked <=> here \in {"pipe2", "cloexec"}
<1>1. TypeOK /\ Shapes /\ LifeInv /\ MasterInv /\ ChildInv
  BY DEF Inv
<1>2. /\ pc' \in [Thread -> {"idle", "pipe", "pipe2", "cloexec", "fork", "unlock",
                             "parent", "ready", "await"}]
      /\ pc[t] = here /\ pc'[t] = there /\ \A u \in Thread : u # t => pc'[u] = pc[u]
      /\ mainPc = "out" /\ mainPc' = "out" /\ ~killed
  BY <1>1, TypesAfterGoto
<1>3. mine[t] \in Proc
  BY <1>1, <1>2, ControlTyped
<1>4. pc' = [pc EXCEPT ![t] = there] /\ UNCHANGED <<mine, pool, mainPc>>
  BY DEF Goto
<1>5. /\ EndsOf' = [EndsOf EXCEPT ![mine[t]] = EndsAt(there)]
      /\ Unmarked' = IF there \in {"pipe2", "cloexec"} THEN Unmarked \cup {mine[t]}
                     ELSE Unmarked \ {mine[t]}
  BY <1>1, <1>3, <1>4, EndsStep
<1>6. /\ EndsOf[mine[t]] = EndsAt(here)
      /\ mine[t] \in Unmarked <=> here \in {"pipe2", "cloexec"}
  BY <1>1, <1>2, <1>3, EndsOfMine
<1> QED
  BY <1>1, <1>2, <1>3, <1>4, <1>5, <1>6 DEF MasterInv

(* The tables after a step that changes one of them. *)
LEMMA ShapesAfter ==
    ASSUME Shapes, NEW q \in Process, NEW N, Table(N), fds' = [fds EXCEPT ![q] = N],
           UNCHANGED pipes
    PROVE  /\ Shapes'
           /\ fds'[q] = N /\ \A r \in Process : r # q => fds'[r] = fds[r]
           /\ \A r \in Process : \A fd \in DOMAIN fds'[r] : fd \in Nat /\ fds'[r][fd] \in Descriptor
<1>1. /\ fds'[q] = N /\ \A r \in Process : r # q => fds'[r] = fds[r]
      /\ fds' = [r \in Process |-> fds'[r]]
      /\ \A r \in Process : Table(fds'[r])
  BY OneTable
<1>2. \A r \in Process : \A fd \in DOMAIN fds'[r] : fd \in Nat /\ fds'[r][fd] \in Descriptor
  BY <1>1, TablesTyped
<1>3. Shapes'
  BY <1>1 DEF Shapes
<1> QED
  BY <1>1, <1>2, <1>3

LEMMA SetCloexecStep ==
    ASSUME Inv, NEW t \in Thread, SetCloexec(t)
    PROVE  Inv'
<1>1. /\ Goto(t, "cloexec", "fork")
      /\ UNCHANGED <<pool, m_creationMutex, mine, pipes, child, mail, deaths, killed>>
  BY DEF SetCloexec
<1>2. PICK p \in Proc : p = mine[t]
  BY <1>1, OwnStep
<1>3. /\ TypeOK /\ Shapes /\ LifeInv /\ ChildInv /\ Accounted(fds[Master], pipes, EndsOf, Unmarked)
      /\ pc' \in [Thread -> {"idle", "pipe", "pipe2", "cloexec", "fork", "unlock",
                             "parent", "ready", "await"}]
      /\ pc' = [pc EXCEPT ![t] = "fork"]
      /\ pc[t] = "cloexec" /\ pc'[t] = "fork" /\ \A u \in Thread : u # t => pc'[u] = pc[u]
      /\ mainPc = "out" /\ mainPc' = "out" /\ ~killed
      /\ EndsOf[p] = EndsAt("cloexec")
      /\ EndsOf' = [EndsOf EXCEPT ![p] = EndsAt("fork")]
      /\ Unmarked' = Unmarked \ {p}
  BY <1>1, <1>2, OwnStep
<1> DEFINE M == fds[Master]
           N == Mark(M, Range(pipes[p]))
<1>4. fds' = [fds EXCEPT ![Master] = N]
  BY <1>2 DEF SetCloexec
<1>5. Len(pipes[p]) = 4 /\ child[p] = "none"
  BY <1>2, <1>3 DEF LifeInv
<1>6. EndsOf \in [Proc -> SUBSET (1..4)] /\ pipes \in [Proc -> Seq(Nat)] /\ Table(M)
      /\ Master \in Process /\ \A q \in Proc : q \in Process /\ q # Master
  BY <1>3, ControlTyped DEF Shapes
<1>7. EndsOf[p] = 1..Len(pipes[p]) /\ EndsOf' = EndsOf
  BY <1>3, <1>5, <1>6 DEF EndsAt
<1>8. Table(N) /\ Accounted(N, pipes, EndsOf, Unmarked \ {p})
  BY <1>3, <1>6, <1>7, Marks
<1> HIDE DEF N
<1>9. /\ Shapes'
      /\ fds'[Master] = N /\ \A r \in Process : r # Master => fds'[r] = fds[r]
      /\ \A r \in Process : \A fd \in DOMAIN fds'[r] : fd \in Nat /\ fds'[r][fd] \in Descriptor
  BY <1>1, <1>3, <1>4, <1>6, <1>8, ShapesAfter
<1>10. TypeOK'
  BY <1>1, <1>3, <1>6, <1>9 DEF TypeOK
<1>11. LifeInv'
  BY <1>1, <1>2, <1>3, <1>5, LifeOfThread
<1>12. MasterInv'
  BY <1>1, <1>3, <1>7, <1>8, <1>9 DEF MasterInv
<1>13. ChildInv'
  BY <1>1, <1>3, <1>6, <1>9, ChildrenStay
<1> QED
  BY <1>9, <1>10, <1>11, <1>12, <1>13 DEF Inv

(* fork(): the holder of the mutex is the only one that could have         *)
(* inheritable descriptors, and it has none. *)
LEMMA ForkStep ==
    ASSUME Inv, NEW t \in Thread, Fork(t)
    PROVE  Inv'
<1>1. /\ Goto(t, "fork", "unlock")
      /\ UNCHANGED <<pool, m_creationMutex, mine, pipes, mail, deaths, killed>>
  BY DEF Fork
<1>2. PICK p \in Proc : p = mine[t]
  BY <1>1, OwnStep
<1>3. /\ TypeOK /\ Shapes /\ LifeInv /\ ChildInv /\ Accounted(fds[Master], pipes, EndsOf, Unmarked)
      /\ pc' \in [Thread -> {"idle", "pipe", "pipe2", "cloexec", "fork", "unlock",
                             "parent", "ready", "await"}]
      /\ pc' = [pc EXCEPT ![t] = "unlock"]
      /\ pc[t] = "fork" /\ pc'[t] = "unlock" /\ \A u \in Thread : u # t => pc'[u] = pc[u]
      /\ mainPc = "out" /\ mainPc' = "out" /\ ~killed
      /\ EndsOf[p] = EndsAt("fork")
      /\ EndsOf' = [EndsOf EXCEPT ![p] = EndsAt("unlock")]
      /\ Unmarked' = Unmarked \ {p}
      /\ p \notin Unmarked
  BY <1>1, <1>2, OwnStep
<1> DEFINE M == fds[Master]
<1>4. fds' = [fds EXCEPT ![p] = M] /\ child' = [child EXCEPT ![p] = "forked"]
  BY <1>2 DEF Fork
<1>5. Len(pipes[p]) = 4 /\ child[p] = "none"
  BY <1>2, <1>3 DEF LifeInv
<1>6. EndsOf \in [Proc -> SUBSET (1..4)] /\ pipes \in [Proc -> Seq(Nat)] /\ Table(M)
      /\ Master \in Process /\ \A q \in Proc : q \in Process /\ q # Master
  BY <1>3, ControlTyped DEF Shapes
<1>7. EndsOf[p] = 1..4 /\ EndsOf' = EndsOf
  BY <1>3, <1>6 DEF EndsAt
<1>8. Unmarked = {} /\ Unmarked' = {}
  <2>1. \A u \in Thread : pc[u] \notin {"pipe2", "cloexec"}
    BY <1>3 DEF TypeOK
  <2> QED
    BY <1>3, <2>1 DEF Unmarked
<1>9. /\ Shapes'
      /\ fds'[p] = M /\ \A r \in Process : r # p => fds'[r] = fds[r]
      /\ \A r \in Process : \A fd \in DOMAIN fds'[r] : fd \in Nat /\ fds'[r][fd] \in Descriptor
  BY <1>1, <1>3, <1>4, <1>6, ShapesAfter
<1>10. child' \in [Proc -> {"none", "forked", "running", "exited", "reaped"}]
       /\ child'[p] = "forked" /\ \A q \in Proc : q # p => child'[q] = child[q]
  BY <1>3, <1>4 DEF TypeOK
<1>11. TypeOK'
  BY <1>1, <1>3, <1>6, <1>9, <1>10 DEF TypeOK
<1>12. LifeInv'
  BY <1>1, <1>2, <1>3, <1>5, <1>10, LifeOfThread DEF Born
<1>13. MasterInv'
  BY <1>1, <1>3, <1>6, <1>7, <1>8, <1>9 DEF MasterInv
<1>14. CopyOf(M, pipes[p], p)
  <2>1. \A fd \in 0..2 : fd \in DOMAIN M /\ M[fd] = Opened(Terminal)
    BY <1>3 DEF Accounted
  <2>2. ASSUME NEW fd \in DOMAIN M, fd > 2 PROVE M[fd].cloexec
    <3>1. PICK q \in Proc : \E i \in EndsOf[q] : fd = pipes[q][i]
      BY <1>3, <2>2 DEF Accounted
    <3> QED
      BY <1>3, <1>8, <3>1 DEF Accounted
  <2>3. \A i \in 1..4 : pipes[p][i] \in DOMAIN M /\ pipes[p][i] > 2
                        /\ M[pipes[p][i]].end = PipeEnd(p, i)
    BY <1>3, <1>7 DEF Accounted
  <2> QED
    BY <2>1, <2>2, <2>3 DEF CopyOf
<1>15. ChildInv'
  <2> SUFFICES ASSUME NEW q \in Proc
               PROVE  /\ child'[q] = "forked" => CopyOf(fds'[q], pipes[q], q)
                      /\ child'[q] = "running" => fds'[q] = OwnEnds(q)
    BY <1>1 DEF ChildInv, CopyOf, OwnEnds
  <2>1. CASE q = p
    BY <2>1, <1>9, <1>10, <1>14
  <2>2. CASE q # p
    BY <2>2, <1>3, <1>6, <1>9, <1>10 DEF ChildInv
  <2> QED
    BY <2>1, <2>2
<1> QED
  BY <1>9, <1>11, <1>12, <1>13, <1>15 DEF Inv

(* Steps that change no table: what the master has stays what it should.   *)
LEMMA ControlStep ==
    ASSUME Inv, NEW t \in Thread, NEW here, NEW there, Goto(t, here, there),
           here \in {"unlock", "parent", "ready", "await"},
           there \in {"unlock", "parent", "ready", "await"},
           EndsAt(here) = EndsAt(there), UNCHANGED <<pool, mine, pipes, fds, child, killed>>
    PROVE  Shapes' /\ LifeInv' /\ MasterInv' /\ ChildInv'
<1>1. /\ TypeOK /\ Shapes /\ LifeInv /\ ChildInv /\ Accounted(fds[Master], pipes, EndsOf, Unmarked)
      /\ pc' = [pc EXCEPT ![t] = there] /\ pc[t] = here /\ mine[t] \in Proc
      /\ mainPc' = "out" /\ ~killed
      /\ EndsOf[mine[t]] = EndsAt(here)
      /\ EndsOf' = [EndsOf EXCEPT ![mine[t]] = EndsAt(there)]
      /\ Unmarked' = Unmarked \ {mine[t]} /\ mine[t] \notin Unmarked
  BY OwnStep
<1>2. Shapes'
  BY <1>1 DEF Shapes
<1>3. child[mine[t]] \in Born
  BY <1>1 DEF LifeInv
<1>4. Len(pipes[mine[t]]) = 4
  BY <1>1, <1>3 DEF LifeInv, Born
<1>5. LifeInv'
  BY <1>1, <1>3, <1>4, LifeOfThread
<1>6. EndsOf \in [Proc -> SUBSET (1..4)]
  BY <1>1, ControlTyped
<1>7. EndsOf' = EndsOf /\ Unmarked' = Unmarked
  BY <1>1, <1>6
<1>8. MasterInv'
  BY <1>1, <1>7 DEF MasterInv
<1>9. ChildInv'
  BY <1>1, ChildrenStay
<1> QED
  BY <1>2, <1>5, <1>8, <1>9

LEMMA UnlockStep ==
    ASSUME Inv, NEW t \in Thread, Unlock(t)
    PROVE  Inv'
<1>1. /\ Goto(t, "unlock", "parent") /\ m_creationMutex' = NoThread
      /\ UNCHANGED <<pool, mine, pipes, fds, child, mail, deaths, killed>>
  BY DEF Unlock
<1>2. Shapes' /\ LifeInv' /\ MasterInv' /\ ChildInv'
  BY <1>1, ControlStep DEF EndsAt
<1>3. /\ TypeOK /\ mainPc' = "out"
      /\ pc' \in [Thread -> {"idle", "pipe", "pipe2", "cloexec", "fork", "unlock",
                             "parent", "ready", "await"}]
      /\ pc[t] = "unlock" /\ pc'[t] = "parent" /\ \A u \in Thread : u # t => pc'[u] = pc[u]
  BY <1>1, OwnStep
<1>4. TypeOK'
  <2>1. \A u \in Thread : u # t => pc[u] \notin {"pipe", "pipe2", "cloexec", "fork", "unlock"}
    BY <1>3 DEF TypeOK
  <2>2. \A u \in Thread : m_creationMutex' # u
                          /\ pc'[u] \notin {"pipe", "pipe2", "cloexec", "fork", "unlock"}
    BY <1>1, <1>3, <2>1, ProcessAssumption DEF ProcessAssumption
  <2> QED
    BY <1>1, <1>3, <2>2 DEF TypeOK
<1> QED
  BY <1>2, <1>4 DEF Inv

LEMMA ReadAnswerStep ==
    ASSUME Inv, NEW t \in Thread, ReadAnswer(t)
    PROVE  Inv'
<1>1. /\ Goto(t, "await", "ready") /\ mail' = [mail EXCEPT ![mine[t]] = "read"]
      /\ UNCHANGED <<pool, m_creationMutex, mine, pipes, fds, child, deaths, killed>>
  BY DEF ReadAnswer
<1>2. Shapes' /\ LifeInv' /\ MasterInv' /\ ChildInv'
  BY <1>1, ControlStep DEF EndsAt
<1>3. /\ TypeOK /\ mainPc' = "out"
      /\ pc' \in [Thread -> {"idle", "pipe", "pipe2", "cloexec", "fork", "unlock",
                             "parent", "ready", "await"}]
      /\ pc[t] = "await" /\ pc'[t] = "ready" /\ \A u \in Thread : u # t => pc'[u] = pc[u]
  BY <1>1, OwnStep
<1>4. TypeOK'
  BY <1>1, <1>3 DEF TypeOK
<1> QED
  BY <1>2, <1>4 DEF Inv

(* SIGPIPE takes the master's table away; nothing is said of it then.      *)
LEMMA SendRequestStep ==
    ASSUME Inv, NEW t \in Thread, SendRequest(t)
    PROVE  Inv'
<1>1. /\ Goto(t, "ready", "await")
      /\ UNCHANGED <<pool, m_creationMutex, mine, pipes, child, deaths>>
  BY DEF SendRequest
<1>2. /\ TypeOK /\ Shapes /\ LifeInv /\ ChildInv /\ mainPc' = "out" /\ mine[t] \in Proc
      /\ pc' \in [Thread -> {"idle", "pipe", "pipe2", "cloexec", "fork", "unlock",
                             "parent", "ready", "await"}]
      /\ pc' = [pc EXCEPT ![t] = "await"]
      /\ pc[t] = "ready" /\ pc'[t] = "await" /\ \A u \in Thread : u # t => pc'[u] = pc[u]
  BY <1>1, OwnStep
<1>3. Master \in Process /\ \A q \in Proc : q \in Process /\ q # Master
  BY <1>2, ControlTyped
<1>4. CASE mail' = [mail EXCEPT ![mine[t]] = "request"] /\ UNCHANGED <<pool, fds, killed>>
  <2>1. Shapes' /\ LifeInv' /\ MasterInv' /\ ChildInv'
    BY <1>1, <1>4, ControlStep DEF EndsAt
  <2>2. TypeOK'
    BY <1>1, <1>2, <1>4 DEF TypeOK
  <2> QED
    BY <2>1, <2>2 DEF Inv
<1>5. CASE killed' = TRUE /\ fds' = [fds EXCEPT ![Master] = Nothing] /\ UNCHANGED mail
  <2>1. Table(Nothing)
    <3>1. DOMAIN Nothing = {}
      BY DEF Nothing
    <3> QED
      BY <3>1, FS_EmptySet DEF Table
  <2>2. /\ Shapes'
        /\ \A r \in Process : r # Master => fds'[r] = fds[r]
        /\ \A r \in Process : \A fd \in DOMAIN fds'[r] : fd \in Nat /\ fds'[r][fd] \in Descriptor
    BY <1>1, <1>2, <1>3, <1>5, <2>1, ShapesAfter
  <2>3. TypeOK'
    BY <1>1, <1>2, <1>5, <2>2 DEF TypeOK
  <2>4. child[mine[t]] \in Born
    BY <1>2 DEF LifeInv
  <2>5. Len(pipes[mine[t]]) = 4
    BY <1>2, <2>4 DEF LifeInv, Born
  <2>6. LifeInv'
    BY <1>1, <1>2, <2>4, <2>5, LifeOfThread
  <2>7. MasterInv'
    BY <1>5 DEF MasterInv
  <2>8. ChildInv'
    BY <1>1, <1>2, <1>3, <2>2, ChildrenStay
  <2> QED
    BY <2>2, <2>3, <2>6, <2>7, <2>8 DEF Inv
<1> QED
  BY <1>4, <1>5 DEF SendRequest

(* The rest of the constructor closes the child's ends in the master, by   *)
(* the numbers it remembers: they name these ends still. *)
LEMMA CloseInParentStep ==
    ASSUME Inv, NEW t \in Thread, CloseInParent(t)
    PROVE  Inv'
<1>1. /\ Goto(t, "parent", "ready")
      /\ UNCHANGED <<pool, m_creationMutex, mine, pipes, child, mail, deaths, killed>>
  BY DEF CloseInParent
<1>2. PICK p \in Proc : p = mine[t]
  BY <1>1, OwnStep
<1>3. /\ TypeOK /\ Shapes /\ LifeInv /\ ChildInv /\ Accounted(fds[Master], pipes, EndsOf, Unmarked)
      /\ pc' \in [Thread -> {"idle", "pipe", "pipe2", "cloexec", "fork", "unlock",
                             "parent", "ready", "await"}]
      /\ pc' = [pc EXCEPT ![t] = "ready"]
      /\ pc[t] = "parent" /\ pc'[t] = "ready" /\ \A u \in Thread : u # t => pc'[u] = pc[u]
      /\ mainPc = "out" /\ mainPc' = "out" /\ ~killed
      /\ EndsOf[p] = EndsAt("parent")
      /\ EndsOf' = [EndsOf EXCEPT ![p] = EndsAt("ready")]
      /\ Unmarked' = Unmarked \ {p} /\ p \notin Unmarked
  BY <1>1, <1>2, OwnStep
<1> DEFINE M == fds[Master]
           N == Close(M, Numbers(pipes, p, {1, 4}))
<1>4. fds' = [fds EXCEPT ![Master] = N]
  <2>1. fds' = [fds EXCEPT ![Master] = Close(M, {pipes[p][1], pipes[p][4]})]
    BY <1>2 DEF CloseInParent
  <2>2. {pipes[p][1], pipes[p][4]} = Numbers(pipes, p, {1, 4})
    BY DEF Numbers
  <2> QED
    BY <2>1, <2>2
<1>5. child[p] \in Born
  BY <1>2, <1>3 DEF LifeInv
<1>6. Len(pipes[p]) = 4
  BY <1>3, <1>5 DEF LifeInv, Born
<1>7. EndsOf \in [Proc -> SUBSET (1..4)] /\ pipes \in [Proc -> Seq(Nat)] /\ Table(M)
      /\ Master \in Process /\ \A q \in Proc : q \in Process /\ q # Master
  BY <1>3, ControlTyped DEF Shapes
<1>8. EndsOf' = [EndsOf EXCEPT ![p] = @ \ {1, 4}] /\ {1, 4} \subseteq EndsOf[p]
      /\ Unmarked' = Unmarked
  <2>1. EndsOf[p] = {1, 2, 3, 4} /\ EndsOf' = [EndsOf EXCEPT ![p] = {2, 3}]
    BY <1>3 DEF EndsAt
  <2>2. EndsOf[p] \ {1, 4} = {2, 3} /\ {1, 4} \subseteq EndsOf[p]
    BY <2>1
  <2>3. EndsOf' = [EndsOf EXCEPT ![p] = EndsOf[p] \ {1, 4}]
    BY <2>1, <2>2
  <2>4. Unmarked' = Unmarked
    BY <1>3
  <2> QED
    BY <2>2, <2>3, <2>4
<1>9. Table(N) /\ Accounted(N, pipes, EndsOf', Unmarked)
  <2>1. N = Close(M, Numbers(pipes, p, {1, 4})) /\ {1, 4} \in SUBSET EndsOf[p]
    BY <1>8
  <2> HIDE DEF N
  <2>2. Table(N) /\ Accounted(N, pipes, [EndsOf EXCEPT ![p] = @ \ {1, 4}], Unmarked)
    BY <1>3, <1>7, <2>1, Closes
  <2> QED
    BY <1>8, <2>2
<1> HIDE DEF N
<1>10. /\ Shapes'
       /\ fds'[Master] = N /\ \A r \in Process : r # Master => fds'[r] = fds[r]
       /\ \A r \in Process : \A fd \in DOMAIN fds'[r] : fd \in Nat /\ fds'[r][fd] \in Descriptor
  BY <1>1, <1>3, <1>4, <1>7, <1>9, ShapesAfter
<1>11. TypeOK'
  BY <1>1, <1>3, <1>7, <1>10 DEF TypeOK
<1>12. LifeInv'
  BY <1>1, <1>2, <1>3, <1>5, <1>6, LifeOfThread
<1>13. MasterInv'
  BY <1>1, <1>8, <1>9, <1>10 DEF MasterInv
<1>14. ChildInv'
  BY <1>1, <1>3, <1>7, <1>10, ChildrenStay
<1> QED
  BY <1>10, <1>11, <1>12, <1>13, <1>14 DEF Inv

(* The Process passes from the thread to the pool with its two ends.       *)
LEMMA ReleaseStep ==
    ASSUME Inv, NEW t \in Thread, Release(t)
    PROVE  Inv'
<1>1. TypeOK /\ Shapes /\ LifeInv /\ MasterInv /\ ChildInv
  BY DEF Inv
<1>2. /\ Goto(t, "ready", "idle") /\ pc' = [pc EXCEPT ![t] = "idle"]
      /\ UNCHANGED <<m_creationMutex, pipes, fds, child, mail, deaths, killed>>
  BY DEF Release, Goto
<1>3. /\ pc' \in [Thread -> {"idle", "pipe", "pipe2", "cloexec", "fork", "unlock",
                             "parent", "ready", "await"}]
      /\ pc[t] = "ready" /\ pc'[t] = "idle" /\ \A u \in Thread : u # t => pc'[u] = pc[u]
      /\ mainPc = "out" /\ mainPc' = "out" /\ ~killed
  BY <1>1, <1>2, TypesAfterGoto
<1>4. PICK p \in Proc : p = mine[t]
  BY <1>1, <1>3, ControlTyped
<1>5. pool' = Append(pool, p) /\ mine' = [mine EXCEPT ![t] = NoProc]
  BY <1>4 DEF Release
<1>6. /\ mine' \in [Thread -> Proc \cup {NoProc}] /\ mine'[t] = NoProc
      /\ \A u \in Thread : u # t => mine'[u] = mine[u] /\ mine[u] # p
      /\ NoProc \notin Proc
  BY <1>1, <1>4, <1>5, ProcessAssumption DEF TypeOK, LifeInv, ProcessAssumption
<1>7. /\ pool \in Seq(Proc) /\ pool' \in Seq(Proc)
      /\ Len(pool) \in Nat /\ Len(pool') = Len(pool) + 1
      /\ pool'[Len(pool) + 1] = p /\ \A k \in 1..Len(pool) : pool'[k] = pool[k]
  BY <1>1, <1>5 DEF TypeOK
<1>8. \A k \in 1..Len(pool) : pool[k] # p
  BY <1>1, <1>4 DEF LifeInv
<1>9. TypeOK'
  BY <1>1, <1>2, <1>3, <1>6, <1>7 DEF TypeOK
<1>10. Shapes'
  BY <1>1, <1>2 DEF Shapes
<1>11. child[p] \in Born
  BY <1>1, <1>3, <1>4 DEF LifeInv
<1>12. LifeInv'
  <2>1. \A u \in Thread : mine'[u] = NoProc <=> pc'[u] = "idle"
    BY <1>1, <1>3, <1>6 DEF LifeInv
  <2>2. \A u, v \in Thread : mine'[u] = mine'[v] /\ mine'[u] # NoProc => u = v
    BY <1>1, <1>6 DEF LifeInv
  <2>3. ASSUME NEW q \in Proc, child[q] = "none", \A u \in Thread : mine'[u] # q
        PROVE  Len(pipes[q]) = 0
    <3>1. q # p
      BY <2>3, <1>11 DEF Born
    <3>2. \A u \in Thread : mine[u] # q
      BY <2>3, <3>1, <1>4, <1>6
    <3> QED
      BY <2>3, <3>2, <1>1 DEF LifeInv
  <2>4. ASSUME NEW k \in 1..Len(pool')
        PROVE  child[pool'[k]] \in Born /\ \A u \in Thread : mine'[u] # pool'[k]
    <3>1. CASE k = Len(pool) + 1
      BY <3>1, <1>4, <1>6, <1>7, <1>11
    <3>2. CASE k \in 1..Len(pool)
      <4>1. pool'[k] = pool[k] /\ pool[k] \in Proc
        BY <3>2, <1>7
      <4>2. child[pool[k]] \in Born /\ \A u \in Thread : mine[u] # pool[k]
        BY <3>2, <1>1 DEF LifeInv
      <4> QED
        BY <4>1, <4>2, <1>6
    <3> QED
      BY <3>1, <3>2, <1>7
  <2>5. ASSUME NEW k \in 1..Len(pool'), NEW l \in 1..Len(pool'), pool'[k] = pool'[l]
        PROVE  k = l
    BY <2>5, <1>1, <1>7, <1>8 DEF LifeInv
  <2>6. \A u \in Thread : pc'[u] # "idle" => u # t
    BY <1>3
  <2>7. /\ \A u \in Thread : pc'[u] \in {"pipe", "pipe2", "cloexec", "fork"} =>
              child[mine'[u]] = "none"
        /\ \A u \in Thread : pc'[u] \in {"unlock", "parent", "ready", "await"} =>
              child[mine'[u]] \in Born
        /\ \A u \in Thread : pc'[u] = "pipe" => Len(pipes[mine'[u]]) = 0
        /\ \A u \in Thread : pc'[u] = "pipe2" => Len(pipes[mine'[u]]) = 2
        /\ \A u \in Thread : pc'[u] \in {"cloexec", "fork"} => Len(pipes[mine'[u]]) = 4
    BY <2>6, <1>1, <1>3, <1>6 DEF LifeInv
  <2>8. \A q \in Proc : child[q] # "none" => Len(pipes[q]) = 4
    BY <1>1 DEF LifeInv
  <2> QED
    BY <1>2, <1>3, <2>1, <2>2, <2>3, <2>4, <2>5, <2>7, <2>8 DEF LifeInv
<1>13. EndsOf' = EndsOf /\ Unmarked' = Unmarked
  <2>1. \A q \in Proc : q # p => (Pooled(q)' <=> Pooled(q))
    <3> SUFFICES ASSUME NEW q \in Proc, q # p
                 PROVE  (\E k \in 1..Len(pool') : pool'[k] = q)
                        <=> (\E k \in 1..Len(pool) : pool[k] = q)
      BY <1>3 DEF Pooled
    <3> QED
      BY <1>7
  <2>2. Pooled(p)'
    BY <1>3, <1>7 DEF Pooled
  <2>3. ASSUME NEW q \in Proc
        PROVE  EndsOf'[q] = EndsOf[q] /\ (q \in Unmarked' <=> q \in Unmarked)
    <3>1. CASE q = p
      <4>1. EndsOf[p] = {2, 3} /\ p \notin Unmarked
        BY <1>1, <1>3, <1>4, EndsOfMine DEF EndsAt
      <4>2. \A u \in Thread : mine'[u] # p
        BY <1>6
      <4> QED
        BY <3>1, <2>2, <4>1, <4>2 DEF EndsOf, Unmarked
    <3>2. CASE q # p
      <4>1. \A i : (\E u \in Thread : mine'[u] = q /\ i \in EndsAt(pc'[u]))
                   <=> (\E u \in Thread : mine[u] = q /\ i \in EndsAt(pc[u]))
        BY <3>2, <1>3, <1>4, <1>6
      <4>2. (\E u \in Thread : mine'[u] = q /\ pc'[u] \in {"pipe2", "cloexec"})
            <=> (\E u \in Thread : mine[u] = q /\ pc[u] \in {"pipe2", "cloexec"})
        BY <3>2, <1>3, <1>4, <1>6
      <4> QED
        BY <3>2, <2>1, <4>1, <4>2 DEF EndsOf, Unmarked
    <3> QED
      BY <3>1, <3>2
  <2> QED
    BY <2>3 DEF EndsOf, Unmarked
<1>14. MasterInv'
  BY <1>1, <1>2, <1>13 DEF MasterInv
<1>15. ChildInv'
  BY <1>1, <1>2, ChildrenStay
<1> QED
  BY <1>9, <1>10, <1>12, <1>14, <1>15 DEF Inv
-----------------------------------------------------------------------------
(* The main thread.  A step of it leaves every thread where it is. *)
LEMMA MainStep ==
    ASSUME Inv, NEW here, NEW there, MainGoto(here, there),
           there \in {"out", "delete", "wait", "done"}
    PROVE  /\ TypeOK /\ Shapes /\ LifeInv /\ ChildInv /\ ~killed
           /\ Accounted(fds[Master], pipes, EndsOf, Unmarked)
           /\ mainPc = here /\ mainPc' = there
           /\ Unmarked' = Unmarked
           /\ UNCHANGED <<m_creationMutex, pc, pipes, mine, mail, deaths, killed>>
BY DEF Inv, MasterInv, MainGoto, Alive, Unmarked

(* The ends of each Process depend on which of them are in the pool. *)
LEMMA SamePool ==
    ASSUME UNCHANGED <<pc, mine>>, \A p \in Proc : Pooled(p)' <=> Pooled(p)
    PROVE  EndsOf' = EndsOf
BY DEF EndsOf

LEMMA DestroyStep ==
    ASSUME Inv, Destroy \/ Destroyed
    PROVE  Inv'
<1>1. /\ TypeOK /\ Shapes /\ LifeInv /\ ChildInv /\ ~killed
      /\ Accounted(fds[Master], pipes, EndsOf, Unmarked)
      /\ mainPc # "wait" /\ mainPc' # "wait" /\ mainPc' \in {"delete", "done"}
      /\ Unmarked' = Unmarked
      /\ UNCHANGED <<m_creationMutex, pc, pipes, mine, mail, deaths, killed>>
      /\ UNCHANGED <<pool, fds, child>>
  BY MainStep DEF Destroy, Destroyed
<1>2. EndsOf' = EndsOf
  <2>1. \A p \in Proc : Pooled(p)' <=> Pooled(p)
    BY <1>1 DEF Pooled
  <2> QED
    BY <1>1, <2>1, SamePool
<1>3. TypeOK'
  BY <1>1 DEF TypeOK
<1>4. Shapes'
  BY <1>1 DEF Shapes
<1>5. LifeInv'
  BY <1>1 DEF LifeInv
<1>6. MasterInv'
  BY <1>1, <1>2 DEF MasterInv
<1>7. ChildInv'
  BY <1>1, ChildrenStay
<1> QED
  BY <1>3, <1>4, <1>5, <1>6, <1>7 DEF Inv

(* wait() closes the two ends that are left, by their numbers. *)
LEMMA ClosePipesStep ==
    ASSUME Inv, ClosePipes
    PROVE  Inv'
<1>1. /\ TypeOK /\ Shapes /\ LifeInv /\ ChildInv /\ ~killed
      /\ Accounted(fds[Master], pipes, EndsOf, Unmarked)
      /\ mainPc = "delete" /\ mainPc' = "wait" /\ pool # <<>>
      /\ Unmarked' = Unmarked
      /\ UNCHANGED <<m_creationMutex, pc, pipes, mine, mail, deaths, killed>>
      /\ UNCHANGED <<pool, child>>
  BY MainStep DEF ClosePipes
<1>2. /\ pool \in Seq(Proc) /\ Len(pool) \in Nat /\ 1 \in 1..Len(pool)
      /\ Head(pool) = pool[1] /\ pool[1] \in Proc
  BY <1>1 DEF TypeOK
<1>3. PICK p \in Proc : p = pool[1]
  BY <1>2
<1> DEFINE M == fds[Master]
           N == Close(M, Numbers(pipes, p, {2, 3}))
<1>4. fds' = [fds EXCEPT ![Master] = N]
  <2>1. fds' = [fds EXCEPT ![Master] = Close(M, {pipes[p][2], pipes[p][3]})]
    BY <1>2, <1>3 DEF ClosePipes
  <2>2. {pipes[p][2], pipes[p][3]} = Numbers(pipes, p, {2, 3})
    BY DEF Numbers
  <2> QED
    BY <2>1, <2>2
<1>5. EndsOf \in [Proc -> SUBSET (1..4)] /\ pipes \in [Proc -> Seq(Nat)] /\ Table(M)
      /\ Master \in Process /\ \A q \in Proc : q \in Process /\ q # Master
  BY <1>1, ControlTyped DEF Shapes
<1>6. Pooled(p) /\ ~Pooled(p)' /\ \A q \in Proc : q # p => (Pooled(q)' <=> Pooled(q))
  <2>1. \A k \in 1..Len(pool) : pool[k] = p => k = 1
    BY <1>1, <1>2, <1>3 DEF LifeInv
  <2> QED
    BY <1>1, <1>2, <1>3, <2>1 DEF Pooled
<1>7. EndsOf[p] = {2, 3} /\ p \notin Unmarked /\ \A t \in Thread : mine[t] # p
  BY <1>1, <1>2, <1>3, <1>6, EndsOfPooled DEF LifeInv
<1>8. EndsOf' = [EndsOf EXCEPT ![p] = @ \ {2, 3}]
  <2>1. EndsOf'[p] = {}
    BY <1>1, <1>6, <1>7 DEF EndsOf
  <2>2. \A q \in Proc : q # p => EndsOf'[q] = EndsOf[q]
    BY <1>1, <1>6 DEF EndsOf
  <2>3. EndsOf' \in [Proc -> SUBSET (1..4)]
    BY DEF EndsOf
  <2>4. EndsOf[p] \ {2, 3} = {}
    BY <1>7
  <2> QED
    BY <1>5, <2>1, <2>2, <2>3, <2>4
<1>9. N = Close(M, Numbers(pipes, p, {2, 3})) /\ {2, 3} \in SUBSET EndsOf[p]
  BY <1>7
<1> HIDE DEF N
<1>10. Table(N) /\ Accounted(N, pipes, [EndsOf EXCEPT ![p] = @ \ {2, 3}], Unmarked)
  BY <1>1, <1>5, <1>9, Closes
<1>11. /\ Shapes'
       /\ fds'[Master] = N /\ \A r \in Process : r # Master => fds'[r] = fds[r]
       /\ \A r \in Process : \A fd \in DOMAIN fds'[r] : fd \in Nat /\ fds'[r][fd] \in Descriptor
  BY <1>1, <1>4, <1>5, <1>10, ShapesAfter
<1>12. TypeOK'
  BY <1>1, <1>5, <1>11 DEF TypeOK
<1>13. LifeInv'
  BY <1>1 DEF LifeInv
<1>14. MasterInv'
  BY <1>1, <1>8, <1>10, <1>11 DEF MasterInv
<1>15. ChildInv'
  BY <1>1, <1>5, <1>11, ChildrenStay
<1> QED
  BY <1>11, <1>12, <1>13, <1>14, <1>15 DEF Inv

LEMMA ReapStep ==
    ASSUME Inv, Reap
    PROVE  Inv'
<1>1. /\ TypeOK /\ Shapes /\ LifeInv /\ ChildInv /\ ~killed
      /\ Accounted(fds[Master], pipes, EndsOf, Unmarked)
      /\ mainPc = "wait" /\ mainPc' = "delete"
      /\ Unmarked' = Unmarked
      /\ UNCHANGED <<m_creationMutex, pc, pipes, mine, mail, deaths, killed>>
      /\ UNCHANGED fds
  BY MainStep DEF Reap
<1>2. /\ pool \in Seq(Proc) /\ Len(pool) \in Nat /\ 1 \in 1..Len(pool) /\ pool # <<>>
      /\ Head(pool) = pool[1] /\ pool[1] \in Proc
  BY <1>1 DEF TypeOK, LifeInv
<1>3. PICK p \in Proc : p = pool[1]
  BY <1>2
<1>4. child[p] = "exited" /\ child' = [child EXCEPT ![p] = "reaped"] /\ pool' = Tail(pool)
  BY <1>2, <1>3 DEF Reap
<1>5. /\ pool' \in Seq(Proc) /\ Len(pool') = Len(pool) - 1
      /\ \A k \in 1..Len(pool') : k + 1 \in 1..Len(pool) /\ pool'[k] = pool[k + 1]
  BY <1>2, <1>4
<1>6. /\ child' \in [Proc -> {"none", "forked", "running", "exited", "reaped"}]
      /\ child'[p] = "reaped" /\ \A q \in Proc : q # p => child'[q] = child[q]
  BY <1>1, <1>4 DEF TypeOK
<1>7. \A k \in 1..Len(pool') : pool'[k] # p /\ pool'[k] \in Proc
  BY <1>1, <1>2, <1>3, <1>5 DEF LifeInv
<1>8. \A t \in Thread : mine[t] # p
  BY <1>1, <1>2, <1>3 DEF LifeInv
<1>9. EndsOf' = EndsOf
  <2>1. ASSUME NEW q \in Proc PROVE Pooled(q)' <=> Pooled(q)
    <3>1. (\E k \in 1..Len(pool') : pool'[k] = q) <=> (\E k \in 1..Len(pool) : pool[k] = q /\ k # 1)
      <4>1. ASSUME NEW k \in 1..Len(pool), k # 1
            PROVE  k - 1 \in 1..Len(pool') /\ pool'[k - 1] = pool[k]
        <5>1. k - 1 \in 1..Len(pool')
          BY <4>1, <1>2, <1>5
        <5> QED
          BY <5>1, <1>5
      <4> QED
        BY <4>1, <1>2, <1>5
    <3> QED
      BY <3>1, <1>1 DEF Pooled
  <2> QED
    BY <1>1, <2>1, SamePool
<1>10. TypeOK'
  BY <1>1, <1>5, <1>6 DEF TypeOK
<1>11. Shapes'
  BY <1>1 DEF Shapes
<1>12. LifeInv'
  <2>1. /\ \A t, u \in Thread : mine[t] = mine[u] /\ mine[t] # NoProc => t = u
        /\ \A t \in Thread : mine[t] = NoProc <=> pc[t] = "idle"
    BY <1>1 DEF LifeInv
  <2>2. \A t \in Thread : pc[t] # "idle" => child'[mine[t]] = child[mine[t]]
    <3>1. \A t \in Thread : pc[t] # "idle" => mine[t] \in Proc
      BY <1>1, ControlTyped
    <3> QED
      BY <3>1, <1>6, <1>8
  <2>3. /\ \A t \in Thread : pc[t] \in {"pipe", "pipe2", "cloexec", "fork"} =>
              child'[mine[t]] = "none"
        /\ \A t \in Thread : pc[t] \in {"unlock", "parent", "ready", "await"} =>
              child'[mine[t]] \in Born
        /\ \A t \in Thread : pc[t] = "pipe" => Len(pipes[mine[t]]) = 0
        /\ \A t \in Thread : pc[t] = "pipe2" => Len(pipes[mine[t]]) = 2
        /\ \A t \in Thread : pc[t] \in {"cloexec", "fork"} => Len(pipes[mine[t]]) = 4
    BY <1>1, <2>2 DEF LifeInv
  <2>4. \A q \in Proc : child'[q] # "none" => Len(pipes[q]) = 4
    BY <1>1, <1>4, <1>6 DEF LifeInv
  <2>5. \A q \in Proc : child'[q] = "none" /\ (\A t \in Thread : mine[t] # q) => Len(pipes[q]) = 0
    BY <1>1, <1>6 DEF LifeInv
  <2>6. ASSUME NEW k \in 1..Len(pool')
        PROVE  child'[pool'[k]] \in Born /\ \A t \in Thread : mine[t] # pool'[k]
    <3>1. k + 1 \in 1..Len(pool) /\ pool'[k] = pool[k + 1]
      BY <1>5
    <3>2. child[pool[k + 1]] \in Born /\ \A t \in Thread : mine[t] # pool[k + 1]
      BY <1>1, <3>1 DEF LifeInv
    <3> QED
      BY <3>1, <3>2, <1>6, <1>7
  <2>7. ASSUME NEW k \in 1..Len(pool'), NEW l \in 1..Len(pool'), pool'[k] = pool'[l]
        PROVE  k = l
    <3>1. /\ k + 1 \in 1..Len(pool) /\ l + 1 \in 1..Len(pool)
          /\ pool[k + 1] = pool[l + 1]
      BY <2>7, <1>5
    <3>2. k + 1 = l + 1
      BY <1>1, <3>1 DEF LifeInv
    <3> QED
      BY <3>2
  <2> QED
    BY <1>1, <2>1, <2>3, <2>4, <2>5, <2>6, <2>7 DEF LifeInv
<1>13. MasterInv'
  BY <1>1, <1>9 DEF MasterInv
<1>14. ChildInv'
  BY <1>1, <1>6, ChildrenStay
<1> QED
  BY <1>10, <1>11, <1>12, <1>13, <1>14 DEF Inv
-----------------------------------------------------------------------------
(* The children.  A step of one changes its own table and state, to those  *)
(* of another state of a child that lives or has lived. *)
LEMMA ChildStepKeeps ==
    ASSUME Inv, NEW p \in Proc, NEW from \in {"forked", "running"},
           NEW to \in {"running", "exited"}, ChildStep(p, from, to),
           NEW N, Table(N), fds' = [fds EXCEPT ![p] = N],
           to = "running" => N = OwnEnds(p),
           mail' \in [Proc -> {"none", "request", "answer", "read"}], deaths' \in 0..MaxDeaths
    PROVE  Inv'
<1>1. TypeOK /\ Shapes /\ LifeInv /\ MasterInv /\ ChildInv
  BY DEF Inv
<1>2. /\ child[p] = from /\ child' = [child EXCEPT ![p] = to]
      /\ UNCHANGED <<m_creationMutex, pc, mine, pipes, pool, mainPc, killed>>
  BY DEF ChildStep, threadVars, poolVars
<1>3. /\ child' \in [Proc -> {"none", "forked", "running", "exited", "reaped"}]
      /\ child'[p] = to /\ \A q \in Proc : q # p => child'[q] = child[q]
  BY <1>1, <1>2 DEF TypeOK
<1>4. Master \in Process /\ \A q \in Proc : q \in Process /\ q # Master
  BY <1>1, ControlTyped
<1>5. /\ Shapes'
      /\ fds'[p] = N /\ \A r \in Process : r # p => fds'[r] = fds[r]
      /\ \A r \in Process : \A fd \in DOMAIN fds'[r] : fd \in Nat /\ fds'[r][fd] \in Descriptor
  BY <1>1, <1>2, <1>4, ShapesAfter
<1>6. TypeOK'
  BY <1>1, <1>2, <1>3, <1>5 DEF TypeOK
<1>7. LifeInv'
  <2>1. \A q \in Proc : (child[q] = "none" <=> child'[q] = "none")
                        /\ (child[q] \in Born => child'[q] \in Born)
    BY <1>2, <1>3 DEF Born
  <2>2. \A t \in Thread : pc[t] # "idle" => mine[t] \in Proc
    BY <1>1, ControlTyped
  <2>3. \A k \in 1..Len(pool) : pool[k] \in Proc
    BY <1>1 DEF TypeOK
  <2>4. \A t \in Thread : pc[t] \in {"pipe", "pipe2", "cloexec", "fork"} => child'[mine[t]] = "none"
    BY <1>1, <2>1, <2>2 DEF LifeInv
  <2>5. \A t \in Thread : pc[t] \in {"unlock", "parent", "ready", "await"} =>
           child'[mine[t]] \in Born
    BY <1>1, <2>1, <2>2 DEF LifeInv
  <2> QED
    BY <1>1, <1>2, <2>1, <2>3, <2>4, <2>5 DEF LifeInv
<1>8. MasterInv'
  <2>1. EndsOf' = EndsOf /\ Unmarked' = Unmarked
    BY <1>2, SamePool DEF Unmarked, Pooled
  <2>2. fds'[Master] = fds[Master]
    BY <1>4, <1>5
  <2> QED
    BY <1>1, <1>2, <2>1, <2>2 DEF MasterInv
<1>9. ChildInv'
  <2> SUFFICES ASSUME NEW q \in Proc
               PROVE  /\ child'[q] = "forked" => CopyOf(fds'[q], pipes[q], q)
                      /\ child'[q] = "running" => fds'[q] = OwnEnds(q)
    BY <1>2 DEF ChildInv, CopyOf, OwnEnds
  <2>1. CASE q = p
    BY <2>1, <1>3, <1>5
  <2>2. CASE q # p
    BY <2>2, <1>1, <1>3, <1>4, <1>5 DEF ChildInv
  <2> QED
    BY <2>1, <2>2
<1> QED
  BY <1>5, <1>6, <1>7, <1>8, <1>9 DEF Inv

LEMMA ExitsStep ==
    ASSUME Inv, NEW p \in Proc, NEW from \in {"forked", "running"}, Exits(p, from),
           deaths' \in 0..MaxDeaths
    PROVE  Inv'
<1>1. Table(Nothing)
  <2>1. DOMAIN Nothing = {}
    BY DEF Nothing
  <2> QED
    BY <2>1, FS_EmptySet DEF Table
<1>2. mail' \in [Proc -> {"none", "request", "answer", "read"}]
  BY DEF Exits, Inv, TypeOK
<1>3. ChildStep(p, from, "exited") /\ fds' = [fds EXCEPT ![p] = Nothing]
  BY DEF Exits
<1> HIDE DEF Nothing
<1> QED
  BY <1>1, <1>2, <1>3, ChildStepKeeps

LEMMA OwnEndsTable ==
    ASSUME NEW p \in Proc
    PROVE  Table(OwnEnds(p))
<1>1. DOMAIN OwnEnds(p) = 0..2
  BY DEF OwnEnds
<1>2. InRead(p) \in End /\ OutWrite(p) \in End /\ Terminal \in End
  BY DEF End
<1>3. \A fd \in 0..2 : OwnEnds(p)[fd] \in Descriptor
  BY <1>2 DEF OwnEnds, Opened, Descriptor
<1> QED
  BY <1>1, <1>3, StandardFinite DEF Table

LEMMA ExecStep ==
    ASSUME Inv, NEW p \in Proc, Exec(p)
    PROVE  Inv'
<1>1. TypeOK /\ Shapes /\ LifeInv /\ ChildInv /\ p \in Process
  BY DEF Inv, Process
<1>2. ChildStep(p, "forked", "running") /\ child[p] = "forked" /\ UNCHANGED <<mail, deaths>>
  BY DEF Exec, ChildStep
<1>3. Table(fds[p]) /\ pipes[p] \in Seq(Nat) /\ Len(pipes[p]) = 4 /\ CopyOf(fds[p], pipes[p], p)
  BY <1>1, <1>2 DEF Shapes, LifeInv, ChildInv
<1>4. fds' = [fds EXCEPT ![p] = OwnEnds(p)]
  BY <1>3, Keeps DEF Exec
<1>5. mail' \in [Proc -> {"none", "request", "answer", "read"}] /\ deaths' \in 0..MaxDeaths
  BY <1>1, <1>2 DEF TypeOK
<1> QED
  BY <1>2, <1>4, <1>5, OwnEndsTable, ChildStepKeeps

LEMMA ServeStep ==
    ASSUME Inv, NEW p \in Proc, Serve(p) \/ ReadEof(p) \/ Dies(p)
    PROVE  Inv'
<1>1. TypeOK /\ Shapes /\ ChildInv /\ p \in Process
  BY DEF Inv, Process
<1>2. ASSUME ChildStep(p, "running", "running"), mail' = [mail EXCEPT ![p] = "answer"],
             UNCHANGED <<fds, deaths>>
      PROVE  Inv'
  <2>1. child[p] = "running" /\ fds[p] = OwnEnds(p)
    BY <1>1, <1>2 DEF ChildStep, ChildInv
  <2>2. fds' = [fds EXCEPT ![p] = OwnEnds(p)]
    BY <1>1, <1>2, <2>1 DEF Shapes
  <2>3. mail' \in [Proc -> {"none", "request", "answer", "read"}] /\ deaths' \in 0..MaxDeaths
    BY <1>1, <1>2 DEF TypeOK
  <2> QED
    BY <1>2, <2>2, <2>3, OwnEndsTable, ChildStepKeeps
<1>3. ASSUME Exits(p, "running"), UNCHANGED deaths
      PROVE  Inv'
  BY <1>1, <1>3, ExitsStep DEF TypeOK
<1>4. CASE Dies(p)
  <2>1. deaths' \in 0..MaxDeaths
    BY <1>1, <1>4, ProcessAssumption DEF Dies, TypeOK, ProcessAssumption
  <2> QED
    BY <1>4, <2>1, ExitsStep DEF Dies
<1> QED
  BY <1>2, <1>3, <1>4 DEF Serve, ReadEof
-----------------------------------------------------------------------------
LEMMA InitInv == Init => Inv
<1> SUFFICES ASSUME Init PROVE Inv
  OBVIOUS
<1>1. IsFiniteSet(0..2) /\ IsFiniteSet({})
  BY StandardFinite, FS_EmptySet
<1>2. Table(Standard) /\ DOMAIN Standard = 0..2
  <2>1. Terminal \in End
    BY DEF End
  <2>2. DOMAIN Standard = 0..2 /\ \A fd \in 0..2 : Standard[fd] \in Descriptor
    BY <2>1 DEF Standard, Opened, Descriptor
  <2> QED
    BY <1>1, <2>2 DEF Table
<1>3. Table(Nothing)
  <2>1. DOMAIN Nothing = {}
    BY DEF Nothing
  <2> QED
    BY <1>1, <2>1 DEF Table
<1>4. /\ Master \in Process /\ Master \notin Proc /\ \A q \in Proc : q \in Process
      /\ NoProc \notin Proc /\ NoThread \notin Thread /\ MaxDeaths \in Nat
  BY ProcessAssumption DEF ProcessAssumption, Process
<1>5. fds[Master] = Standard /\ \A q \in Process : Table(fds[q])
  BY <1>2, <1>3, <1>4 DEF Init
<1>6. Shapes
  BY <1>5 DEF Init, Shapes
<1>7. TypeOK
  <2>1. \A q \in Process : \A fd \in DOMAIN fds[q] : fd \in Nat /\ fds[q][fd] \in Descriptor
    BY <1>5 DEF Table
  <2>2. \A t \in Thread : m_creationMutex = t <=>
           pc[t] \in {"pipe", "pipe2", "cloexec", "fork", "unlock"}
    BY <1>4 DEF Init
  <2>3. /\ pool \in Seq(Proc) /\ \A p \in Proc : pipes[p] \in Seq(Nat)
        /\ deaths \in 0..MaxDeaths
    BY <1>4 DEF Init
  <2> QED
    BY <2>1, <2>2, <2>3 DEF Init, TypeOK
<1>8. LifeInv
  BY <1>4 DEF Init, LifeInv, Born
<1>9. \A p \in Proc : EndsOf[p] = {}
  BY <1>4 DEF Init, EndsOf, Pooled, EndsAt
<1>10. MasterInv
  <2>1. \A fd \in 0..2 : fd \in DOMAIN Standard /\ Standard[fd] = Opened(Terminal)
    BY DEF Standard
  <2> QED
    BY <1>2, <1>5, <1>9, <2>1 DEF MasterInv, Accounted
<1>11. ChildInv
  BY DEF Init, ChildInv
<1> QED
  BY <1>6, <1>7, <1>8, <1>10, <1>11 DEF Inv

LEMMA NextInv == Inv /\ [Next]_vars => Inv'
<1> SUFFICES ASSUME Inv, [Next]_vars PROVE Inv'
  OBVIOUS
<1>1. ASSUME NEW t \in Thread, ThreadNext(t) PROVE Inv'
  <2>1. CASE PipeIn(t)
    <3>1. Pipe(t, "pipe", "pipe2", PipeEnd(mine[t], 1), PipeEnd(mine[t], 1 + 1))
      BY <2>1 DEF PipeIn, PipeEnd
    <3> QED
      BY <3>1, PipeStep
  <2>2. CASE PipeOut(t)
    <3>1. Pipe(t, "pipe2", "cloexec", PipeEnd(mine[t], 3), PipeEnd(mine[t], 3 + 1))
      BY <2>2 DEF PipeOut, PipeEnd
    <3> QED
      BY <3>1, PipeStep
  <2> QED
    BY <1>1, <2>1, <2>2, LockStep, SetCloexecStep, ForkStep, UnlockStep, CloseInParentStep,
       SendRequestStep, ReadAnswerStep, ReleaseStep DEF ThreadNext
<1>2. ASSUME MainNext PROVE Inv'
  BY <1>2, DestroyStep, ClosePipesStep, ReapStep DEF MainNext
<1>3. ASSUME NEW p \in Proc, ChildNext(p) \/ Dies(p) PROVE Inv'
  BY <1>3, ExecStep, ServeStep DEF ChildNext
<1>4. CASE UNCHANGED vars
  <2>1. UNCHANGED <<m_creationMutex, pc, mine, pipes, pool, mainPc, fds, child, mail,
                    deaths, killed>>
    BY <1>4 DEF vars, threadVars, poolVars
  <2>2. TypeOK' /\ Shapes' /\ LifeInv'
    BY <2>1 DEF Inv, TypeOK, Shapes, LifeInv
  <2>3. EndsOf' = EndsOf /\ Unmarked' = Unmarked
    BY <2>1, SamePool DEF Unmarked, Pooled
  <2>4. MasterInv'
    BY <2>1, <2>3 DEF Inv, MasterInv
  <2>5. ChildInv'
    BY <2>1, ChildrenStay DEF Inv
  <2> QED
    BY <2>2, <2>4, <2>5 DEF Inv
<1> QED
  BY <1>1, <1>2, <1>3, <1>4 DEF Next

LEMMA InvNoLeak == Inv => NoLeak
BY DEF Inv, NoLeak, ChildInv, OwnEnds

LEMMA InvMaster == Inv => MasterHoldsItsEnds
<1> SUFFICES ASSUME Inv, ~killed, NEW p \in Proc
             PROVE  LET ends == {fds[Master][fd].end : fd \in DOMAIN fds[Master]}
                        used == \/ \E t \in Thread : mine[t] = p /\ pc[t] \in {"ready", "await"}
                                \/ \E i \in 1..Len(pool) : pool[i] = p /\ (i = 1 => mainPc # "wait")
                    IN /\ used => /\ fds[Master][pipes[p][2]].end = InWrite(p)
                                  /\ fds[Master][pipes[p][3]].end = OutRead(p)
                                  /\ {InRead(p), OutWrite(p)} \cap ends = {}
                       /\ child[p] = "reaped" =>
                             {InRead(p), OutWrite(p), InWrite(p), OutRead(p)} \cap ends = {}
  BY DEF MasterHoldsItsEnds
<1> DEFINE ends == {fds[Master][fd].end : fd \in DOMAIN fds[Master]}
           used == \/ \E t \in Thread : mine[t] = p /\ pc[t] \in {"ready", "await"}
                   \/ \E i \in 1..Len(pool) : pool[i] = p /\ (i = 1 => mainPc # "wait")
<1>1. TypeOK /\ Shapes /\ LifeInv /\ Accounted(fds[Master], pipes, EndsOf, Unmarked)
  BY DEF Inv, MasterInv
<1>2. EndsOf \in [Proc -> SUBSET (1..4)] /\ \A fd \in DOMAIN fds[Master] : fd \in Nat
  BY <1>1, ControlTyped DEF Shapes, Table
<1>3. \A i \in 1..4 : PipeEnd(p, i) \in ends => i \in EndsOf[p]
  <2> SUFFICES ASSUME NEW i \in 1..4, NEW fd \in DOMAIN fds[Master],
                      fds[Master][fd].end = PipeEnd(p, i)
               PROVE  i \in EndsOf[p]
    OBVIOUS
  <2>1. fd > 2
    <3>1. CASE fd \in 0..2
      <4>1. fds[Master][fd].end = Terminal
        BY <3>1, <1>1 DEF Accounted, Opened
      <4> QED
        BY <4>1, EndsDiffer
    <3> QED
      BY <3>1, <1>2
  <2>2. PICK q \in Proc : \E j \in EndsOf[q] : fd = pipes[q][j]
    BY <2>1, <1>1 DEF Accounted
  <2>3. PICK j \in EndsOf[q] : fd = pipes[q][j]
    BY <2>2
  <2>4. fds[Master][fd].end = PipeEnd(q, j) /\ j \in 1..4
    BY <2>3, <1>1, <1>2 DEF Accounted
  <2> QED
    BY <2>3, <2>4, EndsDiffer
<1>4. /\ PipeEnd(p, 1) = InRead(p) /\ PipeEnd(p, 2) = InWrite(p)
      /\ PipeEnd(p, 3) = OutRead(p) /\ PipeEnd(p, 4) = OutWrite(p)
  BY DEF PipeEnd
<1>5. used => EndsOf[p] = {2, 3}
  <2>1. ASSUME NEW t \in Thread, mine[t] = p, pc[t] \in {"ready", "await"}
        PROVE  EndsOf[p] = {2, 3}
    BY <2>1, <1>1, EndsOfMine DEF EndsAt
  <2>2. ASSUME Pooled(p) PROVE EndsOf[p] = {2, 3}
    BY <2>2, <1>1, EndsOfPooled
  <2> QED
    BY <2>1, <2>2 DEF Pooled
<1>6. child[p] = "reaped" => EndsOf[p] = {}
  <2> SUFFICES ASSUME child[p] = "reaped" PROVE EndsOf[p] = {}
    OBVIOUS
  <2>1. \A t \in Thread : mine[t] # p
    <3> SUFFICES ASSUME NEW t \in Thread, mine[t] = p PROVE FALSE
      OBVIOUS
    <3>1. pc[t] # "idle"
      BY <1>1, ProcessAssumption DEF LifeInv, ProcessAssumption
    <3>2. pc[t] \in {"pipe", "pipe2", "cloexec", "fork", "unlock", "parent", "ready", "await"}
      BY <1>1, <3>1 DEF TypeOK
    <3> QED
      BY <1>1, <3>2 DEF LifeInv, Born
  <2>2. ~Pooled(p)
    BY <1>1 DEF LifeInv, Born, Pooled
  <2> QED
    BY <2>1, <2>2 DEF EndsOf
<1>7. used => fds[Master][pipes[p][2]].end = InWrite(p) /\ fds[Master][pipes[p][3]].end = OutRead(p)
  <2> SUFFICES ASSUME used PROVE fds[Master][pipes[p][2]].end = PipeEnd(p, 2)
                                 /\ fds[Master][pipes[p][3]].end = PipeEnd(p, 3)
    BY <1>4
  <2>1. 2 \in EndsOf[p] /\ 3 \in EndsOf[p]
    BY <1>5
  <2> HIDE DEF used
  <2> QED
    BY <2>1, <1>1 DEF Accounted
<1>8. used => {InRead(p), OutWrite(p)} \cap ends = {}
  <2> SUFFICES ASSUME used PROVE PipeEnd(p, 1) \notin ends /\ PipeEnd(p, 4) \notin ends
    BY <1>4
  <2> HIDE DEF used, ends
  <2> QED
    BY <1>3, <1>5
<1>9. child[p] = "reaped" => {InRead(p), OutWrite(p), InWrite(p), OutRead(p)} \cap ends = {}
  <2> SUFFICES ASSUME child[p] = "reaped" PROVE \A i \in 1..4 : PipeEnd(p, i) \notin ends
    BY <1>4
  <2> HIDE DEF ends
  <2> QED
    BY <1>3, <1>6
<1> QED
  BY <1>7, <1>8, <1>9

(* A child that runs the daemon's program has its own ends of its own two  *)
(* pipes as standard input and output, and no descriptor of another        *)
(* Process, however the constructors, the deaths and the deletions         *)
(* interleave (Process.cc:44-46).                                          *)
THEOREM ProcessNoLeak == Spec => []NoLeak
BY InitInv, NextInv, InvNoLeak, PTL DEF Spec

(* The descriptors the master keeps of a Process name its two ends until   *)
(* it is deleted, and nothing is left of a deleted one: the numbers that   *)
(* the constructor and the destructor close are never somebody else's.     *)
THEOREM ProcessMasterHoldsItsEnds == Spec => []MasterHoldsItsEnds
BY InitInv, NextInv, InvMaster, PTL DEF Spec
=============================================================================
