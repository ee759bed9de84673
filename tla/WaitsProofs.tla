---------------------------- MODULE WaitsProofs ----------------------------
(***************************************************************************)
(* What the kernel objects do to the task layer and to the wait queues,    *)
(* for every application: the lemmas the proofs about an object rest on.   *)
(***************************************************************************)
EXTENDS Waits, TasksProofs, SequenceTheorems

USE DEF Cur, PC, Stat

-----------------------------------------------------------------------------
(***************************************************************************)
(* The part of the invariant of the task layer that every module which     *)
(* builds on it keeps.  (A service of an object can leave E_TMOUT in a     *)
(* frame, which the invariant of Tasks alone excludes.)                    *)
(***************************************************************************)
Layer ==
  TypeOK /\ Placed /\ RunIsCurrent /\ Replaceable /\ ReadyLists /\ IdleKept

LEMMA LayerInit == TasksInit => Layer
  <1> SUFFICES ASSUME TasksInit PROVE Layer
    OBVIOUS
  <1>1. IInv
    BY InvInit
  <1>2. Replaceable
    BY CpuAssumption DEF TasksInit, Replaceable
  <1>3. QED
    BY <1>1, <1>2, ReadyInit DEF IInv, Layer

LEMMA LayerStutter ==
  ASSUME Layer, UNCHANGED vars
  PROVE  Layer'
  <1>1. TypeOK'
    BY StutterType DEF Layer
  <1>2. Placed' /\ RunIsCurrent' /\ Replaceable'
    BY DEF Layer, vars, lockVars, tcbVars, readyVars, Placed, RunIsCurrent, Replaceable
  <1>3. ReadyLists' /\ IdleKept'
    BY ReadySame DEF Layer, vars, readyVars, tcbVars, IsReady, IdleKept
  <1>4. QED
    BY <1>1, <1>2, <1>3 DEF Layer

\* A step of the task layer.
LEMMA LayerStep ==
  ASSUME Layer, Idle # {}, NEW c \in Cpu, SystemCall(c) \/ Interrupt(c) \/ Kernel(c)
  PROVE  Layer'
  <1>1. TypeOK' /\ Placed' /\ RunIsCurrent'
    BY SystemCallType, KernelType, PlacedStep DEF Layer
  <1>2. IdleReady
    BY IdleFound, TaskAssumption DEF Layer, Placed
  <1>3. Replaceable'
    BY <1>2, SystemCallReplaceable, KernelReplaceable DEF Layer
  <1>4. ASSUME SystemCall(c)
        PROVE  IsReady(Cur(c))
    <2>1. pc[c] = "user"
      BY <1>4 DEF SystemCall, slp_tsk, tslp_tsk, dly_tsk, wup_tsk, can_wup, act_tsk, Trap
    <2>2. QED
      BY <2>1 DEF Layer, Replaceable, IsReady
  <1>5. ReadyLists' /\ IdleKept'
    BY <1>4, SystemCallReady, KernelReady DEF Layer
  <1>6. QED
    BY <1>1, <1>3, <1>5 DEF Layer

\* What a service leaves behind on the way out: the answer, and the CPU at
\* `ret' with the task it had.
Returned(c) ==
  /\ pc[c] = "user"
  /\ pc' = [pc EXCEPT ![c] = "ret"]
  /\ ret' \in [Cpu -> Int]
  /\ UNCHANGED <<lockVars, c_tskid>>

LEMMA ReturnReturns ==
  ASSUME TypeOK, NEW c \in Cpu, pc[c] = "user", NEW r \in Int, Return(c, r)
  PROVE  Returned(c)
  BY DEF TypeOK, Return, Returned

\* The running task of a CPU in user mode.
LEMMA Running ==
  ASSUME Layer, NEW c \in Cpu, pc[c] = "user"
  PROVE  c_tskid[c] \in Task /\ tskstat[c_tskid[c]] = "RUN" /\ proc_cpu[c_tskid[c]] = c
  BY DEF Layer, TypeOK, Replaceable, Placed

\* A service that only answers.
LEMMA ReplyLayer ==
  ASSUME Layer, NEW c \in Cpu, pc[c] = "user", NEW r \in Int, Reply(c, r)
  PROVE  Layer'
  <1>1. Returned(c)
    BY ReturnReturns DEF Layer, Reply
  <1>2. UNCHANGED <<readyVars, tcbVars, wupcnt, eax, wlink, timeVars>>
    BY DEF Reply
  <1>3. TypeOK'
    BY <1>1, <1>2 DEF Layer, TypeOK, Returned, readyVars, tcbVars, timeVars, lockVars
  <1>4. Placed' /\ RunIsCurrent'
    BY <1>1, <1>2 DEF Layer, Returned, readyVars, tcbVars, Placed, RunIsCurrent
  <1>5. Replaceable'
    BY <1>1, <1>2, Running DEF Layer, Returned, readyVars, Replaceable, TypeOK
  <1>6. ReadyLists' /\ IdleKept'
    BY <1>2, ReadySame DEF Layer, readyVars, tcbVars, IsReady, IdleKept
  <1>7. QED
    BY <1>3, <1>4, <1>5, <1>6 DEF Layer

\* The running task sleeps, or takes a wakeup that is pending.
LEMMA SleepLayer ==
  ASSUME Layer, NEW c \in Cpu, Returned(c), c_tskid[c] \notin Idle,
         sys_slp_tsk(c_tskid[c]) \/ \E tmout : sys_tslp_tsk(c_tskid[c], tmout),
         UNCHANGED <<tcbVars, eax>>, wlink' \in Ring(WNode)
  PROVE  Layer'
  <1>0. pc[c] = "user"
    BY DEF Returned
  <1>1. PICK t \in Task : t = c_tskid[c] /\ tskstat[t] = "RUN" /\ proc_cpu[t] = c /\ t \notin Idle
    BY <1>0, Running
  <1>2. CASE TakeWakeup(t)
    <2>1. UNCHANGED <<readyVars, timeVars>> /\ wupcnt' = [wupcnt EXCEPT ![t] = @ - 1]
          /\ wupcnt[t] >= 1
      BY <1>2 DEF TakeWakeup
    <2>2. TypeOK'
      BY <1>1, <2>1, CountAssumption DEF Layer, TypeOK, Returned, readyVars, tcbVars,
                                         timeVars, lockVars
    <2>3. Placed' /\ RunIsCurrent'
      BY <2>1 DEF Layer, Returned, readyVars, tcbVars, Placed, RunIsCurrent
    <2>4. Replaceable'
      BY <1>1, <2>1 DEF Layer, Returned, readyVars, Replaceable, TypeOK
    <2>5. ReadyLists' /\ IdleKept'
      BY <2>1, ReadySame DEF Layer, readyVars, tcbVars, IsReady, IdleKept
    <2>6. QED
      BY <2>2, <2>3, <2>4, <2>5 DEF Layer
  <1>3. CASE /\ Block(t) /\ wupcnt' = wupcnt
             /\ UNCHANGED timeVars \/ \E tmout : sched_timeout_ins(t, tmout)
    <2>1. /\ plink' \in Ring(PNode) /\ tskstat' \in [Task -> Stat]
          /\ next_tsk_flag' \in [Cpu -> {0, 1}]
      BY <1>3, BlockType DEF Layer
    <2>2. tlink' \in Ring(TNode) /\ delta' \in [Task -> Int]
      BY <1>3, TimeoutInsType DEF Layer, TypeOK, timeVars
    <2>3. TypeOK'
      BY <1>3, <2>1, <2>2 DEF Layer, TypeOK, Returned, tcbVars, lockVars
    <2>4. /\ tskstat' = [tskstat EXCEPT ![t] = "WAI"]
          /\ next_tsk_flag' = [b \in Cpu |-> 1]
          /\ UNCHANGED <<proc_cpu, c_tskid, tskpri>>
      BY <1>3 DEF Block, sched_next_tsk, Returned, tcbVars
    <2>5. Placed' /\ RunIsCurrent'
      BY <1>1, <2>4 DEF Layer, TypeOK, Placed, RunIsCurrent
    <2>6. Replaceable'
      <3>1. ASSUME NEW b \in Cpu, b # c
            PROVE  pc'[b] = pc[b] /\ c_tskid[b] # t
        BY <1>1, <3>1 DEF Layer, Returned, TypeOK, Placed
      <3>2. pc'[c] = "ret"
        BY DEF Returned, Layer, TypeOK
      <3>3. QED
        BY <1>1, <2>4, <3>1, <3>2 DEF Layer, Replaceable, TypeOK
    <2>7. ReadyLists' /\ IdleKept'
      <3>1. IsReady(t)
        BY <1>1 DEF IsReady
      <3>2. QED
        BY <1>1, <1>3, <2>4, <3>1, BlockReady DEF Layer
    <2>8. QED
      BY <2>3, <2>5, <2>6, <2>7 DEF Layer
  <1>4. QED
    BY <1>1, <1>2, <1>3 DEF sys_slp_tsk, sys_tslp_tsk

-----------------------------------------------------------------------------
(***************************************************************************)
(* Releases.  They work on copies k of the part of the state they change;  *)
(* as long as whoever is released was not ready, the ready queues of the   *)
(* copy go with its status.                                                *)
(***************************************************************************)
Kernels == [plink : Ring(PNode), tskstat : [Task -> Stat], eax : [Task -> Int],
            tlink : Ring(TNode), delta : [Task -> Int]]

QueueIn(st) ==
  [h \in PHead |-> {t \in Task : tsk_pri(tskpri[t]) = h /\ st[t] \in {"RDY", "RUN"}}]

Tidy(k) == k \in Kernels /\ Lists(PNode, k.plink, PHead, QueueIn(k.tskstat))

LEMMA TidyNow ==
  ASSUME TypeOK, ReadyLists
  PROVE  Tidy(Kernel0)
  <1>1. Kernel0 \in Kernels
    BY DEF TypeOK, Kernel0, Kernels
  <1>2. QueueOf = QueueIn(tskstat)
    BY DEF QueueOf, QueueIn, IsReady
  <1>3. Kernel0.plink = plink /\ Kernel0.tskstat = tskstat
    BY DEF Kernel0
  <1>4. QED
    BY <1>1, <1>2, <1>3 DEF Tidy, ReadyLists

\* Making a task ready that is not.
LEMMA MadeReady ==
  ASSUME tskpri \in [Task -> Pri], NEW k, Tidy(k), NEW t \in Task, NEW v \in Int,
         k.tskstat[t] \notin {"RDY", "RUN"}
  PROVE  /\ Tidy(Ready(k, t, v))
         /\ Ready(k, t, v).tskstat = [k.tskstat EXCEPT ![t] = "RDY"]
         /\ Ready(k, t, v).eax = [k.eax EXCEPT ![t] = v]
  <1> DEFINE q == Ready(k, t, v)
             r == k.plink
             h == tsk_pri(tskpri[t])
  <1>1. /\ q.plink = InsertBefore(r, h, t)
        /\ q.tskstat = [k.tskstat EXCEPT ![t] = "RDY"]
        /\ q.eax = [k.eax EXCEPT ![t] = v]
    BY DEF Tidy, Kernels, Ready
  <1>2. /\ r \in Ring(PNode) /\ k.tskstat \in [Task -> Stat] /\ k.eax \in [Task -> Int]
        /\ k.tlink \in Ring(TNode) /\ k.delta \in [Task -> Int]
    BY DEF Tidy, Kernels
  <1>3. h \in PHead /\ h \in PNode /\ t \in PNode
    BY ReadyNodes, Nodes
  <1>4. q \in Kernels
    <2> DEFINE p == InsertBefore(r, h, t)
               a == [k.tskstat EXCEPT ![t] = "RDY"]
               e == [k.eax EXCEPT ![t] = v]
    <2>1. p \in Ring(PNode)
      BY <1>2, <1>3, InsertBeforeRing
    <2>2. a \in [Task -> Stat] /\ e \in [Task -> Int]
      BY <1>2
    <2>3. q = [k EXCEPT !.tskstat = a, !.plink = p, !.eax = e]
      BY DEF Ready, Tidy, Kernels
    <2> HIDE DEF q, p, a, e
    <2>4. QED
      BY <2>1, <2>2, <2>3 DEF Tidy, Kernels
  <1> HIDE DEF q, r
  <1>5. Lists(PNode, InsertBefore(r, h, t), PHead, QueueIn(q.tskstat))
    <2> DEFINE M == QueueIn(k.tskstat)
               L == QueueIn(q.tskstat)
    <2>1. Lists(PNode, r, PHead, M)
      BY DEF Tidy, r
    <2>2. t \in PNode \ PHead /\ \A g \in PHead : t \notin M[g]
      BY <1>3, ReadyNodes DEF QueueIn
    <2>3. \A g \in PHead : L[g] = IF g = h THEN M[g] \cup {t} ELSE M[g]
      BY <1>1, <1>2 DEF QueueIn
    <2> HIDE DEF M, L, h
    <2>4. Lists(PNode, InsertBefore(r, h, t), PHead, L)
      BY <1>2, <1>3, <2>1, <2>2, <2>3, ListsInsertBefore
    <2>5. QED
      BY <2>4 DEF L
  <1>6. QED
    BY <1>1, <1>4, <1>5 DEF Tidy, q, r

\* Cancelling a time-out first.
LEMMA Cancelled ==
  ASSUME NEW k, Tidy(k), NEW t \in Task
  PROVE  /\ Tidy(RemTimeout(k, t)) /\ RemTimeout(k, t).tskstat = k.tskstat
         /\ RemTimeout(k, t).eax = k.eax
  <1> DEFINE q == RemTimeout(k, t)
             d == [u \in Task |-> IF u = t THEN 0
                                  ELSE IF u = k.tlink.next[t]
                                       THEN (k.delta[u] + k.delta[t]) % TmoMod
                                       ELSE k.delta[u]]
  <1>1. CASE InQueue(k.tlink, t)
    <2>1. k.tlink \in Ring(TNode) /\ k.delta \in [Task -> Int] /\ t \in TNode
      BY Nodes DEF Tidy, Kernels
    <2>2. UnlinkToSelf(k.tlink, t) \in Ring(TNode)
      BY <2>1, UnlinkToSelfRing
    <2>3. d \in [Task -> Int]
      BY <2>1, TimeAssumption
    <2>4. q = [k EXCEPT !.tlink = UnlinkToSelf(k.tlink, t), !.delta = d]
      BY <1>1, <2>1 DEF RemTimeout, Tidy, Kernels
    <2> HIDE DEF d
    <2>5. /\ q \in Kernels
          /\ q.tskstat = k.tskstat /\ q.plink = k.plink /\ q.eax = k.eax
      BY <2>2, <2>3, <2>4 DEF Tidy, Kernels
    <2>6. QED
      BY <2>5 DEF Tidy
  <1>2. CASE ~InQueue(k.tlink, t)
    BY <1>2 DEF RemTimeout
  <1>3. QED
    BY <1>1, <1>2

LEMMA ReleasedTidy ==
  ASSUME tskpri \in [Task -> Pri], NEW k, Tidy(k), NEW t \in Task, NEW v \in Int,
         k.tskstat[t] \notin {"RDY", "RUN"}
  PROVE  /\ Tidy(Release(k, t, v))
         /\ Release(k, t, v).tskstat = [k.tskstat EXCEPT ![t] = "RDY"]
         /\ Release(k, t, v).eax = [k.eax EXCEPT ![t] = v]
  <1>1. /\ Tidy(RemTimeout(k, t)) /\ RemTimeout(k, t).tskstat = k.tskstat
        /\ RemTimeout(k, t).eax = k.eax
    BY Cancelled
  <1>2. PICK q : q = RemTimeout(k, t)
    OBVIOUS
  <1>3. Release(k, t, v) = Ready(q, t, v)
    BY <1>2 DEF Release
  <1>4. Tidy(q) /\ q.tskstat = k.tskstat /\ q.eax = k.eax
    BY <1>1, <1>2
  <1>5. /\ Tidy(Ready(q, t, v)) /\ Ready(q, t, v).tskstat = [q.tskstat EXCEPT ![t] = "RDY"]
        /\ Ready(q, t, v).eax = [q.eax EXCEPT ![t] = v]
    BY <1>4, MadeReady
  <1>6. QED
    BY <1>3, <1>4, <1>5

\* Everybody in w is released by a del service, in turn; the time-out of each is
\* cancelled (timed), or stays armed.
Drops(timed, k, t) == IF timed THEN Deleted(k, t) ELSE DeletedUntimed(k, t)

Chain(timed, s, w, n) ==
  /\ s[0] = Kernel0
  /\ \A i \in 1 .. n : s[i - 1] \in Kernels => s[i] = Drops(timed, s[i - 1], w[i])

Sleepers(w, n) ==
  /\ n \in Nat
  /\ \A i \in 1 .. n : w[i] \in Task /\ tskstat[w[i]] = "WAI"
  /\ \A i, j \in 1 .. n : w[i] = w[j] => i = j

Woken(w, n) ==
  [t \in Task |-> IF \E i \in 1 .. n : w[i] = t THEN "RDY" ELSE tskstat[t]]

Freed(k, w, n) ==
  /\ Tidy(k)
  /\ k.tskstat = Woken(w, n)
  /\ k.eax = [t \in Task |-> IF \E i \in 1 .. n : w[i] = t THEN E_DLT ELSE eax[t]]

LEMMA ChainTidy ==
  ASSUME TypeOK, ReadyLists, NEW w, NEW n, Sleepers(w, n), NEW timed \in BOOLEAN,
         NEW s, Chain(timed, s, w, n)
  PROVE  \A i \in 0 .. n : Freed(s[i], w, i)
  <1>0. n \in Nat /\ tskpri \in [Task -> Pri] /\ tskstat \in [Task -> Stat]
        /\ eax \in [Task -> Int]
    BY DEF Sleepers, TypeOK
  <1> DEFINE T == {i \in Nat : i <= n => Freed(s[i], w, i)}
             Told(i) == [t \in Task |-> IF \E j \in 1 .. i : w[j] = t THEN E_DLT ELSE eax[t]]
  <1>1. 0 \in T
    <2>1. s[0] = Kernel0 /\ Tidy(Kernel0) /\ Kernel0.tskstat = tskstat /\ Kernel0.eax = eax
      BY TidyNow DEF Chain, Kernel0
    <2>2. Woken(w, 0) = tskstat /\ Told(0) = eax
      BY <1>0 DEF Woken
    <2>3. QED
      BY <2>1, <2>2 DEF Freed
  <1>2. ASSUME NEW i \in Nat, i \in T
        PROVE  i + 1 \in T
    <2> SUFFICES ASSUME i + 1 <= n
                 PROVE  Freed(s[i + 1], w, i + 1)
      OBVIOUS
    <2>1. /\ i + 1 \in 1 .. n /\ (i + 1) - 1 = i
          /\ Tidy(s[i]) /\ s[i].tskstat = Woken(w, i) /\ s[i].eax = Told(i)
      BY <1>0, <1>2 DEF Freed
    <2>2. s[i] \in Kernels
      BY <2>1 DEF Tidy
    <2>3. s[i + 1] = Drops(timed, s[i], w[i + 1])
      BY <2>1, <2>2 DEF Chain
    <2>4. PICK t \in Task : t = w[i + 1] /\ tskstat[t] = "WAI"
      BY <2>1 DEF Sleepers
    <2>5. \A j \in 1 .. i : w[j] # t
      BY <1>0, <2>1, <2>4 DEF Sleepers
    <2>6. s[i].tskstat[t] = "WAI"
      BY <2>1, <2>4, <2>5 DEF Woken
    <2>7. PICK v \in Int : v = E_DLT
      BY DEF E_DLT
    <2>8. PICK k : k = s[i]
      OBVIOUS
    <2>9. Tidy(k) /\ k.tskstat[t] \notin {"RDY", "RUN"}
      BY <2>1, <2>6, <2>8
    <2>10. /\ Tidy(Drops(timed, k, t))
           /\ Drops(timed, k, t).tskstat = [k.tskstat EXCEPT ![t] = "RDY"]
           /\ Drops(timed, k, t).eax = [k.eax EXCEPT ![t] = v]
      <3>1. /\ Tidy(Release(k, t, v))
            /\ Release(k, t, v).tskstat = [k.tskstat EXCEPT ![t] = "RDY"]
            /\ Release(k, t, v).eax = [k.eax EXCEPT ![t] = v]
        BY <1>0, <2>9, ReleasedTidy
      <3>2. /\ Tidy(Ready(k, t, v))
            /\ Ready(k, t, v).tskstat = [k.tskstat EXCEPT ![t] = "RDY"]
            /\ Ready(k, t, v).eax = [k.eax EXCEPT ![t] = v]
        <4>1. tskpri \in [Task -> Pri] /\ Tidy(k) /\ k.tskstat[t] \notin {"RDY", "RUN"}
          BY <1>0, <2>9
        <4>2. QED
          BY <4>1, MadeReady, SMTT(30)
      <3>3. Drops(timed, k, t) \in {Release(k, t, v), Ready(k, t, v)}
        BY <2>7 DEF Drops, Deleted, DeletedUntimed
      <3>4. QED
        BY <3>1, <3>2, <3>3
    <2>11. /\ Tidy(s[i + 1]) /\ s[i + 1].tskstat = [Woken(w, i) EXCEPT ![t] = "RDY"]
           /\ s[i + 1].eax = [Told(i) EXCEPT ![t] = E_DLT]
      BY <2>1, <2>3, <2>4, <2>7, <2>8, <2>10
    <2>12. /\ [Woken(w, i) EXCEPT ![t] = "RDY"] = Woken(w, i + 1)
           /\ [Told(i) EXCEPT ![t] = E_DLT] = Told(i + 1)
      <3>1. \A j \in 1 .. i + 1 : j \in 1 .. i \/ j = i + 1
        OBVIOUS
      <3>2. \A u \in Task : (\E j \in 1 .. i + 1 : w[j] = u)
                              <=> u = t \/ \E j \in 1 .. i : w[j] = u
        BY <2>4, <3>1
      <3>3. QED
        BY <3>2 DEF Woken
    <2>13. QED
      BY <2>11, <2>12 DEF Freed
  <1> HIDE DEF T
  <1>3. Nat \subseteq T
    BY <1>1, <1>2, SetInduction
  <1>4. QED
    BY <1>0, <1>3 DEF T

\* The recursion of ReleaseAll.
Releasing(timed, s, w, n) ==
  s = [i \in 0 .. n |-> IF i = 0 THEN Kernel0 ELSE Drops(timed, s[i - 1], w[i])]

LEMMA ReleaseExists ==
  ASSUME TypeOK, ReadyLists, NEW w, NEW n, Sleepers(w, n), NEW timed \in BOOLEAN
  PROVE  \E s : Releasing(timed, s, w, n)
  <1> DEFINE D == [i \in Nat |-> [k \in Kernels |-> Drops(timed, k, w[i])]]
  <1>0. n \in Nat
    BY DEF Sleepers
  <1>1. PICK g : IsRecursive(g, Kernel0, D)
    <2> HIDE DEF D
    <2>1. QED
      BY Recursion
  <1>2. g[0] = Kernel0 /\ \A i \in Nat : i # 0 => g[i] = D[i][g[i - 1]]
    BY <1>1 DEF IsRecursive
  <1>3. \A i \in 1 .. n : g[i - 1] \in Kernels => g[i] = Drops(timed, g[i - 1], w[i])
    <2>1. \A i \in 1 .. n : i \in Nat /\ i # 0
      BY <1>0
    <2>2. QED
      BY <1>2, <2>1
  <1>4. Chain(timed, g, w, n)
    BY <1>2, <1>3 DEF Chain
  <1>5. \A i \in 0 .. n : g[i] \in Kernels
    <2>1. \A i \in 0 .. n : Freed(g[i], w, i)
      BY <1>4, ChainTidy
    <2>2. QED
      BY <2>1 DEF Tidy, Freed
  <1> DEFINE f == [i \in 0 .. n |-> g[i]]
  <1>6. \A i \in 0 .. n : f[i] = IF i = 0 THEN Kernel0 ELSE Drops(timed, f[i - 1], w[i])
    <2> SUFFICES ASSUME NEW i \in 0 .. n
                 PROVE  g[i] = IF i = 0 THEN Kernel0 ELSE Drops(timed, f[i - 1], w[i])
      OBVIOUS
    <2>1. CASE i = 0
      BY <1>2, <2>1
    <2>2. CASE i # 0
      <3>1. i \in 1 .. n /\ i - 1 \in 0 .. n
        BY <1>0, <2>2
      <3>2. QED
        BY <1>3, <1>5, <2>2, <3>1
    <2>3. QED
      BY <2>1, <2>2
  <1>7. f = [i \in 0 .. n |-> IF i = 0 THEN Kernel0 ELSE Drops(timed, f[i - 1], w[i])]
    BY <1>6
  <1> HIDE DEF f
  <1>8. QED
    BY <1>7 DEF Releasing

LEMMA ReleasingFrees ==
  ASSUME TypeOK, ReadyLists, NEW w, NEW n, Sleepers(w, n), NEW timed \in BOOLEAN,
         NEW s, Releasing(timed, s, w, n)
  PROVE  Freed(s[n], w, n)
  <1>0. n \in Nat
    BY DEF Sleepers
  <1>1. Chain(timed, s, w, n)
    <2>1. \A i \in 0 .. n : s[i] = IF i = 0 THEN Kernel0 ELSE Drops(timed, s[i - 1], w[i])
      BY DEF Releasing
    <2>2. 0 \in 0 .. n /\ \A i \in 1 .. n : i \in 0 .. n /\ i # 0
      BY <1>0
    <2>3. QED
      BY <2>1, <2>2 DEF Chain
  <1>2. QED
    BY <1>0, <1>1, ChainTidy

LEMMA ReleasedAll ==
  ASSUME TypeOK, ReadyLists, NEW w, NEW n, Sleepers(w, n), Len(w) = n
  PROVE  /\ Freed(ReleaseAll(Deleted, w), w, n)
         /\ Freed(ReleaseAll(DeletedUntimed, w), w, n)
  <1> DEFINE timed == CHOOSE step : step = [i \in 0 .. Len(w) |->
                        IF i = 0 THEN Kernel0 ELSE Deleted(step[i - 1], w[i])]
             untimed == CHOOSE step : step = [i \in 0 .. Len(w) |->
                          IF i = 0 THEN Kernel0 ELSE DeletedUntimed(step[i - 1], w[i])]
  <1>1. /\ ReleaseAll(Deleted, w) = timed[n]
        /\ ReleaseAll(DeletedUntimed, w) = untimed[n]
    BY DEF ReleaseAll
  <1>2. Releasing(TRUE, timed, w, n)
    <2>1. \E s : Releasing(TRUE, s, w, n)
      BY ReleaseExists
    <2>2. \A s : Releasing(TRUE, s, w, n)
                   <=> s = [i \in 0 .. Len(w) |->
                              IF i = 0 THEN Kernel0 ELSE Deleted(s[i - 1], w[i])]
      BY DEF Releasing, Drops
    <2>3. QED
      BY <2>1, <2>2
  <1>3. Releasing(FALSE, untimed, w, n)
    <2>1. \E s : Releasing(FALSE, s, w, n)
      BY ReleaseExists
    <2>2. \A s : Releasing(FALSE, s, w, n)
                   <=> s = [i \in 0 .. Len(w) |->
                              IF i = 0 THEN Kernel0 ELSE DeletedUntimed(s[i - 1], w[i])]
      BY DEF Releasing, Drops
    <2>3. QED
      BY <2>1, <2>2
  <1> HIDE DEF timed, untimed
  <1>4. QED
    BY <1>1, <1>2, <1>3, ReleasingFrees

\* The tasks A, which all wait, are made ready; no CPU is asked to reschedule, or
\* each of them is.
Wakes(k, A) ==
  /\ Tidy(k) /\ Commit(k)
  /\ \A t \in A : t \in Task /\ tskstat[t] = "WAI"
  /\ k.tskstat = [t \in Task |-> IF t \in A THEN "RDY" ELSE tskstat[t]]
  /\ next_tsk_flag' = next_tsk_flag \/ sched_next_tsk
  /\ UNCHANGED <<tcbVars, wupcnt>>

\* They will read v.
Hears(k, A, v) == k.eax = [t \in Task |-> IF t \in A THEN v ELSE eax[t]]

\* A CPU leaves user mode with the task it had.
LeftTo(c, to) ==
  /\ pc[c] = "user"
  /\ pc' = [pc EXCEPT ![c] = to]
  /\ ret' \in [Cpu -> Int]
  /\ UNCHANGED <<lockVars, c_tskid>>

LEMMA WakeLayerTo ==
  ASSUME Layer, NEW c \in Cpu, NEW to \in {"ret", "leave"}, LeftTo(c, to),
         NEW k, NEW A, Wakes(k, A),
         wlink' \in Ring(WNode)
  PROVE  Layer'
  <1>1. /\ plink' = k.plink /\ tskstat' = k.tskstat /\ eax' = k.eax
        /\ tlink' = k.tlink /\ delta' = k.delta
        /\ UNCHANGED <<tskpri, proc_cpu, actcnt, wupcnt, lockVars, c_tskid>>
        /\ pc' = [pc EXCEPT ![c] = to] /\ pc[c] = "user" /\ ret' \in [Cpu -> Int]
        /\ \/ next_tsk_flag' = next_tsk_flag
           \/ next_tsk_flag' = [b \in Cpu |-> 1]
    BY DEF Wakes, Commit, LeftTo, tcbVars, sched_next_tsk
  <1>2. /\ k.plink \in Ring(PNode) /\ k.tskstat \in [Task -> Stat]
        /\ k.eax \in [Task -> Int] /\ k.tlink \in Ring(TNode) /\ k.delta \in [Task -> Int]
    BY DEF Wakes, Tidy, Kernels
  <1>3. \A t \in Task : \/ tskstat'[t] = tskstat[t]
                        \/ tskstat[t] = "WAI" /\ tskstat'[t] = "RDY"
    BY <1>1 DEF Wakes
  <1>4. TypeOK'
    BY <1>1, <1>2 DEF Layer, TypeOK, lockVars
  <1>5. Placed' /\ RunIsCurrent'
    BY <1>1, <1>3 DEF Layer, Placed, RunIsCurrent
  <1>6. Replaceable'
    <2> SUFFICES ASSUME NEW b \in Cpu
                 PROVE  /\ pc'[b] \in {"user", "tick", "clear"} => tskstat'[c_tskid[b]] = "RUN"
                        /\ pc'[b] \in {"ret", "leave"} /\ tskstat'[c_tskid[b]] # "RUN"
                             => next_tsk_flag'[b] = 1
      BY <1>1 DEF Replaceable
    <2>1. c_tskid[b] \in Task /\ pc \in [Cpu -> PC]
      BY DEF Layer, TypeOK
    <2>4. pc'[b] = pc[b] \/ (b = c /\ pc'[b] = to)
      <3>1. pc' = [pc EXCEPT ![c] = to]
        BY <1>1
      <3>2. QED
        BY <2>1, <3>1
    <2>2. /\ pc[b] \in {"user", "tick", "clear"} => tskstat[c_tskid[b]] = "RUN"
          /\ pc[b] \in {"ret", "leave"} /\ tskstat[c_tskid[b]] # "RUN" => next_tsk_flag[b] = 1
      BY DEF Layer, Replaceable
    <2>5. QED
      BY <1>1, <1>3, <2>1, <2>2, <2>4
  <1>7. ReadyLists'
    <2>1. QueueOf' = QueueIn(k.tskstat)
      BY <1>1 DEF QueueOf, QueueIn, IsReady
    <2>2. QED
      BY <1>1, <2>1 DEF ReadyLists, Wakes, Tidy
  <1>8. IdleKept'
    BY <1>3, TaskAssumption DEF Layer, IdleKept, IsReady
  <1>9. QED
    BY <1>4, <1>5, <1>6, <1>7, <1>8 DEF Layer

LEMMA WakeLayer ==
  ASSUME Layer, NEW c \in Cpu, Returned(c), NEW k, NEW A, Wakes(k, A),
         wlink' \in Ring(WNode)
  PROVE  Layer'
  <1>1. LeftTo(c, "ret")
    BY DEF Returned, LeftTo
  <1>2. QED
    BY <1>1, WakeLayerTo

\* A signal, a message: one waiter is released.
LEMMA DismissWakes ==
  ASSUME Layer, NEW t \in Task, tskstat[t] = "WAI", NEW v \in Int, Dismiss(t, v),
         next_tsk_flag' = next_tsk_flag \/ sched_next_tsk
  PROVE  \E k : Wakes(k, {t}) /\ Hears(k, {t}, v)
  <1>1. TypeOK /\ ReadyLists /\ tskpri \in [Task -> Pri] /\ tskstat \in [Task -> Stat]
        /\ eax \in [Task -> Int]
    BY DEF Layer, TypeOK
  <1>2. PICK q : q = Kernel0
    OBVIOUS
  <1>3. Tidy(q) /\ q.tskstat = tskstat /\ q.eax = eax
    BY <1>1, <1>2, TidyNow DEF Kernel0
  <1>4. /\ Tidy(Release(q, t, v)) /\ Release(q, t, v).tskstat = [q.tskstat EXCEPT ![t] = "RDY"]
        /\ Release(q, t, v).eax = [q.eax EXCEPT ![t] = v]
    <2>1. tskpri \in [Task -> Pri] /\ Tidy(q) /\ q.tskstat[t] \notin {"RDY", "RUN"}
      BY <1>1, <1>3
    <2>2. QED
      BY <2>1, ReleasedTidy
  <1>5. PICK k : k = Release(q, t, v)
    OBVIOUS
  <1>6. k.tskstat = [u \in Task |-> IF u \in {t} THEN "RDY" ELSE tskstat[u]]
    BY <1>1, <1>3, <1>4, <1>5
  <1>7. Commit(k) /\ UNCHANGED <<tcbVars, wupcnt>>
    BY <1>2, <1>5 DEF Dismiss
  <1>8. Wakes(k, {t})
    BY <1>4, <1>5, <1>6, <1>7 DEF Wakes
  <1>9. Hears(k, {t}, v)
    BY <1>1, <1>3, <1>4, <1>5 DEF Hears
  <1>10. QED
    BY <1>8, <1>9

\* Everybody in the sequence w is released.
LEMMA SequenceWakes ==
  ASSUME Layer, NEW w, NEW n, Sleepers(w, n), Len(w) = n,
         NEW S, S = {w[i] : i \in 1 .. n},
         Commit(ReleaseAll(Deleted, w)) \/ Commit(ReleaseAll(DeletedUntimed, w)),
         UNCHANGED <<next_tsk_flag, tcbVars, wupcnt>>
  PROVE  \E k : Wakes(k, S) /\ Hears(k, S, E_DLT)
  <1>1. TypeOK /\ ReadyLists
    BY DEF Layer
  <1>2. PICK k : Commit(k) /\ k \in {ReleaseAll(Deleted, w), ReleaseAll(DeletedUntimed, w)}
    OBVIOUS
  <1>3. Freed(k, w, n)
    BY <1>1, <1>2, ReleasedAll
  <1>4. /\ Woken(w, n) = [t \in Task |-> IF t \in S THEN "RDY" ELSE tskstat[t]]
        /\ [t \in Task |-> IF \E i \in 1 .. n : w[i] = t THEN E_DLT ELSE eax[t]]
             = [t \in Task |-> IF t \in S THEN E_DLT ELSE eax[t]]
    <2>1. \A t \in Task : (\E i \in 1 .. n : w[i] = t) <=> t \in S
      OBVIOUS
    <2>2. QED
      BY <2>1 DEF Woken
  <1>5. \A t \in S : t \in Task /\ tskstat[t] = "WAI"
    BY DEF Sleepers
  <1>6. Wakes(k, S) /\ Hears(k, S, E_DLT)
    BY <1>2, <1>3, <1>4, <1>5 DEF Wakes, Freed, Hears
  <1>7. QED
    BY <1>6

\* The walk along a queue of sleepers.
LEMMA QueueSleeps ==
  ASSUME TypeOK, NEW h \in WNode, NEW S, IsList(WNode, wlink, h, S),
         \A t \in S : t \in Task /\ tskstat[t] = "WAI", NEW w, w = Walk(wlink, h)
  PROVE  /\ w \in Seq(S) /\ Len(w) \in Nat /\ Sleepers(w, Len(w))
         /\ S = {w[i] : i \in 1 .. Len(w)}
  <1>1. wlink \in Ring(WNode) /\ IsFiniteSet(WNode)
    BY FiniteAssumption, FS_Union DEF TypeOK, WNode
  <1>2. PICK n, s : Thread(WNode, wlink, h, n, s) /\ S = Threaded(n, s)
    BY DEF IsList
  <1>3. w = [i \in 1 .. n |-> s[i]] /\ n \in Nat
    <2>1. n \in Nat
      BY <1>2 DEF Thread
    <2>2. QED
      BY <1>1, <1>2, <2>1, ThreadWalk
  <1>4. Len(w) = n /\ (\A i \in 1 .. n : w[i] = s[i]) /\ w \in Seq(S)
    BY <1>2, <1>3 DEF Threaded
  <1>5. Sleepers(w, n)
    BY <1>2, <1>3, <1>4 DEF Sleepers, Thread, Threaded
  <1>6. S = {w[i] : i \in 1 .. n}
    BY <1>2, <1>4 DEF Threaded
  <1>7. QED
    BY <1>3, <1>4, <1>5, <1>6

\* A deletion: everybody in the queue at h is released.
Emptied(hs) == DismissAll(hs) \/ DismissAllUntimed(hs)

Emptying(A, H) ==
  /\ \E k : Wakes(k, A) /\ Hears(k, A, E_DLT)
  /\ wlink' = [f \in {"next", "prev"} |->
                 [n \in WNode |-> IF n \in H THEN n ELSE wlink[f][n]]]

LEMMA DismissAllWakes ==
  ASSUME Layer, NEW h \in WNode, NEW S, IsList(WNode, wlink, h, S),
         \A t \in S : t \in Task /\ tskstat[t] = "WAI",
         Emptied(<<h>>)
  PROVE  Emptying(S, {h})
  <1>1. TypeOK
    BY DEF Layer
  <1>2. PICK w : w = Walk(wlink, h)
    OBVIOUS
  <1>3. /\ Len(w) \in Nat /\ Sleepers(w, Len(w))
        /\ S = {w[i] : i \in 1 .. Len(w)}
    BY <1>1, <1>2, QueueSleeps
  <1>4. Queued(<<h>>) = w
    <2> DEFINE q == [i \in DOMAIN <<h>> |-> Walk(wlink, <<h>>[i])]
               flatten == CHOOSE flatten : flatten = [i \in 1 .. Len(q) |->
                            IF i = 1 THEN q[i] ELSE flatten[i - 1] \o q[i]]
               f == [i \in 1 .. 1 |-> w]
    <2>1. q = <<w>>
      BY <1>2
    <2>2. Queued(<<h>>) = FlattenSeq(q)
      BY DEF Queued
    <2>3. FlattenSeq(q) = IF Len(q) = 0 THEN q ELSE flatten[Len(q)]
      BY DEF FlattenSeq
    <2> HIDE DEF q
    <2>4. Len(q) = 1 /\ q[1] = w
      BY <2>1
    <2>5. f = [i \in 1 .. Len(q) |-> IF i = 1 THEN q[i] ELSE f[i - 1] \o q[i]]
      <3>1. \A i \in 1 .. Len(q) : i = 1
        BY <2>4
      <3>2. f = [i \in 1 .. Len(q) |-> w]
        BY <2>4
      <3>3. QED
        BY <2>4, <3>1, <3>2
    <2> HIDE DEF f
    <2>6. flatten = [i \in 1 .. Len(q) |-> IF i = 1 THEN q[i] ELSE flatten[i - 1] \o q[i]]
      BY <2>5
    <2> HIDE DEF flatten
    <2>7. flatten[1] = w
      <3>1. 1 \in 1 .. Len(q)
        BY <2>4
      <3>2. QED
        BY <2>4, <2>6, <3>1
    <2>8. QED
      BY <2>2, <2>3, <2>4, <2>7
  <1>5. /\ ResetHeads(<<h>>)
        /\ Commit(ReleaseAll(Deleted, w)) \/ Commit(ReleaseAll(DeletedUntimed, w))
    BY <1>4 DEF Emptied, DismissAll, DismissAllUntimed
  <1>6. \E k : Wakes(k, S) /\ Hears(k, S, E_DLT)
    BY <1>3, <1>5, SequenceWakes DEF ResetHeads
  <1>7. wlink' = [f \in {"next", "prev"} |->
                    [m \in WNode |-> IF m \in {h} THEN m ELSE wlink[f][m]]]
    <2>1. DOMAIN <<h>> = {1} /\ <<h>>[1] = h
      OBVIOUS
    <2>2. \A m : (\E i \in DOMAIN <<h>> : <<h>>[i] = m) <=> m \in {h}
      BY <2>1
    <2>3. QED
      BY <1>5, <2>2 DEF ResetHeads
  <1>8. QED
    BY <1>6, <1>7 DEF Emptying

\* The deletion of an object with two queues, at h and at g.
LEMMA DismissBothWakes ==
  ASSUME Layer, NEW h \in WNode, NEW S, IsList(WNode, wlink, h, S),
         NEW g \in WNode, NEW T, IsList(WNode, wlink, g, T), S \cap T = {},
         \A t \in S \cup T : t \in Task /\ tskstat[t] = "WAI",
         Emptied(<<h, g>>)
  PROVE  Emptying(S \cup T, {h, g})
  <1>1. TypeOK
    BY DEF Layer
  <1>2. PICK v, w : v = Walk(wlink, h) /\ w = Walk(wlink, g)
    OBVIOUS
  <1>3. /\ v \in Seq(S) /\ Len(v) \in Nat /\ Sleepers(v, Len(v))
        /\ S = {v[i] : i \in 1 .. Len(v)}
    <2>1. \A t \in S : t \in Task /\ tskstat[t] = "WAI"
      OBVIOUS
    <2>2. QED
      BY <1>1, <1>2, <2>1, QueueSleeps, SMTT(30)
  <1>4. /\ w \in Seq(T) /\ Len(w) \in Nat /\ Sleepers(w, Len(w))
        /\ T = {w[i] : i \in 1 .. Len(w)}
    <2>1. \A t \in T : t \in Task /\ tskstat[t] = "WAI"
      OBVIOUS
    <2>2. QED
      BY <1>1, <1>2, <2>1, QueueSleeps, SMTT(30)
  <1>5. PICK x : x = v \o w
    OBVIOUS
  <1>6. Queued(<<h, g>>) = x
    <2> DEFINE q == [i \in DOMAIN <<h, g>> |-> Walk(wlink, <<h, g>>[i])]
               flatten == CHOOSE flatten : flatten = [i \in 1 .. Len(q) |->
                            IF i = 1 THEN q[i] ELSE flatten[i - 1] \o q[i]]
               f == [i \in 1 .. 2 |-> IF i = 1 THEN v ELSE x]
    <2>1. q = <<v, w>>
      BY <1>2
    <2>2. Queued(<<h, g>>) = FlattenSeq(q)
      BY DEF Queued
    <2>3. FlattenSeq(q) = IF Len(q) = 0 THEN q ELSE flatten[Len(q)]
      BY DEF FlattenSeq
    <2> HIDE DEF q
    <2>4. Len(q) = 2 /\ q[1] = v /\ q[2] = w
      BY <2>1
    <2>5. f = [i \in 1 .. Len(q) |-> IF i = 1 THEN q[i] ELSE f[i - 1] \o q[i]]
      <3>1. \A i \in 1 .. 2 : i = 1 \/ i = 2
        OBVIOUS
      <3>2. f[1] = v /\ f[2] = x
        OBVIOUS
      <3> HIDE DEF f
      <3>3. \A i \in 1 .. 2 : (IF i = 1 THEN v ELSE x) = IF i = 1 THEN q[i] ELSE f[i - 1] \o q[i]
        BY <1>5, <2>4, <3>1, <3>2
      <3>4. QED
        BY <2>4, <3>3 DEF f
    <2> HIDE DEF f
    <2>6. flatten = [i \in 1 .. Len(q) |-> IF i = 1 THEN q[i] ELSE flatten[i - 1] \o q[i]]
      BY <2>5
    <2> HIDE DEF flatten
    <2>7. flatten[2] = x
      <3>1. 1 \in 1 .. Len(q) /\ 2 \in 1 .. Len(q)
        BY <2>4
      <3>2. flatten[1] = v
        BY <2>4, <2>6, <3>1
      <3>3. flatten[2] = flatten[1] \o q[2]
        <4>1. 2 # 1 /\ 2 - 1 = 1
          OBVIOUS
        <4>2. QED
          BY <2>6, <3>1, <4>1
      <3>4. QED
        BY <1>5, <2>4, <3>2, <3>3
    <2>8. QED
      BY <2>2, <2>3, <2>4, <2>7
  <1>7. PICK n : n = Len(v) + Len(w)
    OBVIOUS
  <1>8. /\ Len(x) = n /\ n \in Nat
        /\ \A i \in 1 .. n : x[i] = IF i <= Len(v) THEN v[i] ELSE w[i - Len(v)]
    <2>1. v \in Seq(S \cup T) /\ w \in Seq(S \cup T)
      BY <1>3, <1>4
    <2>2. QED
      BY <1>3, <1>4, <1>5, <1>7, <2>1
  <1>9. S \cup T = {x[i] : i \in 1 .. n}
    <2>1. \A i \in 1 .. n : i \in 1 .. Len(v) \/ (~(i <= Len(v)) /\ i - Len(v) \in 1 .. Len(w))
      BY <1>3, <1>4, <1>7
    <2>2. \A i \in 1 .. n : x[i] \in S \cup T
      <3>1. \A i \in 1 .. Len(v) : v[i] \in S
        BY <1>3
      <3>2. \A i \in 1 .. Len(w) : w[i] \in T
        BY <1>4
      <3>3. QED
        BY <1>8, <2>1, <3>1, <3>2
    <2>3. \A i \in 1 .. Len(v) : i \in 1 .. n /\ x[i] = v[i]
      BY <1>3, <1>4, <1>7, <1>8, SMTT(30)
    <2>4. ASSUME NEW i \in 1 .. Len(w)
          PROVE  Len(v) + i \in 1 .. n /\ x[Len(v) + i] = w[i]
      <3>1. PICK a \in Nat, b \in Nat : a = Len(v) /\ b = Len(w)
        BY <1>3, <1>4
      <3>2. a + i \in 1 .. n /\ ~(a + i <= a) /\ (a + i) - a = i
        BY <1>7, <3>1
      <3>3. QED
        BY <1>8, <3>1, <3>2
    <2>5. \A t \in S : \E i \in 1 .. n : x[i] = t
      <3> SUFFICES ASSUME NEW t \in S PROVE \E i \in 1 .. n : x[i] = t
        OBVIOUS
      <3>1. PICK i \in 1 .. Len(v) : v[i] = t
        BY <1>3
      <3>2. QED
        BY <2>3, <3>1
    <2>6. \A t \in T : \E i \in 1 .. n : x[i] = t
      <3> SUFFICES ASSUME NEW t \in T PROVE \E i \in 1 .. n : x[i] = t
        OBVIOUS
      <3>1. PICK i \in 1 .. Len(w) : w[i] = t
        BY <1>4
      <3>2. QED
        BY <2>4, <3>1
    <2>7. QED
      BY <2>2, <2>5, <2>6
  <1>10. Sleepers(x, n)
    <2>1. \A i \in 1 .. n : x[i] \in Task /\ tskstat[x[i]] = "WAI"
      BY <1>9
    <2>2. ASSUME NEW i \in 1 .. n, NEW j \in 1 .. n, x[i] = x[j]
          PROVE  i = j
      <3>1. CASE i <= Len(v) /\ j <= Len(v)
        <4>1. i \in 1 .. Len(v) /\ j \in 1 .. Len(v)
          BY <1>3, <1>8, <3>1
        <4>2. v[i] = v[j]
          BY <1>8, <2>2, <3>1
        <4>3. QED
          BY <1>3, <4>1, <4>2 DEF Sleepers
      <3>2. CASE ~(i <= Len(v)) /\ ~(j <= Len(v))
        <4>1. i - Len(v) \in 1 .. Len(w) /\ j - Len(v) \in 1 .. Len(w)
          BY <1>3, <1>4, <1>7, <3>2
        <4>2. i - Len(v) = j - Len(v)
          BY <1>4, <1>8, <2>2, <3>2, <4>1 DEF Sleepers
        <4>3. QED
          BY <1>3, <1>8, <4>2
      <3>3. ASSUME NEW a \in 1 .. n, NEW b \in 1 .. n, a <= Len(v), ~(b <= Len(v))
            PROVE  x[a] # x[b]
        <4>1. a \in 1 .. Len(v) /\ b - Len(v) \in 1 .. Len(w)
          BY <1>3, <1>4, <1>7, <3>3
        <4>2. x[a] \in S /\ x[b] \in T
          BY <1>3, <1>4, <1>8, <3>3, <4>1
        <4>3. QED
          BY <4>2
      <3>4. QED
        BY <2>2, <3>1, <3>2, <3>3
    <2>3. QED
      BY <1>8, <2>1, <2>2 DEF Sleepers
  <1>11. /\ ResetHeads(<<h, g>>)
         /\ Commit(ReleaseAll(Deleted, x)) \/ Commit(ReleaseAll(DeletedUntimed, x))
    BY <1>6 DEF Emptied, DismissAll, DismissAllUntimed
  <1>12. \E k : Wakes(k, S \cup T) /\ Hears(k, S \cup T, E_DLT)
    BY <1>8, <1>9, <1>10, <1>11, SequenceWakes DEF ResetHeads
  <1>13. wlink' = [f \in {"next", "prev"} |->
                     [m \in WNode |-> IF m \in {h, g} THEN m ELSE wlink[f][m]]]
    <2>1. DOMAIN <<h, g>> = {1, 2} /\ <<h, g>>[1] = h /\ <<h, g>>[2] = g
      OBVIOUS
    <2>2. \A m : (\E i \in DOMAIN <<h, g>> : <<h, g>>[i] = m) <=> m \in {h, g}
      BY <2>1
    <2>3. QED
      BY <1>11, <2>2 DEF ResetHeads
  <1>14. QED
    BY <1>12, <1>13 DEF Emptying

-----------------------------------------------------------------------------
(***************************************************************************)
(* Where a task joins a wait queue that is spelt out by a thread.          *)
(***************************************************************************)
LEMMA WaitNodes ==
  /\ Task \subseteq WNode /\ WHead \subseteq WNode
  /\ IsFiniteSet(WNode)
  BY FiniteAssumption, FS_Union DEF WNode

\* After its place k come only those who are less urgent, or, if the queue goes
\* by arrival, nobody.
Place(n, s, t, bypri, k) ==
  /\ k \in 0 .. n
  /\ bypri => /\ \A i \in 1 .. k : tskpri[s[i]] <= tskpri[t]
              /\ k < n => tskpri[s[k + 1]] > tskpri[t]
  /\ ~bypri => k = n

LEMMA JoinsAt ==
  ASSUME tskpri \in [Task -> Pri], NEW r \in Ring(WNode), NEW h \in WNode,
         NEW n, NEW s, Thread(WNode, r, h, n, s), Threaded(n, s) \subseteq Task,
         NEW t \in Task, NEW bypri \in BOOLEAN
  PROVE  \E k : /\ Place(n, s, t, bypri, k)
                /\ (IF bypri THEN ins_pri(r, h, t) ELSE ins_fifo(r, h, t))
                     = InsertAfter(r, s[k], t)
  <1>1. /\ n \in Nat /\ s[0] = h /\ s[n + 1] = h
        /\ \A i \in 0 .. n : r.prev[s[i + 1]] = s[i]
        /\ \A i \in 1 .. n : s[i] \in Task
    BY DEF Thread, Threaded
  <1>2. PICK w : w = Walk(r, h)
    OBVIOUS
  <1>3. w = [i \in 1 .. n |-> s[i]]
    BY <1>2, WaitNodes, ThreadWalk
  <1>4. w \in Seq(Task) /\ Len(w) = n /\ \A i \in 1 .. n : w[i] = s[i]
    BY <1>1, <1>3
  <1>5. CASE ~bypri
    <2>1. ins_fifo(r, h, t) = InsertAfter(r, s[n], t)
      <3>1. CASE n = 0
        <4>1. w = <<>>
          BY <1>4, <3>1
        <4>2. QED
          BY <1>1, <1>2, <3>1, <4>1 DEF ins_fifo
      <3>2. CASE n # 0
        <4>1. w # <<>> /\ w[Len(w)] = s[n]
          BY <1>1, <1>4, <3>2
        <4>2. QED
          BY <1>2, <4>1 DEF ins_fifo
      <3>3. QED
        BY <3>1, <3>2
    <2>2. Place(n, s, t, bypri, n)
      BY <1>1, <1>5 DEF Place
    <2>3. QED
      BY <1>5, <2>1, <2>2
  <1>6. CASE bypri
    <2> DEFINE A == {i \in 1 .. Len(w) : tskpri[w[i]] > tskpri[t]}
               y == IF A = {} THEN h ELSE w[Min(A)]
    <2>1. ins_pri(r, h, t) = InsertAfter(r, r.prev[y], t)
      BY <1>2 DEF ins_pri, InFrontOf
    <2>2. \A i \in 1 .. n : tskpri[s[i]] \in Nat /\ tskpri[t] \in Nat
      <3>1. Pri \subseteq Nat
        BY DEF Pri
      <3>2. QED
        BY <1>1, <3>1
    <2>3. A = {i \in 1 .. n : tskpri[s[i]] > tskpri[t]}
      BY <1>4
    <2>4. CASE A = {}
      <3>1. r.prev[y] = s[n]
        BY <1>1, <2>4
      <3>2. \A i \in 1 .. n : tskpri[s[i]] <= tskpri[t]
        BY <2>2, <2>3, <2>4
      <3>3. Place(n, s, t, bypri, n)
        BY <1>1, <1>6, <3>2 DEF Place
      <3>4. QED
        BY <1>6, <2>1, <3>1, <3>3
    <2>5. CASE A # {}
      <3> DEFINE m == Min(A)
      <3>1. m \in A /\ \A i \in A : m <= i
        <4>1. A \subseteq Nat
          BY <2>3
        <4> HIDE DEF A
        <4>2. \E i \in A : \A j \in A : i <= j
          BY <2>5, <4>1, Least
        <4>3. QED
          BY <4>2 DEF Min
      <3>2. y = w[m]
        BY <2>5
      <3> HIDE DEF m, y
      <3>3. m \in 1 .. n /\ m - 1 \in 0 .. n /\ (m - 1) + 1 = m /\ tskpri[s[m]] > tskpri[t]
        BY <1>1, <2>3, <3>1
      <3>4. r.prev[y] = s[m - 1]
        BY <1>1, <1>4, <3>2, <3>3
      <3>5. \A i \in 1 .. m - 1 : tskpri[s[i]] <= tskpri[t]
        <4> SUFFICES ASSUME NEW i \in 1 .. m - 1 PROVE tskpri[s[i]] <= tskpri[t]
          OBVIOUS
        <4>1. i \in 1 .. n /\ i < m
          BY <1>1, <3>3
        <4>2. i \notin A
          BY <3>1, <3>3, <4>1
        <4>3. QED
          BY <2>2, <2>3, <4>1, <4>2
      <3>6. Place(n, s, t, bypri, m - 1)
        BY <1>1, <1>6, <3>3, <3>5 DEF Place
      <3>7. QED
        BY <1>6, <2>1, <3>4, <3>6
    <2>6. QED
      BY <2>4, <2>5
  <1>7. QED
    BY <1>5, <1>6

\* The queue before and after.
Lines(r, h, S, w) ==
  /\ w = Walk(r, h) /\ w \in Seq(S)
  /\ S = {w[i] : i \in 1 .. Len(w)}
  /\ \A i, j \in 1 .. Len(w) : w[i] = w[j] => i = j
  /\ Len(w) > 0 => w[1] = r.next[h]

LEMMA ListLines ==
  ASSUME NEW r \in Ring(WNode), NEW h \in WNode, NEW S, IsList(WNode, r, h, S)
  PROVE  \E w : Lines(r, h, S, w)
  <1>1. PICK n, s : Thread(WNode, r, h, n, s) /\ S = Threaded(n, s)
    BY DEF IsList
  <1>2. PICK w : w = Walk(r, h)
    OBVIOUS
  <1>3. n \in Nat /\ w = [i \in 1 .. n |-> s[i]]
    <2>1. n \in Nat
      BY <1>1 DEF Thread
    <2>2. QED
      BY <1>1, <1>2, <2>1, WaitNodes, ThreadWalk
  <1>4. w \in Seq(S) /\ Len(w) = n /\ \A i \in 1 .. n : w[i] = s[i]
    <2>1. \A i \in 1 .. n : s[i] \in S
      BY <1>1 DEF Threaded
    <2>2. QED
      BY <1>3, <2>1
  <1>5. S = {w[i] : i \in 1 .. n}
    BY <1>1, <1>4 DEF Threaded
  <1>6. \A i, j \in 1 .. n : w[i] = w[j] => i = j
    <2>1. \A i \in 1 .. n : i \in 0 .. n
      BY <1>3
    <2>2. QED
      BY <1>1, <1>4, <2>1 DEF Thread
  <1>7. n > 0 => w[1] = r.next[h]
    <2>1. n > 0 => 0 \in 0 .. n /\ 0 + 1 = 1 /\ 1 \in 1 .. n
      BY <1>3
    <2>2. QED
      BY <1>1, <1>4, <2>1 DEF Thread
  <1>8. Lines(r, h, S, w)
    <2>1. w = Walk(r, h) /\ w \in Seq(S) /\ Len(w) = n
      BY <1>2, <1>4
    <2> HIDE <1>2
    <2>2. QED
      BY <2>1, <1>5, <1>6, <1>7 DEF Lines
  <1>9. QED
    BY <1>8

Joins(r, h, t, bypri) == IF bypri THEN ins_pri(r, h, t) ELSE ins_fifo(r, h, t)

\* Joining takes a place, and touches no other queue.
JoinsLine(r, h, S, t, bypri) ==
  LET w == Walk(r, h)
      q == Joins(r, h, t, bypri)
  IN  /\ q \in Ring(WNode)
      /\ \E k : Place(Len(w), w, t, bypri, k) /\ Walk(q, h) = Inserted(w, Len(w), k, t)
      /\ \A O \in SUBSET WNode : O \cap (S \cup {h, t}) = {} => Untouched(r, q, O)

LEMMA JoinWalk ==
  ASSUME tskpri \in [Task -> Pri], NEW r \in Ring(WNode), NEW h \in WNode,
         NEW S \in SUBSET Task, IsList(WNode, r, h, S),
         NEW t \in Task, t \notin S, t # h, NEW bypri \in BOOLEAN
  PROVE  JoinsLine(r, h, S, t, bypri)
  <1>1. PICK n, s : Thread(WNode, r, h, n, s) /\ S = Threaded(n, s)
    BY DEF IsList
  <1>2. PICK k : /\ Place(n, s, t, bypri, k)
                 /\ Joins(r, h, t, bypri) = InsertAfter(r, s[k], t)
    <2>1. Threaded(n, s) \subseteq Task
      BY <1>1
    <2>2. QED
      BY <1>1, <2>1, JoinsAt DEF Joins
  <1>3. n \in Nat /\ k \in 0 .. n /\ s[k] \in S \cup {h} /\ t \in WNode
    <2>1. n \in Nat /\ k \in 0 .. n
      BY <1>1, <1>2 DEF Thread, Place
    <2>2. s[k] \in S \cup {h}
      BY <1>1, <2>1 DEF Thread, Threaded
    <2>3. QED
      BY <2>1, <2>2, WaitNodes
  <1>4. PICK w : w = Walk(r, h)
    OBVIOUS
  <1>5. w = [i \in 1 .. n |-> s[i]]
    BY <1>1, <1>4, WaitNodes, ThreadWalk
  <1>6. Len(w) = n /\ \A i \in 1 .. n : w[i] = s[i]
    <2>1. \A i \in 1 .. n : s[i] \in S
      BY <1>1 DEF Threaded
    <2>2. QED
      BY <1>3, <1>5, <2>1
  <1>7. PICK q : q = Joins(r, h, t, bypri)
    OBVIOUS
  <1>8. Walk(q, h) = Inserted(s, n, k, t)
    BY <1>1, <1>2, <1>3, <1>7, WaitNodes, InsertedWalk
  <1>9. Inserted(s, n, k, t) = Inserted(w, n, k, t)
    <2>1. ASSUME NEW i \in 1 .. n + 1
          PROVE  (IF i <= k THEN s[i] ELSE IF i = k + 1 THEN t ELSE s[i - 1])
                   = (IF i <= k THEN w[i] ELSE IF i = k + 1 THEN t ELSE w[i - 1])
      <3>1. CASE i <= k
        <4>1. i \in 1 .. n
          BY <1>3, <3>1
        <4>2. QED
          BY <1>6, <3>1, <4>1
      <3>2. CASE ~(i <= k) /\ i # k + 1
        <4>1. i - 1 \in 1 .. n
          BY <1>3, <3>2
        <4>2. QED
          BY <1>6, <3>2, <4>1
      <3>3. CASE i = k + 1
        BY <1>3, <3>3
      <3>4. QED
        BY <3>1, <3>2, <3>3
    <2>2. QED
      BY <2>1 DEF Inserted
  <1>10. Place(n, w, t, bypri, k)
    <2>1. \A i \in 1 .. k : w[i] = s[i]
      BY <1>3, <1>6
    <2>2. k < n => k + 1 \in 1 .. n
      BY <1>3
    <2>3. k < n => w[k + 1] = s[k + 1]
      BY <1>6, <2>2
    <2>4. QED
      BY <1>2, <2>1, <2>3 DEF Place
  <1>11. q \in Ring(WNode) /\ \A O \in SUBSET WNode :
           O \cap (S \cup {h, t}) = {} => Untouched(r, q, O)
    <2>1. q = InsertAfter(r, s[k], t) /\ s[k] \in WNode
      BY <1>2, <1>3, <1>7, WaitNodes
    <2>2. q \in Ring(WNode)
      BY <1>3, <2>1, InsertAfterRing
    <2>3. QED
      BY <1>3, <2>1, <2>2, InsertAfterElsewhere
  <1>12. QED
    BY <1>4, <1>6, <1>7, <1>8, <1>9, <1>10, <1>11 DEF JoinsLine

\* Leaving takes one task off, and touches no other queue.
LeavesLine(r, h, S, t) ==
  LET w == Walk(r, h)
      q == UnlinkToSelf(r, t)
  IN  /\ q \in Ring(WNode)
      /\ \E k \in 1 .. Len(w) : Walk(q, h) = Removed(w, Len(w), k)
      /\ \A O \in SUBSET WNode : O \cap (S \cup {h}) = {} => Untouched(r, q, O)

LEMMA LeaveWalk ==
  ASSUME NEW r \in Ring(WNode), NEW h \in WNode, NEW S \in SUBSET Task,
         IsList(WNode, r, h, S), NEW t \in S
  PROVE  LeavesLine(r, h, S, t)
  <1>1. PICK n, s : Thread(WNode, r, h, n, s) /\ S = Threaded(n, s)
    BY DEF IsList
  <1>2. PICK k \in 1 .. n : s[k] = t
    BY <1>1 DEF Threaded
  <1>3. n \in Nat /\ t \in WNode
    BY <1>1, WaitNodes DEF Thread
  <1>4. PICK w : w = Walk(r, h)
    OBVIOUS
  <1>5. w = [i \in 1 .. n |-> s[i]]
    BY <1>1, <1>4, WaitNodes, ThreadWalk
  <1>6. Len(w) = n /\ \A i \in 1 .. n : w[i] = s[i]
    <2>1. \A i \in 1 .. n : s[i] \in S
      BY <1>1 DEF Threaded
    <2>2. QED
      BY <1>3, <1>5, <2>1
  <1>7. PICK q : q = UnlinkToSelf(r, t)
    OBVIOUS
  <1>8. Walk(q, h) = Removed(s, n, k)
    BY <1>1, <1>2, <1>7, WaitNodes, RemovedWalk
  <1>9. Removed(s, n, k) = Removed(w, n, k)
    <2>1. ASSUME NEW i \in 1 .. n - 1
          PROVE  (IF i < k THEN s[i] ELSE s[i + 1]) = (IF i < k THEN w[i] ELSE w[i + 1])
      <3>1. i \in 1 .. n /\ i + 1 \in 1 .. n
        BY <1>3
      <3>2. QED
        BY <1>6, <3>1
    <2>2. QED
      BY <2>1 DEF Removed
  <1>10. q \in Ring(WNode) /\ \A O \in SUBSET WNode :
           O \cap (S \cup {h}) = {} => Untouched(r, q, O)
    <2>1. q \in Ring(WNode)
      BY <1>3, <1>7, UnlinkToSelfRing
    <2>2. QED
      BY <1>7, <2>1, UnlinkElsewhere
  <1>11. QED
    BY <1>2, <1>4, <1>6, <1>7, <1>8, <1>9, <1>10 DEF LeavesLine

\* A head that points to itself is a list of nobody.
LEMMA EmptyList ==
  ASSUME NEW N, NEW r, NEW h \in N, r.next[h] = h, r.prev[h] = h
  PROVE  IsList(N, r, h, {})
  <1> DEFINE s == [i \in 0 .. 1 |-> h]
  <1>1. Thread(N, r, h, 0, s)
    BY DEF Thread
  <1>2. Threaded(0, s) = {}
    BY DEF Threaded
  <1>3. QED
    BY <1>1, <1>2 DEF IsList

\* Task t joins the queue at h of a family: nobody else is linked by that, but
\* for those in the queue.
JoinsLists(r, H, M, h, t, bypri) ==
  LET q == Joins(r, h, t, bypri)
  IN  /\ q \in Ring(WNode)
      /\ Lists(WNode, q, H, [g \in H |-> IF g = h THEN M[g] \cup {t} ELSE M[g]])
      /\ \A u \in Task \ {t} : InQueue(q, u) => InQueue(r, u) \/ u \in M[h]

LEMMA JoinLists ==
  ASSUME tskpri \in [Task -> Pri], NEW r \in Ring(WNode), NEW H, NEW M,
         Lists(WNode, r, H, M), H \cap Task = {}, NEW h \in H, M[h] \subseteq Task,
         NEW t \in Task, \A g \in H : t \notin M[g], NEW bypri \in BOOLEAN
  PROVE  JoinsLists(r, H, M, h, t, bypri)
  <1>1. h \in WNode /\ IsList(WNode, r, h, M[h])
    BY DEF Lists
  <1>2. PICK n, s : Thread(WNode, r, h, n, s) /\ M[h] = Threaded(n, s)
    BY <1>1 DEF IsList
  <1>3. \E k : /\ Place(n, s, t, bypri, k)
               /\ (IF bypri THEN ins_pri(r, h, t) ELSE ins_fifo(r, h, t))
                     = InsertAfter(r, s[k], t)
    BY <1>1, <1>2, JoinsAt
  <1>4. PICK k : Place(n, s, t, bypri, k) /\ Joins(r, h, t, bypri) = InsertAfter(r, s[k], t)
    BY <1>3 DEF Joins
  <1>5. PICK p : p = s[k]
    OBVIOUS
  <1>6. p \in M[h] \cup {h} /\ p \in WNode /\ t \in WNode \ H
    BY <1>1, <1>2, <1>4, <1>5, WaitNodes DEF Place, Thread, Threaded
  <1>7. PICK q : q = Joins(r, h, t, bypri) /\ q = InsertAfter(r, p, t)
    BY <1>4, <1>5
  <1>8. q \in Ring(WNode)
    BY <1>6, <1>7, InsertAfterRing
  <1>9. PICK L : L = [g \in H |-> IF g = h THEN M[g] \cup {t} ELSE M[g]]
    OBVIOUS
  <1>10. Lists(WNode, q, H, L)
    <2>1. \A g \in H : L[g] = IF g = h THEN M[g] \cup {t} ELSE M[g]
      BY <1>9
    <2>2. Lists(WNode, InsertAfter(r, p, t), H, L)
      BY <1>6, <2>1, ListsInsertAfter, ZenonT(60)
    <2>3. QED
      BY <1>7, <2>2
  <1>11. ASSUME NEW u \in Task \ {t}, InQueue(q, u)
         PROVE  InQueue(r, u) \/ u \in M[h]
    <2>1. u # p => q.next[u] = r.next[u]
      BY <1>6, <1>7, WaitNodes DEF InsertAfter, Ring
    <2>2. u = p => u \in M[h]
      BY <1>6
    <2>3. QED
      BY <1>11, <2>1, <2>2 DEF InQueue
  <1>12. QED
    BY <1>7, <1>8, <1>9, <1>10, <1>11 DEF JoinsLists

\* Task t leaves the queue at h of a family.
LeavesLists(r, H, M, h, t) ==
  LET q == UnlinkToSelf(r, t)
  IN  /\ q \in Ring(WNode)
      /\ Lists(WNode, q, H, [g \in H |-> IF g = h THEN M[g] \ {t} ELSE M[g]])
      /\ InQueue(r, t) /\ ~InQueue(q, t)
      /\ \A u \in Task \ {t} : InQueue(q, u) => InQueue(r, u) \/ u \in M[h]

LEMMA LeaveLists ==
  ASSUME NEW r \in Ring(WNode), NEW H, NEW M, Lists(WNode, r, H, M), H \cap Task = {},
         NEW h \in H, M[h] \subseteq Task, NEW t \in M[h]
  PROVE  LeavesLists(r, H, M, h, t)
  <1>1. h \in WNode /\ IsList(WNode, r, h, M[h]) /\ t \in Task /\ t \in WNode
    BY WaitNodes DEF Lists
  <1>2. PICK q : q = UnlinkToSelf(r, t)
    OBVIOUS
  <1>3. q \in Ring(WNode)
    BY <1>1, <1>2, UnlinkToSelfRing
  <1>4. ListFacts(WNode, r, h, M[h])
    BY <1>1, ListLinks
  <1>5. InQueue(r, t) /\ r.prev[t] \in M[h] \cup {h} /\ r.next[t] \in M[h] \cup {h}
    BY <1>4 DEF ListFacts, InQueue
  <1>6. ~InQueue(q, t)
    BY <1>1, <1>2 DEF InQueue, UnlinkToSelf, Unlink, Ring
  <1>7. PICK L : L = [g \in H |-> IF g = h THEN M[g] \ {t} ELSE M[g]]
    OBVIOUS
  <1>8. Lists(WNode, q, H, L)
    <2>1. \A g \in H : L[g] = IF g = h THEN M[g] \ {t} ELSE M[g]
      BY <1>7
    <2>2. QED
      BY <1>2, <2>1, ListsUnlink
  <1>9. ASSUME NEW u \in Task \ {t}, InQueue(q, u)
        PROVE  InQueue(r, u) \/ u \in M[h]
    <2>1. u # r.prev[t] => q.next[u] = r.next[u]
      BY <1>1, <1>2, WaitNodes DEF UnlinkToSelf, Unlink, Ring
    <2>2. u = r.prev[t] => u \in M[h]
      BY <1>5
    <2>3. QED
      BY <1>9, <2>1, <2>2 DEF InQueue
  <1>10. QED
    BY <1>2, <1>3, <1>5, <1>6, <1>7, <1>8, <1>9 DEF LeavesLists

-----------------------------------------------------------------------------
(***************************************************************************)
(* What the steps of the task layer do to those who sleep.                 *)
(***************************************************************************)
\* The error codes.
LEMMA Codes ==
  /\ E_OK \in Int /\ E_OBJ \in Int /\ E_NOEXS \in Int /\ E_QOVR \in Int /\ E_TMOUT \in Int
  /\ E_NOID \in Int /\ E_DLT \in Int
  BY DEF E_OK, E_OBJ, E_NOEXS, E_QOVR, E_TMOUT, E_NOID, E_DLT

\* The program of t has a call that puts it to sleep outside of any queue.
SleepsAlone(t) ==
  \E call \in {"slp_tsk", "tslp_tsk", "dly_tsk"} : Issues(t, call, t)

\* What a system call of Tasks does to the sleepers and to pending wakeups.
LEMMA CallSleepers ==
  ASSUME TypeOK, NEW c \in Cpu, SystemCall(c)
  PROVE  /\ pc[c] = "user" /\ pc' = [pc EXCEPT ![c] = "ret"]
         /\ UNCHANGED <<wlink, c_tskid>>
         /\ \A t \in Task : tskstat'[t] = "WAI" =>
              tskstat[t] = "WAI" \/ (t = c_tskid[c] /\ SleepsAlone(t))
         /\ \A t \in Task : tskstat[t] = "WAI" =>
              \/ tskstat'[t] = "WAI" \/ t = c_tskid[c]
              \/ Issues(c_tskid[c], "wup_tsk", t)
         /\ \A t \in Task : wupcnt[t] = 0 =>
              wupcnt'[t] = 0 \/ Issues(c_tskid[c], "wup_tsk", t)
  <1>0. /\ tskstat \in [Task -> Stat] /\ c_tskid[c] \in Task
        /\ wupcnt \in [Task -> 0 .. TMAX_WUPCNT + 1]
    BY DEF TypeOK
  <1>1. CASE slp_tsk(c) \/ tslp_tsk(c) \/ dly_tsk(c)
    <2>1. /\ pc[c] = "user" /\ SleepsAlone(c_tskid[c])
          /\ pc' = [pc EXCEPT ![c] = "ret"] /\ UNCHANGED <<wlink, c_tskid>>
      BY <1>1 DEF slp_tsk, tslp_tsk, dly_tsk, Trap, Return, SleepsAlone
    <2>2. \/ tskstat' = tskstat
          \/ tskstat' = [tskstat EXCEPT ![c_tskid[c]] = "WAI"]
      BY <1>1 DEF slp_tsk, tslp_tsk, dly_tsk, sys_slp_tsk, sys_tslp_tsk, TakeWakeup,
                  Block, readyVars
    <2>3. \/ wupcnt' = wupcnt
          \/ wupcnt[c_tskid[c]] >= 1 /\ wupcnt' = [wupcnt EXCEPT ![c_tskid[c]] = @ - 1]
      BY <1>1 DEF slp_tsk, tslp_tsk, dly_tsk, sys_slp_tsk, sys_tslp_tsk, TakeWakeup
    <2>4. QED
      BY <1>0, <2>1, <2>2, <2>3
  <1>2. ASSUME NEW u \in Task, wup_tsk(c, u)
        PROVE  /\ pc[c] = "user" /\ pc' = [pc EXCEPT ![c] = "ret"]
               /\ UNCHANGED <<wlink, c_tskid>> /\ Issues(c_tskid[c], "wup_tsk", u)
               /\ \/ UNCHANGED tskstat
                  \/ tskstat' = [tskstat EXCEPT ![u] = "RDY", ![c_tskid[c]] = "RDY"]
               /\ UNCHANGED wupcnt \/ wupcnt' = [wupcnt EXCEPT ![u] = @ + 1]
    BY <1>2 DEF wup_tsk, Trap, QueueWakeup, WakeUp, RefuseWakeup, Return, readyVars
  <1>3. ASSUME NEW u \in Task, can_wup(c, u)
        PROVE  /\ pc[c] = "user" /\ pc' = [pc EXCEPT ![c] = "ret"]
               /\ UNCHANGED <<wlink, c_tskid, tskstat>>
               /\ UNCHANGED wupcnt \/ wupcnt' = [wupcnt EXCEPT ![u] = 0]
    BY <1>3 DEF can_wup, Trap, RefuseWakeup, Return, readyVars
  <1>4. ASSUME NEW u \in Task, act_tsk(c, u)
        PROVE  /\ pc[c] = "user" /\ pc' = [pc EXCEPT ![c] = "ret"]
               /\ UNCHANGED <<wlink, c_tskid, wupcnt>>
               /\ \/ UNCHANGED tskstat
                  \/ tskstat[u] = "DMT" /\ tskstat' = [tskstat EXCEPT ![u] = "RDY"]
    BY <1>4 DEF act_tsk, Trap, Return, readyVars
  <1>5. CASE \E u \in Task : wup_tsk(c, u) \/ can_wup(c, u) \/ act_tsk(c, u)
    BY <1>0, <1>2, <1>3, <1>4, <1>5
  <1>6. QED
    BY <1>1, <1>5 DEF SystemCall

\* The steps of a CPU that leave everybody where they sleep.
LEMMA QuietKernel ==
  ASSUME Layer, NEW c \in Cpu,
         Interrupt(c) \/ tick_done(c) \/ store_ret(c) \/ sched_do_next_tsk(c)
           \/ intr_leave(c) \/ clear_flag(c)
  PROVE  /\ UNCHANGED <<wlink, wupcnt>>
         /\ \A t \in Task : tskstat'[t] = "WAI" <=> tskstat[t] = "WAI"
         /\ \A b \in Cpu : b # c => pc'[b] = pc[b] /\ c_tskid'[b] = c_tskid[b]
         /\ pc'[c] = "user" =>
              pc[c] # "user" /\ c_tskid' = c_tskid /\ tskstat[c_tskid[c]] = "RUN"
  <1>0. /\ pc \in [Cpu -> PC] /\ c_tskid \in [Cpu -> Task]
        /\ tskstat \in [Task -> Stat]
    BY DEF Layer, TypeOK
  <1>1. CASE Interrupt(c) \/ tick_done(c) \/ store_ret(c)
    <2>1. UNCHANGED <<wlink, wupcnt, tskstat, c_tskid>>
      BY <1>1 DEF Interrupt, irq0, apic_timer, tick_done, store_ret, readyVars
    <2>2. pc' = [pc EXCEPT ![c] = "leave"] \/ pc' = [pc EXCEPT ![c] = "tick"]
      BY <1>1 DEF Interrupt, irq0, apic_timer, tick_done, store_ret
    <2>3. QED
      BY <1>0, <2>1, <2>2
  <1>2. CASE intr_leave(c) \/ clear_flag(c)
    <2>1. /\ UNCHANGED <<wlink, wupcnt, tskstat, c_tskid>>
          /\ pc' = [pc EXCEPT ![c] = "user"]
          /\ \/ pc[c] = "leave" /\ next_tsk_flag[c] = 0
             \/ pc[c] = "clear"
      BY <1>2 DEF intr_leave, clear_flag, Resume, readyVars
    <2>2. tskstat[c_tskid[c]] = "RUN"
      BY <2>1 DEF Layer, Replaceable
    <2>3. QED
      BY <1>0, <2>1, <2>2
  <1>3. CASE sched_do_next_tsk(c)
    <2>1. UNCHANGED <<wlink, wupcnt>> /\ pc' = [pc EXCEPT ![c] = "clear"]
      BY <1>3 DEF sched_do_next_tsk
    <2>2. \A t \in Task : IsReady(t)' <=> IsReady(t)
      BY <1>3, DispatcherReady DEF Layer
    <2>3. \/ UNCHANGED <<tskstat, c_tskid>>
          \/ \E t \in Task : Switch(c, t)
      BY <1>3, DispatcherPinned
    <2>4. \A t \in Task : tskstat'[t] = tskstat[t] \/ IsReady(t)'
      <3>1. CASE UNCHANGED tskstat
        BY <3>1
      <3>2. ASSUME NEW t \in Task, Switch(c, t)
            PROVE  \A u \in Task : tskstat'[u] = tskstat[u] \/ IsReady(u)'
        BY <3>2 DEF Switch, IsReady
      <3>3. QED
        BY <2>3, <3>1, <3>2
    <2>5. \A t \in Task : tskstat'[t] = "WAI" <=> tskstat[t] = "WAI"
      BY <2>2, <2>4 DEF IsReady
    <2>6. \A b \in Cpu : b # c => c_tskid'[b] = c_tskid[b]
      BY <1>0, <2>3 DEF Switch
    <2>7. QED
      BY <1>0, <2>1, <2>5, <2>6
  <1>4. QED
    BY <1>1, <1>2, <1>3

\* Whose time-out it is.
LEMMA TimeoutTask ==
  ASSUME Layer, NEW c \in Cpu, sched_timeout(c)
  PROVE  FirstTimeout \in Task
  <1>1. FirstTimeout # TimeoutHead
    BY DEF sched_timeout, Expired
  <1>2. FirstTimeout \in TNode
    BY TimeoutNodes DEF Layer, TypeOK, FirstTimeout, Ring, TNode
  <1>3. QED
    BY <1>1, <1>2, TimeoutNodes

-----------------------------------------------------------------------------
(***************************************************************************)
(* What is asked of an application: it has idle tasks, a task that blocks  *)
(* at the objects is none of them, and nobody wakes it with wup_tsk, which *)
(* would leave it in its queue.                                            *)
(***************************************************************************)
Application(B) ==
  /\ Idle # {} /\ B \cap Idle = {}
  /\ \A t \in B, u \in Task : ~Issues(u, "wup_tsk", t)

Undisturbed(H, B) == H \subseteq WHead /\ B \subseteq Task /\ Application(B)

\* The queue at h holds L[h]; a sleeper that is linked at all is in one of them.
Queues(H, B, L) ==
  /\ \A h \in H : L[h] \subseteq B
  /\ Lists(WNode, wlink, H, L)
  /\ \A t \in Task : tskstat[t] = "WAI" /\ InQueue(wlink, t) => \E h \in H : t \in L[h]
  /\ \A t \in B : wupcnt[t] = 0

Asleep(H, L) == \A h \in H : \A t \in L[h] : tskstat[t] = "WAI"

Joined(H, L, h, t) == [g \in H |-> IF g = h THEN L[g] \cup {t} ELSE L[g]]
Without(H, L, t) == [g \in H |-> L[g] \ {t}]
Cleared(H, L, G) == [g \in H |-> IF g \in G THEN {} ELSE L[g]]

LEMMA HeadNodes ==
  ASSUME NEW H, NEW B, Undisturbed(H, B)
  PROVE  H \subseteq WNode /\ H \cap Task = {} /\ B \subseteq Task
  BY LinkAssumption DEF Undisturbed, WNode

\* Nobody has called anything yet.
LEMMA QueuesInit ==
  ASSUME TasksInit, NEW H, NEW B, Undisturbed(H, B), NEW L, \A h \in H : L[h] = {}
  PROVE  Layer /\ Queues(H, B, L) /\ Asleep(H, L)
  <1>1. Layer
    BY LayerInit
  <1>2. wlink = SelfLinked(WNode) /\ wupcnt = [t \in Task |-> 0]
    BY DEF TasksInit
  <1>3. \A n \in WNode : wlink.next[n] = n /\ wlink.prev[n] = n
    BY <1>2 DEF SelfLinked
  <1>4. \A h \in H : IsList(WNode, wlink, h, {})
    BY <1>3, HeadNodes, EmptyList
  <1>5. Lists(WNode, wlink, H, L)
    BY <1>4, HeadNodes DEF Lists
  <1>6. \A t \in Task : ~InQueue(wlink, t)
    BY <1>3, WaitNodes DEF InQueue
  <1>7. QED
    BY <1>1, <1>2, <1>5, <1>6, HeadNodes DEF Queues, Asleep

\* A step that moves no sleeper.
LEMMA QueuesSame ==
  ASSUME NEW H, NEW B, Undisturbed(H, B), NEW L, Queues(H, B, L),
         UNCHANGED <<wlink, wupcnt>>,
         \A t \in Task : tskstat'[t] = "WAI" <=> tskstat[t] = "WAI"
  PROVE  Queues(H, B, L)' /\ (Asleep(H, L) => Asleep(H, L)')
  <1>1. \A h \in H : L[h] \subseteq Task
    BY HeadNodes DEF Queues
  <1>2. Queues(H, B, L)'
    BY DEF Queues, InQueue
  <1>3. QED
    BY <1>1, <1>2 DEF Asleep

\* A task sleeps on its own, unless it has stale links.
LEMMA QueuesCall ==
  ASSUME Layer, NEW H, NEW B, Undisturbed(H, B), NEW L, Queues(H, B, L),
         NEW c \in Cpu, SystemCall(c),
         InQueue(wlink, c_tskid[c]) => tskstat'[c_tskid[c]] # "WAI"
  PROVE  Layer' /\ Queues(H, B, L)' /\ (Asleep(H, L) => Asleep(H, L)')
  <1>1. Layer'
    BY LayerStep DEF Undisturbed, Application
  <1>2. /\ pc[c] = "user" /\ UNCHANGED <<wlink, c_tskid>>
        /\ \A t \in Task : tskstat'[t] = "WAI" => tskstat[t] = "WAI" \/ t = c_tskid[c]
        /\ \A t \in Task : tskstat[t] = "WAI" =>
             \/ tskstat'[t] = "WAI" \/ t = c_tskid[c]
             \/ Issues(c_tskid[c], "wup_tsk", t)
        /\ \A t \in Task : wupcnt[t] = 0 =>
             wupcnt'[t] = 0 \/ Issues(c_tskid[c], "wup_tsk", t)
    BY CallSleepers DEF Layer
  <1>3. c_tskid[c] \in Task /\ tskstat[c_tskid[c]] = "RUN"
    BY <1>2, Running
  <1>4. \A t \in B : /\ t \in Task /\ wupcnt'[t] = 0
                     /\ tskstat[t] = "WAI" => tskstat'[t] = "WAI"
    BY <1>2, <1>3 DEF Queues, Undisturbed, Application
  <1>5. \A t \in Task : tskstat'[t] = "WAI" /\ InQueue(wlink, t) => \E h \in H : t \in L[h]
    BY <1>2 DEF Queues
  <1>6. Queues(H, B, L)'
    BY <1>2, <1>4, <1>5 DEF Queues, InQueue
  <1>7. ASSUME Asleep(H, L), NEW h \in H, NEW t \in L[h]
        PROVE  tskstat'[t] = "WAI"
    <2>1. t \in B
      BY DEF Queues
    <2>2. QED
      BY <1>4, <1>7, <2>1 DEF Asleep
  <1>8. QED
    BY <1>1, <1>6, <1>7 DEF Asleep

\* The time-out of a task takes it off the queue it is in.
TimedOut(H, B, L, t) ==
  /\ t \in Task /\ tskstat[t] = "WAI"
  /\ tskstat' = [tskstat EXCEPT ![t] = "RDY"]
  /\ eax' = [eax EXCEPT ![t] = E_TMOUT]
  /\ wlink' = (IF InQueue(wlink, t) THEN UnlinkToSelf(wlink, t) ELSE wlink)
  /\ Queues(H, B, Without(H, L, t))'

LEMMA QueuesTimeout ==
  ASSUME Layer, NEW H, NEW B, Undisturbed(H, B), NEW L, Queues(H, B, L),
         NEW c \in Cpu, sched_timeout(c)
  PROVE  /\ Layer' /\ pc' = pc
         /\ \/ UNCHANGED <<wlink, tskstat, eax>> /\ Queues(H, B, L)'
            \/ \E t : TimedOut(H, B, L, t)
  <1>1. Layer' /\ pc' = pc
    BY LayerStep DEF Undisturbed, Application, Kernel, sched_timeout
  <1>2. tskstat \in [Task -> Stat] /\ wlink \in Ring(WNode)
    BY DEF Layer, TypeOK
  <1>3. CASE UNCHANGED <<wlink, eax, tskstat>>
    <2>1. UNCHANGED wupcnt
      BY DEF sched_timeout
    <2>2. QED
      BY <1>1, <1>3, <2>1, QueuesSame
  <1>4. CASE TimeOutTask(FirstTimeout)
    <2>1. PICK t \in Task : t = FirstTimeout
      BY TimeoutTask
    <2>2. /\ tskstat[t] = "WAI" /\ tskstat' = [tskstat EXCEPT ![t] = "RDY"]
          /\ eax' = [eax EXCEPT ![t] = E_TMOUT]
          /\ wlink' = IF InQueue(wlink, t) THEN UnlinkToSelf(wlink, t) ELSE wlink
          /\ wupcnt' = wupcnt
      BY <1>4, <2>1 DEF TimeOutTask, sched_timeout
    <2>3. \A u \in Task : tskstat'[u] = "WAI" => tskstat[u] = "WAI" /\ u # t
      BY <1>2, <2>2
    <2>4. PICK K : K = Without(H, L, t)
      OBVIOUS
    <2>5. /\ Lists(WNode, wlink', H, K)
          /\ \A u \in Task \ {t} : InQueue(wlink', u) =>
               InQueue(wlink, u) \/ \E h \in H : u \in L[h]
      <3>1. ASSUME NEW h \in H, t \in L[h]
            PROVE  /\ Lists(WNode, wlink', H, K)
                   /\ \A u \in Task \ {t} : InQueue(wlink', u) =>
                        InQueue(wlink, u) \/ u \in L[h]
        <4>1. LeavesLists(wlink, H, L, h, t)
          <5>1. PICK q : q = wlink
            OBVIOUS
          <5>2. /\ q \in Ring(WNode) /\ Lists(WNode, q, H, L) /\ H \cap Task = {}
                /\ L[h] \subseteq Task
            BY <1>2, <5>1, HeadNodes DEF Queues
          <5>3. LeavesLists(q, H, L, h, t)
            BY <3>1, <5>2, LeaveLists
          <5>4. QED
            BY <5>1, <5>3
        <4>2. wlink' = UnlinkToSelf(wlink, t)
          BY <2>2, <4>1 DEF LeavesLists
        <4>3. K = [g \in H |-> IF g = h THEN L[g] \ {t} ELSE L[g]]
          <5>1. \A g \in H : g # h => t \notin L[g]
            BY <3>1 DEF Queues, Lists
          <5>2. QED
            BY <2>4, <5>1 DEF Without
        <4>4. QED
          BY <4>1, <4>2, <4>3 DEF LeavesLists
      <3>2. CASE \A h \in H : t \notin L[h]
        <4>1. wlink' = wlink
          BY <2>2, <3>2 DEF Queues
        <4>2. \A h \in H : K[h] = L[h]
          BY <2>4, <3>2 DEF Without
        <4>3. Lists(WNode, wlink, H, L)
          BY DEF Queues
        <4>4. Lists(WNode, wlink, H, K)
          BY <4>2, <4>3 DEF Lists
        <4>5. QED
          BY <4>1, <4>4
      <3>3. QED
        BY <3>1, <3>2
    <2>6. \A u \in Task : tskstat'[u] = "WAI" /\ InQueue(wlink', u) => \E h \in H : u \in K[h]
      <3> SUFFICES ASSUME NEW u \in Task, tskstat'[u] = "WAI", InQueue(wlink', u)
                   PROVE  \E h \in H : u \in K[h]
        OBVIOUS
      <3>1. \E h \in H : u \in L[h]
        BY <2>3, <2>5 DEF Queues
      <3>2. QED
        BY <2>3, <2>4, <3>1 DEF Without
    <2>7. \A h \in H : K[h] \subseteq B
      BY <2>4 DEF Queues, Without
    <2>8. Queues(H, B, K)'
      BY <2>2, <2>5, <2>6, <2>7 DEF Queues, InQueue
    <2>9. TimedOut(H, B, L, t)
      BY <2>2, <2>4, <2>8 DEF TimedOut
    <2>10. QED
      BY <1>1, <2>9
  <1>5. QED
    BY <1>3, <1>4 DEF sched_timeout

\* The task t joins the queue at h and sleeps.
LEMMA QueuesJoined ==
  ASSUME Layer, NEW H, NEW B, Undisturbed(H, B), NEW L, Queues(H, B, L),
         NEW t \in B, \A h \in H : t \notin L[h], NEW h \in H, NEW bypri \in BOOLEAN,
         wlink' = Joins(wlink, h, t, bypri), tskstat' = [tskstat EXCEPT ![t] = "WAI"],
         wupcnt' = wupcnt
  PROVE  /\ wlink' \in Ring(WNode)
         /\ Queues(H, B, Joined(H, L, h, t))'
         /\ Asleep(H, L) => Asleep(H, Joined(H, L, h, t))'
  <1>1. t \in Task
    BY HeadNodes
  <1>2. /\ tskpri \in [Task -> Pri] /\ tskstat \in [Task -> Stat] /\ wlink \in Ring(WNode)
    BY DEF Layer, TypeOK
  <1>5. JoinsLists(wlink, H, L, h, t, bypri)
    <2>1. PICK q : q = wlink
      OBVIOUS
    <2>2. /\ q \in Ring(WNode) /\ Lists(WNode, q, H, L) /\ H \cap Task = {}
          /\ L[h] \subseteq Task
      BY <1>2, <2>1, HeadNodes DEF Queues
    <2>3. JoinsLists(q, H, L, h, t, bypri)
      BY <1>1, <1>2, <2>2, JoinLists
    <2>4. QED
      BY <2>1, <2>3
  <1>6. PICK K : K = Joined(H, L, h, t)
    OBVIOUS
  <1>7. /\ wlink' \in Ring(WNode) /\ Lists(WNode, wlink', H, K)
        /\ \A u \in Task \ {t} : InQueue(wlink', u) => InQueue(wlink, u) \/ u \in L[h]
    BY <1>5, <1>6 DEF JoinsLists, Joined
  <1>9. \A g \in H : K[g] = IF g = h THEN L[g] \cup {t} ELSE L[g]
    BY <1>6 DEF Joined
  <1>10. \A u \in Task : tskstat'[u] = "WAI" /\ InQueue(wlink', u) => \E g \in H : u \in K[g]
    <2> SUFFICES ASSUME NEW u \in Task, tskstat'[u] = "WAI", InQueue(wlink', u)
                 PROVE  \E g \in H : u \in K[g]
      OBVIOUS
    <2>1. CASE u = t
      BY <1>9, <2>1
    <2>2. CASE u # t
      <3>1. tskstat[u] = "WAI"
        BY <1>2, <2>2
      <3>2. \E g \in H : u \in L[g]
        BY <1>7, <2>2, <3>1 DEF Queues
      <3>3. QED
        BY <1>9, <3>2
    <2>3. QED
      BY <2>1, <2>2
  <1>11. Queues(H, B, K)'
    <2>1. \A g \in H : K[g] \subseteq B
      BY <1>9 DEF Queues
    <2>2. QED
      BY <1>7, <1>10, <2>1 DEF Queues, InQueue
  <1>12. Asleep(H, L) => Asleep(H, K)'
    <2> SUFFICES ASSUME Asleep(H, L), NEW g \in H, NEW u \in K[g]
                 PROVE  tskstat'[u] = "WAI"
      BY DEF Asleep
    <2>1. u = t \/ u \in L[g]
      BY <1>9
    <2>2. u \in Task
      BY <1>1, <2>1, HeadNodes DEF Queues
    <2>3. QED
      BY <1>2, <2>1, <2>2 DEF Asleep
  <1>13. QED
    BY <1>6, <1>7, <1>11, <1>12

\* The running task does so in the way of slp_tsk or tslp_tsk.
Falls(H, B, L, h, t) ==
  /\ tskstat' = [tskstat EXCEPT ![t] = "WAI"]
  /\ Queues(H, B, Joined(H, L, h, t))'
  /\ Asleep(H, L) => Asleep(H, Joined(H, L, h, t))'
  /\ UNCHANGED <<eax, tcbVars>>

LEMMA QueuesJoin ==
  ASSUME Layer, NEW H, NEW B, Undisturbed(H, B), NEW L, Queues(H, B, L),
         NEW c \in Cpu, NEW t \in B, t = c_tskid[c], \A h \in H : t \notin L[h],
         NEW h \in H, NEW bypri \in BOOLEAN, NEW tmout,
         JoinAndSleep(c, wlink, h, bypri, tmout), Returned(c)
  PROVE  Layer' /\ Falls(H, B, L, h, t)
  <1>1. tskstat[t] = "RUN" /\ t \in Task /\ wupcnt[t] = 0 /\ t \notin Idle
    BY Running, HeadNodes DEF Returned, Queues, Undisturbed, Application
  <1>2. /\ Block(t) /\ wupcnt' = wupcnt /\ UNCHANGED <<tcbVars, eax>>
        /\ sys_slp_tsk(t) \/ \E d : sys_tslp_tsk(t, d)
        /\ wlink' = Joins(wlink, h, t, bypri)
    BY <1>1 DEF JoinAndSleep, sys_slp_tsk, sys_tslp_tsk, TakeWakeup, Joins
  <1>3. tskstat' = [tskstat EXCEPT ![t] = "WAI"]
    BY <1>2 DEF Block
  <1>4. PICK K : K = Joined(H, L, h, t)
    OBVIOUS
  <1>5. wlink' \in Ring(WNode) /\ Queues(H, B, K)' /\ (Asleep(H, L) => Asleep(H, K)')
    BY <1>2, <1>3, <1>4, QueuesJoined
  <1>6. Layer'
    BY <1>1, <1>2, <1>5, SleepLayer
  <1>7. QED
    BY <1>2, <1>3, <1>4, <1>5, <1>6 DEF Falls

\* One waiter leaves the queue at h.
LEMMA QueuesLeft ==
  ASSUME Layer, NEW H, NEW B, Undisturbed(H, B), NEW L, Queues(H, B, L),
         NEW h \in H, NEW t \in L[h], wlink' = UnlinkToSelf(wlink, t),
         tskstat' = [tskstat EXCEPT ![t] = "RDY"], wupcnt' = wupcnt
  PROVE  /\ wlink' \in Ring(WNode)
         /\ Queues(H, B, Without(H, L, t))'
         /\ Asleep(H, L) => Asleep(H, Without(H, L, t))'
  <1>1. /\ tskstat \in [Task -> Stat] /\ wlink \in Ring(WNode)
        /\ t \in Task /\ t \in B
    BY HeadNodes DEF Layer, TypeOK, Queues
  <1>2. LeavesLists(wlink, H, L, h, t)
    <2>1. PICK q : q = wlink
      OBVIOUS
    <2>2. /\ q \in Ring(WNode) /\ Lists(WNode, q, H, L) /\ H \cap Task = {}
          /\ L[h] \subseteq Task
      BY <1>1, <2>1, HeadNodes DEF Queues
    <2>3. LeavesLists(q, H, L, h, t)
      BY <2>2, LeaveLists
    <2>4. QED
      BY <2>1, <2>3
  <1>3. PICK K : K = Without(H, L, t)
    OBVIOUS
  <1>4. \A g \in H : K[g] = L[g] \ {t}
    BY <1>3 DEF Without
  <1>5. /\ wlink' \in Ring(WNode) /\ Lists(WNode, wlink', H, K)
        /\ \A u \in Task \ {t} : InQueue(wlink', u) => InQueue(wlink, u) \/ u \in L[h]
    <2>1. K = [g \in H |-> IF g = h THEN L[g] \ {t} ELSE L[g]]
      <3>1. \A g \in H : g # h => t \notin L[g]
        BY DEF Queues, Lists
      <3>2. QED
        BY <1>3, <3>1 DEF Without
    <2>2. QED
      BY <1>2, <2>1 DEF LeavesLists
  <1>8. \A u \in Task : tskstat'[u] = "WAI" => tskstat[u] = "WAI" /\ u # t
    BY <1>1
  <1>9. \A u \in Task : tskstat'[u] = "WAI" /\ InQueue(wlink', u) => \E g \in H : u \in K[g]
    <2> SUFFICES ASSUME NEW u \in Task, tskstat'[u] = "WAI", InQueue(wlink', u)
                 PROVE  \E g \in H : u \in K[g]
      OBVIOUS
    <2>1. \E g \in H : u \in L[g]
      BY <1>5, <1>8 DEF Queues
    <2>2. QED
      BY <1>4, <1>8, <2>1
  <1>10. Queues(H, B, K)'
    <2>1. \A g \in H : K[g] \subseteq B
      BY <1>4 DEF Queues
    <2>2. QED
      BY <1>5, <1>9, <2>1 DEF Queues, InQueue
  <1>11. Asleep(H, L) => Asleep(H, K)'
    <2> SUFFICES ASSUME Asleep(H, L), NEW g \in H, NEW u \in K[g]
                 PROVE  tskstat'[u] = "WAI"
      BY DEF Asleep
    <2>1. u \in L[g] /\ u # t /\ u \in Task
      BY <1>4, HeadNodes DEF Queues
    <2>2. QED
      BY <1>1, <2>1 DEF Asleep
  <1>12. QED
    BY <1>3, <1>5, <1>10, <1>11

\* ... and is given an answer.
Leaves(H, B, L, t, v) ==
  /\ tskstat' = [tskstat EXCEPT ![t] = "RDY"]
  /\ eax' = [eax EXCEPT ![t] = v]
  /\ Queues(H, B, Without(H, L, t))'
  /\ Asleep(H, L) => Asleep(H, Without(H, L, t))'

LEMMA QueuesGive ==
  ASSUME Layer, NEW H, NEW B, Undisturbed(H, B), NEW L, Queues(H, B, L),
         NEW c \in Cpu, NEW h \in H, NEW t \in L[h], NEW v \in Int,
         NEW k, Wakes(k, {t}), Hears(k, {t}, v), wlink' = UnlinkToSelf(wlink, t),
         Returned(c)
  PROVE  Layer' /\ Leaves(H, B, L, t, v)
  <1>1. tskstat \in [Task -> Stat] /\ eax \in [Task -> Int]
    BY DEF Layer, TypeOK
  <1>2. /\ tskstat' = [tskstat EXCEPT ![t] = "RDY"] /\ wupcnt' = wupcnt
        /\ eax' = [eax EXCEPT ![t] = v]
    BY <1>1 DEF Wakes, Hears, Commit
  <1>3. PICK K : K = Without(H, L, t)
    OBVIOUS
  <1>4. wlink' \in Ring(WNode) /\ Queues(H, B, K)' /\ (Asleep(H, L) => Asleep(H, K)')
    BY <1>2, <1>3, QueuesLeft
  <1>5. Layer'
    BY <1>4, WakeLayer
  <1>6. QED
    BY <1>2, <1>3, <1>4, <1>5 DEF Leaves

\* Making one waiter ready, without looking at its time-out.
LEMMA ReadyWakes ==
  ASSUME Layer, NEW t \in Task, tskstat[t] = "WAI", NEW v \in Int,
         Commit(Ready(Kernel0, t, v)), UNCHANGED <<next_tsk_flag, tcbVars, wupcnt>>
  PROVE  \E k : Wakes(k, {t}) /\ Hears(k, {t}, v)
  <1>1. TypeOK /\ ReadyLists /\ tskpri \in [Task -> Pri] /\ tskstat \in [Task -> Stat]
        /\ eax \in [Task -> Int]
    BY DEF Layer, TypeOK
  <1>2. PICK q : q = Kernel0
    OBVIOUS
  <1>3. Tidy(q) /\ q.tskstat = tskstat /\ q.eax = eax
    BY <1>1, <1>2, TidyNow DEF Kernel0
  <1>4. /\ Tidy(Ready(q, t, v)) /\ Ready(q, t, v).tskstat = [q.tskstat EXCEPT ![t] = "RDY"]
        /\ Ready(q, t, v).eax = [q.eax EXCEPT ![t] = v]
    <2>1. tskpri \in [Task -> Pri] /\ Tidy(q) /\ q.tskstat[t] \notin {"RDY", "RUN"}
      BY <1>1, <1>3
    <2>2. QED
      BY <2>1, MadeReady
  <1>5. PICK k : k = Ready(q, t, v)
    OBVIOUS
  <1>6. k.tskstat = [u \in Task |-> IF u \in {t} THEN "RDY" ELSE tskstat[u]]
    BY <1>1, <1>3, <1>4, <1>5
  <1>7. Wakes(k, {t})
    BY <1>2, <1>4, <1>5, <1>6 DEF Wakes
  <1>8. Hears(k, {t}, v)
    BY <1>1, <1>3, <1>4, <1>5 DEF Hears
  <1>9. QED
    BY <1>7, <1>8

\* A deletion empties the queues at G.
Empties(H, B, L, G) ==
  LET A == UNION {L[g] : g \in G}
  IN  /\ tskstat' = [t \in Task |-> IF t \in A THEN "RDY" ELSE tskstat[t]]
      /\ eax' = [t \in Task |-> IF t \in A THEN E_DLT ELSE eax[t]]
      /\ Queues(H, B, Cleared(H, L, G))'
      /\ Asleep(H, L) => Asleep(H, Cleared(H, L, G))'

LEMMA QueuesEmptied ==
  ASSUME Layer, NEW H, NEW B, Undisturbed(H, B), NEW L, Queues(H, B, L),
         NEW c \in Cpu, NEW G \in SUBSET H, Emptying(UNION {L[g] : g \in G}, G), Returned(c)
  PROVE  Layer' /\ Empties(H, B, L, G)
  <1>1. tskstat \in [Task -> Stat] /\ wlink \in Ring(WNode) /\ H \subseteq WNode
    BY HeadNodes DEF Layer, TypeOK
  <1>2. PICK A : A = UNION {L[g] : g \in G}
    OBVIOUS
  <1>3. PICK k : Wakes(k, A) /\ Hears(k, A, E_DLT)
    BY <1>2 DEF Emptying
  <1>4. /\ tskstat' = [t \in Task |-> IF t \in A THEN "RDY" ELSE tskstat[t]]
        /\ eax' = [t \in Task |-> IF t \in A THEN E_DLT ELSE eax[t]]
        /\ wupcnt' = wupcnt
    BY <1>3 DEF Wakes, Hears, Commit
  <1>5. PICK q : q = wlink'
    OBVIOUS
  <1>6. q = [f \in {"next", "prev"} |->
               [n \in WNode |-> IF n \in G THEN n ELSE wlink[f][n]]]
    BY <1>5 DEF Emptying
  <1>7. /\ q.next = [n \in WNode |-> IF n \in G THEN n ELSE wlink.next[n]]
        /\ q.prev = [n \in WNode |-> IF n \in G THEN n ELSE wlink.prev[n]]
    <2>1. "next" \in {"next", "prev"} /\ "prev" \in {"next", "prev"}
      OBVIOUS
    <2>2. QED
      BY <1>6, <2>1
  <1>8. q \in Ring(WNode)
    <2>1. q = [next |-> [n \in WNode |-> IF n \in G THEN n ELSE wlink.next[n]],
               prev |-> [n \in WNode |-> IF n \in G THEN n ELSE wlink.prev[n]]]
      <3>1. \A f \in {"next", "prev"} : f = "next" \/ f = "prev"
        OBVIOUS
      <3>2. QED
        BY <1>6, <3>1
    <2>2. \A n \in WNode : wlink.next[n] \in WNode /\ wlink.prev[n] \in WNode
      BY <1>1 DEF Ring
    <2>3. QED
      BY <2>1, <2>2 DEF Ring
  <1>9. Layer'
    BY <1>3, <1>5, <1>8, WakeLayer
  <1>10. PICK K : K = Cleared(H, L, G)
    OBVIOUS
  <1>11. \A g \in H : K[g] = IF g \in G THEN {} ELSE L[g]
    BY <1>10 DEF Cleared
  <1>12. Lists(WNode, q, H, K)
    <2>1. ASSUME NEW h \in H
          PROVE  IsList(WNode, q, h, K[h])
      <3>1. CASE h \in G
        <4>1. q.next[h] = h /\ q.prev[h] = h
          BY <1>1, <1>7, <3>1
        <4>2. QED
          BY <1>1, <1>11, <3>1, <4>1, EmptyList
      <3>2. CASE h \notin G
        <4>1. IsList(WNode, wlink, h, L[h]) /\ L[h] \cap H = {} /\ L[h] \subseteq WNode
          BY HeadNodes, WaitNodes DEF Queues, Lists
        <4>2. \A x \in L[h] \cup {h} : q.next[x] = wlink.next[x] /\ q.prev[x] = wlink.prev[x]
          BY <1>1, <1>7, <3>2, <4>1
        <4>3. IsList(WNode, q, h, L[h])
          <5>1. PICK o : o = wlink
            OBVIOUS
          <5>2. IsList(WNode, o, h, L[h])
                /\ \A x \in L[h] \cup {h} : q.next[x] = o.next[x] /\ q.prev[x] = o.prev[x]
            BY <4>1, <4>2, <5>1
          <5>3. QED
            BY <5>2, ListElsewhere
        <4>4. QED
          BY <1>11, <3>2, <4>3
      <3>3. QED
        BY <3>1, <3>2
    <2>2. /\ \A h \in H : K[h] \cap H = {}
          /\ \A f, h \in H : f # h => K[f] \cap K[h] = {}
      BY <1>11 DEF Queues, Lists
    <2>3. QED
      BY <1>1, <2>1, <2>2 DEF Lists
  <1>13. \A t \in Task : InQueue(q, t) <=> InQueue(wlink, t)
    BY <1>1, <1>7, HeadNodes, WaitNodes DEF InQueue
  <1>14. \A t \in Task : tskstat'[t] = "WAI" /\ InQueue(q, t) => \E h \in H : t \in K[h]
    <2> SUFFICES ASSUME NEW t \in Task, tskstat'[t] = "WAI", InQueue(q, t)
                 PROVE  \E h \in H : t \in K[h]
      OBVIOUS
    <2>1. tskstat[t] = "WAI" /\ t \notin A
      BY <1>4
    <2>2. PICK h \in H : t \in L[h]
      BY <1>13, <2>1 DEF Queues
    <2>3. h \notin G
      BY <1>2, <2>1, <2>2
    <2>4. QED
      BY <1>11, <2>2, <2>3
  <1>15. Queues(H, B, K)'
    <2>1. \A g \in H : K[g] \subseteq B
      BY <1>11 DEF Queues
    <2>2. QED
      BY <1>4, <1>5, <1>12, <1>14, <2>1 DEF Queues, InQueue
  <1>16. Asleep(H, L) => Asleep(H, K)'
    <2> SUFFICES ASSUME Asleep(H, L), NEW g \in H, NEW u \in K[g]
                 PROVE  tskstat'[u] = "WAI"
      BY DEF Asleep
    <2>1. g \notin G /\ u \in L[g] /\ u \in Task
      BY <1>11, HeadNodes DEF Queues
    <2>2. u \notin A
      <3>1. \A f \in G : L[f] \cap L[g] = {}
        BY <2>1 DEF Queues, Lists
      <3>2. QED
        BY <1>2, <2>1, <3>1
    <2>3. QED
      BY <1>4, <2>1, <2>2 DEF Asleep
  <1>17. QED
    BY <1>2, <1>4, <1>9, <1>10, <1>15, <1>16 DEF Empties

\* The queue of a head holds somebody exactly if the head is linked.
LEMMA QueueFirst ==
  ASSUME NEW H, NEW B, NEW L, Queues(H, B, L), NEW h \in H
  PROVE  IF wlink.next[h] = h THEN L[h] = {} ELSE wlink.next[h] \in L[h]
  <1>1. PICK q : q = wlink
    OBVIOUS
  <1>2. IsList(WNode, q, h, L[h])
    BY <1>1 DEF Queues, Lists
  <1>3. ListFacts(WNode, q, h, L[h])
    BY <1>2, ListLinks
  <1>4. QED
    BY <1>1, <1>3 DEF ListFacts

\* Without the tasks A in the queue at h.
Rest(H, L, h, A) == [g \in H |-> IF g = h THEN L[g] \ A ELSE L[g]]

\* The queue at h, from the first waiter to the last.
LEMMA QueueLine ==
  ASSUME Layer, NEW H, NEW B, Undisturbed(H, B), NEW L, Queues(H, B, L), NEW h \in H
  PROVE  LET v == Walk(wlink, h)
         IN  /\ Len(v) \in Nat /\ \A i \in 1 .. Len(v) : v[i] \in Task
             /\ \A i, j \in 1 .. Len(v) : i # j => v[i] # v[j]
             /\ L[h] = {v[i] : i \in 1 .. Len(v)}
  <1>1. wlink \in Ring(WNode) /\ IsFiniteSet(WNode) /\ h \in WNode
    BY WaitNodes, HeadNodes DEF Layer, TypeOK
  <1>2. IsList(WNode, wlink, h, L[h]) /\ L[h] \subseteq Task
    BY HeadNodes DEF Queues, Lists
  <1>3. PICK n, s : Thread(WNode, wlink, h, n, s) /\ L[h] = Threaded(n, s)
    BY <1>2 DEF IsList
  <1>4. PICK v : v = Walk(wlink, h)
    OBVIOUS
  <1>5. v = [i \in 1 .. n |-> s[i]] /\ n \in Nat
    <2>1. n \in Nat
      BY <1>3 DEF Thread
    <2>2. QED
      BY <1>1, <1>3, <1>4, <2>1, ThreadWalk
  <1>6. Len(v) = n /\ \A i \in 1 .. n : v[i] = s[i]
    BY <1>5
  <1>7. /\ \A i, j \in 1 .. n : i # j => v[i] # v[j]
        /\ L[h] = {v[i] : i \in 1 .. n}
    BY <1>3, <1>5, <1>6 DEF Thread, Threaded
  <1>8. QED
    BY <1>2, <1>4, <1>5, <1>6, <1>7

-----------------------------------------------------------------------------
(***************************************************************************)
(* Ready queues, for a service that moves a task from one to another       *)
(* (loc_mtx and unl_mtx), and what that does to the task layer.            *)
(***************************************************************************)
ReadyIn(pri, st) ==
  [h \in PHead |-> {t \in Task : tsk_pri(pri[t]) = h /\ st[t] \in {"RDY", "RUN"}}]

\* r is the ready queues for priorities pri and status st.
Lined(r, pri, st) ==
  /\ r \in Ring(PNode) /\ pri \in [Task -> Pri] /\ st \in [Task -> Stat]
  /\ Lists(PNode, r, PHead, ReadyIn(pri, st))

LEMMA LinedNow ==
  ASSUME Layer
  PROVE  Lined(plink, tskpri, tskstat)
  <1>1. QueueOf = ReadyIn(tskpri, tskstat)
    BY DEF QueueOf, ReadyIn, IsReady
  <1>2. QED
    BY <1>1 DEF Layer, TypeOK, ReadyLists, Lined

LEMMA TaskNode ==
  ASSUME NEW u \in Task
  PROVE  u \in PNode \ PHead
  BY ReadyNodes DEF PNode

\* A ready task stops being ready.
LEMMA LinedOff ==
  ASSUME NEW r, NEW pri, NEW st, Lined(r, pri, st), NEW u \in Task,
         st[u] \in {"RDY", "RUN"}
  PROVE  Lined(Unlink(r, u), pri, [st EXCEPT ![u] = "WAI"])
  <1>1. PICK h \in PHead : h = tsk_pri(pri[u])
    BY ReadyNodes DEF Lined
  <1>2. PICK M, L : M = ReadyIn(pri, st) /\ L = ReadyIn(pri, [st EXCEPT ![u] = "WAI"])
    OBVIOUS
  <1>3. \A g \in PHead : L[g] = IF g = h THEN M[g] \ {u} ELSE M[g]
    BY <1>1, <1>2 DEF ReadyIn, Lined
  <1>4. u \in M[h]
    BY <1>1, <1>2 DEF ReadyIn
  <1>5. Lists(PNode, Unlink(r, u), PHead, L)
    <2>1. r \in Ring(PNode) /\ Lists(PNode, r, PHead, M)
      BY <1>2 DEF Lined
    <2>2. QED
      BY <1>3, <1>4, <2>1, ListsUnlink
  <1>6. Unlink(r, u) \in Ring(PNode)
    BY TaskNode, UnlinkRing DEF Lined
  <1>7. [st EXCEPT ![u] = "WAI"] \in [Task -> Stat]
    BY DEF Lined
  <1>8. QED
    BY <1>2, <1>5, <1>6, <1>7 DEF Lined

\* A task that is not becomes ready.
LEMMA LinedOn ==
  ASSUME NEW r, NEW pri, NEW st, Lined(r, pri, st), NEW u \in Task,
         st[u] \notin {"RDY", "RUN"}
  PROVE  Lined(InsertBefore(r, tsk_pri(pri[u]), u), pri, [st EXCEPT ![u] = "RDY"])
  <1>1. PICK h \in PHead : h = tsk_pri(pri[u])
    BY ReadyNodes DEF Lined
  <1>2. PICK M, L : M = ReadyIn(pri, st) /\ L = ReadyIn(pri, [st EXCEPT ![u] = "RDY"])
    OBVIOUS
  <1>3. \A g \in PHead : L[g] = IF g = h THEN M[g] \cup {u} ELSE M[g]
    BY <1>1, <1>2 DEF ReadyIn, Lined
  <1>4. \A g \in PHead : u \notin M[g]
    BY <1>2 DEF ReadyIn
  <1>5. u \in PNode \ PHead /\ h \in PNode
    BY TaskNode, ReadyNodes
  <1>6. Lists(PNode, InsertBefore(r, h, u), PHead, L)
    <2>1. r \in Ring(PNode) /\ Lists(PNode, r, PHead, M)
      BY <1>2 DEF Lined
    <2>2. QED
      BY <1>3, <1>4, <1>5, <2>1, ListsInsertBefore
  <1>7. InsertBefore(r, h, u) \in Ring(PNode)
    BY <1>5, InsertBeforeRing DEF Lined
  <1>8. [st EXCEPT ![u] = "RDY"] \in [Task -> Stat]
    BY DEF Lined
  <1>9. QED
    BY <1>1, <1>2, <1>6, <1>7, <1>8 DEF Lined

\* A ready task gets the priority p.
LEMMA LinedMoved ==
  ASSUME NEW r, NEW pri, NEW st, Lined(r, pri, st), NEW u \in Task,
         st[u] \in {"RDY", "RUN"}, NEW p \in Pri
  PROVE  Lined(InsertBefore(Unlink(r, u), tsk_pri(p), u), [pri EXCEPT ![u] = p], st)
  <1>1. PICK h \in PHead, g \in PHead : h = tsk_pri(pri[u]) /\ g = tsk_pri(p)
    BY ReadyNodes DEF Lined
  <1>2. PICK M, L, K : /\ M = ReadyIn(pri, st) /\ L = ReadyIn([pri EXCEPT ![u] = p], st)
                       /\ K = [f \in PHead |-> M[f] \ {u}]
    OBVIOUS
  <1>3. \A f \in PHead : /\ K[f] = IF f = h THEN M[f] \ {u} ELSE M[f]
                         /\ L[f] = IF f = g THEN K[f] \cup {u} ELSE K[f]
                         /\ u \notin K[f]
    BY <1>1, <1>2 DEF ReadyIn, Lined
  <1>4. u \in M[h]
    BY <1>1, <1>2 DEF ReadyIn
  <1>5. u \in PNode \ PHead /\ g \in PNode
    BY TaskNode, ReadyNodes
  <1>6. PICK q : q = Unlink(r, u)
    OBVIOUS
  <1>7. q \in Ring(PNode)
    BY <1>5, <1>6, UnlinkRing DEF Lined
  <1>8. Lists(PNode, q, PHead, K)
    <2>1. r \in Ring(PNode) /\ Lists(PNode, r, PHead, M)
      BY <1>2 DEF Lined
    <2>2. \A f \in PHead : K[f] = IF f = h THEN M[f] \ {u} ELSE M[f]
      BY <1>3
    <2>3. QED
      BY <1>4, <1>6, <2>1, <2>2, ListsUnlink
  <1>9. Lists(PNode, InsertBefore(q, g, u), PHead, L)
    <2>1. /\ \A f \in PHead : L[f] = IF f = g THEN K[f] \cup {u} ELSE K[f]
          /\ \A f \in PHead : u \notin K[f]
      BY <1>3
    <2>2. QED
      BY <1>5, <1>7, <1>8, <2>1, ListsInsertBefore
  <1>10. InsertBefore(q, g, u) \in Ring(PNode)
    BY <1>5, <1>7, InsertBeforeRing
  <1>11. [pri EXCEPT ![u] = p] \in [Task -> Pri]
    BY DEF Lined
  <1>12. QED
    BY <1>1, <1>2, <1>6, <1>9, <1>10, <1>11 DEF Lined

\* Nobody stops being ready.
Wakens == \A t \in Task : \/ tskstat'[t] = tskstat[t]
                          \/ tskstat[t] = "WAI" /\ tskstat'[t] = "RDY"

\* A service, by a task that goes on or by one that sleeps.
LEMMA LayerFrom ==
  ASSUME Layer, NEW c \in Cpu, Returned(c), Lined(plink, tskpri, tskstat)',
         UNCHANGED <<proc_cpu, actcnt, wupcnt>>, eax' \in [Task -> Int],
         wlink' \in Ring(WNode), tlink' \in Ring(TNode), delta' \in [Task -> Int],
         \/ UNCHANGED next_tsk_flag /\ Wakens
         \/ /\ sched_next_tsk /\ c_tskid[c] \notin Idle
            /\ tskstat' = [tskstat EXCEPT ![c_tskid[c]] = "WAI"]
  PROVE  Layer'
  <1>1. PICK w \in Task : w = c_tskid[c] /\ tskstat[w] = "RUN" /\ proc_cpu[w] = c
    BY Running DEF Returned
  <1>2. /\ pc \in [Cpu -> PC] /\ tskstat \in [Task -> Stat] /\ c_tskid \in [Cpu -> Task]
        /\ Placed /\ RunIsCurrent /\ Replaceable /\ IdleKept
    BY DEF Layer, TypeOK
  <1>3. /\ pc[c] = "user" /\ pc' = [pc EXCEPT ![c] = "ret"]
        /\ UNCHANGED <<c_tskid, lockVars>> /\ ret' \in [Cpu -> Int]
    BY DEF Returned
  <1>4. plink' \in Ring(PNode) /\ tskpri' \in [Task -> Pri] /\ tskstat' \in [Task -> Stat]
    BY DEF Lined
  <1>5. next_tsk_flag' \in [Cpu -> {0, 1}]
    BY DEF Layer, TypeOK, sched_next_tsk
  <1>6. TypeOK'
    BY <1>2, <1>3, <1>4, <1>5 DEF Layer, TypeOK, lockVars
  <1>7. Placed'
    BY <1>2, <1>3 DEF Placed
  <1>8. \A t \in Task : /\ tskstat'[t] = "RUN" => tskstat[t] = "RUN"
                        /\ tskstat[t] = "RUN" /\ t # w => tskstat'[t] = "RUN"
                        /\ IsReady(t) /\ t # w => IsReady(t)'
    BY <1>1, <1>2 DEF Wakens, IsReady
  <1>9. RunIsCurrent'
    BY <1>2, <1>3, <1>8 DEF RunIsCurrent
  <1>10. tskstat'[w] # "RUN" => next_tsk_flag' = [b \in Cpu |-> 1]
    BY <1>1, <1>2 DEF Wakens, sched_next_tsk
  <1>11. Replaceable'
    <2> SUFFICES ASSUME NEW b \in Cpu
                 PROVE  /\ pc'[b] \in {"user", "tick", "clear"} => tskstat'[c_tskid[b]] = "RUN"
                        /\ pc'[b] \in {"ret", "leave"} /\ tskstat'[c_tskid[b]] # "RUN"
                             => next_tsk_flag'[b] = 1
      BY <1>3 DEF Replaceable
    <2>1. CASE b = c
      BY <1>1, <1>2, <1>3, <1>10, <2>1
    <2>2. CASE b # c
      <3>1. c_tskid[b] \in Task /\ c_tskid[b] # w /\ pc'[b] = pc[b]
        BY <1>1, <1>2, <1>3, <2>2 DEF Placed
      <3>2. next_tsk_flag[b] = 1 => next_tsk_flag'[b] = 1
        BY DEF sched_next_tsk
      <3>3. /\ pc[b] \in {"user", "tick", "clear"} => tskstat[c_tskid[b]] = "RUN"
            /\ pc[b] \in {"ret", "leave"} /\ tskstat[c_tskid[b]] # "RUN" => next_tsk_flag[b] = 1
        BY <1>2 DEF Replaceable
      <3>4. QED
        BY <1>8, <3>1, <3>2, <3>3
    <2>3. QED
      BY <2>1, <2>2
  <1>12. ReadyLists'
    <2>1. QueueOf' = ReadyIn(tskpri, tskstat)'
      BY DEF QueueOf, ReadyIn, IsReady
    <2>2. QED
      BY <2>1 DEF ReadyLists, Lined
  <1>13. IdleKept'
    <2>1. CASE w \notin Idle
      BY <1>2, <1>8, <2>1, TaskAssumption DEF IdleKept
    <2>2. CASE Wakens
      BY <1>2, <2>2, TaskAssumption DEF IdleKept, IsReady, Wakens
    <2>3. QED
      BY <1>1, <2>1, <2>2
  <1>14. QED
    BY <1>6, <1>7, <1>9, <1>11, <1>12, <1>13 DEF Layer

-----------------------------------------------------------------------------
(***************************************************************************)
(* A wait queue in order of priority.                                      *)
(***************************************************************************)
Sorted(pri, r, h) ==
  \A i, j \in 1 .. Len(Walk(r, h)) : i <= j => pri[Walk(r, h)[i]] <= pri[Walk(r, h)[j]]

\* The first waiter is as urgent as any.
LEMMA FirstIsUrgent ==
  ASSUME NEW pri, NEW r \in Ring(WNode), NEW h \in WNode, NEW S, IsList(WNode, r, h, S),
         Sorted(pri, r, h), NEW t \in S
  PROVE  r.next[h] \in S /\ pri[r.next[h]] <= pri[t]
  <1>1. PICK w : Lines(r, h, S, w)
    BY ListLines
  <1>2. /\ w = Walk(r, h)
        /\ w \in Seq(S)
        /\ Len(w) > 0 => w[1] = r.next[h]
    BY <1>1 DEF Lines
  <1>3. PICK j \in 1 .. Len(w) : w[j] = t
    BY <1>1 DEF Lines
  <1>4. Len(w) \in Nat /\ 1 \in 1 .. Len(w) /\ 1 <= j /\ w[1] \in S /\ w[1] = r.next[h]
    BY <1>2, <1>3
  <1>5. pri[w[1]] <= pri[w[j]]
    <2>1. \A i, k \in 1 .. Len(w) : i <= k => pri[w[i]] <= pri[w[k]]
      BY <1>2 DEF Sorted
    <2>2. QED
      BY <1>4, <2>1
  <1>6. QED
    BY <1>3, <1>4, <1>5

LEMMA SortedEmpty ==
  ASSUME NEW pri, NEW r \in Ring(WNode), NEW h \in WNode, IsList(WNode, r, h, {})
  PROVE  Sorted(pri, r, h)
  <1>1. PICK w : Lines(r, h, {}, w)
    BY ListLines
  <1>2. w = Walk(r, h) /\ Len(w) = 0
    <2>1. w \in Seq({}) /\ {} = {w[i] : i \in 1 .. Len(w)} /\ w = Walk(r, h)
      BY <1>1 DEF Lines
    <2>2. \A i \in 1 .. Len(w) : FALSE
      BY <2>1
    <2>3. QED
      BY <2>1, <2>2
  <1>3. QED
    BY <1>2 DEF Sorted

\* Changes elsewhere, to other lists and other priorities.
LEMMA SortedElsewhere ==
  ASSUME NEW pri, NEW r \in Ring(WNode), NEW h \in WNode, NEW S, IsList(WNode, r, h, S),
         Sorted(pri, r, h), NEW q \in Ring(WNode), Untouched(r, q, S \cup {h}),
         NEW new, \A t \in S : new[t] = pri[t]
  PROVE  Sorted(new, q, h)
  <1>1. PICK w : Lines(r, h, S, w)
    BY ListLines
  <1>2. w = Walk(r, h) /\ w \in Seq(S)
    BY <1>1 DEF Lines
  <1>3. w = Walk(q, h)
    BY <1>2, WaitNodes, UntouchedWalk
  <1>4. \A i \in 1 .. Len(w) : w[i] \in S
    BY <1>2
  <1>5. \A i, j \in 1 .. Len(w) : i <= j => pri[w[i]] <= pri[w[j]]
    BY <1>2 DEF Sorted
  <1>6. \A i, j \in 1 .. Len(w) : i <= j => new[w[i]] <= new[w[j]]
    BY <1>4, <1>5
  <1>7. QED
    BY <1>3, <1>6 DEF Sorted

LEMMA SortedJoin ==
  ASSUME tskpri \in [Task -> Pri], NEW r \in Ring(WNode), NEW h \in WNode, NEW S \in SUBSET Task,
         IsList(WNode, r, h, S), Sorted(tskpri, r, h), NEW t \in Task, t \notin S, t # h
  PROVE  Sorted(tskpri, Joins(r, h, t, TRUE), h)
  <1>1. JoinsLine(r, h, S, t, TRUE)
    BY JoinWalk
  <1>2. PICK w, v : w = Walk(r, h) /\ v = Walk(Joins(r, h, t, TRUE), h)
    OBVIOUS
  <1>3. PICK k : Place(Len(w), w, t, TRUE, k) /\ v = Inserted(w, Len(w), k, t)
    BY <1>1, <1>2 DEF JoinsLine
  <1>4. w \in Seq(S) /\ \A i \in 1 .. Len(w) : w[i] \in Task
    <2>1. PICK x : Lines(r, h, S, x)
      BY ListLines
    <2>2. w \in Seq(S)
      BY <1>2, <2>1 DEF Lines
    <2>3. QED
      BY <2>2
  <1>5. PICK n \in Nat : n = Len(w)
    BY <1>4
  <1>6. PICK f : f = [i \in 1 .. n |-> tskpri[w[i]]]
    OBVIOUS
  <1>7. PICK p \in Int : p = tskpri[t]
    BY TaskAssumption DEF Pri
  <1>8. f \in [1 .. n -> Int] /\ \A i, j \in 1 .. n : i <= j => f[i] <= f[j]
    <2>1. \A i \in 1 .. n : w[i] \in Task /\ tskpri[w[i]] \in Int
      BY <1>4, <1>5, TaskAssumption DEF Pri
    <2>2. \A i, j \in 1 .. n : i <= j => tskpri[w[i]] <= tskpri[w[j]]
      BY <1>2, <1>5 DEF Sorted
    <2>3. QED
      BY <1>6, <2>1, <2>2
  <1>9. k \in 0 .. n /\ (\A i \in 1 .. k : f[i] <= p) /\ (k < n => f[k + 1] > p)
    BY <1>3, <1>5, <1>6, <1>7 DEF Place
  <1>10. /\ Len(v) = n + 1
         /\ \A i \in 1 .. n + 1 :
              tskpri[v[i]] = IF i <= k THEN f[i] ELSE IF i = k + 1 THEN p ELSE f[i - 1]
    <2>1. v = [i \in 1 .. n + 1 |-> IF i <= k THEN w[i] ELSE IF i = k + 1 THEN t ELSE w[i - 1]]
      BY <1>3, <1>5 DEF Inserted
    <2>2. Len(v) = n + 1
      BY <2>1, <1>5
    <2>3. ASSUME NEW i \in 1 .. n + 1
          PROVE  tskpri[v[i]] = IF i <= k THEN f[i] ELSE IF i = k + 1 THEN p ELSE f[i - 1]
      <3>1. /\ i <= k => i \in 1 .. n
            /\ i > k + 1 => i - 1 \in 1 .. n
        BY <1>9
      <3>2. v[i] = IF i <= k THEN w[i] ELSE IF i = k + 1 THEN t ELSE w[i - 1]
        BY <2>1
      <3>3. QED
        BY <1>6, <1>7, <1>9, <3>1, <3>2
    <2>4. QED
      BY <2>2, <2>3
  <1>11. ASSUME NEW i \in 1 .. n + 1, NEW j \in 1 .. n + 1, i <= j
         PROVE  tskpri[v[i]] <= tskpri[v[j]]
    <2> DEFINE g(x) == IF x <= k THEN f[x] ELSE IF x = k + 1 THEN p ELSE f[x - 1]
    <2>1. \A x \in 1 .. n : f[x] \in Int
      BY <1>8
    <2>2. ASSUME NEW x \in k + 1 .. n
          PROVE  p < f[x]
      <3>1. k < n /\ k + 1 \in 1 .. n /\ x \in 1 .. n /\ k + 1 <= x
        BY <1>9
      <3>2. f[k + 1] > p /\ f[k + 1] <= f[x] /\ f[k + 1] \in Int /\ f[x] \in Int
        BY <1>8, <1>9, <3>1
      <3>3. QED
        BY <3>2
    <2>3. CASE j <= k
      <3>1. i <= k /\ i \in 1 .. n /\ j \in 1 .. n
        BY <1>9, <1>11, <2>3
      <3>2. QED
        BY <1>8, <1>10, <1>11, <2>3, <3>1
    <2>4. CASE j = k + 1
      BY <1>9, <1>10, <1>11, <2>4
    <2>5. CASE j > k + 1
      <3>1. j - 1 \in k + 1 .. n /\ j - 1 \in 1 .. n /\ tskpri[v[j]] = f[j - 1]
        BY <1>9, <1>10, <2>5
      <3>2. p < f[j - 1]
        BY <2>2, <3>1
      <3>3. CASE i <= k
        <4>1. i \in 1 .. n /\ f[i] <= p /\ tskpri[v[i]] = f[i]
          BY <1>9, <1>10, <3>3
        <4>2. QED
          BY <2>1, <3>1, <3>2, <4>1
      <3>4. CASE i = k + 1
        <4>1. tskpri[v[i]] = p /\ f[j - 1] \in Int
          BY <1>9, <1>10, <2>1, <3>1, <3>4
        <4>2. QED
          BY <3>1, <3>2, <4>1
      <3>5. CASE i > k + 1
        <4>1. i - 1 \in 1 .. n /\ i - 1 <= j - 1 /\ tskpri[v[i]] = f[i - 1]
          BY <1>9, <1>10, <1>11, <3>5
        <4>2. QED
          BY <1>8, <3>1, <4>1
      <3>6. QED
        BY <1>9, <3>3, <3>4, <3>5
    <2>6. QED
      BY <1>9, <2>3, <2>4, <2>5
  <1>12. QED
    BY <1>2, <1>10, <1>11 DEF Sorted

LEMMA SortedLeave ==
  ASSUME NEW pri, NEW r \in Ring(WNode), NEW h \in WNode, NEW S \in SUBSET Task,
         IsList(WNode, r, h, S), Sorted(pri, r, h), NEW t \in S
  PROVE  Sorted(pri, UnlinkToSelf(r, t), h)
  <1>1. LeavesLine(r, h, S, t)
    BY LeaveWalk
  <1>2. PICK w, v : w = Walk(r, h) /\ v = Walk(UnlinkToSelf(r, t), h)
    OBVIOUS
  <1>3. PICK k \in 1 .. Len(w) : v = Removed(w, Len(w), k)
    BY <1>1, <1>2 DEF LeavesLine
  <1>4. w \in Seq(S)
    <2>1. PICK x : Lines(r, h, S, x)
      BY ListLines
    <2>2. QED
      BY <1>2, <2>1 DEF Lines
  <1>5. PICK n \in Nat : n = Len(w)
    BY <1>4
  <1>6. v = [i \in 1 .. n - 1 |-> IF i < k THEN w[i] ELSE w[i + 1]] /\ k \in 1 .. n
    BY <1>3, <1>5 DEF Removed
  <1>7. Len(v) = n - 1
    BY <1>5, <1>6
  <1>8. \A i, j \in 1 .. n : i <= j => pri[w[i]] <= pri[w[j]]
    BY <1>2, <1>5 DEF Sorted
  <1>9. ASSUME NEW i \in 1 .. n - 1, NEW j \in 1 .. n - 1, i <= j
        PROVE  pri[v[i]] <= pri[v[j]]
    <2>1. /\ i \in 1 .. n /\ i + 1 \in 1 .. n /\ j \in 1 .. n /\ j + 1 \in 1 .. n
          /\ i <= j + 1 /\ i + 1 <= j + 1 /\ (i >= k => j >= k)
      BY <1>6, <1>9
    <2>2. /\ v[i] = IF i < k THEN w[i] ELSE w[i + 1]
          /\ v[j] = IF j < k THEN w[j] ELSE w[j + 1]
      BY <1>6
    <2>3. QED
      BY <1>6, <1>8, <1>9, <2>1, <2>2
  <1>10. QED
    BY <1>2, <1>7, <1>9 DEF Sorted

-----------------------------------------------------------------------------
(***************************************************************************)
(* The same for the queues of a set of heads.                              *)
(***************************************************************************)
AllSorted(pri, r, H) == \A h \in H : Sorted(pri, r, h)

LEMMA AllSortedEmpty ==
  ASSUME NEW pri, NEW r \in Ring(WNode), NEW H, NEW L, Lists(WNode, r, H, L), H \subseteq WNode,
         \A h \in H : L[h] = {}
  PROVE  AllSorted(pri, r, H)
  <1>1. ASSUME NEW h \in H
        PROVE  Sorted(pri, r, h)
    <2>1. h \in WNode /\ IsList(WNode, r, h, {})
      BY <1>1 DEF Lists
    <2>2. QED
      BY <2>1, SortedEmpty
  <1>2. QED
    BY <1>1 DEF AllSorted

\* Priorities change, of nobody who waits.
LEMMA AllSortedSame ==
  ASSUME NEW pri, NEW r \in Ring(WNode), NEW H, NEW L, Lists(WNode, r, H, L), H \subseteq WNode,
         AllSorted(pri, r, H), NEW new, \A h \in H : \A t \in L[h] : new[t] = pri[t]
  PROVE  AllSorted(new, r, H)
  <1>1. ASSUME NEW h \in H
        PROVE  Sorted(new, r, h)
    <2>1. PICK S : S = L[h]
      OBVIOUS
    <2>2. /\ h \in WNode /\ IsList(WNode, r, h, S) /\ Sorted(pri, r, h)
          /\ \A t \in S : new[t] = pri[t]
      BY <1>1, <2>1 DEF Lists, AllSorted
    <2>3. Untouched(r, r, S \cup {h})
      BY DEF Untouched
    <2>4. QED
      BY <2>2, <2>3, SortedElsewhere
  <1>2. QED
    BY <1>1 DEF AllSorted

\* What a change at h leaves alone.
LEMMA OtherSorted ==
  ASSUME NEW pri, NEW r \in Ring(WNode), NEW H, NEW L, Lists(WNode, r, H, L),
         H \subseteq WNode, H \cap Task = {}, \A g \in H : L[g] \subseteq Task,
         AllSorted(pri, r, H), NEW h \in H, NEW t \in Task,
         \A g \in H : g # h => t \notin L[g],
         NEW q \in Ring(WNode), NEW S, S \subseteq L[h] \cup {h, t},
         \A O \in SUBSET WNode : O \cap S = {} => Untouched(r, q, O),
         NEW g \in H, g # h
  PROVE  Sorted(pri, q, g)
  <1>1. PICK M : M = L[g]
    OBVIOUS
  <1>2. /\ IsList(WNode, r, g, M) /\ Sorted(pri, r, g) /\ g \in WNode
        /\ M \subseteq Task /\ t \notin M /\ M \cap L[h] = {} /\ h \notin M /\ g \notin L[h]
    BY <1>1 DEF Lists, AllSorted
  <1>3. (M \cup {g}) \cap S = {}
    BY <1>2
  <1>4. M \cup {g} \in SUBSET WNode
    BY <1>2, WaitNodes
  <1>5. Untouched(r, q, M \cup {g})
    BY <1>3, <1>4
  <1>6. QED
    BY <1>2, <1>5, SortedElsewhere

LEMMA AllSortedJoin ==
  ASSUME tskpri \in [Task -> Pri], NEW r \in Ring(WNode), NEW H, NEW L, Lists(WNode, r, H, L),
         H \subseteq WNode, H \cap Task = {}, \A g \in H : L[g] \subseteq Task,
         AllSorted(tskpri, r, H), NEW h \in H, NEW t \in Task, \A g \in H : t \notin L[g]
  PROVE  AllSorted(tskpri, Joins(r, h, t, TRUE), H)
  <1>1. PICK S, q : S = L[h] /\ q = Joins(r, h, t, TRUE)
    OBVIOUS
  <1>2. h \in WNode /\ S \in SUBSET Task /\ IsList(WNode, r, h, S) /\ t \notin S /\ t # h
        /\ Sorted(tskpri, r, h)
    BY <1>1 DEF Lists, AllSorted
  <1>3. Sorted(tskpri, q, h)
    BY <1>1, <1>2, SortedJoin
  <1>4. JoinsLine(r, h, S, t, TRUE)
    BY <1>2, JoinWalk
  <1>5. q \in Ring(WNode) /\ \A O \in SUBSET WNode : O \cap (S \cup {h, t}) = {} => Untouched(r, q, O)
    BY <1>1, <1>4 DEF JoinsLine
  <1>6. PICK A : A = S \cup {h, t}
    OBVIOUS
  <1>7. A \subseteq L[h] \cup {h, t} /\ \A O \in SUBSET WNode : O \cap A = {} => Untouched(r, q, O)
    BY <1>1, <1>5, <1>6
  <1>8. ASSUME NEW g \in H, g # h
        PROVE  Sorted(tskpri, q, g)
    BY <1>5, <1>7, <1>8, OtherSorted
  <1>9. QED
    BY <1>1, <1>3, <1>8 DEF AllSorted

LEMMA AllSortedLeave ==
  ASSUME NEW pri, NEW r \in Ring(WNode), NEW H, NEW L, Lists(WNode, r, H, L),
         H \subseteq WNode, H \cap Task = {}, \A g \in H : L[g] \subseteq Task,
         AllSorted(pri, r, H), NEW h \in H, NEW t \in L[h]
  PROVE  AllSorted(pri, UnlinkToSelf(r, t), H)
  <1>1. PICK S, q : S = L[h] /\ q = UnlinkToSelf(r, t)
    OBVIOUS
  <1>2. h \in WNode /\ S \in SUBSET Task /\ IsList(WNode, r, h, S) /\ t \in S /\ t \in Task
        /\ Sorted(pri, r, h)
    BY <1>1 DEF Lists, AllSorted
  <1>3. Sorted(pri, q, h)
    BY <1>1, <1>2, SortedLeave
  <1>4. LeavesLine(r, h, S, t)
    BY <1>2, LeaveWalk
  <1>5. q \in Ring(WNode) /\ \A O \in SUBSET WNode : O \cap (S \cup {h}) = {} => Untouched(r, q, O)
    BY <1>1, <1>4 DEF LeavesLine
  <1>6. PICK A : A = S \cup {h}
    OBVIOUS
  <1>7. /\ A \subseteq L[h] \cup {h, t}
        /\ \A O \in SUBSET WNode : O \cap A = {} => Untouched(r, q, O)
        /\ \A g \in H : g # h => t \notin L[g]
    BY <1>1, <1>5, <1>6 DEF Lists
  <1>8. ASSUME NEW g \in H, g # h
        PROVE  Sorted(pri, q, g)
    <2>1. PICK u \in Task : u = t
      BY <1>2
    <2>2. A \subseteq L[h] \cup {h, u} /\ \A f \in H : f # h => u \notin L[f]
      BY <1>7, <2>1
    <2>3. q \in Ring(WNode) /\ \A O \in SUBSET WNode : O \cap A = {} => Untouched(r, q, O)
      BY <1>5, <1>7
    <2>4. QED
      BY <1>8, <2>2, <2>3, OtherSorted
  <1>9. QED
    BY <1>1, <1>3, <1>8 DEF AllSorted
=============================================================================
