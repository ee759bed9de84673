--------------------------- MODULE TaskMgmtProofs ---------------------------
(***************************************************************************)
(* Proofs about TaskMgmt, for any CPUs, tasks and programs of an           *)
(* application that is careful and has idle tasks: the ready queues, the   *)
(* status and the counts of the tasks.                                     *)
(***************************************************************************)
EXTENDS TaskMgmt, TasksProofs

USE DEF Cur

\* A CPU runs tasks of its own: the invariant under which a service that
\* creates a task again writes the CPU that is already there.
Settled ==
  /\ c_tskid \in [Cpu -> Task]
  /\ proc_cpu \in [Task -> Cpu]
  /\ \A c \in Cpu : proc_cpu[c_tskid[c]] = c

\* The steps that assign neither the affinity nor the current tasks.
Stays == UNCHANGED <<proc_cpu, c_tskid>>

\* No service, interrupt or return path of the task layer assigns an affinity.
LEMMA TaskStepAffinity ==
  ASSUME NEW c \in Cpu, TaskStep(c)
  PROVE  proc_cpu' = proc_cpu
  <1> USE DEF tcbVars
  <1>1. CASE SystemCall(c)
    BY <1>1 DEF SystemCall, slp_tsk, tslp_tsk, dly_tsk, wup_tsk, can_wup, act_tsk
  <1>2. CASE Interrupt(c)
    BY <1>2 DEF Interrupt, irq0, apic_timer
  <1>3. CASE Kernel(c)
    BY <1>3 DEF Kernel, sched_timeout, tick_done, store_ret, intr_leave,
                sched_do_next_tsk, clear_flag
  <1>4. QED
    BY <1>1, <1>2, <1>3 DEF TaskStep

\* Only the dispatcher changes the task of a CPU, and it takes one of its own.
LEMMA TaskStepCurrent ==
  ASSUME Settled, NEW c \in Cpu, TaskStep(c)
  PROVE  Settled'
  <1>1. proc_cpu' = proc_cpu
    BY TaskStepAffinity
  <1>2. CASE c_tskid' = c_tskid
    BY <1>1, <1>2 DEF Settled
  <1>3. CASE sched_do_next_tsk(c)
    <2>1. CASE \E p \in Pri, i \in Nat, t \in Task : i \in Runnable(c, p)
                  /\ t = Walk(plink, tsk_pri(p))[i] /\ Switch(c, t)
      <3> PICK p \in Pri, i \in Nat, t \in Task :
            i \in Runnable(c, p) /\ t = Walk(plink, tsk_pri(p))[i] /\ Switch(c, t)
        BY <2>1
      <3>1. Pinned(c, t)
        BY DEF Runnable
      <3>2. QED
        BY <3>1, <1>1 DEF Settled, Switch, Pinned
    <2>2. CASE UNCHANGED c_tskid
      BY <2>2, <1>2
    <2>3. ASSUME NEW p \in Pri, NEW i \in Runnable(c, p)
          PROVE  i \in Nat
      BY <2>3 DEF Runnable
    <2>4. QED
      BY <1>3, <2>1, <2>2, <2>3 DEF sched_do_next_tsk
  <1>4. CASE SystemCall(c)
    BY <1>2, <1>4 DEF SystemCall, slp_tsk, tslp_tsk, dly_tsk, wup_tsk, can_wup,
                act_tsk, Return, QueueWakeup, WakeUp, RefuseWakeup
  <1>5. CASE Interrupt(c)
    BY <1>2, <1>5 DEF Interrupt, irq0, apic_timer
  <1>6. CASE Kernel(c) /\ ~sched_do_next_tsk(c)
    BY <1>2, <1>6 DEF Kernel, sched_timeout, tick_done, store_ret, intr_leave,
                clear_flag
  <1>7. QED
    BY <1>3, <1>4, <1>5, <1>6 DEF TaskStep

\* A task is created again on the CPU that creates it: nothing changes when
\* that is where it is, or when it does not exist and runs nowhere else.
LEMMA CreationSettles ==
  ASSUME Settled, NEW c \in Cpu, NEW u \in Task, NEW s, NEW n,
         sys_cre_tsk(c, u, s, n), UNCHANGED c_tskid,
         proc_cpu[u] = c \/ ~Elsewhere(c, u)
  PROVE  /\ Settled'
         /\ \A t \in Task : t # u \/ proc_cpu[u] = c => proc_cpu'[t] = proc_cpu[t]
  <1>1. proc_cpu' = [proc_cpu EXCEPT ![u] = c]
    BY DEF sys_cre_tsk
  <1>2. QED
    BY <1>1 DEF Settled, Elsewhere

\* A task that ends keeps its CPU, one that is terminated gets the CPU of the
\* task that does it.
LEMMA RestartSettles ==
  ASSUME Settled, NEW c \in Cpu, NEW u \in Task, Restart(c, u),
         UNCHANGED c_tskid, proc_cpu[u] = c \/ ~Elsewhere(c, u)
  PROVE  /\ Settled'
         /\ \A t \in Task : t # u \/ proc_cpu[u] = c => proc_cpu'[t] = proc_cpu[t]
  <1>1. PICK s, n : sys_cre_tsk(c, u, s, n)
    BY DEF Restart
  <1>2. QED
    BY <1>1, CreationSettles

\* What a step preserves: the invariant, and the affinity of the idle tasks,
\* which nobody terminates.
Kept == Settled' /\ \A t \in Idle : tskstat[t] # "NON" => proc_cpu'[t] = proc_cpu[t]

\* The services of task management keep both, in a careful application.
LEMMA MgmtCallKeeps ==
  ASSUME Careful, Settled, NEW c \in Cpu, MgmtCall(c)
  PROVE  Kept
  <1> USE DEF Answers, Return, tcbVars
  <1>1. CASE Stays
    BY <1>1 DEF Stays, Settled, Kept
  <1>2. ASSUME NEW u \in Task, cre_tsk(c, u)
        PROVE  Kept
    <2>1. CASE ~Stays
      <3>1. /\ tskstat[u] = "NON" /\ ~Elsewhere(c, u) /\ c_tskid' = c_tskid
            /\ sys_cre_tsk(c, u, IF u \in TA_ACT THEN "RDY" ELSE "DMT", 0)
        BY <1>2, <2>1 DEF cre_tsk, Stays
      <3>2. QED
        BY <3>1, CreationSettles, TaskAssumption DEF Kept
    <2>2. QED
      BY <1>1, <2>1
  <1>3. ASSUME NEW u \in Task, ter_tsk(c, u)
        PROVE  Kept
    <2>1. CASE ~Stays
      <3>1. Restart(c, u) /\ c_tskid' = c_tskid /\ ~Elsewhere(c, u)
        BY <1>3, <2>1 DEF ter_tsk, Stays, Manages, OnCpu, Elsewhere, RestartSelf
      <3>2. u \notin Idle
        BY <1>3, IdleStaysAssumption DEF ter_tsk, Trap, Settled
      <3>3. QED
        BY <3>1, <3>2, RestartSettles, TaskAssumption DEF Kept
    <2>2. QED
      BY <1>1, <2>1
  <1>4. CASE ext_tsk(c)
    <2>1. Restart(c, Cur(c)) /\ c_tskid' = c_tskid /\ proc_cpu[Cur(c)] = c
      BY <1>4 DEF ext_tsk, RestartSelf, Settled
    <2>2. c_tskid[c] \in Task
      BY DEF Settled
    <2>3. Settled' /\ \A t \in Task : proc_cpu'[t] = proc_cpu[t]
      BY <2>1, <2>2, RestartSettles
    <2>4. QED
      BY <2>3, TaskAssumption DEF Kept
  <1>5. CASE acre_tsk(c) \/ exd_tsk(c)
    BY <1>1, <1>5 DEF acre_tsk, exd_tsk, Stays
  <1>6. ASSUME NEW u \in Task,
               del_tsk(c, u) \/ can_act(c, u) \/ chg_pri(c, u) \/ rel_wai(c, u)
        PROVE  Stays
    BY <1>6 DEF del_tsk, can_act, chg_pri, rel_wai, Stays
  <1>7. ASSUME NEW u \in Task,
               sus_tsk(c, u) \/ rsm_tsk(c, u) \/ frsm_tsk(c, u)
        PROVE  Stays
    BY <1>7 DEF sus_tsk, rsm_tsk, frsm_tsk, Unsuspend, Stays
  <1>8. QED
    BY <1>1, <1>2, <1>3, <1>4, <1>5, <1>6, <1>7 DEF MgmtCall
-----------------------------------------------------------------------------
(***************************************************************************)
(* Status, suspensions and counts.  The invariant: a CPU that is on its    *)
(* way back to user mode, or in it, has a task that is RUN or RDY.         *)
(***************************************************************************)
Engaged(c) ==
  \/ pc[c] \in {"user", "tick", "clear"}
  \/ pc[c] \in {"ret", "leave"} /\ next_tsk_flag[c] = 0

Live(t) == tskstat[t] \in {"RUN", "RDY"}

Lively == \A c \in Cpu : Engaged(c) => Live(c_tskid[c])

Typed ==
  /\ tskstat \in [Task -> Stat]
  /\ suscnt \in [Task -> Nat] /\ wupcnt \in [Task -> Nat] /\ actcnt \in [Task -> Nat]
  /\ tskpri \in [Task -> Nat]
  /\ pc \in [Cpu -> PC] /\ next_tsk_flag \in [Cpu -> {0, 1}]

MgmtInv ==
  Settled /\ Typed /\ RunIsCurrent /\ Lively /\ SuspensionExact /\ DormantIsFresh

Facts == Typed /\ SuspensionExact /\ DormantIsFresh

\* What the calls of the task layer do to status and counts.
LEMMA SystemCallFacts ==
  ASSUME MgmtInv, NEW c \in Cpu, SystemCall(c), UNCHANGED suscnt
  PROVE  Facts'
  <1> USE DEF Facts, Typed, SuspensionExact, DormantIsFresh, MgmtInv, Settled, Return,
              readyVars, timeVars, tcbVars, PC, Stat
  <1>1. c_tskid[c] \in Task /\ Live(c_tskid[c])
    <2>1. pc[c] = "user"
      BY DEF SystemCall, slp_tsk, tslp_tsk, dly_tsk, wup_tsk, can_wup, act_tsk, Trap
    <2>2. QED
      BY <2>1 DEF Lively, Engaged
  <1>2. CASE slp_tsk(c)
    BY <1>1, <1>2 DEF slp_tsk, sys_slp_tsk, TakeWakeup, Block, sched_next_tsk, Live
  <1>3. CASE tslp_tsk(c)
    BY <1>1, <1>3 DEF tslp_tsk, sys_tslp_tsk, TakeWakeup, Block, sched_next_tsk, Live
  <1>4. CASE dly_tsk(c)
    BY <1>1, <1>4 DEF dly_tsk, Block, sched_next_tsk, Live
  <1>5. ASSUME NEW u \in Task, wup_tsk(c, u)
        PROVE  Facts'
    <2>1. CASE QueueWakeup(c, u)
      BY <1>5, <2>1 DEF wup_tsk, QueueWakeup
    <2>2. CASE WakeUp(c, u)
      BY <1>1, <1>5, <2>2, ZenonT(60) DEF wup_tsk, WakeUp, sched_next_tsk, Live
    <2>3. CASE RefuseWakeup(c, u)
      BY <1>5, <2>3 DEF wup_tsk, RefuseWakeup
    <2>4. QED
      BY <1>5, <2>1, <2>2, <2>3 DEF wup_tsk
  <1>6. ASSUME NEW u \in Task, can_wup(c, u)
        PROVE  Facts'
    BY <1>6 DEF can_wup, RefuseWakeup
  <1>7. ASSUME NEW u \in Task, act_tsk(c, u)
        PROVE  Facts'
    BY <1>7 DEF act_tsk
  <1>8. QED
    BY <1>2, <1>3, <1>4, <1>5, <1>6, <1>7 DEF SystemCall

LEMMA KernelFacts ==
  ASSUME MgmtInv, NEW c \in Cpu, Interrupt(c) \/ Kernel(c), UNCHANGED suscnt
  PROVE  Facts'
  <1> USE DEF Facts, Typed, SuspensionExact, DormantIsFresh, MgmtInv, Settled,
              readyVars, timeVars, tcbVars, PC, Stat
  <1>1. CASE Interrupt(c)
    BY <1>1 DEF Interrupt, irq0, apic_timer
  <1>2. CASE sched_timeout(c)
    BY <1>2 DEF sched_timeout, TimeOutTask
  <1>3. CASE tick_done(c)
    BY <1>3 DEF tick_done, sched_next_tsk
  <1>4. CASE store_ret(c) \/ intr_leave(c) \/ clear_flag(c)
    BY <1>4 DEF store_ret, intr_leave, clear_flag, Resume
  <1>5. CASE sched_do_next_tsk(c)
    <2>1. ASSUME NEW p \in Pri, NEW i \in Runnable(c, p), NEW t \in Task,
                 t = Walk(plink, tsk_pri(p))[i], Switch(c, t)
          PROVE  Facts'
      <3>1. tskstat[t] \in {"RDY", "RUN"}
        BY <2>1 DEF Runnable
      <3>2. QED
        BY <1>5, <2>1, <3>1 DEF sched_do_next_tsk, Switch
    <2>2. CASE UNCHANGED <<tskstat, c_tskid>>
      BY <1>5, <2>2 DEF sched_do_next_tsk
    <2>3. QED
      BY <1>5, <2>1, <2>2 DEF sched_do_next_tsk
  <1>6. QED
    BY <1>1, <1>2, <1>3, <1>4, <1>5 DEF Kernel

\* A task that is created again is fresh, and fit to be dormant.
LEMMA CreationFacts ==
  ASSUME MgmtInv, NEW c \in Cpu, NEW u \in Task, NEW n \in Nat, NEW stat \in {"DMT", "RDY"},
         stat = "DMT" => n = 0, sys_cre_tsk(c, u, stat, n),
         pc' \in [Cpu -> PC], next_tsk_flag' \in [Cpu -> {0, 1}]
  PROVE  Facts'
  <1>1. itskpri \in [Task -> Nat] /\ TMAX_SUSCNT \in Nat
    BY TaskAssumption, MgmtAssumption DEF Pri
  <1>2. /\ tskstat' = [tskstat EXCEPT ![u] = stat] /\ actcnt' = [actcnt EXCEPT ![u] = n]
        /\ suscnt' = [suscnt EXCEPT ![u] = 0] /\ wupcnt' = [wupcnt EXCEPT ![u] = 0]
        /\ tskpri' = [tskpri EXCEPT ![u] = itskpri[u]]
    BY DEF sys_cre_tsk, Fresh
  <1>3. Typed'
    BY <1>1, <1>2 DEF MgmtInv, Typed, Stat
  <1>4. SuspensionExact'
    BY <1>1, <1>2 DEF MgmtInv, Typed, SuspensionExact
  <1>5. DormantIsFresh'
    BY <1>1, <1>2 DEF MgmtInv, Typed, DormantIsFresh
  <1>6. QED
    BY <1>3, <1>4, <1>5 DEF Facts

LEMMA RestartFacts ==
  ASSUME MgmtInv, NEW c \in Cpu, NEW u \in Task, Restart(c, u),
         pc' \in [Cpu -> PC], next_tsk_flag' \in [Cpu -> {0, 1}]
  PROVE  Facts'
  <1>1. CASE sys_cre_tsk(c, u, "DMT", 0)
    BY <1>1, CreationFacts
  <1>2. ASSUME NEW n \in {0, 1}, sys_cre_tsk(c, u, "RDY", n)
        PROVE  Facts'
    BY <1>2, CreationFacts
  <1>3. QED
    BY <1>1, <1>2 DEF Restart

\* A suspended task shows it.
LEMMA SuspendedStatus ==
  ASSUME MgmtInv, NEW u \in Task, suscnt[u] > 0
  PROVE  tskstat[u] \in {"SUS", "WAS"}
  BY DEF MgmtInv, SuspensionExact

\* A careful application: no CPU runs the task that another task manages.
LEMMA ManagedIsAside ==
  ASSUME Careful, MgmtInv, NEW c \in Cpu, NEW u \in Task, Manages(u)
  PROVE  tskstat[u] # "RUN" /\ \A d \in Cpu : c_tskid[d] # u
  BY DEF MgmtInv, Settled, RunIsCurrent, Manages, OnCpu

LEMMA MgmtCallFacts ==
  ASSUME Careful, MgmtInv, NEW c \in Cpu, MgmtCall(c)
  PROVE  Facts'
  <1> USE DEF Facts, Typed, SuspensionExact, DormantIsFresh, MgmtInv, Settled, Return,
              Answers, readyVars, timeVars, tcbVars, PC, Stat
  <1>1. c_tskid[c] \in Task /\ Live(c_tskid[c])
    <2>1. pc[c] = "user"
      BY DEF MgmtCall, acre_tsk, ext_tsk, exd_tsk, cre_tsk, del_tsk, can_act, ter_tsk,
             chg_pri, rel_wai, sus_tsk, rsm_tsk, frsm_tsk, Trap
    <2>2. QED
      BY <2>1 DEF Lively, Engaged
  <1>2. TMAX_SUSCNT \in Nat /\ itskpri \in [Task -> Nat] /\ NewPri \subseteq Nat
    BY MgmtAssumption, TaskAssumption DEF Pri
  <1>3. CASE acre_tsk(c)
    BY <1>3 DEF acre_tsk
  <1>4. CASE ext_tsk(c)
    <2>1. /\ Restart(c, c_tskid[c]) /\ pc' \in [Cpu -> PC]
          /\ next_tsk_flag' \in [Cpu -> {0, 1}]
      BY <1>4 DEF ext_tsk, RestartSelf, sched_next_tsk
    <2>2. QED
      BY <1>1, <2>1, RestartFacts
  <1>5. CASE exd_tsk(c)
    BY <1>1, <1>5 DEF exd_tsk, sched_next_tsk, Live
  <1>6. ASSUME NEW u \in Task, cre_tsk(c, u)
        PROVE  Facts'
    <2>1. pc' \in [Cpu -> PC] /\ next_tsk_flag' \in [Cpu -> {0, 1}]
      BY <1>6 DEF cre_tsk
    <2>2. CASE sys_cre_tsk(c, u, "DMT", 0) \/ sys_cre_tsk(c, u, "RDY", 0)
      BY <2>1, <2>2, CreationFacts
    <2>3. CASE Answers(c, E_OBJ)
      BY <2>3
    <2>4. QED
      BY <1>6, <2>2, <2>3 DEF cre_tsk
  <1>7. ASSUME NEW u \in Task, del_tsk(c, u) \/ can_act(c, u)
        PROVE  Facts'
    BY <1>7 DEF del_tsk, can_act
  <1>8. ASSUME NEW u \in Task, ter_tsk(c, u)
        PROVE  Facts'
    <2>1. CASE Restart(c, u)
      <3>1. pc' \in [Cpu -> PC] /\ next_tsk_flag' \in [Cpu -> {0, 1}]
        BY <1>8 DEF ter_tsk, RestartSelf
      <3>2. QED
        BY <2>1, <3>1, RestartFacts
    <2>2. CASE ~Restart(c, u)
      BY <1>8, <2>2 DEF ter_tsk, RestartSelf
    <2>3. QED
      BY <2>1, <2>2
  <1>9. ASSUME NEW u \in Task, chg_pri(c, u)
        PROVE  Facts'
    <2>1. PICK p \in Nat : tskpri' = [tskpri EXCEPT ![u] = p] /\ tskstat[u] \in {"RDY", "RUN"}
      BY <1>2, <1>9 DEF chg_pri
    <2>2. QED
      BY <1>9, <2>1 DEF chg_pri
  <1>10. ASSUME NEW u \in Task, rel_wai(c, u)
         PROVE  Facts'
    BY <1>10 DEF rel_wai
  <1>11. ASSUME NEW u \in Task, sus_tsk(c, u)
         PROVE  Facts'
    <2>1. tskstat[u] # "RUN"
      BY <1>11, ManagedIsAside DEF sus_tsk
    <2>2. QED
      BY <1>2, <1>11, <2>1, SMTT(30) DEF sus_tsk, SuspensionsFull
  <1>12. ASSUME NEW u \in Task, NEW left \in 0 .. suscnt[u], Unsuspend(c, u, left),
                suscnt[u] > 0 => left < suscnt[u]
         PROVE  Facts'
    <2>1. CASE UNCHANGED <<tskstat, suscnt>>
      BY <1>12, <2>1 DEF Unsuspend
    <2>2. CASE suscnt[u] > 0 /\ suscnt' = [suscnt EXCEPT ![u] = left]
      <3>1. tskstat[u] \in {"SUS", "WAS"}
        BY <2>2, SuspendedStatus
      <3>2. /\ left > 0 => tskstat' = tskstat
            /\ left = 0 => \E x \in {"RDY", "WAI"} : tskstat' = [tskstat EXCEPT ![u] = x]
        BY <1>12, <2>2, <3>1 DEF Unsuspend, LastOne
      <3>3. UNCHANGED <<next_tsk_flag, wupcnt, actcnt, tskpri>> /\ pc' \in [Cpu -> PC]
        BY <1>12 DEF Unsuspend
      <3>4. SuspensionExact'
        BY <1>2, <1>12, <2>2, <3>1, <3>2
      <3>5. Typed'
        BY <1>12, <2>2, <3>2, <3>3
      <3>6. DormantIsFresh'
        BY <1>12, <2>2, <3>1, <3>2, <3>3
      <3>7. QED
        BY <3>4, <3>5, <3>6
    <2>3. QED
      BY <1>12, <2>1, <2>2 DEF Unsuspend
  <1>13. ASSUME NEW u \in Task, rsm_tsk(c, u) \/ frsm_tsk(c, u)
         PROVE  Facts'
    <2>1. CASE suscnt[u] = 0
      BY <1>13, <2>1 DEF rsm_tsk, frsm_tsk, Unsuspend
    <2>2. CASE suscnt[u] > 0
      BY <1>12, <1>13, <2>2 DEF rsm_tsk, frsm_tsk
    <2>3. QED
      BY <2>1, <2>2
  <1>14. QED
    BY <1>3, <1>4, <1>5, <1>6, <1>7, <1>8, <1>9, <1>10, <1>11, <1>13 DEF MgmtCall
-----------------------------------------------------------------------------
(***************************************************************************)
(* Who runs.                                                               *)
(***************************************************************************)
\* A step after which no other task is RUN, and each CPU that is engaged was so
\* before and has a task that is no less alive.
Harmless ==
  /\ c_tskid' = c_tskid
  /\ \A t \in Task : tskstat'[t] = "RUN" =>
        tskstat[t] = "RUN" /\ proc_cpu'[t] = proc_cpu[t]
  /\ \A d \in Cpu : Engaged(d)' => Engaged(d) /\ Live(c_tskid[d])'

LEMMA HarmlessKeeps ==
  ASSUME MgmtInv, Harmless
  PROVE  (RunIsCurrent /\ Lively)'
  BY DEF MgmtInv, Settled, RunIsCurrent, Lively, Harmless

\* A step that leaves status and affinity alone and asks for rescheduling at
\* most: c goes on along the return path.
LEMMA QuietIsHarmless ==
  ASSUME MgmtInv, NEW c \in Cpu, UNCHANGED <<c_tskid, tskstat, proc_cpu>>,
         next_tsk_flag' = next_tsk_flag \/ next_tsk_flag' = [d \in Cpu |-> 1],
         Engaged(c), NEW l \in PC, pc' = [pc EXCEPT ![c] = l]
  PROVE  Harmless
  BY DEF MgmtInv, Typed, Harmless, Engaged, Lively, Live

LEMMA SystemCallHarmless ==
  ASSUME MgmtInv, NEW c \in Cpu, SystemCall(c)
  PROVE  Harmless
  <1> USE DEF Return, readyVars, timeVars, tcbVars, lockVars
  <1>1. /\ pc[c] = "user" /\ c_tskid[c] \in Task /\ Live(c_tskid[c]) /\ Engaged(c)
    <2>1. pc[c] = "user"
      BY DEF SystemCall, slp_tsk, tslp_tsk, dly_tsk, wup_tsk, can_wup, act_tsk, Trap
    <2>2. QED
      BY <2>1 DEF MgmtInv, Settled, Lively, Engaged
  <1>2. ASSUME Block(c_tskid[c]), pc' = [pc EXCEPT ![c] = "ret"],
               UNCHANGED <<c_tskid, proc_cpu>>
        PROVE  Harmless
    <2>1. \A d \in Cpu \ {c} : c_tskid[d] # c_tskid[c]
      BY <1>1 DEF MgmtInv, Settled
    <2>2. QED
      BY <1>1, <1>2, <2>1 DEF Block, sched_next_tsk, MgmtInv, Typed, Settled, Harmless,
                              Engaged, Lively, Live
  <1>3. ASSUME UNCHANGED <<c_tskid, tskstat, proc_cpu, next_tsk_flag>>,
               pc' = [pc EXCEPT ![c] = "ret"]
        PROVE  Harmless
    BY <1>1, <1>3, QuietIsHarmless DEF PC
  <1>4. CASE slp_tsk(c)
    BY <1>2, <1>3, <1>4 DEF slp_tsk, sys_slp_tsk, TakeWakeup
  <1>5. CASE tslp_tsk(c)
    BY <1>2, <1>3, <1>5 DEF tslp_tsk, sys_tslp_tsk, TakeWakeup
  <1>6. CASE dly_tsk(c)
    BY <1>2, <1>3, <1>6 DEF dly_tsk
  <1>7. ASSUME NEW u \in Task, wup_tsk(c, u)
        PROVE  Harmless
    <2>1. CASE WakeUp(c, u)
      <3>1. QED
        BY <1>1, <1>7, <2>1 DEF wup_tsk, WakeUp, sched_next_tsk, MgmtInv, Typed, Settled,
                                Harmless, Engaged, Lively, Live
    <2>2. CASE QueueWakeup(c, u)
      BY <1>3, <1>7, <2>2 DEF wup_tsk, QueueWakeup
    <2>3. CASE RefuseWakeup(c, u)
      BY <1>3, <1>7, <2>3 DEF wup_tsk, RefuseWakeup
    <2>4. QED
      BY <1>7, <2>1, <2>2, <2>3 DEF wup_tsk
  <1>8. ASSUME NEW u \in Task, can_wup(c, u)
        PROVE  Harmless
    BY <1>3, <1>8 DEF can_wup, RefuseWakeup
  <1>9. ASSUME NEW u \in Task, act_tsk(c, u)
        PROVE  Harmless
    <2>1. CASE UNCHANGED tskstat
      BY <1>3, <1>9, <2>1 DEF act_tsk
    <2>2. CASE tskstat' = [tskstat EXCEPT ![u] = "RDY"]
      BY <1>1, <1>9, <2>2 DEF act_tsk, MgmtInv, Typed, Settled, Harmless, Engaged,
                              Lively, Live
    <2>3. QED
      BY <1>9, <2>1, <2>2 DEF act_tsk
  <1>10. QED
    BY <1>4, <1>5, <1>6, <1>7, <1>8, <1>9 DEF SystemCall

\* The dispatcher, if it finds a task, and what leads to it.
LEMMA KernelLively ==
  ASSUME MgmtInv, IdleReady, NEW c \in Cpu, Interrupt(c) \/ Kernel(c)
  PROVE  (RunIsCurrent /\ Lively)'
  <1> USE DEF readyVars, timeVars, tcbVars, lockVars, PC
  <1>1. CASE Interrupt(c)
    <2>1. pc[c] = "user" /\ \E l \in PC : pc' = [pc EXCEPT ![c] = l]
      BY <1>1 DEF Interrupt, irq0, apic_timer
    <2>2. UNCHANGED <<c_tskid, tskstat, proc_cpu, next_tsk_flag>>
      BY <1>1 DEF Interrupt, irq0, apic_timer
    <2>3. QED
      BY <2>1, <2>2, QuietIsHarmless, HarmlessKeeps DEF Engaged
  <1>2. CASE sched_timeout(c)
    <2>1. Harmless
      BY <1>2 DEF sched_timeout, TimeOutTask, MgmtInv, Typed, Settled, Harmless,
                  Engaged, Lively, Live
    <2>2. QED
      BY <2>1, HarmlessKeeps
  <1>3. CASE tick_done(c)
    <2>1. Engaged(c) /\ pc' = [pc EXCEPT ![c] = "leave"]
      BY <1>3 DEF tick_done, Engaged
    <2>2. UNCHANGED <<c_tskid, tskstat, proc_cpu>>
      BY <1>3 DEF tick_done
    <2>3. next_tsk_flag' = next_tsk_flag \/ next_tsk_flag' = [d \in Cpu |-> 1]
      BY <1>3 DEF tick_done, sched_next_tsk
    <2>4. QED
      BY <2>1, <2>2, <2>3, QuietIsHarmless, HarmlessKeeps
  <1>4. CASE store_ret(c) \/ intr_leave(c)
    <2>1. Harmless
      BY <1>4 DEF store_ret, intr_leave, Resume, MgmtInv, Typed, Settled, Harmless,
                  Engaged, Lively, Live
    <2>2. QED
      BY <2>1, HarmlessKeeps
  <1>5. CASE clear_flag(c)
    <2>1. Harmless
      BY <1>5 DEF clear_flag, Resume, MgmtInv, Typed, Settled, Harmless,
                  Engaged, Lively, Live
    <2>2. QED
      BY <2>1, HarmlessKeeps
  <1>6. CASE sched_do_next_tsk(c)
    <2>1. \E p \in Pri : Runnable(c, p) # {}
      <3>1. PICK p \in Pri, t \in Idle :
              /\ \E i \in 1 .. Len(Walk(plink, tsk_pri(p))) : Walk(plink, tsk_pri(p))[i] = t
              /\ proc_cpu[t] = c
              /\ tskstat[t] = "RDY" \/ (t = c_tskid[c] /\ tskstat[t] = "RUN")
        BY DEF IdleReady
      <3>2. PICK i \in 1 .. Len(Walk(plink, tsk_pri(p))) : Walk(plink, tsk_pri(p))[i] = t
        BY <3>1
      <3>3. i \in Runnable(c, p)
        BY <3>1, <3>2, TaskAssumption DEF Runnable, Pinned
      <3>4. QED
        BY <3>3
    <2>2. PICK p \in Pri, t \in Task :
            (\E i \in Runnable(c, p) : t = Walk(plink, tsk_pri(p))[i]) /\ Switch(c, t)
      BY <1>6, <2>1 DEF sched_do_next_tsk
    <2>3. proc_cpu[t] = c
      BY <2>2 DEF Runnable, Pinned
    <2>4. UNCHANGED <<proc_cpu, next_tsk_flag>> /\ pc' = [pc EXCEPT ![c] = "clear"]
      BY <1>6 DEF sched_do_next_tsk
    <2>5. RunIsCurrent'
      BY <2>2, <2>3, <2>4 DEF Switch, MgmtInv, Settled, Typed, RunIsCurrent
    <2>6. Lively'
      BY <2>2, <2>3, <2>4 DEF Switch, MgmtInv, Settled, Typed, Lively, Engaged, Live
    <2>7. QED
      BY <2>5, <2>6
  <1>7. QED
    BY <1>1, <1>2, <1>3, <1>4, <1>5, <1>6 DEF Kernel

\* The services of task management change the status of the caller, of tasks
\* that no CPU runs, or of tasks that are neither RUN nor RDY.
LEMMA MgmtCallHarmless ==
  ASSUME Careful, MgmtInv, NEW c \in Cpu, MgmtCall(c)
  PROVE  Harmless
  <1> USE DEF Return, Answers, readyVars, timeVars, tcbVars, lockVars, PC
  <1>1. /\ pc[c] = "user" /\ c_tskid[c] \in Task /\ Live(c_tskid[c]) /\ Engaged(c)
        /\ proc_cpu[c_tskid[c]] = c
    <2>1. pc[c] = "user"
      BY DEF MgmtCall, acre_tsk, ext_tsk, exd_tsk, cre_tsk, del_tsk, can_act, ter_tsk,
             chg_pri, rel_wai, sus_tsk, rsm_tsk, frsm_tsk, Trap
    <2>2. QED
      BY <2>1 DEF MgmtInv, Settled, Lively, Engaged
  <1>2. ASSUME UNCHANGED <<c_tskid, tskstat, proc_cpu, next_tsk_flag>>,
               NEW l \in PC, pc' = [pc EXCEPT ![c] = l]
        PROVE  Harmless
    BY <1>1, <1>2, QuietIsHarmless
  <1>3. ASSUME NEW u \in Task, tskstat[u] # "RUN", \A d \in Cpu : c_tskid[d] # u,
               NEW x \in Stat \ {"RUN"}, tskstat' = [tskstat EXCEPT ![u] = x],
               \A t \in Task : t # u => proc_cpu'[t] = proc_cpu[t],
               UNCHANGED <<c_tskid, next_tsk_flag>>, pc' = [pc EXCEPT ![c] = "ret"]
        PROVE  Harmless
    BY <1>1, <1>3 DEF MgmtInv, Typed, Settled, Harmless, Engaged, Lively, Live
  <1>4. ASSUME NEW u \in Task, ~Live(u),
               NEW x \in Stat \ {"RUN"}, tskstat' = [tskstat EXCEPT ![u] = x],
               UNCHANGED <<c_tskid, proc_cpu, next_tsk_flag>>, pc' = [pc EXCEPT ![c] = "ret"]
        PROVE  Harmless
    BY <1>1, <1>4 DEF MgmtInv, Typed, Settled, Harmless, Engaged, Lively, Live
  <1>5. CASE acre_tsk(c)
    BY <1>2, <1>5 DEF acre_tsk
  <1>6. CASE ext_tsk(c)
    <2>1. /\ \E x \in {"DMT", "RDY"} : tskstat' = [tskstat EXCEPT ![c_tskid[c]] = x]
          /\ proc_cpu' = [proc_cpu EXCEPT ![c_tskid[c]] = c]
          /\ c_tskid' = c_tskid /\ pc' = [pc EXCEPT ![c] = "leave"]
      BY <1>6 DEF ext_tsk, RestartSelf, Restart, sys_cre_tsk
    <2>2. \/ sched_next_tsk
          \/ /\ next_tsk_flag' = next_tsk_flag
             /\ tskstat' = [tskstat EXCEPT ![c_tskid[c]] = "RDY"]
      BY <1>1, <1>6 DEF ext_tsk, RestartSelf, Restart, sys_cre_tsk, MgmtInv, Typed
    <2>3. \A d \in Cpu \ {c} : c_tskid[d] # c_tskid[c]
      BY <1>1 DEF MgmtInv, Settled
    <2>4. QED
      BY <1>1, <2>1, <2>2, <2>3 DEF sched_next_tsk, MgmtInv, Typed, Settled,
                                    Harmless, Engaged, Lively, Live
  <1>7. CASE exd_tsk(c)
    <2>1. \A d \in Cpu \ {c} : c_tskid[d] # c_tskid[c]
      BY <1>1 DEF MgmtInv, Settled
    <2>2. QED
      BY <1>1, <1>7, <2>1 DEF exd_tsk, sched_next_tsk, MgmtInv, Typed, Settled, Harmless,
                              Engaged, Lively, Live
  <1>8. ASSUME NEW u \in Task, cre_tsk(c, u)
        PROVE  Harmless
    <2>1. CASE Answers(c, E_OBJ)
      BY <1>2, <2>1
    <2>2. CASE ~Answers(c, E_OBJ)
      <3>1. /\ tskstat[u] = "NON" /\ ~Elsewhere(c, u)
            /\ sys_cre_tsk(c, u, IF u \in TA_ACT THEN "RDY" ELSE "DMT", 0)
            /\ c_tskid' = c_tskid /\ next_tsk_flag' = next_tsk_flag
            /\ pc' = [pc EXCEPT ![c] = "ret"]
        BY <1>8, <2>2 DEF cre_tsk
      <3>2. \A d \in Cpu : c_tskid[d] # u
        BY <1>1, <3>1 DEF Elsewhere, Live
      <3>3. /\ \E x \in {"RDY", "DMT"} : tskstat' = [tskstat EXCEPT ![u] = x]
            /\ \A t \in Task : t # u => proc_cpu'[t] = proc_cpu[t]
        BY <3>1 DEF sys_cre_tsk, MgmtInv, Settled
      <3>4. QED
        BY <1>3, <3>1, <3>2, <3>3 DEF Stat
    <2>3. QED
      BY <2>1, <2>2
  <1>9. ASSUME NEW u \in Task, ter_tsk(c, u)
        PROVE  Harmless
    <2>1. tskstat[u] # "RUN" /\ \A d \in Cpu : c_tskid[d] # u
      BY <1>9, ManagedIsAside DEF ter_tsk
    <2>2. CASE Restart(c, u) /\ Return(c, E_OK) /\ UNCHANGED next_tsk_flag
      <3>1. /\ \E x \in {"RDY", "DMT"} : tskstat' = [tskstat EXCEPT ![u] = x]
            /\ \A t \in Task : t # u => proc_cpu'[t] = proc_cpu[t]
        BY <2>2 DEF Restart, sys_cre_tsk, MgmtInv, Settled
      <3>2. QED
        BY <1>3, <2>1, <2>2, <3>1 DEF Stat
    <2>3. CASE Answers(c, E_NOEXS) \/ Answers(c, E_OBJ)
      BY <1>2, <2>3
    <2>4. QED
      BY <1>1, <1>9, <2>1, <2>2, <2>3 DEF ter_tsk
  <1>10. ASSUME NEW u \in Task, del_tsk(c, u)
         PROVE  Harmless
    BY <1>2, <1>4, <1>10 DEF del_tsk, Live, Stat
  <1>11. ASSUME NEW u \in Task, can_act(c, u) \/ chg_pri(c, u)
         PROVE  Harmless
    BY <1>2, <1>11 DEF can_act, chg_pri
  <1>12. ASSUME NEW u \in Task, rel_wai(c, u)
         PROVE  Harmless
    BY <1>2, <1>4, <1>12 DEF rel_wai, Live, Stat
  <1>13. ASSUME NEW u \in Task, sus_tsk(c, u)
         PROVE  Harmless
    <2>1. tskstat[u] # "RUN" /\ \A d \in Cpu : c_tskid[d] # u
      BY <1>13, ManagedIsAside DEF sus_tsk
    <2>2. CASE UNCHANGED tskstat
      BY <1>2, <1>13, <2>2 DEF sus_tsk
    <2>3. CASE ~UNCHANGED tskstat
      <3>1. \E x \in Stat \ {"RUN"} : tskstat' = [tskstat EXCEPT ![u] = x]
        BY <1>13, <2>1, <2>3 DEF sus_tsk, MgmtInv, Typed, Stat
      <3>2. UNCHANGED <<c_tskid, next_tsk_flag, proc_cpu>> /\ pc' = [pc EXCEPT ![c] = "ret"]
        BY <1>13 DEF sus_tsk
      <3>3. QED
        BY <1>3, <2>1, <3>1, <3>2
    <2>4. QED
      BY <2>2, <2>3
  <1>14. ASSUME NEW u \in Task, rsm_tsk(c, u) \/ frsm_tsk(c, u)
         PROVE  Harmless
    <2>1. CASE UNCHANGED tskstat
      BY <1>2, <1>14, <2>1 DEF rsm_tsk, frsm_tsk, Unsuspend
    <2>2. CASE ~UNCHANGED tskstat
      <3>1. ~Live(u) /\ \E x \in {"RDY", "WAI"} : tskstat' = [tskstat EXCEPT ![u] = x]
        BY <1>14, <2>2 DEF rsm_tsk, frsm_tsk, Unsuspend, Live
      <3>2. UNCHANGED <<c_tskid, next_tsk_flag, proc_cpu>> /\ pc' = [pc EXCEPT ![c] = "ret"]
        BY <1>14 DEF rsm_tsk, frsm_tsk, Unsuspend
      <3>3. QED
        BY <1>4, <3>1, <3>2 DEF Stat
    <2>3. QED
      BY <2>1, <2>2
  <1>15. QED
    BY <1>5, <1>6, <1>7, <1>8, <1>9, <1>10, <1>11, <1>12, <1>13, <1>14 DEF MgmtCall

LEMMA MgmtInvKept ==
  ASSUME Careful, MgmtInv, IdleReady, [MgmtNext]_mgmtVars
  PROVE  MgmtInv'
  <1>1. CASE UNCHANGED mgmtVars
    BY <1>1 DEF mgmtVars, vars, readyVars, tcbVars, MgmtInv, Settled, Typed, RunIsCurrent,
                Lively, Engaged, Live, SuspensionExact, DormantIsFresh
  <1>2. ASSUME NEW c \in Cpu, TaskStep(c)
        PROVE  MgmtInv'
    <2>1. Settled'
      BY <1>2, TaskStepCurrent DEF MgmtInv
    <2>2. Facts'
      BY <1>2, SystemCallFacts, KernelFacts DEF TaskStep
    <2>3. (RunIsCurrent /\ Lively)'
      BY <1>2, SystemCallHarmless, HarmlessKeeps, KernelLively DEF TaskStep
    <2>4. QED
      BY <2>1, <2>2, <2>3 DEF MgmtInv, Facts
  <1>3. ASSUME NEW c \in Cpu, MgmtCall(c)
        PROVE  MgmtInv'
    <2>1. Settled'
      BY <1>3, MgmtCallKeeps DEF MgmtInv, Kept
    <2>2. Facts'
      BY <1>3, MgmtCallFacts
    <2>3. (RunIsCurrent /\ Lively)'
      BY <1>3, MgmtCallHarmless, HarmlessKeeps
    <2>4. QED
      BY <2>1, <2>2, <2>3 DEF MgmtInv, Facts
  <1>4. QED
    BY <1>1, <1>2, <1>3 DEF MgmtNext

LEMMA MgmtInvAtFirst ==
  ASSUME MgmtInit
  PROVE  MgmtInv
  <1>1. first \in [Cpu -> Task] /\ itskpri \in [Task -> Nat]
        /\ home \in [Task -> Cpu] /\ TMAX_SUSCNT \in Nat
        /\ \A c \in Cpu : home[first[c]] = c
    BY CpuAssumption, TaskAssumption, MgmtAssumption DEF Pri
  <1>2. Settled
    BY <1>1 DEF MgmtInit, TasksInit, Settled
  <1>3. Typed
    BY <1>1 DEF MgmtInit, TasksInit, Typed, Stat, PC
  <1>4. RunIsCurrent /\ Lively
    BY <1>1 DEF MgmtInit, TasksInit, RunIsCurrent, Lively, Live
  <1>5. SuspensionExact /\ DormantIsFresh
    BY <1>1 DEF MgmtInit, TasksInit, SuspensionExact, DormantIsFresh
  <1>6. QED
    BY <1>2, <1>3, <1>4, <1>5 DEF MgmtInv

-----------------------------------------------------------------------------
(***************************************************************************)
(* The ready queues.  Every service takes a task off its queue when the    *)
(* task was ready and links it again when it is ready afterwards, at the   *)
(* priority it then has; the idle tasks stay.  So the scan of a CPU always *)
(* finds a task, which is what the lemmas above ask for.                   *)
(***************************************************************************)
\* q is the ready queues after u has been taken off, if it was in one.
TakenOff(u, q) ==
  \/ IsReady(u) /\ q = Unlink(plink, u)
  \/ ~IsReady(u) /\ q = plink

LEMMA Requeued ==
  ASSUME TypeOK, ReadyLists, NEW u \in Task, NEW q, TakenOff(u, q),
         NEW p \in Pri, tskpri' = [tskpri EXCEPT ![u] = p],
         plink' = IF IsReady(u)' THEN InsertBefore(q, tsk_pri(p), u) ELSE q,
         \A t \in Task : t # u => (IsReady(t)' <=> IsReady(t))
  PROVE  ReadyLists'
  <1> DEFINE Rest == [h \in PHead |-> QueueOf[h] \ {u}]
  <1>1. plink \in Ring(PNode) /\ u \in PNode \ PHead /\ tskpri \in [Task -> Pri]
    BY Nodes, ReadyNodes DEF TypeOK
  <1>2. Lists(PNode, q, PHead, Rest) /\ q \in Ring(PNode)
    <2>1. CASE IsReady(u) /\ q = Unlink(plink, u)
      <3> DEFINE M == QueueOf
                 L == Rest
      <3>1. PICK h \in PHead : h = tsk_pri(tskpri[u])
        BY <1>1, ReadyNodes
      <3>2. u \in M[h] /\ \A g \in PHead : L[g] = IF g = h THEN M[g] \ {u} ELSE M[g]
        BY <2>1, <3>1 DEF QueueOf
      <3>3. Lists(PNode, plink, PHead, M)
        BY DEF ReadyLists
      <3> HIDE DEF M, L
      <3>4. Lists(PNode, Unlink(plink, u), PHead, L)
        BY <1>1, <3>2, <3>3, ListsUnlink
      <3>5. QED
        BY <1>1, <2>1, <3>4, UnlinkRing DEF L
    <2>2. CASE ~IsReady(u) /\ q = plink
      <3>1. \A h \in PHead : Rest[h] = QueueOf[h]
        BY <2>2 DEF QueueOf
      <3>2. Rest = QueueOf
        BY <3>1 DEF QueueOf
      <3>3. QED
        BY <1>1, <2>2, <3>2 DEF ReadyLists
    <2>3. QED
      BY <2>1, <2>2 DEF TakenOff
  <1>3. CASE ~IsReady(u)'
    <2>1. \A h \in PHead : QueueOf'[h] = Rest[h]
      BY <1>1, <1>3 DEF QueueOf
    <2>2. QueueOf' = Rest
      BY <2>1 DEF QueueOf
    <2>3. QED
      BY <1>2, <1>3, <2>2 DEF ReadyLists
  <1>4. CASE IsReady(u)'
    <2> DEFINE L == QueueOf'
               M == Rest
    <2>1. PICK h \in PHead : h = tsk_pri(p)
      BY ReadyNodes
    <2>2. \A g \in PHead : L[g] = IF g = h THEN M[g] \cup {u} ELSE M[g]
      BY <1>1, <1>4, <2>1 DEF QueueOf
    <2>3. \A g \in PHead : u \notin M[g]
      OBVIOUS
    <2>4. Lists(PNode, q, PHead, M)
      BY <1>2
    <2> HIDE DEF L, M
    <2>5. Lists(PNode, InsertBefore(q, h, u), PHead, L)
      BY <1>1, <1>2, <2>2, <2>3, <2>4, ListsInsertBefore
    <2>6. QED
      BY <1>4, <2>1, <2>5 DEF L, ReadyLists
  <1>5. QED
    BY <1>3, <1>4

\* A task that is created again keeps the types.
LEMMA CreationType ==
  ASSUME TypeOK, NEW c \in Cpu, NEW u \in Task, NEW stat \in Stat,
         NEW n \in 0 .. TMAX_ACTCNT, sys_cre_tsk(c, u, stat, n),
         plink' \in Ring(PNode), pc' \in [Cpu -> PC], ret' \in [Cpu -> Int],
         next_tsk_flag' \in [Cpu -> {0, 1}], UNCHANGED <<lockVars, c_tskid>>
  PROVE  TypeOK'
  <1>1. itskpri \in [Task -> Pri]
    BY TaskAssumption
  <1>2. /\ tskstat' = [tskstat EXCEPT ![u] = stat] /\ actcnt' = [actcnt EXCEPT ![u] = n]
        /\ wupcnt' = [wupcnt EXCEPT ![u] = 0] /\ eax' = [eax EXCEPT ![u] = Popped]
        /\ tskpri' = [tskpri EXCEPT ![u] = itskpri[u]]
        /\ proc_cpu' = [proc_cpu EXCEPT ![u] = c]
        /\ UNCHANGED <<wlink, timeVars>>
    BY DEF sys_cre_tsk, Fresh
  <1>3. tskstat' \in [Task -> Stat] /\ tskpri' \in [Task -> Pri] /\ proc_cpu' \in [Task -> Cpu]
    BY <1>1, <1>2 DEF TypeOK
  <1>4. /\ actcnt' \in [Task -> 0 .. TMAX_ACTCNT] /\ wupcnt' \in [Task -> 0 .. TMAX_WUPCNT + 1]
        /\ eax' \in [Task -> Int]
    BY <1>2, CountAssumption DEF TypeOK, Popped
  <1>5. QED
    BY <1>2, <1>3, <1>4 DEF TypeOK, lockVars, timeVars

\* Unlinked, and linked again or not.
LEMMA RelinkType ==
  ASSUME TypeOK, NEW u \in Task, NEW p \in Pri
  PROVE  /\ Unlink(plink, u) \in Ring(PNode)
         /\ InsertBefore(plink, tsk_pri(p), u) \in Ring(PNode)
         /\ InsertBefore(Unlink(plink, u), tsk_pri(p), u) \in Ring(PNode)
  <1>1. plink \in Ring(PNode) /\ u \in PNode /\ tsk_pri(p) \in PNode
    BY Nodes DEF TypeOK
  <1>2. Unlink(plink, u) \in Ring(PNode)
    BY <1>1, UnlinkRing
  <1>3. QED
    BY <1>1, <1>2, InsertBeforeRing

LEMMA RestartType ==
  ASSUME TypeOK, NEW c \in Cpu, NEW u \in Task, Restart(c, u),
         pc' \in [Cpu -> PC], ret' \in [Cpu -> Int],
         next_tsk_flag' \in [Cpu -> {0, 1}], UNCHANGED <<lockVars, c_tskid>>
  PROVE  TypeOK'
  <1>1. itskpri[u] \in Pri
    BY TaskAssumption
  <1>2. plink' \in Ring(PNode)
    BY <1>1, RelinkType DEF Restart
  <1>3. PICK stat \in {"DMT", "RDY"}, n \in {0, 1} :
          sys_cre_tsk(c, u, stat, n) /\ n \in 0 .. TMAX_ACTCNT
    BY CountAssumption DEF Restart
  <1>4. QED
    BY <1>2, <1>3, CreationType DEF Stat

\* chg_pri leaves a priority: the one that is asked for, or the initial one.
LEMMA NewPriority ==
  ASSUME NEW c \in Cpu, NEW u \in Task, chg_pri(c, u)
  PROVE  \E p \in Pri : /\ plink' = Requeue(u, p) /\ tskpri' = [tskpri EXCEPT ![u] = p]
                        /\ Careful => tskstat[u] \in {"RDY", "RUN"} /\ tskpri[u] # p
  <1>1. PICK arg \in NewPri :
          LET p == IF arg = TPRI_INI THEN itskpri[u] ELSE arg
          IN  /\ Careful => tskstat[u] \in {"RDY", "RUN"} /\ tskpri[u] # p
              /\ plink' = Requeue(u, p)
              /\ tskpri' = [tskpri EXCEPT ![u] = p]
    BY DEF chg_pri
  <1>2. (IF arg = TPRI_INI THEN itskpri[u] ELSE arg) \in Pri
    <2>1. arg \in 0 .. MaxPri /\ MaxPri \in Nat /\ itskpri[u] \in Pri
      BY MgmtAssumption, TaskAssumption
    <2>2. QED
      BY <2>1 DEF TPRI_INI, Pri
  <1>3. QED
    BY <1>1, <1>2

\* The services of task management keep the types.
LEMMA MgmtCallType ==
  ASSUME TypeOK, NEW c \in Cpu, MgmtCall(c)
  PROVE  TypeOK'
  <1> USE DEF TypeOK, Trap, Return, Answers, lockVars, tcbVars, timeVars, readyVars,
              PC, Stat
  <1> c_tskid[c] \in Task
    OBVIOUS
  <1> E_OK \in Int /\ E_OBJ \in Int /\ E_NOEXS \in Int /\ E_QOVR \in Int
      /\ E_NOID \in Int /\ E_RLWAI \in Int
    BY DEF E_OK, E_OBJ, E_NOEXS, E_QOVR, E_NOID, E_RLWAI
  <1>1. CASE acre_tsk(c)
    BY <1>1 DEF acre_tsk
  <1>2. CASE ext_tsk(c)
    <2>1. /\ Restart(c, c_tskid[c]) /\ pc' \in [Cpu -> PC] /\ ret' \in [Cpu -> Int]
          /\ next_tsk_flag' \in [Cpu -> {0, 1}] /\ UNCHANGED <<lockVars, c_tskid>>
      BY <1>2 DEF ext_tsk, RestartSelf, sched_next_tsk
    <2>2. QED
      BY <2>1, RestartType
  <1>3. CASE exd_tsk(c)
    <2>1. Unlink(plink, c_tskid[c]) \in Ring(PNode)
      BY Nodes, UnlinkRing
    <2>2. QED
      BY <1>3, <2>1 DEF exd_tsk, sched_next_tsk
  <1>4. ASSUME NEW u \in Task, cre_tsk(c, u)
        PROVE  TypeOK'
    <2>1. CASE Answers(c, E_OBJ)
      BY <2>1
    <2>2. CASE ~Answers(c, E_OBJ)
      <3>1. PICK stat \in {"DMT", "RDY"} : sys_cre_tsk(c, u, stat, 0)
        BY <1>4, <2>2 DEF cre_tsk
      <3>2. /\ plink' \in Ring(PNode) /\ pc' \in [Cpu -> PC] /\ ret' \in [Cpu -> Int]
            /\ next_tsk_flag' \in [Cpu -> {0, 1}] /\ UNCHANGED <<lockVars, c_tskid>>
        BY <1>4, <2>2 DEF cre_tsk
      <3>3. 0 \in 0 .. TMAX_ACTCNT
        BY CountAssumption
      <3>4. QED
        BY <3>1, <3>2, <3>3, CreationType, ZenonT(60)
    <2>3. QED
      BY <2>1, <2>2
  <1>5. ASSUME NEW u \in Task, del_tsk(c, u) \/ can_act(c, u)
        PROVE  TypeOK'
    BY <1>5, CountAssumption, SMTT(30) DEF del_tsk, can_act
  <1>6. ASSUME NEW u \in Task, ter_tsk(c, u)
        PROVE  TypeOK'
    <2>1. CASE Restart(c, u)
      <3>1. /\ pc' \in [Cpu -> PC] /\ ret' \in [Cpu -> Int]
            /\ next_tsk_flag' \in [Cpu -> {0, 1}] /\ UNCHANGED <<lockVars, c_tskid>>
        BY <1>6 DEF ter_tsk, RestartSelf
      <3>2. QED
        BY <2>1, <3>1, RestartType
    <2>2. CASE ~Restart(c, u)
      <3>1. Answers(c, E_NOEXS) \/ Answers(c, E_OBJ)
        BY <1>6, <2>2 DEF ter_tsk, RestartSelf
      <3>2. QED
        BY <3>1
    <2>3. QED
      BY <2>1, <2>2
  <1>7. ASSUME NEW u \in Task, chg_pri(c, u)
        PROVE  TypeOK'
    <2>1. PICK p \in Pri : plink' = Requeue(u, p) /\ tskpri' = [tskpri EXCEPT ![u] = p]
      BY <1>7, NewPriority
    <2>2. plink' \in Ring(PNode)
      BY <2>1, RelinkType DEF Requeue
    <2>3. QED
      BY <1>7, <2>1, <2>2 DEF chg_pri
  <1>8. ASSUME NEW u \in Task, rel_wai(c, u)
        PROVE  TypeOK'
    <2>1. CASE Answers(c, E_NOEXS) \/ Answers(c, E_OBJ) \/ Answers(c, E_OK)
      BY <2>1
    <2>2. CASE /\ eax' = [eax EXCEPT ![u] = E_RLWAI] /\ wlink' = UnlinkToSelf(wlink, u)
               /\ UNCHANGED <<next_tsk_flag, tcbVars, wupcnt, timeVars>> /\ Return(c, E_OK)
      <3>1. wlink' \in Ring(WNode)
        BY <2>2, Nodes, UnlinkToSelfRing
      <3>2. plink' \in Ring(PNode)
        BY <1>8, SchedInsType DEF rel_wai
      <3>3. tskstat' \in [Task -> Stat]
        BY <1>8 DEF rel_wai
      <3>4. QED
        BY <2>2, <3>1, <3>2, <3>3
    <2>3. QED
      BY <1>8, <2>1, <2>2 DEF rel_wai
  <1>9. ASSUME NEW u \in Task, sus_tsk(c, u)
        PROVE  TypeOK'
    <2>1. plink' \in Ring(PNode)
      BY <1>9, Nodes, UnlinkRing, SMTT(30) DEF sus_tsk
    <2>2. tskstat' \in [Task -> Stat]
      BY <1>9 DEF sus_tsk
    <2>3. QED
      BY <1>9, <2>1, <2>2 DEF sus_tsk
  <1>10. ASSUME NEW u \in Task, rsm_tsk(c, u) \/ frsm_tsk(c, u)
         PROVE  TypeOK'
    <2>1. plink' \in Ring(PNode)
      BY <1>10, SchedInsType DEF rsm_tsk, frsm_tsk, Unsuspend
    <2>2. tskstat' \in [Task -> Stat]
      BY <1>10 DEF rsm_tsk, frsm_tsk, Unsuspend
    <2>3. QED
      BY <1>10, <2>1, <2>2 DEF rsm_tsk, frsm_tsk, Unsuspend
  <1>11. QED
    BY <1>1, <1>2, <1>3, <1>4, <1>5, <1>6, <1>7, <1>8, <1>9, <1>10 DEF MgmtCall

\* A step that makes no task ready or not ready and moves none.
LEMMA ReadyStays ==
  ASSUME ReadyLists, IdleKept, UNCHANGED <<plink, tskstat, tskpri>>
  PROVE  ReadyLists' /\ IdleKept'
  BY ReadySame DEF IsReady, IdleKept

\* The new life of a task that has left its queue.
LEMMA RestartReady ==
  ASSUME TypeOK, ReadyLists, IdleKept, TA_ACT = {}, NEW c \in Cpu,
         NEW u \in Task \ Idle, Restart(c, u), Removable(u)
  PROVE  ReadyLists' /\ IdleKept'
  <1>1. itskpri[u] \in Pri
    BY TaskAssumption
  <1>2. /\ tskpri' = [tskpri EXCEPT ![u] = itskpri[u]]
        /\ \/ /\ tskstat' = [tskstat EXCEPT ![u] = "DMT"]
              /\ plink' = Unlink(plink, u)
           \/ /\ tskstat' = [tskstat EXCEPT ![u] = "RDY"]
              /\ plink' = InsertBefore(Unlink(plink, u), tsk_pri(itskpri[u]), u)
    BY DEF Restart, sys_cre_tsk, Fresh
  <1>3. TakenOff(u, Unlink(plink, u))
    BY DEF Removable, TakenOff, IsReady
  <1>4. \A t \in Task : t # u => (IsReady(t)' <=> IsReady(t))
    BY <1>2 DEF IsReady, TypeOK
  <1>5. plink' = IF IsReady(u)' THEN InsertBefore(Unlink(plink, u), tsk_pri(itskpri[u]), u)
                 ELSE Unlink(plink, u)
    BY <1>2 DEF IsReady, TypeOK
  <1>6. ReadyLists'
    BY <1>1, <1>2, <1>3, <1>4, <1>5, Requeued
  <1>7. QED
    BY <1>4, <1>6, TaskAssumption DEF IdleKept

\* The services of task management keep the queues in order.
LEMMA MgmtCallReady ==
  ASSUME Careful, TA_ACT = {}, TypeOK, ReadyLists, IdleKept, RunIsCurrent,
         NEW c \in Cpu, IsReady(c_tskid[c]), MgmtCall(c)
  PROVE  ReadyLists' /\ IdleKept'
  <1> USE DEF Answers, readyVars, tcbVars
  <1>1. c_tskid[c] \in Task /\ Idle \subseteq Task
    BY TaskAssumption DEF TypeOK
  <1>2. ASSUME NEW u \in Task \ Idle, NEW q, TakenOff(u, q), tskpri' = tskpri,
               \A t \in Task : t # u => (IsReady(t)' <=> IsReady(t)),
               plink' = IF IsReady(u)' THEN InsertBefore(q, tsk_pri(tskpri[u]), u) ELSE q
        PROVE  ReadyLists' /\ IdleKept'
    <2>1. tskpri[u] \in Pri /\ tskpri' = [tskpri EXCEPT ![u] = tskpri[u]]
      BY <1>2 DEF TypeOK
    <2>2. ReadyLists'
      BY <1>2, <2>1, Requeued
    <2>3. QED
      BY <1>1, <1>2, <2>2 DEF IdleKept
  <1>3. ASSUME NEW u \in Task, ~IsReady(u), ~IsReady(u)', plink' = plink,
               NEW p \in Pri, tskpri' = [tskpri EXCEPT ![u] = p],
               \A t \in Task : t # u => (IsReady(t)' <=> IsReady(t))
        PROVE  ReadyLists' /\ IdleKept'
    <2>1. TakenOff(u, plink)
      BY <1>3 DEF TakenOff
    <2>2. ReadyLists'
      BY <1>3, <2>1, Requeued
    <2>3. QED
      BY <1>1, <1>3, <2>2 DEF IdleKept
  <1>4. ASSUME NEW u \in Task, ~IsReady(u), sched_ins(u), tskpri' = tskpri, 
               tskstat' = [tskstat EXCEPT ![u] = "RDY"]
        PROVE  ReadyLists' /\ IdleKept'
    <2>1. IsReady(u)' /\ \A t \in Task : t # u => (IsReady(t)' <=> IsReady(t))
      BY <1>4 DEF IsReady, TypeOK
    <2>2. ReadyLists'
      BY <1>4, <2>1, ReadyLinked
    <2>3. QED
      BY <1>1, <2>1, <2>2 DEF IdleKept
  <1>5. CASE acre_tsk(c)
    BY <1>5, ReadyStays DEF acre_tsk
  <1>6. CASE ext_tsk(c)
    <2>1. c_tskid[c] \notin Idle /\ Restart(c, c_tskid[c])
      BY <1>6, IdleStaysAssumption DEF ext_tsk, Trap, RestartSelf
    <2>2. Removable(c_tskid[c])
      BY DEF Removable, IsReady
    <2>3. QED
      BY <1>1, <2>1, <2>2, RestartReady
  <1>7. CASE exd_tsk(c)
    <2>1. c_tskid[c] \notin Idle
      BY <1>7, IdleStaysAssumption DEF exd_tsk, Trap
    <2>2. /\ tskstat' = [tskstat EXCEPT ![c_tskid[c]] = "NON"] /\ tskpri' = tskpri
          /\ plink' = Unlink(plink, c_tskid[c])
      BY <1>7 DEF exd_tsk
    <2>3. PICK u \in Task \ Idle : u = c_tskid[c]
      BY <1>1, <2>1
    <2>4. ~IsReady(u)' /\ \A t \in Task : t # u => (IsReady(t)' <=> IsReady(t))
      BY <2>2, <2>3 DEF IsReady, TypeOK
    <2>5. TakenOff(u, Unlink(plink, u))
      BY <2>3 DEF TakenOff
    <2>6. QED
      BY <1>2, <2>2, <2>3, <2>4, <2>5
  <1>8. ASSUME NEW u \in Task, cre_tsk(c, u)
        PROVE  ReadyLists' /\ IdleKept'
    <2>1. CASE Answers(c, E_OBJ)
      BY <2>1, ReadyStays
    <2>2. CASE ~Answers(c, E_OBJ)
      <3>1. tskstat[u] = "NON" /\ sys_cre_tsk(c, u, "DMT", 0) /\ plink' = plink
        BY <1>8, <2>2 DEF cre_tsk
      <3>2. itskpri[u] \in Pri
        BY TaskAssumption
      <3>3. /\ tskstat' = [tskstat EXCEPT ![u] = "DMT"]
            /\ tskpri' = [tskpri EXCEPT ![u] = itskpri[u]]
        BY <3>1 DEF sys_cre_tsk, Fresh
      <3>4. ~IsReady(u) /\ ~IsReady(u)' /\ \A t \in Task : t # u => (IsReady(t)' <=> IsReady(t))
        BY <3>1, <3>3 DEF IsReady, TypeOK
      <3>5. QED
        BY <1>3, <3>1, <3>2, <3>3, <3>4
    <2>3. QED
      BY <2>1, <2>2
  <1>9. ASSUME NEW u \in Task, del_tsk(c, u)
        PROVE  ReadyLists' /\ IdleKept'
    <2>1. CASE UNCHANGED tskstat
      BY <1>9, <2>1, ReadyStays DEF del_tsk
    <2>2. CASE tskstat[u] = "DMT" /\ tskstat' = [tskstat EXCEPT ![u] = "NON"]
      <3>1. plink' = plink /\ tskpri' = tskpri
        BY <1>9 DEF del_tsk
      <3>2. /\ ~IsReady(u) /\ ~IsReady(u)' /\ \A t \in Task : t # u => (IsReady(t)' <=> IsReady(t))
            /\ tskpri[u] \in Pri /\ tskpri' = [tskpri EXCEPT ![u] = tskpri[u]]
        BY <2>2, <3>1 DEF IsReady, TypeOK
      <3>3. QED
        BY <1>3, <3>1, <3>2
    <2>3. QED
      BY <1>9, <2>1, <2>2 DEF del_tsk
  <1>10. ASSUME NEW u \in Task, can_act(c, u)
         PROVE  ReadyLists' /\ IdleKept'
    BY <1>10, ReadyStays DEF can_act
  <1>11. ASSUME NEW u \in Task, ter_tsk(c, u)
         PROVE  ReadyLists' /\ IdleKept'
    <2>1. CASE Restart(c, u)
      <3>1. u \notin Idle /\ Removable(u)
        BY <1>1, <1>11, IdleStaysAssumption DEF ter_tsk, Trap, Manages
      <3>2. QED
        BY <2>1, <3>1, RestartReady
    <2>2. CASE ~Restart(c, u)
      <3>1. Answers(c, E_NOEXS) \/ Answers(c, E_OBJ)
        BY <1>11, <2>2 DEF ter_tsk, RestartSelf
      <3>2. QED
        BY <3>1, ReadyStays
    <2>3. QED
      BY <2>1, <2>2
  <1>12. ASSUME NEW u \in Task, chg_pri(c, u)
         PROVE  ReadyLists' /\ IdleKept'
    <2>1. PICK p \in Pri : /\ plink' = Requeue(u, p) /\ tskpri' = [tskpri EXCEPT ![u] = p]
                           /\ tskstat[u] \in {"RDY", "RUN"} /\ tskpri[u] # p
      BY <1>12, NewPriority
    <2>2. tskstat' = tskstat
      BY <1>12 DEF chg_pri
    <2>3. /\ \A t \in Task : IsReady(t)' <=> IsReady(t)
          /\ IsReady(u)' /\ TakenOff(u, Unlink(plink, u))
      BY <2>1, <2>2 DEF IsReady, TakenOff
    <2>4. plink' = InsertBefore(Unlink(plink, u), tsk_pri(p), u)
      BY <2>1 DEF Requeue
    <2>5. ReadyLists'
      BY <2>1, <2>3, <2>4, Requeued
    <2>6. QED
      BY <1>1, <2>3, <2>5 DEF IdleKept
  <1>13. ASSUME NEW u \in Task, rel_wai(c, u)
         PROVE  ReadyLists' /\ IdleKept'
    <2>1. CASE Answers(c, E_NOEXS) \/ Answers(c, E_OBJ) \/ Answers(c, E_OK)
      BY <2>1, ReadyStays
    <2>2. CASE /\ tskstat[u] = "WAI" /\ sched_ins(u) /\ tskpri' = tskpri
               /\ tskstat' = [tskstat EXCEPT ![u] = "RDY"]
      BY <1>4, <2>2 DEF IsReady
    <2>3. CASE /\ tskstat[u] = "WAS" /\ tskstat' = [tskstat EXCEPT ![u] = "SUS"]
               /\ plink' = plink /\ tskpri' = tskpri
      <3>1. /\ ~IsReady(u) /\ ~IsReady(u)' /\ \A t \in Task : t # u => (IsReady(t)' <=> IsReady(t))
            /\ tskpri[u] \in Pri /\ tskpri' = [tskpri EXCEPT ![u] = tskpri[u]]
        BY <2>3 DEF IsReady, TypeOK
      <3>2. QED
        BY <1>3, <2>3, <3>1
    <2>4. QED
      BY <1>13, <2>1, <2>2, <2>3 DEF rel_wai
  <1>14. ASSUME NEW u \in Task, sus_tsk(c, u)
         PROVE  ReadyLists' /\ IdleKept'
    <2>1. u \notin Idle /\ Removable(u) /\ ~OnCpu(u)
      BY <1>1, <1>14, IdleStaysAssumption DEF sus_tsk, Trap, Manages
    <2>2. CASE UNCHANGED <<plink, tskstat, tskpri>>
      BY <2>2, ReadyStays
    <2>3. CASE ~UNCHANGED <<plink, tskstat, tskpri>>
      <3>1. /\ tskstat' = [tskstat EXCEPT ![u] = CASE @ = "RDY" -> "SUS"
                                                   [] @ = "WAI" -> "WAS"
                                                   [] OTHER -> @]
            /\ plink' = Unlink(plink, u) /\ tskpri' = tskpri
        BY <1>14, <2>3 DEF sus_tsk
      <3>2. tskstat[u] # "RUN"
        BY <2>1 DEF RunIsCurrent, OnCpu, TypeOK
      <3>3. ~IsReady(u)' /\ \A t \in Task : t # u => (IsReady(t)' <=> IsReady(t))
        BY <3>1, <3>2 DEF IsReady, TypeOK
      <3>4. TakenOff(u, Unlink(plink, u))
        BY <2>1 DEF Removable, TakenOff, IsReady
      <3>5. QED
        BY <1>2, <2>1, <3>1, <3>3, <3>4
    <2>4. QED
      BY <2>2, <2>3
  <1>15. ASSUME NEW u \in Task, rsm_tsk(c, u) \/ frsm_tsk(c, u)
         PROVE  ReadyLists' /\ IdleKept'
    <2>1. CASE UNCHANGED <<plink, tskstat, tskpri>>
      BY <2>1, ReadyStays
    <2>2. CASE /\ tskstat[u] = "SUS" /\ sched_ins(u) /\ tskpri' = tskpri
               /\ tskstat' = [tskstat EXCEPT ![u] = "RDY"]
      BY <1>4, <2>2 DEF IsReady
    <2>3. CASE /\ tskstat[u] = "WAS" /\ tskstat' = [tskstat EXCEPT ![u] = "WAI"]
               /\ plink' = plink /\ tskpri' = tskpri
      <3>1. /\ ~IsReady(u) /\ ~IsReady(u)' /\ \A t \in Task : t # u => (IsReady(t)' <=> IsReady(t))
            /\ tskpri[u] \in Pri /\ tskpri' = [tskpri EXCEPT ![u] = tskpri[u]]
        BY <2>3 DEF IsReady, TypeOK
      <3>2. QED
        BY <1>3, <2>3, <3>1
    <2>4. QED
      BY <1>15, <2>1, <2>2, <2>3 DEF rsm_tsk, frsm_tsk, Unsuspend
  <1>16. QED
    BY <1>5, <1>6, <1>7, <1>8, <1>9, <1>10, <1>11, <1>12, <1>13, <1>14, <1>15 DEF MgmtCall

\* Everything together; the idle tasks exist and so keep their CPUs.
QueueInv ==
  /\ MgmtInv /\ TypeOK /\ ReadyLists /\ IdleKept
  /\ \A t \in Idle : proc_cpu[t] = home[t]

LEMMA QueueInvStep ==
  ASSUME Careful, TA_ACT = {}, Idle # {}, QueueInv, [MgmtNext]_mgmtVars
  PROVE  QueueInv'
  <1>1. IdleReady
    BY IdleFound DEF QueueInv, MgmtInv
  <1>2. MgmtInv'
    BY <1>1, MgmtInvKept DEF QueueInv
  <1>3. CASE UNCHANGED mgmtVars
    <2>1. UNCHANGED <<plink, tskstat, tskpri, proc_cpu>> /\ UNCHANGED vars
      BY <1>3 DEF mgmtVars, vars, readyVars, tcbVars
    <2>2. ReadyLists' /\ IdleKept'
      BY <2>1, ReadyStays DEF QueueInv
    <2>3. QED
      BY <1>2, <2>1, <2>2, StutterType DEF QueueInv
  <1>4. ASSUME NEW c \in Cpu, TaskStep(c)
        PROVE  QueueInv'
    <2>1. TypeOK'
      BY <1>4, SystemCallType, KernelType DEF QueueInv, TaskStep
    <2>2. ASSUME SystemCall(c)
          PROVE  IsReady(c_tskid[c])
      <3>1. pc[c] = "user"
        BY <2>2 DEF SystemCall, slp_tsk, tslp_tsk, dly_tsk, wup_tsk, can_wup, act_tsk,
           Trap
      <3>2. QED
        BY <3>1 DEF QueueInv, MgmtInv, Lively, Engaged, Live, IsReady
    <2>3. ReadyLists' /\ IdleKept'
      BY <1>4, <2>2, SystemCallReady, KernelReady DEF QueueInv, TaskStep
    <2>4. proc_cpu' = proc_cpu
      BY <1>4, TaskStepAffinity
    <2>5. QED
      BY <1>2, <2>1, <2>3, <2>4 DEF QueueInv
  <1>5. ASSUME NEW c \in Cpu, MgmtCall(c)
        PROVE  QueueInv'
    <2>1. pc[c] = "user"
      BY <1>5 DEF MgmtCall, acre_tsk, ext_tsk, exd_tsk, cre_tsk, del_tsk, can_act,
         ter_tsk, chg_pri, rel_wai, sus_tsk, rsm_tsk, frsm_tsk, Trap
    <2>2. IsReady(c_tskid[c])
      BY <2>1 DEF QueueInv, MgmtInv, Lively, Engaged, Live, IsReady
    <2>3. ReadyLists' /\ IdleKept'
      BY <1>5, <2>2, MgmtCallReady DEF QueueInv, MgmtInv
    <2>4. \A t \in Idle : proc_cpu'[t] = home[t]
      <3>1. \A t \in Idle : t \in Task /\ tskstat[t] # "NON"
        BY TaskAssumption DEF QueueInv, IdleKept, IsReady
      <3>2. QED
        BY <1>5, <3>1, MgmtCallKeeps DEF QueueInv, MgmtInv, Kept
    <2>5. QED
      BY <1>2, <1>5, <2>3, <2>4, MgmtCallType DEF QueueInv
  <1>6. QED
    BY <1>3, <1>4, <1>5 DEF MgmtNext

\* What the theorems assume of the application: it is careful, in particular no
\* task is terminated or suspended that a CPU runs (Manages); it has idle tasks;
\* and none of its tasks is created with TA_ACT.
TidyApplication == Careful /\ Idle # {} /\ TA_ACT = {}

LEMMA MgmtInvariance == TidyApplication /\ MgmtSpec => []QueueInv
  <1> SUFFICES ASSUME TidyApplication
               PROVE  MgmtSpec => []QueueInv
    OBVIOUS
  <1>1. MgmtInit => QueueInv
    BY MgmtInvAtFirst, TypeInit, ReadyInit, TaskAssumption
       DEF MgmtInit, TasksInit, QueueInv
  <1>2. QueueInv /\ [MgmtNext]_mgmtVars => QueueInv'
    BY QueueInvStep DEF TidyApplication
  <1>3. QED
    BY <1>1, <1>2, PTL DEF MgmtSpec

\* Through creations, terminations, suspensions, releases and changes of
\* priority, every ready queue holds exactly the tasks that are ready at its
\* priority, once each (sched_rem and sched_ins as kernel/sys_tsk.c:40-520
\* calls them).
THEOREM ManagedQueuesCorrect == TidyApplication /\ MgmtSpec => []ReadyQueuesExact
  <1>1. QueueInv => ReadyQueuesExact
    BY ReadyListsExact DEF QueueInv, TypeOK
  <1>2. QED
    BY <1>1, MgmtInvariance, PTL

\* Suspension counts agree with the status of every task, whatever a careful
\* application does to tasks that sleep, end, are released or terminated, from
\* any CPU (sys_tsk.c:440-520).  Careful excludes the suspension of a task that
\* a CPU runs, which would stay RUN (sys_tsk.c:456-470).
THEOREM SuspensionsAgree == TidyApplication /\ MgmtSpec => []SuspensionExact
  <1>1. QueueInv => SuspensionExact
    BY DEF QueueInv, MgmtInv
  <1>2. QED
    BY <1>1, MgmtInvariance, PTL

\* A CPU in user mode runs a task that has neither ended nor gone to sleep nor
\* been suspended (the way out of the kernel).
THEOREM LiveTasksRun == TidyApplication /\ MgmtSpec => []LiveTaskRuns
  <1>1. QueueInv => LiveTaskRuns
    BY DEF QueueInv, MgmtInv, Lively, Engaged, Live, LiveTaskRuns
  <1>2. QED
    BY <1>1, MgmtInvariance, PTL

\* And a dormant task has nothing left of its former life (proc_create).
THEOREM DormantTasksFresh == TidyApplication /\ MgmtSpec => []DormantIsFresh
  <1>1. QueueInv => DormantIsFresh
    BY DEF QueueInv, MgmtInv
  <1>2. QED
    BY <1>1, MgmtInvariance, PTL
=============================================================================
