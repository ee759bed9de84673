------------------------------ MODULE TaskMgmt ------------------------------
(***************************************************************************)
(* The task management services (kernel/sys_tsk.c) over the task layer:    *)
(* creation, termination, priorities, forced release and suspension.  A    *)
(* task that ends is created again at once from its own T_CTSK.            *)
(*                                                                         *)
(* The services trust their caller.  With Careful, the application keeps   *)
(* to the calls after which the queues are still in order: it terminates   *)
(* and suspends no task that a CPU runs, itself included, and it takes a   *)
(* task off its ready queue only when the task is in it, or when doing so  *)
(* once more changes nothing.                                              *)
(***************************************************************************)
EXTENDS Tasks

CONSTANTS
  TMAX_SUSCNT,
  TA_ACT,      \* the tasks whose T_CTSK has the attribute
  NewPri,      \* arguments of chg_pri (TPRI_INI among them)
  Careful

ASSUME MgmtAssumption ==
  /\ TMAX_SUSCNT \in Nat /\ TA_ACT \subseteq Task
  /\ NewPri \subseteq 0 .. MaxPri /\ Careful \in BOOLEAN

\* The idle tasks do not end, and nobody terminates or suspends them.
ASSUME IdleStaysAssumption == \A t \in Idle :
  /\ \A call \in {"ext_tsk", "exd_tsk"} : ~Issues(t, call, t)
  /\ \A u \in Task, call \in {"ter_tsk", "sus_tsk"} : ~Issues(u, call, t)

VARIABLE suscnt

mgmtVars == <<vars, suscnt>>

E_ILUSE == -28
E_NOID == -34
E_RLWAI == -49
TPRI_INI == 0

MgmtInit == TasksInit /\ suscnt = [t \in Task |-> 0]
-----------------------------------------------------------------------------
Answers(c, r) ==
  /\ Return(c, r)
  /\ UNCHANGED <<readyVars, tcbVars, wupcnt, eax, wlink, timeVars, suscnt>>

\* sys_cre_tsk with proc_create: a new frame, fresh counts, the CPU that runs
\* this.  q is the status, ready queue and activation count to leave behind.
keep_counts(c, u) == tskpri' = [tskpri EXCEPT ![u] = itskpri[u]]  \* mutant
                     /\ UNCHANGED <<wupcnt, suscnt>>
Fresh(c, u) ==
  /\ tskpri' = [tskpri EXCEPT ![u] = itskpri[u]]
  /\ wupcnt' = [wupcnt EXCEPT ![u] = 0]
  /\ suscnt' = [suscnt EXCEPT ![u] = 0]

sys_cre_tsk(c, u, stat, count) ==
  /\ Fresh(c, u)
  /\ tskstat' = [tskstat EXCEPT ![u] = stat]
  /\ actcnt' = [actcnt EXCEPT ![u] = count]
  /\ eax' = [eax EXCEPT ![u] = Popped]
  /\ proc_cpu' = [proc_cpu EXCEPT ![u] = c]
  /\ UNCHANGED <<wlink, timeVars>>

\* A task that ended is still the current one of its CPU until the dispatcher
\* runs there.
Elsewhere(c, u) == \E d \in Cpu \ {c} : Cur(d) = u

cre_tsk(c, u) ==
  /\ Trap(c, "cre_tsk", u)
  /\ \/ tskstat[u] # "NON" /\ Answers(c, E_OBJ)
     \/ /\ tskstat[u] = "NON"
        /\ Careful => ~Elsewhere(c, u)
        /\ sys_cre_tsk(c, u, IF u \in TA_ACT THEN "RDY" ELSE "DMT", 0)
        /\ Return(c, E_OK)
        /\ UNCHANGED <<plink, next_tsk_flag>>

\* With a free identifier the kernel calls the user-mode cre_tsk: it traps
\* inside the system call, and c_intr_syscall waits for the lock it holds.
acre_tsk(c) ==
  /\ Trap(c, "acre_tsk", Cur(c))
  /\ \/ (\A u \in Task : tskstat[u] # "NON") /\ Answers(c, E_NOID)
     \/ /\ \E u \in Task : tskstat[u] = "NON"
        /\ kernel_lk' = 1
        /\ pc' = [pc EXCEPT ![c] = "spin"]
        /\ UNCHANGED <<ret, woken, c_tskid, readyVars, tcbVars, wupcnt, eax,
                       wlink, timeVars, suscnt>>

del_tsk(c, u) ==
  /\ Trap(c, "del_tsk", u)
  /\ \/ tskstat[u] = "NON" /\ Answers(c, E_NOEXS)
     \/ tskstat[u] \notin {"NON", "DMT"} /\ Answers(c, E_OBJ)
     \/ /\ tskstat[u] = "DMT"
        /\ tskstat' = [tskstat EXCEPT ![u] = "NON"]
        /\ Return(c, E_OK)
        /\ UNCHANGED <<plink, next_tsk_flag, tcbVars, wupcnt, eax, wlink,
                       timeVars, suscnt>>

can_act(c, u) ==
  /\ Trap(c, "can_act", u)
  /\ \/ tskstat[u] = "NON" /\ Answers(c, E_NOEXS)
     \/ /\ tskstat[u] # "NON"
        /\ actcnt' = [actcnt EXCEPT ![u] = 0]
        /\ Return(c, actcnt[u])
        /\ UNCHANGED <<readyVars, tskpri, proc_cpu, wupcnt, eax, wlink,
                       timeVars, suscnt>>

\* Removing u from its ready queue is sound.
Removable(u) == tskstat[u] \in {"RDY", "RUN"} \/ Unlink(plink, u) = plink

\* Neither service makes the CPU that runs its target look for another task.
OnCpu(u) == \E d \in Cpu : Cur(d) = u

Manages(u) == Careful => ~OnCpu(u) /\ Removable(u)

(***************************************************************************)
(* ext_tsk and ter_tsk: off the ready queue (whether or not u is in it),   *)
(* created again, and activated again when an activation is queued; the    *)
(* creation has cleared the count by then, so one request uses them all.   *)
(* A task with TA_ACT is READY after the creation: the activation is       *)
(* queued once more and u stays out of the ready queue.  The wait queue    *)
(* and the timeout queue keep u.                                           *)
(***************************************************************************)
Restart(c, u) ==
  \/ /\ actcnt[u] = 0
     /\ sys_cre_tsk(c, u, "DMT", 0)
     /\ plink' = Unlink(plink, u)
  \/ /\ actcnt[u] > 0
     /\ sys_cre_tsk(c, u, "RDY", IF u \in TA_ACT /\ TMAX_ACTCNT > 0 THEN 1 ELSE 0)
     /\ plink' = IF u \in TA_ACT THEN Unlink(plink, u)
                 ELSE InsertBefore(Unlink(plink, u), tsk_pri(itskpri[u]), u)

\* The new frame of a task that restarts itself replaces the one the call
\* returns through, and the argument of c_intr_syscall under it: no value
\* reaches its EAX slot.
RestartSelf(c) ==
  /\ Restart(c, Cur(c))
  /\ pc' = [pc EXCEPT ![c] = "leave"]
  /\ UNCHANGED <<ret, lockVars, c_tskid>>

ext_tsk(c) ==
  /\ Trap(c, "ext_tsk", Cur(c))
  /\ RestartSelf(c)
  /\ IF actcnt[Cur(c)] > 0 THEN UNCHANGED next_tsk_flag ELSE sched_next_tsk

exd_tsk(c) ==
  /\ Trap(c, "exd_tsk", Cur(c))
  /\ plink' = Unlink(plink, Cur(c))
  /\ tskstat' = [tskstat EXCEPT ![Cur(c)] = "NON"]
  /\ sched_next_tsk
  /\ Return(c, E_OK)
  /\ UNCHANGED <<tcbVars, wupcnt, eax, wlink, timeVars, suscnt>>

ter_tsk(c, u) ==
  /\ Trap(c, "ter_tsk", u) /\ Manages(u)
  /\ \/ tskstat[u] = "NON" /\ Answers(c, E_NOEXS)
     \/ tskstat[u] = "DMT" /\ Answers(c, E_OBJ)
     \/ /\ tskstat[u] \notin {"NON", "DMT"}
        /\ IF u = Cur(c) THEN RestartSelf(c) ELSE Restart(c, u) /\ Return(c, E_OK)
        /\ UNCHANGED next_tsk_flag
-----------------------------------------------------------------------------
\* The task is unlinked only if the priority changes, and linked in any case.
always_linked(u, p) ==                                            \* mutant
  InsertBefore(plink, tsk_pri(p), u)
Requeue(u, p) ==
  InsertBefore(IF tskpri[u] # p THEN Unlink(plink, u) ELSE plink, tsk_pri(p), u)

chg_pri(c, u) ==
  /\ Trap(c, "chg_pri", u)
  /\ \E arg \in NewPri :
       LET p == IF arg = TPRI_INI THEN itskpri[u] ELSE arg
       IN  /\ Careful => tskstat[u] \in {"RDY", "RUN"} /\ tskpri[u] # p
           /\ plink' = Requeue(u, p)
           /\ tskpri' = [tskpri EXCEPT ![u] = p]
  /\ Return(c, E_OK)
  /\ UNCHANGED <<tskstat, next_tsk_flag, actcnt, proc_cpu, wupcnt, eax, wlink,
                 timeVars, suscnt>>

\* The time-out of the task is not cancelled.
rel_wai(c, u) ==
  /\ Trap(c, "rel_wai", u)
  /\ \/ tskstat[u] = "NON" /\ Answers(c, E_NOEXS)
     \/ tskstat[u] = "DMT" /\ Answers(c, E_OBJ)
     \/ tskstat[u] \in {"RDY", "RUN", "SUS"} /\ Answers(c, E_OK)
     \/ /\ tskstat[u] \in {"WAI", "WAS"}
        /\ eax' = [eax EXCEPT ![u] = E_RLWAI]
        /\ wlink' = UnlinkToSelf(wlink, u)
        /\ \/ tskstat[u] = "WAI" /\ sched_ins(u)
              /\ tskstat' = [tskstat EXCEPT ![u] = "RDY"]
           \/ tskstat[u] = "WAS" /\ tskstat' = [tskstat EXCEPT ![u] = "SUS"]
              /\ UNCHANGED plink
        /\ Return(c, E_OK)
        /\ UNCHANGED <<next_tsk_flag, tcbVars, wupcnt, timeVars, suscnt>>

SuspensionsFull(u) == suscnt[u] >= TMAX_SUSCNT

\* A RUN task is watched for a while with the lock held, which keeps it RUN,
\* and then unlinked as it is.
sus_tsk(c, u) ==
  /\ Trap(c, "sus_tsk", u) /\ Manages(u)
  /\ \/ tskstat[u] = "NON" /\ Answers(c, E_NOEXS)
     \/ tskstat[u] = "DMT" /\ Answers(c, E_OBJ)
     \/ /\ tskstat[u] \notin {"NON", "DMT"}
        /\ SuspensionsFull(u)
        /\ Answers(c, E_QOVR)
     \/ /\ tskstat[u] \notin {"NON", "DMT"}
        /\ ~SuspensionsFull(u)
        /\ suscnt' = [suscnt EXCEPT ![u] = @ + 1]
        /\ tskstat' = [tskstat EXCEPT ![u] = CASE @ = "RDY" -> "SUS"
                                               [] @ = "WAI" -> "WAS"
                                               [] OTHER -> @]
        /\ plink' = Unlink(plink, u)
        /\ Return(c, E_OK)
        /\ UNCHANGED <<next_tsk_flag, tcbVars, wupcnt, eax, wlink, timeVars>>

\* rsm_tsk takes one suspension back, frsm_tsk all of them.
resume_early(left) == TRUE                                        \* mutant
LastOne(left) == left = 0

Unsuspend(c, u, left) ==
  \/ tskstat[u] = "NON" /\ Answers(c, E_NOEXS)
  \/ tskstat[u] # "NON" /\ suscnt[u] = 0 /\ Answers(c, E_OBJ)
  \/ /\ tskstat[u] # "NON"
     /\ suscnt[u] > 0
     /\ suscnt' = [suscnt EXCEPT ![u] = left]
     /\ \/ /\ LastOne(left) /\ tskstat[u] = "SUS"
           /\ tskstat' = [tskstat EXCEPT ![u] = "RDY"]
           /\ sched_ins(u)
        \/ /\ LastOne(left) /\ tskstat[u] = "WAS"
           /\ tskstat' = [tskstat EXCEPT ![u] = "WAI"]
           /\ UNCHANGED plink
        \/ /\ ~LastOne(left) \/ tskstat[u] \notin {"SUS", "WAS"}
           /\ UNCHANGED <<tskstat, plink>>
     /\ Return(c, E_OK)
     /\ UNCHANGED <<next_tsk_flag, tcbVars, wupcnt, eax, wlink, timeVars>>

rsm_tsk(c, u) == Trap(c, "rsm_tsk", u) /\ Unsuspend(c, u, suscnt[u] - 1)

frsm_tsk(c, u) == Trap(c, "frsm_tsk", u) /\ Unsuspend(c, u, 0)
-----------------------------------------------------------------------------
\* The calls of the library (lib/lib_tsk.c), each of which only traps.
MgmtCall(c) ==
  \/ acre_tsk(c) \/ ext_tsk(c) \/ exd_tsk(c)
  \/ \E u \in Task :
       \/ cre_tsk(c, u) \/ del_tsk(c, u) \/ can_act(c, u) \/ ter_tsk(c, u)
       \/ chg_pri(c, u) \/ rel_wai(c, u) \/ sus_tsk(c, u)
       \/ rsm_tsk(c, u) \/ frsm_tsk(c, u)

\* A careful task does not call again before a time-out that was left behind
\* has passed.
TaskStep(c) ==
  /\ \/ SystemCall(c) /\ (Careful => ~InQueue(tlink, Cur(c)))
     \/ Interrupt(c)
     \/ Kernel(c)
  /\ UNCHANGED suscnt

MgmtNext == \E c \in Cpu : MgmtCall(c) \/ TaskStep(c)

MgmtSpec == MgmtInit /\ [][MgmtNext]_mgmtVars
-----------------------------------------------------------------------------
\* Suspensions stay within their limit and agree with the status, for tasks
\* that sleep, restart or are released while they are suspended
\* (sys_tsk.c:452-470, 483-521).  Asked of the application: no task is suspended
\* that a CPU runs (Manages): sys_tsk.c:456-470 counts such a task as suspended
\* and unlinks it, but leaves it RUN.
SuspensionExact ==
  \A t \in Task : /\ suscnt[t] \in 0 .. TMAX_SUSCNT
                  /\ suscnt[t] > 0 <=> tskstat[t] \in {"SUS", "WAS"}

\* A CPU in user mode runs a task that the scheduler counts as ready: one that
\* has ended, sleeps or is suspended has left the CPU.  (After ext_tsk with
\* an activation queued, the task runs on as RDY.)
LiveTaskRuns ==
  \A c \in Cpu : pc[c] = "user" => tskstat[Cur(c)] \in {"RUN", "RDY"}

\* A dormant task has nothing left of its former life: no wakeup, suspension or
\* activation, the priority it was created with.
DormantIsFresh ==
  \A t \in Task : tskstat[t] = "DMT" =>
    /\ wupcnt[t] = 0 /\ suscnt[t] = 0 /\ actcnt[t] = 0
    /\ tskpri[t] = itskpri[t]
=============================================================================
