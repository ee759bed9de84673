------------------------------- MODULE Tasks -------------------------------
(***************************************************************************)
(* The task layer of the kernel on its CPUs: the scheduler and the timeout *)
(* queue (kernel/sched.c), the sleep, wakeup and activation services       *)
(* (kernel/sys_tsk.c), the tick (IRQ0) and the way every trap returns to   *)
(* user mode (i386/syscall.c, i386/interrupt.c, i386/intr.s).              *)
(*                                                                         *)
(* What a handler does between smp_lock(&kernel_lk) and smp_unlock is one  *)
(* step, except for the loop of the tick, which holds the lock from one    *)
(* step to the next.  What a CPU does after it has released the lock is a  *)
(* step of its own: storing the return value into the frame of the task,   *)
(* testing next_tsk_flag, choosing the next task (under the lock again),   *)
(* clearing the flag.  Interrupts stay off from the trap to the iret.      *)
(***************************************************************************)
EXTENDS Links

CONSTANTS
  Cpu,            \* the CPUs; the PIT interrupts CPU 0 only
  Task,           \* task identifiers, positive integers
  MaxPri,         \* TMAX_TPRI
  TMAX_ACTCNT,
  TMAX_WUPCNT,
  TmoMod,         \* TMO is unsigned: 2^32 in the code
  Tmo,            \* the time-outs the application asks for
  itskpri,        \* initial priority of each task
  home,           \* the CPU each task was created on
  first,          \* the task each CPU runs when it leaves the boot code
  Idle,           \* the idle tasks, ready and linked from the boot on
  Dormant,        \* tasks the application has created and not yet started
  bootLinks,      \* the ready queues proc_init leaves
  WHead,          \* heads of the wait queues (none in this module)
  Issues(_, _, _) \* Issues(t, call, u): the program of t has `call' on u

VARIABLES
  pc,             \* where each CPU is: see PC below
  ret,            \* local variable ret of c_intr_syscall, per CPU
  kernel_lk,      \* the big kernel lock: 1 while a step chain holds it
  woken,          \* local variable of sched_timeout
  c_tskid,        \* running task of each CPU (current_proc moves with it)
  next_tsk_flag,
  tskstat, tskpri, actcnt, wupcnt,
  proc_cpu,       \* proc[].cpu, the affinity
  eax,            \* EAX slot of the register frame each task returns through
  plink,          \* ready queues
  wlink,          \* wait queues of the kernel objects
  tlink, delta    \* timeout queue

lockVars == <<kernel_lk, woken>>
tcbVars  == <<tskpri, proc_cpu, actcnt>>
timeVars == <<tlink, delta>>
readyVars == <<plink, tskstat, next_tsk_flag>>
vars == <<pc, ret, lockVars, c_tskid, readyVars, tcbVars, wupcnt, eax, wlink,
          timeVars>>
-----------------------------------------------------------------------------
E_OK == 0
E_OBJ == -41
E_NOEXS == -42
E_QOVR == -43
E_TMOUT == -50
Popped == 1000  \* RESTORE_ALL has popped the slot, no result is in it

\* user: the task of the CPU runs; tick: IRQ0 works through the timeout
\* queue; ret: the system call is done and unlocked, its value not stored;
\* leave: at intr_leave; clear: a task is chosen, the flag still set; spin: for
\* ever in smp_lock for a lock that is its own (TaskMgmt) or in the handler of
\* page faults (Mailbox).
PC == {"user", "tick", "ret", "leave", "clear", "spin"}

Stat == {"NON", "DMT", "RDY", "RUN", "WAI", "SUS", "WAS"}

Pri == 1 .. MaxPri
tsk_pri(p) == -p                   \* &tsk_pri[p]
PHead == {tsk_pri(p) : p \in Pri}
TimeoutHead == 0                   \* &timeout
PNode == Task \cup PHead
TNode == Task \cup {TimeoutHead}
WNode == Task \cup WHead

ASSUME CpuAssumption == 0 \in Cpu /\ first \in [Cpu -> Task]
ASSUME TaskAssumption ==
  /\ Task \subseteq Nat \ {0}
  /\ Idle \subseteq Task
  /\ MaxPri \in Nat \ {0}
  /\ itskpri \in [Task -> Pri]
  /\ home \in [Task -> Cpu]
  /\ \A c \in Cpu : home[first[c]] = c
  /\ \A c \in Cpu : first[c] \notin Idle
ASSUME CountAssumption == TMAX_ACTCNT \in Nat /\ TMAX_WUPCNT \in Nat
ASSUME TimeAssumption == TmoMod \in Nat \ {0} /\ Tmo \subseteq 0 .. TmoMod - 1
ASSUME LinkAssumption == bootLinks \in Ring(PNode) /\ WHead \cap Task = {}
ASSUME FiniteAssumption == IsFiniteSet(Task) /\ IsFiniteSet(WHead)

\* proc_init links the boot tasks and the idle tasks, and nothing else.
Booted(t) == t \in Idle \/ \E c \in Cpu : t = first[c]
ASSUME BootAssumption ==
  \A p \in Pri : HoldsExactly(bootLinks, tsk_pri(p),
                             {t \in Task : itskpri[t] = p /\ Booted(t)})

\* If the kernel has idle tasks, every CPU has one, and their programs make no
\* call that would take them off the ready queue.
ASSUME IdleAssumption == Idle # {} =>
  /\ \A c \in Cpu : \E t \in Idle : home[t] = c
  /\ \A t \in Idle, call \in {"slp_tsk", "tslp_tsk", "dly_tsk"} :
       ~Issues(t, call, t)

TasksInit ==
  /\ pc = [c \in Cpu |-> "user"]
  /\ ret = [c \in Cpu |-> E_OK]
  /\ kernel_lk = 0
  /\ woken = FALSE
  /\ c_tskid = first
  /\ next_tsk_flag = [c \in Cpu |-> 0]
  /\ tskstat = [t \in Task |-> IF \E c \in Cpu : t = first[c] THEN "RUN"
                               ELSE IF t \in Idle THEN "RDY"
                               ELSE IF t \in Dormant THEN "DMT" ELSE "NON"]
  /\ tskpri = itskpri
  /\ actcnt = [t \in Task |-> 0]
  /\ wupcnt = [t \in Task |-> 0]
  /\ proc_cpu = home
  /\ eax = [t \in Task |-> Popped]
  /\ plink = bootLinks
  /\ wlink = SelfLinked(WNode)
  /\ tlink = SelfLinked(TNode)
  /\ delta = [t \in Task |-> 0]
-----------------------------------------------------------------------------
\* The scheduler and the timeout queue, as the services call them.

Cur(c) == c_tskid[c]

no_resched == UNCHANGED next_tsk_flag                            \* mutant
sched_next_tsk == next_tsk_flag' = [c \in Cpu |-> 1]

\* sched_ins(tsk[t].tskpri, &tsk[t].plink)
sched_ins_lowest(t) == plink' = InsertBefore(plink, tsk_pri(MaxPri), t) \* mutant
sched_ins(t) == plink' = InsertBefore(plink, tsk_pri(tskpri[t]), t)

\* What slp, tslp and dly do to put the running task t to sleep.
Block(t) ==
  /\ plink' = Unlink(plink, t)
  /\ tskstat' = [tskstat EXCEPT ![t] = "WAI"]
  /\ sched_next_tsk

(***************************************************************************)
(* sched_timeout_ins: walk from the head, subtract the deltas passed from  *)
(* tmout, and stop in front of the first entry whose delta is at least     *)
(* what is left; that entry then counts from t.  left[i] is what is left   *)
(* after i entries.  (An entry that is still linked stops at itself and    *)
(* subtracts itself.)                                                      *)
(***************************************************************************)
Position(t, tmout) ==
  LET w == Walk(tlink, TimeoutHead)
      left[i \in 0 .. Len(w)] == IF i = 0 THEN tmout ELSE left[i - 1] - delta[w[i]]
      stops == {i \in 1 .. Len(w) : w[i] = t \/ delta[w[i]] >= left[i - 1]}
  IN  IF stops = {} THEN [before |-> TimeoutHead, left |-> left[Len(w)]]
      ELSE [before |-> w[Min(stops)], left |-> left[Min(stops) - 1]]

sched_timeout_ins(t, tmout) ==
  \E y \in TNode, d \in 0 .. TmoMod - 1 :
    /\ Position(t, tmout) = [before |-> y, left |-> d]
    /\ tlink' = InsertAfter(tlink, tlink.prev[y], t)
    /\ delta' = [u \in Task |-> IF u = y THEN (IF y = t THEN 0 ELSE delta[y] - d)
                                ELSE IF u = t THEN d ELSE delta[u]]

\* sched_timeout_rem_if_exist(&tsk[t].tlink) on a timeout queue q; the next
\* entry inherits the delta.  (The delta of an entry in no queue is dead; it
\* is 0 here.)
rem_never(q, t) == q                                             \* mutant
rem_no_carry(q, t) ==                                            \* mutant
  [q EXCEPT !.tlink = UnlinkToSelf(@, t), !.delta = [@ EXCEPT ![t] = 0]]
RemTimeout(q, t) ==
  IF InQueue(q.tlink, t)
  THEN [q EXCEPT !.tlink = UnlinkToSelf(@, t),
                 !.delta = [u \in Task |->
                              IF u = t THEN 0
                              ELSE IF u = q.tlink.next[t]
                                   THEN (@[u] + @[t]) % TmoMod
                                   ELSE @[u]]]
  ELSE q

sched_timeout_rem(t) ==
  LET q == RemTimeout([tlink |-> tlink, delta |-> delta], t)
  IN  tlink' = q.tlink /\ delta' = q.delta
-----------------------------------------------------------------------------
(***************************************************************************)
(* System calls.  Trap: the running task traps, the CPU gets the lock and  *)
(* itron_syscall reaches the service.  Return: the service is done and the *)
(* lock released; regs->eax is stored by the next step of the CPU.         *)
(***************************************************************************)
Trap(c, call, u) ==
  pc[c] = "user" /\ kernel_lk = 0 /\ Issues(Cur(c), call, u)

Return(c, r) ==
  /\ pc' = [pc EXCEPT ![c] = "ret"]
  /\ ret' = [ret EXCEPT ![c] = r]
  /\ UNCHANGED <<lockVars, c_tskid>>

TakeWakeup(t) ==
  /\ wupcnt[t] >= 1
  /\ wupcnt' = [wupcnt EXCEPT ![t] = @ - 1]
  /\ UNCHANGED <<readyVars, timeVars>>

sys_slp_tsk(t) ==
  \/ TakeWakeup(t)
  \/ wupcnt[t] = 0 /\ Block(t) /\ UNCHANGED <<wupcnt, timeVars>>

sys_tslp_tsk(t, tmout) ==
  \/ TakeWakeup(t)
  \/ wupcnt[t] = 0 /\ Block(t) /\ sched_timeout_ins(t, tmout)
     /\ UNCHANGED wupcnt

slp_tsk(c) ==
  /\ Trap(c, "slp_tsk", Cur(c))
  /\ sys_slp_tsk(Cur(c))
  /\ Return(c, E_OK)
  /\ UNCHANGED <<tcbVars, eax, wlink>>

tslp_tsk(c) ==
  /\ Trap(c, "tslp_tsk", Cur(c))
  /\ \E tmout \in Tmo : sys_tslp_tsk(Cur(c), tmout)
  /\ Return(c, E_OK)
  /\ UNCHANGED <<tcbVars, eax, wlink>>

\* dly_tsk does not look at wupcnt; a delay of 0 returns at once.
dly_tsk(c) ==
  /\ Trap(c, "dly_tsk", Cur(c))
  /\ \E dlytim \in Tmo :
       \/ dlytim = 0 /\ UNCHANGED <<readyVars, timeVars>>
       \/ dlytim # 0 /\ Block(Cur(c)) /\ sched_timeout_ins(Cur(c), dlytim)
  /\ Return(c, E_OK)
  /\ UNCHANGED <<wupcnt, tcbVars, eax, wlink>>

\* A task that is not WAI gets its wakeup queued; the limit is tested with
\* `>', so TMAX_WUPCNT + 1 of them fit.
NoLimit(u) == FALSE                                              \* mutant
WakeupsFull(u) == wupcnt[u] > TMAX_WUPCNT

QueueWakeup(c, u) ==
  /\ tskstat[u] \notin {"WAI", "NON", "DMT"}
  /\ \/ /\ WakeupsFull(u)
        /\ UNCHANGED wupcnt
        /\ Return(c, E_QOVR)
     \/ /\ ~WakeupsFull(u)
        /\ wupcnt' = [wupcnt EXCEPT ![u] = @ + 1]
        /\ Return(c, E_OK)
  /\ UNCHANGED <<readyVars, timeVars>>

\* A sleeping task becomes ready, the caller gives up the CPU (RDY, still
\* linked), and both CPUs are asked to reschedule.
WakeUp(c, u) ==
  /\ tskstat[u] = "WAI"
  /\ tskstat' = [tskstat EXCEPT ![u] = "RDY", ![Cur(c)] = "RDY"]
  /\ sched_ins(u)
  /\ sched_timeout_rem(u)
  /\ sched_next_tsk
  /\ Return(c, E_OK)
  /\ UNCHANGED wupcnt

RefuseWakeup(c, u) ==
  /\ tskstat[u] \in {"NON", "DMT"}
  /\ Return(c, IF tskstat[u] = "NON" THEN E_NOEXS ELSE E_OBJ)
  /\ UNCHANGED <<readyVars, timeVars, wupcnt>>

wup_tsk(c, u) ==
  /\ Trap(c, "wup_tsk", u)
  /\ QueueWakeup(c, u) \/ WakeUp(c, u) \/ RefuseWakeup(c, u)
  /\ UNCHANGED <<tcbVars, eax, wlink>>

can_wup(c, u) ==
  /\ Trap(c, "can_wup", u)
  /\ \/ /\ tskstat[u] \notin {"NON", "DMT"}
        /\ wupcnt' = [wupcnt EXCEPT ![u] = 0]
        /\ Return(c, wupcnt[u])
     \/ RefuseWakeup(c, u)
  /\ UNCHANGED <<readyVars, timeVars, tcbVars, eax, wlink>>

\* Activation links the task but asks no CPU to reschedule.
act_tsk(c, u) ==
  /\ Trap(c, "act_tsk", u)
  /\ \/ /\ tskstat[u] = "DMT"
        /\ tskstat' = [tskstat EXCEPT ![u] = "RDY"]
        /\ sched_ins(u)
        /\ Return(c, E_OK)
        /\ UNCHANGED <<actcnt, next_tsk_flag>>
     \/ /\ tskstat[u] \notin {"DMT", "NON"}
        /\ actcnt[u] < TMAX_ACTCNT
        /\ actcnt' = [actcnt EXCEPT ![u] = @ + 1]
        /\ Return(c, E_OK)
        /\ UNCHANGED readyVars
     \/ /\ tskstat[u] = "NON" \/ (tskstat[u] # "DMT" /\ actcnt[u] >= TMAX_ACTCNT)
        /\ Return(c, IF tskstat[u] = "NON" THEN E_NOEXS ELSE E_QOVR)
        /\ UNCHANGED <<actcnt, readyVars>>
  /\ UNCHANGED <<wupcnt, tskpri, proc_cpu, eax, wlink, timeVars>>
-----------------------------------------------------------------------------
(***************************************************************************)
(* Interrupts.  The tick: sched_timeout decrements the first delta, then   *)
(* takes every entry of delta 0 off the queue (delta is unsigned: `<= 0'   *)
(* is `= 0'), waking its task if it still waits.                           *)
(***************************************************************************)
FirstTimeout == tlink.next[TimeoutHead]

TickCpu == 0

irq0(c) ==
  /\ c = TickCpu /\ pc[c] = "user" /\ kernel_lk = 0
  /\ \/ /\ FirstTimeout = TimeoutHead
        /\ pc' = [pc EXCEPT ![c] = "leave"]
        /\ UNCHANGED <<lockVars, delta>>
     \/ /\ FirstTimeout # TimeoutHead
        /\ delta' = [delta EXCEPT ![FirstTimeout] = (@ - 1) % TmoMod]
        /\ pc' = [pc EXCEPT ![c] = "tick"]
        /\ kernel_lk' = 1
        /\ woken' = FALSE
  /\ UNCHANGED <<ret, c_tskid, readyVars, tcbVars, wupcnt, eax, wlink, tlink>>

OnePerTick ==                                                    \* mutant
  FirstTimeout # TimeoutHead /\ delta[FirstTimeout] = 0 /\ ~woken
Expired == FirstTimeout # TimeoutHead /\ delta[FirstTimeout] = 0

TimeOutTask(t) ==
  /\ tskstat[t] = "WAI"
  /\ wlink' = IF InQueue(wlink, t) THEN UnlinkToSelf(wlink, t) ELSE wlink
  /\ eax' = [eax EXCEPT ![t] = E_TMOUT]
  /\ tskstat' = [tskstat EXCEPT ![t] = "RDY"]
  /\ sched_ins(t)
  /\ woken' = TRUE

sched_timeout(c) ==
  /\ pc[c] = "tick"
  /\ Expired
  /\ tlink' = UnlinkToSelf(tlink, FirstTimeout)
  /\ \/ TimeOutTask(FirstTimeout)
     \/ /\ tskstat[FirstTimeout] # "WAI"
        /\ UNCHANGED <<wlink, eax, tskstat, plink, woken>>
  /\ UNCHANGED <<pc, ret, kernel_lk, c_tskid, next_tsk_flag, tcbVars, wupcnt,
                 delta>>

KeepLock == UNCHANGED kernel_lk                                  \* mutant
Unlock == kernel_lk' = 0

tick_done(c) ==
  /\ pc[c] = "tick"
  /\ ~Expired
  /\ IF woken THEN sched_next_tsk ELSE UNCHANGED next_tsk_flag
  /\ Unlock
  /\ woken' = FALSE
  /\ pc' = [pc EXCEPT ![c] = "leave"]
  /\ UNCHANGED <<ret, c_tskid, plink, tskstat, tcbVars, wupcnt, eax, wlink,
                 timeVars>>

\* The APIC timer of a CPU acknowledges the interrupt and returns.
apic_timer(c) ==
  /\ pc[c] = "user"
  /\ pc' = [pc EXCEPT ![c] = "leave"]
  /\ UNCHANGED <<ret, lockVars, c_tskid, readyVars, tcbVars, wupcnt, eax,
                 wlink, timeVars>>
-----------------------------------------------------------------------------
\* The way out of the kernel.

\* c_intr_syscall: regs->eax = ret, after smp_unlock.  (A local variable that
\* is dead has its first value here: ret, and woken after the tick.)
store_ret(c) ==
  /\ pc[c] = "ret"
  /\ eax' = [eax EXCEPT ![Cur(c)] = ret[c]]
  /\ ret' = [ret EXCEPT ![c] = E_OK]
  /\ pc' = [pc EXCEPT ![c] = "leave"]
  /\ UNCHANGED <<lockVars, c_tskid, readyVars, tcbVars, wupcnt, wlink,
                 timeVars>>

\* RESTORE_ALL and iret: the task pops its frame.
StoreOnResume(c) ==                                              \* mutant
  /\ pc' = [pc EXCEPT ![c] = "user"]
  /\ eax' = [eax EXCEPT ![Cur(c)] = ret[c]]
Resume(c) ==
  /\ pc' = [pc EXCEPT ![c] = "user"]
  /\ eax' = [eax EXCEPT ![Cur(c)] = Popped]

intr_leave(c) ==
  /\ pc[c] = "leave"
  /\ next_tsk_flag[c] = 0
  /\ Resume(c)
  /\ UNCHANGED <<ret, lockVars, c_tskid, readyVars, tcbVars, wupcnt, wlink,
                 timeVars>>

AnyCpu(c, t) == TRUE                                             \* mutant
Pinned(c, t) == proc_cpu[t] = c

\* Places of the ready queue p that hold a task CPU c may take; its current
\* task, if it is RUN, competes as RDY.
Runnable(c, p) ==
  LET w == Walk(plink, tsk_pri(p))
  IN  {i \in 1 .. Len(w) :
         /\ w[i] \in Task
         /\ tskstat[w[i]] = "RDY" \/ (w[i] = Cur(c) /\ tskstat[w[i]] = "RUN")
         /\ Pinned(c, w[i])}

LessUrgent(p) == p + 1 .. MaxPri                                 \* mutant
MoreUrgent(p) == 1 .. p - 1   \* the queues the scan has passed at p

\* Old and new task swap RDY and RUN; they may be the same one.
Switch(c, t) ==
  /\ tskstat' = [u \in Task |->
                   IF u = t THEN "RUN"
                   ELSE IF u = Cur(c) /\ tskstat[u] = "RUN" THEN "RDY"
                   ELSE tskstat[u]]
  /\ c_tskid' = [c_tskid EXCEPT ![c] = t]

sched_do_next_tsk(c) ==
  /\ pc[c] = "leave"
  /\ next_tsk_flag[c] # 0
  /\ kernel_lk = 0
  /\ \/ \E p \in Pri :
          \E i \in Runnable(c, p), t \in Task :
            /\ \A q \in MoreUrgent(p) : Runnable(c, q) = {}
            /\ \A j \in Runnable(c, p) : i <= j
            /\ t = Walk(plink, tsk_pri(p))[i]
            /\ Switch(c, t)
     \/ /\ \A p \in Pri : Runnable(c, p) = {}
        /\ UNCHANGED <<tskstat, c_tskid>>
  /\ pc' = [pc EXCEPT ![c] = "clear"]
  /\ UNCHANGED <<ret, lockVars, plink, next_tsk_flag, tcbVars, wupcnt, eax,
                 wlink, timeVars>>

\* sched_next_tsk_check clears the flag without the lock.
clear_flag(c) ==
  /\ pc[c] = "clear"
  /\ next_tsk_flag' = [next_tsk_flag EXCEPT ![c] = 0]
  /\ Resume(c)
  /\ UNCHANGED <<ret, lockVars, c_tskid, plink, tskstat, tcbVars, wupcnt, wlink,
                 timeVars>>
-----------------------------------------------------------------------------
\* The calls of the library (lib/lib_tsk.c), each of which only traps.
SystemCall(c) ==
  \/ slp_tsk(c) \/ tslp_tsk(c) \/ dly_tsk(c)
  \/ \E u \in Task : wup_tsk(c, u) \/ can_wup(c, u) \/ act_tsk(c, u)

Interrupt(c) == irq0(c) \/ apic_timer(c)

\* The steps a CPU takes by itself once it is in the kernel.
Kernel(c) ==
  \/ sched_timeout(c) \/ tick_done(c) \/ store_ret(c)
  \/ intr_leave(c) \/ sched_do_next_tsk(c) \/ clear_flag(c)

TasksNext == \E c \in Cpu : SystemCall(c) \/ Interrupt(c) \/ Kernel(c)

TasksSpec == TasksInit /\ [][TasksNext]_vars

(***************************************************************************)
(* Interrupts are off in the kernel and no handler loops without bound, so *)
(* a CPU that is in it goes on; smp_lock spins with no queue, so a CPU is  *)
(* only promised the lock if it is free again and again (strong fairness). *)
(* The PIT line stays raised until CPU 0 takes the interrupt, hence strong *)
(* fairness of irq0 as well.  Nothing is assumed of the tasks.             *)
(***************************************************************************)
Fairness ==
  /\ \A c \in Cpu : WF_vars(Kernel(c)) /\ SF_vars(sched_do_next_tsk(c))
  /\ SF_vars(irq0(TickCpu))

TasksFairSpec == TasksSpec /\ Fairness
-----------------------------------------------------------------------------
\* Types: what every variable may hold.
TypeOK ==
  /\ pc \in [Cpu -> PC]
  /\ ret \in [Cpu -> Int]
  /\ kernel_lk \in {0, 1} /\ woken \in BOOLEAN
  /\ c_tskid \in [Cpu -> Task]
  /\ next_tsk_flag \in [Cpu -> {0, 1}]
  /\ tskstat \in [Task -> Stat]
  /\ tskpri \in [Task -> Pri]
  /\ actcnt \in [Task -> 0 .. TMAX_ACTCNT]
  /\ wupcnt \in [Task -> 0 .. TMAX_WUPCNT + 1]
  /\ proc_cpu \in [Task -> Cpu]
  /\ eax \in [Task -> Int]
  /\ plink \in Ring(PNode)
  /\ wlink \in Ring(WNode)
  /\ tlink \in Ring(TNode)
  /\ delta \in [Task -> Int]

\* A task that the kernel believes to be running is the current task of the
\* CPU it is pinned to: no task runs on two CPUs (sched_do_next_tsk marks
\* RUN under the lock what only its own CPU may take).
RunIsCurrent == \A t \in Task : tskstat[t] = "RUN" => c_tskid[proc_cpu[t]] = t

\* A CPU in user mode executes a task that is RUN.  kernel/user.c:21 calls
\* the contrary a `ghost': a WAI task that goes on because the scan of
\* sched_do_next_tsk found nothing for its CPU.
NoGhost == \A c \in Cpu : pc[c] = "user" => tskstat[Cur(c)] = "RUN"

\* The scan of a CPU always finds a task: its idle task stays linked, ready
\* and out of the reach of the other CPU (smp-basics.md:692).
IdleReady ==
  \A c \in Cpu : \E p \in Pri, t \in Idle :
    /\ \E i \in 1 .. Len(Walk(plink, tsk_pri(p))) : Walk(plink, tsk_pri(p))[i] = t
    /\ proc_cpu[t] = c
    /\ tskstat[t] = "RDY" \/ (t = Cur(c) /\ tskstat[t] = "RUN")

\* The ready queue of each priority holds exactly its RDY and RUN tasks, once
\* each: sched_rem, sched_ins and the status are always changed together.
ReadyQueuesExact ==
  \A p \in Pri : HoldsExactly(plink, tsk_pri(p),
       {t \in Task : tskpri[t] = p /\ tskstat[t] \in {"RDY", "RUN"}})

Timed(t) == InQueue(tlink, t)

\* The timeout queue holds exactly the tasks whose tlink is not self-linked,
\* and all of them wait: no service leaves a stale entry behind.
TimeoutQueueExact ==
  /\ HoldsExactly(tlink, TimeoutHead, {t \in Task : Timed(t)})
  /\ \A t \in Task : Timed(t) => tskstat[t] = "WAI"

\* Ticks until the entry of t is due in a queue r with deltas d: the deltas up
\* to and including its own.
DueIn(r, d, t) ==
  LET w == Walk(r, TimeoutHead)
      sum[i \in 0 .. Len(w)] == IF i = 0 THEN 0 ELSE sum[i - 1] + d[w[i]]
  IN  sum[CHOOSE i \in 1 .. Len(w) : w[i] = t]

TimeLeft(t) == DueIn(tlink, delta, t)

TickStarts == \E c \in Cpu : pc[c] = "user" /\ pc'[c] = "tick"

\* The delta encoding keeps every deadline: an entry joins with the time its
\* task asked for, loses one per tick and nothing by the insertions, the
\* removals and the wakeups of others, and the tick takes it at zero.
DeadlinesKept ==
  [][\A t \in Task :
       /\ Timed(t) /\ Timed(t)' =>
            TimeLeft(t)' = TimeLeft(t) - (IF TickStarts THEN 1 ELSE 0)
       /\ ~Timed(t) /\ Timed(t)' => TimeLeft(t)' \in Tmo
       /\ Timed(t) /\ ~Timed(t)' /\ kernel_lk = 1 => TimeLeft(t) = 0]_vars

\* No entry has more time left than the longest time-out ever asked for
\* (sched.c:163 `processes all expired entries (delta <= 0)').
NoEntryOverdue ==
  kernel_lk = 0 => \A t \in Task : Timed(t) => \E d \in Tmo : TimeLeft(t) <= d

\* The dispatcher chooses by priority over all the ready tasks pinned to its
\* CPU, wherever their links are.
MostUrgentChosen ==
  [][\A c \in Cpu : pc[c] = "leave" /\ pc'[c] = "clear" =>
       \A t \in Task : tskstat'[t] = "RDY" /\ proc_cpu[t] = c =>
          tskpri[c_tskid'[c]] <= tskpri[t]]_vars

\* When a CPU is back in user mode with no reschedule pending, no ready task
\* pinned to it is more urgent than the one it runs.
NoMissedPreemption ==
  \A c \in Cpu : pc[c] = "user" /\ next_tsk_flag[c] = 0 =>
    \A t \in Task : tskstat[t] = "RDY" /\ proc_cpu[t] = c =>
      tskpri[Cur(c)] <= tskpri[t]

\* ... in particular no task that a time-out has made ready: the request of the
\* tick reaches the CPU of the task (timeout.md:120).
TimeoutPreempts ==
  kernel_lk = 0 => \A c \in Cpu : pc[c] = "user" /\ next_tsk_flag[c] = 0 =>
    \A t \in Task :
      tskstat[t] = "RDY" /\ proc_cpu[t] = c /\ eax[t] = E_TMOUT =>
        tskpri[Cur(c)] <= tskpri[t]

\* E_TMOUT in the frame of t stays there until t pops it.
KeepsVerdict(t) == eax[t] = E_TMOUT => eax'[t] \in {E_TMOUT, Popped}

\* The E_TMOUT that the tick writes into the frame of a task reaches the task,
\* on the CPU that takes the tick: the way of its tasks out of the kernel, on
\* which the return value is stored without the lock, cannot overlap with it.
VerdictKeptOnTickCpu ==
  [][\A t \in Task : home[t] = 0 => KeepsVerdict(t)]_vars

\* A task that sleeps with a time-out does not sleep for ever, whatever the
\* other tasks do.
TimedSleepEnds ==
  \A t \in Task : tskstat[t] = "WAI" /\ Timed(t) ~> tskstat[t] # "WAI"

\* A CPU that entered the kernel gets back to user mode.
HandlersReturn == \A c \in Cpu : pc[c] # "user" ~> pc[c] = "user"
=============================================================================
