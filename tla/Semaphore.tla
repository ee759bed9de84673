----------------------------- MODULE Semaphore -----------------------------
(***************************************************************************)
(* Counting semaphores (kernel/sys_sem.c) over the task layer.             *)
(*                                                                         *)
(* asked, unit and holds are history: the semaphore a task waits to hear   *)
(* of, the one the kernel has given it a unit of since it asked, and the   *)
(* units a task believes to hold from the answers it has read.  What       *)
(* concerns a semaphore that was created anew since is Gone.               *)
(***************************************************************************)
EXTENDS Waits

CONSTANTS
  SemId,
  TA_TPRI,               \* the semaphores queued by priority, others FIFO
  isemcnt, maxsem        \* T_CSEM of each semaphore

VARIABLES act, semcnt, asked, unit, holds

sem == <<act, semcnt>>
history == <<asked, unit, holds>>
semVars == <<vars, sem, history>>

wlink_head(s) == -s                                  \* &sem[s].wlink

ASSUME SemAssumption ==
  /\ SemId \subseteq Nat \ {0} /\ TA_TPRI \subseteq SemId
  /\ {wlink_head(s) : s \in SemId} \subseteq WHead
  /\ isemcnt \in [SemId -> Nat] /\ maxsem \in [SemId -> Nat]

Gone == -1

SemInit ==
  /\ TasksInit
  /\ act = [s \in SemId |-> FALSE]
  /\ semcnt = [s \in SemId |-> 0]
  /\ asked = [t \in Task |-> None]
  /\ unit = [t \in Task |-> None]
  /\ holds = [t \in Task |-> [s \in SemId |-> 0]]
-----------------------------------------------------------------------------
SemWaiters(s) == Waiters(wlink_head(s))

\* A call that answers r and leaves tasks, queues and semaphores alone.
Refuse(c, r) == Reply(c, r) /\ UNCHANGED sem

\* History: units and answers of the former semaphore s no longer count.
Forget(s) ==
  LET Past(x) == IF x = s THEN Gone ELSE x
  IN  /\ asked' = [t \in Task |-> Past(asked[t])]
      /\ unit' = [t \in Task |-> Past(unit[t])]
      /\ holds' = [t \in Task |-> [holds[t] EXCEPT ![s] = 0]]

sys_cre_sem(c, s) ==
  /\ ~act[s]
  /\ act' = [act EXCEPT ![s] = TRUE]
  /\ semcnt' = [semcnt EXCEPT ![s] = isemcnt[s]]
  /\ UNCHANGED <<readyVars, tcbVars, wupcnt, eax, wlink, timeVars>>

cre_sem(c, s) ==
  /\ Trap(c, "cre_sem", s)
  /\ \/ act[s] /\ Refuse(c, E_OBJ) /\ UNCHANGED history
     \/ sys_cre_sem(c, s) /\ Forget(s) /\ Return(c, E_OK)

\* The first id that is free.
acre_sem(c) ==
  /\ Trap(c, "acre_sem", Cur(c))
  /\ \/ \E s \in SemId : /\ \A r \in SemId : r < s => act[r]
                         /\ sys_cre_sem(c, s) /\ Forget(s)
                         /\ Return(c, s)
     \/ (\A s \in SemId : act[s]) /\ Refuse(c, E_NOID) /\ UNCHANGED history

\* The waiters become ready with E_DLT; their own wlink stays as it is.
del_sem(c, s) ==
  /\ Trap(c, "del_sem", s)
  /\ \/ ~act[s] /\ Refuse(c, E_NOEXS)
     \/ /\ act[s]
        /\ DismissAll(<<wlink_head(s)>>)
        /\ act' = [act EXCEPT ![s] = FALSE]
        /\ Return(c, E_OK)
        /\ UNCHANGED semcnt
  /\ UNCHANGED history

\* Tasks signal to give back a unit, or where the signal must be refused.
Signals(t, s) ==
  /\ Issues(t, "sig_sem", s)
  /\ holds[t][s] > 0 \/ semcnt[s] = maxsem[s] \/ ~act[s]

Hand(s, t) ==
  /\ Dismiss(t, E_OK)
  /\ unit' = [unit EXCEPT ![t] = s]
  /\ UNCHANGED <<next_tsk_flag, sem>>

count_beyond(s) == FALSE                                         \* mutant
SemFull(s) == semcnt[s] + 1 > maxsem[s]

sig_sem(c, s) ==
  /\ pc[c] = "user" /\ kernel_lk = 0 /\ Signals(Cur(c), s)
  /\ LET t == wlink.next[wlink_head(s)]
     IN  \/ ~act[s] /\ Refuse(c, E_NOEXS) /\ UNCHANGED unit
         \/ act[s] /\ t # wlink_head(s) /\ Hand(s, t) /\ Return(c, E_OK)
         \/ act[s] /\ t = wlink_head(s) /\ SemFull(s)
            /\ Refuse(c, E_QOVR) /\ UNCHANGED unit
         \/ /\ act[s] /\ t = wlink_head(s) /\ ~SemFull(s)
            /\ semcnt' = [semcnt EXCEPT ![s] = @ + 1]
            /\ Return(c, E_OK)
            /\ UNCHANGED <<readyVars, tcbVars, wupcnt, eax, wlink, timeVars,
                           act, unit>>
  /\ holds' = [holds EXCEPT ![Cur(c)][s] = IF @ > 0 THEN @ - 1 ELSE 0]
  /\ UNCHANGED asked

Taken(n) == n - 1
one_more(s) == semcnt[s] >= 0                                    \* mutant
Available(s) == semcnt[s] > 0

TakeUnit(c, s) ==
  /\ Available(s)
  /\ semcnt' = [semcnt EXCEPT ![s] = Taken(@)]
  /\ unit' = [unit EXCEPT ![Cur(c)] = s]
  /\ Reply(c, E_OK)
  /\ UNCHANGED act

pol_sem(c, s) ==
  /\ Trap(c, "pol_sem", s)
  /\ \/ ~act[s] /\ Refuse(c, E_NOEXS) /\ UNCHANGED unit
     \/ act[s] /\ TakeUnit(c, s)
     \/ act[s] /\ ~Available(s) /\ Refuse(c, E_TMOUT) /\ UNCHANGED unit
  /\ asked' = [asked EXCEPT ![Cur(c)] = s]
  /\ UNCHANGED holds

by_arrival(s) == FALSE                                           \* mutant
ByPri(s) == s \in TA_TPRI

\* The answer is E_TMOUT until a signal replaces it.
WaitUnit(c, s, tmout) ==
  /\ ~Available(s) /\ tmout # 0
  /\ JoinAndSleep(c, wlink, wlink_head(s), ByPri(s), tmout)
  /\ Return(c, E_TMOUT)
  /\ UNCHANGED <<sem, unit>>

twai_sem(c, s) ==
  /\ \/ Trap(c, "twai_sem", s)
     \/ Trap(c, "wai_sem", s)
  /\ \/ ~act[s] /\ Refuse(c, E_NOEXS) /\ UNCHANGED unit
     \/ act[s] /\ TakeUnit(c, s)
     \/ act[s] /\ \E tmout \in TmoOf(c, s, "twai_sem", "wai_sem", "") :
          \/ WaitUnit(c, s, tmout)
          \/ ~Available(s) /\ tmout = 0 /\ Refuse(c, E_TMOUT) /\ UNCHANGED unit
  /\ asked' = [asked EXCEPT ![Cur(c)] = s]
  /\ UNCHANGED holds
-----------------------------------------------------------------------------
\* The calls of the library (lib/lib_sem.c), each of which only traps.
SemCall(c) ==
  \/ acre_sem(c)
  \/ \E s \in SemId : \/ cre_sem(c, s) \/ del_sem(c, s) \/ sig_sem(c, s)
                      \/ pol_sem(c, s) \/ twai_sem(c, s)

\* The count of units a task holds saturates one above what a semaphore that
\* conserves its units can hand out.
MaxHolds(s) == maxsem[s] + 1

\* The task that resumes reads its answer.
Answer(c) ==
  LET t == Cur(c)
  IN  IF Resumes(c)
      THEN /\ holds' = IF asked[t] \in SemId /\ eax[t] = E_OK
                       THEN [holds EXCEPT ![t][asked[t]] =
                               IF @ < MaxHolds(asked[t]) THEN @ + 1 ELSE @]
                       ELSE holds
           /\ asked' = [asked EXCEPT ![t] = None]
           /\ unit' = [unit EXCEPT ![t] = None]
      ELSE UNCHANGED history

TaskStep(c) ==
  /\ SystemCall(c) \/ Interrupt(c) \/ Kernel(c)
  /\ Answer(c)
  /\ UNCHANGED sem

SemNext == \E c \in Cpu : SemCall(c) \/ TaskStep(c)

SemSpec == SemInit /\ [][SemNext]_semVars
-----------------------------------------------------------------------------
\* Types.
SemTypeOK ==
  /\ TypeOK
  /\ act \in [SemId -> BOOLEAN]
  /\ semcnt \in [SemId -> Nat]
  /\ asked \in [Task -> SemId \cup {None, Gone}]
  /\ unit \in [Task -> SemId \cup {None, Gone}]
  /\ holds \in [Task -> [SemId -> Nat]]

\* Units are neither lost nor made, as long as tasks only release what they
\* hold: free units, units on their way to a task and units held add up.
UnitsConserved ==
  \A s \in SemId : act[s] =>
    semcnt[s] + Cardinality({t \in Task : unit[t] = s})
              + MapThenSumSet(LAMBDA t : holds[t][s], Task) = isemcnt[s]

\* A task reads E_OK from a wait exactly when the kernel gave it a unit.
UnitAnswered ==
  [][\A c \in Cpu : Resumes(c) /\ asked[Cur(c)] # None =>
       (eax[Cur(c)] = E_OK <=> unit[Cur(c)] # None)]_semVars

\* The queue of a semaphore holds exactly the tasks that sleep on it, and
\* nobody sleeps while a unit is free.
WaitQueueExact ==
  \A s \in SemId :
    /\ HoldsExactly(wlink, wlink_head(s),
         {t \in Task : tskstat[t] = "WAI" /\ asked[t] = s})
    /\ semcnt[s] > 0 => SemWaiters(s) = {}

\* A signal goes to the most urgent waiter of a TA_TPRI semaphore.
MostUrgentServed ==
  [][\A s \in TA_TPRI, t \in Task :
       unit[t] # s /\ unit'[t] = s /\ t \in SemWaiters(s) =>
         \A u \in SemWaiters(s) : tskpri[t] <= tskpri[u]]_semVars

Before(s, t, u) ==
  LET w == Walk(wlink, wlink_head(s))
  IN  \E i, j \in 1 .. Len(w) : i < j /\ w[i] = t /\ w[j] = u

\* Nobody overtakes: a task that joins comes after all who wait (TA_TFIFO), or
\* after all who wait and are as urgent (TA_TPRI), nobody changes places, and
\* whoever is given a unit was not behind another for whom that holds.
NoOvertaking ==
  [][\A s \in SemId : \A t, u \in SemWaiters(s) \cup SemWaiters(s)' :
       /\ Before(s, t, u) => ~Before(s, u, t)'
       /\ /\ t \in SemWaiters(s) /\ u \notin SemWaiters(s) /\ {t, u} \subseteq SemWaiters(s)'
          /\ s \in TA_TPRI => tskpri[t] <= tskpri[u]
          => Before(s, t, u)'
       /\ Before(s, t, u) /\ unit[u] # s /\ unit'[u] = s => FALSE]_semVars
=============================================================================
