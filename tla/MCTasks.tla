------------------------------ MODULE MCTasks ------------------------------
(***************************************************************************)
(* Small instances of Tasks: two CPUs with one boot task, one idle task    *)
(* each and one or two workers, three priorities.                          *)
(***************************************************************************)
EXTENDS Tasks, SequencesExt

\* Boot tasks 1 (CPU 0) and 2 (CPU 1), worker 3, idle tasks 8 and 9.
MCCpu == {0, 1}
MCTask == {1, 2, 3, 8, 9}
MCfirst == [c \in MCCpu |-> c + 1]
MCIdle == {8, 9}
MCpri == [t \in MCTask |-> CASE t \in {1, 2} -> 2 [] t = 3 -> 1 [] OTHER -> 3]
HomeWorkerOn(c) == [t \in MCTask |-> CASE t \in {1, 8} -> 0 [] t \in {2, 9} -> 1
                                     [] OTHER -> c]
Home0 == HomeWorkerOn(0)
Home1 == HomeWorkerOn(1)

\* proc_init links the boot tasks, then the idle tasks.
Boot(order, pri, levels, tasks) ==
  FoldLeft(LAMBDA r, t : InsertBefore(r, -pri[t], t),
           SelfLinked(tasks \cup {-p : p \in levels}), order)
MCboot == Boot(<<1, 2, 8, 9>>, MCpri, 1 .. 3, MCTask)

\* The programs.  Sleepers: the tasks sleep in every way; the boot task of
\* CPU 1 and the worker (on CPU 0 or 1) wake each other.
Sleepers(t, call, u) ==
  \/ t = 1 /\ call = "act_tsk" /\ u = 3
  \/ t = 1 /\ call = "dly_tsk" /\ u = 1
  \/ t = 2 /\ call = "slp_tsk" /\ u = 2
  \/ t = 3 /\ call = "tslp_tsk" /\ u = 3
  \/ t = 2 /\ call = "wup_tsk" /\ u = 3
  \/ t = 3 /\ call = "wup_tsk" /\ u = 2

\* One CPU without an idle task, as before user.c created them: boot task 1 is
\* the most urgent, workers 3 and 4 are below it.
UniCpu == {0}
UniTask == {1, 3, 4}
Unifirst == [c \in UniCpu |-> 1]
Unipri == [t \in UniTask |-> IF t = 1 THEN 1 ELSE 2]
Unihome == [t \in UniTask |-> 0]
Uniboot == Boot(<<1>>, Unipri, 1 .. 2, UniTask)

UniProgram(t, call, u) ==
  \/ t = 1 /\ call = "act_tsk" /\ u \in {3, 4}
  \/ t = 1 /\ call \in {"tslp_tsk", "slp_tsk", "can_wup"} /\ u = 1
  \/ t = 3 /\ call = "slp_tsk" /\ u = 3
  \/ t = 3 /\ call = "wup_tsk" /\ u \in {1, 4}
  \/ t = 4 /\ call = "dly_tsk" /\ u = 4
  \/ t = 4 /\ call = "wup_tsk" /\ u = 3

\* A worker of CPU 1 with the top priority, woken and timed from CPU 0: the
\* boot task of CPU 1 sleeps once to let it start.
Remote(t, call, u) ==
  \/ t = 2 /\ call = "act_tsk" /\ u = 3
  \/ t = 2 /\ call = "dly_tsk" /\ u = 2
  \/ t = 3 /\ call = "tslp_tsk" /\ u = 3
  \/ t = 1 /\ call = "wup_tsk" /\ u = 3
=============================================================================
