---------------------------- MODULE MCSemaphore ----------------------------
(***************************************************************************)
(* A small instance of Semaphore: one CPU, the boot task and two workers   *)
(* that it starts, and two semaphores, one of each queueing order.         *)
(***************************************************************************)
EXTENDS Semaphore

UniCpu == {0}
UniTask == {1, 3, 4, 8}
Unifirst == [c \in UniCpu |-> 1]
Unipri == [t \in UniTask |-> CASE t = 1 -> 1 [] t = 8 -> 3 [] OTHER -> 2]
Unihome == [t \in UniTask |-> 0]
Uniboot == FoldLeft(LAMBDA r, t : InsertBefore(r, -Unipri[t], t),
                    SelfLinked(UniTask \cup {-p : p \in 1 .. 3}), <<1, 8>>)
TwoSems == {1, 2}
TwoHeads == {-1, -2}
OneEach == [s \in TwoSems |-> 1]

\* The boot task creates and deletes the semaphores, starts the workers and
\* competes with them for the units.
Competing(t, call, u) ==
  \/ t = 1 /\ call \in {"acre_sem", "dly_tsk"} /\ u = 1
  \/ t = 1 /\ call \in {"cre_sem", "del_sem"} /\ u \in TwoSems
  \/ t = 1 /\ call = "act_tsk" /\ u \in {3, 4}
  \/ t \in {1, 3} /\ call = "twai_sem" /\ u = 1
  \/ t = 4 /\ call = "wai_sem" /\ u \in TwoSems
  \/ t = 3 /\ call = "wai_sem" /\ u = 2
  \/ t = 4 /\ call = "pol_sem" /\ u = 1
  \/ t \in {1, 3, 4} /\ call = "sig_sem" /\ u \in TwoSems

\* The same with a delay after the deletion: worker 3 waits, and then delays
\* itself.
Delaying(t, call, u) ==
  \/ Competing(t, call, u)
  \/ t = 3 /\ call = "dly_tsk" /\ u = 3
=============================================================================
