---------------------------- MODULE MCTaskMgmt ----------------------------
(***************************************************************************)
(* A small instance of TaskMgmt: two CPUs with one boot task and one idle  *)
(* task each, and a worker that the boot task of CPU 0 creates.            *)
(***************************************************************************)
EXTENDS TaskMgmt, SequencesExt

MCCpu == {0, 1}
MCTask == {1, 2, 3, 8, 9}
MCfirst == [c \in MCCpu |-> c + 1]
MCpri == [t \in MCTask |-> CASE t \in {1, 2} -> 2 [] t = 3 -> 1 [] OTHER -> 3]
MChome == [t \in MCTask |-> IF t \in {2, 9} THEN 1 ELSE 0]
MCboot == FoldLeft(LAMBDA r, t : InsertBefore(r, -MCpri[t], t),
                   SelfLinked(MCTask \cup {-p : p \in 1 .. 3}), <<1, 2, 8, 9>>)

\* The boot task of CPU 0 leads the worker through its life with every service,
\* the one of CPU 1 wakes, activates, terminates and suspends it.
Managed(t, call, u) ==
  \/ t = 1 /\ u = 3 /\ call \notin {"slp_tsk", "tslp_tsk", "dly_tsk", "acre_tsk",
                                    "wup_tsk"}
  \/ t = 1 /\ u = 1 /\ call \in {"dly_tsk", "acre_tsk"}
  \/ t = 3 /\ u = 3 /\ call \in {"slp_tsk", "tslp_tsk", "ext_tsk", "exd_tsk"}
  \/ t = 2 /\ u = 3 /\ call \in {"wup_tsk", "act_tsk", "ter_tsk", "sus_tsk"}
=============================================================================
