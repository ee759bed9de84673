----------------------------- MODULE EventFlag -----------------------------
(***************************************************************************)
(* Event flags (kernel/sys_flg.c).  A pattern is the set of its bits.      *)
(* set_flg makes the waiters ready whose condition is met and leaves them  *)
(* in the wait queue of the flag, and in the timeout queue.                *)
(*                                                                         *)
(* flgout[t] is the variable that p_flgptn of task t points to: {} until a *)
(* pattern is stored, then {pattern}.                                      *)
(***************************************************************************)
EXTENDS Waits

CONSTANTS
  FlgId, Bit,
  TA_CLR, TA_WMUL, FlgByPri   \* the flags with these attributes

VARIABLES flg_act, flgptn, waiptn, wfmode, flgout

flgVars == <<flg_act, flgptn, waiptn, wfmode, flgout>>

flg_wlink(f) == -50 - f                               \* &flg[f].wlink

ASSUME FlgAssumption ==
  /\ FlgId \subseteq 1 .. 9 /\ {flg_wlink(f) : f \in FlgId} \subseteq WHead
  /\ TA_CLR \cup TA_WMUL \cup FlgByPri \subseteq FlgId

Mode == {"TWF_ANDW", "TWF_ORW"}

\* flg_init; the created flags start with the empty pattern.
FlgInit ==
  /\ flg_act = [f \in FlgId |-> FALSE]
  /\ flgptn = [f \in FlgId |-> {}]
  /\ waiptn = [t \in Task |-> {}]
  /\ wfmode = [t \in Task |-> "TWF_ANDW"]
  /\ flgout = [t \in Task |-> {}]
-----------------------------------------------------------------------------
RefuseFlg(c, v) == Reply(c, v) /\ UNCHANGED flgVars

\* The condition of a wait, under the pattern p.
any_bit(mode, wait, p) == wait \cap p # {}                       \* mutant
Met(mode, wait, p) ==
  IF mode = "TWF_ANDW" THEN wait \subseteq p ELSE wait \cap p # {}

sys_cre_flg(f) ==
  /\ ~flg_act[f]
  /\ flg_act' = [flg_act EXCEPT ![f] = TRUE]
  /\ flgptn' = [flgptn EXCEPT ![f] = {}]
  /\ UNCHANGED <<waiptn, wfmode, flgout>>

cre_flg(c, f) ==
  /\ Trap(c, "cre_flg", f)
  /\ \/ flg_act[f] /\ RefuseFlg(c, E_OBJ)
     \/ sys_cre_flg(f) /\ Reply(c, E_OK)

acre_flg(c) ==
  /\ Trap(c, "acre_flg", Cur(c))
  /\ \/ \E f \in FlgId : /\ \A g \in FlgId : g < f => flg_act[g]
                         /\ sys_cre_flg(f) /\ Reply(c, f)
     \/ (\A f \in FlgId : flg_act[f]) /\ RefuseFlg(c, E_NOID)

\* Waiters that an earlier set_flg has left in the queue.
LeftBehind(f) == {t \in Waiters(flg_wlink(f)) : tskstat[t] # "WAI"}

\* Tasks that set_flg has left in the queue would become ready once more; the
\* application does not delete the flag then.
del_flg(c, f) ==
  /\ Trap(c, "del_flg", f) /\ LeftBehind(f) = {}
  /\ \/ ~flg_act[f] /\ RefuseFlg(c, E_NOEXS)
     \/ /\ flg_act[f]
        /\ DismissAllUntimed(<<flg_wlink(f)>>)
        /\ flg_act' = [flg_act EXCEPT ![f] = FALSE]
        /\ Return(c, E_OK)
        /\ UNCHANGED <<flgptn, waiptn, wfmode, flgout>>

(***************************************************************************)
(* The loop of set_flg over the waiters: release each whose condition is   *)
(* met; a TA_CLR flag is cleared by the first one, which ends the loop.    *)
(***************************************************************************)
Clears(f) == f \in TA_CLR

one_only(f) == TRUE                                              \* mutant
EndsLoop(f) == Clears(f)

Visit(f, s, t) ==
  IF s.over \/ ~Met(wfmode[t], waiptn[t], s.ptn) THEN s
  ELSE [k |-> Ready(s.k, t, E_OK),
        out |-> [s.out EXCEPT ![t] = {s.ptn}],
        ptn |-> IF Clears(f) THEN {} ELSE s.ptn,
        over |-> EndsLoop(f)]

\* step[i] is the state after i of the waiters.
Meeting(f, p) ==
  LET w == Walk(wlink, flg_wlink(f))
      step[i \in 0 .. Len(w)] ==
        IF i = 0 THEN [k |-> Kernel0, out |-> flgout, ptn |-> p, over |-> FALSE]
        ELSE Visit(f, step[i - 1], w[i])
  IN  step[Len(w)]

\* The application sets no pattern that makes a task ready twice.
Sets(t, f, ptn) ==
  /\ Issues(t, "set_flg", f)
  /\ \A u \in LeftBehind(f) : ~Met(wfmode[u], waiptn[u], flgptn[f] \cup ptn)

set_flg(c, f, ptn) ==
  /\ pc[c] = "user" /\ kernel_lk = 0 /\ Sets(Cur(c), f, ptn)
  /\ \/ ~flg_act[f] /\ RefuseFlg(c, E_NOEXS)
     \/ /\ flg_act[f] /\ ~Endless(wlink, flg_wlink(f))
        /\ LET s == Meeting(f, flgptn[f] \cup ptn)
           IN  /\ Commit(s.k)
               /\ flgptn' = [flgptn EXCEPT ![f] = s.ptn]
               /\ flgout' = s.out
        /\ Return(c, E_OK)
        /\ UNCHANGED <<wlink, next_tsk_flag, tcbVars, wupcnt, flg_act, waiptn, wfmode>>

clr_flg(c, f, ptn) ==
  /\ Trap(c, "clr_flg", f)
  /\ \/ ~flg_act[f] /\ RefuseFlg(c, E_NOEXS)
     \/ /\ flg_act[f]
        /\ flgptn' = [flgptn EXCEPT ![f] = @ \cap ptn]
        /\ Reply(c, E_OK)
        /\ UNCHANGED <<flg_act, waiptn, wfmode, flgout>>

\* The condition is met already.
Pass(c, f, ptn, mode) ==
  /\ Met(mode, ptn, flgptn[f])
  /\ flgout' = [flgout EXCEPT ![Cur(c)] = {flgptn[f]}]
  /\ flgptn' = [flgptn EXCEPT ![f] = IF Clears(f) THEN {} ELSE @]
  /\ Reply(c, E_OK)
  /\ UNCHANGED <<flg_act, waiptn, wfmode>>

pol_flg(c, f, ptn, mode) ==
  /\ Trap(c, "pol_flg", f)
  /\ \/ ~flg_act[f] /\ RefuseFlg(c, E_NOEXS)
     \/ flg_act[f] /\ Pass(c, f, ptn, mode)
     \/ flg_act[f] /\ ~Met(mode, ptn, flgptn[f]) /\ RefuseFlg(c, E_TMOUT)

\* A second waiter needs TA_WMUL.  The queue is by arrival only if no
\* attribute is set at all.
twai_flg(c, f, ptn, mode) ==
  /\ \E call \in {"twai_flg", "wai_flg"} : Trap(c, call, f)
  /\ ~InQueue(wlink, Cur(c))                 \* the application; see Sets
  /\ \/ ~flg_act[f] /\ RefuseFlg(c, E_NOEXS)
     \/ flg_act[f] /\ Pass(c, f, ptn, mode)
     \/ /\ flg_act[f] /\ ~Met(mode, ptn, flgptn[f])
        /\ f \notin TA_WMUL /\ InQueue(wlink, flg_wlink(f))
        /\ RefuseFlg(c, E_ILUSE)
     \/ /\ flg_act[f] /\ ~Met(mode, ptn, flgptn[f])
        /\ f \in TA_WMUL \/ ~InQueue(wlink, flg_wlink(f))
        /\ \E tmout \in TmoOf(c, f, "twai_flg", "wai_flg", "") :
             \/ tmout = 0 /\ RefuseFlg(c, E_TMOUT)
             \/ /\ tmout # 0
                /\ waiptn' = [waiptn EXCEPT ![Cur(c)] = ptn]
                /\ wfmode' = [wfmode EXCEPT ![Cur(c)] = mode]
                /\ JoinAndSleep(c, wlink, flg_wlink(f),
                                f \in TA_CLR \cup TA_WMUL \cup FlgByPri, tmout)
                /\ Return(c, E_OK)
                /\ UNCHANGED <<flg_act, flgptn, flgout>>

\* The calls of the library (lib/lib_sem.c), each of which only traps.
FlgCall(c) ==
  \/ acre_flg(c)
  \/ \E f \in FlgId :
       \/ cre_flg(c, f) \/ del_flg(c, f)
       \/ \E ptn \in SUBSET Bit :
            \/ set_flg(c, f, ptn) \/ clr_flg(c, f, ptn)
            \/ ptn # {} /\ \E mode \in Mode :
                             pol_flg(c, f, ptn, mode) \/ twai_flg(c, f, ptn, mode)

\* The task that resumes uses the pattern it was given.
FlgRead(c) ==
  /\ flgout' = IF Resumes(c) THEN [flgout EXCEPT ![Cur(c)] = {}] ELSE flgout
  /\ UNCHANGED <<flg_act, flgptn, waiptn, wfmode>>

FlgStep(c) == (FlgCall(c) /\ Fit(c)) \/ (FitStep(c) /\ FlgRead(c))
FlgSpec == TasksInit /\ FlgInit /\ [][\E c \in Cpu : FlgStep(c)]_<<vars, flgVars>>
-----------------------------------------------------------------------------
FlgTypeOK ==
  /\ flg_act \in [FlgId -> BOOLEAN] /\ flgptn \in [FlgId -> SUBSET Bit]
  /\ waiptn \in [Task -> SUBSET Bit] /\ wfmode \in [Task -> Mode]
  /\ flgout \in [Task -> SUBSET SUBSET Bit]

\* A pattern given to a sleeper meets what it waits for, although another task
\* stores it, in the middle of a walk over the waiters that changes the flag.
WaitIsMet ==
  [][\A t \in Task : tskstat[t] = "WAI" => \A p \in flgout'[t] :
       waiptn[t] \subseteq p \/ (wfmode[t] = "TWF_ORW" /\ waiptn[t] \cap p # {})]_flgVars

\* Nobody sleeps on a flag whose pattern meets its wait.
NoFlagMissed ==
  \A f \in FlgId : flg_act[f] => \A t \in Waiters(flg_wlink(f)) :
    tskstat[t] = "WAI" => ~Met(wfmode[t], waiptn[t], flgptn[f])
=============================================================================
