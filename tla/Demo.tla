-------------------------------- MODULE Demo --------------------------------
(***************************************************************************)
(* The demonstration (kernel/user.c) on two CPUs, from the boot code on:   *)
(* its four tasks with their programs, semaphore 1 between the CPUs, the   *)
(* keyboard, data queue 2 and message buffer 1, and the alternation of     *)
(* tasks 1 and 3 by wakeups.                                               *)
(*                                                                         *)
(* at[t] is the call that task t makes next, or has made and not returned  *)
(* from.  What a task does between two calls is part of the step in which  *)
(* the first one returns; what it shows on the screen is left out.         *)
(***************************************************************************)
EXTENDS Semaphore, Keyboard, MessageBuffer, Boot

CONSTANTS
  SEM_HOLD, SEM_REST,
  LineWrap,        \* characters of a full line
  line_buf,        \* the message for a line of each length
  Enter, Backspace \* the characters of these keys

VARIABLES at, have_sem, phase_cnt, line_pos

progVars == <<at, have_sem, phase_cnt, line_pos>>
demoVars == <<semVars, dtqVars, keyVars, mbfVars, bootVars, progVars>>

ASSUME DemoAssumption ==
  /\ Cpu = {0, 1} /\ {1, 2, 3, 4} \subseteq Task
  /\ 1 \in SemId /\ 2 \in DtqId /\ 1 \in MbfId
  /\ SEM_HOLD \in Nat \ {0} /\ SEM_REST \in Nat /\ LineWrap \in Nat \ {0}
  /\ line_buf \in [0 .. LineWrap -> Msg]

\* The calls of user.c.
Program(t, call, u) ==
  \/ t = 1 /\ u = 1 /\ call \in {"cre_sem", "cre_mbf", "trcv_mbf", "slp_tsk"}
  \/ t = 1 /\ u = 3 /\ call \in {"act_tsk", "wup_tsk"}
  \/ t = 3 /\ u = 3 /\ call = "slp_tsk"
  \/ t = 3 /\ u = 1 /\ call = "wup_tsk"
  \/ t = 2 /\ u = 2 /\ call = "cre_dtq"
  \/ t = 2 /\ u = 4 /\ call = "act_tsk"
  \/ t \in {2, 3} /\ u = 1 /\ call \in {"pol_sem", "sig_sem"}
  \/ t = 4 /\ u = 2 /\ call \in {"set_key_task", "rcv_dtq"}
  \/ t = 4 /\ u = 1 /\ call = "psnd_mbf"

DemoInit ==
  /\ SemInit /\ DtqInit /\ key_init /\ MbfInit /\ BootInit
  /\ at = [t \in 1 .. 4 |-> CASE t = 1 -> "cre_sem" [] t = 2 -> "cre_dtq"
                              [] t = 3 -> "slp_tsk" [] t = 4 -> "set_key_task"]
  /\ have_sem = [t \in {2, 3} |-> FALSE]
  /\ phase_cnt = [t \in {2, 3} |-> 0]
  /\ line_pos = 0
-----------------------------------------------------------------------------
(***************************************************************************)
(* Tasks 2 and 3 hold the semaphore for SEM_HOLD rounds, rest for SEM_REST *)
(* rounds, and then poll for it.  Goto is where a round without a call     *)
(* continues.                                                              *)
(***************************************************************************)
Goto(t) == IF t = 3 THEN "wup_tsk" ELSE "count"

Round(t) ==
  LET counts == (have_sem[t] /\ phase_cnt[t] + 1 < SEM_HOLD)
                  \/ (~have_sem[t] /\ phase_cnt[t] < SEM_REST)
  IN  /\ phase_cnt' = IF counts THEN [phase_cnt EXCEPT ![t] = @ + 1] ELSE phase_cnt
      /\ at' = [at EXCEPT ![t] = IF counts THEN Goto(t)
                                 ELSE IF have_sem[t] THEN "sig_sem" ELSE "pol_sem"]
      /\ UNCHANGED <<have_sem, line_pos>>

\* pol_sem or sig_sem of task t has answered v.
SemAnswer(t, v) ==
  /\ LET changed == at[t] = "sig_sem" \/ v = E_OK
     IN  /\ have_sem' = [have_sem EXCEPT ![t] = at[t] = "pol_sem" /\ v = E_OK]
         /\ phase_cnt' = [phase_cnt EXCEPT ![t] = IF changed THEN 0 ELSE @]
  /\ at' = [at EXCEPT ![t] = Goto(t)]
  /\ UNCHANGED line_pos

\* The character d has come: a full line, or Enter, sends the line.
KeyRead(d) ==
  LET sends == d = Enter \/ (d # Backspace /\ line_pos + 1 = LineWrap)
  IN  /\ at' = [at EXCEPT ![4] = IF sends THEN "psnd_mbf" ELSE "rcv_dtq"]
      /\ line_pos' = IF d = Enter THEN line_pos
                     ELSE IF d = Backspace THEN IF line_pos > 0 THEN line_pos - 1 ELSE 0
                     ELSE line_pos + 1
      /\ UNCHANGED <<have_sem, phase_cnt>>

LineSent ==
  /\ at' = [at EXCEPT ![4] = "rcv_dtq"]
  /\ line_pos' = 0
  /\ UNCHANGED <<have_sem, phase_cnt>>

\* The calls that are followed by one other call, whatever they answer.
Follows == [t \in {1, 2, 3, 4} |->
  CASE t = 1 -> [cre_sem |-> "cre_mbf", cre_mbf |-> "act_tsk", act_tsk |-> "trcv_mbf",
                 trcv_mbf |-> "wup_tsk", wup_tsk |-> "slp_tsk", slp_tsk |-> "trcv_mbf"]
    [] t = 2 -> [cre_dtq |-> "act_tsk", act_tsk |-> "count"]
    [] t = 3 -> [wup_tsk |-> "slp_tsk"]
    [] t = 4 -> [set_key_task |-> "rcv_dtq"]]

\* The call of the task t of CPU c returns with the value v.
Returned(c, t, v) ==
  \/ /\ at[t] \in DOMAIN Follows[t]
     /\ at' = [at EXCEPT ![t] = Follows[t][at[t]]]
     /\ UNCHANGED <<have_sem, phase_cnt, line_pos>>
  \/ t = 3 /\ at[t] = "slp_tsk" /\ Round(t)
  \/ t \in {2, 3} /\ at[t] \in {"pol_sem", "sig_sem"} /\ SemAnswer(t, v)
  \/ t = 4 /\ at[t] = "rcv_dtq" /\ KeyRead(var[t])
  \/ t = 4 /\ at[t] = "psnd_mbf" /\ LineSent

ProgStep(c) ==
  IF Resumes(c) /\ eax[Cur(c)] # Popped THEN Returned(c, Cur(c), eax[Cur(c)])
  ELSE UNCHANGED progVars
-----------------------------------------------------------------------------
\* The call at which the task of CPU c is.
At(c, call) == Cur(c) \in 1 .. 4 /\ at[Cur(c)] = call

CallStep(c) ==
  /\ \/ /\ \/ At(c, "slp_tsk") /\ slp_tsk(c)
           \/ At(c, "act_tsk") /\ \E u \in {3, 4} : act_tsk(c, u)
           \/ At(c, "wup_tsk") /\ \E u \in {1, 3} : wup_tsk(c, u)
        /\ UNCHANGED <<sem, history, dtqVars, keyVars, mbfVars>>
     \/ /\ \/ At(c, "cre_sem") /\ cre_sem(c, 1)
           \/ At(c, "pol_sem") /\ pol_sem(c, 1)
           \/ At(c, "sig_sem") /\ sig_sem(c, 1)
        /\ UNCHANGED <<dtqVars, keyVars, mbfVars>>
     \/ /\ \/ At(c, "cre_dtq") /\ cre_dtq(c, 2) /\ UNCHANGED keyVars
           \/ At(c, "set_key_task") /\ set_key_task(c, 2)
           \/ At(c, "rcv_dtq") /\ trcv_dtq(c, 2) /\ UNCHANGED keyVars
        /\ UNCHANGED <<sem, history, mbfVars>>
     \/ /\ \/ At(c, "cre_mbf") /\ cre_mbf(c, 1)
           \/ At(c, "trcv_mbf") /\ trcv_mbf(c, 1)
           \/ At(c, "psnd_mbf") /\ tsnd_mbf(c, 1, line_buf[line_pos])
        /\ UNCHANGED <<sem, history, dtqVars, keyVars>>
  /\ UNCHANGED progVars

\* A round of task 2 that ends in no call.
CountStep(c) ==
  /\ pc[c] = "user" /\ At(c, "count") /\ Round(Cur(c))
  /\ UNCHANGED <<semVars, dtqVars, keyVars, mbfVars>>

HandlerStep(c) ==
  \/ /\ Interrupt(c) \/ Kernel(c)
     /\ Answer(c) /\ DtqRead(c) /\ MbfRead(c) /\ ProgStep(c)
     /\ UNCHANGED <<sem, keyVars>>
  \/ irq1(c) /\ UNCHANGED <<sem, history, mbfVars, progVars>>

DemoNext ==
  \E c \in Cpu :
    \/ BootStep(c) /\ UNCHANGED <<semVars, dtqVars, keyVars, mbfVars, progVars>>
    \/ /\ boot[c] = "up"
       /\ CallStep(c) \/ CountStep(c) \/ HandlerStep(c)
       /\ UNCHANGED bootVars

DemoSpec == DemoInit /\ [][DemoNext]_demoVars
-----------------------------------------------------------------------------
\* Task t counts shared_count up.
InCritical(t) == have_sem[t] /\ at[t] # "sig_sem"

\* The tasks of the two CPUs never both count shared_count up (user.c:17), and
\* who does so has the unit of the semaphore.
SharedExclusive ==
  /\ ~(InCritical(2) /\ InCritical(3))
  /\ \A t \in {2, 3} : InCritical(t) => semcnt[1] = 0

Asleep(t) == at[t] = "slp_tsk" /\ tskstat[t] = "WAI"

\* Tasks 1 and 3 hand the CPU to each other by wakeups, none of which is lost
\* or comes too early: they never both sleep, whatever the time-outs and the
\* lines from the other CPU do, and no wakeup is pending when task 1 waits
\* for a line, which would end that wait with the task still queued.
HandshakeKept ==
  /\ ~(Asleep(1) /\ Asleep(3))
  /\ at[1] = "trcv_mbf" => wupcnt[1] = 0
=============================================================================
