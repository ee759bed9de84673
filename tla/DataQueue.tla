----------------------------- MODULE DataQueue -----------------------------
(***************************************************************************)
(* Data queues (kernel/sys_dtq.c): a ring of data between two wait queues. *)
(* The addresses r and w of the code are indices here, and a slot that has *)
(* been read holds Empty.                                                  *)
(*                                                                         *)
(* var[t] is the variable that p_data of task t points to: Unset from the  *)
(* call on, until a datum is stored, and Unused when no receive is under   *)
(* way.  What tsnd_dtq stores in tsk.data is not here: nothing reads it.   *)
(***************************************************************************)
EXTENDS Waits

CONSTANTS
  DtqId,
  Datum,                 \* the data tasks send
  dtqcnt,                \* T_CDTQ of each data queue: its slots ...
  DtqByPri               \* ... and those with attribute TA_TPRI

VARIABLES dtq_act, dtq, r, w, var

dtqVars == <<dtq_act, dtq, r, w, var>>

wlink_r(q) == -10 - q                                 \* &dtq[q].wlink_r
wlink_w(q) == -20 - q                                 \* &dtq[q].wlink_w

Empty == "empty"
Unset == "unset"
Unused == "unused"

ASSUME DtqAssumption ==
  /\ DtqId \subseteq 1 .. 9 /\ DtqByPri \subseteq DtqId
  /\ {wlink_r(q) : q \in DtqId} \cup {wlink_w(q) : q \in DtqId} \subseteq WHead
  /\ dtqcnt \in [DtqId -> Nat \ {0}]
  /\ Datum \cap {Empty, Unset, Unused} = {}

DtqInit ==
  /\ dtq_act = [q \in DtqId |-> FALSE]
  /\ dtq = [q \in DtqId |-> [i \in 0 .. dtqcnt[q] - 1 |-> Empty]]
  /\ r = [q \in DtqId |-> 0]
  /\ w = [q \in DtqId |-> 0]
  /\ var = [t \in Task |-> Unused]
-----------------------------------------------------------------------------
RefuseDtq(c, v) == Reply(c, v) /\ UNCHANGED dtqVars

late_wrap(q, i) == IF i > dtqcnt[q] - 1 THEN 0 ELSE i + 1        \* mutant
After(q, i) == IF i + 1 >= dtqcnt[q] THEN 0 ELSE i + 1

never_full(q) == FALSE                                           \* mutant
Full(q) == After(q, w[q]) = r[q]
Holds(q) == w[q] # r[q]

FirstReader(q) == wlink.next[wlink_r(q)]
ReaderWaits(q) == FirstReader(q) # wlink_r(q)

sys_cre_dtq(q) ==
  /\ ~dtq_act[q]
  /\ dtq_act' = [dtq_act EXCEPT ![q] = TRUE]
  /\ dtq' = [dtq EXCEPT ![q] = [i \in DOMAIN @ |-> Empty]]
  /\ w' = [w EXCEPT ![q] = 0]
  /\ r' = [r EXCEPT ![q] = 0]
  /\ UNCHANGED var

cre_dtq(c, q) ==
  /\ Trap(c, "cre_dtq", q)
  /\ \/ dtq_act[q] /\ RefuseDtq(c, E_OBJ)
     \/ sys_cre_dtq(q) /\ Reply(c, E_OK)

acre_dtq(c) ==
  /\ Trap(c, "acre_dtq", Cur(c))
  /\ \/ \E q \in DtqId : /\ \A p \in DtqId : p < q => dtq_act[p]
                         /\ sys_cre_dtq(q) /\ Reply(c, q)
     \/ (\A q \in DtqId : dtq_act[q]) /\ RefuseDtq(c, E_NOID)

del_dtq(c, q) ==
  /\ Trap(c, "del_dtq", q)
  /\ \/ ~dtq_act[q] /\ RefuseDtq(c, E_NOEXS)
     \/ /\ dtq_act[q]
        /\ DismissAll(<<wlink_r(q), wlink_w(q)>>)
        /\ dtq_act' = [dtq_act EXCEPT ![q] = FALSE]
        /\ Return(c, E_OK)
        /\ UNCHANGED <<dtq, r, w, var>>
-----------------------------------------------------------------------------
\* Sending.  The first task that waits for a datum gets it; its answer, E_OK,
\* is in its frame since it went to sleep.
hand_nothing(q, d) ==                                            \* mutant
  /\ ReaderWaits(q)
  /\ Dismiss(FirstReader(q), eax[FirstReader(q)])
  /\ UNCHANGED dtqVars
HandToReader(q, d) ==
  /\ ReaderWaits(q)
  /\ Dismiss(FirstReader(q), eax[FirstReader(q)])
  /\ var' = [var EXCEPT ![FirstReader(q)] = d]
  /\ UNCHANGED <<dtq_act, dtq, r, w>>

Store(q, d) ==
  /\ dtq' = [dtq EXCEPT ![q][w[q]] = d]
  /\ w' = [w EXCEPT ![q] = After(q, @)]

\* The part that psnd, tsnd and fsnd share: deliver, or store if a slot is free.
Send(c, q, d) ==
  \/ HandToReader(q, d) /\ Return(c, E_OK) /\ UNCHANGED next_tsk_flag
  \/ /\ ~ReaderWaits(q) /\ ~Full(q)
     /\ Store(q, d) /\ Reply(c, E_OK) /\ UNCHANGED <<dtq_act, r, var>>

psnd_dtq(c, q) ==
  /\ Trap(c, "psnd_dtq", q)
  /\ \/ ~dtq_act[q] /\ RefuseDtq(c, E_NOEXS)
     \/ dtq_act[q] /\ \E d \in Datum : Send(c, q, d)
     \/ dtq_act[q] /\ ~ReaderWaits(q) /\ Full(q) /\ RefuseDtq(c, E_TMOUT)

\* A sender that finds no room sleeps, its datum in its control block; snd_dtq
\* is tsnd_dtq with TMO_FEVR.
tsnd_dtq(c, q) ==
  /\ Trap(c, "tsnd_dtq", q) \/ Trap(c, "snd_dtq", q)
  /\ \/ ~dtq_act[q] /\ RefuseDtq(c, E_NOEXS)
     \/ dtq_act[q] /\ \E d \in Datum : Send(c, q, d)
     \/ /\ dtq_act[q] /\ ~ReaderWaits(q) /\ Full(q)
        /\ \E tmout \in TmoOf(c, q, "tsnd_dtq", "snd_dtq", "") :
             \/ tmout = 0 /\ RefuseDtq(c, E_TMOUT)
             \/ /\ tmout # 0
                /\ JoinAndSleep(c, wlink, wlink_w(q), q \in DtqByPri, tmout)
                /\ Return(c, E_OK)
                /\ UNCHANGED dtqVars

\* A full ring loses its oldest datum; ifsnd_dtq is the same service.  (The
\* slot that becomes free is not the one that is written, w is free already.)
fsnd_dtq(c, q) ==
  /\ Trap(c, "fsnd_dtq", q)
  /\ \/ ~dtq_act[q] /\ RefuseDtq(c, E_NOEXS)
     \/ dtq_act[q] /\ \E d \in Datum : Send(c, q, d)
     \/ /\ dtq_act[q] /\ ~ReaderWaits(q) /\ Full(q)
        /\ \E d \in Datum :
             dtq' = [dtq EXCEPT ![q][w[q]] = d, ![q][r[q]] = Empty]
        /\ w' = [w EXCEPT ![q] = After(q, @)]
        /\ r' = [r EXCEPT ![q] = After(q, @)]
        /\ Reply(c, E_OK)
        /\ UNCHANGED <<dtq_act, var>>

\* ipsnd_dtq, called by the keyboard interrupt: as psnd_dtq, but waking a
\* reader asks for rescheduling, and nobody sees the result.
ipsnd_dtq(q, d) ==
  \/ /\ dtq_act[q] /\ HandToReader(q, d) /\ sched_next_tsk
  \/ /\ dtq_act[q] /\ ~ReaderWaits(q) /\ ~Full(q) /\ Store(q, d)
     /\ UNCHANGED <<dtq_act, r, var, readyVars, timeVars, wlink, eax, tcbVars,
                    wupcnt>>
  \/ /\ ~dtq_act[q] \/ (~ReaderWaits(q) /\ Full(q))
     /\ UNCHANGED <<dtqVars, readyVars, timeVars, wlink, eax, tcbVars, wupcnt>>
-----------------------------------------------------------------------------
\* Receiving.  Making room does not resume a sender.
Take(c, q) ==
  /\ Holds(q)
  /\ var' = [var EXCEPT ![Cur(c)] = dtq[q][r[q]]]
  /\ dtq' = [dtq EXCEPT ![q][r[q]] = Empty]
  /\ r' = [r EXCEPT ![q] = After(q, @)]
  /\ Reply(c, E_OK)
  /\ UNCHANGED <<dtq_act, w>>

FoundEmpty(c) ==
  var' = [var EXCEPT ![Cur(c)] = Unset] /\ UNCHANGED <<dtq_act, dtq, r, w>>

prcv_dtq(c, q) ==
  /\ Trap(c, "prcv_dtq", q)
  /\ \/ ~dtq_act[q] /\ RefuseDtq(c, E_NOEXS)
     \/ dtq_act[q] /\ Take(c, q)
     \/ dtq_act[q] /\ ~Holds(q) /\ Reply(c, E_TMOUT) /\ FoundEmpty(c)

\* rcv_dtq is trcv_dtq with TMO_FEVR.
trcv_dtq(c, q) ==
  /\ Trap(c, "trcv_dtq", q) \/ Trap(c, "rcv_dtq", q)
  /\ \/ ~dtq_act[q] /\ RefuseDtq(c, E_NOEXS)
     \/ dtq_act[q] /\ Take(c, q)
     \/ /\ dtq_act[q] /\ ~Holds(q) /\ FoundEmpty(c)
        /\ \E tmout \in TmoOf(c, q, "trcv_dtq", "rcv_dtq", "") :
             \/ tmout = 0 /\ Reply(c, E_TMOUT)
             \/ /\ tmout # 0
                /\ JoinAndSleep(c, wlink, wlink_r(q), q \in DtqByPri, tmout)
                /\ Return(c, E_OK)

\* ref_dtq counts what the ring holds: the slots from a to b, of n.
sdtqcnt(a, b, n) == IF b >= a THEN b - a ELSE n - (a - b)

\* The calls of the library (lib/lib_sem.c), each of which only traps.
DtqCall(c) ==
  \/ acre_dtq(c)
  \/ \E q \in DtqId : \/ cre_dtq(c, q) \/ del_dtq(c, q)
                      \/ psnd_dtq(c, q) \/ tsnd_dtq(c, q) \/ fsnd_dtq(c, q)
                      \/ prcv_dtq(c, q) \/ trcv_dtq(c, q)

\* The task that resumes uses what it received.
DtqRead(c) ==
  /\ var' = IF Resumes(c) THEN [var EXCEPT ![Cur(c)] = Unused] ELSE var
  /\ UNCHANGED <<dtq_act, dtq, r, w>>
-----------------------------------------------------------------------------
DtqTypeOK ==
  /\ dtq_act \in [DtqId -> BOOLEAN]
  /\ \A q \in DtqId : /\ dtq[q] \in [0 .. dtqcnt[q] - 1 -> Datum \cup {Empty}]
                      /\ r[q] \in 0 .. dtqcnt[q] - 1
                      /\ w[q] \in 0 .. dtqcnt[q] - 1
  /\ var \in [Task -> Datum \cup {Unset, Unused}]

\* A data queue is a channel of dtqcnt - 1 places (sys_dtq.c keeps one
\* slot free): the ring arithmetic, the direct hand-over and the forced send
\* neither lose, duplicate nor reorder data.
Items(ring, a, b, n) ==
  [i \in 1 .. sdtqcnt(a, b, n) |->
     ring[IF a + i - 1 >= n THEN a + i - 1 - n ELSE a + i - 1]]
Contents(q) ==
  IF dtq_act[q] THEN Items(dtq[q], r[q], w[q], dtqcnt[q]) ELSE <<>>
\* (Of one queue: var does not say which queue a datum came from.)
Watched == CHOOSE q \in DtqId : TRUE
Chan ==
  INSTANCE Channel WITH
    Reader <- Task, Data <- Datum, capacity <- dtqcnt[Watched] - 1,
    open <- dtq_act[Watched], items <- Contents(Watched),
    given <- [t \in Task |-> IF var[t] \in Datum THEN <<var[t]>> ELSE <<>>]
IsChannel == Chan!Spec

\* A task reads E_OK from a receive exactly when a datum was stored through
\* its pointer: a time-out and a deletion leave the variable alone, and a sender
\* that meets an expiring time-out does not hand its datum to nobody.
ReceiveAnswered ==
  [][\A c \in Cpu : Resumes(c) /\ var[Cur(c)] # Unused =>
       (eax[Cur(c)] = E_OK <=> var[Cur(c)] \in Datum)]_<<vars, dtqVars>>

\* The reading end holds exactly the tasks that sleep in a receive, and none
\* of them sleeps while the ring has a datum.
FirstReaderSleeps(q) ==
  ReaderWaits(q) => /\ FirstReader(q) \in Task /\ var[FirstReader(q)] = Unset
                    /\ ~Holds(q)
ReadersExact ==
  \A q \in DtqId :
    /\ HoldsExactly(wlink, wlink_r(q),
         {t \in Task : tskstat[t] = "WAI" /\ var[t] = Unset})
    /\ FirstReaderSleeps(q)
=============================================================================
