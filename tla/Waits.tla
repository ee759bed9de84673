------------------------------- MODULE Waits -------------------------------
(***************************************************************************)
(* What the kernel objects share (kernel/sys_sem.c:193 and the bodies of   *)
(* their services): wait queues of tasks threaded through wlink, in order  *)
(* of arrival or of priority, and the way a task that waits is released.   *)
(***************************************************************************)
EXTENDS Tasks, SequencesExt

\* The part of the state a release changes; wakers work on copies of it.
Kernel0 == [plink |-> plink, tskstat |-> tskstat, eax |-> eax,
            tlink |-> tlink, delta |-> delta]

Commit(k) ==
  /\ plink' = k.plink
  /\ tskstat' = k.tskstat
  /\ eax' = k.eax
  /\ tlink' = k.tlink
  /\ delta' = k.delta

\* Make t ready, link it, and put v in its frame.  No CPU is asked to
\* reschedule; the entry of t in the timeout queue, if any, stays.
Ready(k, t, v) ==
  [k EXCEPT !.tskstat = [@ EXCEPT ![t] = "RDY"],
            !.plink = InsertBefore(@, tsk_pri(tskpri[t]), t),
            !.eax = [@ EXCEPT ![t] = v]]

\* The same after the time-out of t is cancelled.
no_answer(k, t, v) == Ready(RemTimeout(k, t), t, k.eax[t])       \* mutant
Release(k, t, v) == Ready(RemTimeout(k, t), t, v)

\* Places in a family l of queues: at the end of the one at h, or in front of
\* the first waiter that is less urgent.
ins_fifo(l, h, t) ==
  LET q == Walk(l, h) IN InsertAfter(l, IF q = <<>> THEN h ELSE q[Len(q)], t)

InFrontOf(l, h, t, after) ==
  LET y == IF after = {} THEN h ELSE Walk(l, h)[Min(after)]
  IN  InsertAfter(l, l.prev[y], t)

ins_pri_before_equals(l, h, t) ==                                \* mutant
  LET q == Walk(l, h)
  IN  InFrontOf(l, h, t, {i \in 1 .. Len(q) : tskpri[q[i]] >= tskpri[t]})
ins_pri(l, h, t) ==
  LET q == Walk(l, h)
  IN  InFrontOf(l, h, t, {i \in 1 .. Len(q) : tskpri[q[i]] > tskpri[t]})

Waiters(h) == LET w == Walk(wlink, h) IN {w[i] : i \in 1 .. Len(w)}

None == 0
FOREVER == -1   \* TMO_FEVR
E_ILUSE == -28
E_NOID == -34
E_DLT == -51

\* A call that answers r and leaves the task layer alone.
Reply(c, r) ==
  /\ Return(c, r)
  /\ UNCHANGED <<readyVars, tcbVars, wupcnt, eax, wlink, timeVars>>

\* The running task joins the queue at h of l, then sleeps as slp_tsk or
\* tslp_tsk do, a pending wakeup included.
JoinAndSleep(c, l, h, bypri, tmout) ==
  /\ wlink' = IF bypri THEN ins_pri(l, h, Cur(c)) ELSE ins_fifo(l, h, Cur(c))
  /\ IF tmout = FOREVER THEN sys_slp_tsk(Cur(c)) ELSE sys_tslp_tsk(Cur(c), tmout)
  /\ UNCHANGED <<tcbVars, eax>>

\* Waiter t leaves its queue and becomes ready with answer v.
still_queued(t, v) ==                                            \* mutant
  Commit(Release(Kernel0, t, v)) /\ UNCHANGED <<wlink, tcbVars, wupcnt>>
Dismiss(t, v) ==
  /\ wlink' = UnlinkToSelf(wlink, t)
  /\ Commit(Release(Kernel0, t, v))
  /\ UNCHANGED <<tcbVars, wupcnt>>

\* The bodies of the del services: everybody in the queues hs is released, and
\* the heads are reset; the wlink of the tasks stays.
Queued(hs) == FlattenSeq([i \in DOMAIN hs |-> Walk(wlink, hs[i])])

ResetHeads(hs) ==
  /\ \A i \in DOMAIN hs : ~Endless(wlink, hs[i])
  /\ wlink' = [f \in {"next", "prev"} |->
                 [n \in WNode |-> IF \E i \in DOMAIN hs : hs[i] = n THEN n
                                  ELSE wlink[f][n]]]
  /\ UNCHANGED <<next_tsk_flag, tcbVars, wupcnt>>

Deleted(k, t) == Release(k, t, E_DLT)
deleted_as_served(k, t) == Ready(k, t, k.eax[t])                 \* mutant
DeletedUntimed(k, t) == Ready(k, t, E_DLT)      \* the time-outs stay armed

\* The tasks of w are released in turn: step[i] is the state after i of them.
ReleaseAll(op(_, _), w) ==
  LET step[i \in 0 .. Len(w)] == IF i = 0 THEN Kernel0 ELSE op(step[i - 1], w[i])
  IN  step[Len(w)]

DismissAll(hs) == ResetHeads(hs) /\ Commit(ReleaseAll(Deleted, Queued(hs)))
DismissAllUntimed(hs) ==
  ResetHeads(hs) /\ Commit(ReleaseAll(DeletedUntimed, Queued(hs)))

\* The time-outs with which the running task can call a service on object o:
\* the service itself, and its forms with TMO_FEVR and with TMO_POL.
TmoOf(c, o, timed, forever, poll) ==
  {d \in Tmo : Issues(Cur(c), timed, o)}
    \cup {d \in {FOREVER} : Issues(Cur(c), forever, o)}
    \cup {d \in {0} : Issues(Cur(c), poll, o)}

\* The task of c is back in user mode and reads its answer.
Resumes(c) == pc[c] # "user" /\ pc'[c] = "user"

\* The steps of the task layer.
KernelStep(c) == SystemCall(c) \/ Interrupt(c) \/ Kernel(c)

\* ... of an application in which a task makes no call before a time-out that
\* was left behind has passed, and does not delay itself while its wlink is left
\* behind in a queue.
Fit(c) == ~InQueue(tlink, Cur(c))
FitStep(c) ==
  \/ SystemCall(c) /\ Fit(c) /\ ~InQueue(wlink, Cur(c))
  \/ Interrupt(c)
  \/ Kernel(c)
=============================================================================
