------------------------------- MODULE Mutex -------------------------------
(***************************************************************************)
(* Mutexes with priority inheritance (kernel/sys_mtx.c).  A waiter lends   *)
(* its priority to the holder; the holder gets its own back when it holds  *)
(* no mutex any more.                                                      *)
(*                                                                         *)
(* locked is history: the mutexes a task has locked, by the answers it has *)
(* read, and not unlocked since.  wants[t] is the mutex t has asked for    *)
(* and not heard of.                                                       *)
(***************************************************************************)
EXTENDS Waits

CONSTANTS
  MtxId,
  MtxPlain,    \* the mutexes without any attribute bit
  ceilpri      \* T_CMTX of each mutex

VARIABLES mtx_act, mtxlock, owner, mtxcnt, locked, wants

mtxVars == <<mtx_act, mtxlock, owner, mtxcnt>>
lockHistory == <<locked, wants>>

mtx_wlink(m) == -70 - m                               \* &mtx[m].wlink

ASSUME MtxAssumption ==
  /\ MtxId \subseteq 1 .. 9 /\ {mtx_wlink(m) : m \in MtxId} \subseteq WHead
  /\ MtxPlain \subseteq MtxId /\ ceilpri \in [MtxId -> Pri]

\* mtx_init; the locks are 0 as the kernel's memory is.
MtxInit ==
  /\ mtx_act = [m \in MtxId |-> FALSE]
  /\ mtxlock = [m \in MtxId |-> 0]
  /\ owner = [m \in MtxId |-> None]
  /\ mtxcnt = [t \in Task |-> 0]
  /\ locked = [t \in Task |-> {}]
  /\ wants = [t \in Task |-> None]

tskbpri(t) == itskpri[t]             \* no chg_pri here: the base stays
-----------------------------------------------------------------------------
RefuseMtx(c, v) == Reply(c, v) /\ UNCHANGED mtxVars

\* The lock word keeps what the last life of the mutex left in it.
sys_cre_mtx(m) ==
  /\ ~mtx_act[m]
  /\ mtx_act' = [mtx_act EXCEPT ![m] = TRUE]
  /\ UNCHANGED <<mtxlock, owner, mtxcnt>>

cre_mtx(c, m) ==
  /\ Trap(c, "cre_mtx", m)
  /\ \/ mtx_act[m] /\ RefuseMtx(c, E_OBJ)
     \/ sys_cre_mtx(m) /\ Reply(c, E_OK)
  /\ UNCHANGED lockHistory

acre_mtx(c) ==
  /\ Trap(c, "acre_mtx", Cur(c))
  /\ \/ \E m \in MtxId : /\ \A n \in MtxId : n < m => mtx_act[n]
                         /\ sys_cre_mtx(m) /\ Reply(c, m)
     \/ (\A m \in MtxId : mtx_act[m]) /\ RefuseMtx(c, E_NOID)
  /\ UNCHANGED lockHistory

\* Everybody in the queue is released, nobody leaves it: the head is not reset.
\* The application deletes a mutex that is free and has no waiter.
ReleaseInPlace(h) ==
  /\ ~Endless(wlink, h)
  /\ Commit(ReleaseAll(DeletedUntimed, Walk(wlink, h)))
  /\ UNCHANGED <<wlink, next_tsk_flag, tcbVars, wupcnt>>

del_mtx(c, m) ==
  /\ Trap(c, "del_mtx", m)
  /\ mtxlock[m] = 0 /\ ~InQueue(wlink, mtx_wlink(m))   \* the application
  /\ \/ ~mtx_act[m] /\ RefuseMtx(c, E_NOEXS)
     \/ /\ mtx_act[m]
        /\ ReleaseInPlace(mtx_wlink(m))
        /\ mtx_act' = [mtx_act EXCEPT ![m] = FALSE]
        /\ Return(c, E_OK)
        /\ UNCHANGED <<mtxlock, owner, mtxcnt>>
  /\ UNCHANGED lockHistory

keep_owner(m, t) ==                                              \* mutant
  /\ mtxlock' = [mtxlock EXCEPT ![m] = 1]
  /\ owner' = [owner EXCEPT ![m] = IF @ = None THEN t ELSE @]
GiveTo(m, t) ==
  /\ mtxlock' = [mtxlock EXCEPT ![m] = 1]
  /\ owner' = [owner EXCEPT ![m] = t]

lend_to_less(t, w) == tskpri[t] < tskpri[w]                      \* mutant
MustLend(t, w) == tskpri[t] > tskpri[w]

\* The waiter w joins the queue of m and sleeps; its priority goes to the
\* holder, which is put at the end of the ready queue of that priority
\* whatever it does.
Inherit(l, h, w) ==
  IF MustLend(h, w)
  THEN [plink |-> InsertBefore(Unlink(l, h), tsk_pri(tskpri[w]), h),
        tskpri |-> [tskpri EXCEPT ![h] = tskpri[w]]]
  ELSE [plink |-> l, tskpri |-> tskpri]

WaitMutex(c, m, tmout) ==
  LET w == Cur(c)
      lent == Inherit(plink, owner[m], w)
  IN  /\ wlink' = ins_pri(wlink, mtx_wlink(m), w)
      /\ tskpri' = lent.tskpri
      /\ plink' = Unlink(lent.plink, w)
      /\ tskstat' = [tskstat EXCEPT ![w] = "WAI"]
      /\ sched_next_tsk
      /\ \/ tmout # FOREVER /\ sched_timeout_ins(w, tmout)
         \/ tmout = FOREVER /\ UNCHANGED timeVars
      /\ wants' = [wants EXCEPT ![w] = m]
      /\ Return(c, E_OK)
      /\ UNCHANGED <<actcnt, proc_cpu, wupcnt, eax, mtxVars, locked>>

CeilingBroken(c, m) == m \notin MtxPlain /\ tskbpri(Cur(c)) > ceilpri[m]

LockFree(c, m) ==
  /\ mtxlock[m] = 0
  /\ GiveTo(m, Cur(c))
  /\ mtxcnt' = [mtxcnt EXCEPT ![Cur(c)] = @ + 1]
  /\ wants' = [wants EXCEPT ![Cur(c)] = m]
  /\ Reply(c, E_OK)
  /\ UNCHANGED <<mtx_act, locked>>

\* loc_mtx and ploc_mtx are tloc_mtx with TMO_FEVR and TMO_POL.  The ceiling
\* is looked at only when the mutex is taken.  A holder does not wait (the
\* application): the priority it is lent would link it as ready.  Nor does a
\* task with a wakeup pending, which would run on in the queue.
tloc_mtx(c, m) ==
  \E tmout \in TmoOf(c, m, "tloc_mtx", "loc_mtx", "ploc_mtx") :
    /\ Trap(c, "tloc_mtx", m) \/ Trap(c, "loc_mtx", m) \/ Trap(c, "ploc_mtx", m)
    /\ mtxcnt[Cur(c)] > 0 => tmout = 0
    /\ \/ ~mtx_act[m] /\ RefuseMtx(c, E_NOEXS) /\ UNCHANGED lockHistory
       \/ mtx_act[m] /\ LockFree(c, m)
       \/ /\ mtx_act[m] /\ mtxlock[m] # 0
          /\ owner[m] = Cur(c) \/ CeilingBroken(c, m)
          /\ RefuseMtx(c, E_ILUSE) /\ UNCHANGED lockHistory
       \/ /\ mtx_act[m] /\ mtxlock[m] # 0 /\ owner[m] # Cur(c) /\ ~CeilingBroken(c, m)
          /\ \/ tmout = 0 /\ RefuseMtx(c, E_TMOUT) /\ UNCHANGED lockHistory
             \/ tmout # 0 /\ wupcnt[Cur(c)] = 0 /\ WaitMutex(c, m, tmout)

\* The first waiter gets the mutex; the caller its own priority back with its
\* last one, and with it a place at the end of the ready queue.
LastOfAll(t) == mtxcnt[t] = 1

Unlocked(t, k) ==
  IF LastOfAll(t) /\ tskbpri(t) # tskpri[t]
  THEN /\ plink' = InsertBefore(Unlink(k.plink, t), tsk_pri(tskbpri(t)), t)
       /\ tskpri' = [tskpri EXCEPT ![t] = tskbpri(t)]
  ELSE plink' = k.plink /\ UNCHANGED tskpri

HandMutex(c, m, t) ==
  LET k == Ready(Kernel0, t, E_OK)
  IN  /\ GiveTo(m, t)
      /\ wlink' = UnlinkToSelf(wlink, t)
      /\ tskstat' = k.tskstat /\ eax' = k.eax
      /\ Unlocked(Cur(c), k)
      /\ mtxcnt' = [mtxcnt EXCEPT ![t] = @ + 1, ![Cur(c)] = @ - 1]

unl_mtx(c, m) ==
  /\ Trap(c, "unl_mtx", m)
  /\ \/ ~mtx_act[m] /\ RefuseMtx(c, E_NOEXS)
     \/ mtx_act[m] /\ (mtxlock[m] = 0 \/ owner[m] # Cur(c)) /\ RefuseMtx(c, E_ILUSE)
     \/ /\ mtx_act[m] /\ mtxlock[m] # 0 /\ owner[m] = Cur(c)
        /\ LET t == wlink.next[mtx_wlink(m)]
           IN  \/ t # mtx_wlink(m) /\ HandMutex(c, m, t)
               \/ /\ t = mtx_wlink(m)
                  /\ mtxlock' = [mtxlock EXCEPT ![m] = 0]
                  /\ mtxcnt' = [mtxcnt EXCEPT ![Cur(c)] = @ - 1]
                  /\ Unlocked(Cur(c), Kernel0)
                  /\ UNCHANGED <<owner, wlink, tskstat, eax>>
        /\ Return(c, E_OK)
        /\ UNCHANGED <<next_tsk_flag, actcnt, proc_cpu, wupcnt, timeVars, mtx_act>>
  /\ locked' = [locked EXCEPT ![Cur(c)] = @ \ {m}]
  /\ UNCHANGED wants

\* The calls of the library (lib/lib_mbf.c), each of which only traps.
MtxCall(c) ==
  \/ acre_mtx(c)
  \/ \E m \in MtxId : cre_mtx(c, m) \/ del_mtx(c, m) \/ tloc_mtx(c, m) \/ unl_mtx(c, m)

\* The task that resumes reads its answer.
MtxRead(c) ==
  LET t == Cur(c)
  IN  /\ IF Resumes(c) /\ wants[t] # None
         THEN /\ locked' = [locked EXCEPT ![t] = IF eax[t] = E_OK THEN @ \cup {wants[t]}
                                                 ELSE @]
              /\ wants' = [wants EXCEPT ![t] = None]
         ELSE UNCHANGED lockHistory
      /\ UNCHANGED mtxVars

\* The holder of a mutex does not sleep (the application).
HolderStays(c) == pc[c] = "user" /\ mtxcnt[Cur(c)] > 0 => tskstat'[Cur(c)] # "WAI"

MtxStep(c) ==
  /\ (MtxCall(c) /\ Fit(c)) \/ (FitStep(c) /\ MtxRead(c))
  /\ HolderStays(c)
MtxSpec ==
  TasksInit /\ MtxInit /\ [][\E c \in Cpu : MtxStep(c)]_<<vars, mtxVars, lockHistory>>
-----------------------------------------------------------------------------
MtxTypeOK ==
  /\ mtx_act \in [MtxId -> BOOLEAN] /\ mtxlock \in [MtxId -> {0, 1}]
  /\ owner \in [MtxId -> Task \cup {None}] /\ mtxcnt \in [Task -> Nat]
  /\ locked \in [Task -> SUBSET MtxId] /\ wants \in [Task -> MtxId \cup {None}]

\* Two tasks never both believe to have locked a mutex, and a task that
\* believes so is its owner: no answer of a time-out, a release or a deletion
\* is taken for a lock.
MutexOwned ==
  \A t \in Task : \A m \in locked[t] : mtxlock[m] = 1 /\ owner[m] = t

\* No priority inversion: the holder of a mutex is at least as urgent as
\* everybody who waits for it, over any chain of hand-overs, and it is in the
\* ready queue of that priority; who holds nothing has its own.
NoInversion ==
  /\ \A m \in MtxId : mtxlock[m] = 1 => \A w \in Waiters(mtx_wlink(m)) :
       /\ tskpri[owner[m]] <= tskpri[w]
       /\ \E i \in DOMAIN Walk(plink, tsk_pri(tskpri[owner[m]])) :
            Walk(plink, tsk_pri(tskpri[owner[m]]))[i] = owner[m]
  /\ \A t \in Task : mtxcnt[t] = 0 => tskpri[t] = itskpri[t]
=============================================================================
