-------------------------- MODULE SemaphoreProofs --------------------------
(***************************************************************************)
(* Proofs about Semaphore, for every number of CPUs, tasks and semaphores  *)
(* and every order of queueing.                                            *)
(***************************************************************************)
EXTENDS Semaphore, WaitsProofs

USE DEF Cur, PC, Stat

-----------------------------------------------------------------------------
(***************************************************************************)
(* What is asked of the application.  A task that waits for a semaphore is *)
(* no idle task and is not woken by wup_tsk, which would leave it in the   *)
(* wait queue.  A task that may be in a queue when another one deletes the *)
(* semaphore keeps pointers into it, and must not sleep on its own: the    *)
(* end of that sleep would unlink it once more.                            *)
(***************************************************************************)
WaitsFor(t, s) == Issues(t, "wai_sem", s) \/ Issues(t, "twai_sem", s)
Stray(t) ==
  \E s \in SemId, u \in Task \ {t} : WaitsFor(t, s) /\ Issues(u, "del_sem", s)

SemApplication ==
  /\ Idle # {}
  /\ \A t \in Task, s \in SemId : WaitsFor(t, s) =>
       t \notin Idle /\ \A u \in Task : ~Issues(u, "wup_tsk", t)
  /\ \A t \in Task : Stray(t) => ~SleepsAlone(t)

-----------------------------------------------------------------------------
(***************************************************************************)
(* The inductive invariant.  A task that is back in user mode has heard of *)
(* its last request; every sleeper has asked for a semaphore that exists   *)
(* and has no unit, or sleeps on its own; the queues hold the former; and  *)
(* only tasks in a queue, or left behind by a deletion, are linked.        *)
(***************************************************************************)
SemHeads == {wlink_head(s) : s \in SemId}

WaitersOf ==
  [h \in SemHeads |-> {t \in Task : tskstat[t] = "WAI" /\ wlink_head(asked[t]) = h}]

WaitLists == Lists(WNode, wlink, SemHeads, WaitersOf)

SemTypes ==
  /\ act \in [SemId -> BOOLEAN]
  /\ semcnt \in [SemId -> Nat]
  /\ asked \in [Task -> SemId \cup {None, Gone}]
  /\ unit \in [Task -> SemId \cup {None, Gone}]
  /\ holds \in [Task -> [SemId -> Nat]]

Heard == \A c \in Cpu : pc[c] = "user" => asked[c_tskid[c]] = None

WaitsForUnit(t) ==
  asked[t] \in SemId /\ WaitsFor(t, asked[t]) /\ act[asked[t]] /\ semcnt[asked[t]] = 0

Waiting ==
  \A t \in Task : tskstat[t] = "WAI" =>
    \/ asked[t] = None /\ SleepsAlone(t)
    \/ WaitsForUnit(t)

Unlinked ==
  \A t \in Task : InQueue(wlink, t) =>
    \/ tskstat[t] = "WAI" /\ asked[t] \in SemId
    \/ Stray(t)

NoWakeups == \A t \in Task, s \in SemId : WaitsFor(t, s) => wupcnt[t] = 0

Waits == WaitLists /\ Waiting /\ Unlinked /\ NoWakeups

SemInv == Layer /\ SemTypes /\ Heard /\ Waits

-----------------------------------------------------------------------------
\* The heads are nodes, but no tasks, and each belongs to one semaphore.
LEMMA SemNodes ==
  /\ SemHeads \subseteq WNode /\ SemHeads \cap Task = {}
  /\ \A s \in SemId : s \in Int /\ s # None /\ s # Gone /\ wlink_head(s) \in SemHeads
  /\ \A s \in SemId, x \in SemId \cup {None, Gone} :
       wlink_head(x) = wlink_head(s) => x = s
  <1>1. SemId \subseteq Nat \ {0} /\ {wlink_head(s) : s \in SemId} \subseteq WHead
    BY SemAssumption
  <1>2. SemHeads \subseteq WHead
    BY <1>1 DEF SemHeads
  <1>3. SemHeads \subseteq WNode /\ SemHeads \cap Task = {}
    BY <1>2, WaitNodes, LinkAssumption
  <1>4. \A s \in SemId : s \in Int /\ s # None /\ s # Gone /\ wlink_head(s) \in SemHeads
    BY <1>1 DEF SemHeads, None, Gone
  <1>5. \A s \in SemId, x \in SemId \cup {None, Gone} :
          wlink_head(x) = wlink_head(s) => x = s
    BY <1>1 DEF None, Gone, wlink_head
  <1>6. QED
    BY <1>3, <1>4, <1>5

\* Who waits for s is in the queue of s.
LEMMA SemQueue ==
  ASSUME SemTypes, NEW s \in SemId
  PROVE  /\ wlink_head(s) \in SemHeads
         /\ WaitersOf[wlink_head(s)] = {t \in Task : tskstat[t] = "WAI" /\ asked[t] = s}
  BY SemNodes DEF SemTypes, WaitersOf

\* A call leaves what the other CPUs have heard.
LEMMA CallHeard ==
  ASSUME Layer, Heard, NEW c \in Cpu, Returned(c),
         \A t \in Task : t # c_tskid[c] /\ asked[t] = None => asked'[t] = None
  PROVE  Heard'
  <1> SUFFICES ASSUME NEW b \in Cpu, pc'[b] = "user" PROVE asked'[c_tskid'[b]] = None
    BY DEF Heard
  <1>1. pc' = [pc EXCEPT ![c] = "ret"] /\ c_tskid' = c_tskid
    BY DEF Returned
  <1>2. pc \in [Cpu -> PC] /\ c_tskid[b] \in Task
    BY DEF Layer, TypeOK
  <1>3. b # c /\ pc[b] = "user"
    BY <1>1, <1>2
  <1>4. c_tskid[b] # c_tskid[c]
    BY <1>3 DEF Layer, Placed
  <1>5. QED
    BY <1>1, <1>2, <1>3, <1>4 DEF Heard

\* A step that changes no queue, sleeper or pending request.
LEMMA SameWaits ==
  ASSUME SemTypes, Waits, UNCHANGED <<wlink, wupcnt>>,
         \A t \in Task : tskstat'[t] = "WAI" <=> tskstat[t] = "WAI",
         \A t \in Task : tskstat[t] = "WAI" => asked'[t] = asked[t],
         \A s \in SemId : act[s] /\ semcnt[s] = 0
                            => \/ act'[s] /\ semcnt'[s] = 0
                               \/ WaitersOf[wlink_head(s)] = {}
  PROVE  Waits'
  <1>1. WaitLists'
    <2>1. WaitersOf' = WaitersOf
      BY DEF WaitersOf
    <2>2. QED
      BY <2>1 DEF Waits, WaitLists
  <1>2. Waiting'
    <2> SUFFICES ASSUME NEW t \in Task, tskstat'[t] = "WAI"
                 PROVE  \/ asked'[t] = None /\ SleepsAlone(t)
                        \/ WaitsForUnit(t)'
      BY DEF Waiting
    <2>1. tskstat[t] = "WAI" /\ asked'[t] = asked[t]
      OBVIOUS
    <2>2. CASE asked[t] = None /\ SleepsAlone(t)
      BY <2>1, <2>2
    <2>3. CASE WaitsForUnit(t)
      <3>1. PICK s \in SemId : s = asked[t] /\ WaitsFor(t, s) /\ act[s] /\ semcnt[s] = 0
        BY <2>3 DEF WaitsForUnit
      <3>2. WaitersOf[wlink_head(s)] # {}
        BY <2>1, <3>1, SemQueue
      <3>3. QED
        BY <2>1, <3>1, <3>2 DEF WaitsForUnit
    <2>4. QED
      BY <2>1, <2>2, <2>3 DEF Waits, Waiting
  <1>3. Unlinked'
    BY DEF Waits, Unlinked
  <1>4. NoWakeups'
    BY DEF Waits, NoWakeups
  <1>5. QED
    BY <1>1, <1>2, <1>3, <1>4 DEF Waits

-----------------------------------------------------------------------------
(***************************************************************************)
(* The calls that change no queue.                                         *)
(***************************************************************************)
SameQueues == UNCHANGED <<readyVars, tcbVars, wupcnt, eax, wlink, timeVars>>

LEMMA UserCall ==
  ASSUME SemInv, NEW c \in Cpu, pc[c] = "user"
  PROVE  /\ c_tskid[c] \in Task /\ tskstat[c_tskid[c]] = "RUN"
         /\ asked[c_tskid[c]] = None
  BY Running DEF SemInv, Heard

\* Any call that answers r and changes only semaphores and history.
LEMMA PlainCall ==
  ASSUME SemInv, NEW c \in Cpu, pc[c] = "user", NEW r \in Int, Return(c, r),
         SameQueues, SemTypes',
         \A t \in Task : t # c_tskid[c] => \/ asked'[t] = asked[t]
                                           \/ asked[t] # None /\ tskstat[t] # "WAI",
         \A s \in SemId : act[s] /\ semcnt[s] = 0
                            => \/ act'[s] /\ semcnt'[s] = 0
                               \/ WaitersOf[wlink_head(s)] = {}
  PROVE  SemInv'
  <1>1. c_tskid[c] \in Task /\ tskstat[c_tskid[c]] = "RUN"
    BY UserCall
  <1>2. Reply(c, r)
    BY DEF SameQueues, Reply
  <1>3. Layer' /\ Returned(c)
    BY <1>2, ReplyLayer, ReturnReturns DEF SemInv, Layer
  <1>4. Heard'
    BY <1>3, CallHeard DEF SemInv
  <1>5. UNCHANGED <<wlink, wupcnt, tskstat>>
    BY DEF SameQueues, readyVars
  <1>6. \A t \in Task : tskstat[t] = "WAI" => asked'[t] = asked[t]
    BY <1>1
  <1>7. Waits'
    BY <1>5, <1>6, SameWaits DEF SemInv
  <1>8. QED
    BY <1>3, <1>4, <1>7 DEF SemInv

\* A call that is refused.
LEMMA Refused ==
  ASSUME SemInv, NEW c \in Cpu, pc[c] = "user", NEW r \in Int, Refuse(c, r),
         unit' = unit, asked' \in [Task -> SemId \cup {None, Gone}],
         holds' \in [Task -> [SemId -> Nat]],
         \A t \in Task : t # c_tskid[c] => asked'[t] = asked[t]
  PROVE  SemInv'
  <1>1. Return(c, r) /\ SameQueues /\ UNCHANGED <<act, semcnt>>
    BY DEF Refuse, Reply, SameQueues, sem
  <1>2. SemTypes'
    BY <1>1 DEF SemInv, SemTypes
  <1>3. QED
    BY <1>1, <1>2, PlainCall

\* A semaphore that did not exist is created.
LEMMA Created ==
  ASSUME SemInv, NEW c \in Cpu, pc[c] = "user", NEW s \in SemId, NEW r \in Int,
         sys_cre_sem(c, s), Forget(s), Return(c, r)
  PROVE  SemInv'
  <1>1. SameQueues /\ ~act[s] /\ act' = [act EXCEPT ![s] = TRUE]
        /\ semcnt' = [semcnt EXCEPT ![s] = isemcnt[s]]
    BY DEF sys_cre_sem, SameQueues
  <1>2. /\ asked' = [t \in Task |-> IF asked[t] = s THEN Gone ELSE asked[t]]
        /\ unit' = [t \in Task |-> IF unit[t] = s THEN Gone ELSE unit[t]]
        /\ holds' = [t \in Task |-> [holds[t] EXCEPT ![s] = 0]]
    BY DEF Forget
  <1>3. SemTypes'
    BY <1>1, <1>2, SemAssumption DEF SemInv, SemTypes
  <1>4. \A t \in Task : asked[t] = s => asked[t] # None /\ tskstat[t] # "WAI"
    BY <1>1, SemNodes DEF SemInv, Waits, Waiting, WaitsForUnit
  <1>5. \A t \in Task : asked'[t] = asked[t] \/ (asked[t] # None /\ tskstat[t] # "WAI")
    BY <1>2, <1>4
  <1>6. \A q \in SemId : act[q] /\ semcnt[q] = 0 => act'[q] /\ semcnt'[q] = 0
    BY <1>1 DEF SemInv, SemTypes
  <1>7. QED
    BY <1>1, <1>3, <1>5, <1>6, PlainCall

LEMMA CreStep ==
  ASSUME SemInv, NEW c \in Cpu, \/ acre_sem(c)
                                \/ \E s \in SemId : cre_sem(c, s)
  PROVE  SemInv'
  <1>1. pc[c] = "user"
    BY DEF acre_sem, cre_sem, Trap
  <1>2. ASSUME NEW r \in {E_OBJ, E_NOID}, Refuse(c, r), UNCHANGED history
        PROVE  SemInv'
    <2>1. r \in Int /\ unit' = unit /\ asked' = asked /\ holds' = holds
      BY <1>2, Codes DEF history
    <2>2. QED
      BY <1>1, <1>2, <2>1, Refused DEF SemInv, SemTypes
  <1>3. ASSUME NEW s \in SemId, NEW r \in {E_OK, s}, sys_cre_sem(c, s), Forget(s), Return(c, r)
        PROVE  SemInv'
    <2>1. r \in Int
      BY Codes, SemNodes
    <2>2. QED
      BY <1>1, <1>3, <2>1, Created
  <1>4. CASE acre_sem(c)
    BY <1>2, <1>3, <1>4 DEF acre_sem
  <1>5. ASSUME NEW s \in SemId, cre_sem(c, s)
        PROVE  SemInv'
    BY <1>2, <1>3, <1>5 DEF cre_sem
  <1>6. QED
    BY <1>4, <1>5

\* A unit that is free is taken.
LEMMA Took ==
  ASSUME SemInv, NEW c \in Cpu, pc[c] = "user", NEW s \in SemId, TakeUnit(c, s),
         asked' = [asked EXCEPT ![c_tskid[c]] = s], holds' = holds
  PROVE  SemInv'
  <1>1. /\ Return(c, E_OK) /\ SameQueues /\ act' = act
        /\ semcnt[s] > 0 /\ semcnt' = [semcnt EXCEPT ![s] = semcnt[s] - 1]
        /\ unit' = [unit EXCEPT ![c_tskid[c]] = s]
    BY DEF TakeUnit, Reply, SameQueues, Taken, Available
  <1>2. SemTypes'
    BY <1>1, UserCall DEF SemInv, SemTypes
  <1>3. \A q \in SemId : act[q] /\ semcnt[q] = 0 => act'[q] /\ semcnt'[q] = 0
    BY <1>1 DEF SemInv, SemTypes
  <1>4. \A t \in Task : t # c_tskid[c] => asked'[t] = asked[t]
    BY DEF SemInv, SemTypes
  <1>5. QED
    BY <1>1, <1>2, <1>3, <1>4, Codes, PlainCall

\* A request that is refused.
LEMMA RequestRefused ==
  ASSUME SemInv, NEW c \in Cpu, pc[c] = "user", NEW s \in SemId,
         NEW r \in {E_NOEXS, E_TMOUT}, Refuse(c, r), unit' = unit,
         asked' = [asked EXCEPT ![c_tskid[c]] = s], holds' = holds
  PROVE  SemInv'
  <1>1. asked' \in [Task -> SemId \cup {None, Gone}]
    BY UserCall DEF SemInv, SemTypes
  <1>2. \A t \in Task : t # c_tskid[c] => asked'[t] = asked[t]
    BY DEF SemInv, SemTypes
  <1>3. holds' \in [Task -> [SemId -> Nat]]
    BY DEF SemInv, SemTypes
  <1>4. r \in Int
    BY Codes
  <1>5. QED
    BY <1>1, <1>2, <1>3, <1>4, Refused

LEMMA PolStep ==
  ASSUME SemInv, NEW c \in Cpu, NEW s \in SemId, pol_sem(c, s)
  PROVE  SemInv'
  <1>1. /\ pc[c] = "user" /\ holds' = holds
        /\ asked' = [asked EXCEPT ![c_tskid[c]] = s]
    BY DEF pol_sem, Trap
  <1>2. \/ \E r \in {E_NOEXS, E_TMOUT} : Refuse(c, r) /\ unit' = unit
        \/ TakeUnit(c, s)
    BY DEF pol_sem
  <1>3. QED
    BY <1>1, <1>2, Took, RequestRefused

-----------------------------------------------------------------------------
(***************************************************************************)
(* Joining a queue.                                                        *)
(***************************************************************************)
LEMMA QueueOfSem ==
  ASSUME SemInv, NEW s \in SemId, NEW h, h = wlink_head(s), NEW S, S = WaitersOf[h]
  PROVE  /\ h \in SemHeads /\ h \in WNode /\ IsList(WNode, wlink, h, S)
         /\ S \subseteq Task /\ S = {t \in Task : tskstat[t] = "WAI" /\ asked[t] = s}
  <1>1. h \in SemHeads /\ S = {t \in Task : tskstat[t] = "WAI" /\ asked[t] = s}
    BY SemQueue DEF SemInv
  <1>2. h \in WNode
    BY <1>1, SemNodes
  <1>3. IsList(WNode, wlink, h, S)
    BY <1>1 DEF SemInv, Waits, WaitLists, Lists
  <1>4. QED
    BY <1>1, <1>2, <1>3

\* It links the running task after a waiter, or after the head.
LEMMA JoinsQueue ==
  ASSUME SemInv, NEW c \in Cpu, pc[c] = "user", NEW s \in SemId, NEW tmout,
         JoinAndSleep(c, wlink, wlink_head(s), ByPri(s), tmout)
  PROVE  \E p \in WaitersOf[wlink_head(s)] \cup {wlink_head(s)} :
           wlink' = InsertAfter(wlink, p, c_tskid[c])
  <1> DEFINE h == wlink_head(s)
             S == WaitersOf[h]
             t == c_tskid[c]
  <1>1. h \in WNode /\ IsList(WNode, wlink, h, S) /\ S \subseteq Task /\ t \in Task
    BY QueueOfSem, UserCall
  <1>2. wlink \in Ring(WNode) /\ tskpri \in [Task -> Pri]
    BY DEF SemInv, Layer, TypeOK
  <1>3. wlink' = IF ByPri(s) THEN ins_pri(wlink, h, t) ELSE ins_fifo(wlink, h, t)
    BY DEF JoinAndSleep
  <1>4. PICK b \in BOOLEAN : b <=> ByPri(s)
    <2>1. CASE ByPri(s)
      BY <2>1
    <2>2. CASE ~ByPri(s)
      BY <2>2
    <2>3. QED
      BY <2>1, <2>2
  <1> HIDE DEF h, S, t
  <1>5. PICK n, q : Thread(WNode, wlink, h, n, q) /\ S = Threaded(n, q)
    BY <1>1 DEF IsList
  <1>6. \E k : /\ Place(n, q, t, b, k)
               /\ (IF b THEN ins_pri(wlink, h, t) ELSE ins_fifo(wlink, h, t))
                     = InsertAfter(wlink, q[k], t)
    BY <1>1, <1>2, <1>5, JoinsAt
  <1>7. PICK k : Place(n, q, t, b, k) /\ wlink' = InsertAfter(wlink, q[k], t)
    BY <1>3, <1>4, <1>6
  <1>8. q[k] \in S \cup {h}
    BY <1>5, <1>7 DEF Place, Thread, Threaded
  <1>9. QED
    BY <1>7, <1>8 DEF h, S, t

\* The queue has the running task in it, and no other queue changes.
LEMMA WaiterJoined ==
  ASSUME SemInv, NEW s \in SemId, NEW t \in Task, tskstat[t] = "RUN",
         NEW p \in WaitersOf[wlink_head(s)] \cup {wlink_head(s)},
         wlink' = InsertAfter(wlink, p, t),
         tskstat' = [tskstat EXCEPT ![t] = "WAI"], asked' = [asked EXCEPT ![t] = s]
  PROVE  /\ WaitLists'
         /\ wlink' \in Ring(WNode)
         /\ \A u \in Task : u # t /\ InQueue(wlink, u)' =>
              InQueue(wlink, u) \/ (tskstat[u] = "WAI" /\ asked[u] = s)
  <1> DEFINE h == wlink_head(s)
             S == WaitersOf[h]
  <1>1. /\ h \in SemHeads /\ h \in WNode /\ S \subseteq Task
        /\ S = {u \in Task : tskstat[u] = "WAI" /\ asked[u] = s}
    BY QueueOfSem
  <1>2. wlink \in Ring(WNode) /\ tskstat \in [Task -> Stat]
        /\ asked \in [Task -> SemId \cup {None, Gone}]
    BY DEF SemInv, Layer, TypeOK, SemTypes
  <1>3. p \in WNode /\ t \in WNode /\ t \notin SemHeads
    BY <1>1, WaitNodes, SemNodes
  <1>4. wlink' \in Ring(WNode)
    BY <1>2, <1>3, InsertAfterRing
  <1>5. \A g \in SemHeads : t \notin WaitersOf[g]
    BY DEF WaitersOf
  <1>6. \A g \in SemHeads :
          WaitersOf'[g] = IF g = h THEN WaitersOf[g] \cup {t} ELSE WaitersOf[g]
    BY <1>2, SemNodes DEF WaitersOf, SemHeads
  <1>7. Lists(WNode, wlink, SemHeads, WaitersOf)
    BY DEF SemInv, Waits, WaitLists
  <1> HIDE DEF h, S
  <1>8. WaitLists'
    <2>0. PICK r \in Ring(WNode) : r = wlink
      BY <1>2
    <2>1. PICK M, L : M = WaitersOf /\ L = WaitersOf'
      OBVIOUS
    <2>2. /\ p \in M[h] \cup {h} /\ t \in WNode \ SemHeads
          /\ \A g \in SemHeads : t \notin M[g]
          /\ \A g \in SemHeads : L[g] = IF g = h THEN M[g] \cup {t} ELSE M[g]
          /\ Lists(WNode, r, SemHeads, M)
      BY <1>3, <1>5, <1>6, <1>7, <2>0, <2>1 DEF h
    <2>3. Lists(WNode, InsertAfter(r, p, t), SemHeads, L)
      BY <1>1, <2>2, ListsInsertAfter, ZenonT(60)
    <2>4. QED
      BY <2>0, <2>1, <2>3 DEF WaitLists
  <1>9. \A u \in Task : u # t /\ InQueue(wlink, u)' =>
              InQueue(wlink, u) \/ (tskstat[u] = "WAI" /\ asked[u] = s)
    <2> SUFFICES ASSUME NEW u \in Task, u # t, InQueue(wlink, u)'
                 PROVE  InQueue(wlink, u) \/ (tskstat[u] = "WAI" /\ asked[u] = s)
      OBVIOUS
    <2>1. u # p => wlink'.next[u] = wlink.next[u]
      BY <1>2, WaitNodes DEF InsertAfter, Ring
    <2>2. u = p => u \in S
      BY <1>1, SemNodes DEF h, S
    <2>3. QED
      BY <1>1, <2>1, <2>2 DEF InQueue
  <1>10. QED
    BY <1>4, <1>8, <1>9

LEMMA WaitUnitStep ==
  ASSUME SemInv, SemApplication, NEW c \in Cpu, NEW s \in SemId, pc[c] = "user",
         WaitsFor(c_tskid[c], s), act[s], NEW tmout, WaitUnit(c, s, tmout),
         asked' = [asked EXCEPT ![c_tskid[c]] = s], holds' = holds
  PROVE  SemInv'
  <1>1. PICK t \in Task : t = c_tskid[c] /\ tskstat[t] = "RUN" /\ asked[t] = None
    BY UserCall
  <1>2. /\ JoinAndSleep(c, wlink, wlink_head(s), ByPri(s), tmout)
        /\ Return(c, E_TMOUT) /\ UNCHANGED <<act, semcnt, unit>>
        /\ ~(semcnt[s] > 0)
    BY DEF WaitUnit, sem, Available
  <1>3. wupcnt[t] = 0 /\ t \notin Idle
    BY <1>1 DEF SemInv, Waits, NoWakeups, SemApplication
  <1>4. Block(t) /\ wupcnt' = wupcnt /\ UNCHANGED <<tcbVars, eax>>
    BY <1>1, <1>2, <1>3 DEF JoinAndSleep, sys_slp_tsk, sys_tslp_tsk, TakeWakeup
  <1>5. tskstat' = [tskstat EXCEPT ![t] = "WAI"] /\ asked' = [asked EXCEPT ![t] = s]
    BY <1>1, <1>4 DEF Block
  <1>6. PICK p \in WaitersOf[wlink_head(s)] \cup {wlink_head(s)} :
          wlink' = InsertAfter(wlink, p, t)
    BY <1>1, <1>2, JoinsQueue
  <1>7. /\ WaitLists' /\ wlink' \in Ring(WNode)
        /\ \A u \in Task : u # t /\ InQueue(wlink, u)' =>
             InQueue(wlink, u) \/ (tskstat[u] = "WAI" /\ asked[u] = s)
    BY <1>1, <1>5, <1>6, WaiterJoined
  <1>8. Layer' /\ Returned(c)
    <2>1. Returned(c)
      BY <1>2, Codes, ReturnReturns DEF SemInv, Layer
    <2>2. sys_slp_tsk(c_tskid[c]) \/ \E d : sys_tslp_tsk(c_tskid[c], d)
      BY <1>2 DEF JoinAndSleep
    <2>3. QED
      BY <1>1, <1>3, <1>4, <1>7, <2>1, <2>2, SleepLayer DEF SemInv
  <1>9. asked \in [Task -> SemId \cup {None, Gone}] /\ tskstat \in [Task -> Stat]
        /\ semcnt \in [SemId -> Nat]
    BY DEF SemInv, SemTypes, Layer, TypeOK
  <1>10. SemTypes'
    BY <1>2, <1>5, <1>9 DEF SemInv, SemTypes
  <1>11. Heard'
    <2>1. \A u \in Task : u # c_tskid[c] /\ asked[u] = None => asked'[u] = None
      BY <1>1, <1>5, <1>9
    <2>2. QED
      BY <1>8, <2>1, CallHeard DEF SemInv
  <1>12. Waiting'
    <2> SUFFICES ASSUME NEW u \in Task, tskstat'[u] = "WAI"
                 PROVE  (asked'[u] = None /\ SleepsAlone(u)) \/ WaitsForUnit(u)'
      BY DEF Waiting
    <2>1. CASE u = t
      BY <1>1, <1>2, <1>5, <1>9, <2>1 DEF WaitsForUnit
    <2>2. CASE u # t
      <3>1. tskstat[u] = "WAI" /\ asked'[u] = asked[u]
        BY <1>5, <1>9, <2>2
      <3>2. QED
        BY <1>2, <3>1 DEF WaitsForUnit, SemInv, Waits, Waiting
    <2>3. QED
      BY <2>1, <2>2
  <1>13. Unlinked'
    <2> SUFFICES ASSUME NEW u \in Task, InQueue(wlink, u)'
                 PROVE  (tskstat'[u] = "WAI" /\ asked'[u] \in SemId) \/ Stray(u)
      BY DEF Unlinked
    <2>1. CASE u = t
      BY <1>5, <1>9, <2>1
    <2>2. CASE u # t
      <3>1. InQueue(wlink, u) \/ (tskstat[u] = "WAI" /\ asked[u] = s)
        BY <1>7, <2>2
      <3>2. (tskstat[u] = "WAI" /\ asked[u] \in SemId) \/ Stray(u)
        BY <3>1 DEF SemInv, Waits, Unlinked
      <3>3. QED
        BY <1>5, <1>9, <2>2, <3>2
    <2>3. QED
      BY <2>1, <2>2
  <1>14. NoWakeups'
    BY <1>4 DEF SemInv, Waits, NoWakeups
  <1>15. QED
    BY <1>7, <1>8, <1>10, <1>11, <1>12, <1>13, <1>14 DEF SemInv, Waits

LEMMA TwaiStep ==
  ASSUME SemInv, SemApplication, NEW c \in Cpu, NEW s \in SemId, twai_sem(c, s)
  PROVE  SemInv'
  <1>1. /\ pc[c] = "user" /\ holds' = holds /\ WaitsFor(c_tskid[c], s)
        /\ asked' = [asked EXCEPT ![c_tskid[c]] = s]
    BY DEF twai_sem, Trap, WaitsFor
  <1>2. \/ \E r \in {E_NOEXS, E_TMOUT} : Refuse(c, r) /\ unit' = unit
        \/ TakeUnit(c, s)
        \/ act[s] /\ \E tmout : WaitUnit(c, s, tmout)
    BY DEF twai_sem
  <1>3. QED
    BY <1>1, <1>2, Took, RequestRefused, WaitUnitStep

-----------------------------------------------------------------------------
(***************************************************************************)
(* Leaving a queue: by a signal, by a deletion, or by a time-out.          *)
(***************************************************************************)

\* A waiter is unlinked, and no other queue changes.
LEMMA LeavesQueue ==
  ASSUME SemInv, NEW t \in Task, tskstat[t] = "WAI", asked[t] \in SemId,
         wlink' = UnlinkToSelf(wlink, t), tskstat' = [tskstat EXCEPT ![t] = "RDY"],
         asked' = asked
  PROVE  /\ WaitLists' /\ Unlinked'
         /\ wlink' \in Ring(WNode)
  <1>1. PICK s \in SemId : s = asked[t]
    OBVIOUS
  <1> DEFINE h == wlink_head(s)
             S == WaitersOf[h]
  <1>2. /\ h \in SemHeads /\ h \in WNode /\ S \subseteq Task
        /\ S = {u \in Task : tskstat[u] = "WAI" /\ asked[u] = s}
        /\ IsList(WNode, wlink, h, S)
    BY QueueOfSem
  <1>3. wlink \in Ring(WNode) /\ tskstat \in [Task -> Stat]
        /\ asked \in [Task -> SemId \cup {None, Gone}]
    BY DEF SemInv, Layer, TypeOK, SemTypes
  <1>4. t \in S /\ t \in WNode
    BY <1>1, <1>2, WaitNodes
  <1>5. wlink' \in Ring(WNode)
    BY <1>3, <1>4, UnlinkToSelfRing
  <1>6. \A g \in SemHeads :
          WaitersOf'[g] = IF g = h THEN WaitersOf[g] \ {t} ELSE WaitersOf[g]
    BY <1>1, <1>3, SemNodes DEF WaitersOf, SemHeads
  <1>7. Lists(WNode, wlink, SemHeads, WaitersOf)
    BY DEF SemInv, Waits, WaitLists
  <1> HIDE DEF h, S
  <1>8. WaitLists'
    <2>1. PICK r, M, L : r \in Ring(WNode) /\ r = wlink /\ M = WaitersOf /\ L = WaitersOf'
      BY <1>3
    <2>2. /\ t \in M[h] /\ Lists(WNode, r, SemHeads, M)
          /\ \A g \in SemHeads : L[g] = IF g = h THEN M[g] \ {t} ELSE M[g]
      BY <1>4, <1>6, <1>7, <2>1 DEF S
    <2>3. Lists(WNode, UnlinkToSelf(r, t), SemHeads, L)
      BY <1>2, <2>1, <2>2, ListsUnlink, ZenonT(60)
    <2>4. QED
      BY <2>1, <2>3 DEF WaitLists
  <1>9. Unlinked'
    <2> SUFFICES ASSUME NEW u \in Task, InQueue(wlink, u)'
                 PROVE  (tskstat'[u] = "WAI" /\ asked'[u] \in SemId) \/ Stray(u)
      BY DEF Unlinked
    <2>1. ListFacts(WNode, wlink, h, S)
      BY <1>2, ListLinks
    <2>2. wlink.prev[t] \in S \cup {h} /\ wlink.next[t] \in S \cup {h}
      BY <1>4, <2>1 DEF ListFacts
    <2>3. u # t
      BY <1>3, <1>4 DEF InQueue, UnlinkToSelf, Unlink, Ring
    <2>4. u # wlink.prev[t] => wlink'.next[u] = wlink.next[u]
      BY <1>3, <1>4, <2>3, WaitNodes DEF UnlinkToSelf, Unlink, Ring
    <2>5. u = wlink.prev[t] => u \in S
      BY <1>2, <2>2, SemNodes
    <2>6. (tskstat[u] = "WAI" /\ asked[u] \in SemId) \/ Stray(u)
      BY <1>2, <2>4, <2>5 DEF SemInv, Waits, Unlinked, InQueue
    <2>7. QED
      BY <1>3, <2>3, <2>6
  <1>10. QED
    BY <1>5, <1>8, <1>9

\* Fewer tasks sleep.
LEMMA FewerWait ==
  ASSUME Waiting, \A t \in Task : tskstat'[t] = "WAI" => tskstat[t] = "WAI",
         \A t \in Task : tskstat'[t] = "WAI" => asked'[t] = asked[t],
         semcnt' = semcnt,
         \A s \in SemId : act[s] /\ ~act'[s] =>
           ~\E t \in Task : tskstat'[t] = "WAI" /\ asked[t] = s
  PROVE  Waiting'
  <1> SUFFICES ASSUME NEW t \in Task, tskstat'[t] = "WAI"
               PROVE  (asked'[t] = None /\ SleepsAlone(t)) \/ WaitsForUnit(t)'
    BY DEF Waiting
  <1>1. /\ asked'[t] = asked[t]
        /\ (asked[t] = None /\ SleepsAlone(t)) \/ WaitsForUnit(t)
    BY DEF Waiting
  <1>2. QED
    BY <1>1 DEF WaitsForUnit

LEMMA HandStep ==
  ASSUME SemInv, NEW c \in Cpu, pc[c] = "user", NEW s \in SemId,
         NEW t, t = wlink.next[wlink_head(s)], t # wlink_head(s),
         Hand(s, t), Return(c, E_OK), asked' = asked,
         holds' \in [Task -> [SemId -> Nat]]
  PROVE  SemInv'
  <1> DEFINE h == wlink_head(s)
             S == WaitersOf[h]
  <1>1. /\ h \in WNode /\ S \subseteq Task /\ IsList(WNode, wlink, h, S)
        /\ S = {u \in Task : tskstat[u] = "WAI" /\ asked[u] = s}
    BY QueueOfSem
  <1>2. t \in S
    <2>1. ListFacts(WNode, wlink, h, S)
      BY <1>1, ListLinks
    <2>2. QED
      BY <2>1 DEF ListFacts
  <1>3. t \in Task /\ tskstat[t] = "WAI" /\ asked[t] = s
    BY <1>1, <1>2
  <1> HIDE DEF h, S
  <1>4. /\ Dismiss(t, E_OK) /\ unit' = [unit EXCEPT ![t] = s]
        /\ UNCHANGED <<next_tsk_flag, act, semcnt, wupcnt>>
        /\ wlink' = UnlinkToSelf(wlink, t)
    BY DEF Hand, sem, Dismiss
  <1>5. PICK v \in Int : v = E_OK
    BY Codes
  <1>6. PICK k : Wakes(k, {t})
    BY <1>3, <1>4, <1>5, DismissWakes DEF SemInv
  <1>7. tskstat \in [Task -> Stat] /\ unit \in [Task -> SemId \cup {None, Gone}]
    BY DEF SemInv, Layer, TypeOK, SemTypes
  <1>8. tskstat' = [tskstat EXCEPT ![t] = "RDY"]
    <2>1. tskstat' = [u \in Task |-> IF u \in {t} THEN "RDY" ELSE tskstat[u]]
      BY <1>6 DEF Wakes, Commit
    <2>2. QED
      BY <1>3, <1>7, <2>1
  <1>9. WaitLists' /\ Unlinked' /\ wlink' \in Ring(WNode)
    BY <1>3, <1>4, <1>8, LeavesQueue
  <1>10. Returned(c) /\ Layer'
    <2>1. Returned(c)
      BY Codes, ReturnReturns DEF SemInv, Layer
    <2>2. QED
      BY <1>6, <1>9, <2>1, WakeLayer DEF SemInv
  <1>11. SemTypes'
    BY <1>4, <1>7 DEF SemInv, SemTypes
  <1>12. Heard'
    BY <1>10, CallHeard DEF SemInv
  <1>13. Waiting'
    <2>1. \A u \in Task : tskstat'[u] = "WAI" => tskstat[u] = "WAI"
      BY <1>3, <1>7, <1>8
    <2>2. QED
      BY <1>4, <2>1, FewerWait DEF SemInv, Waits
  <1>14. NoWakeups'
    BY <1>4 DEF SemInv, Waits, NoWakeups
  <1>15. QED
    BY <1>9, <1>10, <1>11, <1>12, <1>13, <1>14 DEF SemInv, Waits

LEMMA SigStep ==
  ASSUME SemInv, NEW c \in Cpu, NEW s \in SemId, sig_sem(c, s)
  PROVE  SemInv'
  <1>1. /\ pc[c] = "user" /\ asked' = asked
        /\ holds' = [holds EXCEPT ![c_tskid[c]][s] = IF @ > 0 THEN @ - 1 ELSE 0]
    BY DEF sig_sem
  <1>2. holds' \in [Task -> [SemId -> Nat]]
    <2>1. holds \in [Task -> [SemId -> Nat]] /\ c_tskid[c] \in Task
      BY <1>1, UserCall DEF SemInv, SemTypes
    <2> DEFINE x == holds[c_tskid[c]]
               y == [x EXCEPT ![s] = IF x[s] > 0 THEN x[s] - 1 ELSE 0]
    <2>2. y \in [SemId -> Nat]
      BY <2>1
    <2>3. holds' = [holds EXCEPT ![c_tskid[c]] = y]
      BY <1>1
    <2> HIDE DEF y
    <2>4. QED
      BY <2>1, <2>2, <2>3
  <1>3. PICK t : t = wlink.next[wlink_head(s)]
    OBVIOUS
  <1>4. CASE \E r \in {E_NOEXS, E_QOVR} : Refuse(c, r) /\ unit' = unit
    <2>1. PICK r \in Int : Refuse(c, r) /\ unit' = unit
      BY <1>4, Codes
    <2>2. QED
      BY <1>1, <1>2, <2>1, Refused DEF SemInv, SemTypes
  <1>5. CASE t # wlink_head(s) /\ Hand(s, t) /\ Return(c, E_OK)
    BY <1>1, <1>2, <1>3, <1>5, HandStep
  <1>6. CASE /\ t = wlink_head(s) /\ Return(c, E_OK) /\ SameQueues
             /\ semcnt' = [semcnt EXCEPT ![s] = @ + 1]
             /\ UNCHANGED <<act, unit>>
    <2>1. semcnt \in [SemId -> Nat]
      BY DEF SemInv, SemTypes
    <2>2. SemTypes'
      BY <1>1, <1>2, <1>6, <2>1 DEF SemInv, SemTypes
    <2>3. WaitersOf[wlink_head(s)] = {}
      <3>1. IsList(WNode, wlink, wlink_head(s), WaitersOf[wlink_head(s)])
        BY QueueOfSem
      <3>2. ListFacts(WNode, wlink, wlink_head(s), WaitersOf[wlink_head(s)])
        BY <3>1, ListLinks
      <3>3. QED
        BY <1>3, <1>6, <3>2 DEF ListFacts
    <2>4. \A q \in SemId : act[q] /\ semcnt[q] = 0
                             => \/ act'[q] /\ semcnt'[q] = 0
                                \/ WaitersOf[wlink_head(q)] = {}
      BY <1>6, <2>1, <2>3
    <2>5. QED
      BY <1>1, <1>6, <2>2, <2>4, Codes, PlainCall
  <1>7. QED
    BY <1>3, <1>4, <1>5, <1>6 DEF sig_sem, SameQueues

LEMMA DelStep ==
  ASSUME SemInv, SemApplication, NEW c \in Cpu, NEW s \in SemId, del_sem(c, s)
  PROVE  SemInv'
  <1>1. /\ pc[c] = "user" /\ Issues(c_tskid[c], "del_sem", s)
        /\ UNCHANGED <<asked, unit, holds>>
    BY DEF del_sem, Trap, history
  <1>2. CASE Refuse(c, E_NOEXS)
    BY <1>1, <1>2, Codes, Refused DEF SemInv, SemTypes
  <1>3. CASE /\ DismissAll(<<wlink_head(s)>>) /\ act' = [act EXCEPT ![s] = FALSE]
             /\ Return(c, E_OK) /\ semcnt' = semcnt
    <2> DEFINE h == wlink_head(s)
               S == WaitersOf[h]
    <2>1. /\ h \in SemHeads /\ h \in WNode /\ S \subseteq Task
          /\ IsList(WNode, wlink, h, S)
          /\ S = {u \in Task : tskstat[u] = "WAI" /\ asked[u] = s}
      BY QueueOfSem
    <2>2. DismissAll(<<h>>)
      BY <1>3
    <2> HIDE DEF h, S
    <2>3. /\ \E k : Wakes(k, S)
          /\ wlink' = [f \in {"next", "prev"} |->
                         [n \in WNode |-> IF n = h THEN h ELSE wlink[f][n]]]
      <3>1. Layer /\ \A u \in S : u \in Task /\ tskstat[u] = "WAI"
        BY <2>1 DEF SemInv
      <3>2. Emptied(<<h>>)
        BY <2>1, <2>2 DEF Emptied
      <3>3. Emptying(S, {h})
        BY <2>1, <2>2, <3>1, <3>2, DismissAllWakes
      <3>4. QED
        BY <3>3 DEF Emptying
    <2>4. /\ tskstat' = [u \in Task |-> IF u \in S THEN "RDY" ELSE tskstat[u]]
          /\ wupcnt' = wupcnt
      BY <2>3 DEF Wakes, Commit
    <2>5. wlink \in Ring(WNode) /\ tskstat \in [Task -> Stat]
          /\ act \in [SemId -> BOOLEAN] /\ asked \in [Task -> SemId \cup {None, Gone}]
      BY DEF SemInv, Layer, TypeOK, SemTypes
    <2>6. /\ wlink'.next = [n \in WNode |-> IF n = h THEN h ELSE wlink.next[n]]
          /\ wlink'.prev = [n \in WNode |-> IF n = h THEN h ELSE wlink.prev[n]]
      <3>1. "next" \in {"next", "prev"} /\ "prev" \in {"next", "prev"}
        OBVIOUS
      <3>2. QED
        BY <2>3, <3>1
    <2>7. wlink' \in Ring(WNode)
      <3>1. wlink' = [next |-> [n \in WNode |-> IF n = h THEN h ELSE wlink.next[n]],
                      prev |-> [n \in WNode |-> IF n = h THEN h ELSE wlink.prev[n]]]
        <4>1. \A f \in {"next", "prev"} : f = "next" \/ f = "prev"
          OBVIOUS
        <4>2. QED
          BY <2>3, <4>1
      <3>2. \A n \in WNode : wlink.next[n] \in WNode /\ wlink.prev[n] \in WNode
        BY <2>5 DEF Ring
      <3>3. QED
        BY <2>1, <3>1, <3>2 DEF Ring
    <2>8. Returned(c) /\ Layer'
      <3>1. Returned(c)
        BY <1>1, <1>3, Codes, ReturnReturns DEF SemInv, Layer
      <3>2. QED
        BY <2>3, <2>7, <3>1, WakeLayer DEF SemInv
    <2>9. SemTypes'
      BY <1>1, <1>3, <2>5 DEF SemInv, SemTypes
    <2>10. Heard'
      BY <1>1, <2>8, CallHeard DEF SemInv
    <2>11. WaitLists'
      <3>1. \A g \in SemHeads : WaitersOf'[g] = IF g = h THEN {} ELSE WaitersOf[g]
        <4>1. \A u \in Task : tskstat'[u] = "WAI" <=> tskstat[u] = "WAI" /\ u \notin S
          BY <2>4
        <4>2. WaitersOf' = [g \in SemHeads |->
                {t \in Task : tskstat'[t] = "WAI" /\ wlink_head(asked[t]) = g}]
          BY <1>1 DEF WaitersOf
        <4>3. \A u \in Task, g \in SemHeads : tskstat[u] = "WAI" /\ wlink_head(asked[u]) = g
                => (u \in S <=> g = h)
          BY <2>1, <2>5, SemNodes DEF h, S, SemHeads, WaitersOf
        <4>4. QED
          BY <4>1, <4>2, <4>3 DEF WaitersOf
      <3>2. PICK r, q, M, L :
              r \in Ring(WNode) /\ r = wlink /\ q = wlink' /\ M = WaitersOf /\ L = WaitersOf'
        BY <2>5
      <3>3. Lists(WNode, r, SemHeads, M)
        BY <3>2 DEF SemInv, Waits, WaitLists
      <3>4. IsList(WNode, q, h, {})
        BY <2>1, <2>6, <3>2, EmptyList
      <3>5. \A g \in SemHeads : g # h => Untouched(r, q, M[g] \cup {g})
        <4> SUFFICES ASSUME NEW g \in SemHeads, g # h PROVE Untouched(r, q, M[g] \cup {g})
          OBVIOUS
        <4>1. h \notin M[g] \cup {g}
          BY <2>1, <3>2, SemNodes DEF WaitersOf
        <4>2. M[g] \cup {g} \subseteq WNode
          BY <3>2, WaitNodes, SemNodes DEF WaitersOf
        <4>3. QED
          BY <2>6, <3>2, <4>1, <4>2 DEF Untouched
      <3>6. PICK E : E = {}
        OBVIOUS
      <3>7. /\ IsList(WNode, q, h, E) /\ E \cap SemHeads = {}
            /\ \A g \in SemHeads : g # h => /\ E \cap M[g] = {}
                                            /\ Untouched(r, q, M[g] \cup {g})
            /\ \A g \in SemHeads : L[g] = IF g = h THEN E ELSE M[g]
        BY <3>1, <3>2, <3>4, <3>5, <3>6
      <3>8. Lists(WNode, q, SemHeads, L)
        BY <2>1, <3>2, <3>3, <3>7, ListsStep
      <3>9. QED
        BY <3>2, <3>8 DEF WaitLists
    <2>12. Waiting'
      <3>1. \A u \in Task : tskstat'[u] = "WAI" => tskstat[u] = "WAI" /\ asked[u] # s
        BY <2>1, <2>4
      <3>2. \A q \in SemId : act[q] /\ ~act'[q] => q = s
        BY <1>3, <2>5
      <3>3. QED
        BY <1>1, <1>3, <3>1, <3>2, FewerWait DEF SemInv, Waits
    <2>13. Unlinked'
      <3> SUFFICES ASSUME NEW u \in Task, InQueue(wlink, u)'
                   PROVE  (tskstat'[u] = "WAI" /\ asked'[u] \in SemId) \/ Stray(u)
        BY DEF Unlinked
      <3>1. u # h /\ u \in WNode
        BY <2>1, SemNodes, WaitNodes
      <3>2. InQueue(wlink, u)
        BY <2>6, <3>1 DEF InQueue
      <3>3. CASE u \in S
        <4>1. tskstat[u] = "WAI" /\ asked[u] = s
          BY <2>1, <3>3
        <4>2. WaitsFor(u, s)
          BY <4>1, SemNodes DEF SemInv, Waits, Waiting, WaitsForUnit
        <4>3. c_tskid[c] \in Task \ {u}
          BY <1>1, <4>1, UserCall
        <4>4. QED
          BY <1>1, <4>2, <4>3 DEF Stray
      <3>4. CASE u \notin S
        BY <1>1, <2>4, <3>2, <3>4 DEF SemInv, Waits, Unlinked
      <3>5. QED
        BY <3>3, <3>4
    <2>14. NoWakeups'
      BY <2>4 DEF SemInv, Waits, NoWakeups
    <2>15. QED
      BY <2>8, <2>9, <2>10, <2>11, <2>12, <2>13, <2>14 DEF SemInv, Waits
  <1>4. QED
    BY <1>2, <1>3 DEF del_sem

-----------------------------------------------------------------------------
(***************************************************************************)
(* The steps of the task layer.                                            *)
(***************************************************************************)

LEMMA SystemCallWaits ==
  ASSUME SemInv, SemApplication, NEW c \in Cpu, SystemCall(c), Answer(c), UNCHANGED sem
  PROVE  SemInv'
  <1>0. UNCHANGED <<act, semcnt>>
    BY DEF sem
  <1>1. Layer'
    BY LayerStep DEF SemInv, SemApplication
  <1>2. /\ pc[c] = "user" /\ pc' = [pc EXCEPT ![c] = "ret"]
        /\ UNCHANGED <<wlink, c_tskid>>
        /\ \A t \in Task : tskstat'[t] = "WAI" =>
             tskstat[t] = "WAI" \/ (t = c_tskid[c] /\ SleepsAlone(t))
        /\ \A t \in Task : tskstat[t] = "WAI" =>
             \/ tskstat'[t] = "WAI" \/ t = c_tskid[c]
             \/ Issues(c_tskid[c], "wup_tsk", t)
        /\ \A t \in Task : wupcnt[t] = 0 =>
             wupcnt'[t] = 0 \/ Issues(c_tskid[c], "wup_tsk", t)
    BY CallSleepers DEF SemInv, Layer
  <1>3. pc'[c] = "ret" /\ UNCHANGED history
    <2>1. pc'[c] = "ret"
      BY <1>2 DEF SemInv, Layer, TypeOK
    <2>2. QED
      BY <2>1 DEF Answer, Resumes
  <1>4. UNCHANGED <<asked, unit, holds>>
    BY <1>3 DEF history
  <1>5. SemTypes'
    BY <1>0, <1>4 DEF SemInv, SemTypes
  <1>6. Heard'
    <2> SUFFICES ASSUME NEW b \in Cpu, pc'[b] = "user" PROVE asked'[c_tskid'[b]] = None
      BY DEF Heard
    <2>1. pc[b] = "user"
      BY <1>2, <1>3 DEF SemInv, Layer, TypeOK
    <2>2. QED
      BY <1>2, <1>4, <2>1 DEF SemInv, Heard
  <1>7. PICK t \in Task : t = c_tskid[c] /\ tskstat[t] = "RUN" /\ asked[t] = None
    BY <1>2, UserCall
  <1>8. ASSUME NEW u \in Task, asked[u] \in SemId
        PROVE  tskstat'[u] = "WAI" <=> tskstat[u] = "WAI"
    <2>1. u # t
      BY <1>7, <1>8, SemNodes
    <2>2. tskstat[u] = "WAI" => WaitsFor(u, asked[u])
      BY <1>8, SemNodes DEF SemInv, Waits, Waiting, WaitsForUnit
    <2>3. tskstat[u] = "WAI" => ~Issues(t, "wup_tsk", u)
      BY <1>8, <2>2 DEF SemApplication
    <2>4. QED
      BY <1>2, <1>7, <2>1, <2>3
  <1>9. WaitLists'
    <2>1. \A h \in SemHeads, u \in Task : wlink_head(asked[u]) = h => asked[u] \in SemId
      BY SemNodes DEF SemInv, SemTypes, SemHeads
    <2>2. WaitersOf' = WaitersOf
      BY <1>4, <1>8, <2>1 DEF WaitersOf
    <2>3. QED
      BY <1>2, <2>2 DEF SemInv, Waits, WaitLists
  <1>10. Waiting'
    <2> SUFFICES ASSUME NEW u \in Task, tskstat'[u] = "WAI"
                 PROVE  (asked'[u] = None /\ SleepsAlone(u)) \/ WaitsForUnit(u)'
      BY DEF Waiting
    <2>1. CASE tskstat[u] = "WAI"
      <3>1. (asked[u] = None /\ SleepsAlone(u)) \/ WaitsForUnit(u)
        BY <2>1 DEF SemInv, Waits, Waiting
      <3>2. QED
        BY <1>0, <1>4, <3>1 DEF WaitsForUnit
    <2>2. CASE tskstat[u] # "WAI"
      BY <1>2, <1>4, <1>7, <2>2
    <2>3. QED
      BY <2>1, <2>2
  <1>11. Unlinked'
    <2> SUFFICES ASSUME NEW u \in Task, InQueue(wlink, u)'
                 PROVE  (tskstat'[u] = "WAI" /\ asked'[u] \in SemId) \/ Stray(u)
      BY DEF Unlinked
    <2>1. InQueue(wlink, u)
      BY <1>2
    <2>2. (tskstat[u] = "WAI" /\ asked[u] \in SemId) \/ Stray(u)
      BY <2>1 DEF SemInv, Waits, Unlinked
    <2>3. QED
      BY <1>4, <1>8, <2>2
  <1>12. NoWakeups'
    <2> SUFFICES ASSUME NEW u \in Task, NEW s \in SemId, WaitsFor(u, s) PROVE wupcnt'[u] = 0
      BY DEF NoWakeups
    <2>1. wupcnt[u] = 0 /\ ~Issues(t, "wup_tsk", u)
      BY DEF SemInv, Waits, NoWakeups, SemApplication
    <2>2. QED
      BY <1>2, <1>7, <2>1
  <1>13. QED
    BY <1>1, <1>5, <1>6, <1>9, <1>10, <1>11, <1>12 DEF SemInv, Waits

\* The task of c, if it is back in user mode, has heard.
LEMMA AnswerTypes ==
  ASSUME SemTypes, NEW c \in Cpu, c_tskid[c] \in Task, Answer(c), UNCHANGED sem
  PROVE  /\ SemTypes'
         /\ UNCHANGED <<act, semcnt>>
         /\ asked' = [asked EXCEPT ![c_tskid[c]] = IF Resumes(c) THEN None ELSE @]
  <1>1. UNCHANGED <<act, semcnt>>
    BY DEF sem
  <1>2. CASE Resumes(c)
    <2> DEFINE t == c_tskid[c]
    <2>1. asked' = [asked EXCEPT ![t] = None] /\ unit' = [unit EXCEPT ![t] = None]
      BY <1>2 DEF Answer
    <2>2. holds' \in [Task -> [SemId -> Nat]]
      <3>1. CASE asked[t] \in SemId /\ eax[t] = E_OK
        <4> DEFINE s == asked[t]
                   x == holds[t]
                   y == [x EXCEPT ![s] = IF x[s] < MaxHolds(s) THEN x[s] + 1 ELSE x[s]]
        <4>1. x \in [SemId -> Nat]
          BY DEF SemTypes
        <4>2. y \in [SemId -> Nat]
          BY <3>1, <4>1
        <4>3. holds' = [holds EXCEPT ![t] = y]
          BY <1>2, <3>1 DEF Answer
        <4> HIDE DEF y
        <4>4. QED
          BY <4>2, <4>3 DEF SemTypes
      <3>2. CASE ~(asked[t] \in SemId /\ eax[t] = E_OK)
        <4>1. holds' = holds
          BY <1>2, <3>2 DEF Answer
        <4>2. QED
          BY <4>1 DEF SemTypes
      <3>3. QED
        BY <3>1, <3>2
    <2>3. QED
      BY <1>1, <1>2, <2>1, <2>2 DEF SemTypes
  <1>3. CASE ~Resumes(c)
    <2>1. UNCHANGED <<asked, unit, holds>>
      BY <1>3 DEF Answer, history
    <2>2. QED
      BY <1>1, <1>3, <2>1 DEF SemTypes
  <1>4. QED
    BY <1>2, <1>3

LEMMA QuietKernelWaits ==
  ASSUME SemInv, SemApplication, NEW c \in Cpu, Answer(c), UNCHANGED sem,
         Interrupt(c) \/ tick_done(c) \/ store_ret(c) \/ sched_do_next_tsk(c)
           \/ intr_leave(c) \/ clear_flag(c)
  PROVE  SemInv'
  <1>1. Layer'
    BY LayerStep DEF SemInv, SemApplication, Kernel
  <1>2. /\ UNCHANGED <<wlink, wupcnt>>
        /\ \A t \in Task : tskstat'[t] = "WAI" <=> tskstat[t] = "WAI"
        /\ \A b \in Cpu : b # c => pc'[b] = pc[b] /\ c_tskid'[b] = c_tskid[b]
        /\ pc'[c] = "user" =>
             pc[c] # "user" /\ c_tskid' = c_tskid /\ tskstat[c_tskid[c]] = "RUN"
    BY QuietKernel DEF SemInv
  <1>3. c_tskid[c] \in Task /\ asked \in [Task -> SemId \cup {None, Gone}]
    BY DEF SemInv, Layer, TypeOK, SemTypes
  <1>4. /\ SemTypes' /\ UNCHANGED <<act, semcnt>>
        /\ asked' = [asked EXCEPT ![c_tskid[c]] = IF Resumes(c) THEN None ELSE @]
    BY <1>3, AnswerTypes DEF SemInv
  <1>5. Heard'
    <2> SUFFICES ASSUME NEW b \in Cpu, pc'[b] = "user" PROVE asked'[c_tskid'[b]] = None
      BY DEF Heard
    <2>1. CASE b = c
      BY <1>2, <1>3, <1>4, <2>1 DEF Resumes
    <2>2. CASE b # c
      <3>1. asked[c_tskid[b]] = None /\ c_tskid'[b] = c_tskid[b] /\ c_tskid[b] \in Task
        BY <1>2, <2>2 DEF SemInv, Heard, Layer, TypeOK
      <3>2. QED
        BY <1>3, <1>4, <3>1
    <2>3. QED
      BY <2>1, <2>2
  <1>6. \A t \in Task : tskstat[t] = "WAI" => asked'[t] = asked[t]
    <2>1. Resumes(c) => tskstat[c_tskid[c]] = "RUN"
      BY <1>2 DEF Resumes
    <2>2. QED
      BY <1>3, <1>4, <2>1
  <1>7. Waits'
    BY <1>2, <1>4, <1>6, SameWaits DEF SemInv
  <1>8. QED
    BY <1>1, <1>4, <1>5, <1>7 DEF SemInv

\* A time-out takes its task off the queue, if it is in one.
LEMMA TimeoutWaits ==
  ASSUME SemInv, SemApplication, NEW c \in Cpu, Answer(c), UNCHANGED sem, sched_timeout(c)
  PROVE  SemInv'
  <1>1. Layer'
    BY LayerStep DEF SemInv, SemApplication, Kernel
  <1>2. pc[c] = "tick" /\ UNCHANGED <<pc, c_tskid, wupcnt>>
    BY DEF sched_timeout
  <1>3. c_tskid[c] \in Task /\ asked \in [Task -> SemId \cup {None, Gone}]
        /\ tskstat \in [Task -> Stat] /\ wlink \in Ring(WNode) /\ tlink \in Ring(TNode)
    BY DEF SemInv, Layer, TypeOK, SemTypes
  <1>4. ~Resumes(c)
    BY <1>2 DEF Resumes
  <1>5. SemTypes' /\ UNCHANGED <<act, semcnt, asked>>
    <2>1. /\ SemTypes' /\ UNCHANGED <<act, semcnt>>
          /\ asked' = [asked EXCEPT ![c_tskid[c]] = IF Resumes(c) THEN None ELSE @]
      BY <1>3, AnswerTypes DEF SemInv
    <2>2. QED
      BY <1>3, <1>4, <2>1
  <1>6. Heard'
    BY <1>2, <1>5 DEF SemInv, Heard
  <1>7. CASE UNCHANGED <<wlink, tskstat>>
    <2>1. Waits'
      BY <1>2, <1>5, <1>7, SameWaits DEF SemInv
    <2>2. QED
      BY <1>1, <1>5, <1>6, <2>1 DEF SemInv
  <1>8. CASE TimeOutTask(FirstTimeout)
    <2>1. PICK t \in Task : t = FirstTimeout
      BY TimeoutTask DEF SemInv
    <2>2. /\ tskstat[t] = "WAI" /\ tskstat' = [tskstat EXCEPT ![t] = "RDY"]
          /\ wlink' = IF InQueue(wlink, t) THEN UnlinkToSelf(wlink, t) ELSE wlink
      BY <1>8, <2>1 DEF TimeOutTask
    <2>3. \A u \in Task : tskstat'[u] = "WAI" <=> tskstat[u] = "WAI" /\ u # t
      BY <1>3, <2>2
    <2>4. Waiting'
      BY <1>5, <2>3, FewerWait DEF SemInv, Waits
    <2>5. WaitLists' /\ Unlinked'
      <3>1. CASE WaitsForUnit(t)
        <4>1. asked[t] \in SemId
          BY <3>1 DEF WaitsForUnit
        <4>2. InQueue(wlink, t)
          <5>1. PICK s \in SemId : s = asked[t]
            BY <4>1
          <5>2. PICK h, S : h = wlink_head(s) /\ S = WaitersOf[h]
            OBVIOUS
          <5>3. IsList(WNode, wlink, h, S) /\ t \in S
            BY <2>2, <5>1, <5>2, QueueOfSem
          <5>4. ListFacts(WNode, wlink, h, S)
            BY <5>3, ListLinks
          <5>5. QED
            BY <5>3, <5>4 DEF ListFacts, InQueue
        <4>3. QED
          BY <1>5, <2>2, <4>1, <4>2, LeavesQueue
      <3>2. CASE asked[t] = None /\ SleepsAlone(t)
        <4>1. ~InQueue(wlink, t)
          BY <3>2, SemNodes DEF SemInv, Waits, Unlinked, SemApplication
        <4>2. wlink' = wlink
          BY <2>2, <4>1
        <4>3. WaitersOf' = WaitersOf
          <5>1. \A h \in SemHeads : wlink_head(asked[t]) # h
            BY <3>2, SemNodes DEF SemHeads
          <5>2. QED
            BY <1>5, <2>3, <5>1 DEF WaitersOf
        <4>4. WaitLists'
          BY <4>2, <4>3 DEF SemInv, Waits, WaitLists
        <4>5. Unlinked'
          BY <1>5, <2>3, <4>1, <4>2 DEF SemInv, Waits, Unlinked
        <4>6. QED
          BY <4>4, <4>5
      <3>3. QED
        BY <2>2, <3>1, <3>2 DEF SemInv, Waits, Waiting
    <2>6. NoWakeups'
      BY <1>2 DEF SemInv, Waits, NoWakeups
    <2>7. QED
      BY <1>1, <1>5, <1>6, <2>4, <2>5, <2>6 DEF SemInv, Waits
  <1>9. QED
    BY <1>7, <1>8 DEF sched_timeout

-----------------------------------------------------------------------------
\* The invariant holds at first, is kept by every step, and so always holds.
LEMMA SemInvInit ==
  ASSUME SemInit, Idle # {}
  PROVE  SemInv
  <1>0. Layer
    BY LayerInit DEF SemInit
  <1>1. /\ asked = [t \in Task |-> None] /\ wlink = SelfLinked(WNode)
        /\ \A t \in Task : tskstat[t] # "WAI"
        /\ wupcnt = [t \in Task |-> 0] /\ \A c \in Cpu : c_tskid[c] \in Task
    BY <1>0 DEF SemInit, TasksInit, Layer, TypeOK
  <1>2. SemTypes
    BY DEF SemInit, SemTypes
  <1>3. Heard
    BY <1>1 DEF Heard
  <1>4. WaitLists
    <2>1. \A h \in SemHeads : WaitersOf[h] = {}
      BY <1>1 DEF WaitersOf
    <2>2. \A h \in SemHeads : IsList(WNode, wlink, h, {})
      <3> SUFFICES ASSUME NEW h \in SemHeads PROVE IsList(WNode, wlink, h, {})
        OBVIOUS
      <3>1. h \in WNode /\ wlink.next[h] = h /\ wlink.prev[h] = h
        BY <1>1, SemNodes DEF SelfLinked
      <3>2. QED
        BY <3>1, EmptyList
    <2>3. QED
      BY <2>1, <2>2, SemNodes DEF WaitLists, Lists
  <1>5. Waiting
    BY <1>1 DEF Waiting
  <1>6. Unlinked
    BY <1>1, WaitNodes DEF Unlinked, InQueue, SelfLinked
  <1>7. NoWakeups
    BY <1>1 DEF NoWakeups
  <1>8. QED
    BY <1>0, <1>2, <1>3, <1>4, <1>5, <1>6, <1>7 DEF SemInv, Waits

LEMMA SemInvStep ==
  ASSUME SemInv, SemApplication, [SemNext]_semVars
  PROVE  SemInv'
  <1>1. CASE UNCHANGED semVars
    <2>1. UNCHANGED <<vars, act, semcnt, asked, unit, holds>>
      BY <1>1 DEF semVars, sem, history
    <2>2. Layer' /\ SemTypes'
      BY <2>1, LayerStutter DEF SemInv, SemTypes
    <2>3. Heard'
      BY <2>1 DEF SemInv, Heard, vars
    <2>4. Waits'
      <3>1. UNCHANGED <<wlink, wupcnt, tskstat>>
        BY <2>1 DEF vars, readyVars
      <3>2. QED
        BY <2>1, <3>1, SameWaits DEF SemInv
    <2>5. QED
      BY <2>2, <2>3, <2>4 DEF SemInv
  <1>2. ASSUME NEW c \in Cpu, SemCall(c)
        PROVE  SemInv'
    BY <1>2, CreStep, DelStep, SigStep, PolStep, TwaiStep DEF SemCall
  <1>3. ASSUME NEW c \in Cpu, TaskStep(c)
        PROVE  SemInv'
    <2>1. Answer(c) /\ UNCHANGED sem
      BY <1>3 DEF TaskStep
    <2>2. CASE SystemCall(c)
      BY <2>1, <2>2, SystemCallWaits
    <2>3. CASE sched_timeout(c)
      BY <2>1, <2>3, TimeoutWaits
    <2>4. CASE Interrupt(c) \/ tick_done(c) \/ store_ret(c) \/ sched_do_next_tsk(c)
                 \/ intr_leave(c) \/ clear_flag(c)
      BY <2>1, <2>4, QuietKernelWaits
    <2>5. QED
      BY <1>3, <2>2, <2>3, <2>4 DEF TaskStep, Kernel
  <1>4. QED
    BY <1>1, <1>2, <1>3 DEF SemNext

LEMMA SemInvariance == SemApplication /\ SemSpec => []SemInv
  <1> SUFFICES ASSUME SemApplication PROVE SemSpec => []SemInv
    OBVIOUS
  <1>1. SemInit => SemInv
    BY SemInvInit DEF SemApplication
  <1>2. SemInv /\ [SemNext]_semVars => SemInv'
    BY SemInvStep
  <1>3. QED
    BY <1>1, <1>2, PTL DEF SemSpec

\* Semaphores, their counts and their history keep their types (kernel/types.h
\* and kernel/sys_sem.c): a count never falls below zero, and the task layer
\* stays well typed under releases by signals and deletions.
THEOREM SemTypeCorrect == SemApplication /\ SemSpec => []SemTypeOK
  <1> SUFFICES ASSUME SemApplication PROVE SemSpec => []SemTypeOK
    OBVIOUS
  <1>1. SemInv => SemTypeOK
    BY DEF SemInv, Layer, SemTypes, SemTypeOK
  <1>2. QED
    BY <1>1, SemInvariance, PTL

\* The queue of each semaphore holds exactly the tasks that sleep on it, once
\* each and with prev mirroring next, through signals, time-outs, deletions and
\* creations, and nobody sleeps while a unit is free (kernel/sys_sem.c:56-188).
THEOREM SemQueuesCorrect == SemApplication /\ SemSpec => []WaitQueueExact
  <1> SUFFICES ASSUME SemApplication PROVE SemSpec => []WaitQueueExact
    OBVIOUS
  <1>1. SemInv => WaitQueueExact
    <2> SUFFICES ASSUME SemInv, NEW s \in SemId
                 PROVE  /\ HoldsExactly(wlink, wlink_head(s),
                             {t \in Task : tskstat[t] = "WAI" /\ asked[t] = s})
                        /\ semcnt[s] > 0 => SemWaiters(s) = {}
      BY DEF WaitQueueExact
    <2> DEFINE h == wlink_head(s)
               S == WaitersOf[h]
    <2>1. /\ h \in WNode /\ IsList(WNode, wlink, h, S)
          /\ S = {t \in Task : tskstat[t] = "WAI" /\ asked[t] = s}
      BY QueueOfSem
    <2>2. wlink \in Ring(WNode) /\ semcnt[s] \in Nat
      BY DEF SemInv, Layer, TypeOK, SemTypes
    <2> HIDE DEF h, S
    <2>3. HoldsExactly(wlink, h, S)
      BY <2>1, <2>2, WaitNodes, ListHolds
    <2>4. SemWaiters(s) = S
      <3>1. S = {Walk(wlink, h)[i] : i \in 1 .. Len(Walk(wlink, h))}
        BY <2>1, <2>2, WaitNodes, ListWalk
      <3>2. QED
        BY <3>1 DEF SemWaiters, Waiters, h
    <2>5. semcnt[s] > 0 => S = {}
      BY <2>1, <2>2, SemNodes DEF SemInv, Waits, Waiting, WaitsForUnit
    <2>6. QED
      BY <2>1, <2>3, <2>4, <2>5 DEF h
  <1>2. QED
    BY <1>1, SemInvariance, PTL

-----------------------------------------------------------------------------
(***************************************************************************)
(* The order of service.  A step leaves the queue of a semaphore alone,    *)
(* empties it, takes a task off, or links one at its place; the queues by  *)
(* priority are sorted; and who is given a unit while it waits is the      *)
(* first.                                                                  *)
(***************************************************************************)
Line(s) == Walk(wlink, wlink_head(s))

\* What happens to the wait queues as a family.
Relinked ==
  \/ wlink' = wlink
  \/ \E s \in SemId, t \in Task :
       tskstat[t] # "WAI" /\ wlink' = Joins(wlink, wlink_head(s), t, ByPri(s))
  \/ \E s \in SemId : \E t \in WaitersOf[wlink_head(s)] : wlink' = UnlinkToSelf(wlink, t)
  \/ \E s \in SemId :
       wlink' = [f \in {"next", "prev"} |->
                   [n \in WNode |-> IF n = wlink_head(s) THEN n ELSE wlink[f][n]]]

\* Who is given a unit of s while it waits is the first in the queue.
Served ==
  \A t \in Task, s \in SemId :
    tskstat[t] = "WAI" /\ unit[t] # s /\ unit'[t] = s => t = wlink.next[wlink_head(s)]

Ordered == Relinked /\ Served /\ tskpri' = tskpri

LEMMA CallOrdered ==
  ASSUME SemInv, NEW c \in Cpu, SemCall(c)
  PROVE  Ordered
  <1>1. pc[c] = "user"
    BY DEF SemCall, acre_sem, cre_sem, del_sem, sig_sem, pol_sem, twai_sem, Trap
  <1>2. c_tskid[c] \in Task /\ tskstat[c_tskid[c]] = "RUN"
    BY <1>1, UserCall
  <1>3. unit \in [Task -> SemId \cup {None, Gone}]
    BY DEF SemInv, SemTypes
  <1>4. ASSUME NEW r, Refuse(c, r), unit' = unit
        PROVE  Ordered
    BY <1>4 DEF Refuse, Reply, tcbVars, Ordered, Relinked, Served
  <1>5. ASSUME NEW s \in SemId, sys_cre_sem(c, s), Forget(s)
        PROVE  Ordered
    <2>1. wlink' = wlink /\ tskpri' = tskpri
      BY <1>5 DEF sys_cre_sem, tcbVars
    <2>2. \A t \in Task : unit'[t] = unit[t] \/ unit'[t] = Gone
      BY <1>5 DEF Forget
    <2>3. QED
      BY <2>1, <2>2, SemNodes DEF Ordered, Relinked, Served
  <1>6. ASSUME NEW s \in SemId, TakeUnit(c, s)
        PROVE  Ordered
    <2>1. wlink' = wlink /\ tskpri' = tskpri /\ unit' = [unit EXCEPT ![c_tskid[c]] = s]
      BY <1>6 DEF TakeUnit, Reply, tcbVars
    <2>2. \A t \in Task : tskstat[t] = "WAI" => unit'[t] = unit[t]
      BY <1>2, <1>3, <2>1
    <2>3. QED
      BY <2>1, <2>2 DEF Ordered, Relinked, Served
  <1>7. ASSUME acre_sem(c) \/ \E s \in SemId : cre_sem(c, s)
        PROVE  Ordered
    BY <1>4, <1>5, <1>7 DEF acre_sem, cre_sem, history
  <1>8. ASSUME NEW s \in SemId, pol_sem(c, s)
        PROVE  Ordered
    BY <1>4, <1>6, <1>8 DEF pol_sem
  <1>9. ASSUME NEW s \in SemId, twai_sem(c, s)
        PROVE  Ordered
    <2>1. ASSUME NEW tmout, WaitUnit(c, s, tmout)
          PROVE  Ordered
      <3>1. /\ JoinAndSleep(c, wlink, wlink_head(s), ByPri(s), tmout)
            /\ unit' = unit
        BY <2>1 DEF WaitUnit
      <3>2. wlink' = Joins(wlink, wlink_head(s), c_tskid[c], ByPri(s)) /\ tskpri' = tskpri
        BY <3>1 DEF JoinAndSleep, Joins, tcbVars
      <3>3. QED
        BY <1>2, <3>1, <3>2 DEF Ordered, Relinked, Served
    <2>2. QED
      BY <1>4, <1>6, <1>9, <2>1 DEF twai_sem
  <1>10. ASSUME NEW s \in SemId, del_sem(c, s)
         PROVE  Ordered
    <2>1. unit' = unit
      BY <1>10 DEF del_sem, history
    <2>2. CASE DismissAll(<<wlink_head(s)>>)
      <3> DEFINE h == wlink_head(s)
      <3>1. tskpri' = tskpri
        BY <2>2 DEF DismissAll, ResetHeads, tcbVars
      <3>2. wlink' = [f \in {"next", "prev"} |->
                        [n \in WNode |-> IF \E i \in DOMAIN <<h>> : <<h>>[i] = n THEN n
                                         ELSE wlink[f][n]]]
        BY <2>2 DEF DismissAll, ResetHeads
      <3>3. \A n : (\E i \in DOMAIN <<h>> : <<h>>[i] = n) <=> n = h
        OBVIOUS
      <3>4. wlink' = [f \in {"next", "prev"} |->
                        [n \in WNode |-> IF n = h THEN n ELSE wlink[f][n]]]
        BY <3>2, <3>3
      <3>5. Relinked
        BY <3>4 DEF Relinked
      <3>6. QED
        BY <2>1, <3>1, <3>5 DEF Ordered, Served
    <2>3. QED
      BY <1>4, <1>10, <2>1, <2>2 DEF del_sem
  <1>11. ASSUME NEW s \in SemId, sig_sem(c, s)
         PROVE  Ordered
    <2>1. PICK t : t = wlink.next[wlink_head(s)]
      OBVIOUS
    <2>2. CASE t # wlink_head(s) /\ Hand(s, t)
      <3>1. t \in WaitersOf[wlink_head(s)] /\ t \in Task
        <4>1. PICK S : S = WaitersOf[wlink_head(s)]
          OBVIOUS
        <4>2. IsList(WNode, wlink, wlink_head(s), S) /\ S \subseteq Task
          BY <4>1, QueueOfSem
        <4>3. ListFacts(WNode, wlink, wlink_head(s), S)
          BY <4>2, ListLinks
        <4>4. QED
          BY <2>1, <2>2, <4>1, <4>2, <4>3 DEF ListFacts
      <3>2. wlink' = UnlinkToSelf(wlink, t) /\ tskpri' = tskpri
        BY <2>2 DEF Hand, Dismiss, tcbVars
      <3>3. \A u \in Task : u # t => unit'[u] = unit[u]
        BY <1>3, <2>2 DEF Hand
      <3>4. unit'[t] = s
        BY <1>3, <2>2, <3>1 DEF Hand
      <3>5. Relinked
        BY <3>1, <3>2 DEF Relinked
      <3>6. Served
        BY <2>1, <3>3, <3>4 DEF Served
      <3>7. QED
        BY <3>2, <3>5, <3>6 DEF Ordered
    <2>3. CASE UNCHANGED <<tcbVars, wlink, unit>>
      BY <2>3 DEF tcbVars, Ordered, Relinked, Served
    <2>4. QED
      BY <1>4, <1>11, <2>1, <2>2, <2>3 DEF sig_sem
  <1>12. QED
    BY <1>7, <1>8, <1>9, <1>10, <1>11 DEF SemCall

LEMMA TaskStepOrdered ==
  ASSUME SemInv, SemApplication, NEW c \in Cpu, TaskStep(c)
  PROVE  Ordered
  <1>1. Answer(c) /\ unit \in [Task -> SemId \cup {None, Gone}]
    BY DEF TaskStep, SemInv, SemTypes
  <1>2. Served
    <2>1. \A t \in Task : unit'[t] = unit[t] \/ unit'[t] = None
      BY <1>1 DEF Answer, history
    <2>2. QED
      BY <2>1, SemNodes DEF Served
  <1>3. tskpri' = tskpri
    <2>1. CASE SystemCall(c)
      BY <2>1 DEF SystemCall, slp_tsk, tslp_tsk, dly_tsk, wup_tsk, can_wup, act_tsk, tcbVars,
                  QueueWakeup, WakeUp, RefuseWakeup, sys_slp_tsk, sys_tslp_tsk
    <2>2. CASE Interrupt(c)
      BY <2>2 DEF Interrupt, irq0, apic_timer, tcbVars
    <2>3. CASE Kernel(c)
      BY <2>3 DEF Kernel, tick_done, store_ret, sched_do_next_tsk, intr_leave, clear_flag,
                  Resume, sched_timeout, tcbVars
    <2>4. QED
      BY <2>1, <2>2, <2>3 DEF TaskStep
  <1>4. Relinked
    <2>1. CASE SystemCall(c)
      <3>1. wlink' = wlink
        BY <2>1, CallSleepers DEF SemInv, Layer
      <3>2. QED
        BY <3>1 DEF Relinked
    <2>2. CASE Interrupt(c) \/ tick_done(c) \/ store_ret(c) \/ sched_do_next_tsk(c)
                 \/ intr_leave(c) \/ clear_flag(c)
      <3>1. wlink' = wlink
        BY <2>2, QuietKernel DEF SemInv
      <3>2. QED
        BY <3>1 DEF Relinked
    <2>3. CASE sched_timeout(c)
      <3>1. CASE wlink' = wlink
        BY <3>1 DEF Relinked
      <3>2. CASE TimeOutTask(FirstTimeout)
        <4>1. PICK t \in Task : t = FirstTimeout
          BY <2>3, TimeoutTask DEF SemInv
        <4>2. /\ tskstat[t] = "WAI"
              /\ wlink' = IF InQueue(wlink, t) THEN UnlinkToSelf(wlink, t) ELSE wlink
          BY <3>2, <4>1 DEF TimeOutTask
        <4>3. CASE WaitsForUnit(t)
          <5>1. PICK s \in SemId : s = asked[t]
            BY <4>3 DEF WaitsForUnit
          <5>2. t \in WaitersOf[wlink_head(s)]
            BY <4>2, <5>1, SemQueue DEF SemInv
          <5>3. QED
            BY <4>2, <5>2 DEF Relinked
        <4>4. CASE asked[t] = None /\ SleepsAlone(t)
          <5>1. ~InQueue(wlink, t)
            BY <4>4, SemNodes DEF SemInv, Waits, Unlinked, SemApplication
          <5>2. QED
            BY <4>2, <5>1 DEF Relinked
        <4>5. QED
          BY <4>2, <4>3, <4>4 DEF SemInv, Waits, Waiting
      <3>3. QED
        BY <2>3, <3>1, <3>2 DEF sched_timeout
    <2>4. QED
      BY <2>1, <2>2, <2>3 DEF TaskStep, Kernel
  <1>5. QED
    BY <1>2, <1>3, <1>4 DEF Ordered

\* The place of t in the queue w of s.
PlaceIn(s, w, t, k) == Place(Len(w), w, t, ByPri(s), k)

\* What a step makes of the queue w of s.
LineStep(s, w, v) ==
  \/ v = w
  \/ v = <<>>
  \/ \E k \in 1 .. Len(w) : v = Removed(w, Len(w), k)
  \/ \E t \in Task, k \in 0 .. Len(w) : /\ PlaceIn(s, w, t, k)
                                        /\ \A i \in 1 .. Len(w) : w[i] # t
                                        /\ v = Inserted(w, Len(w), k, t)

LEMMA LineSteps ==
  ASSUME SemInv, Relinked, NEW s \in SemId
  PROVE  LineStep(s, Line(s), Line(s)')
  <1> DEFINE h == wlink_head(s)
             S == WaitersOf[h]
  <1>1. /\ h \in SemHeads /\ h \in WNode /\ S \subseteq Task /\ IsList(WNode, wlink, h, S)
    BY QueueOfSem
  <1>2. PICK r \in Ring(WNode) : r = wlink
    BY DEF SemInv, Layer, TypeOK
  <1>3. tskpri \in [Task -> Pri]
    BY DEF SemInv, Layer, TypeOK
  <1>4. PICK w : Lines(r, h, S, w) /\ w = Line(s)
    <2>1. \E w : Lines(r, h, S, w)
      BY <1>1, <1>2, ListLines
    <2>2. QED
      BY <1>2, <2>1 DEF Lines, Line
  <1>5. PICK v : v = Line(s)'
    OBVIOUS
  <1>6. v = Walk(wlink', h)
    BY <1>5 DEF Line, wlink_head
  <1> HIDE DEF S
  \* A semaphore whose queue the step does not touch.
  <1>7. ASSUME NEW q \in SemId, q # s,
               NEW x \in Ring(WNode), wlink' = x,
               \A O \in SUBSET WNode : O \cap (WaitersOf[wlink_head(q)] \cup {wlink_head(q)}) = {}
                                       /\ O \subseteq S \cup {h}
                                         => Untouched(r, x, O)
        PROVE  v = w
    <2>1. PICK g \in SemHeads : g = wlink_head(q) /\ g # h
      BY <1>7, SemNodes
    <2>2. (WaitersOf[h] \cup {h}) \cap (WaitersOf[g] \cup {g}) = {}
      BY <1>1, <2>1, ListsApart DEF SemInv, Waits, WaitLists
    <2>3. S \cup {h} \in SUBSET WNode
      BY <1>1, WaitNodes DEF S
    <2>4. Untouched(r, x, S \cup {h})
      BY <1>7, <2>1, <2>2, <2>3 DEF S
    <2>5. IsList(WNode, r, h, S)
      BY <1>1, <1>2 DEF S
    <2> HIDE DEF h
    <2>6. Walk(x, h) = Walk(r, h)
      BY <1>1, <2>4, <2>5, WaitNodes, UntouchedWalk
    <2>7. QED
      BY <1>4, <1>6, <1>7, <2>6 DEF Lines
  <1>8. ASSUME wlink' = wlink
        PROVE  LineStep(s, w, v)
    BY <1>2, <1>4, <1>6, <1>8 DEF LineStep, Lines, Line
  <1>9. ASSUME NEW q \in SemId, NEW t \in Task, tskstat[t] # "WAI",
               wlink' = Joins(wlink, wlink_head(q), t, ByPri(q))
        PROVE  LineStep(s, w, v)
    <2>1. PICK g, G : g = wlink_head(q) /\ G = WaitersOf[g]
      OBVIOUS
    <2>2. /\ g \in WNode /\ G \in SUBSET Task /\ IsList(WNode, r, g, G)
          /\ G = {u \in Task : tskstat[u] = "WAI" /\ asked[u] = q}
      BY <1>2, <2>1, QueueOfSem
    <2>3. t \notin G /\ t # g
      BY <1>9, <2>1, <2>2, SemNodes
    <2>4. PICK b \in BOOLEAN : b <=> ByPri(q)
      <3>1. CASE ByPri(q)
        BY <3>1
      <3>2. CASE ~ByPri(q)
        BY <3>2
      <3>3. QED
        BY <3>1, <3>2
    <2>5. JoinsLine(r, g, G, t, b)
      BY <1>3, <2>2, <2>3, JoinWalk
    <2>6. wlink' = Joins(r, g, t, b)
      BY <1>2, <1>9, <2>1, <2>4 DEF Joins
    <2>7. CASE q = s
      <3>1. PICK k : Place(Len(w), w, t, b, k) /\ v = Inserted(w, Len(w), k, t)
        BY <1>4, <1>6, <2>1, <2>5, <2>6, <2>7 DEF JoinsLine, Lines
      <3>2. PlaceIn(s, w, t, k) /\ k \in 0 .. Len(w)
        BY <2>4, <2>7, <3>1 DEF Place, PlaceIn
      <3>3. \A i \in 1 .. Len(w) : w[i] # t
        BY <1>4, <2>1, <2>3, <2>7 DEF Lines, S
      <3>4. QED
        BY <3>1, <3>2, <3>3 DEF LineStep
    <2>8. CASE q # s
      <3>1. PICK x \in Ring(WNode) : x = Joins(r, g, t, b)
        BY <2>5 DEF JoinsLine
      <3>2. \A O \in SUBSET WNode : O \cap (G \cup {g, t}) = {} => Untouched(r, x, O)
        BY <2>5, <3>1 DEF JoinsLine
      <3>3. t \notin S \cup {h}
        BY <1>1, <1>9, QueueOfSem, SemNodes DEF S
      <3>4. \A O \in SUBSET WNode : O \cap (G \cup {g}) = {} /\ O \subseteq S \cup {h}
                                      => Untouched(r, x, O)
        BY <3>2, <3>3
      <3>5. v = w
        BY <1>7, <2>1, <2>6, <2>8, <3>1, <3>4
      <3>6. QED
        BY <3>5 DEF LineStep
    <2>9. QED
      BY <2>7, <2>8
  <1>10. ASSUME NEW q \in SemId, NEW t \in WaitersOf[wlink_head(q)],
                wlink' = UnlinkToSelf(wlink, t)
         PROVE  LineStep(s, w, v)
    <2>1. PICK g, G : g = wlink_head(q) /\ G = WaitersOf[g]
      OBVIOUS
    <2>2. g \in WNode /\ G \in SUBSET Task /\ IsList(WNode, r, g, G) /\ t \in G
      BY <1>2, <1>10, <2>1, QueueOfSem
    <2>3. LeavesLine(r, g, G, t)
      BY <2>2, LeaveWalk
    <2>4. CASE q = s
      <3>1. \E k \in 1 .. Len(w) : v = Removed(w, Len(w), k)
        BY <1>2, <1>4, <1>6, <1>10, <2>1, <2>3, <2>4 DEF LeavesLine, Lines
      <3>2. QED
        BY <3>1 DEF LineStep
    <2>5. CASE q # s
      <3>1. PICK x \in Ring(WNode) : x = UnlinkToSelf(r, t)
        BY <2>3 DEF LeavesLine
      <3>2. \A O \in SUBSET WNode : O \cap (G \cup {g}) = {} => Untouched(r, x, O)
        BY <2>3, <3>1 DEF LeavesLine
      <3>3. wlink' = x
        BY <1>2, <1>10, <3>1
      <3>4. v = w
        BY <1>7, <2>1, <2>5, <3>2, <3>3
      <3>5. QED
        BY <3>4 DEF LineStep
    <2>6. QED
      BY <2>4, <2>5
  <1>11. ASSUME NEW q \in SemId,
                wlink' = [f \in {"next", "prev"} |->
                            [n \in WNode |-> IF n = wlink_head(q) THEN n ELSE wlink[f][n]]]
         PROVE  LineStep(s, w, v)
    <2>1. PICK g \in WNode : g = wlink_head(q)
      BY SemNodes
    <2>2. PICK x : x = wlink'
      OBVIOUS
    <2>3. /\ x.next = [n \in WNode |-> IF n = g THEN n ELSE r.next[n]]
          /\ x.prev = [n \in WNode |-> IF n = g THEN n ELSE r.prev[n]]
      <3>1. "next" \in {"next", "prev"} /\ "prev" \in {"next", "prev"}
        OBVIOUS
      <3>2. QED
        BY <1>2, <1>11, <2>1, <2>2, <3>1
    <2>4. x \in Ring(WNode)
      <3>1. x = [next |-> x.next, prev |-> x.prev]
        <4>1. \A f \in {"next", "prev"} : f = "next" \/ f = "prev"
          OBVIOUS
        <4>2. QED
          BY <1>11, <2>2, <4>1
      <3>2. \A n \in WNode : r.next[n] \in WNode /\ r.prev[n] \in WNode
        BY DEF Ring
      <3>3. QED
        BY <2>3, <3>1, <3>2 DEF Ring
    <2>5. CASE q = s
      <3>1. x.next[g] = g /\ x.prev[g] = g
        BY <2>3
      <3>2. PICK E : E = {}
        OBVIOUS
      <3>3. IsList(WNode, x, g, E)
        BY <3>1, <3>2, EmptyList
      <3>4. PICK y : Lines(x, g, E, y)
        BY <2>4, <3>3, ListLines
      <3>5. y \in Seq(E) /\ \A i \in 1 .. Len(y) : y[i] \in E
        BY <3>4 DEF Lines
      <3>6. Len(y) = 0
        <4>1. Len(y) \in Nat
          BY <3>5
        <4>2. Len(y) # 0 => 1 \in 1 .. Len(y)
          BY <4>1
        <4>3. QED
          BY <3>2, <3>5, <4>2
      <3>7. y = <<>>
        BY <3>5, <3>6
      <3>8. v = y
        BY <1>6, <2>1, <2>2, <2>5, <3>4 DEF Lines
      <3>9. QED
        BY <3>7, <3>8 DEF LineStep
    <2>6. CASE q # s
      <3>1. \A O \in SUBSET WNode : g \notin O => Untouched(r, x, O)
        BY <2>3 DEF Untouched
      <3>2. \A O \in SUBSET WNode :
              O \cap (WaitersOf[wlink_head(q)] \cup {wlink_head(q)}) = {} => Untouched(r, x, O)
        BY <2>1, <3>1
      <3>3. v = w
        BY <1>7, <2>2, <2>4, <2>6, <3>2
      <3>4. QED
        BY <3>3 DEF LineStep
    <2>7. QED
      BY <2>5, <2>6
  <1>12. LineStep(s, w, v)
    BY <1>8, <1>9, <1>10, <1>11 DEF Relinked
  <1>13. QED
    BY <1>4, <1>5, <1>12

\* The two ways a queue changes by one task.
Inserts(w, k, t, v) ==
  /\ v \in Seq(Task) /\ Len(v) = Len(w) + 1
  /\ \A i \in 1 .. Len(v) : \/ i <= k /\ v[i] = w[i]
                            \/ i = k + 1 /\ v[i] = t
                            \/ i > k + 1 /\ i - 1 \in 1 .. Len(w) /\ v[i] = w[i - 1]
Removes(w, k, v) ==
  /\ v \in Seq(Task) /\ Len(v) = Len(w) - 1
  /\ \A i \in 1 .. Len(v) : \/ i < k /\ v[i] = w[i] /\ i \in 1 .. Len(w)
                            \/ i >= k /\ i + 1 \in 1 .. Len(w) /\ v[i] = w[i + 1]

LEMMA InsertedLine ==
  ASSUME NEW w \in Seq(Task), NEW k \in 0 .. Len(w), NEW t \in Task
  PROVE  Inserts(w, k, t, Inserted(w, Len(w), k, t))
  <1> DEFINE n == Len(w)
             v == Inserted(w, n, k, t)
  <1>1. n \in Nat /\ \A i \in 1 .. n : w[i] \in Task
    OBVIOUS
  <1>2. v = [i \in 1 .. n + 1 |->
               IF i <= k THEN w[i] ELSE IF i = k + 1 THEN t ELSE w[i - 1]]
    BY DEF Inserted
  <1> HIDE DEF n, v
  <1>3. \A i \in 1 .. n + 1 : \/ i <= k /\ v[i] = w[i] /\ i \in 1 .. n
                              \/ i = k + 1 /\ v[i] = t
                              \/ i > k + 1 /\ i - 1 \in 1 .. n /\ v[i] = w[i - 1]
    BY <1>1, <1>2 DEF n
  <1>4. \A i \in 1 .. n + 1 : v[i] \in Task
    BY <1>1, <1>3
  <1>5. v \in Seq(Task) /\ Len(v) = n + 1
    BY <1>1, <1>2, <1>4
  <1>6. QED
    BY <1>3, <1>5 DEF n, v, Inserts

LEMMA RemovedLine ==
  ASSUME NEW w \in Seq(Task), NEW k \in 1 .. Len(w), NEW v, v = Removed(w, Len(w), k)
  PROVE  Removes(w, k, v)
  <1> DEFINE n == Len(w)
  <1>1. n \in Nat /\ \A i \in 1 .. n : w[i] \in Task
    OBVIOUS
  <1> HIDE DEF n
  <1>2. v = [i \in 1 .. n - 1 |-> IF i < k THEN w[i] ELSE w[i + 1]]
    BY DEF Removed, n
  <1>3. \A i \in 1 .. n - 1 : \/ i < k /\ v[i] = w[i] /\ i \in 1 .. n
                              \/ i >= k /\ i + 1 \in 1 .. n /\ v[i] = w[i + 1]
    BY <1>1, <1>2 DEF n
  <1>4. \A i \in 1 .. n - 1 : v[i] \in Task
    BY <1>1, <1>3
  <1>5. n - 1 \in Nat
    BY <1>1 DEF n
  <1>6. v \in Seq(Task) /\ Len(v) = n - 1
    BY <1>2, <1>4, <1>5
  <1>7. QED
    BY <1>3, <1>6 DEF n, Removes

\* Nobody changes places.
KeepsOrder(w, v) ==
  \A i, j \in 1 .. Len(v) :
    i < j /\ (\E a \in 1 .. Len(w) : w[a] = v[i]) /\ (\E b \in 1 .. Len(w) : w[b] = v[j])
      => \E a, b \in 1 .. Len(w) : a < b /\ w[a] = v[i] /\ w[b] = v[j]

LEMMA LineKeepsOrder ==
  ASSUME NEW s, NEW w \in Seq(Task), NEW v, LineStep(s, w, v)
  PROVE  KeepsOrder(w, v)
  <1>1. CASE v = w
    BY <1>1 DEF KeepsOrder
  <1>2. CASE v = <<>>
    BY <1>2 DEF KeepsOrder
  <1>3. ASSUME NEW k \in 1 .. Len(w), v = Removed(w, Len(w), k)
        PROVE  KeepsOrder(w, v)
    <2>1. /\ Len(v) = Len(w) - 1 /\ Len(w) \in Nat
          /\ \A i \in 1 .. Len(v) : \/ i < k /\ v[i] = w[i] /\ i \in 1 .. Len(w)
                                    \/ i >= k /\ i + 1 \in 1 .. Len(w) /\ v[i] = w[i + 1]
      <3>1. Removes(w, k, v)
        BY <1>3, RemovedLine
      <3>2. QED
        BY <3>1 DEF Removes
    <2> SUFFICES ASSUME NEW i \in 1 .. Len(v), NEW j \in 1 .. Len(v), i < j
                 PROVE  \E a, b \in 1 .. Len(w) : a < b /\ w[a] = v[i] /\ w[b] = v[j]
      BY DEF KeepsOrder
    <2>2. PICK a \in {i, i + 1} : /\ a \in 1 .. Len(w) /\ v[i] = w[a]
                                  /\ a = i + 1 => i >= k
      BY <2>1
    <2>3. PICK b \in {j, j + 1} : /\ b \in 1 .. Len(w) /\ v[j] = w[b]
                                  /\ b = j => j < k
      BY <2>1
    <2>4. a < b
      BY <2>1, <2>2, <2>3
    <2>5. QED
      BY <2>2, <2>3, <2>4
  <1>4. CASE \E t \in Task, k \in 0 .. Len(w) : /\ PlaceIn(s, w, t, k)
                                                /\ \A i \in 1 .. Len(w) : w[i] # t
                                                /\ v = Inserted(w, Len(w), k, t)
    <2>0. PICK t \in Task, k \in 0 .. Len(w) : /\ PlaceIn(s, w, t, k)
                                               /\ \A i \in 1 .. Len(w) : w[i] # t
                                               /\ v = Inserted(w, Len(w), k, t)
      BY <1>4
    <2>1. /\ Len(v) = Len(w) + 1 /\ Len(w) \in Nat
          /\ \A i \in 1 .. Len(v) : \/ i <= k /\ v[i] = w[i]
                                    \/ i = k + 1 /\ v[i] = t
                                    \/ i > k + 1 /\ i - 1 \in 1 .. Len(w) /\ v[i] = w[i - 1]
      <3>1. Inserts(w, k, t, v)
        <4>1. Inserts(w, k, t, Inserted(w, Len(w), k, t))
          BY InsertedLine
        <4>2. QED
          BY <2>0, <4>1
      <3>2. QED
        BY <3>1 DEF Inserts
    <2> SUFFICES ASSUME NEW i \in 1 .. Len(v), NEW j \in 1 .. Len(v), i < j,
                        \E a \in 1 .. Len(w) : w[a] = v[i],
                        \E b \in 1 .. Len(w) : w[b] = v[j]
                 PROVE  \E a, b \in 1 .. Len(w) : a < b /\ w[a] = v[i] /\ w[b] = v[j]
      BY DEF KeepsOrder
    <2>2. v[i] # t /\ v[j] # t
      BY <2>0
    <2>3. PICK a \in {i, i - 1} : /\ a \in 1 .. Len(w) /\ v[i] = w[a]
                                  /\ a = i => i <= k
      BY <2>1, <2>2
    <2>4. PICK b \in {j, j - 1} : /\ b \in 1 .. Len(w) /\ v[j] = w[b]
                                  /\ b = j - 1 => j > k + 1
      BY <2>1, <2>2
    <2>5. a < b
      BY <2>1, <2>3, <2>4
    <2>6. QED
      BY <2>3, <2>4, <2>5
  <1>5. QED
    BY <1>1, <1>2, <1>3, <1>4 DEF LineStep

\* The queues by priority are sorted.
InOrder(p, w) == \A i, j \in 1 .. Len(w) : i <= j => p[w[i]] <= p[w[j]]

LEMMA StaysInOrder ==
  ASSUME tskpri \in [Task -> Pri], NEW s \in TA_TPRI, NEW w \in Seq(Task), NEW v,
         LineStep(s, w, v), InOrder(tskpri, w)
  PROVE  InOrder(tskpri, v)
  <1>0. /\ ByPri(s) /\ Len(w) \in Nat
        /\ \A t \in Task : tskpri[t] \in Nat
        /\ \A i \in 1 .. Len(w) : w[i] \in Task
    BY DEF ByPri, Pri
  <1>1. CASE v = w
    BY <1>1
  <1>2. CASE v = <<>>
    BY <1>2 DEF InOrder
  <1>3. ASSUME NEW k \in 1 .. Len(w), v = Removed(w, Len(w), k)
        PROVE  InOrder(tskpri, v)
    <2>1. /\ Len(v) = Len(w) - 1
          /\ \A i \in 1 .. Len(v) : \/ i < k /\ v[i] = w[i] /\ i \in 1 .. Len(w)
                                    \/ i >= k /\ i + 1 \in 1 .. Len(w) /\ v[i] = w[i + 1]
      <3>1. Removes(w, k, v)
        BY <1>3, RemovedLine
      <3>2. QED
        BY <3>1 DEF Removes
    <2> SUFFICES ASSUME NEW i \in 1 .. Len(v), NEW j \in 1 .. Len(v), i <= j
                 PROVE  tskpri[v[i]] <= tskpri[v[j]]
      BY DEF InOrder
    <2>2. PICK a \in {i, i + 1} : /\ a \in 1 .. Len(w) /\ v[i] = w[a]
                                  /\ a = i + 1 => i >= k
      BY <2>1
    <2>3. PICK b \in {j, j + 1} : /\ b \in 1 .. Len(w) /\ v[j] = w[b]
                                  /\ b = j => j < k
      BY <2>1
    <2>4. a <= b
      BY <1>0, <2>1, <2>2, <2>3, SMTT(30)
    <2>5. QED
      BY <2>2, <2>3, <2>4 DEF InOrder
  <1>4. CASE \E t \in Task, k \in 0 .. Len(w) : /\ PlaceIn(s, w, t, k)
                                                /\ \A i \in 1 .. Len(w) : w[i] # t
                                                /\ v = Inserted(w, Len(w), k, t)
    <2>0. PICK t \in Task, k \in 0 .. Len(w) : /\ PlaceIn(s, w, t, k)
                                               /\ \A i \in 1 .. Len(w) : w[i] # t
                                               /\ v = Inserted(w, Len(w), k, t)
      BY <1>4
    <2>1. /\ Len(v) = Len(w) + 1
          /\ \A i \in 1 .. Len(v) : \/ i <= k /\ v[i] = w[i]
                                    \/ i = k + 1 /\ v[i] = t
                                    \/ i > k + 1 /\ i - 1 \in 1 .. Len(w) /\ v[i] = w[i - 1]
      <3>1. Inserts(w, k, t, v)
        <4>1. Inserts(w, k, t, Inserted(w, Len(w), k, t))
          BY InsertedLine
        <4>2. QED
          BY <2>0, <4>1
      <3>2. QED
        BY <3>1 DEF Inserts
    <2>2. \A i \in 1 .. k : tskpri[w[i]] <= tskpri[t]
      BY <1>0, <2>0 DEF Place, PlaceIn
    <2>3. \A i \in k + 1 .. Len(w) : tskpri[w[i]] >= tskpri[t]
      <3> SUFFICES ASSUME NEW i \in k + 1 .. Len(w) PROVE tskpri[w[i]] >= tskpri[t]
        OBVIOUS
      <3>1. k < Len(w) /\ k + 1 \in 1 .. Len(w) /\ i \in 1 .. Len(w) /\ k + 1 <= i
        BY <1>0
      <3>2. tskpri[w[k + 1]] > tskpri[t]
        BY <1>0, <2>0, <3>1 DEF Place, PlaceIn
      <3>3. tskpri[w[k + 1]] <= tskpri[w[i]]
        BY <3>1 DEF InOrder
      <3>4. tskpri[w[k + 1]] \in Nat /\ tskpri[w[i]] \in Nat /\ tskpri[t] \in Nat
        BY <1>0, <3>1
      <3>5. QED
        BY <3>2, <3>3, <3>4
    <2> SUFFICES ASSUME NEW i \in 1 .. Len(v), NEW j \in 1 .. Len(v), i <= j
                 PROVE  tskpri[v[i]] <= tskpri[v[j]]
      BY DEF InOrder
    <2>4. CASE i = k + 1
      <3>1. v[i] = t
        BY <1>0, <2>1, <2>4
      <3>2. v[j] = t \/ (j - 1 \in k + 1 .. Len(w) /\ v[j] = w[j - 1])
        BY <1>0, <2>1, <2>4
      <3>3. QED
        BY <1>0, <2>3, <3>1, <3>2
    <2>5. CASE j = k + 1 /\ i # k + 1
      <3>1. v[j] = t /\ i \in 1 .. k /\ v[i] = w[i]
        BY <1>0, <2>1, <2>5
      <3>2. QED
        BY <2>2, <3>1
    <2>6. CASE i # k + 1 /\ j # k + 1
      <3>1. PICK a \in {i, i - 1} : /\ a \in 1 .. Len(w) /\ v[i] = w[a]
                                    /\ a = i => i <= k
        BY <1>0, <2>1, <2>6
      <3>2. PICK b \in {j, j - 1} : /\ b \in 1 .. Len(w) /\ v[j] = w[b]
                                    /\ b = j - 1 => j > k + 1
        BY <1>0, <2>1, <2>6
      <3>3. a <= b
        BY <1>0, <2>1, <3>1, <3>2
      <3>4. QED
        BY <3>1, <3>2, <3>3 DEF InOrder
    <2>7. QED
      BY <2>4, <2>5, <2>6
  <1>5. QED
    BY <1>1, <1>2, <1>3, <1>4 DEF LineStep

LinesSorted == \A s \in TA_TPRI : InOrder(tskpri, Line(s))

\* What the queue of s is, as a sequence.
LEMMA LineFacts ==
  ASSUME SemInv, NEW s \in SemId
  PROVE  /\ Lines(wlink, wlink_head(s), SemWaiters(s), Line(s))
         /\ Line(s) \in Seq(Task)
         /\ \A t \in SemWaiters(s) : t \in Task /\ tskstat[t] = "WAI"
  <1> DEFINE h == wlink_head(s)
             S == WaitersOf[h]
  <1>1. /\ h \in WNode /\ IsList(WNode, wlink, h, S) /\ S \subseteq Task
        /\ S = {t \in Task : tskstat[t] = "WAI" /\ asked[t] = s}
    BY QueueOfSem
  <1>2. wlink \in Ring(WNode)
    BY DEF SemInv, Layer, TypeOK
  <1>3. PICK w : Lines(wlink, h, S, w)
    <2> HIDE DEF h, S
    <2>1. QED
      BY <1>1, <1>2, ListLines
  <1>4. w = Line(s)
    BY <1>3 DEF Lines, Line
  <1>5. SemWaiters(s) = S
    BY <1>3 DEF Lines, SemWaiters, Waiters
  <1>6. w \in Seq(Task)
    BY <1>1, <1>3 DEF Lines
  <1>7. QED
    BY <1>1, <1>3, <1>4, <1>5, <1>6

LEMMA SortedInit ==
  ASSUME SemInv, SemInit
  PROVE  LinesSorted
  <1> SUFFICES ASSUME NEW s \in TA_TPRI PROVE InOrder(tskpri, Line(s))
    BY DEF LinesSorted
  <1>1. s \in SemId
    BY SemAssumption
  <1>2. \A t \in Task : tskstat[t] # "WAI"
    BY DEF SemInit, TasksInit
  <1>3. PICK w : w = Line(s)
    OBVIOUS
  <1>4. Len(w) \in Nat /\ \A i \in 1 .. Len(w) : w[i] \in SemWaiters(s)
    BY <1>1, <1>3, LineFacts DEF Lines
  <1>5. \A i \in 1 .. Len(w) : FALSE
    BY <1>1, <1>2, <1>4, LineFacts
  <1>6. QED
    BY <1>3, <1>5 DEF InOrder

LEMMA SortedStep ==
  ASSUME SemInv, LinesSorted, Relinked, tskpri' = tskpri
  PROVE  LinesSorted'
  <1> SUFFICES ASSUME NEW s \in TA_TPRI PROVE InOrder(tskpri, Line(s)')
    BY DEF LinesSorted
  <1>1. s \in SemId /\ tskpri \in [Task -> Pri]
    BY SemAssumption DEF SemInv, Layer, TypeOK
  <1>2. PICK w \in Seq(Task) : w = Line(s)
    BY <1>1, LineFacts
  <1>3. PICK v : v = Line(s)'
    OBVIOUS
  <1>4. LineStep(s, w, v) /\ InOrder(tskpri, w)
    BY <1>1, <1>2, <1>3, LineSteps DEF LinesSorted
  <1>5. InOrder(tskpri, v)
    BY <1>1, <1>4, StaysInOrder
  <1>6. QED
    BY <1>3, <1>5

LEMMA NextOrdered ==
  ASSUME SemInv, SemApplication, SemNext
  PROVE  Ordered
  BY CallOrdered, TaskStepOrdered DEF SemNext

ServiceInv == SemInv /\ LinesSorted

LEMMA ServiceInvariance == SemApplication /\ SemSpec => []ServiceInv
  <1> SUFFICES ASSUME SemApplication PROVE SemSpec => []ServiceInv
    OBVIOUS
  <1>1. SemInit => ServiceInv
    BY SemInvInit, SortedInit DEF SemApplication, ServiceInv
  <1>2. ServiceInv /\ [SemNext]_semVars => ServiceInv'
    <2> SUFFICES ASSUME ServiceInv, [SemNext]_semVars PROVE ServiceInv'
      OBVIOUS
    <2>1. SemInv'
      BY SemInvStep DEF ServiceInv
    <2>2. CASE SemNext
      BY <2>1, <2>2, NextOrdered, SortedStep DEF ServiceInv, Ordered
    <2>3. CASE UNCHANGED semVars
      BY <2>1, <2>3, SortedStep DEF ServiceInv, Relinked, semVars, vars, tcbVars
    <2>4. QED
      BY <2>2, <2>3
  <1>3. QED
    BY <1>1, <1>2, PTL DEF SemSpec

\* The first in a queue by priority is a most urgent one.
LEMMA LineFirstIsUrgent ==
  ASSUME ServiceInv, NEW s \in TA_TPRI, NEW t \in SemWaiters(s),
         t = wlink.next[wlink_head(s)]
  PROVE  \A u \in SemWaiters(s) : tskpri[t] <= tskpri[u]
  <1> SUFFICES ASSUME NEW u \in SemWaiters(s) PROVE tskpri[t] <= tskpri[u]
    OBVIOUS
  <1>1. s \in SemId
    BY SemAssumption
  <1>2. PICK w : w = Line(s)
    OBVIOUS
  <1>3. Lines(wlink, wlink_head(s), SemWaiters(s), w) /\ w \in Seq(Task)
    BY <1>1, <1>2, LineFacts DEF ServiceInv
  <1>4. PICK j \in 1 .. Len(w) : u = w[j]
    BY <1>3 DEF Lines
  <1>5. Len(w) \in Nat /\ 1 \in 1 .. Len(w) /\ 1 <= j /\ Len(w) > 0
    BY <1>3, <1>4
  <1>6. w[1] = t
    BY <1>3, <1>5 DEF Lines
  <1>7. tskpri[w[1]] <= tskpri[w[j]]
    BY <1>2, <1>4, <1>5 DEF ServiceInv, LinesSorted, InOrder
  <1>8. QED
    BY <1>4, <1>6, <1>7

\* sig_sem takes the waiter at the head of the queue, and ins_pri keeps the
\* most urgent one there (kernel/sys_sem.c:93-101, 193).
THEOREM UrgentFirst == SemApplication /\ SemSpec => MostUrgentServed
  <1> SUFFICES ASSUME SemApplication PROVE SemSpec => MostUrgentServed
    OBVIOUS
  <1> DEFINE A == \A s \in TA_TPRI, t \in Task :
                    unit[t] # s /\ unit'[t] = s /\ t \in SemWaiters(s) =>
                      \A u \in SemWaiters(s) : tskpri[t] <= tskpri[u]
  <1>1. ServiceInv /\ [SemNext]_semVars => [A]_semVars
    <2> SUFFICES ASSUME ServiceInv, SemNext PROVE A
      OBVIOUS
    <2> SUFFICES ASSUME NEW s \in TA_TPRI, NEW t \in Task, unit[t] # s, unit'[t] = s,
                        t \in SemWaiters(s)
                 PROVE  \A u \in SemWaiters(s) : tskpri[t] <= tskpri[u]
      OBVIOUS
    <2>1. Served
      BY NextOrdered DEF ServiceInv, Ordered
    <2>2. s \in SemId
      BY SemAssumption
    <2>3. tskstat[t] = "WAI"
      BY <2>2, LineFacts DEF ServiceInv
    <2>4. t = wlink.next[wlink_head(s)]
      BY <2>1, <2>2, <2>3 DEF Served
    <2>5. QED
      BY <2>4, LineFirstIsUrgent
  <1>2. QED
    BY <1>1, ServiceInvariance, PTL DEF SemSpec, MostUrgentServed, SemWaiters

\* Being in front of another, in a queue w.
Ahead(w, t, u) == \E i, j \in 1 .. Len(w) : i < j /\ w[i] = t /\ w[j] = u
In(w, t) == \E i \in 1 .. Len(w) : w[i] = t

\* Who joins comes after all who wait, or after all who are as urgent.
LEMMA JoinsBehind ==
  ASSUME tskpri \in [Task -> Pri], NEW s \in SemId, NEW w \in Seq(Task), NEW v,
         LineStep(s, w, v), s \in TA_TPRI => InOrder(tskpri, w),
         NEW t, NEW u, In(w, t), ~In(w, u), In(v, t), In(v, u),
         s \in TA_TPRI => tskpri[t] <= tskpri[u]
  PROVE  Ahead(v, t, u)
  <1>0. Len(w) \in Nat /\ (\A i \in 1 .. Len(w) : w[i] \in Task)
        /\ \A x \in Task : tskpri[x] \in Nat
    BY DEF Pri
  <1>1. PICK j \in 1 .. Len(v) : v[j] = u
    BY DEF In
  <1>2. v # w
    BY DEF In
  <1>3. v # <<>>
    BY <1>1
  <1>4. ASSUME NEW k \in 1 .. Len(w), v = Removed(w, Len(w), k)
        PROVE  FALSE
    <2>1. Removes(w, k, v)
      BY <1>4, RemovedLine
    <2>2. \E i \in 1 .. Len(w) : v[j] = w[i]
      BY <2>1 DEF Removes
    <2>3. QED
      BY <1>1, <2>2 DEF In
  <1>5. PICK x \in Task, k \in 0 .. Len(w) : PlaceIn(s, w, x, k) /\ v = Inserted(w, Len(w), k, x)
    BY <1>2, <1>3, <1>4 DEF LineStep
  <1>6. /\ Len(v) = Len(w) + 1
        /\ \A i \in 1 .. Len(v) : \/ i <= k /\ v[i] = w[i]
                                  \/ i = k + 1 /\ v[i] = x
                                  \/ i > k + 1 /\ i - 1 \in 1 .. Len(w) /\ v[i] = w[i - 1]
    <2>1. Inserts(w, k, x, v)
      BY <1>5, InsertedLine
    <2>2. QED
      BY <2>1 DEF Inserts
  <1>7. j = k + 1 /\ u = x
    <2>1. \A i \in 1 .. Len(w) : w[i] # u
      BY DEF In
    <2>2. j <= k => j \in 1 .. Len(w)
      BY <1>0
    <2>3. QED
      BY <1>1, <1>6, <2>1, <2>2
  <1>8. PICK i \in 1 .. Len(w) : w[i] = t
    BY DEF In
  <1>9. i <= k
    <2> SUFFICES ASSUME i > k PROVE FALSE
      BY <1>0
    <2>1. k < Len(w) /\ k + 1 \in 1 .. Len(w) /\ k + 1 <= i
      BY <1>0
    <2>2. s \in TA_TPRI /\ tskpri[w[k + 1]] > tskpri[u]
      BY <1>5, <1>7, <2>1 DEF PlaceIn, Place, ByPri
    <2>3. tskpri[w[k + 1]] <= tskpri[t]
      BY <1>8, <2>1, <2>2 DEF InOrder
    <2>4. tskpri[w[k + 1]] \in Nat /\ tskpri[t] \in Nat /\ tskpri[u] \in Nat
      BY <1>0, <1>7, <1>8, <2>1
    <2>5. QED
      BY <2>2, <2>3, <2>4
  <1>10. i \in 1 .. Len(v) /\ v[i] = t /\ i < j
    BY <1>0, <1>6, <1>7, <1>8, <1>9
  <1>11. QED
    BY <1>1, <1>10 DEF Ahead

\* Nobody overtakes: neither by joining (ins_fifo and ins_pri of
\* kernel/sys_sem.c:193), nor by being released (sig_sem, the time-outs and
\* del_sem), do two who wait for a semaphore change places.
THEOREM ServedInOrder == SemApplication /\ SemSpec => NoOvertaking
  <1> SUFFICES ASSUME SemApplication PROVE SemSpec => NoOvertaking
    OBVIOUS
  <1> DEFINE A == \A s \in SemId : \A t, u \in SemWaiters(s) \cup SemWaiters(s)' :
       /\ Before(s, t, u) => ~Before(s, u, t)'
       /\ /\ t \in SemWaiters(s) /\ u \notin SemWaiters(s) /\ {t, u} \subseteq SemWaiters(s)'
          /\ s \in TA_TPRI => tskpri[t] <= tskpri[u]
          => Before(s, t, u)'
       /\ Before(s, t, u) /\ unit[u] # s /\ unit'[u] = s => FALSE
  <1>1. ServiceInv /\ [SemNext]_semVars => [A]_semVars
    <2> SUFFICES ASSUME ServiceInv, SemNext PROVE A
      OBVIOUS
    <2> SUFFICES ASSUME NEW s \in SemId,
                        NEW t \in SemWaiters(s) \cup SemWaiters(s)',
                        NEW u \in SemWaiters(s) \cup SemWaiters(s)'
                 PROVE  /\ Before(s, t, u) => ~Before(s, u, t)'
                        /\ /\ t \in SemWaiters(s) /\ u \notin SemWaiters(s)
                           /\ {t, u} \subseteq SemWaiters(s)'
                           /\ s \in TA_TPRI => tskpri[t] <= tskpri[u]
                           => Before(s, t, u)'
                        /\ Before(s, t, u) /\ unit[u] # s /\ unit'[u] = s => FALSE
      OBVIOUS
    <2>1. SemInv /\ Relinked /\ Served /\ tskpri \in [Task -> Pri]
      BY NextOrdered DEF ServiceInv, Ordered, SemInv, Layer, TypeOK
    <2>2. PICK w \in Seq(Task) : w = Line(s)
      BY <2>1, LineFacts
    <2>3. PICK v : v = Line(s)'
      OBVIOUS
    <2>4. LineStep(s, w, v)
      BY <2>1, <2>2, <2>3, LineSteps
    <2>5. /\ Lines(wlink, wlink_head(s), SemWaiters(s), w)
          /\ \A x \in SemWaiters(s) : x \in Task /\ tskstat[x] = "WAI"
      BY <2>1, <2>2, LineFacts
    <2>6. SemWaiters(s)' = {v[i] : i \in 1 .. Len(v)}
      BY <2>3 DEF SemWaiters, Waiters, Line, wlink_head
    <2>7. /\ \A x : x \in SemWaiters(s) <=> In(w, x)
          /\ \A x : x \in SemWaiters(s)' <=> In(v, x)
      BY <2>5, <2>6 DEF Lines, In
    <2>8. /\ \A x, y : Before(s, x, y) <=> Ahead(w, x, y)
          /\ \A x, y : Before(s, x, y)' <=> Ahead(v, x, y)
      BY <2>2, <2>3 DEF Before, Ahead, Line, wlink_head
    <2>9. ASSUME Before(s, t, u), Before(s, u, t)'
          PROVE  FALSE
      <3>1. PICK i, j \in 1 .. Len(w) : i < j /\ w[i] = t /\ w[j] = u
        BY <2>8, <2>9 DEF Ahead
      <3>2. PICK a, b \in 1 .. Len(v) : a < b /\ v[a] = u /\ v[b] = t
        BY <2>8, <2>9 DEF Ahead
      <3>3. KeepsOrder(w, v)
        BY <2>4, LineKeepsOrder
      <3>4. PICK c, d \in 1 .. Len(w) : c < d /\ w[c] = u /\ w[d] = t
        BY <3>1, <3>2, <3>3 DEF KeepsOrder
      <3>5. c = j /\ d = i
        <4>1. \A m, n \in 1 .. Len(w) : w[m] = w[n] => m = n
          BY <2>5 DEF Lines
        <4>2. w[c] = w[j] /\ w[d] = w[i]
          BY <3>1, <3>4
        <4>3. QED
          BY <4>1, <4>2
      <3>6. QED
        BY <3>1, <3>4, <3>5
    <2>10. ASSUME t \in SemWaiters(s), u \notin SemWaiters(s), {t, u} \subseteq SemWaiters(s)',
                  s \in TA_TPRI => tskpri[t] <= tskpri[u]
           PROVE  Before(s, t, u)'
      <3>1. In(w, t) /\ ~In(w, u) /\ In(v, t) /\ In(v, u)
        BY <2>7, <2>10
      <3>2. s \in TA_TPRI => InOrder(tskpri, w)
        BY <2>2 DEF ServiceInv, LinesSorted
      <3>3. Ahead(v, t, u)
        BY <2>1, <2>4, <2>10, <3>1, <3>2, JoinsBehind
      <3>4. QED
        BY <2>8, <3>3
    <2>11. ASSUME Before(s, t, u), unit[u] # s, unit'[u] = s
           PROVE  FALSE
      <3>1. PICK i, j \in 1 .. Len(w) : i < j /\ w[i] = t /\ w[j] = u
        BY <2>8, <2>11 DEF Ahead
      <3>2. u \in SemWaiters(s)
        BY <2>7, <3>1 DEF In
      <3>3. u = wlink.next[wlink_head(s)]
        BY <2>1, <2>5, <2>11, <3>2 DEF Served
      <3>4. 1 \in 1 .. Len(w) /\ Len(w) > 0 /\ j # 1
        BY <3>1
      <3>5. w[1] = u
        BY <2>5, <3>3, <3>4 DEF Lines
      <3>6. QED
        BY <2>5, <3>1, <3>4, <3>5 DEF Lines
    <2>12. QED
      BY <2>9, <2>10, <2>11
  <1>2. QED
    BY <1>1, ServiceInvariance, PTL DEF SemSpec, NoOvertaking

-----------------------------------------------------------------------------
(***************************************************************************)
(* Units and answers.  On one CPU, an answer cannot be stored late over    *)
(* that of a signal; and a semaphore has to be created with a maximum      *)
(* above 0 that is at least its initial count, which the kernel does not   *)
(* look at (kernel/sys_sem.c:36).                                          *)
(***************************************************************************)
UnitApplication ==
  /\ SemApplication
  /\ Cpu = {TickCpu}
  /\ \A s \in SemId : isemcnt[s] <= maxsem[s] /\ 0 < maxsem[s]

\* A unit that is on its way to a task is of the semaphore it asked for, and
\* not given to it as long as it waits.
Owned == \A t \in Task : unit[t] \in {None, asked[t]}

Unserved == \A t \in Task : tskstat[t] = "WAI" /\ asked[t] # None => unit[t] = None

\* The answer v to t tells it whether it was given a unit.  It is in ret until
\* it is stored, and in eax afterwards.
Tells(v, t) == v = E_OK <=> unit[t] # None

Storing(t) == \E c \in Cpu : pc[c] = "ret" /\ c_tskid[c] = t

Truthful ==
  /\ \A c \in Cpu : pc[c] = "ret" /\ asked[c_tskid[c]] # None
                      => Tells(ret[c], c_tskid[c])
  /\ \A t \in Task : asked[t] # None /\ tskstat[t] # "WAI" /\ ~Storing(t)
                       => Tells(eax[t], t)

AnswerInv == SemInv /\ Owned /\ Unserved /\ Truthful

\* What a call may do to a task that does not make it: nothing it would hear
\* of, or make it ready with a true answer.
Bystander(u) ==
  /\ asked'[u] = None <=> asked[u] = None
  /\ unit'[u] = None <=> unit[u] = None
  /\ tskstat'[u] = "WAI" <=> tskstat[u] = "WAI"
  /\ eax'[u] = eax[u]

Answered(u) == asked'[u] # None => tskstat'[u] # "WAI" /\ Tells(eax[u], u)'

LEMMA CallAnswers ==
  ASSUME AnswerInv, Cpu = {TickCpu}, NEW c \in Cpu, pc[c] = "user",
         NEW r \in Int, Return(c, r), Owned',
         \A u \in Task : u # c_tskid[c] => Bystander(u) \/ Answered(u),
         asked'[c_tskid[c]] # None =>
           /\ r = E_OK <=> unit'[c_tskid[c]] # None
           /\ tskstat'[c_tskid[c]] = "WAI" => unit'[c_tskid[c]] = None
  PROVE  Unserved' /\ Truthful'
  <1>1. /\ pc' = [pc EXCEPT ![c] = "ret"] /\ ret' = [ret EXCEPT ![c] = r]
        /\ c_tskid' = c_tskid
    BY DEF Return
  <1>2. pc'[c] = "ret" /\ ret'[c] = r /\ \A b \in Cpu : b = c
    BY <1>1 DEF AnswerInv, SemInv, Layer, TypeOK
  <1>3. PICK t : t = c_tskid[c]
    OBVIOUS
  <1>4. \A u \in Task : ~Storing(u)
    BY <1>2 DEF Storing
  <1>5. \A u \in Task : Storing(u)' <=> u = t
    BY <1>1, <1>2, <1>3 DEF Storing
  <1>6. Unserved'
    <2> SUFFICES ASSUME NEW u \in Task, tskstat'[u] = "WAI", asked'[u] # None
                 PROVE  unit'[u] = None
      BY DEF Unserved
    <2>1. CASE u = t
      BY <1>3, <2>1
    <2>2. CASE u # t
      <3>1. Bystander(u)
        BY <1>3, <2>2 DEF Answered
      <3>2. QED
        BY <3>1 DEF Bystander, AnswerInv, Unserved
    <2>3. QED
      BY <2>1, <2>2
  <1>7. ASSUME NEW u \in Task, asked'[u] # None, tskstat'[u] # "WAI", u # t
        PROVE  Tells(eax[u], u)'
    <2>1. CASE Bystander(u)
      <3>1. Tells(eax[u], u)
        BY <1>4, <1>7, <2>1 DEF Bystander, AnswerInv, Truthful
      <3>2. QED
        BY <2>1, <3>1 DEF Bystander, Tells
    <2>2. CASE Answered(u)
      BY <1>7, <2>2 DEF Answered
    <2>3. QED
      BY <1>3, <1>7, <2>1, <2>2
  <1>8. asked'[t] # None => Tells(ret[c], t)'
    BY <1>2, <1>3 DEF Tells
  <1>9. Truthful'
    <2>1. \A b \in Cpu : pc'[b] = "ret" /\ asked'[c_tskid'[b]] # None
                           => Tells(ret[b], c_tskid[b])'
      BY <1>1, <1>2, <1>3, <1>8
    <2>2. QED
      BY <1>5, <1>7, <2>1 DEF Truthful
  <1>10. QED
    BY <1>6, <1>9

\* A call that is answered at once, and changes no other task.
LEMMA ReplyAnswers ==
  ASSUME AnswerInv, Cpu = {TickCpu}, NEW c \in Cpu, pc[c] = "user",
         NEW r \in Int, Return(c, r), SameQueues,
         \A u \in Task : u # c_tskid[c] => asked'[u] = asked[u] /\ unit'[u] = unit[u],
         unit'[c_tskid[c]] \in {None, asked'[c_tskid[c]]},
         asked'[c_tskid[c]] # None => (r = E_OK <=> unit'[c_tskid[c]] # None)
  PROVE  Owned' /\ Unserved' /\ Truthful'
  <1>1. /\ tskstat' = tskstat /\ eax' = eax
        /\ c_tskid[c] \in Task /\ tskstat[c_tskid[c]] = "RUN"
    BY UserCall DEF SameQueues, readyVars, AnswerInv
  <1>2. Owned'
    <2> SUFFICES ASSUME NEW u \in Task PROVE unit'[u] \in {None, asked'[u]}
      BY DEF Owned
    <2>1. unit[u] \in {None, asked[u]}
      BY DEF AnswerInv, Owned
    <2>2. QED
      BY <2>1
  <1>3. \A u \in Task : u # c_tskid[c] => Bystander(u)
    BY <1>1 DEF Bystander
  <1>4. tskstat'[c_tskid[c]] # "WAI"
    BY <1>1
  <1>5. QED
    BY <1>2, <1>3, <1>4, CallAnswers

\* Calls that do not ask for a unit, or are refused one.
LEMMA RefuseAnswers ==
  ASSUME AnswerInv, Cpu = {TickCpu}, NEW c \in Cpu, pc[c] = "user",
         NEW r \in Int, Return(c, r), SameQueues, unit' = unit,
         \/ asked' = asked
         \/ r # E_OK /\ \E s \in SemId : asked' = [asked EXCEPT ![c_tskid[c]] = s]
  PROVE  Owned' /\ Unserved' /\ Truthful'
  <1>1. PICK t \in Task : t = c_tskid[c] /\ asked[t] = None
    BY UserCall DEF AnswerInv
  <1>2. asked \in [Task -> SemId \cup {None, Gone}] /\ unit[t] = None
    BY <1>1 DEF AnswerInv, SemInv, SemTypes, Owned
  <1>3. \A u \in Task : u # t => asked'[u] = asked[u] /\ unit'[u] = unit[u]
    BY <1>1, <1>2
  <1>4. asked'[t] # None => r # E_OK
    BY <1>1
  <1>5. QED
    BY <1>1, <1>2, <1>3, <1>4, ReplyAnswers

LEMMA TakeAnswers ==
  ASSUME AnswerInv, Cpu = {TickCpu}, NEW c \in Cpu, pc[c] = "user", NEW s \in SemId,
         TakeUnit(c, s), asked' = [asked EXCEPT ![c_tskid[c]] = s]
  PROVE  Owned' /\ Unserved' /\ Truthful'
  <1>1. PICK t \in Task : t = c_tskid[c]
    BY UserCall DEF AnswerInv
  <1>2. /\ asked \in [Task -> SemId \cup {None, Gone}]
        /\ unit \in [Task -> SemId \cup {None, Gone}]
    BY DEF AnswerInv, SemInv, SemTypes
  <1>3. /\ Return(c, E_OK) /\ SameQueues /\ unit' = [unit EXCEPT ![t] = s]
    BY <1>1 DEF TakeUnit, Reply, SameQueues
  <1>4. PICK r \in Int : r = E_OK
    BY Codes
  <1>5. s # None
    BY SemNodes
  <1>6. /\ \A u \in Task : u # t => asked'[u] = asked[u] /\ unit'[u] = unit[u]
        /\ unit'[t] = s /\ asked'[t] = s
    BY <1>1, <1>2, <1>3
  <1>7. Return(c, r)
    BY <1>3, <1>4
  <1>8. QED
    BY <1>1, <1>3, <1>4, <1>5, <1>6, <1>7, ReplyAnswers

LEMMA WaitAnswers ==
  ASSUME AnswerInv, Cpu = {TickCpu}, NEW c \in Cpu, pc[c] = "user", NEW s \in SemId,
         NEW tmout, WaitUnit(c, s, tmout), asked' = [asked EXCEPT ![c_tskid[c]] = s]
  PROVE  Owned' /\ Unserved' /\ Truthful'
  <1>1. PICK t \in Task : t = c_tskid[c] /\ asked[t] = None
    BY UserCall DEF AnswerInv
  <1>2. asked \in [Task -> SemId \cup {None, Gone}] /\ unit[t] = None
        /\ tskstat \in [Task -> Stat]
    BY <1>1 DEF AnswerInv, SemInv, SemTypes, Owned, Layer, TypeOK
  <1>3. /\ Return(c, E_TMOUT) /\ unit' = unit /\ eax' = eax
        /\ tskstat' = tskstat \/ tskstat' = [tskstat EXCEPT ![t] = "WAI"]
    BY <1>1 DEF WaitUnit, JoinAndSleep, sys_slp_tsk, sys_tslp_tsk, TakeWakeup, Block,
                readyVars
  <1>4. PICK r \in Int : r = E_TMOUT /\ r # E_OK
    BY DEF E_TMOUT, E_OK
  <1>5. \A u \in Task : u # t => Bystander(u)
    BY <1>1, <1>2, <1>3 DEF Bystander
  <1>6. Owned'
    <2> SUFFICES ASSUME NEW u \in Task PROVE unit'[u] \in {None, asked'[u]}
      BY DEF Owned
    <2>1. CASE u = t
      BY <1>2, <1>3, <2>1
    <2>2. CASE u # t
      <3>1. unit[u] \in {None, asked[u]}
        BY DEF AnswerInv, Owned
      <3>2. QED
        BY <1>1, <1>2, <1>3, <2>2, <3>1
    <2>3. QED
      BY <2>1, <2>2
  <1>7. Return(c, r)
    BY <1>3, <1>4
  <1>8. unit'[t] = None
    BY <1>2, <1>3
  <1>9. QED
    BY <1>1, <1>4, <1>5, <1>6, <1>7, <1>8, CallAnswers

LEMMA CreAnswers ==
  ASSUME AnswerInv, Cpu = {TickCpu}, NEW c \in Cpu, pc[c] = "user", NEW s \in SemId,
         NEW r \in Int, sys_cre_sem(c, s), Forget(s), Return(c, r)
  PROVE  Owned' /\ Unserved' /\ Truthful'
  <1>1. PICK t \in Task : t = c_tskid[c] /\ asked[t] = None
    BY UserCall DEF AnswerInv
  <1>2. tskstat' = tskstat /\ eax' = eax
    BY DEF sys_cre_sem, readyVars
  <1>3. \A u \in Task : /\ asked'[u] = IF asked[u] = s THEN Gone ELSE asked[u]
                        /\ unit'[u] = IF unit[u] = s THEN Gone ELSE unit[u]
    BY DEF Forget
  <1>4. s # None /\ Gone # None
    BY SemNodes DEF Gone, None
  <1>5. \A u \in Task : Bystander(u)
    BY <1>2, <1>3, <1>4 DEF Bystander
  <1>6. Owned'
    <2> SUFFICES ASSUME NEW u \in Task PROVE unit'[u] \in {None, asked'[u]}
      BY DEF Owned
    <2>1. unit[u] \in {None, asked[u]}
      BY DEF AnswerInv, Owned
    <2>2. QED
      BY <1>3, <1>4, <2>1
  <1>7. asked'[t] = None
    BY <1>1, <1>3, <1>4
  <1>8. QED
    BY <1>1, <1>5, <1>6, <1>7, CallAnswers

LEMMA HandAnswers ==
  ASSUME AnswerInv, Cpu = {TickCpu}, NEW c \in Cpu, pc[c] = "user", NEW s \in SemId,
         NEW t \in Task, tskstat[t] = "WAI", asked[t] = s,
         Hand(s, t), Return(c, E_OK), asked' = asked
  PROVE  Owned' /\ Unserved' /\ Truthful'
  <1>1. PICK x \in Task : x = c_tskid[c] /\ asked[x] = None
    BY UserCall DEF AnswerInv
  <1>2. /\ unit \in [Task -> SemId \cup {None, Gone}] /\ eax \in [Task -> Int]
        /\ tskstat \in [Task -> Stat]
    BY DEF AnswerInv, SemInv, SemTypes, Layer, TypeOK
  <1>3. PICK v \in Int : v = E_OK
    BY Codes
  <1>4. /\ Dismiss(t, v) /\ UNCHANGED next_tsk_flag /\ unit' = [unit EXCEPT ![t] = s]
        /\ Return(c, v)
    BY <1>3 DEF Hand
  <1>5. PICK k : Wakes(k, {t}) /\ Hears(k, {t}, v)
    BY <1>4, DismissWakes DEF AnswerInv, SemInv
  <1>6. \A u \in Task : /\ tskstat'[u] = IF u = t THEN "RDY" ELSE tskstat[u]
                        /\ eax'[u] = IF u = t THEN v ELSE eax[u]
    BY <1>5 DEF Wakes, Hears, Commit
  <1>7. \A u \in Task : unit'[u] = IF u = t THEN s ELSE unit[u]
    BY <1>2, <1>4
  <1>8. s # None
    BY SemNodes
  <1>9. \A u \in Task : Bystander(u) \/ Answered(u)
    <2>1. \A u \in Task : u # t => Bystander(u)
      BY <1>6, <1>7 DEF Bystander
    <2>2. Answered(t)
      BY <1>3, <1>6, <1>7, <1>8 DEF Answered, Tells
    <2>3. QED
      BY <2>1, <2>2
  <1>10. Owned'
    BY <1>7 DEF AnswerInv, Owned
  <1>11. QED
    BY <1>1, <1>4, <1>9, <1>10, CallAnswers

LEMMA DelAnswers ==
  ASSUME AnswerInv, Cpu = {TickCpu}, NEW c \in Cpu, pc[c] = "user", NEW s \in SemId,
         DismissAll(<<wlink_head(s)>>), Return(c, E_OK), UNCHANGED <<asked, unit>>
  PROVE  Owned' /\ Unserved' /\ Truthful'
  <1>1. PICK x \in Task : x = c_tskid[c] /\ asked[x] = None
    BY UserCall DEF AnswerInv
  <1>2. PICK h, S : h = wlink_head(s) /\ S = WaitersOf[h]
    OBVIOUS
  <1>3. /\ h \in WNode /\ IsList(WNode, wlink, h, S)
        /\ S \subseteq Task /\ S = {u \in Task : tskstat[u] = "WAI" /\ asked[u] = s}
    BY <1>2, QueueOfSem DEF AnswerInv
  <1>4. PICK k : Wakes(k, S) /\ Hears(k, S, E_DLT)
    <2>1. DismissAll(<<h>>) /\ Layer /\ \A u \in S : u \in Task /\ tskstat[u] = "WAI"
      BY <1>2, <1>3 DEF AnswerInv, SemInv
    <2>2. Emptied(<<h>>)
      BY <2>1 DEF Emptied
    <2>3. Emptying(S, {h})
      BY <1>3, <2>1, <2>2, DismissAllWakes
    <2>4. QED
      BY <2>3 DEF Emptying
  <1>5. \A u \in Task : /\ tskstat'[u] = IF u \in S THEN "RDY" ELSE tskstat[u]
                        /\ eax'[u] = IF u \in S THEN E_DLT ELSE eax[u]
    BY <1>4 DEF Wakes, Hears, Commit
  <1>6. E_DLT # E_OK /\ s # None
    BY SemNodes DEF E_DLT, E_OK
  <1>7. \A u \in Task : Bystander(u) \/ Answered(u)
    <2> SUFFICES ASSUME NEW u \in Task PROVE Bystander(u) \/ Answered(u)
      OBVIOUS
    <2>1. CASE u \in S
      <3>1. unit[u] = None
        BY <1>3, <1>6, <2>1 DEF AnswerInv, Unserved
      <3>2. QED
        BY <1>5, <1>6, <2>1, <3>1 DEF Answered, Tells
    <2>2. CASE u \notin S
      BY <1>5, <2>2 DEF Bystander
    <2>3. QED
      BY <2>1, <2>2
  <1>8. Owned'
    BY DEF AnswerInv, Owned
  <1>9. PICK r \in Int : r = E_OK
    BY Codes
  <1>10. Return(c, r) /\ asked'[x] = None
    BY <1>1, <1>9
  <1>11. QED
    BY <1>1, <1>7, <1>8, <1>10, CallAnswers

LEMMA SemCallAnswers ==
  ASSUME AnswerInv, Cpu = {TickCpu}, NEW c \in Cpu, SemCall(c)
  PROVE  Owned' /\ Unserved' /\ Truthful'
  <1> DEFINE Goal == Owned' /\ Unserved' /\ Truthful'
  <1>1. pc[c] = "user"
    BY DEF SemCall, acre_sem, cre_sem, del_sem, sig_sem, pol_sem, twai_sem, Trap
  <1>2. ASSUME NEW r \in Int, Refuse(c, r), unit' = unit,
               \/ asked' = asked
               \/ r # E_OK /\ \E s \in SemId : asked' = [asked EXCEPT ![c_tskid[c]] = s]
        PROVE  Goal
    <2>1. Return(c, r) /\ SameQueues
      BY <1>2 DEF Refuse, Reply, SameQueues
    <2>2. QED
      BY <1>1, <1>2, <2>1, RefuseAnswers
  <1>3. E_NOEXS # E_OK /\ E_TMOUT # E_OK
    BY DEF E_NOEXS, E_TMOUT, E_OK
  <1>4. ASSUME NEW s \in SemId, NEW r \in {E_OK, s}, sys_cre_sem(c, s), Forget(s), Return(c, r)
        PROVE  Goal
    <2>1. r \in Int
      BY Codes, SemNodes
    <2>2. QED
      BY <1>1, <1>4, <2>1, CreAnswers
  <1> HIDE DEF Goal
  <1>5. ASSUME acre_sem(c) PROVE Goal
    <2>1. CASE Refuse(c, E_NOID) /\ UNCHANGED <<asked, unit>>
      BY <1>2, <2>1, Codes
    <2>2. CASE \E s \in SemId : sys_cre_sem(c, s) /\ Forget(s) /\ Return(c, s)
      BY <1>4, <2>2
    <2>3. QED
      BY <1>5, <2>1, <2>2 DEF acre_sem, history
  <1>6. ASSUME NEW s \in SemId, cre_sem(c, s) PROVE Goal
    BY <1>2, <1>4, <1>6, Codes DEF cre_sem, history
  <1>7. ASSUME NEW s \in SemId, del_sem(c, s) PROVE Goal
    <2>1. UNCHANGED <<asked, unit>>
      BY <1>7 DEF del_sem, history
    <2>2. CASE Refuse(c, E_NOEXS)
      BY <1>2, <2>1, <2>2, Codes
    <2>3. CASE DismissAll(<<wlink_head(s)>>) /\ Return(c, E_OK)
      BY <1>1, <2>1, <2>3, DelAnswers DEF Goal
    <2>4. QED
      BY <1>7, <2>2, <2>3 DEF del_sem
  <1>8. ASSUME NEW s \in SemId, pol_sem(c, s) PROVE Goal
    <2>1. asked' = [asked EXCEPT ![c_tskid[c]] = s]
      BY <1>8 DEF pol_sem
    <2>2. CASE TakeUnit(c, s)
      BY <1>1, <2>1, <2>2, TakeAnswers DEF Goal
    <2>3. CASE \E r \in {E_NOEXS, E_TMOUT} : Refuse(c, r) /\ unit' = unit
      BY <1>2, <1>3, <2>1, <2>3, Codes
    <2>4. QED
      BY <1>8, <2>2, <2>3 DEF pol_sem
  <1>9. ASSUME NEW s \in SemId, twai_sem(c, s) PROVE Goal
    <2>1. asked' = [asked EXCEPT ![c_tskid[c]] = s]
      BY <1>9 DEF twai_sem
    <2>2. CASE TakeUnit(c, s)
      BY <1>1, <2>1, <2>2, TakeAnswers DEF Goal
    <2>3. CASE \E r \in {E_NOEXS, E_TMOUT} : Refuse(c, r) /\ unit' = unit
      BY <1>2, <1>3, <2>1, <2>3, Codes
    <2>4. ASSUME NEW tmout, WaitUnit(c, s, tmout)
          PROVE  Goal
      BY <1>1, <2>1, <2>4, WaitAnswers DEF Goal
    <2>5. QED
      BY <1>9, <2>2, <2>3, <2>4 DEF twai_sem
  <1>10. ASSUME NEW s \in SemId, sig_sem(c, s) PROVE Goal
    <2>1. asked' = asked
      BY <1>10 DEF sig_sem
    <2>2. PICK t : t = wlink.next[wlink_head(s)]
      OBVIOUS
    <2>3. CASE t # wlink_head(s) /\ Hand(s, t) /\ Return(c, E_OK)
      <3>1. PICK h, S : h = wlink_head(s) /\ S = WaitersOf[h]
        OBVIOUS
      <3>2. /\ IsList(WNode, wlink, h, S) /\ S \subseteq Task
            /\ S = {u \in Task : tskstat[u] = "WAI" /\ asked[u] = s}
        BY <3>1, QueueOfSem DEF AnswerInv
      <3>3. ListFacts(WNode, wlink, h, S)
        BY <3>2, ListLinks
      <3>4. t \in S
        BY <2>2, <2>3, <3>1, <3>3 DEF ListFacts
      <3>5. t \in Task /\ tskstat[t] = "WAI" /\ asked[t] = s
        BY <3>2, <3>4
      <3>6. QED
        BY <1>1, <2>1, <2>3, <3>5, HandAnswers DEF Goal
    <2>4. CASE \E r \in {E_NOEXS, E_QOVR} : Refuse(c, r) /\ unit' = unit
      BY <1>2, <2>1, <2>4, Codes
    <2>5. CASE Return(c, E_OK) /\ SameQueues /\ unit' = unit
      BY <1>1, <2>1, <2>5, Codes, RefuseAnswers DEF Goal
    <2>6. QED
      BY <1>10, <2>2, <2>3, <2>4, <2>5 DEF sig_sem, SameQueues
  <1>11. QED
    BY <1>5, <1>6, <1>7, <1>8, <1>9, <1>10 DEF SemCall, Goal

LEMMA SystemCallAnswers ==
  ASSUME AnswerInv, SemApplication, Cpu = {TickCpu}, NEW c \in Cpu,
         SystemCall(c), Answer(c)
  PROVE  Owned' /\ Unserved' /\ Truthful'
  <1>1. /\ pc[c] = "user" /\ pc' = [pc EXCEPT ![c] = "ret"]
        /\ \A t \in Task : tskstat'[t] = "WAI" =>
             tskstat[t] = "WAI" \/ (t = c_tskid[c] /\ SleepsAlone(t))
        /\ \A t \in Task : tskstat[t] = "WAI" =>
             \/ tskstat'[t] = "WAI" \/ t = c_tskid[c]
             \/ Issues(c_tskid[c], "wup_tsk", t)
    BY CallSleepers DEF AnswerInv, SemInv, Layer
  <1>2. PICK x \in Task : x = c_tskid[c] /\ asked[x] = None
    BY <1>1, UserCall DEF AnswerInv
  <1>3. pc'[c] = "ret"
    BY <1>1 DEF AnswerInv, SemInv, Layer, TypeOK
  <1>4. UNCHANGED <<asked, unit>>
    BY <1>3 DEF Answer, Resumes, history
  <1>5. eax' = eax /\ \E r \in Int : Return(c, r)
    <2>1. \A u \in Task : wupcnt[u] \in Int
      BY CountAssumption DEF AnswerInv, SemInv, Layer, TypeOK
    <2>2. CASE slp_tsk(c) \/ tslp_tsk(c) \/ dly_tsk(c)
      BY <2>2, Codes DEF slp_tsk, tslp_tsk, dly_tsk
    <2>3. ASSUME NEW u \in Task, wup_tsk(c, u) \/ can_wup(c, u) \/ act_tsk(c, u)
          PROVE  eax' = eax /\ \E r \in Int : Return(c, r)
      <3>1. eax' = eax
        BY <2>3 DEF wup_tsk, can_wup, act_tsk
      <3>2. \/ Return(c, E_QOVR) \/ Return(c, E_OK) \/ Return(c, E_NOEXS) \/ Return(c, E_OBJ)
            \/ Return(c, wupcnt[u])
        BY <2>3 DEF wup_tsk, can_wup, act_tsk, QueueWakeup, WakeUp, RefuseWakeup
      <3>3. QED
        BY <2>1, <3>1, <3>2, Codes
    <2>4. QED
      BY <2>2, <2>3 DEF SystemCall
  <1>6. ASSUME NEW u \in Task, u # x
        PROVE  Bystander(u) \/ Answered(u)
    <2>1. CASE asked[u] = None
      BY <1>4, <2>1 DEF Answered
    <2>2. CASE asked[u] # None
      <3>1. tskstat[u] = "WAI" => asked[u] \in SemId /\ WaitsFor(u, asked[u])
        BY <2>2 DEF AnswerInv, SemInv, Waits, Waiting, WaitsForUnit
      <3>2. tskstat[u] = "WAI" => ~Issues(x, "wup_tsk", u)
        BY <3>1 DEF SemApplication
      <3>3. tskstat'[u] = "WAI" <=> tskstat[u] = "WAI"
        BY <1>1, <1>2, <1>6, <3>2
      <3>4. QED
        BY <1>4, <1>5, <3>3 DEF Bystander
    <2>3. QED
      BY <2>1, <2>2
  <1>7. Owned'
    BY <1>4 DEF AnswerInv, Owned
  <1>8. PICK r \in Int : Return(c, r)
    BY <1>5
  <1>9. asked'[x] = None
    BY <1>2, <1>4
  <1>10. QED
    BY <1>1, <1>2, <1>6, <1>7, <1>8, <1>9, CallAnswers

LEMMA TimeoutAnswers ==
  ASSUME AnswerInv, Cpu = {TickCpu}, NEW c \in Cpu, sched_timeout(c), Answer(c)
  PROVE  Owned' /\ Unserved' /\ Truthful'
  <1>1. pc[c] = "tick" /\ UNCHANGED <<pc, c_tskid, ret>>
    BY DEF sched_timeout
  <1>2. UNCHANGED <<asked, unit>>
    BY <1>1 DEF Answer, Resumes, history
  <1>3. \A b \in Cpu : pc[b] # "ret"
    BY <1>1
  <1>4. PICK t \in Task : t = FirstTimeout
    BY TimeoutTask DEF AnswerInv, SemInv
  <1>5. \/ UNCHANGED <<tskstat, eax>>
        \/ /\ tskstat[t] = "WAI" /\ tskstat' = [tskstat EXCEPT ![t] = "RDY"]
           /\ eax' = [eax EXCEPT ![t] = E_TMOUT]
    BY <1>4 DEF sched_timeout, TimeOutTask
  <1>6. tskstat \in [Task -> Stat] /\ eax \in [Task -> Int] /\ E_TMOUT # E_OK
    BY DEF AnswerInv, SemInv, Layer, TypeOK, E_TMOUT, E_OK
  <1>7. Owned'
    BY <1>2 DEF AnswerInv, Owned
  <1>8. Unserved'
    BY <1>2, <1>5, <1>6 DEF AnswerInv, Unserved
  <1>9. ASSUME NEW u \in Task, asked[u] # None, tskstat'[u] # "WAI"
        PROVE  Tells(eax[u], u)'
    <2>1. CASE tskstat[u] # "WAI"
      <3>1. Tells(eax[u], u) /\ eax'[u] = eax[u]
        BY <1>3, <1>5, <1>6, <1>9, <2>1 DEF AnswerInv, Truthful, Storing
      <3>2. QED
        BY <1>2, <3>1 DEF Tells
    <2>2. CASE tskstat[u] = "WAI"
      <3>1. eax'[u] = E_TMOUT
        BY <1>5, <1>6, <1>9, <2>2
      <3>2. unit[u] = None
        BY <1>9, <2>2 DEF AnswerInv, Unserved
      <3>3. QED
        BY <1>2, <1>6, <3>1, <3>2 DEF Tells
    <2>3. QED
      BY <2>1, <2>2
  <1>10. Truthful'
    BY <1>1, <1>2, <1>3, <1>9 DEF Truthful
  <1>11. QED
    BY <1>7, <1>8, <1>10

LEMMA StoreAnswers ==
  ASSUME AnswerInv, Cpu = {TickCpu}, NEW c \in Cpu, store_ret(c), Answer(c)
  PROVE  Owned' /\ Unserved' /\ Truthful'
  <1>1. /\ pc[c] = "ret" /\ pc' = [pc EXCEPT ![c] = "leave"]
        /\ eax' = [eax EXCEPT ![c_tskid[c]] = ret[c]]
        /\ UNCHANGED <<c_tskid, tskstat>>
    BY DEF store_ret, readyVars
  <1>2. PICK x \in Task : x = c_tskid[c]
    BY DEF AnswerInv, SemInv, Layer, TypeOK
  <1>3. eax \in [Task -> Int] /\ pc'[c] = "leave" /\ \A b \in Cpu : b = c
    BY <1>1 DEF AnswerInv, SemInv, Layer, TypeOK
  <1>4. UNCHANGED <<asked, unit>>
    BY <1>3 DEF Answer, Resumes, history
  <1>5. Owned' /\ Unserved'
    BY <1>1, <1>4 DEF AnswerInv, Owned, Unserved
  <1>6. ASSUME NEW u \in Task, asked[u] # None, tskstat[u] # "WAI"
        PROVE  Tells(eax[u], u)'
    <2>1. CASE u = x
      <3>1. Tells(ret[c], x)
        BY <1>1, <1>2, <1>6, <2>1 DEF AnswerInv, Truthful
      <3>2. QED
        BY <1>1, <1>2, <1>3, <1>4, <2>1, <3>1 DEF Tells
    <2>2. CASE u # x
      <3>1. ~Storing(u)
        BY <1>2, <1>3, <2>2 DEF Storing
      <3>2. Tells(eax[u], u)
        BY <1>6, <3>1 DEF AnswerInv, Truthful
      <3>3. QED
        BY <1>1, <1>2, <1>3, <1>4, <2>2, <3>2 DEF Tells
    <2>3. QED
      BY <2>1, <2>2
  <1>7. Truthful'
    BY <1>1, <1>3, <1>4, <1>6 DEF Truthful
  <1>8. QED
    BY <1>5, <1>7

\* The task that resumes has read its answer, and asks for nothing now.
LEMMA ResumeAnswers ==
  ASSUME AnswerInv, Cpu = {TickCpu}, NEW c \in Cpu, intr_leave(c) \/ clear_flag(c), Answer(c)
  PROVE  Owned' /\ Unserved' /\ Truthful'
  <1>1. /\ pc[c] \in {"leave", "clear"} /\ pc' = [pc EXCEPT ![c] = "user"]
        /\ eax' = [eax EXCEPT ![c_tskid[c]] = Popped]
        /\ UNCHANGED <<c_tskid, tskstat>>
    BY DEF intr_leave, clear_flag, Resume, readyVars
  <1>2. PICK x \in Task : x = c_tskid[c]
    BY DEF AnswerInv, SemInv, Layer, TypeOK
  <1>3. /\ eax \in [Task -> Int] /\ pc'[c] = "user" /\ \A b \in Cpu : b = c
        /\ asked \in [Task -> SemId \cup {None, Gone}]
        /\ unit \in [Task -> SemId \cup {None, Gone}]
    BY <1>1 DEF AnswerInv, SemInv, SemTypes, Layer, TypeOK
  <1>4. asked' = [asked EXCEPT ![x] = None] /\ unit' = [unit EXCEPT ![x] = None]
    BY <1>1, <1>2, <1>3 DEF Answer, Resumes
  <1>5. \A u \in Task : u # x => /\ asked'[u] = asked[u] /\ unit'[u] = unit[u]
                                 /\ eax'[u] = eax[u]
    BY <1>1, <1>2, <1>3, <1>4
  <1>6. asked'[x] = None /\ unit'[x] = None
    BY <1>3, <1>4
  <1>7. Owned' /\ Unserved'
    <2>1. \A u \in Task : unit'[u] \in {None, asked'[u]}
      BY <1>5, <1>6 DEF AnswerInv, Owned
    <2>2. \A u \in Task : tskstat'[u] = "WAI" /\ asked'[u] # None => unit'[u] = None
      BY <1>1, <1>5, <1>6 DEF AnswerInv, Unserved
    <2>3. QED
      BY <2>1, <2>2 DEF Owned, Unserved
  <1>8. ASSUME NEW u \in Task, asked'[u] # None, tskstat[u] # "WAI"
        PROVE  Tells(eax[u], u)'
    <2>1. u # x /\ ~Storing(u)
      BY <1>1, <1>3, <1>6, <1>8 DEF Storing
    <2>2. Tells(eax[u], u)
      BY <1>5, <1>8, <2>1 DEF AnswerInv, Truthful
    <2>3. QED
      BY <1>5, <2>1, <2>2 DEF Tells
  <1>9. Truthful'
    BY <1>1, <1>3, <1>8 DEF Truthful
  <1>10. QED
    BY <1>7, <1>9

LEMMA QuietAnswers ==
  ASSUME AnswerInv, Cpu = {TickCpu}, NEW c \in Cpu,
         Interrupt(c) \/ tick_done(c) \/ sched_do_next_tsk(c), Answer(c)
  PROVE  Owned' /\ Unserved' /\ Truthful'
  <1>1. /\ pc[c] # "ret" /\ eax' = eax
        /\ \E p \in {"leave", "tick", "clear"} : pc' = [pc EXCEPT ![c] = p]
    BY DEF Interrupt, irq0, apic_timer, tick_done, sched_do_next_tsk
  <1>2. pc'[c] # "ret" /\ pc'[c] # "user"
    BY <1>1 DEF AnswerInv, SemInv, Layer, TypeOK
  <1>3. UNCHANGED <<asked, unit>>
    BY <1>2 DEF Answer, Resumes, history
  <1>4. \A t \in Task : tskstat'[t] = "WAI" <=> tskstat[t] = "WAI"
    BY QuietKernel DEF AnswerInv, SemInv
  <1>5. \A b \in Cpu : pc[b] # "ret" /\ pc'[b] # "ret"
    BY <1>1, <1>2
  <1>6. Owned' /\ Unserved'
    BY <1>3, <1>4 DEF AnswerInv, Owned, Unserved
  <1>7. \A t \in Task : asked[t] # None /\ tskstat[t] # "WAI" => Tells(eax[t], t)
    BY <1>5 DEF AnswerInv, Truthful, Storing
  <1>8. Truthful'
    BY <1>1, <1>3, <1>4, <1>5, <1>7 DEF Truthful, Tells
  <1>9. QED
    BY <1>6, <1>8

-----------------------------------------------------------------------------
LEMMA AnswerInvInit ==
  ASSUME SemInit, Idle # {}
  PROVE  AnswerInv
  <1>1. /\ asked = [t \in Task |-> None] /\ unit = [t \in Task |-> None]
    BY DEF SemInit
  <1>2. Owned /\ Unserved
    BY <1>1 DEF Owned, Unserved
  <1>3. SemInv
    BY SemInvInit
  <1>4. Truthful
    <2>1. \A c \in Cpu : c_tskid[c] \in Task
      BY <1>3 DEF SemInv, Layer, TypeOK
    <2>2. QED
      BY <1>1, <2>1 DEF Truthful
  <1>5. QED
    BY <1>2, <1>3, <1>4 DEF AnswerInv

LEMMA AnswerInvStep ==
  ASSUME AnswerInv, SemApplication, Cpu = {TickCpu}, [SemNext]_semVars
  PROVE  AnswerInv'
  <1>1. SemInv'
    BY SemInvStep DEF AnswerInv
  <1>2. CASE UNCHANGED semVars
    <2>1. UNCHANGED <<pc, ret, c_tskid, tskstat, eax, asked, unit>>
      BY <1>2 DEF semVars, history, vars, readyVars
    <2>2. Owned' /\ Unserved' /\ Truthful'
      BY <2>1 DEF AnswerInv, Owned, Unserved, Truthful, Storing, Tells
    <2>3. QED
      BY <1>1, <2>2 DEF AnswerInv
  <1>3. ASSUME NEW c \in Cpu, SemCall(c)
        PROVE  AnswerInv'
    BY <1>1, <1>3, SemCallAnswers DEF AnswerInv
  <1>4. ASSUME NEW c \in Cpu, TaskStep(c)
        PROVE  Owned' /\ Unserved' /\ Truthful'
    <2>1. Answer(c)
      BY <1>4 DEF TaskStep
    <2>2. CASE SystemCall(c)
      BY <2>1, <2>2, SystemCallAnswers
    <2>3. CASE sched_timeout(c)
      BY <2>1, <2>3, TimeoutAnswers
    <2>4. CASE store_ret(c)
      BY <2>1, <2>4, StoreAnswers
    <2>5. CASE intr_leave(c) \/ clear_flag(c)
      BY <2>1, <2>5, ResumeAnswers
    <2>6. CASE Interrupt(c) \/ tick_done(c) \/ sched_do_next_tsk(c)
      BY <2>1, <2>6, QuietAnswers
    <2>7. QED
      BY <1>4, <2>2, <2>3, <2>4, <2>5, <2>6 DEF TaskStep, Kernel
  <1>5. QED
    BY <1>1, <1>2, <1>3, <1>4 DEF SemNext, AnswerInv

\* A task resumes once its answer has been stored.
LEMMA ResumesTold ==
  ASSUME AnswerInv, Cpu = {TickCpu}, SemNext, NEW c \in Cpu, Resumes(c),
         asked[c_tskid[c]] # None
  PROVE  Tells(eax[c_tskid[c]], c_tskid[c])
  <1>0. PICK b \in Cpu : SemCall(b) \/ TaskStep(b)
    BY DEF SemNext
  <1>1. b = c /\ pc \in [Cpu -> PC] /\ c_tskid[c] \in Task
    BY DEF AnswerInv, SemInv, Layer, TypeOK
  <1>2. pc[c] # "user" /\ pc'[c] = "user"
    BY DEF Resumes
  <1>3. ~SemCall(c) /\ ~SystemCall(c)
    <2>1. ~SystemCall(c)
      BY <1>2, CallSleepers DEF AnswerInv, SemInv, Layer
    <2>2. ~SemCall(c)
      BY <1>2 DEF SemCall, acre_sem, cre_sem, del_sem, sig_sem, pol_sem, twai_sem, Trap
    <2>3. QED
      BY <2>1, <2>2
  <1>4. intr_leave(c) \/ clear_flag(c)
    <2>1. Interrupt(c) \/ Kernel(c)
      BY <1>0, <1>1, <1>3 DEF TaskStep
    <2>2. ~(Interrupt(c) \/ tick_done(c) \/ store_ret(c) \/ sched_do_next_tsk(c)
              \/ sched_timeout(c))
      BY <1>1, <1>2 DEF Interrupt, irq0, apic_timer, tick_done, store_ret,
                        sched_do_next_tsk, sched_timeout
    <2>3. QED
      BY <2>1, <2>2 DEF Kernel
  <1>5. tskstat[c_tskid[c]] = "RUN"
    BY <1>2, <1>4, QuietKernel DEF AnswerInv, SemInv
  <1>6. \A d \in Cpu : pc[d] # "ret"
    BY <1>4 DEF intr_leave, clear_flag
  <1>7. QED
    BY <1>1, <1>5, <1>6 DEF AnswerInv, Truthful, Storing

LEMMA AnswerInvariance == SemApplication /\ Cpu = {TickCpu} /\ SemSpec => []AnswerInv
  <1> SUFFICES ASSUME SemApplication, Cpu = {TickCpu} PROVE SemSpec => []AnswerInv
    OBVIOUS
  <1>1. SemInit => AnswerInv
    BY AnswerInvInit DEF SemApplication
  <1>2. AnswerInv /\ [SemNext]_semVars => AnswerInv'
    BY AnswerInvStep
  <1>3. QED
    BY <1>1, <1>2, PTL DEF SemSpec

\* On one CPU, a task that comes back from a request reads E_OK if it was given
\* a unit and an error if not, whether it got its unit at once or after waiting,
\* was refused, timed out, or lost its semaphore while it waited
\* (kernel/sys_sem.c:97-188, kernel/sched.c:229, i386/syscall.c:59).
THEOREM AnswersTrue == SemApplication /\ Cpu = {TickCpu} /\ SemSpec => UnitAnswered
  <1> SUFFICES ASSUME SemApplication, Cpu = {TickCpu} PROVE SemSpec => UnitAnswered
    OBVIOUS
  <1>1. AnswerInv /\ [SemNext]_semVars
          => [\A c \in Cpu : Resumes(c) /\ asked[Cur(c)] # None =>
                (eax[Cur(c)] = E_OK <=> unit[Cur(c)] # None)]_semVars
    BY ResumesTold DEF Tells
  <1>2. QED
    BY <1>1, AnswerInvariance, PTL DEF SemSpec, UnitAnswered

-----------------------------------------------------------------------------
(***************************************************************************)
(* Units.  Each step moves at most one unit, between the semaphore, its    *)
(* way to a task, and what a task holds.                                   *)
(***************************************************************************)
OnWay(s) == {t \in Task : unit[t] = s}
Held(s) == Total([t \in Task |-> holds[t][s]], Task)

Balance(s) == semcnt[s] + Cardinality(OnWay(s)) + Held(s) = isemcnt[s]

Balanced == \A s \in SemId : act[s] => Balance(s)

UnitInv == AnswerInv /\ Balanced

One(b) == IF b THEN 1 ELSE 0

\* Sets that differ by one member at most.
LEMMA CountChange ==
  ASSUME NEW S, IsFiniteSet(S), NEW A, A \subseteq S, NEW B, B \subseteq S, NEW y \in S,
         \A x \in S : x # y => (x \in A <=> x \in B)
  PROVE  /\ Cardinality(A) \in Nat /\ Cardinality(B) \in Nat
         /\ Cardinality(A) + One(y \in B) = Cardinality(B) + One(y \in A)
  <1>1. IsFiniteSet(A) /\ IsFiniteSet(B)
    BY FS_Subset
  <1>2. Cardinality(A) \in Nat /\ Cardinality(B) \in Nat
    BY <1>1, FS_CardinalityType
  <1>3. CASE y \in A /\ y \notin B
    <2>1. B = A \ {y}
      BY <1>3
    <2>2. Cardinality(B) = Cardinality(A) - 1
      BY <1>1, <1>3, <2>1, FS_RemoveElement
    <2>3. One(y \in B) = 0 /\ One(y \in A) = 1
      BY <1>3 DEF One
    <2>4. QED
      BY <1>2, <2>2, <2>3
  <1>4. CASE y \in B /\ y \notin A
    <2>1. A = B \ {y}
      BY <1>4
    <2>2. Cardinality(A) = Cardinality(B) - 1
      BY <1>1, <1>4, <2>1, FS_RemoveElement
    <2>3. One(y \in B) = 1 /\ One(y \in A) = 0
      BY <1>4 DEF One
    <2>4. QED
      BY <1>2, <2>2, <2>3
  <1>5. CASE y \in A <=> y \in B
    <2>1. A = B
      BY <1>5
    <2>2. One(y \in A) = One(y \in B) /\ One(y \in A) \in Nat
      BY <1>5 DEF One
    <2>3. QED
      BY <1>2, <2>1, <2>2
  <1>6. QED
    BY <1>3, <1>4, <1>5

\* The parts of the sum are natural numbers, and a task holds no more than all.
LEMMA Parts ==
  ASSUME SemTypes, NEW s \in SemId
  PROVE  /\ Cardinality(OnWay(s)) \in Nat /\ Held(s) \in Nat /\ semcnt[s] \in Nat
         /\ \A t \in Task : holds[t][s] \in Nat /\ holds[t][s] <= Held(s)
  <1>1. PICK f : f = [t \in Task |-> holds[t][s]]
    OBVIOUS
  <1>2. \A t \in Task : holds[t][s] \in Nat
    BY DEF SemTypes
  <1>3. f \in [Task -> Nat]
    BY <1>1, <1>2
  <1>4. Total(f, Task) \in Nat /\ \A t \in Task : f[t] <= Total(f, Task)
    BY <1>3, FiniteAssumption, TotalNat
  <1>5. Cardinality(OnWay(s)) \in Nat
    <2>1. IsFiniteSet(OnWay(s))
      BY FiniteAssumption, FS_Subset DEF OnWay
    <2>2. QED
      BY <2>1, FS_CardinalityType
  <1>6. QED
    BY <1>1, <1>2, <1>4, <1>5 DEF Held, SemTypes

\* What task y is given or reads, and what task z takes or gives back, is what
\* the sum gains or loses.
LEMMA Moved ==
  ASSUME SemTypes, SemTypes', NEW s \in SemId, Balance(s),
         NEW y \in Task, \A t \in Task : t # y => (unit'[t] = s <=> unit[t] = s),
         NEW z \in Task, \A t \in Task : t # z => holds'[t][s] = holds[t][s],
         semcnt'[s] + One(unit'[y] = s) + holds'[z][s]
           = semcnt[s] + One(unit[y] = s) + holds[z][s]
  PROVE  Balance(s)'
  <1>1. PICK A, B : A = OnWay(s) /\ B = OnWay(s)'
    OBVIOUS
  <1>2. /\ A \subseteq Task /\ B \subseteq Task
        /\ \A t \in Task : (t \in A <=> unit[t] = s) /\ (t \in B <=> unit'[t] = s)
    BY <1>1 DEF OnWay
  <1>3. /\ Cardinality(A) \in Nat /\ Cardinality(B) \in Nat
        /\ Cardinality(A) + One(y \in B) = Cardinality(B) + One(y \in A)
    <2>1. \A t \in Task : t # y => (t \in A <=> t \in B)
      BY <1>2
    <2>2. QED
      BY <1>2, <2>1, FiniteAssumption, CountChange
  <1>4. One(y \in A) = One(unit[y] = s) /\ One(y \in B) = One(unit'[y] = s)
    BY <1>2 DEF One
  <1>5. PICK e, f : e = [t \in Task |-> holds[t][s]] /\ f = [t \in Task |-> holds'[t][s]]
    OBVIOUS
  <1>6. \A t \in Task : holds[t][s] \in Nat /\ holds'[t][s] \in Nat
    BY DEF SemTypes
  <1>7. e \in [Task -> Int] /\ f \in [Task -> Int]
    BY <1>5, <1>6
  <1>8. /\ Total(f, Task) \in Int /\ Total(e, Task) \in Int
        /\ Total(f, Task) - Total(e, Task) = f[z] - e[z]
    <2>1. \A t \in Task : t # z => f[t] = e[t]
      BY <1>5
    <2>2. QED
      BY <1>7, <2>1, FiniteAssumption, TotalChange
  <1>9. /\ f[z] = holds'[z][s] /\ e[z] = holds[z][s]
        /\ f[z] \in Nat /\ e[z] \in Nat /\ semcnt[s] \in Nat /\ semcnt'[s] \in Nat
        /\ isemcnt[s] \in Nat
    BY <1>5, <1>6, SemAssumption DEF SemTypes
  <1>10. /\ semcnt[s] + Cardinality(A) + Total(e, Task) = isemcnt[s]
         /\ Held(s)' = Total(f, Task)
    BY <1>1, <1>5 DEF Balance, Held
  <1>11. One(unit[y] = s) \in Nat /\ One(unit'[y] = s) \in Nat
    BY DEF One
  <1>12. semcnt'[s] + Cardinality(B) + Total(f, Task) = isemcnt[s]
    BY <1>3, <1>4, <1>8, <1>9, <1>10, <1>11
  <1>13. QED
    BY <1>1, <1>10, <1>12 DEF Balance

\* Nothing moves.
LEMMA Unmoved ==
  ASSUME SemTypes, SemTypes', NEW s \in SemId, Balance(s), NEW x \in Task,
         \A t \in Task : (unit'[t] = s <=> unit[t] = s) /\ holds'[t][s] = holds[t][s],
         semcnt'[s] = semcnt[s]
  PROVE  Balance(s)'
  <1>1. One(unit'[x] = s) = One(unit[x] = s)
    BY DEF One
  <1>2. QED
    BY <1>1, Moved

\* Everything is back.
LEMMA Fresh ==
  ASSUME SemTypes', NEW s \in SemId, semcnt'[s] = isemcnt[s],
         \A t \in Task : unit'[t] # s /\ holds'[t][s] = 0
  PROVE  Balance(s)'
  <1>1. OnWay(s)' = {} /\ Cardinality({}) = 0
    BY FS_EmptySet DEF OnWay
  <1>2. PICK f : f = [t \in Task |-> holds'[t][s]]
    OBVIOUS
  <1>3. f \in [Task -> Nat] /\ \A t \in Task : f[t] = 0
    BY <1>2
  <1>4. Total(f, Task) = 0
    BY <1>3, FiniteAssumption, TotalNat
  <1>5. QED
    BY <1>1, <1>2, <1>4, SemAssumption DEF Balance, Held

\* The semaphores other than s keep their units; s has what is shown for it.
KeepsUnits(q) ==
  /\ act'[q] => act[q]
  /\ semcnt'[q] = semcnt[q]
  /\ \A t \in Task : (unit'[t] = q <=> unit[t] = q) /\ holds'[t][q] = holds[t][q]

LEMMA OthersBalanced ==
  ASSUME UnitInv, SemTypes', NEW x \in Task, NEW s,
         \A q \in SemId : q = s \/ KeepsUnits(q),
         s \in SemId => KeepsUnits(s) \/ (act'[s] => Balance(s)')
  PROVE  Balanced'
  <1> SUFFICES ASSUME NEW q \in SemId, act'[q] PROVE Balance(q)'
    BY DEF Balanced
  <1>1. CASE KeepsUnits(q)
    <2>1. SemTypes /\ Balance(q)
      BY <1>1 DEF KeepsUnits, UnitInv, Balanced, AnswerInv, SemInv
    <2>2. QED
      BY <1>1, <2>1, Unmoved DEF KeepsUnits
  <1>2. CASE ~KeepsUnits(q)
    BY <1>2
  <1>3. QED
    BY <1>1, <1>2

LEMMA CreBalanced ==
  ASSUME UnitInv, SemTypes', NEW x \in Task, NEW c \in Cpu, NEW s \in SemId,
         sys_cre_sem(c, s), Forget(s)
  PROVE  Balanced'
  <1>1. /\ act' = [act EXCEPT ![s] = TRUE] /\ semcnt' = [semcnt EXCEPT ![s] = isemcnt[s]]
        /\ unit' = [t \in Task |-> IF unit[t] = s THEN Gone ELSE unit[t]]
        /\ holds' = [t \in Task |-> [holds[t] EXCEPT ![s] = 0]]
    BY DEF sys_cre_sem, Forget
  <1>2. SemTypes
    BY DEF UnitInv, AnswerInv, SemInv
  <1>3. ASSUME NEW q \in SemId, q # s
        PROVE  KeepsUnits(q)
    <2>1. act'[q] = act[q] /\ semcnt'[q] = semcnt[q]
      BY <1>1, <1>2, <1>3 DEF SemTypes
    <2>2. \A t \in Task : holds'[t][q] = holds[t][q]
      BY <1>1, <1>2, <1>3 DEF SemTypes
    <2>3. \A t \in Task : unit'[t] = q <=> unit[t] = q
      BY <1>1, <1>3, SemNodes
    <2>4. QED
      BY <2>1, <2>2, <2>3 DEF KeepsUnits
  <1>4. Balance(s)'
    <2>1. semcnt'[s] = isemcnt[s]
      BY <1>1, <1>2 DEF SemTypes
    <2>2. \A t \in Task : unit'[t] # s /\ holds'[t][s] = 0
      BY <1>1, <1>2, SemNodes DEF SemTypes
    <2>3. QED
      BY <2>1, <2>2, Fresh
  <1>5. QED
    BY <1>3, <1>4, OthersBalanced

LEMMA TakeBalanced ==
  ASSUME UnitInv, SemTypes', NEW c \in Cpu, pc[c] = "user", NEW s \in SemId,
         TakeUnit(c, s), holds' = holds
  PROVE  Balanced'
  <1>1. PICK x \in Task : x = c_tskid[c] /\ asked[x] = None
    BY UserCall DEF UnitInv, AnswerInv
  <1>2. SemTypes /\ unit[x] = None
    BY <1>1 DEF UnitInv, AnswerInv, SemInv, Owned
  <1>3. /\ semcnt[s] > 0 /\ semcnt' = [semcnt EXCEPT ![s] = semcnt[s] - 1]
        /\ unit' = [unit EXCEPT ![x] = s] /\ act' = act
    BY <1>1 DEF TakeUnit, Available, Taken
  <1>4. ASSUME NEW q \in SemId, q # s
        PROVE  KeepsUnits(q)
    BY <1>2, <1>3, <1>4, SemNodes DEF KeepsUnits, SemTypes
  <1>5. ASSUME act[s]
        PROVE  Balance(s)'
    <2>1. Balance(s) /\ s # None
      BY <1>5, SemNodes DEF UnitInv, Balanced
    <2>2. \A t \in Task : t # x => (unit'[t] = s <=> unit[t] = s)
      BY <1>2, <1>3 DEF SemTypes
    <2>3. unit'[x] = s /\ unit[x] # s
      BY <1>2, <1>3, <2>1 DEF SemTypes
    <2>4. semcnt[s] \in Nat /\ semcnt'[s] = semcnt[s] - 1 /\ holds[x][s] \in Nat
      BY <1>2, <1>3 DEF SemTypes
    <2>5. One(unit'[x] = s) = 1 /\ One(unit[x] = s) = 0
      BY <2>3 DEF One
    <2>6. semcnt'[s] + One(unit'[x] = s) + holds'[x][s]
            = semcnt[s] + One(unit[x] = s) + holds[x][s]
      BY <2>4, <2>5
    <2>7. \A t \in Task : t # x => holds'[t][s] = holds[t][s]
      OBVIOUS
    <2>8. QED
      BY <1>2, <2>1, <2>2, <2>6, <2>7, Moved
  <1>6. QED
    BY <1>3, <1>4, <1>5, OthersBalanced

\* A signal of a semaphore that exists gives back a unit, or finds them all.
LEMMA SigBalanced ==
  ASSUME UnitInv, UnitApplication, SemTypes', NEW c \in Cpu, NEW s \in SemId, sig_sem(c, s)
  PROVE  Balanced'
  <1>1. /\ pc[c] = "user"
        /\ holds' = [holds EXCEPT ![c_tskid[c]][s] = IF @ > 0 THEN @ - 1 ELSE 0]
        /\ Signals(c_tskid[c], s)
    BY DEF sig_sem
  <1>2. PICK x \in Task : x = c_tskid[c]
    BY <1>1, UserCall DEF UnitInv, AnswerInv
  <1>3. SemTypes /\ SemInv
    BY DEF UnitInv, AnswerInv, SemInv
  <1>4. PICK n \in Nat : n = holds[x][s]
    BY <1>3 DEF SemTypes
  <1>5. /\ \A t \in Task, q \in SemId : t # x \/ q # s => holds'[t][q] = holds[t][q]
        /\ holds'[x][s] = IF n > 0 THEN n - 1 ELSE 0
    BY <1>1, <1>2, <1>3, <1>4 DEF SemTypes
  <1>6. n > 0 \/ semcnt[s] = maxsem[s] \/ ~act[s]
    BY <1>1, <1>2, <1>4 DEF Signals
  <1>7. /\ semcnt[s] \in Nat /\ isemcnt[s] \in Nat /\ maxsem[s] \in Nat
        /\ isemcnt[s] <= maxsem[s] /\ 0 < maxsem[s]
    BY <1>3, SemAssumption DEF SemTypes, UnitApplication
  <1>8. PICK t : t = wlink.next[wlink_head(s)]
    OBVIOUS
  <1>9. ASSUME unit' = unit, UNCHANGED <<act, semcnt>>, ~act[s] \/ n = 0
        PROVE  Balanced'
    <2>1. \A q \in SemId : q # s => KeepsUnits(q)
      BY <1>5, <1>9 DEF KeepsUnits
    <2>2. ASSUME n = 0
          PROVE  KeepsUnits(s)
      <3>1. holds'[x][s] = holds[x][s]
        BY <1>4, <1>5, <2>2
      <3>2. \A u \in Task : holds'[u][s] = holds[u][s]
        BY <1>5, <3>1
      <3>3. QED
        BY <1>9, <3>2 DEF KeepsUnits
    <2>3. KeepsUnits(s) \/ ~act'[s]
      BY <1>9, <2>2
    <2>4. QED
      BY <2>1, <2>3, OthersBalanced
  <1>10. CASE ~act[s] /\ Refuse(c, E_NOEXS) /\ unit' = unit
    BY <1>9, <1>10 DEF Refuse, sem
  <1>11. CASE SemFull(s) /\ Refuse(c, E_QOVR) /\ unit' = unit
    <2>1. act[s] => n = 0
      <3> SUFFICES ASSUME act[s] PROVE n = 0
        OBVIOUS
      <3>1. semcnt[s] + Cardinality(OnWay(s)) + Held(s) = isemcnt[s]
        BY DEF UnitInv, Balanced, Balance
      <3>2. Cardinality(OnWay(s)) \in Nat /\ Held(s) \in Nat /\ n <= Held(s)
        BY <1>3, <1>4, Parts
      <3>3. semcnt[s] + 1 > maxsem[s]
        BY <1>11 DEF SemFull
      <3>4. QED
        BY <1>7, <3>1, <3>2, <3>3
    <2>2. QED
      BY <1>9, <1>11, <2>1 DEF Refuse, sem
  <1>12. CASE /\ act[s] /\ ~SemFull(s) /\ semcnt' = [semcnt EXCEPT ![s] = @ + 1]
              /\ UNCHANGED <<act, unit>>
    <2>1. n > 0
      BY <1>6, <1>7, <1>12 DEF SemFull
    <2>2. \A q \in SemId : q # s => KeepsUnits(q)
      BY <1>3, <1>5, <1>12 DEF KeepsUnits, SemTypes
    <2>3. semcnt'[s] = semcnt[s] + 1 /\ holds'[x][s] = n - 1
      BY <1>3, <1>5, <1>12, <2>1 DEF SemTypes
    <2>4. One(unit'[x] = s) = One(unit[x] = s) /\ One(unit[x] = s) \in Nat
      BY <1>12 DEF One
    <2>5. semcnt'[s] + One(unit'[x] = s) + holds'[x][s]
            = semcnt[s] + One(unit[x] = s) + holds[x][s]
      BY <1>4, <1>7, <2>3, <2>4
    <2>6. Balance(s)
      BY <1>12 DEF UnitInv, Balanced
    <2>7. \A u \in Task : /\ u # x => (unit'[u] = s <=> unit[u] = s)
                          /\ u # x => holds'[u][s] = holds[u][s]
      BY <1>5, <1>12
    <2>8. Balance(s)'
      BY <1>3, <2>5, <2>6, <2>7, Moved
    <2>9. QED
      BY <2>2, <2>8, OthersBalanced
  <1>13. CASE act[s] /\ t # wlink_head(s) /\ Hand(s, t)
    <2>1. t \in Task /\ tskstat[t] = "WAI" /\ asked[t] = s
      <3>1. PICK h, S : h = wlink_head(s) /\ S = WaitersOf[h]
        OBVIOUS
      <3>2. /\ IsList(WNode, wlink, h, S) /\ S \subseteq Task
            /\ S = {u \in Task : tskstat[u] = "WAI" /\ asked[u] = s}
        BY <1>3, <3>1, QueueOfSem
      <3>3. ListFacts(WNode, wlink, h, S)
        BY <3>2, ListLinks
      <3>4. t \in S
        BY <1>8, <1>13, <3>1, <3>3 DEF ListFacts
      <3>5. QED
        BY <3>2, <3>4
    <2>2. s # None /\ semcnt[s] = 0 /\ unit[t] = None
      <3>1. s # None
        BY SemNodes
      <3>2. QED
        BY <1>3, <2>1, <3>1 DEF SemInv, Waits, Waiting, WaitsForUnit, UnitInv, AnswerInv, Unserved
    <2>3. n > 0
      BY <1>6, <1>7, <1>13, <2>2
    <2>4. unit' = [unit EXCEPT ![t] = s] /\ UNCHANGED <<act, semcnt>>
      BY <1>13 DEF Hand, sem
    <2>5. /\ \A u \in Task : u # t => unit'[u] = unit[u]
          /\ unit'[t] = s
      BY <1>3, <2>1, <2>4 DEF SemTypes
    <2>6. \A q \in SemId : q # s => KeepsUnits(q)
      <3> SUFFICES ASSUME NEW q \in SemId, q # s PROVE KeepsUnits(q)
        OBVIOUS
      <3>1. q # None
        BY SemNodes
      <3>2. \A u \in Task : unit'[u] = q <=> unit[u] = q
        BY <2>1, <2>2, <2>5, <3>1
      <3>3. QED
        BY <1>5, <2>4, <3>2 DEF KeepsUnits
    <2>7. One(unit'[t] = s) = 1 /\ One(unit[t] = s) = 0 /\ holds'[x][s] = n - 1
      BY <1>5, <2>2, <2>3, <2>5 DEF One
    <2>8. semcnt'[s] + One(unit'[t] = s) + holds'[x][s]
            = semcnt[s] + One(unit[t] = s) + holds[x][s]
      BY <1>4, <1>7, <2>4, <2>7
    <2>9. Balance(s)
      BY <1>13 DEF UnitInv, Balanced
    <2>10. /\ \A u \in Task : u # t => (unit'[u] = s <=> unit[u] = s)
           /\ \A u \in Task : u # x => holds'[u][s] = holds[u][s]
      BY <1>5, <2>5
    <2>11. Balance(s)'
      BY <1>3, <2>1, <2>8, <2>9, <2>10, Moved
    <2>12. QED
      BY <2>6, <2>11, OthersBalanced
  <1>14. QED
    BY <1>8, <1>10, <1>11, <1>12, <1>13 DEF sig_sem

LEMMA SemCallBalanced ==
  ASSUME UnitInv, UnitApplication, SemTypes', NEW c \in Cpu, SemCall(c)
  PROVE  Balanced'
  <1>1. pc[c] = "user"
    BY DEF SemCall, acre_sem, cre_sem, del_sem, sig_sem, pol_sem, twai_sem, Trap
  <1>2. PICK x \in Task : x = c_tskid[c]
    BY <1>1, UserCall DEF UnitInv, AnswerInv
  <1>3. ASSUME UNCHANGED <<act, semcnt, unit, holds>>
        PROVE  Balanced'
    <2>1. \A q \in SemId : KeepsUnits(q)
      BY <1>3 DEF KeepsUnits
    <2>2. QED
      BY <2>1, OthersBalanced
  <1>4. ASSUME NEW s \in SemId, sys_cre_sem(c, s), Forget(s)
        PROVE  Balanced'
    BY <1>4, CreBalanced
  <1>5. CASE acre_sem(c)
    BY <1>3, <1>4, <1>5 DEF acre_sem, Refuse, sem, history
  <1>6. ASSUME NEW s \in SemId, cre_sem(c, s)
        PROVE  Balanced'
    BY <1>3, <1>4, <1>6 DEF cre_sem, Refuse, sem, history
  <1>7. ASSUME NEW s \in SemId, del_sem(c, s)
        PROVE  Balanced'
    <2>1. UNCHANGED <<unit, holds, semcnt>>
      BY <1>7 DEF del_sem, Refuse, sem, history
    <2>2. act' = act \/ act' = [act EXCEPT ![s] = FALSE]
      BY <1>7 DEF del_sem, Refuse, sem
    <2>3. \A q \in SemId : act'[q] => act[q]
      BY <2>2 DEF UnitInv, AnswerInv, SemInv, SemTypes
    <2>4. \A q \in SemId : KeepsUnits(q)
      BY <2>1, <2>3 DEF KeepsUnits
    <2>5. QED
      BY <2>4, OthersBalanced
  <1>8. ASSUME NEW s \in SemId, pol_sem(c, s)
        PROVE  Balanced'
    <2>1. holds' = holds
      BY <1>8 DEF pol_sem
    <2>2. CASE TakeUnit(c, s)
      BY <1>1, <2>1, <2>2, TakeBalanced
    <2>3. CASE ~TakeUnit(c, s)
      <3>1. UNCHANGED <<act, semcnt, unit>>
        BY <1>8, <2>3 DEF pol_sem, Refuse, sem
      <3>2. QED
        BY <1>3, <2>1, <3>1
    <2>4. QED
      BY <2>2, <2>3
  <1>9. ASSUME NEW s \in SemId, twai_sem(c, s)
        PROVE  Balanced'
    <2>1. holds' = holds
      BY <1>9 DEF twai_sem
    <2>2. CASE TakeUnit(c, s)
      BY <1>1, <2>1, <2>2, TakeBalanced
    <2>3. CASE ~TakeUnit(c, s)
      <3>1. UNCHANGED <<act, semcnt, unit>>
        BY <1>9, <2>3 DEF twai_sem, WaitUnit, Refuse, sem
      <3>2. QED
        BY <1>3, <2>1, <3>1
    <2>4. QED
      BY <2>2, <2>3
  <1>10. QED
    BY <1>5, <1>6, <1>7, <1>8, <1>9, SigBalanced DEF SemCall

\* A task that reads E_OK holds the unit that was on its way to it.
LEMMA TaskStepBalanced ==
  ASSUME UnitInv, UnitApplication, SemTypes', SemNext, NEW c \in Cpu, TaskStep(c)
  PROVE  Balanced'
  <1>1. Answer(c) /\ UNCHANGED <<act, semcnt>>
    BY DEF TaskStep, sem
  <1>2. PICK x \in Task : x = c_tskid[c]
    BY DEF UnitInv, AnswerInv, SemInv, Layer, TypeOK
  <1>3. SemTypes
    BY DEF UnitInv, AnswerInv, SemInv
  <1>4. CASE ~Resumes(c)
    <2>1. UNCHANGED <<unit, holds>>
      BY <1>1, <1>4 DEF Answer, history
    <2>2. \A q \in SemId : KeepsUnits(q)
      BY <1>1, <2>1 DEF KeepsUnits
    <2>3. QED
      BY <1>2, <2>2, OthersBalanced
  <1>5. CASE Resumes(c)
    <2>0. PICK s : s = asked[x]
      OBVIOUS
    <2>1. /\ holds' = IF s \in SemId /\ eax[x] = E_OK
                      THEN [holds EXCEPT ![x][s] = IF @ < MaxHolds(s) THEN @ + 1 ELSE @]
                      ELSE holds
          /\ unit' = [unit EXCEPT ![x] = None]
      BY <1>1, <1>2, <1>5, <2>0 DEF Answer
    <2>2. /\ \A t \in Task : t # x => unit'[t] = unit[t]
          /\ unit'[x] = None /\ unit[x] \in {None, s}
      BY <1>3, <2>0, <2>1 DEF SemTypes, UnitInv, AnswerInv, Owned
    <2>3. s # None => (eax[x] = E_OK <=> unit[x] # None)
      <3>1. Cpu = {TickCpu} /\ AnswerInv
        BY DEF UnitApplication, UnitInv
      <3>2. QED
        BY <1>2, <1>5, <2>0, <3>1, ResumesTold DEF Tells
    <2>4. CASE s \in SemId /\ eax[x] = E_OK
      <3>1. s # None /\ unit[x] = s
        BY <2>2, <2>3, <2>4, SemNodes
      <3>2. PICK n \in Nat : n = holds[x][s]
        BY <1>3, <2>4 DEF SemTypes
      <3>3. /\ \A t \in Task, q \in SemId : t # x \/ q # s => holds'[t][q] = holds[t][q]
            /\ holds'[x][s] = IF n < MaxHolds(s) THEN n + 1 ELSE n
        BY <1>3, <2>1, <2>4, <3>2 DEF SemTypes
      <3>4. \A q \in SemId : q # s => KeepsUnits(q)
        <4> SUFFICES ASSUME NEW q \in SemId, q # s PROVE KeepsUnits(q)
          OBVIOUS
        <4>1. q # None
          BY SemNodes
        <4>2. \A t \in Task : unit'[t] = q <=> unit[t] = q
          BY <2>2, <3>1, <4>1
        <4>3. QED
          BY <1>1, <3>3, <4>2 DEF KeepsUnits
      <3>5. ASSUME act[s]
            PROVE  Balance(s)'
        <4>1. Balance(s)
          BY <2>4, <3>5 DEF UnitInv, Balanced
        <4>2. n < MaxHolds(s)
          <5>1. semcnt[s] + Cardinality(OnWay(s)) + Held(s) = isemcnt[s]
            BY <4>1 DEF Balance
          <5>2. /\ Cardinality(OnWay(s)) \in Nat /\ Held(s) \in Nat /\ n <= Held(s)
                /\ semcnt[s] \in Nat
            BY <1>3, <2>4, <3>2, Parts
          <5>3. isemcnt[s] \in Nat /\ maxsem[s] \in Nat /\ isemcnt[s] <= maxsem[s]
            BY <2>4, SemAssumption DEF UnitApplication
          <5>4. QED
            BY <5>1, <5>2, <5>3 DEF MaxHolds
        <4>3. One(unit'[x] = s) = 0 /\ One(unit[x] = s) = 1 /\ holds'[x][s] = n + 1
          BY <2>2, <3>1, <3>3, <4>2 DEF One
        <4>4. semcnt'[s] + One(unit'[x] = s) + holds'[x][s]
                = semcnt[s] + One(unit[x] = s) + holds[x][s]
          <5>1. semcnt[s] \in Nat /\ semcnt'[s] = semcnt[s]
            BY <1>1, <1>3, <2>4 DEF SemTypes
          <5>2. QED
            BY <3>2, <4>3, <5>1
        <4>5. \A t \in Task : /\ t # x => (unit'[t] = s <=> unit[t] = s)
                              /\ t # x => holds'[t][s] = holds[t][s]
          BY <2>2, <2>4, <3>3
        <4>6. QED
          BY <1>3, <2>4, <4>1, <4>4, <4>5, Moved
      <3>6. QED
        BY <1>1, <3>4, <3>5, OthersBalanced
    <2>5. CASE ~(s \in SemId /\ eax[x] = E_OK)
      <3>1. holds' = holds
        BY <2>1, <2>5
      <3>2. \A q \in SemId, t \in Task : unit'[t] = q <=> unit[t] = q
        <4> SUFFICES ASSUME NEW q \in SemId PROVE unit[x] # q /\ unit'[x] # q
          BY <2>2
        <4>1. q # None
          BY SemNodes
        <4>2. QED
          BY <2>2, <2>3, <2>5, <4>1
      <3>3. \A q \in SemId : KeepsUnits(q)
        BY <1>1, <3>1, <3>2 DEF KeepsUnits
      <3>4. QED
        BY <3>3, OthersBalanced
    <2>6. QED
      BY <2>4, <2>5
  <1>6. QED
    BY <1>4, <1>5

-----------------------------------------------------------------------------
LEMMA UnitInvInit ==
  ASSUME SemInit, Idle # {}
  PROVE  UnitInv
  <1>1. \A s \in SemId : ~act[s]
    BY DEF SemInit
  <1>2. AnswerInv
    BY AnswerInvInit
  <1>3. QED
    BY <1>1, <1>2 DEF UnitInv, Balanced

LEMMA UnitInvStep ==
  ASSUME UnitInv, UnitApplication, [SemNext]_semVars
  PROVE  UnitInv'
  <1>1. AnswerInv' /\ SemTypes'
    BY AnswerInvStep DEF UnitInv, UnitApplication, AnswerInv, SemInv
  <1>2. CASE UNCHANGED semVars
    <2>1. UNCHANGED <<act, semcnt, unit, holds>>
      BY <1>2 DEF semVars, sem, history
    <2>2. QED
      BY <1>1, <2>1 DEF UnitInv, Balanced, Balance, OnWay, Held
  <1>3. ASSUME NEW c \in Cpu, SemCall(c)
        PROVE  Balanced'
    BY <1>1, <1>3, SemCallBalanced
  <1>4. ASSUME NEW c \in Cpu, TaskStep(c), SemNext
        PROVE  Balanced'
    BY <1>1, <1>4, TaskStepBalanced
  <1>5. QED
    BY <1>1, <1>2, <1>3, <1>4 DEF SemNext, UnitInv

\* The sum that the property takes is the total of the proof.
LEMMA SumIsTotal ==
  ASSUME NEW S, IsFiniteSet(S), NEW h, NEW q, \A t \in S : h[t][q] \in Int
  PROVE  MapThenSumSet(LAMBDA t : h[t][q], S) = Total([t \in S |-> h[t][q]], S)
  <1>1. PICK f : f = [t \in S |-> h[t][q]]
    OBVIOUS
  <1>2. f \in [S -> Int] /\ \A t \in S : f[t] = h[t][q]
    BY <1>1
  <1>3. PICK g : /\ MapThenSumSet(LAMBDA t : h[t][q], S) = g[S]
                 /\ g = CHOOSE k : k = [U \in SUBSET S |->
                          IF U = {} THEN 0 ELSE h[Pick(U)][q] + k[U \ {Pick(U)}]]
    BY Zenon DEF MapThenSumSet, MapThenFoldSet, Pick
  <1>4. ASSUME NEW k
        PROVE  IsTotal(k, f, S) <=>
                 k = [U \in SUBSET S |->
                        IF U = {} THEN 0 ELSE h[Pick(U)][q] + k[U \ {Pick(U)}]]
    <2>1. \A U \in SUBSET S : U # {} => f[Pick(U)] = h[Pick(U)][q]
      BY <1>2, Picked
    <2>2. QED
      BY <2>1 DEF IsTotal
  <1>5. IsTotal(g, f, S)
    <2>1. \E k : IsTotal(k, f, S)
      BY <1>2, TotalExists
    <2>2. \E k : k = [U \in SUBSET S |->
                        IF U = {} THEN 0 ELSE h[Pick(U)][q] + k[U \ {Pick(U)}]]
      BY <1>4, <2>1
    <2>3. g = [U \in SUBSET S |-> IF U = {} THEN 0 ELSE h[Pick(U)][q] + g[U \ {Pick(U)}]]
      BY <1>3, <2>2, Zenon
    <2>4. QED
      BY <1>4, <2>3
  <1>6. PICK k \in [SUBSET S -> Int] : IsTotal(k, f, S) /\ Total(f, S) = k[S]
    BY <1>2, TotalIs
  <1>7. g[S] = k[S]
    <2>1. CASE S = {}
      BY <1>5, <1>6, <2>1, Totalled
    <2>2. ASSUME NEW y \in S
          PROVE  g[S] = k[S]
      <3>1. /\ g[S] \in Int /\ k[S] \in Int
            /\ g[S] - k[S] = f[y] - f[y]
        BY <1>2, <1>5, <1>6, <2>2, TotalsAgree
      <3>2. f[y] \in Int
        BY <1>2, <2>2
      <3>3. QED
        BY <3>1, <3>2
    <2>3. QED
      BY <2>1, <2>2
  <1>8. QED
    BY <1>1, <1>3, <1>6, <1>7

LEMMA UnitInvConserves ==
  ASSUME UnitInv
  PROVE  UnitsConserved
  <1> SUFFICES ASSUME NEW s \in SemId, act[s]
               PROVE  semcnt[s] + Cardinality({t \in Task : unit[t] = s})
                        + MapThenSumSet(LAMBDA t : holds[t][s], Task) = isemcnt[s]
    BY DEF UnitsConserved
  <1>1. \A t \in Task : holds[t][s] \in Int
    BY DEF UnitInv, AnswerInv, SemInv, SemTypes
  <1>2. MapThenSumSet(LAMBDA t : holds[t][s], Task) = Held(s)
    BY <1>1, FiniteAssumption, SumIsTotal DEF Held
  <1>3. semcnt[s] + Cardinality(OnWay(s)) + Held(s) = isemcnt[s]
    BY DEF UnitInv, Balanced, Balance
  <1>4. QED
    BY <1>2, <1>3 DEF OnWay

LEMMA UnitInvariance == UnitApplication /\ SemSpec => []UnitInv
  <1> SUFFICES ASSUME UnitApplication PROVE SemSpec => []UnitInv
    OBVIOUS
  <1>1. SemInit => UnitInv
    BY UnitInvInit DEF UnitApplication, SemApplication
  <1>2. UnitInv /\ [SemNext]_semVars => UnitInv'
    BY UnitInvStep
  <1>3. QED
    BY <1>1, <1>2, PTL DEF SemSpec

\* A semaphore has, at every moment, all the units it was created with: free,
\* on their way to tasks that were woken and have not yet come back, or held.
\* None is lost and none made by the ways into and out of the wait queue
\* (kernel/sys_sem.c:97-188, kernel/sched.c:229), for any number of tasks,
\* semaphores and priorities.
THEOREM UnitsNeverLost == UnitApplication /\ SemSpec => []UnitsConserved
  <1> SUFFICES ASSUME UnitApplication PROVE SemSpec => []UnitsConserved
    OBVIOUS
  <1>1. UnitInv => UnitsConserved
    BY UnitInvConserves
  <1>2. QED
    BY <1>1, UnitInvariance, PTL
=============================================================================
