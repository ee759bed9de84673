--------------------------- MODULE ObjectsProofs ---------------------------
(***************************************************************************)
(* Proofs about mailboxes, message buffers, event flags and mutexes, on    *)
(* the lemmas of WaitsProofs about the queues of a set H of heads with a   *)
(* set B of tasks that may block at them.                                  *)
(***************************************************************************)
EXTENDS Mailbox, MessageBuffer, EventFlag, Mutex, WaitsProofs, SequenceTheorems, TLAPS

USE DEF Cur, PC, Stat

-----------------------------------------------------------------------------
(***************************************************************************)
(* Mailboxes.  Nothing is said of the bytes in the list heads but which of *)
(* them are zero: while somebody waits, those that a receive looks at are. *)
(***************************************************************************)
MbxHeads == {mbx_wlink(b) : b \in MbxId}
MbxBlockers ==
  {t \in Task : \E b \in MbxId : Issues(t, "trcv_mbx", b) \/ Issues(t, "rcv_mbx", b)}

MailTyped ==
  /\ mbx_act = [b \in MbxId |-> mbx_act[b]]
  /\ mprihd = [b \in MbxId |-> mprihd[b]]
  /\ \A b \in MbxId : mprihd[b] \in [Level(b) -> Octet]
  /\ mbxout \in [Task -> Address \cup {Unread}]

MbxHeard == \A c \in Cpu : pc[c] = "user" => mbxout[c_tskid[c]] = Unread

\* What the sleepers of the queues L are promised.
Attended(L) == \A b \in MbxId : L[mbx_wlink(b)] # {} => mbx_act[b] /\ Found(b) = {}
Unanswered(L) == \A h \in MbxHeads : \A t \in L[h] : mbxout[t] = NULL
Enlisted(L) == \A t \in Task : Receives(t) => \E h \in MbxHeads : t \in L[h]

MbxWaits(L) ==
  /\ Queues(MbxHeads, MbxBlockers, L) /\ Asleep(MbxHeads, L)
  /\ Attended(L) /\ Unanswered(L) /\ Enlisted(L)

MbxInv == Layer /\ MailTyped /\ MbxHeard /\ \E L : MbxWaits(L)

LEMMA MbxNodes ==
  ASSUME Application(MbxBlockers)
  PROVE  /\ Undisturbed(MbxHeads, MbxBlockers)
         /\ \A b \in MbxId : /\ b \in Int /\ mbx_wlink(b) \in MbxHeads
                             /\ maxmpri[b] \in Nat \ {0}
         /\ \A a, b \in MbxId : mbx_wlink(a) = mbx_wlink(b) => a = b
  <1>1. MbxHeads \subseteq WHead
    BY MbxAssumption DEF MbxHeads
  <1>2. \A b \in MbxId : b \in Int /\ maxmpri[b] \in Nat \ {0}
    BY MbxAssumption
  <1>3. \A a, b \in MbxId : mbx_wlink(a) = mbx_wlink(b) => a = b
    BY <1>2 DEF mbx_wlink
  <1>4. QED
    BY <1>1, <1>2, <1>3 DEF Undisturbed, MbxHeads, MbxBlockers

\* Addresses: NULL is one, Unread is none, and a byte that is not 0 makes
\* another one than NULL.
LEMMA Addresses ==
  /\ NULL \in Address /\ NULL # Unread /\ Unread \notin Address
  /\ \A x \in Octet : Extended(x) \in Address
  /\ \A m \in Mail : m \in Address /\ m # NULL
  <1>1. \A x \in Octet : Extended(x) \in Address
    BY DEF Octet, Address, Extended
  <1>2. NULL \in Address /\ Len(NULL) = 4
    BY DEF NULL, Address, Octet
  <1>3. Unread \notin Address
    <2>1. \A x \in Address : DOMAIN x = 1 .. 4
      BY DEF Address
    <2>2. DOMAIN Unread = {}
      BY DEF Unread
    <2>3. QED
      BY <2>1, <2>2
  <1>4. QED
    BY <1>1, <1>2, <1>3, MbxAssumption

\* Creation and deletion clear the heads.
LEMMA NoMailFound ==
  ASSUME MailTyped, NEW b \in MbxId, mprihd' = [mprihd EXCEPT ![b] = NoMail(b)],
         NEW v \in BOOLEAN, mbx_act' = [mbx_act EXCEPT ![b] = v], mbxout' = mbxout
  PROVE  /\ MailTyped' /\ Found(b)' = {} /\ mbx_act'[b] = v
         /\ \A a \in MbxId : a # b => Found(a)' = Found(a) /\ mbx_act'[a] = mbx_act[a]
  <1>1. \A a \in MbxId : mprihd'[a] = IF a = b THEN NoMail(b) ELSE mprihd[a]
    BY DEF MailTyped
  <1>2. NoMail(b) \in [Level(b) -> Octet] /\ \A p \in Level(b) : NoMail(b)[p] = 0
    BY DEF NoMail, Octet
  <1>3. mprihd' = [a \in MbxId |-> mprihd'[a]] /\ mbx_act' = [a \in MbxId |-> mbx_act'[a]]
    BY DEF MailTyped
  <1>4. MailTyped'
    BY <1>1, <1>2, <1>3 DEF MailTyped, Level
  <1>5. \A a \in MbxId : mbx_act'[a] = IF a = b THEN v ELSE mbx_act[a]
    BY DEF MailTyped
  <1>6. QED
    BY <1>1, <1>2, <1>4, <1>5 DEF Found, Level

\* A store into the heads of one mailbox.
LEMMA HeadsStored ==
  ASSUME MailTyped, NEW b \in MbxId, NEW f \in [Level(b) -> Octet],
         mprihd' = [mprihd EXCEPT ![b] = f], mbx_act' = mbx_act,
         mbxout' \in [Task -> Address \cup {Unread}]
  PROVE  /\ MailTyped' /\ mprihd'[b] = f
         /\ \A a \in MbxId : a # b => Found(a)' = Found(a)
  <1>1. \A a \in MbxId : mprihd'[a] = IF a = b THEN f ELSE mprihd[a]
    BY DEF MailTyped
  <1>2. mprihd' = [a \in MbxId |-> mprihd'[a]]
    BY DEF MailTyped
  <1>3. MailTyped'
    BY <1>1, <1>2 DEF MailTyped, Level
  <1>4. QED
    BY <1>1, <1>3 DEF Found, Level

-----------------------------------------------------------------------------
\* The byte that a receive takes is not zero.
LEMMA TakeFirst ==
  ASSUME MailTyped, NEW b \in MbxId, Found(b) # {}
  PROVE  \E q \in Level(b) : q = Min(Found(b)) /\ q \in Found(b)
  <1>1. PICK F : F = Found(b)
    OBVIOUS
  <1>2. F \subseteq Nat /\ F # {}
    BY <1>1, MbxAssumption DEF Found, Level
  <1>3. \E p \in F : \A k \in F : p <= k
    BY <1>2, Least
  <1>4. Min(F) \in F
    BY <1>3 DEF Min
  <1>5. QED
    BY <1>1, <1>4 DEF Found

\* A CPU goes into the kernel; the tasks of the others go on unread.
LEMMA OthersUnread ==
  ASSUME MbxInv, NEW c \in Cpu, pc[c] = "user", NEW to, to # "user",
         pc' = [pc EXCEPT ![c] = to], c_tskid' = c_tskid,
         \A t \in Task : t # c_tskid[c] => (mbxout[t] = Unread => mbxout'[t] = Unread)
  PROVE  MbxHeard'
  <1> SUFFICES ASSUME NEW b \in Cpu, pc'[b] = "user" PROVE mbxout'[c_tskid'[b]] = Unread
    BY DEF MbxHeard
  <1>1. pc \in [Cpu -> PC] /\ c_tskid[b] \in Task
    BY DEF MbxInv, Layer, TypeOK
  <1>2. b # c /\ pc[b] = "user"
    BY <1>1
  <1>3. c_tskid[b] # c_tskid[c]
    BY <1>2 DEF MbxInv, Layer, Placed
  <1>4. QED
    BY <1>1, <1>2, <1>3 DEF MbxInv, MbxHeard

\* The task in user mode waits for nothing.
LEMMA MbxCaller ==
  ASSUME MbxInv, NEW L, MbxWaits(L), NEW c \in Cpu, pc[c] = "user"
  PROVE  /\ c_tskid[c] \in Task /\ tskstat[c_tskid[c]] = "RUN"
         /\ mbxout[c_tskid[c]] = Unread
         /\ \A h \in MbxHeads : c_tskid[c] \notin L[h]
  BY Running DEF MbxInv, MbxHeard, MbxWaits, Asleep

\* What a step does to the mailboxes apart from the queues, the caller apart.
MailMoves(c, L) ==
  /\ MailTyped'
  /\ \A t \in Task : t # c_tskid[c] => mbxout'[t] = mbxout[t]
  /\ \A b \in MbxId : L[mbx_wlink(b)] # {} =>
       (mbx_act[b] => mbx_act'[b]) /\ Found(b)' \subseteq Found(b)

LEMMA MailSame ==
  ASSUME MailTyped, UNCHANGED <<mbx_act, mprihd, mbxout>>
  PROVE  /\ MailTyped' /\ \A b \in MbxId : Found(b)' = Found(b)
         /\ \A L, c : MailMoves(c, L)
  <1>1. MailTyped' /\ \A b \in MbxId : Found(b)' = Found(b)
    BY DEF MailTyped, Level, Found
  <1>2. QED
    BY <1>1 DEF MailMoves

\* The sleepers stay where they are, and the caller is none of them.
LEMMA MbxSame ==
  ASSUME Application(MbxBlockers), MbxInv, NEW L, MbxWaits(L), NEW c \in Cpu,
         pc[c] = "user", UNCHANGED <<wlink, wupcnt, tskstat>>, MailMoves(c, L)
  PROVE  MbxWaits(L)'
  <1>1. Queues(MbxHeads, MbxBlockers, L)' /\ Asleep(MbxHeads, L)'
    <2>1. \A t \in Task : tskstat'[t] = "WAI" <=> tskstat[t] = "WAI"
      OBVIOUS
    <2>2. Undisturbed(MbxHeads, MbxBlockers)
      BY MbxNodes
    <2>3. QED
      BY <2>1, <2>2, QueuesSame DEF MbxWaits
  <1>2. Attended(L)'
    BY DEF MbxWaits, MailMoves, Attended, mbx_wlink
  <1>3. \A h \in MbxHeads : L[h] \subseteq Task
    BY MbxNodes, HeadNodes DEF MbxWaits, Queues
  <1>4. Unanswered(L)'
    BY <1>3, MbxCaller DEF MbxWaits, MailMoves, Unanswered, MbxHeads, mbx_wlink
  <1>5. Enlisted(L)'
    BY MbxCaller DEF MbxWaits, MailMoves, Enlisted, Receives, MbxHeads, mbx_wlink
  <1>6. QED
    BY <1>1, <1>2, <1>4, <1>5 DEF MbxWaits

\* A call that only answers.
LEMMA MbxReplied ==
  ASSUME Application(MbxBlockers), MbxInv, NEW L, MbxWaits(L), NEW c \in Cpu,
         pc[c] = "user", NEW v \in Int, Reply(c, v), MailMoves(c, L)
  PROVE  MbxInv'
  <1>1. Layer'
    BY ReplyLayer DEF MbxInv
  <1>2. UNCHANGED <<wlink, wupcnt, tskstat>> /\ pc' = [pc EXCEPT ![c] = "ret"]
        /\ c_tskid' = c_tskid
    BY DEF Reply, readyVars, Return
  <1>3. MbxWaits(L)'
    BY <1>2, MbxSame
  <1>4. MbxHeard'
    BY <1>2, OthersUnread DEF MailMoves
  <1>5. QED
    BY <1>1, <1>3, <1>4 DEF MbxInv, MailMoves

\* A page fault: the CPU stays in the kernel for ever.
LEMMA MbxFaults ==
  ASSUME Application(MbxBlockers), MbxInv, NEW c \in Cpu, pc[c] = "user", PageFault(c)
  PROVE  MbxInv'
  <1>1. PICK L : MbxWaits(L)
    BY DEF MbxInv
  <1>2. /\ pc' = [pc EXCEPT ![c] = "spin"] /\ kernel_lk' = 1
        /\ UNCHANGED <<ret, woken, c_tskid, readyVars, tcbVars, wupcnt, eax, wlink, timeVars>>
        /\ UNCHANGED <<mbx_act, mprihd, mbxout>>
    BY DEF PageFault, mbxVars
  <1>3. TypeOK'
    BY <1>2 DEF MbxInv, Layer, TypeOK, readyVars, tcbVars, timeVars
  <1>4. Placed' /\ RunIsCurrent' /\ Replaceable'
    <2>1. \A b \in Cpu : pc'[b] = pc[b] \/ pc'[b] = "spin"
      BY <1>2 DEF MbxInv, Layer, TypeOK
    <2>2. QED
      BY <1>2, <2>1 DEF MbxInv, Layer, Placed, RunIsCurrent, Replaceable, readyVars, tcbVars
  <1>5. ReadyLists' /\ IdleKept'
    BY <1>2, ReadySame DEF MbxInv, Layer, readyVars, tcbVars, IsReady, IdleKept
  <1>6. MailMoves(c, L)
    BY <1>2, MailSame DEF MbxInv
  <1>7. MbxWaits(L)'
    BY <1>1, <1>2, <1>6, MbxSame DEF readyVars
  <1>8. MbxHeard'
    BY <1>2, OthersUnread
  <1>9. QED
    BY <1>3, <1>4, <1>5, <1>6, <1>7, <1>8 DEF MbxInv, Layer, MailMoves

LEMMA MbxRefused ==
  ASSUME Application(MbxBlockers), MbxInv, NEW c \in Cpu, pc[c] = "user",
         NEW v \in Int, RefuseMbx(c, v)
  PROVE  MbxInv'
  <1>1. PICK L : MbxWaits(L)
    BY DEF MbxInv
  <1>2. Reply(c, v) /\ UNCHANGED <<mbx_act, mprihd, mbxout>>
    BY DEF RefuseMbx, mbxVars
  <1>3. MailMoves(c, L)
    BY <1>2, MailSame DEF MbxInv
  <1>4. QED
    BY <1>1, <1>2, <1>3, MbxReplied

\* A receive that stores nothing.
LEMMA NothingMoves ==
  ASSUME MailTyped, NEW c \in Cpu, NothingRead(c), NEW L
  PROVE  MailMoves(c, L) /\ \A b \in MbxId : Found(b)' = Found(b) /\ mbx_act'[b] = mbx_act[b]
  <1>1. MailTyped' /\ \A t \in Task : t # c_tskid[c] => mbxout'[t] = mbxout[t]
    BY Addresses DEF NothingRead, MailTyped, Level
  <1>2. \A b \in MbxId : Found(b)' = Found(b) /\ mbx_act'[b] = mbx_act[b]
    BY DEF NothingRead, Found, Level
  <1>3. QED
    BY <1>1, <1>2 DEF MailMoves

LEMMA MbxUnread ==
  ASSUME Application(MbxBlockers), MbxInv, NEW c \in Cpu, pc[c] = "user",
         NEW v \in Int, Reply(c, v), NothingRead(c)
  PROVE  MbxInv'
  <1>1. PICK L : MbxWaits(L)
    BY DEF MbxInv
  <1>2. MailMoves(c, L)
    BY NothingMoves DEF MbxInv
  <1>3. QED
    BY <1>1, <1>2, MbxReplied

LEMMA MbxCreated ==
  ASSUME Application(MbxBlockers), MbxInv, NEW c \in Cpu, pc[c] = "user",
         NEW v \in Int, NEW b \in MbxId, sys_cre_mbx(b), Reply(c, v)
  PROVE  MbxInv'
  <1>1. PICK L : MbxWaits(L)
    BY DEF MbxInv
  <1>2. /\ mprihd' = [mprihd EXCEPT ![b] = NoMail(b)] /\ mbxout' = mbxout
        /\ mbx_act' = [mbx_act EXCEPT ![b] = TRUE]
    BY DEF sys_cre_mbx
  <1>3. /\ MailTyped' /\ Found(b)' = {} /\ mbx_act'[b] = TRUE
        /\ \A a \in MbxId : a # b => Found(a)' = Found(a) /\ mbx_act'[a] = mbx_act[a]
    BY <1>2, NoMailFound DEF MbxInv
  <1>4. MailMoves(c, L)
    BY <1>2, <1>3 DEF MailMoves
  <1>5. QED
    BY <1>1, <1>4, MbxReplied

LEMMA MbxTaken ==
  ASSUME Application(MbxBlockers), MbxInv, NEW c \in Cpu, pc[c] = "user",
         NEW b \in MbxId, TakeMail(c, b)
  PROVE  MbxInv'
  <1>1. PICK L : MbxWaits(L)
    BY DEF MbxInv
  <1>2. MailTyped
    BY DEF MbxInv
  <1>3. PICK q \in Level(b) : q = Min(Found(b)) /\ q \in Found(b)
    BY <1>2, TakeFirst DEF TakeMail
  <1>4. mbx_rem(c, b, q)
    BY <1>3 DEF TakeMail
  <1>5. CASE PageFault(c)
    BY <1>5, MbxFaults
  <1>6. CASE /\ \E x \in LowByte : mprihd' = [mprihd EXCEPT ![b][q] = x]
             /\ mbxout' = [mbxout EXCEPT ![c_tskid[c]] = Extended(mprihd[b][q])]
             /\ Reply(c, E_OK)
             /\ UNCHANGED mbx_act
    <2>1. PICK x \in Octet : mprihd' = [mprihd EXCEPT ![b][q] = x]
      BY <1>6, MbxAssumption
    <2>2. PICK f : f = [mprihd[b] EXCEPT ![q] = x]
      OBVIOUS
    <2>3. mprihd[b] \in [Level(b) -> Octet] /\ f \in [Level(b) -> Octet]
      BY <1>2, <2>2 DEF MailTyped
    <2>4. mprihd' = [mprihd EXCEPT ![b] = f]
      BY <2>1, <2>2
    <2>5. /\ mbxout' \in [Task -> Address \cup {Unread}]
          /\ \A t \in Task : t # c_tskid[c] => mbxout'[t] = mbxout[t]
      BY <1>2, <1>6, <2>3, Addresses DEF MailTyped
    <2>6. /\ MailTyped' /\ mprihd'[b] = f
          /\ \A a \in MbxId : a # b => Found(a)' = Found(a)
      BY <1>2, <1>6, <2>3, <2>4, <2>5, HeadsStored
    <2>7. Found(b)' \subseteq Found(b)
      BY <1>3, <2>2, <2>3, <2>6 DEF Found, Level
    <2>8. MailMoves(c, L)
      BY <1>6, <2>5, <2>6, <2>7 DEF MailMoves
    <2>9. QED
      BY <1>1, <1>6, <2>8, MbxReplied, Codes
  <1>7. QED
    BY <1>4, <1>5, <1>6 DEF mbx_rem

\* The caller sleeps in the queue of a mailbox in which he found nothing.
LEMMA MbxJoined ==
  ASSUME Application(MbxBlockers), MbxInv, NEW c \in Cpu, pc[c] = "user",
         NEW b \in MbxId, c_tskid[c] \in MbxBlockers, mbx_act[b], Found(b) = {},
         NEW bypri \in BOOLEAN, NEW tmout,
         JoinAndSleep(c, wlink, mbx_wlink(b), bypri, tmout), Return(c, E_OK),
         NothingRead(c)
  PROVE  MbxInv'
  <1>1. PICK L : MbxWaits(L)
    BY DEF MbxInv
  <1>2. PICK t \in MbxBlockers : t = c_tskid[c]
    OBVIOUS
  <1>3. PICK h \in MbxHeads : h = mbx_wlink(b)
    BY MbxNodes
  <1>4. tskstat[t] = "RUN" /\ t \in Task /\ Layer /\ MailTyped /\ Returned(c)
    BY <1>1, <1>2, MbxCaller, ReturnReturns, Codes DEF MbxInv, Layer
  <1>5. \A g \in MbxHeads : t \notin L[g]
    BY <1>1, <1>2, MbxCaller
  <1>6. Layer' /\ Falls(MbxHeads, MbxBlockers, L, h, t)
    <2>1. Undisturbed(MbxHeads, MbxBlockers) /\ Queues(MbxHeads, MbxBlockers, L)
      BY <1>1, MbxNodes DEF MbxWaits
    <2>2. JoinAndSleep(c, wlink, h, bypri, tmout)
      BY <1>3
    <2>3. QED
      BY <1>2, <1>4, <1>5, <2>1, <2>2, QueuesJoin
  <1>7. PICK K : K = Joined(MbxHeads, L, h, t)
    OBVIOUS
  <1>8. Queues(MbxHeads, MbxBlockers, K)' /\ Asleep(MbxHeads, K)'
    BY <1>1, <1>6, <1>7 DEF Falls, MbxWaits
  <1>9. /\ MailTyped' /\ \A u \in Task : u # t => mbxout'[u] = mbxout[u]
        /\ \A a \in MbxId : Found(a)' = Found(a) /\ mbx_act'[a] = mbx_act[a]
    BY <1>2, <1>4, NothingMoves DEF MailMoves
  <1>10. mbxout'[t] = NULL
    BY <1>2, <1>4 DEF NothingRead, MailTyped
  <1>11. Attended(K)'
    <2> SUFFICES ASSUME NEW a \in MbxId, K[mbx_wlink(a)] # {}
                 PROVE  mbx_act[a] /\ Found(a) = {}
      BY <1>9 DEF Attended, mbx_wlink
    <2>1. CASE a = b
      BY <2>1
    <2>2. CASE a # b
      <3>1. mbx_wlink(a) \in MbxHeads /\ mbx_wlink(a) # h
        BY <1>3, <2>2, MbxNodes
      <3>2. K[mbx_wlink(a)] = L[mbx_wlink(a)]
        BY <1>7, <3>1 DEF Joined
      <3>3. QED
        BY <1>1, <3>2 DEF MbxWaits, Attended
    <2>3. QED
      BY <2>1, <2>2
  <1>12. \A g \in MbxHeads : L[g] \subseteq Task /\ K[g] = IF g = h THEN L[g] \cup {t} ELSE L[g]
    BY <1>1, <1>7, MbxNodes, HeadNodes DEF MbxWaits, Queues, Joined
  <1>13. Unanswered(K)'
    <2>1. \A g \in MbxHeads : \A u \in K[g] : mbxout'[u] = NULL
      <3> SUFFICES ASSUME NEW g \in MbxHeads, NEW u \in K[g] PROVE mbxout'[u] = NULL
        OBVIOUS
      <3>1. CASE u = t
        BY <1>10, <3>1
      <3>2. CASE u # t
        <4>1. u \in L[g] /\ u \in Task
          BY <1>12, <3>2
        <4>2. QED
          BY <1>1, <1>9, <3>2, <4>1 DEF MbxWaits, Unanswered
      <3>3. QED
        BY <3>1, <3>2
    <2>2. QED
      BY <2>1 DEF Unanswered, MbxHeads, mbx_wlink
  <1>14. Enlisted(K)'
    <2>1. tskstat' = [tskstat EXCEPT ![t] = "WAI"]
      BY <1>6 DEF Falls
    <2>2. \A u \in Task : u # t => tskstat'[u] = tskstat[u]
      BY <1>4, <2>1 DEF Layer, TypeOK
    <2>3. \A u \in Task : Receives(u)' => u = t \/ Receives(u)
      BY <1>9, <2>2 DEF Receives, NULL
    <2>4. \A u \in Task : Receives(u)' => \E g \in MbxHeads : u \in K[g]
      BY <1>1, <1>12, <2>3 DEF MbxWaits, Enlisted
    <2>5. QED
      BY <2>4 DEF Enlisted, MbxHeads, mbx_wlink
  <1>15. MbxHeard'
    <2>1. pc' = [pc EXCEPT ![c] = "ret"] /\ c_tskid' = c_tskid
      BY DEF Return
    <2>2. QED
      BY <1>2, <1>9, <2>1, OthersUnread
  <1>16. MbxWaits(K)'
    BY <1>8, <1>11, <1>13, <1>14 DEF MbxWaits
  <1>17. QED
    BY <1>6, <1>9, <1>15, <1>16 DEF MbxInv

\* Some sleepers leave their queues.
LEMMA MbxFewer ==
  ASSUME Undisturbed(MbxHeads, MbxBlockers), NEW L, MbxWaits(L), NEW K,
         Queues(MbxHeads, MbxBlockers, K)', Asleep(MbxHeads, K)',
         \A h \in MbxHeads : K[h] \subseteq L[h],
         \A t \in Task : tskstat'[t] = "WAI" => mbxout'[t] = mbxout[t],
         \A t \in Task : Receives(t)' =>
           Receives(t) /\ \A h \in MbxHeads : t \in L[h] => t \in K[h],
         \A b \in MbxId : K[mbx_wlink(b)] # {} =>
           (mbx_act[b] => mbx_act'[b]) /\ Found(b)' \subseteq Found(b)
  PROVE  MbxWaits(K)'
  <1>1. Attended(K)'
    BY DEF MbxWaits, Attended, MbxHeads, mbx_wlink
  <1>2. \A h \in MbxHeads : \A t \in K[h] : t \in Task /\ tskstat'[t] = "WAI"
    <2>1. \A h \in MbxHeads : K[h] \subseteq Task
      BY HeadNodes DEF MbxWaits, Queues
    <2>2. QED
      BY <2>1 DEF Asleep, MbxHeads, mbx_wlink
  <1>3. Unanswered(K)'
    BY <1>2 DEF MbxWaits, Unanswered, MbxHeads, mbx_wlink
  <1>4. \A t \in Task : Receives(t)' => \E h \in MbxHeads : t \in K[h]
    BY DEF MbxWaits, Enlisted
  <1>5. Enlisted(K)'
    BY <1>4 DEF Enlisted, MbxHeads, mbx_wlink
  <1>6. QED
    BY <1>1, <1>3, <1>5 DEF MbxWaits

LEMMA MbxSnd ==
  ASSUME Application(MbxBlockers), MbxInv, NEW c \in Cpu, NEW b \in MbxId, NEW m \in Mail,
         snd_mbx(c, b, m)
  PROVE  MbxInv'
  <1>1. PICK L : MbxWaits(L)
    BY DEF MbxInv
  <1>2. PICK h \in MbxHeads : h = mbx_wlink(b)
    BY MbxNodes
  <1>3. Layer /\ MailTyped /\ pc[c] = "user"
    BY DEF MbxInv, snd_mbx, Trap
  <1>4. PICK t : t = wlink.next[h]
    OBVIOUS
  <1>5. IF t = h THEN L[h] = {} ELSE t \in L[h]
    BY <1>1, <1>4, QueueFirst DEF MbxWaits
  <1>6. Undisturbed(MbxHeads, MbxBlockers) /\ Queues(MbxHeads, MbxBlockers, L)
    BY <1>1, MbxNodes DEF MbxWaits
  <1>7. CASE RefuseMbx(c, E_NOEXS)
    BY <1>3, <1>7, MbxRefused, Codes
  <1>8. CASE /\ t # h
             /\ mbxout' = [mbxout EXCEPT ![t] = m]
             /\ Commit(Ready(Kernel0, t, eax[t]))
             /\ wlink' = UnlinkToSelf(wlink, t)
             /\ Return(c, E_OK)
             /\ UNCHANGED <<next_tsk_flag, tcbVars, wupcnt, mbx_act, mprihd>>
    <2>1. /\ t \in L[h] /\ t \in Task /\ tskstat[t] = "WAI" /\ eax[t] \in Int
          /\ mbxout[t] = NULL
      BY <1>1, <1>3, <1>5, <1>6, <1>8, HeadNodes
         DEF MbxWaits, Asleep, Queues, Layer, TypeOK, Unanswered
    <2>2. PICK v \in Int : v = eax[t]
      BY <2>1
    <2>3. PICK k : Wakes(k, {t}) /\ Hears(k, {t}, v)
      <3>1. Commit(Ready(Kernel0, t, v)) /\ UNCHANGED <<next_tsk_flag, tcbVars, wupcnt>>
        BY <1>8, <2>2
      <3>2. QED
        BY <1>3, <2>1, <2>2, <3>1, ReadyWakes
    <2>4. Returned(c)
      BY <1>3, <1>8, ReturnReturns, Codes DEF Layer
    <2>5. Layer' /\ Leaves(MbxHeads, MbxBlockers, L, t, v)
      <3>1. wlink' = UnlinkToSelf(wlink, t)
        BY <1>8
      <3>2. QED
        BY <1>3, <1>6, <2>1, <2>2, <2>3, <2>4, <3>1, QueuesGive
    <2>6. PICK K : K = Without(MbxHeads, L, t)
      OBVIOUS
    <2>7. Queues(MbxHeads, MbxBlockers, K)' /\ Asleep(MbxHeads, K)'
      BY <1>1, <2>5, <2>6 DEF Leaves, MbxWaits
    <2>8. /\ MailTyped' /\ \A a \in MbxId : Found(a)' = Found(a) /\ mbx_act'[a] = mbx_act[a]
          /\ \A u \in Task : u # t => mbxout'[u] = mbxout[u]
      BY <1>3, <1>8, <2>1, Addresses DEF MailTyped, Level, Found
    <2>9. MbxHeard'
      <3>1. pc' = [pc EXCEPT ![c] = "ret"] /\ c_tskid' = c_tskid
        BY <1>8 DEF Return
      <3>2. \A u \in Task : mbxout[u] = Unread => mbxout'[u] = Unread
        BY <2>1, <2>8, Addresses
      <3>3. QED
        BY <1>3, <3>1, <3>2, OthersUnread
    <2>10. \A u \in Task : tskstat'[u] = "WAI" => tskstat[u] = "WAI" /\ u # t
      BY <1>3, <2>1, <2>5 DEF Leaves, Layer, TypeOK
    <2>11. MbxWaits(K)'
      <3>1. \A g \in MbxHeads : K[g] = L[g] \ {t}
        BY <2>6 DEF Without
      <3>2. \A u \in Task : Receives(u)' => Receives(u) /\ u # t
        BY <2>8, <2>10 DEF Receives, NULL
      <3>3. QED
        BY <1>1, <1>6, <2>7, <2>8, <2>10, <3>1, <3>2, MbxFewer
    <2>12. QED
      BY <2>5, <2>8, <2>9, <2>11 DEF MbxInv
  <1>9. CASE t = h /\ mbx_ins(c, b, MsgLevel(b, m), m)
    <2>1. PICK q \in Level(b) : q = MsgLevel(b, m)
      BY MbxAssumption DEF Level, MsgLevel
    <2>2. CASE RefuseMbx(c, E_OK)
      BY <1>3, <2>2, MbxRefused, Codes
    <2>3. CASE PageFault(c)
      BY <1>3, <2>3, MbxFaults
    <2>4. CASE /\ mprihd' = [mprihd EXCEPT ![b] = HeadsWith(b, q, m)]
               /\ Reply(c, E_OK)
               /\ UNCHANGED <<mbx_act, mbxout>>
      <3>1. HeadsWith(b, q, m) \in [Level(b) -> Octet]
        <4>1. \A i \in 1 .. 4 : m[i] \in Octet
          BY Addresses DEF Address
        <4>2. \A p \in Level(b) : p \in q .. q + 3 => p - q + 1 \in 1 .. 4
          BY <2>1, MbxAssumption DEF Level
        <4>3. mprihd[b] \in [Level(b) -> Octet]
          BY <1>3 DEF MailTyped
        <4>4. QED
          BY <4>1, <4>2, <4>3 DEF HeadsWith
      <3>2. mbxout' \in [Task -> Address \cup {Unread}]
        BY <1>3, <2>4 DEF MailTyped
      <3>3. MailTyped' /\ \A a \in MbxId : a # b => Found(a)' = Found(a)
        BY <1>3, <2>4, <3>1, <3>2, HeadsStored
      <3>4. MailMoves(c, L)
        BY <1>2, <1>5, <1>9, <2>4, <3>3 DEF MailMoves
      <3>5. QED
        BY <1>1, <1>3, <2>4, <3>4, MbxReplied, Codes
    <2>5. QED
      BY <1>9, <2>1, <2>2, <2>3, <2>4 DEF mbx_ins
  <1>10. QED
    BY <1>2, <1>4, <1>7, <1>8, <1>9 DEF snd_mbx

LEMMA MbxDel ==
  ASSUME Application(MbxBlockers), MbxInv, NEW c \in Cpu, NEW b \in MbxId, del_mbx(c, b)
  PROVE  MbxInv'
  <1>1. PICK L : MbxWaits(L)
    BY DEF MbxInv
  <1>2. PICK h \in MbxHeads : h = mbx_wlink(b)
    BY MbxNodes
  <1>3. Layer /\ MailTyped /\ pc[c] = "user"
    BY DEF MbxInv, del_mbx, Trap
  <1>4. Undisturbed(MbxHeads, MbxBlockers) /\ Queues(MbxHeads, MbxBlockers, L)
    BY <1>1, MbxNodes DEF MbxWaits
  <1>5. CASE RefuseMbx(c, E_NOEXS)
    BY <1>3, <1>5, MbxRefused, Codes
  <1>6. CASE /\ DismissAllUntimed(<<h>>) /\ Return(c, E_OK) /\ UNCHANGED mbxout
             /\ mbx_act' = [mbx_act EXCEPT ![b] = FALSE]
             /\ mprihd' = [mprihd EXCEPT ![b] = NoMail(b)]
    <2>1. Emptying(L[h], {h})
      <3>1. Emptied(<<h>>)
        BY <1>6 DEF Emptied
      <3>2. \A t \in L[h] : t \in Task /\ tskstat[t] = "WAI"
        BY <1>1, <1>4, HeadNodes DEF MbxWaits, Asleep, Queues
      <3>3. h \in WNode /\ IsList(WNode, wlink, h, L[h])
        BY <1>4, HeadNodes DEF Queues, Lists
      <3>4. QED
        BY <1>3, <3>1, <3>2, <3>3, DismissAllWakes
    <2>2. Returned(c)
      BY <1>3, <1>6, ReturnReturns, Codes DEF Layer
    <2>3. PICK G \in SUBSET MbxHeads : G = {h}
      OBVIOUS
    <2>4. UNION {L[g] : g \in G} = L[h] /\ Emptying(UNION {L[g] : g \in G}, G)
      <3>1. UNION {L[g] : g \in G} = L[h]
        BY <2>3
      <3>2. QED
        BY <2>1, <2>3, <3>1
    <2>5. Layer' /\ Empties(MbxHeads, MbxBlockers, L, G)
      BY <1>3, <1>4, <2>2, <2>4, QueuesEmptied
    <2>6. PICK K : K = Cleared(MbxHeads, L, G)
      OBVIOUS
    <2>7. Queues(MbxHeads, MbxBlockers, K)' /\ Asleep(MbxHeads, K)'
      BY <1>1, <2>5, <2>6 DEF Empties, MbxWaits
    <2>8. /\ MailTyped'
          /\ \A a \in MbxId : a # b => Found(a)' = Found(a) /\ mbx_act'[a] = mbx_act[a]
      BY <1>3, <1>6, NoMailFound
    <2>9. MbxHeard'
      <3>1. pc' = [pc EXCEPT ![c] = "ret"] /\ c_tskid' = c_tskid
        BY <1>6 DEF Return
      <3>2. QED
        BY <1>3, <1>6, <3>1, OthersUnread
    <2>10. \A g \in MbxHeads : K[g] = IF g = h THEN {} ELSE L[g]
      BY <2>3, <2>6 DEF Cleared
    <2>11. \A u \in Task : tskstat'[u] = "WAI" => tskstat[u] = "WAI" /\ u \notin L[h]
      <3>1. tskstat' = [t \in Task |-> IF t \in L[h] THEN "RDY" ELSE tskstat[t]]
        BY <2>4, <2>5 DEF Empties
      <3>2. QED
        BY <3>1
    <2>12. MbxWaits(K)'
      <3>1. \A u \in Task : Receives(u)' => Receives(u) /\ u \notin L[h]
        BY <1>6, <2>11 DEF Receives, NULL
      <3>2. \A a \in MbxId : K[mbx_wlink(a)] # {} => a # b
        BY <1>2, <2>10
      <3>3. QED
        BY <1>1, <1>4, <1>6, <2>7, <2>8, <2>10, <3>1, <3>2, MbxFewer
    <2>13. QED
      BY <2>5, <2>8, <2>9, <2>12 DEF MbxInv
  <1>7. QED
    BY <1>2, <1>5, <1>6 DEF del_mbx

LEMMA MbxCallInv ==
  ASSUME Application(MbxBlockers), MbxInv, NEW c \in Cpu, MbxCall(c)
  PROVE  MbxInv'
  <1>1. ASSUME NEW b \in MbxId, cre_mbx(c, b)
        PROVE  MbxInv'
    <2>1. pc[c] = "user" /\ (RefuseMbx(c, E_OBJ) \/ (sys_cre_mbx(b) /\ Reply(c, E_OK)))
      BY <1>1 DEF cre_mbx, Trap
    <2>2. QED
      BY <2>1, MbxRefused, MbxCreated, Codes
  <1>2. ASSUME acre_mbx(c)
        PROVE  MbxInv'
    <2>1. /\ pc[c] = "user"
          /\ RefuseMbx(c, E_NOID) \/ \E b \in MbxId : sys_cre_mbx(b) /\ Reply(c, b)
      BY <1>2 DEF acre_mbx, Trap
    <2>2. \A b \in MbxId : b \in Int
      BY MbxNodes
    <2>3. QED
      BY <2>1, <2>2, MbxRefused, MbxCreated, Codes
  <1>3. ASSUME NEW b \in MbxId, prcv_mbx(c, b)
        PROVE  MbxInv'
    <2>1. /\ pc[c] = "user"
          /\ \/ TakeMail(c, b)
             \/ (Reply(c, E_NOEXS) \/ Reply(c, E_TMOUT)) /\ NothingRead(c)
      BY <1>3 DEF prcv_mbx, Trap
    <2>2. QED
      BY <2>1, MbxUnread, MbxTaken, Codes
  <1>4. ASSUME NEW b \in MbxId, trcv_mbx(c, b)
        PROVE  MbxInv'
    <2>1. /\ pc[c] = "user"
          /\ Issues(c_tskid[c], "trcv_mbx", b) \/ Issues(c_tskid[c], "rcv_mbx", b)
      BY <1>4 DEF trcv_mbx, Trap
    <2>2. c_tskid[c] \in MbxBlockers
      BY <2>1, Running DEF MbxBlockers, MbxInv
    <2>3. \/ TakeMail(c, b)
          \/ (Reply(c, E_NOEXS) \/ Reply(c, E_TMOUT)) /\ NothingRead(c)
          \/ /\ mbx_act[b] /\ Found(b) = {} /\ NothingRead(c)
             /\ \E tmout : JoinAndSleep(c, wlink, mbx_wlink(b), b \notin MbxPlain, tmout)
             /\ Return(c, E_OK)
      BY <1>4 DEF trcv_mbx
    <2>4. PICK bypri \in BOOLEAN : bypri = (b \notin MbxPlain)
      OBVIOUS
    <2>5. QED
      BY <2>1, <2>2, <2>3, <2>4, MbxUnread, MbxTaken, MbxJoined, Codes
  <1>5. ASSUME NEW b \in MbxId, ref_mbx(c, b)
        PROVE  MbxInv'
    <2>1. pc[c] = "user" /\ (RefuseMbx(c, E_OK) \/ RefuseMbx(c, E_NOEXS))
      BY <1>5 DEF ref_mbx, Trap
    <2>2. QED
      BY <2>1, MbxRefused, Codes
  <1>6. QED
    BY <1>1, <1>2, <1>3, <1>4, <1>5, MbxSnd, MbxDel DEF MbxCall

\* A task back in user mode has used what it received.
LEMMA MailRead ==
  ASSUME MailTyped, NEW c \in Cpu, c_tskid[c] \in Task, MbxRead(c)
  PROVE  /\ MailTyped' /\ mbx_act' = mbx_act /\ \A b \in MbxId : Found(b)' = Found(b)
         /\ \A t \in Task : mbxout'[t] = IF Resumes(c) /\ t = c_tskid[c] THEN Unread
                                         ELSE mbxout[t]
  <1>1. /\ mprihd' = mprihd /\ mbx_act' = mbx_act
        /\ mbxout \in [Task -> Address \cup {Unread}]
        /\ mbxout' = IF Resumes(c) THEN [mbxout EXCEPT ![c_tskid[c]] = Unread] ELSE mbxout
    BY DEF MbxRead, MailTyped
  <1>2. mbxout' \in [Task -> Address \cup {Unread}]
    BY <1>1
  <1>3. MailTyped'
    BY <1>1, <1>2 DEF MailTyped, Level
  <1>4. QED
    BY <1>1, <1>3 DEF Found, Level

\* A step of the task layer.
LEMMA MbxFitStep ==
  ASSUME Application(MbxBlockers), MbxInv, NEW c \in Cpu, FitStep(c), MbxRead(c)
  PROVE  MbxInv'
  <1>1. PICK L : MbxWaits(L)
    BY DEF MbxInv
  <1>2. Undisturbed(MbxHeads, MbxBlockers) /\ Queues(MbxHeads, MbxBlockers, L)
    BY <1>1, MbxNodes DEF MbxWaits
  <1>3. /\ Layer /\ MailTyped /\ c_tskid[c] \in Task /\ pc \in [Cpu -> PC]
        /\ tskstat \in [Task -> Stat]
    BY DEF MbxInv, Layer, TypeOK
  <1>4. /\ MailTyped' /\ mbx_act' = mbx_act /\ \A b \in MbxId : Found(b)' = Found(b)
        /\ \A t \in Task : mbxout'[t] = IF Resumes(c) /\ t = c_tskid[c] THEN Unread
                                        ELSE mbxout[t]
    BY <1>3, MailRead
  <1>5. \A h \in MbxHeads : L[h] \subseteq Task
    BY <1>2, HeadNodes DEF Queues
  <1>6. CASE SystemCall(c) /\ ~InQueue(wlink, c_tskid[c])
    <2>1. Layer' /\ Queues(MbxHeads, MbxBlockers, L)' /\ Asleep(MbxHeads, L)'
      BY <1>1, <1>2, <1>3, <1>6, QueuesCall DEF MbxWaits
    <2>2. /\ pc[c] = "user" /\ pc' = [pc EXCEPT ![c] = "ret"] /\ c_tskid' = c_tskid
          /\ \A t \in Task : tskstat'[t] = "WAI" => tskstat[t] = "WAI" \/ t = c_tskid[c]
      BY <1>3, <1>6, CallSleepers DEF Layer
    <2>3. \A t \in Task : mbxout'[t] = mbxout[t]
      BY <1>4, <2>2 DEF Resumes
    <2>4. MbxHeard'
      BY <2>2, <2>3, OthersUnread
    <2>5. \A t \in Task : Receives(t)' => Receives(t)
      <3>1. mbxout[c_tskid[c]] = Unread
        BY <1>1, <2>2, MbxCaller
      <3>2. QED
        BY <2>2, <2>3, <3>1, Addresses DEF Receives, NULL
    <2>6. MbxWaits(L)'
      BY <1>1, <1>2, <1>4, <2>1, <2>3, <2>5, MbxFewer
    <2>7. QED
      BY <1>4, <2>1, <2>4, <2>6 DEF MbxInv
  <1>7. CASE sched_timeout(c)
    <2>1. /\ Layer' /\ pc' = pc
          /\ \/ UNCHANGED tskstat /\ Queues(MbxHeads, MbxBlockers, L)'
             \/ \E t : TimedOut(MbxHeads, MbxBlockers, L, t)
      BY <1>2, <1>3, <1>7, QueuesTimeout
    <2>2. c_tskid' = c_tskid /\ \A t \in Task : mbxout'[t] = mbxout[t]
      BY <1>4, <1>7, <2>1 DEF Resumes, sched_timeout
    <2>3. MbxHeard'
      BY <2>1, <2>2, <1>3 DEF MbxInv, MbxHeard, Layer, TypeOK
    <2>4. CASE UNCHANGED tskstat /\ Queues(MbxHeads, MbxBlockers, L)'
      <3>1. Asleep(MbxHeads, L)'
        BY <1>1, <2>4 DEF MbxWaits, Asleep, MbxHeads, mbx_wlink
      <3>2. \A t \in Task : Receives(t)' => Receives(t)
        BY <2>2, <2>4 DEF Receives, NULL
      <3>3. MbxWaits(L)'
        BY <1>1, <1>2, <1>4, <2>2, <2>4, <3>1, <3>2, MbxFewer
      <3>4. QED
        BY <1>4, <2>1, <2>3, <3>3 DEF MbxInv
    <2>5. ASSUME NEW t, TimedOut(MbxHeads, MbxBlockers, L, t)
          PROVE  MbxInv'
      <3>1. PICK K : K = Without(MbxHeads, L, t)
        OBVIOUS
      <3>2. Queues(MbxHeads, MbxBlockers, K)' /\ \A h \in MbxHeads : K[h] = L[h] \ {t}
        BY <2>5, <3>1 DEF TimedOut, Without
      <3>3. \A u \in Task : tskstat'[u] = "WAI" <=> tskstat[u] = "WAI" /\ u # t
        BY <1>3, <2>5 DEF TimedOut
      <3>4. Asleep(MbxHeads, K)'
        BY <1>1, <1>5, <3>2, <3>3 DEF MbxWaits, Asleep, MbxHeads, mbx_wlink
      <3>5. \A u \in Task : Receives(u)' => Receives(u) /\ u # t
        BY <2>2, <3>3 DEF Receives, NULL
      <3>6. MbxWaits(K)'
        BY <1>1, <1>2, <1>4, <2>2, <3>2, <3>4, <3>5, MbxFewer
      <3>7. QED
        BY <1>4, <2>1, <2>3, <3>6 DEF MbxInv
    <2>6. QED
      BY <2>1, <2>4, <2>5
  <1>8. CASE \/ Interrupt(c) \/ tick_done(c) \/ store_ret(c) \/ sched_do_next_tsk(c)
             \/ intr_leave(c) \/ clear_flag(c)
    <2>1. /\ UNCHANGED <<wlink, wupcnt>>
          /\ \A t \in Task : tskstat'[t] = "WAI" <=> tskstat[t] = "WAI"
          /\ \A b \in Cpu : b # c => pc'[b] = pc[b] /\ c_tskid'[b] = c_tskid[b]
          /\ pc'[c] = "user" =>
               pc[c] # "user" /\ c_tskid' = c_tskid /\ tskstat[c_tskid[c]] = "RUN"
      BY <1>3, <1>8, QuietKernel
    <2>2. Queues(MbxHeads, MbxBlockers, L)' /\ Asleep(MbxHeads, L)'
      BY <1>1, <1>2, <2>1, QueuesSame DEF MbxWaits
    <2>3. Layer'
      BY <1>2, <1>3, <1>8, LayerStep DEF Kernel, Undisturbed, Application
    <2>4. \A t \in Task : mbxout'[t] = mbxout[t] \/ (tskstat[t] = "RUN" /\ mbxout'[t] = Unread)
      BY <1>4, <2>1 DEF Resumes
    <2>5. MbxHeard'
      <3> SUFFICES ASSUME NEW b \in Cpu, pc'[b] = "user" PROVE mbxout'[c_tskid'[b]] = Unread
        BY DEF MbxHeard
      <3>1. CASE b = c
        BY <1>3, <1>4, <2>1, <3>1 DEF Resumes
      <3>2. CASE b # c
        <4>1. c_tskid[b] \in Task /\ mbxout[c_tskid[b]] = Unread
          BY <2>1, <3>2 DEF MbxInv, MbxHeard, Layer, TypeOK
        <4>2. QED
          BY <2>1, <2>4, <3>2, <4>1
      <3>3. QED
        BY <3>1, <3>2
    <2>6. MbxWaits(L)'
      <3>1. \A t \in Task : tskstat'[t] = "WAI" => mbxout'[t] = mbxout[t]
        BY <2>1, <2>4
      <3>2. \A t \in Task : Receives(t)' => Receives(t)
        BY <2>1, <3>1 DEF Receives, NULL
      <3>3. QED
        BY <1>1, <1>2, <1>4, <2>2, <3>1, <3>2, MbxFewer
    <2>7. QED
      BY <1>4, <2>3, <2>5, <2>6 DEF MbxInv
  <1>9. QED
    BY <1>6, <1>7, <1>8 DEF FitStep, Kernel

LEMMA MbxStutter ==
  ASSUME Application(MbxBlockers), MbxInv, UNCHANGED <<vars, mbxVars>>
  PROVE  MbxInv'
  <1>1. PICK L : MbxWaits(L)
    BY DEF MbxInv
  <1>2. Undisturbed(MbxHeads, MbxBlockers) /\ Queues(MbxHeads, MbxBlockers, L)
    BY <1>1, MbxNodes DEF MbxWaits
  <1>3. UNCHANGED <<wlink, wupcnt, tskstat, pc, c_tskid, mbx_act, mprihd, mbxout>>
    BY DEF vars, readyVars, mbxVars
  <1>4. MailTyped' /\ \A b \in MbxId : Found(b)' = Found(b)
    BY <1>3, MailSame DEF MbxInv
  <1>5. Queues(MbxHeads, MbxBlockers, L)' /\ Asleep(MbxHeads, L)'
    BY <1>1, <1>2, <1>3, QueuesSame DEF MbxWaits
  <1>6. \A t \in Task : Receives(t)' => Receives(t)
    BY <1>3 DEF Receives, NULL
  <1>7. MbxWaits(L)'
    BY <1>1, <1>2, <1>3, <1>4, <1>5, <1>6, MbxFewer
  <1>8. Layer'
    BY LayerStutter DEF MbxInv
  <1>9. MbxHeard'
    BY <1>3 DEF MbxInv, MbxHeard
  <1>10. QED
    BY <1>4, <1>7, <1>8, <1>9 DEF MbxInv

LEMMA MbxInvInit ==
  ASSUME Application(MbxBlockers), TasksInit, MbxInit
  PROVE  MbxInv
  <1>1. \A b \in MbxId : mprihd[b] = NoMail(b)
    BY DEF MbxInit
  <1>2. \A b \in MbxId : NoMail(b) \in [Level(b) -> Octet]
    BY DEF NoMail, Octet
  <1>3. MailTyped
    BY <1>1, <1>2 DEF MailTyped, MbxInit
  <1>4. PICK L : L = [h \in MbxHeads |-> {}]
    OBVIOUS
  <1>5. Undisturbed(MbxHeads, MbxBlockers) /\ \A h \in MbxHeads : L[h] = {}
    BY <1>4, MbxNodes
  <1>6. Layer /\ Queues(MbxHeads, MbxBlockers, L) /\ Asleep(MbxHeads, L)
    BY <1>5, QueuesInit
  <1>7. \A t \in Task : mbxout[t] = Unread
    BY DEF MbxInit
  <1>8. MbxHeard
    BY <1>6, <1>7 DEF MbxHeard, Layer, TypeOK
  <1>9. Attended(L) /\ Unanswered(L)
    BY <1>5, MbxNodes DEF Attended, Unanswered
  <1>10. Enlisted(L)
    BY <1>7, Addresses DEF Enlisted, Receives
  <1>11. QED
    BY <1>3, <1>6, <1>8, <1>9, <1>10 DEF MbxInv, MbxWaits

LEMMA MbxInvariance == Application(MbxBlockers) /\ MbxSpec => []MbxInv
  <1> SUFFICES ASSUME Application(MbxBlockers) PROVE MbxSpec => []MbxInv
    OBVIOUS
  <1>1. TasksInit /\ MbxInit => MbxInv
    BY MbxInvInit
  <1>2. MbxInv /\ [\E c \in Cpu : MbxStep(c)]_<<vars, mbxVars>> => MbxInv'
    BY MbxCallInv, MbxFitStep, MbxStutter DEF MbxStep, c_intr_page
  <1>3. QED
    BY <1>1, <1>2, PTL DEF MbxSpec

LEMMA MbxInvExact ==
  ASSUME Application(MbxBlockers), MbxInv
  PROVE  ReceiversExact
  <1>1. PICK L : MbxWaits(L)
    BY DEF MbxInv
  <1>2. PICK q : q = wlink
    OBVIOUS
  <1>3. ASSUME NEW b \in MbxId, NEW h \in MbxHeads, h = mbx_wlink(b)
        PROVE  /\ HoldsExactly(q, h, L[h]) /\ Waiters(h) = L[h]
               /\ \A t \in L[h] : t \in Task /\ Receives(t)
               /\ InQueue(q, h) => L[h] # {}
    <2>1. Lists(WNode, q, MbxHeads, L) /\ h \in WNode
      BY <1>1, <1>2, MbxNodes, HeadNodes DEF MbxWaits, Queues
    <2>2. IsList(WNode, q, h, L[h])
      BY <2>1 DEF Lists
    <2>3. HoldsExactly(q, h, L[h])
      <3>1. IsFiniteSet(WNode) /\ q \in Ring(WNode)
        BY <1>2, WaitNodes DEF MbxInv, Layer, TypeOK
      <3>2. QED
        BY <2>1, <2>2, <3>1, ListHolds
    <2>4. Waiters(h) = L[h]
      BY <1>2, <2>3 DEF HoldsExactly, Waiters
    <2>5. \A t \in L[h] : t \in Task /\ Receives(t)
      BY <1>1, MbxNodes, HeadNodes DEF MbxWaits, Queues, Asleep, Unanswered, Receives
    <2>6. InQueue(q, h) => L[h] # {}
      BY <1>1, <1>2, QueueFirst DEF MbxWaits, InQueue
    <2>7. QED
      BY <2>3, <2>4, <2>5, <2>6
  <1>4. ASSUME NEW b \in MbxId
        PROVE  /\ HoldsExactly(wlink, mbx_wlink(b), {t \in Waiters(mbx_wlink(b)) : Receives(t)})
               /\ InQueue(wlink, mbx_wlink(b)) =>
                    mbx_act[b] /\ \A p \in Level(b) : mprihd[b][p] # 0 => p = maxmpri[b]
    <2>1. PICK h \in MbxHeads : h = mbx_wlink(b)
      BY MbxNodes
    <2>2. PICK S : S = {t \in Waiters(h) : Receives(t)}
      OBVIOUS
    <2>3. HoldsExactly(q, h, S) /\ (InQueue(q, h) => L[h] # {})
      <3>1. S = L[h]
        BY <1>3, <2>1, <2>2
      <3>2. QED
        BY <1>3, <2>1, <3>1
    <2>4. L[h] # {} => mbx_act[b] /\ Found(b) = {}
      BY <1>1, <2>1 DEF MbxWaits, Attended
    <2>5. Found(b) = {} => \A p \in Level(b) : mprihd[b][p] # 0 => p = maxmpri[b]
      BY MbxAssumption DEF Found, Level
    <2>6. QED
      BY <1>2, <2>1, <2>2, <2>3, <2>4, <2>5
  <1>5. ASSUME NEW t \in Task, Receives(t)
        PROVE  \E b \in MbxId : t \in Waiters(mbx_wlink(b))
    <2>1. PICK h \in MbxHeads : t \in L[h]
      BY <1>1, <1>5 DEF MbxWaits, Enlisted
    <2>2. PICK b \in MbxId : h = mbx_wlink(b)
      BY DEF MbxHeads
    <2>3. t \in Waiters(h)
      BY <1>3, <2>1, <2>2
    <2>4. QED
      BY <2>2, <2>3
  <1>6. QED
    BY <1>4, <1>5 DEF ReceiversExact

\* The queue of every mailbox is a list of tasks that sleep in a receive and
\* have been given nothing, every such task is in one of the queues, and nobody
\* sleeps at a mailbox that does not exist or that shows a message to a receive
\* (kernel/sys_mbx.c:65-203), whatever bytes are in the list heads.  For any
\* number of tasks, CPUs, mailboxes, messages and priorities.
THEOREM ReceiversCorrect == Application(MbxBlockers) /\ MbxSpec => []ReceiversExact
  <1> SUFFICES ASSUME Application(MbxBlockers) PROVE MbxSpec => []ReceiversExact
    OBVIOUS
  <1>1. MbxInv => ReceiversExact
    BY MbxInvExact
  <1>2. QED
    BY <1>1, MbxInvariance, PTL

-----------------------------------------------------------------------------
(***************************************************************************)
(* Event flags.  set_flg leaves the tasks it makes ready in the queue, so  *)
(* only those that still sleep are known to be unmet.                      *)
(***************************************************************************)
FlgHeads == {flg_wlink(f) : f \in FlgId}
FlgBlockers ==
  {t \in Task : \E f \in FlgId : Issues(t, "twai_flg", f) \/ Issues(t, "wai_flg", f)}

\* A pattern waits to be read only for a task that was given one and has not
\* come back to its program.
PatternsHeard ==
  /\ \A c \in Cpu : pc[c] = "user" => flgout[c_tskid[c]] = {}
  /\ \A t \in Task : tskstat[t] = "WAI" => flgout[t] = {}

MetBy(t, p) == Met(wfmode[t], waiptn[t], p)

FlgWaits(L) ==
  /\ Queues(FlgHeads, FlgBlockers, L)
  /\ \A f \in FlgId : \A t \in L[flg_wlink(f)] :
       waiptn[t] # {} /\ (tskstat[t] = "WAI" => ~MetBy(t, flgptn[f]))

FlgInv == Layer /\ FlgTypeOK /\ PatternsHeard /\ \E L : FlgWaits(L)

\* What WaitIsMet says of a step.
GivesMet ==
  \A t \in Task : tskstat[t] = "WAI" => \A p \in flgout'[t] : MetBy(t, p)

FlgKept == FlgInv' /\ GivesMet

LEMMA FlgNodes ==
  ASSUME Application(FlgBlockers)
  PROVE  /\ Undisturbed(FlgHeads, FlgBlockers)
         /\ \A f \in FlgId : f \in Int /\ flg_wlink(f) \in FlgHeads
         /\ \A f, g \in FlgId : flg_wlink(f) = flg_wlink(g) => f = g
  <1>1. FlgHeads \subseteq WHead
    BY FlgAssumption DEF FlgHeads
  <1>2. \A f \in FlgId : f \in Int
    BY FlgAssumption
  <1>3. \A f, g \in FlgId : flg_wlink(f) = flg_wlink(g) => f = g
    BY <1>2 DEF flg_wlink
  <1>4. QED
    BY <1>1, <1>2, <1>3 DEF Undisturbed, FlgHeads, FlgBlockers

\* A smaller pattern meets no wait that a larger one does not.
LEMMA LessMeets ==
  ASSUME NEW t, waiptn[t] # {}, NEW p, NEW q, q \subseteq p, MetBy(t, q)
  PROVE  MetBy(t, p)
  BY DEF MetBy, Met

LEMMA QueueWaiters ==
  ASSUME Layer, NEW H, NEW B, Undisturbed(H, B), NEW L, Queues(H, B, L), NEW h \in H
  PROVE  Waiters(h) = L[h]
  BY QueueLine DEF Waiters

\* A step that wakes some of the sleepers where they are.
LEMMA QueuesFewer ==
  ASSUME NEW H, NEW B, Undisturbed(H, B), NEW L, Queues(H, B, L),
         UNCHANGED <<wlink, wupcnt>>,
         \A t \in Task : tskstat'[t] = "WAI" => tskstat[t] = "WAI"
  PROVE  Queues(H, B, L)'
  BY HeadNodes DEF Queues, InQueue

(***************************************************************************)
(* The loop of set_flg: after some of the waiters, A of them are served.   *)
(***************************************************************************)
Visits == [k : Kernels, out : [Task -> SUBSET SUBSET Bit], ptn : SUBSET Bit, over : BOOLEAN]
Visit0(p) == [k |-> Kernel0, out |-> flgout, ptn |-> p, over |-> FALSE]

Serves(s, v, i, p, A) ==
  /\ s \in Visits /\ Tidy(s.k)
  /\ \A t \in A : /\ t \in Task /\ tskstat[t] = "WAI" /\ MetBy(t, p)
                  /\ \E j \in 1 .. i : v[j] = t
  /\ s.k.tskstat = [t \in Task |-> IF t \in A THEN "RDY" ELSE tskstat[t]]
  /\ s.k.eax = [t \in Task |-> IF t \in A THEN E_OK ELSE eax[t]]
  /\ s.out = [t \in Task |-> IF t \in A THEN {p} ELSE flgout[t]]
  /\ IF s.over THEN s.ptn = {}
     ELSE s.ptn = p /\ \A j \in 1 .. i : v[j] \in A \/ ~MetBy(v[j], p)

\* Each task is in the queue once, and who is met sleeps.
InLine(v, n, p) ==
  /\ n \in Nat /\ \A i \in 1 .. n : v[i] \in Task
  /\ \A i, j \in 1 .. n : i # j => v[i] # v[j]
  /\ \A i \in 1 .. n : MetBy(v[i], p) => tskstat[v[i]] = "WAI"

LEMMA ServesNobody ==
  ASSUME TypeOK, ReadyLists, FlgTypeOK, NEW v, NEW p \in SUBSET Bit
  PROVE  Serves(Visit0(p), v, 0, p, {})
  <1>1. Tidy(Kernel0) /\ Kernel0.tskstat = tskstat /\ Kernel0.eax = eax
    BY TidyNow DEF Kernel0
  <1>2. Kernel0 \in Kernels
    BY <1>1 DEF Tidy
  <1>3. Visit0(p) \in Visits
    BY <1>2 DEF Visits, Visit0, FlgTypeOK
  <1>4. tskstat \in [Task -> Stat] /\ eax \in [Task -> Int] /\ flgout \in [Task -> SUBSET SUBSET Bit]
    BY DEF TypeOK, FlgTypeOK
  <1>5. /\ Visit0(p).k = Kernel0 /\ Visit0(p).out = flgout
        /\ Visit0(p).ptn = p /\ Visit0(p).over = FALSE
    BY DEF Visit0
  <1>6. QED
    BY <1>1, <1>3, <1>4, <1>5 DEF Serves

LEMMA ServesNext ==
  ASSUME TypeOK, ReadyLists, FlgTypeOK, NEW f \in FlgId, NEW p \in SUBSET Bit,
         NEW v, NEW n, InLine(v, n, p), NEW i \in 1 .. n, NEW A, NEW s,
         Serves(s, v, i - 1, p, A)
  PROVE  \E S : Serves(Visit(f, s, v[i]), v, i, p, S)
  <1>1. /\ i \in Nat /\ i - 1 \in Nat /\ n \in Nat /\ i <= n
        /\ \A j \in 1 .. i : j \in 1 .. i - 1 \/ j = i
        /\ \A j \in 1 .. i - 1 : j \in 1 .. i /\ j \in 1 .. n /\ j # i
    BY DEF InLine
  <1>2. PICK t \in Task : t = v[i]
    BY DEF InLine
  <1>3. s \in Visits /\ Tidy(s.k)
    BY DEF Serves
  <1>4. CASE s.over \/ ~Met(wfmode[t], waiptn[t], s.ptn)
    <2>1. Visit(f, s, t) = s
      BY <1>4 DEF Visit
    <2>2. \A u \in A : \E j \in 1 .. i : v[j] = u
      BY <1>1 DEF Serves
    <2>3. ~s.over => \A j \in 1 .. i : v[j] \in A \/ ~MetBy(v[j], p)
      BY <1>1, <1>2, <1>4 DEF Serves, MetBy
    <2>4. Serves(s, v, i, p, A)
      BY <2>2, <2>3 DEF Serves
    <2>5. QED
      BY <1>2, <2>1, <2>4
  <1>5. CASE ~s.over /\ Met(wfmode[t], waiptn[t], s.ptn)
    <2>1. s.ptn = p /\ MetBy(t, p) /\ tskstat[t] = "WAI"
      BY <1>2, <1>5 DEF Serves, MetBy, InLine
    <2>2. t \notin A
      BY <1>1, <1>2 DEF Serves, InLine
    <2>3. PICK z : z = Visit(f, s, t)
      OBVIOUS
    <2>4. /\ z = [k |-> Ready(s.k, t, E_OK), out |-> [s.out EXCEPT ![t] = {p}],
                  ptn |-> IF Clears(f) THEN {} ELSE p, over |-> Clears(f)]
      BY <1>5, <2>1, <2>3 DEF Visit, EndsLoop
    <2>5. PICK k : k = s.k
      OBVIOUS
    <2>6. tskpri \in [Task -> Pri] /\ Tidy(k) /\ k.tskstat[t] \notin {"RDY", "RUN"}
      <3>1. k.tskstat[t] = "WAI"
        BY <2>1, <2>2, <2>5 DEF Serves
      <3>2. QED
        BY <1>3, <2>5, <3>1 DEF TypeOK
    <2>7. /\ Tidy(Ready(k, t, E_OK))
          /\ Ready(k, t, E_OK).tskstat = [k.tskstat EXCEPT ![t] = "RDY"]
          /\ Ready(k, t, E_OK).eax = [k.eax EXCEPT ![t] = E_OK]
      BY <2>6, MadeReady, Codes
    <2>8. PICK S : S = A \cup {t}
      OBVIOUS
    <2>9. z \in Visits
      <3>1. Ready(k, t, E_OK) \in Kernels
        BY <2>7 DEF Tidy
      <3>2. Clears(f) \in BOOLEAN
        BY DEF Clears
      <3>3. QED
        BY <1>3, <2>4, <2>5, <3>1, <3>2 DEF Visits
    <2>10. /\ z.k.tskstat = [u \in Task |-> IF u \in S THEN "RDY" ELSE tskstat[u]]
           /\ z.k.eax = [u \in Task |-> IF u \in S THEN E_OK ELSE eax[u]]
      <3>1. z.k = Ready(k, t, E_OK)
        BY <2>4, <2>5
      <3>2. /\ k.tskstat = [u \in Task |-> IF u \in A THEN "RDY" ELSE tskstat[u]]
            /\ k.eax = [u \in Task |-> IF u \in A THEN E_OK ELSE eax[u]]
        BY <2>5 DEF Serves
      <3>3. QED
        BY <2>7, <2>8, <3>1, <3>2
    <2>11. z.out = [u \in Task |-> IF u \in S THEN {p} ELSE flgout[u]]
      <3>1. s.out = [u \in Task |-> IF u \in A THEN {p} ELSE flgout[u]]
        BY DEF Serves
      <3>2. z.out = [s.out EXCEPT ![t] = {p}]
        BY <2>4
      <3>3. QED
        BY <2>8, <3>1, <3>2
    <2>12. \A u \in S : /\ u \in Task /\ tskstat[u] = "WAI" /\ MetBy(u, p)
                        /\ \E j \in 1 .. i : v[j] = u
      <3>1. i \in 1 .. i
        BY <1>1
      <3>2. QED
        BY <1>1, <1>2, <2>1, <2>8, <3>1 DEF Serves
    <2>13. IF z.over THEN z.ptn = {}
           ELSE z.ptn = p /\ \A j \in 1 .. i : v[j] \in S \/ ~MetBy(v[j], p)
      <3>1. z.over = Clears(f) /\ z.ptn = IF Clears(f) THEN {} ELSE p
        BY <2>4
      <3>2. \A j \in 1 .. i : v[j] \in S \/ ~MetBy(v[j], p)
        BY <1>1, <1>2, <1>5, <2>8 DEF Serves
      <3>3. QED
        BY <3>1, <3>2
    <2>14. Tidy(z.k)
      BY <2>4, <2>5, <2>7
    <2>15. Serves(z, v, i, p, S)
      BY <2>9, <2>10, <2>11, <2>12, <2>13, <2>14 DEF Serves
    <2>16. QED
      BY <1>2, <2>3, <2>15
  <1>6. QED
    BY <1>4, <1>5

\* The recursion of Meeting.
Looping(s, f, v, n, p) ==
  s = [i \in 0 .. n |-> IF i = 0 THEN Visit0(p) ELSE Visit(f, s[i - 1], v[i])]

LEMMA LoopServes ==
  ASSUME TypeOK, ReadyLists, FlgTypeOK, NEW f \in FlgId, NEW p \in SUBSET Bit,
         NEW v, NEW n, InLine(v, n, p), NEW s, s[0] = Visit0(p),
         \A i \in 1 .. n : s[i - 1] \in Visits => s[i] = Visit(f, s[i - 1], v[i])
  PROVE  \A i \in 0 .. n : \E A : Serves(s[i], v, i, p, A)
  <1>0. n \in Nat
    BY DEF InLine
  <1> DEFINE T == {i \in Nat : i <= n => \E A : Serves(s[i], v, i, p, A)}
  <1>1. 0 \in T
    BY ServesNobody
  <1>2. ASSUME NEW i \in Nat, i \in T
        PROVE  i + 1 \in T
    <2> SUFFICES ASSUME i + 1 <= n
                 PROVE  \E A : Serves(s[i + 1], v, i + 1, p, A)
      OBVIOUS
    <2>1. i + 1 \in 1 .. n /\ (i + 1) - 1 = i /\ i <= n
      BY <1>0
    <2>2. PICK A : Serves(s[i], v, i, p, A)
      BY <1>2, <2>1
    <2>3. PICK j \in 1 .. n : j = i + 1 /\ j - 1 = i
      BY <2>1
    <2>4. s[j] = Visit(f, s[i], v[j])
      BY <2>2, <2>3 DEF Serves
    <2>5. \E S : Serves(Visit(f, s[i], v[j]), v, j, p, S)
      <3>1. Serves(s[i], v, j - 1, p, A)
        BY <2>2, <2>3
      <3>2. QED
        BY <3>1, ServesNext
    <2>6. QED
      BY <2>3, <2>4, <2>5
  <1> HIDE DEF T
  <1>3. Nat \subseteq T
    BY <1>1, <1>2, SetInduction
  <1>4. QED
    BY <1>0, <1>3 DEF T

LEMMA LoopExists ==
  ASSUME TypeOK, ReadyLists, FlgTypeOK, NEW f \in FlgId, NEW p \in SUBSET Bit,
         NEW v, NEW n, InLine(v, n, p)
  PROVE  \E s : Looping(s, f, v, n, p)
  <1> DEFINE D == [i \in Nat |-> [x \in Visits |-> Visit(f, x, v[i])]]
  <1>0. n \in Nat
    BY DEF InLine
  <1>1. PICK g : IsRecursive(g, Visit0(p), D)
    <2> HIDE DEF D
    <2>1. QED
      BY Recursion
  <1>2. g[0] = Visit0(p) /\ \A i \in Nat : i # 0 => g[i] = D[i][g[i - 1]]
    BY <1>1 DEF IsRecursive
  <1>3. \A i \in 1 .. n : g[i - 1] \in Visits => g[i] = Visit(f, g[i - 1], v[i])
    <2>1. \A i \in 1 .. n : i \in Nat /\ i # 0
      BY <1>0
    <2>2. QED
      BY <1>2, <2>1
  <1>4. \A i \in 0 .. n : g[i] \in Visits
    <2>1. \A i \in 0 .. n : \E A : Serves(g[i], v, i, p, A)
      BY <1>2, <1>3, LoopServes
    <2>2. QED
      BY <2>1 DEF Serves
  <1> DEFINE h == [i \in 0 .. n |-> g[i]]
  <1>5. \A i \in 0 .. n : h[i] = IF i = 0 THEN Visit0(p) ELSE Visit(f, h[i - 1], v[i])
    <2> SUFFICES ASSUME NEW i \in 0 .. n
                 PROVE  g[i] = IF i = 0 THEN Visit0(p) ELSE Visit(f, h[i - 1], v[i])
      OBVIOUS
    <2>1. CASE i = 0
      BY <1>2, <2>1
    <2>2. CASE i # 0
      <3>1. i \in 1 .. n /\ i - 1 \in 0 .. n
        BY <1>0, <2>2
      <3>2. QED
        BY <1>3, <1>4, <2>2, <3>1
    <2>3. QED
      BY <2>1, <2>2
  <1>6. h = [i \in 0 .. n |-> IF i = 0 THEN Visit0(p) ELSE Visit(f, h[i - 1], v[i])]
    BY <1>5
  <1> HIDE DEF h
  <1>7. QED
    BY <1>6 DEF Looping

\* What set_flg does to those who wait.
LEMMA MeetingServes ==
  ASSUME TypeOK, ReadyLists, FlgTypeOK, NEW f \in FlgId, NEW p \in SUBSET Bit,
         NEW v, v = Walk(wlink, flg_wlink(f)), InLine(v, Len(v), p)
  PROVE  \E A : Serves(Meeting(f, p), v, Len(v), p, A)
  <1> DEFINE run == CHOOSE step : step = [i \in 0 .. Len(v) |->
                      IF i = 0 THEN [k |-> Kernel0, out |-> flgout, ptn |-> p, over |-> FALSE]
                      ELSE Visit(f, step[i - 1], v[i])]
  <1>1. Meeting(f, p) = run[Len(v)]
    BY Zenon DEF Meeting
  <1>2. Looping(run, f, v, Len(v), p)
    <2>1. \E s : Looping(s, f, v, Len(v), p)
      BY LoopExists
    <2>2. \A s : Looping(s, f, v, Len(v), p) <=>
                   s = [i \in 0 .. Len(v) |->
                          IF i = 0 THEN [k |-> Kernel0, out |-> flgout, ptn |-> p, over |-> FALSE]
                          ELSE Visit(f, s[i - 1], v[i])]
      BY DEF Looping, Visit0
    <2>3. QED
      BY <2>1, <2>2
  <1> HIDE DEF run
  <1>3. PICK n : n = Len(v) /\ n \in Nat /\ InLine(v, n, p)
    BY DEF InLine
  <1>4. \A i \in 0 .. n : run[i] = IF i = 0 THEN Visit0(p) ELSE Visit(f, run[i - 1], v[i])
    BY <1>2, <1>3 DEF Looping
  <1>5. run[0] = Visit0(p) /\ \A i \in 1 .. n : run[i] = Visit(f, run[i - 1], v[i])
    <2>1. 0 \in 0 .. n /\ \A i \in 1 .. n : i \in 0 .. n /\ i # 0
      BY <1>3
    <2>2. QED
      BY <1>4, <2>1
  <1>6. \A i \in 0 .. n : \E A : Serves(run[i], v, i, p, A)
    BY <1>3, <1>5, LoopServes
  <1>7. QED
    BY <1>1, <1>3, <1>6

-----------------------------------------------------------------------------
\* A call that only answers, and may take bits out of the flags.
LEMMA FlgReplied ==
  ASSUME Application(FlgBlockers), FlgInv, NEW c \in Cpu, pc[c] = "user",
         NEW v \in Int, Reply(c, v), FlgTypeOK', UNCHANGED <<waiptn, wfmode>>,
         \A f \in FlgId : flgptn'[f] \subseteq flgptn[f],
         \A t \in Task : t # c_tskid[c] => flgout'[t] = flgout[t]
  PROVE  FlgKept
  <1>1. PICK L : FlgWaits(L)
    BY DEF FlgInv
  <1>2. Layer /\ Undisturbed(FlgHeads, FlgBlockers) /\ Queues(FlgHeads, FlgBlockers, L)
    BY <1>1, FlgNodes DEF FlgInv, FlgWaits
  <1>3. Layer'
    BY <1>2, ReplyLayer
  <1>4. /\ UNCHANGED <<wlink, wupcnt, tskstat, c_tskid>> /\ pc' = [pc EXCEPT ![c] = "ret"]
    BY DEF Reply, readyVars, Return
  <1>5. Queues(FlgHeads, FlgBlockers, L)'
    BY <1>2, <1>4, QueuesFewer
  <1>6. /\ tskstat[c_tskid[c]] = "RUN" /\ pc \in [Cpu -> PC]
        /\ \A b \in Cpu : pc[b] = "user" /\ b # c =>
             c_tskid[b] \in Task /\ c_tskid[b] # c_tskid[c]
    BY <1>2, Running DEF Layer, TypeOK
  <1>7. PatternsHeard'
    BY <1>4, <1>6 DEF PatternsHeard, FlgInv
  <1>8. GivesMet
    BY <1>6 DEF GivesMet, FlgInv, PatternsHeard
  <1>9. ASSUME NEW f \in FlgId, NEW t \in L[flg_wlink(f)]
        PROVE  /\ waiptn'[t] # {}
               /\ tskstat'[t] = "WAI" => ~MetBy(t, flgptn[f])'
    <2>1. MetBy(t, flgptn[f])' <=> MetBy(t, flgptn'[f])
      BY DEF MetBy
    <2>2. QED
      BY <1>1, <1>4, <2>1, LessMeets DEF FlgWaits
  <1>10. FlgWaits(L)'
    BY <1>5, <1>9 DEF FlgWaits, flg_wlink
  <1>11. QED
    BY <1>3, <1>7, <1>8, <1>10 DEF FlgKept, FlgInv

LEMMA FlgRefused ==
  ASSUME Application(FlgBlockers), FlgInv, NEW c \in Cpu, pc[c] = "user",
         NEW v \in Int, RefuseFlg(c, v)
  PROVE  FlgKept
  <1>1. Reply(c, v) /\ UNCHANGED <<flg_act, flgptn, waiptn, wfmode, flgout>>
    BY DEF RefuseFlg, flgVars
  <1>2. FlgTypeOK'
    BY <1>1 DEF FlgInv, FlgTypeOK
  <1>3. QED
    BY <1>1, <1>2, FlgReplied

LEMMA FlgCreated ==
  ASSUME Application(FlgBlockers), FlgInv, NEW c \in Cpu, pc[c] = "user",
         NEW v \in Int, NEW f \in FlgId, sys_cre_flg(f), Reply(c, v)
  PROVE  FlgKept
  <1>1. FlgTypeOK' /\ \A g \in FlgId : flgptn'[g] \subseteq flgptn[g]
    BY DEF FlgInv, FlgTypeOK, sys_cre_flg
  <1>2. QED
    BY <1>1, FlgReplied DEF sys_cre_flg

LEMMA FlgPassed ==
  ASSUME Application(FlgBlockers), FlgInv, NEW c \in Cpu, pc[c] = "user",
         NEW f \in FlgId, NEW ptn, NEW mode, Pass(c, f, ptn, mode)
  PROVE  FlgKept
  <1>1. c_tskid[c] \in Task
    BY Running DEF FlgInv
  <1>2. /\ flgout' = [flgout EXCEPT ![c_tskid[c]] = {flgptn[f]}]
        /\ flgptn' = [flgptn EXCEPT ![f] = IF Clears(f) THEN {} ELSE flgptn[f]]
        /\ UNCHANGED <<flg_act, waiptn, wfmode>>
    BY DEF Pass
  <1>3. \A g \in FlgId : flgptn'[g] \subseteq flgptn[g]
    BY <1>2 DEF FlgInv, FlgTypeOK
  <1>4. flgptn' \in [FlgId -> SUBSET Bit]
    BY <1>2 DEF FlgInv, FlgTypeOK
  <1>5. flgout' \in [Task -> SUBSET SUBSET Bit] /\ \A t \in Task : t # c_tskid[c] => flgout'[t] = flgout[t]
    BY <1>1, <1>2 DEF FlgInv, FlgTypeOK
  <1>6. FlgTypeOK'
    BY <1>2, <1>4, <1>5 DEF FlgInv, FlgTypeOK
  <1>7. QED
    BY <1>3, <1>5, <1>6, FlgReplied, Codes DEF Pass

LEMMA FlgCleared ==
  ASSUME Application(FlgBlockers), FlgInv, NEW c \in Cpu, NEW f \in FlgId,
         NEW ptn \in SUBSET Bit, clr_flg(c, f, ptn)
  PROVE  FlgKept
  <1>1. pc[c] = "user"
    BY DEF clr_flg, Trap
  <1>2. CASE RefuseFlg(c, E_NOEXS)
    BY <1>1, <1>2, FlgRefused, Codes
  <1>3. CASE /\ flgptn' = [flgptn EXCEPT ![f] = @ \cap ptn]
             /\ Reply(c, E_OK) /\ UNCHANGED <<flg_act, waiptn, wfmode, flgout>>
    <2>1. FlgTypeOK' /\ \A g \in FlgId : flgptn'[g] \subseteq flgptn[g]
      BY <1>3 DEF FlgInv, FlgTypeOK
    <2>2. QED
      BY <1>1, <1>3, <2>1, FlgReplied, Codes
  <1>4. QED
    BY <1>2, <1>3 DEF clr_flg

\* A running task that is in no queue joins one.
LEMMA FlgJoined ==
  ASSUME Application(FlgBlockers), FlgInv, NEW c \in Cpu, pc[c] = "user",
         NEW f \in FlgId, c_tskid[c] \in FlgBlockers, ~InQueue(wlink, c_tskid[c]),
         NEW ptn \in SUBSET Bit, ptn # {}, NEW mode \in Mode, ~Met(mode, ptn, flgptn[f]),
         waiptn' = [waiptn EXCEPT ![c_tskid[c]] = ptn],
         wfmode' = [wfmode EXCEPT ![c_tskid[c]] = mode],
         UNCHANGED <<flg_act, flgptn, flgout>>,
         NEW bypri \in BOOLEAN, NEW tmout,
         JoinAndSleep(c, wlink, flg_wlink(f), bypri, tmout), Return(c, E_OK)
  PROVE  FlgKept
  <1>1. PICK L : FlgWaits(L)
    BY DEF FlgInv
  <1>2. Layer /\ Undisturbed(FlgHeads, FlgBlockers) /\ Queues(FlgHeads, FlgBlockers, L)
    BY <1>1, FlgNodes DEF FlgInv, FlgWaits
  <1>3. PICK t \in FlgBlockers : t = c_tskid[c]
    OBVIOUS
  <1>4. PICK h \in FlgHeads : h = flg_wlink(f)
    BY FlgNodes
  <1>5. t \in Task /\ tskstat[t] = "RUN" /\ Returned(c)
    BY <1>2, <1>3, Running, ReturnReturns, Codes DEF Layer
  <1>6. \A g \in FlgHeads : t \notin L[g]
    <2> SUFFICES ASSUME NEW g \in FlgHeads, t \in L[g] PROVE FALSE
      OBVIOUS
    <2>1. PICK q : q = wlink
      OBVIOUS
    <2>2. ListFacts(WNode, q, g, L[g])
      <3>1. IsList(WNode, q, g, L[g])
        BY <1>2, <2>1 DEF Queues, Lists
      <3>2. QED
        BY <3>1, ListLinks
    <2>3. QED
      BY <1>3, <2>1, <2>2 DEF ListFacts, InQueue
  <1>7. Layer' /\ Falls(FlgHeads, FlgBlockers, L, h, t)
    <2>1. JoinAndSleep(c, wlink, h, bypri, tmout)
      BY <1>4
    <2>2. QED
      BY <1>2, <1>3, <1>5, <1>6, <2>1, QueuesJoin
  <1>8. PICK K : K = Joined(FlgHeads, L, h, t)
    OBVIOUS
  <1>9. Queues(FlgHeads, FlgBlockers, K)' /\ tskstat' = [tskstat EXCEPT ![t] = "WAI"]
    BY <1>7, <1>8 DEF Falls
  <1>10. FlgTypeOK'
    <2>1. waiptn' \in [Task -> SUBSET Bit] /\ wfmode' \in [Task -> Mode]
      BY <1>3, <1>5 DEF FlgInv, FlgTypeOK
    <2>2. QED
      BY <2>1 DEF FlgInv, FlgTypeOK
  <1>11. flgout[t] = {}
    BY <1>3 DEF FlgInv, PatternsHeard
  <1>12. PatternsHeard'
    <2>1. pc' = [pc EXCEPT ![c] = "ret"] /\ c_tskid' = c_tskid /\ pc \in [Cpu -> PC]
          /\ tskstat \in [Task -> Stat]
      BY <1>2 DEF Return, Layer, TypeOK
    <2>2. QED
      BY <1>5, <1>9, <1>11, <2>1 DEF FlgInv, PatternsHeard
  <1>13. GivesMet
    BY DEF GivesMet, FlgInv, PatternsHeard
  <1>14. ASSUME NEW g \in FlgId, NEW u \in K[flg_wlink(g)]
         PROVE  /\ waiptn'[u] # {}
                /\ tskstat'[u] = "WAI" => ~MetBy(u, flgptn[g])'
    <2>1. MetBy(u, flgptn[g])' <=> Met(wfmode'[u], waiptn'[u], flgptn[g])
      BY DEF MetBy
    <2>2. K[flg_wlink(g)] = IF g = f THEN L[h] \cup {t} ELSE L[flg_wlink(g)]
      BY <1>4, <1>8, FlgNodes DEF Joined
    <2>3. CASE u = t
      <3>1. g = f
        BY <1>6, <1>14, <2>2, <2>3, FlgNodes
      <3>2. waiptn'[t] = ptn /\ wfmode'[t] = mode
        BY <1>3, <1>5 DEF FlgInv, FlgTypeOK
      <3>3. QED
        BY <2>1, <2>3, <3>1, <3>2
    <2>4. CASE u # t
      <3>1. u \in L[flg_wlink(g)] /\ u \in Task
        BY <1>2, <1>4, <1>14, <2>2, <2>4, HeadNodes, FlgNodes DEF Queues
      <3>2. waiptn'[u] = waiptn[u] /\ wfmode'[u] = wfmode[u] /\ tskstat'[u] = tskstat[u]
        BY <1>2, <1>3, <1>9, <2>4, <3>1 DEF FlgInv, FlgTypeOK, Layer, TypeOK
      <3>3. QED
        BY <1>1, <2>1, <3>1, <3>2 DEF FlgWaits, MetBy
    <2>5. QED
      BY <2>3, <2>4
  <1>15. FlgWaits(K)'
    BY <1>9, <1>14 DEF FlgWaits, flg_wlink
  <1>16. QED
    BY <1>7, <1>10, <1>12, <1>13, <1>15 DEF FlgKept, FlgInv

\* Some sleepers are made ready where they are; their patterns are stored.
LEMMA FlgSet ==
  ASSUME Application(FlgBlockers), FlgInv, NEW c \in Cpu, NEW f \in FlgId,
         NEW ptn \in SUBSET Bit, set_flg(c, f, ptn)
  PROVE  FlgKept
  <1>1. PICK L : FlgWaits(L)
    BY DEF FlgInv
  <1>2. /\ Layer /\ Undisturbed(FlgHeads, FlgBlockers) /\ Queues(FlgHeads, FlgBlockers, L)
        /\ pc[c] = "user" /\ FlgTypeOK /\ TypeOK /\ ReadyLists
    BY <1>1, FlgNodes DEF FlgInv, FlgWaits, Layer, set_flg
  <1>3. CASE RefuseFlg(c, E_NOEXS)
    BY <1>2, <1>3, FlgRefused, Codes
  <1>4. PICK p \in SUBSET Bit : p = flgptn[f] \cup ptn
    BY <1>2 DEF FlgTypeOK
  <1>5. PICK h \in FlgHeads : h = flg_wlink(f)
    BY FlgNodes
  <1>6. PICK v : v = Walk(wlink, h)
    OBVIOUS
  <1>7. /\ Len(v) \in Nat /\ \A i \in 1 .. Len(v) : v[i] \in Task
        /\ \A i, j \in 1 .. Len(v) : i # j => v[i] # v[j]
        /\ L[h] = {v[i] : i \in 1 .. Len(v)}
    BY <1>2, <1>6, QueueLine
  <1>8. InLine(v, Len(v), p)
    <2>1. \A i \in 1 .. Len(v) : v[i] \in Waiters(h)
      BY <1>2, <1>7, QueueWaiters
    <2>2. \A u \in LeftBehind(f) : ~MetBy(u, p)
      BY <1>4 DEF set_flg, Sets, MetBy
    <2>3. \A i \in 1 .. Len(v) : MetBy(v[i], p) => tskstat[v[i]] = "WAI"
      BY <1>5, <2>1, <2>2 DEF LeftBehind
    <2>4. QED
      BY <1>7, <2>3 DEF InLine
  <1>9. PICK s, A : s = Meeting(f, p) /\ Serves(s, v, Len(v), p, A)
    <2>1. v = Walk(wlink, flg_wlink(f))
      BY <1>5, <1>6
    <2>2. QED
      BY <1>2, <1>8, <2>1, MeetingServes
  <1>10. CASE /\ Commit(s.k) /\ flgptn' = [flgptn EXCEPT ![f] = s.ptn] /\ flgout' = s.out
              /\ Return(c, E_OK)
              /\ UNCHANGED <<wlink, next_tsk_flag, tcbVars, wupcnt, flg_act, waiptn, wfmode>>
    <2>1. \A t \in A : t \in Task /\ tskstat[t] = "WAI" /\ MetBy(t, p)
      BY <1>9 DEF Serves
    <2>2. PICK k : k = s.k
      OBVIOUS
    <2>3. Wakes(k, A)
      <3>1. /\ Tidy(s.k)
            /\ s.k.tskstat = [t \in Task |-> IF t \in A THEN "RDY" ELSE tskstat[t]]
        BY <1>9 DEF Serves
      <3>2. QED
        BY <1>10, <2>1, <2>2, <3>1 DEF Wakes
    <2>4. Returned(c)
      BY <1>2, <1>10, ReturnReturns, Codes
    <2>5. Layer'
      <3>1. wlink' \in Ring(WNode)
        BY <1>2, <1>10 DEF TypeOK
      <3>2. QED
        BY <1>2, <2>3, <2>4, <3>1, WakeLayer
    <2>6. tskstat' = [t \in Task |-> IF t \in A THEN "RDY" ELSE tskstat[t]]
      BY <2>3 DEF Wakes, Commit
    <2>7. Queues(FlgHeads, FlgBlockers, L)'
      <3>1. UNCHANGED <<wlink, wupcnt>> /\ \A t \in Task : tskstat'[t] = "WAI" => tskstat[t] = "WAI"
        BY <1>10, <2>6
      <3>2. QED
        BY <1>2, <3>1, QueuesFewer
    <2>8. flgout' = [t \in Task |-> IF t \in A THEN {p} ELSE flgout[t]]
      BY <1>9, <1>10 DEF Serves
    <2>9. FlgTypeOK'
      <3>1. s.ptn \in SUBSET Bit /\ s.out \in [Task -> SUBSET SUBSET Bit]
        BY <1>9 DEF Serves, Visits
      <3>2. QED
        BY <1>2, <1>10, <3>1 DEF FlgTypeOK
    <2>10. PatternsHeard'
      <3>1. /\ pc' = [pc EXCEPT ![c] = "ret"] /\ c_tskid' = c_tskid /\ pc \in [Cpu -> PC]
        BY <1>2, <1>10 DEF Return, TypeOK
      <3>2. \A b \in Cpu : pc[b] = "user" => c_tskid[b] \in Task /\ c_tskid[b] \notin A
        BY <1>2, <2>1, Running
      <3>3. QED
        BY <2>6, <2>8, <3>1, <3>2 DEF FlgInv, PatternsHeard
    <2>11. GivesMet
      BY <2>1, <2>8 DEF GivesMet, FlgInv, PatternsHeard
    <2>12. ASSUME NEW g \in FlgId, NEW t \in L[flg_wlink(g)]
           PROVE  /\ waiptn'[t] # {}
                  /\ tskstat'[t] = "WAI" => ~MetBy(t, flgptn[g])'
      <3>1. waiptn[t] # {} /\ waiptn' = waiptn /\ t \in Task
            /\ (tskstat[t] = "WAI" => ~MetBy(t, flgptn[g]))
        BY <1>1, <1>2, <1>10, HeadNodes, FlgNodes DEF FlgWaits, Queues
      <3>2. ASSUME tskstat'[t] = "WAI"
            PROVE  ~MetBy(t, flgptn'[g])
        <4>1. t \notin A /\ tskstat[t] = "WAI"
          BY <2>6, <3>1, <3>2
        <4>2. CASE g = f
          <5>1. flgptn'[g] = s.ptn
            BY <1>2, <1>10, <4>2 DEF FlgTypeOK
          <5>2. PICK i \in 1 .. Len(v) : v[i] = t
            BY <1>5, <1>7, <2>12, <4>2
          <5>3. s.ptn = {} \/ ~MetBy(t, s.ptn)
            BY <1>9, <4>1, <5>2 DEF Serves
          <5>4. QED
            BY <3>1, <4>1, <5>1, <5>3, LessMeets
        <4>3. CASE g # f
          BY <1>2, <1>10, <3>1, <4>1, <4>3 DEF FlgTypeOK
        <4>4. QED
          BY <4>2, <4>3
      <3>3. MetBy(t, flgptn[g])' <=> MetBy(t, flgptn'[g])
        BY <1>10 DEF MetBy
      <3>4. QED
        BY <3>1, <3>2, <3>3
    <2>13. FlgWaits(L)'
      BY <2>7, <2>12 DEF FlgWaits, flg_wlink
    <2>14. QED
      BY <2>5, <2>9, <2>10, <2>11, <2>13 DEF FlgKept, FlgInv
  <1>11. QED
    BY <1>3, <1>4, <1>9, <1>10 DEF set_flg

LEMMA FlgDel ==
  ASSUME Application(FlgBlockers), FlgInv, NEW c \in Cpu, NEW f \in FlgId, del_flg(c, f)
  PROVE  FlgKept
  <1>1. PICK L : FlgWaits(L)
    BY DEF FlgInv
  <1>2. /\ Layer /\ Undisturbed(FlgHeads, FlgBlockers) /\ Queues(FlgHeads, FlgBlockers, L)
        /\ pc[c] = "user" /\ FlgTypeOK
    BY <1>1, FlgNodes DEF FlgInv, FlgWaits, Layer, del_flg, Trap
  <1>3. CASE RefuseFlg(c, E_NOEXS)
    BY <1>2, <1>3, FlgRefused, Codes
  <1>4. PICK h \in FlgHeads : h = flg_wlink(f)
    BY FlgNodes
  <1>5. CASE /\ DismissAllUntimed(<<h>>) /\ Return(c, E_OK)
             /\ UNCHANGED <<flgptn, waiptn, wfmode, flgout>>
             /\ flg_act' = [flg_act EXCEPT ![f] = FALSE]
    <2>1. \A t \in L[h] : t \in Task /\ tskstat[t] = "WAI"
      <3>1. Waiters(h) = L[h] /\ L[h] \subseteq Task
        BY <1>2, QueueWaiters, HeadNodes DEF Queues
      <3>2. QED
        BY <1>4, <3>1 DEF del_flg, LeftBehind
    <2>2. PICK G \in SUBSET FlgHeads : G = {h}
      OBVIOUS
    <2>3. Emptying(UNION {L[g] : g \in G}, G)
      <3>1. Emptied(<<h>>)
        BY <1>5 DEF Emptied
      <3>2. h \in WNode /\ IsList(WNode, wlink, h, L[h])
        BY <1>2, HeadNodes DEF Queues, Lists
      <3>3. Emptying(L[h], {h})
        BY <1>2, <2>1, <3>1, <3>2, DismissAllWakes
      <3>4. UNION {L[g] : g \in G} = L[h]
        BY <2>2
      <3>5. QED
        BY <2>2, <3>3, <3>4
    <2>4. Returned(c)
      BY <1>2, <1>5, ReturnReturns, Codes DEF Layer
    <2>5. Layer' /\ Empties(FlgHeads, FlgBlockers, L, G)
      BY <1>2, <2>3, <2>4, QueuesEmptied
    <2>6. PICK K : K = Cleared(FlgHeads, L, G)
      OBVIOUS
    <2>7. /\ Queues(FlgHeads, FlgBlockers, K)'
          /\ tskstat' = [t \in Task |-> IF t \in UNION {L[g] : g \in G} THEN "RDY" ELSE tskstat[t]]
      BY <2>5, <2>6 DEF Empties
    <2>8. FlgTypeOK'
      BY <1>2, <1>5 DEF FlgTypeOK
    <2>9. PatternsHeard'
      <3>1. /\ pc' = [pc EXCEPT ![c] = "ret"] /\ c_tskid' = c_tskid /\ pc \in [Cpu -> PC]
        BY <1>2, <1>5 DEF Return, Layer, TypeOK
      <3>2. QED
        BY <1>5, <2>7, <3>1 DEF FlgInv, PatternsHeard
    <2>10. GivesMet
      BY <1>5 DEF GivesMet, FlgInv, PatternsHeard
    <2>11. ASSUME NEW g \in FlgId, NEW t \in K[flg_wlink(g)]
           PROVE  /\ waiptn'[t] # {}
                  /\ tskstat'[t] = "WAI" => ~MetBy(t, flgptn[g])'
      <3>1. t \in L[flg_wlink(g)] /\ t \in Task
        BY <1>2, <2>6, <2>11, HeadNodes, FlgNodes DEF Cleared, Queues
      <3>2. tskstat'[t] = "WAI" => tskstat[t] = "WAI"
        BY <2>7, <3>1
      <3>3. MetBy(t, flgptn[g])' <=> MetBy(t, flgptn[g])
        BY <1>5 DEF MetBy
      <3>4. QED
        BY <1>1, <1>5, <3>1, <3>2, <3>3 DEF FlgWaits
    <2>12. FlgWaits(K)'
      BY <2>7, <2>11 DEF FlgWaits, flg_wlink
    <2>13. QED
      BY <2>5, <2>8, <2>9, <2>10, <2>12 DEF FlgKept, FlgInv
  <1>6. QED
    BY <1>3, <1>4, <1>5 DEF del_flg

\* Every call of the service keeps the invariant.
LEMMA FlgCallKept ==
  ASSUME Application(FlgBlockers), FlgInv, NEW c \in Cpu, FlgCall(c)
  PROVE  FlgKept
  <1>1. ASSUME NEW f \in FlgId, cre_flg(c, f)
        PROVE  FlgKept
    <2>1. pc[c] = "user" /\ (RefuseFlg(c, E_OBJ) \/ (sys_cre_flg(f) /\ Reply(c, E_OK)))
      BY <1>1 DEF cre_flg, Trap
    <2>2. QED
      BY <2>1, FlgRefused, FlgCreated, Codes
  <1>2. ASSUME acre_flg(c)
        PROVE  FlgKept
    <2>1. /\ pc[c] = "user"
          /\ RefuseFlg(c, E_NOID) \/ \E f \in FlgId : sys_cre_flg(f) /\ Reply(c, f)
      BY <1>2 DEF acre_flg, Trap
    <2>2. \A f \in FlgId : f \in Int
      BY FlgNodes
    <2>3. QED
      BY <2>1, <2>2, FlgRefused, FlgCreated, Codes
  <1>3. ASSUME NEW f \in FlgId, NEW ptn \in SUBSET Bit, NEW mode \in Mode,
               pol_flg(c, f, ptn, mode)
        PROVE  FlgKept
    <2>1. /\ pc[c] = "user"
          /\ \/ RefuseFlg(c, E_NOEXS) \/ Pass(c, f, ptn, mode)
             \/ RefuseFlg(c, E_TMOUT)
      BY <1>3 DEF pol_flg, Trap
    <2>2. QED
      BY <2>1, FlgRefused, FlgPassed, Codes
  <1>4. ASSUME NEW f \in FlgId, NEW ptn \in SUBSET Bit, ptn # {}, NEW mode \in Mode,
               twai_flg(c, f, ptn, mode)
        PROVE  FlgKept
    <2>1. /\ pc[c] = "user" /\ ~InQueue(wlink, c_tskid[c])
          /\ Issues(c_tskid[c], "twai_flg", f) \/ Issues(c_tskid[c], "wai_flg", f)
      BY <1>4 DEF twai_flg, Trap
    <2>2. c_tskid[c] \in FlgBlockers
      BY <2>1, Running DEF FlgBlockers, FlgInv
    <2>3. PICK S : S = TA_CLR \cup TA_WMUL \cup FlgByPri
      OBVIOUS
    <2>7. (f \in S) \in BOOLEAN
      OBVIOUS
    <2>8. PICK bypri \in BOOLEAN : bypri = (f \in S)
      BY <2>7, Zenon
    <2>4. \/ RefuseFlg(c, E_NOEXS) \/ Pass(c, f, ptn, mode)
          \/ RefuseFlg(c, E_ILUSE) \/ RefuseFlg(c, E_TMOUT)
          \/ /\ ~Met(mode, ptn, flgptn[f])
             /\ waiptn' = [waiptn EXCEPT ![c_tskid[c]] = ptn]
             /\ wfmode' = [wfmode EXCEPT ![c_tskid[c]] = mode]
             /\ \E tmout : JoinAndSleep(c, wlink, flg_wlink(f), bypri, tmout)
             /\ Return(c, E_OK)
             /\ UNCHANGED <<flg_act, flgptn, flgout>>
      BY <1>4, <2>3, <2>8 DEF twai_flg
    <2>5. E_ILUSE \in Int
      BY DEF E_ILUSE
    <2>6. QED
      BY <1>4, <2>1, <2>2, <2>4, <2>5, FlgRefused, FlgPassed, FlgJoined, Codes
  <1>5. QED
    BY <1>1, <1>2, <1>3, <1>4, FlgSet, FlgDel, FlgCleared DEF FlgCall

\* A step of the task layer; a task that resumes has read its pattern.
LEMMA FlgFitStep ==
  ASSUME Application(FlgBlockers), FlgInv, NEW c \in Cpu, FitStep(c), FlgRead(c)
  PROVE  FlgKept
  <1>1. PICK L : FlgWaits(L)
    BY DEF FlgInv
  <1>2. /\ Layer /\ Undisturbed(FlgHeads, FlgBlockers) /\ Queues(FlgHeads, FlgBlockers, L)
        /\ FlgTypeOK /\ PatternsHeard /\ pc \in [Cpu -> PC] /\ c_tskid[c] \in Task
        /\ tskstat \in [Task -> Stat]
    BY <1>1, FlgNodes DEF FlgInv, FlgWaits, Layer, TypeOK
  <1>3. /\ UNCHANGED <<flg_act, flgptn, waiptn, wfmode>>
        /\ flgout' = IF Resumes(c) THEN [flgout EXCEPT ![c_tskid[c]] = {}] ELSE flgout
    BY DEF FlgRead
  <1>4. FlgTypeOK'
    BY <1>2, <1>3 DEF FlgTypeOK
  <1>5. \A t \in Task : flgout'[t] \subseteq flgout[t]
    BY <1>2, <1>3 DEF FlgTypeOK
  <1>6. GivesMet
    BY <1>2, <1>5 DEF GivesMet, PatternsHeard
  <1>7. ASSUME NEW K, Queues(FlgHeads, FlgBlockers, K)', Layer', PatternsHeard',
               \A h \in FlgHeads : K[h] \subseteq L[h],
               \A f \in FlgId : \A t \in K[flg_wlink(f)] :
                 tskstat'[t] = "WAI" => tskstat[t] = "WAI"
        PROVE  FlgKept
    <2>1. \A f \in FlgId : \A t \in K[flg_wlink(f)] :
             /\ waiptn'[t] # {}
             /\ tskstat'[t] = "WAI" => ~MetBy(t, flgptn[f])'
      BY <1>1, <1>3, <1>7, FlgNodes DEF FlgWaits, MetBy
    <2>2. FlgWaits(K)'
      BY <1>7, <2>1 DEF FlgWaits, flg_wlink
    <2>3. QED
      BY <1>4, <1>6, <1>7, <2>2 DEF FlgKept, FlgInv
  <1>8. \A f \in FlgId : L[flg_wlink(f)] \subseteq Task
    BY <1>2, HeadNodes, FlgNodes DEF Queues
  <1>9. CASE SystemCall(c) /\ ~InQueue(wlink, c_tskid[c])
    <2>1. Layer' /\ Queues(FlgHeads, FlgBlockers, L)'
      BY <1>2, <1>9, QueuesCall
    <2>2. /\ pc[c] = "user" /\ pc' = [pc EXCEPT ![c] = "ret"]
          /\ c_tskid' = c_tskid
          /\ \A t \in Task : tskstat'[t] = "WAI" => tskstat[t] = "WAI" \/ t = c_tskid[c]
      BY <1>2, <1>9, CallSleepers DEF Layer
    <2>3. PatternsHeard'
      <3>1. flgout[c_tskid[c]] = {}
        BY <1>2, <2>2 DEF PatternsHeard
      <3>2. \A b \in Cpu : c_tskid[b] \in Task
        BY <1>2 DEF Layer, TypeOK
      <3>3. QED
        BY <1>2, <1>5, <2>2, <3>1, <3>2 DEF PatternsHeard
    <2>4. \A h \in FlgHeads : c_tskid[c] \notin L[h]
      <3> SUFFICES ASSUME NEW g \in FlgHeads, c_tskid[c] \in L[g] PROVE FALSE
        OBVIOUS
      <3>1. PICK q : q = wlink
        OBVIOUS
      <3>2. ListFacts(WNode, q, g, L[g])
        <4>1. IsList(WNode, q, g, L[g])
          BY <1>2, <3>1 DEF Queues, Lists
        <4>2. QED
          BY <4>1, ListLinks
      <3>3. QED
        BY <1>9, <3>1, <3>2 DEF ListFacts, InQueue
    <2>5. QED
      BY <1>7, <1>8, <2>1, <2>2, <2>3, <2>4, FlgNodes
  <1>10. CASE sched_timeout(c)
    <2>1. /\ Layer' /\ pc' = pc
          /\ \/ UNCHANGED tskstat /\ Queues(FlgHeads, FlgBlockers, L)'
             \/ \E t : TimedOut(FlgHeads, FlgBlockers, L, t)
      BY <1>2, <1>10, QueuesTimeout
    <2>2. c_tskid' = c_tskid
      BY <1>10 DEF sched_timeout
    <2>3. \A t \in Task : tskstat'[t] = "WAI" => tskstat[t] = "WAI"
      BY <1>2, <2>1 DEF TimedOut
    <2>4. PatternsHeard'
      <3>1. \A b \in Cpu : c_tskid[b] \in Task
        BY <1>2 DEF Layer, TypeOK
      <3>2. QED
        BY <1>2, <1>5, <2>1, <2>2, <2>3, <3>1 DEF PatternsHeard
    <2>5. CASE Queues(FlgHeads, FlgBlockers, L)'
      BY <1>7, <1>8, <2>1, <2>3, <2>4, <2>5
    <2>6. ASSUME NEW t, TimedOut(FlgHeads, FlgBlockers, L, t)
          PROVE  FlgKept
      <3>1. PICK K : K = Without(FlgHeads, L, t)
        OBVIOUS
      <3>2. Queues(FlgHeads, FlgBlockers, K)' /\ \A h \in FlgHeads : K[h] = L[h] \ {t}
        BY <2>6, <3>1 DEF TimedOut, Without
      <3>3. QED
        BY <1>7, <1>8, <2>1, <2>3, <2>4, <3>2, FlgNodes
    <2>7. QED
      BY <2>1, <2>5, <2>6
  <1>11. CASE \/ Interrupt(c) \/ tick_done(c) \/ store_ret(c) \/ sched_do_next_tsk(c)
              \/ intr_leave(c) \/ clear_flag(c)
    <2>1. /\ UNCHANGED <<wlink, wupcnt>>
          /\ \A t \in Task : tskstat'[t] = "WAI" <=> tskstat[t] = "WAI"
          /\ \A b \in Cpu : b # c => pc'[b] = pc[b] /\ c_tskid'[b] = c_tskid[b]
          /\ pc'[c] = "user" => pc[c] # "user" /\ c_tskid' = c_tskid
      BY <1>2, <1>11, QuietKernel
    <2>2. Queues(FlgHeads, FlgBlockers, L)'
      BY <1>2, <2>1, QueuesSame
    <2>3. Layer'
      BY <1>2, <1>11, LayerStep DEF Kernel, Undisturbed, Application
    <2>4. PatternsHeard'
      <3>1. ASSUME NEW b \in Cpu, pc'[b] = "user"
            PROVE  flgout'[c_tskid'[b]] = {}
        <4>1. CASE b = c
          <5>1. Resumes(c) /\ c_tskid' = c_tskid
            BY <2>1, <3>1, <4>1 DEF Resumes
          <5>2. QED
            BY <1>2, <1>3, <4>1, <5>1 DEF FlgTypeOK
        <4>2. CASE b # c
          <5>1. flgout[c_tskid[b]] = {} /\ c_tskid[b] \in Task /\ c_tskid'[b] = c_tskid[b]
            BY <1>2, <2>1, <3>1, <4>2 DEF PatternsHeard, Layer, TypeOK
          <5>2. QED
            BY <1>5, <5>1
        <4>3. QED
          BY <4>1, <4>2
      <3>2. \A t \in Task : tskstat'[t] = "WAI" => flgout'[t] = {}
        BY <1>2, <1>5, <2>1 DEF PatternsHeard
      <3>3. QED
        BY <3>1, <3>2 DEF PatternsHeard
    <2>5. QED
      BY <1>7, <1>8, <2>1, <2>2, <2>3, <2>4
  <1>12. QED
    BY <1>9, <1>10, <1>11 DEF FitStep, Kernel

LEMMA FlgStutter ==
  ASSUME Application(FlgBlockers), FlgInv, UNCHANGED <<vars, flgVars>>
  PROVE  FlgInv'
  <1>1. PICK L : FlgWaits(L)
    BY DEF FlgInv
  <1>2. Undisturbed(FlgHeads, FlgBlockers) /\ Queues(FlgHeads, FlgBlockers, L)
    BY <1>1, FlgNodes DEF FlgWaits
  <1>3. UNCHANGED <<wlink, wupcnt, tskstat, pc, c_tskid, flg_act, flgptn, waiptn, wfmode, flgout>>
    BY DEF vars, readyVars, flgVars
  <1>4. Queues(FlgHeads, FlgBlockers, L)'
    BY <1>2, <1>3, QueuesFewer
  <1>5. FlgWaits(L)'
    BY <1>1, <1>3, <1>4 DEF FlgWaits, MetBy
  <1>6. Layer'
    BY LayerStutter DEF FlgInv
  <1>7. FlgTypeOK' /\ PatternsHeard'
    BY <1>3 DEF FlgInv, FlgTypeOK, PatternsHeard
  <1>8. QED
    BY <1>5, <1>6, <1>7 DEF FlgInv

LEMMA FlgInvInit ==
  ASSUME Application(FlgBlockers), TasksInit, FlgInit
  PROVE  FlgInv
  <1>1. PICK L : L = [h \in FlgHeads |-> {}]
    OBVIOUS
  <1>2. Undisturbed(FlgHeads, FlgBlockers) /\ \A h \in FlgHeads : L[h] = {}
    BY <1>1, FlgNodes
  <1>3. Layer /\ Queues(FlgHeads, FlgBlockers, L)
    BY <1>2, QueuesInit
  <1>4. FlgTypeOK /\ PatternsHeard
    <2>1. \A c \in Cpu : c_tskid[c] \in Task
      BY <1>3 DEF Layer, TypeOK
    <2>2. QED
      BY <2>1 DEF FlgInit, FlgTypeOK, PatternsHeard, Mode
  <1>5. FlgWaits(L)
    BY <1>2, <1>3, FlgNodes DEF FlgWaits
  <1>6. QED
    BY <1>3, <1>4, <1>5 DEF FlgInv

LEMMA FlgInvariance == Application(FlgBlockers) /\ FlgSpec => []FlgInv
  <1> SUFFICES ASSUME Application(FlgBlockers) PROVE FlgSpec => []FlgInv
    OBVIOUS
  <1>1. TasksInit /\ FlgInit => FlgInv
    BY FlgInvInit
  <1>2. FlgInv /\ [\E c \in Cpu : FlgStep(c)]_<<vars, flgVars>> => FlgInv'
    BY FlgCallKept, FlgFitStep, FlgStutter DEF FlgStep, FlgKept
  <1>3. QED
    BY <1>1, <1>2, PTL DEF FlgSpec

\* Nobody sleeps on an event flag whose pattern meets his wait: not behind a
\* set_flg whose walk ends early, not after the pattern was cleared, created
\* anew or taken by somebody else (kernel/sys_flg.c:85-214); for any number of
\* tasks and flags, among which tasks may be left behind in the queues.
THEOREM FlagsNeverMissed == Application(FlgBlockers) /\ FlgSpec => []NoFlagMissed
  <1> SUFFICES ASSUME Application(FlgBlockers) PROVE FlgSpec => []NoFlagMissed
    OBVIOUS
  <1>1. FlgInv => NoFlagMissed
    <2> SUFFICES ASSUME FlgInv PROVE NoFlagMissed
      OBVIOUS
    <2>1. PICK L : FlgWaits(L)
      BY DEF FlgInv
    <2>2. \A f \in FlgId : Waiters(flg_wlink(f)) = L[flg_wlink(f)]
      BY <2>1, FlgNodes, QueueWaiters DEF FlgInv, FlgWaits
    <2>3. QED
      BY <2>1, <2>2 DEF NoFlagMissed, FlgWaits, MetBy
  <1>2. QED
    BY <1>1, FlgInvariance, PTL

\* A pattern that is stored for a sleeper meets what it waits for, although
\* another task stores it in the middle of a walk that changes the flag
\* (kernel/sys_flg.c:97-116).
THEOREM WaitsAreMet == Application(FlgBlockers) /\ FlgSpec => WaitIsMet
  <1> SUFFICES ASSUME Application(FlgBlockers) PROVE FlgSpec => WaitIsMet
    OBVIOUS
  <1> DEFINE Given == [\A t \in Task : tskstat[t] = "WAI" => \A p \in flgout'[t] :
                         waiptn[t] \subseteq p
                           \/ (wfmode[t] = "TWF_ORW" /\ waiptn[t] \cap p # {})]_flgVars
  <1>1. FlgInv /\ [\E c \in Cpu : FlgStep(c)]_<<vars, flgVars>> => Given
    <2> SUFFICES ASSUME FlgInv, \E c \in Cpu : FlgStep(c)
                 PROVE  Given
      BY DEF flgVars
    <2>1. GivesMet /\ wfmode \in [Task -> Mode]
      BY FlgCallKept, FlgFitStep DEF FlgStep, FlgKept, FlgInv, FlgTypeOK
    <2>2. QED
      BY <2>1 DEF GivesMet, MetBy, Met, Mode
  <1>2. QED
    BY <1>1, FlgInvariance, PTL DEF FlgSpec, WaitIsMet

-----------------------------------------------------------------------------
(***************************************************************************)
(* Message buffers: first the ring.  Everything below speaks of a position *)
(* by its distance from the read position, which the ring turns into an    *)
(* index.                                                                  *)
(***************************************************************************)
Size(x) == SizeBytes + msgsz[x]

LEMMA RingConstants ==
  ASSUME NEW m \in MbfId
  PROVE  /\ mbf_end(m) \in Nat /\ mbf_end(m) >= 4 /\ mbf_end(m) < UIntMod
         /\ UIntMod \in Nat /\ RingSize(m) = mbf_end(m) + 1
         /\ \A x \in Msg : /\ msgsz[x] \in Nat \ {0} /\ Size(x) \in Nat
                           /\ Size(x) = 4 + msgsz[x] /\ Size(x) > 4
  <1>1. PICK s : s = mbfsz[m]
    OBVIOUS
  <1>2. s \in Nat /\ s > 4 /\ s < UIntMod /\ UIntMod \in Nat
    BY <1>1, MbfAssumption
  <1>3. PICK d : d = (s - 1) \div 4
    OBVIOUS
  <1>4. d \in Nat /\ d >= 1 /\ d * 4 <= s - 1
    BY <1>2, <1>3
  <1>5. mbf_end(m) = d * 4
    BY <1>1, <1>3 DEF mbf_end
  <1>6. mbf_end(m) \in Nat /\ mbf_end(m) >= 4 /\ mbf_end(m) < UIntMod
    BY <1>2, <1>4, <1>5
  <1>7. \A x \in Msg : msgsz[x] \in Nat \ {0}
    BY MbfAssumption
  <1>8. QED
    BY <1>2, <1>6, <1>7 DEF RingSize, Size, SizeBytes

LEMMA Remainder ==
  ASSUME NEW n \in Nat, NEW x \in Nat, x < n + n
  PROVE  x % n = IF x < n THEN x ELSE x - n
  <1>1. CASE x < n
    BY <1>1
  <1>2. CASE x >= n
    <2>1. x - n \in 0 .. n - 1
      BY <1>2
    <2>2. x % n = x - n
      BY <1>2, <2>1
    <2>3. QED
      BY <1>2, <2>2
  <1>3. QED
    BY <1>1, <1>2

\* Going round: a step stays in the ring, steps add up, and different steps of
\* less than one round lead to different places.
LEMMA Around ==
  ASSUME NEW m \in MbfId, NEW i \in 0 .. mbf_end(m), NEW k \in 0 .. mbf_end(m)
  PROVE  /\ Advance(m, i, k) \in 0 .. mbf_end(m)
         /\ (i + k) % RingSize(m) = Advance(m, i, k)
  <1>1. PICK e \in Nat : e = mbf_end(m) /\ RingSize(m) = e + 1
    BY RingConstants
  <1>2. PICK x, n : /\ x = i + k /\ n = e + 1
                    /\ x \in Nat /\ n \in Nat /\ x < n + n
    BY <1>1
  <1>3. x % n = IF x < n THEN x ELSE x - n
    BY <1>2, Remainder
  <1>4. QED
    BY <1>1, <1>2, <1>3 DEF Advance

LEMMA Turn ==
  ASSUME NEW m \in MbfId, NEW i \in 0 .. mbf_end(m), NEW a \in Nat, NEW b \in Nat,
         a + b <= mbf_end(m)
  PROVE  Advance(m, Advance(m, i, a), b) = Advance(m, i, a + b)
  <1>1. PICK e \in Nat : e = mbf_end(m) /\ RingSize(m) = e + 1
    BY RingConstants
  <1>2. QED
    BY <1>1 DEF Advance

LEMMA Apart ==
  ASSUME NEW m \in MbfId, NEW i \in 0 .. mbf_end(m),
         NEW a \in 0 .. mbf_end(m), NEW b \in 0 .. mbf_end(m), a # b
  PROVE  Advance(m, i, a) # Advance(m, i, b)
  <1>1. PICK e \in Nat : e = mbf_end(m) /\ RingSize(m) = e + 1
    BY RingConstants
  <1>2. QED
    BY <1>1 DEF Advance

\* The places of n bytes from distance a on.
LEMMA CellsAre ==
  ASSUME NEW m \in MbfId, NEW i \in 0 .. mbf_end(m), NEW a \in Nat, NEW n \in Nat,
         a + n <= mbf_end(m) + 1, a <= mbf_end(m), NEW k \in 0 .. mbf_end(m)
  PROVE  Advance(m, i, k) \in Cells(m, Advance(m, i, a), n) <=> a <= k /\ k < a + n
  <1>1. PICK e \in Nat : e = mbf_end(m)
    BY RingConstants
  <1>2. PICK j : j = Advance(m, i, a) /\ j \in 0 .. mbf_end(m)
    BY <1>1, Around
  <1>3. ASSUME NEW d \in 0 .. n - 1
        PROVE  (j + d) % RingSize(m) = Advance(m, i, a + d) /\ a + d \in 0 .. mbf_end(m)
    <2>1. d \in Nat /\ a + d <= mbf_end(m) /\ d \in 0 .. mbf_end(m) /\ a + d \in 0 .. mbf_end(m)
      BY <1>1
    <2>2. (j + d) % RingSize(m) = Advance(m, j, d)
      BY <1>2, <2>1, Around
    <2>3. Advance(m, Advance(m, i, a), d) = Advance(m, i, a + d)
      BY <2>1, Turn
    <2>4. QED
      BY <1>2, <2>1, <2>2, <2>3
  <1>4. Cells(m, j, n) = {(j + d) % RingSize(m) : d \in 0 .. n - 1}
    BY DEF Cells
  <1>5. ASSUME a <= k, k < a + n
        PROVE  Advance(m, i, k) \in Cells(m, j, n)
    <2>1. k - a \in 0 .. n - 1 /\ a + (k - a) = k
      BY <1>1, <1>5
    <2>2. (j + (k - a)) % RingSize(m) = Advance(m, i, k)
      BY <1>3, <2>1
    <2>3. QED
      BY <1>4, <2>1, <2>2
  <1>6. ASSUME Advance(m, i, k) \in Cells(m, j, n)
        PROVE  a <= k /\ k < a + n
    <2>1. PICK d \in 0 .. n - 1 : Advance(m, i, k) = (j + d) % RingSize(m)
      BY <1>4, <1>6
    <2>2. Advance(m, i, k) = Advance(m, i, a + d) /\ a + d \in 0 .. mbf_end(m)
      BY <1>3, <2>1
    <2>3. k = a + d
      BY <2>2, Apart
    <2>4. QED
      BY <2>3
  <1>7. QED
    BY <1>2, <1>5, <1>6

-----------------------------------------------------------------------------
(***************************************************************************)
(* A buffer b holds the messages of its history: at[i] is the distance at  *)
(* which message i ends.                                                   *)
(***************************************************************************)
Cell == ({"size"} \X Nat) \cup ({"text"} \X Msg) \cup {Blank}

Buffers(m) == [cell : [0 .. mbf_end(m) -> Cell], r : 0 .. mbf_end(m),
               w : 0 .. mbf_end(m), flow : Seq(Msg)]

Fill(m, b) == IF b.w >= b.r THEN b.w - b.r ELSE b.w - b.r + RingSize(m)

Ending(f, at) ==
  /\ at \in [0 .. Len(f) -> Nat] /\ at[0] = 0
  /\ \A i \in 1 .. Len(f) : at[i] = at[i - 1] + Size(f[i])

Wrote(m, b, at, i) ==
  \A k \in Nat : at[i - 1] <= k /\ k < at[i] =>
    b.cell[Advance(m, b.r, k)] =
      IF k < at[i - 1] + SizeBytes THEN SizeOf(b.flow[i]) ELSE TextOf(b.flow[i])

Laid(m, b, at) ==
  /\ b \in Buffers(m) /\ Ending(b.flow, at)
  /\ at[Len(b.flow)] = Fill(m, b)
  /\ \A i \in 1 .. Len(b.flow) : Wrote(m, b, at, i)

Stored(m, b) == \E at : Laid(m, b, at)

LEMMA Ascends ==
  ASSUME NEW f \in Seq(Msg), NEW at, Ending(f, at), NEW i \in 0 .. Len(f), NEW j \in 0 .. Len(f),
         i <= j
  PROVE  at[i] <= at[j] /\ (i < j => at[i] + 4 < at[j])
  <1> DEFINE T == {d \in Nat : i + d <= Len(f) => at[i] <= at[i + d] /\ (d > 0 => at[i] + 4 < at[i + d])}
  <1>0. Len(f) \in Nat /\ i \in Nat /\ \A k \in 0 .. Len(f) : at[k] \in Nat
    BY DEF Ending
  <1>1. 0 \in T
    BY <1>0
  <1>2. ASSUME NEW d \in Nat, d \in T
        PROVE  d + 1 \in T
    <2> SUFFICES ASSUME i + (d + 1) <= Len(f)
                 PROVE  at[i] <= at[i + (d + 1)] /\ at[i] + 4 < at[i + (d + 1)]
      OBVIOUS
    <2>1. PICK k \in 1 .. Len(f) : k = i + (d + 1) /\ k - 1 = i + d
      BY <1>0
    <2>2. at[k] = at[k - 1] + Size(f[k]) /\ Size(f[k]) \in Nat /\ Size(f[k]) > 4
      <3>1. f[k] \in Msg
        OBVIOUS
      <3>2. Size(f[k]) \in Nat /\ Size(f[k]) > 4
        BY <3>1, MbfAssumption DEF Size, SizeBytes
      <3>3. QED
        BY <3>2 DEF Ending
    <2>3. at[i] <= at[k - 1]
      BY <1>0, <1>2, <2>1
    <2>4. at[i] \in Nat /\ at[k - 1] \in Nat
      BY <1>0, <2>1
    <2>5. QED
      BY <2>1, <2>2, <2>3, <2>4
  <1> HIDE DEF T
  <1>3. Nat \subseteq T
    BY <1>1, <1>2, SetInduction
  <1>4. j - i \in Nat /\ i + (j - i) = j
    BY <1>0
  <1>5. j - i \in T
    BY <1>3, <1>4
  <1>6. QED
    BY <1>0, <1>4, <1>5 DEF T

\* Fill and the write position are the same thing.
LEMMA FillIs ==
  ASSUME NEW m \in MbfId, NEW b \in Buffers(m)
  PROVE  /\ Fill(m, b) \in 0 .. mbf_end(m) /\ b.w = Advance(m, b.r, Fill(m, b))
         /\ \A d \in 0 .. mbf_end(m) : b.w = Advance(m, b.r, d) => d = Fill(m, b)
         /\ Fill(m, b) = 0 <=> b.w = b.r
  <1>1. PICK e \in Nat : e = mbf_end(m) /\ RingSize(m) = e + 1
    BY RingConstants
  <1>2. b.w \in 0 .. e /\ b.r \in 0 .. e
    BY <1>1 DEF Buffers
  <1>3. QED
    BY <1>1, <1>2 DEF Fill, Advance

LEMMA EmptyRing ==
  ASSUME NEW m \in MbfId, NEW b \in Buffers(m), b.flow = <<>>, b.w = b.r
  PROVE  Stored(m, b) /\ Fill(m, b) = 0
  <1>1. Len(b.flow) = 0 /\ Fill(m, b) = 0
    BY FillIs
  <1>2. Ending(b.flow, [i \in 0 .. 0 |-> 0])
    BY <1>1 DEF Ending
  <1>3. Laid(m, b, [i \in 0 .. 0 |-> 0])
    BY <1>1, <1>2 DEF Laid
  <1>4. QED
    BY <1>1, <1>3 DEF Stored

\* A message that fits is stored behind the others.
LEMMA PutStores ==
  ASSUME NEW m \in MbfId, NEW b, Stored(m, b), NEW x \in Msg,
         Fill(m, b) + Size(x) <= mbf_end(m)
  PROVE  Stored(m, mbf_put(m, b, x)) /\ Fill(m, mbf_put(m, b, x)) = Fill(m, b) + Size(x)
  <1>1. PICK at : Laid(m, b, at)
    BY DEF Stored
  <1>2. PICK e, fl, z, n : /\ e = mbf_end(m) /\ fl = Fill(m, b) /\ z = Size(x) /\ n = Len(b.flow)
    OBVIOUS
  <1>3. /\ e \in Nat /\ z \in Nat /\ z > 4 /\ z = 4 + msgsz[x] /\ fl \in 0 .. e /\ fl + z <= e
        /\ n \in Nat /\ b \in Buffers(m) /\ b.r \in 0 .. e /\ b.w = Advance(m, b.r, fl)
        /\ RingSize(m) = e + 1 /\ b.cell \in [0 .. e -> Cell] /\ b.flow \in Seq(Msg)
    BY <1>1, <1>2, RingConstants, FillIs DEF Laid, Buffers
  <1>0. PICK y \in Nat : y = msgsz[x] /\ z = 4 + y /\ y > 0
    BY <1>3, RingConstants
  <1>00. /\ fl \in Nat /\ e \in Nat /\ z \in Nat /\ n \in Nat /\ fl + z <= e
    BY <1>3
  <1>4. PICK p : p = mbf_put(m, b, x)
    OBVIOUS
  <1>5. PICK body : body = Advance(m, b.w, SizeBytes)
    OBVIOUS
  <1>6. /\ p.r = b.r /\ p.flow = Append(b.flow, x) /\ p.w = Advance(m, body, msgsz[x])
        /\ p.cell = [i \in 0 .. e |->
                       IF i \in Cells(m, body, msgsz[x]) THEN TextOf(x)
                       ELSE IF i \in Cells(m, b.w, SizeBytes) THEN SizeOf(x)
                       ELSE b.cell[i]]
        /\ p = [cell |-> p.cell, r |-> p.r, w |-> p.w, flow |-> p.flow]
    BY <1>3, <1>4, <1>5 DEF mbf_put
  <1>7. /\ body = Advance(m, b.r, fl + 4) /\ p.w = Advance(m, b.r, fl + z)
        /\ p.w \in 0 .. e /\ msgsz[x] \in Nat
    <2>1. SizeBytes = 4 /\ msgsz[x] \in Nat /\ 4 \in Nat
      BY MbfAssumption DEF SizeBytes
    <2>2. body = Advance(m, b.r, fl + 4)
      BY <1>2, <1>3, <1>5, <2>1, Turn
    <2>3. fl + 4 \in Nat /\ (fl + 4) + msgsz[x] = fl + z /\ fl + z \in 0 .. e
      BY <1>0, <1>00
    <2>4. Advance(m, Advance(m, b.r, fl + 4), msgsz[x]) = Advance(m, b.r, fl + z)
      <3>1. PICK a \in Nat : a = fl + 4 /\ a + msgsz[x] = fl + z
        BY <2>3
      <3>2. Advance(m, Advance(m, b.r, a), msgsz[x]) = Advance(m, b.r, a + msgsz[x])
        BY SMTT(30), <1>2, <1>3, <2>1, <2>3, <3>1, Turn
      <3>3. QED
        BY <3>1, <3>2
    <2>5. Advance(m, b.r, fl + z) \in 0 .. e
      BY <1>2, <1>3, <2>3, Around
    <2>6. QED
      BY <1>6, <2>1, <2>2, <2>4, <2>5
  <1>8. \A k \in 0 .. e :
          p.cell[Advance(m, b.r, k)] =
            IF fl + 4 <= k /\ k < fl + z THEN TextOf(x)
            ELSE IF fl <= k /\ k < fl + 4 THEN SizeOf(x)
            ELSE b.cell[Advance(m, b.r, k)]
    <2> SUFFICES ASSUME NEW k \in 0 .. e
                 PROVE  p.cell[Advance(m, b.r, k)] =
                          IF fl + 4 <= k /\ k < fl + z THEN TextOf(x)
                          ELSE IF fl <= k /\ k < fl + 4 THEN SizeOf(x)
                          ELSE b.cell[Advance(m, b.r, k)]
      OBVIOUS
    <2>1. Advance(m, b.r, k) \in 0 .. e
      BY <1>2, <1>3, Around
    <2>2. Advance(m, b.r, k) \in Cells(m, body, msgsz[x]) <=> fl + 4 <= k /\ k < fl + z
      <3>1. PICK a \in Nat : a = fl + 4 /\ a + msgsz[x] = fl + z /\ body = Advance(m, b.r, a)
        BY <1>0, <1>00, <1>7
      <3>2. a + msgsz[x] <= e + 1 /\ a <= e
        BY <1>0, <1>00, <3>1
      <3>3. Advance(m, b.r, k) \in Cells(m, Advance(m, b.r, a), msgsz[x]) <=> a <= k /\ k < a + msgsz[x]
        BY <1>2, <1>3, <1>7, <3>2, CellsAre
      <3>4. QED
        BY <3>1, <3>3
    <2>3. Advance(m, b.r, k) \in Cells(m, b.w, SizeBytes) <=> fl <= k /\ k < fl + 4
      <3>1. fl \in Nat /\ 4 \in Nat /\ fl + 4 <= e + 1 /\ fl <= e /\ SizeBytes = 4
        BY <1>3 DEF SizeBytes
      <3>2. Advance(m, b.r, k) \in Cells(m, Advance(m, b.r, fl), 4) <=> fl <= k /\ k < fl + 4
        BY <1>2, <1>3, <3>1, CellsAre
      <3>3. QED
        BY <1>3, <3>1, <3>2
    <2>4. QED
      BY <1>6, <2>1, <2>2, <2>3
  <1>9. p \in Buffers(m)
    <2>1. SizeOf(x) \in Cell /\ TextOf(x) \in Cell
      BY MbfAssumption DEF SizeOf, TextOf, Cell
    <2>2. p.cell \in [0 .. e -> Cell]
      BY <1>3, <1>6, <2>1
    <2>3. Append(b.flow, x) \in Seq(Msg)
      BY <1>3
    <2>4. QED
      BY <1>2, <1>3, <1>6, <1>7, <2>2, <2>3 DEF Buffers
  <1>10. Fill(m, p) = fl + z
    <2>1. fl + z \in 0 .. mbf_end(m)
      BY <1>2, <1>3
    <2>2. QED
      BY <1>6, <1>7, <1>9, <2>1, FillIs
  <1>11. PICK at2 : at2 = [i \in 0 .. n + 1 |-> IF i = n + 1 THEN fl + z ELSE at[i]]
    OBVIOUS
  <1>12. /\ at \in [0 .. n -> Nat] /\ at[0] = 0 /\ at[n] = fl
         /\ \A i \in 1 .. n : at[i] = at[i - 1] + Size(b.flow[i])
    BY <1>1, <1>2 DEF Laid, Ending
  <1>13. /\ Len(p.flow) = n + 1 /\ p.flow[n + 1] = x
         /\ \A i \in 1 .. n : p.flow[i] = b.flow[i]
    BY <1>2, <1>3, <1>6
  <1>14. /\ at2[n + 1] = fl + z /\ at2[n] = fl
         /\ \A i \in 0 .. n : at2[i] = at[i]
    BY <1>3, <1>11, <1>12
  <1>15. Ending(p.flow, at2)
    <2>1. at2 \in [0 .. n + 1 -> Nat]
      BY <1>3, <1>11, <1>12
    <2>2. at2[0] = 0
      BY <1>3, <1>12, <1>14
    <2>3. ASSUME NEW i \in 1 .. n + 1
          PROVE  at2[i] = at2[i - 1] + Size(p.flow[i])
      <3>1. CASE i = n + 1
        <4>1. i - 1 = n /\ at2[i] = fl + z /\ at2[i - 1] = fl /\ p.flow[i] = x
          BY <1>00, <1>13, <1>14, <3>1
        <4>2. QED
          BY <1>2, <4>1
      <3>2. CASE i # n + 1
        <4>1. i \in 1 .. n /\ i \in 0 .. n /\ i - 1 \in 0 .. n
          BY SMTT(30), <1>3, <3>2
        <4>2. QED
          BY <1>12, <1>13, <1>14, <4>1
      <3>3. QED
        BY <3>1, <3>2
    <2>4. QED
      BY <1>13, <2>1, <2>2, <2>3 DEF Ending
  <1>16. ASSUME NEW i \in 1 .. n + 1
         PROVE  Wrote(m, p, at2, i)
    <2> SUFFICES ASSUME NEW k \in Nat, at2[i - 1] <= k, k < at2[i]
                 PROVE  p.cell[Advance(m, p.r, k)] =
                          IF k < at2[i - 1] + SizeBytes THEN SizeOf(p.flow[i]) ELSE TextOf(p.flow[i])
      BY DEF Wrote
    <2>1. CASE i = n + 1
      <3>0. i - 1 = n /\ at2[i] = fl + z /\ at2[i - 1] = fl /\ p.flow[i] = x
        BY SMTT(30), <1>00, <1>13, <1>14, <2>1
      <3>1. fl <= k /\ k < fl + z /\ k \in 0 .. e
        BY <1>00, <3>0
      <3>2. SizeBytes = 4
        BY DEF SizeBytes
      <3>3. fl + 4 <= k <=> ~(k < fl + 4)
        BY <1>00, <3>1
      <3>4. QED
        BY <1>6, <1>8, <3>0, <3>1, <3>2, <3>3
    <2>2. CASE i # n + 1
      <3>1. i \in 1 .. n /\ i \in 0 .. n /\ i - 1 \in 0 .. n
        BY SMTT(30), <1>3, <2>2
      <3>2. at[i - 1] <= k /\ k < at[i] /\ at2[i - 1] = at[i - 1] /\ p.flow[i] = b.flow[i]
        BY <1>13, <1>14, <3>1
      <3>3. at[i] <= fl
        <4>1. n \in 0 .. Len(b.flow) /\ i \in 0 .. Len(b.flow) /\ i <= n
          BY <1>2, <1>3, <3>1
        <4>2. at[i] <= at[n]
          BY <1>1, <1>3, <4>1, Ascends DEF Laid
        <4>3. QED
          BY <1>12, <4>2
      <3>4. k \in 0 .. e /\ k < fl
        BY <1>3, <1>12, <3>1, <3>2, <3>3
      <3>5. p.cell[Advance(m, b.r, k)] = b.cell[Advance(m, b.r, k)]
        BY <1>3, <1>8, <3>4
      <3>6. Wrote(m, b, at, i)
        BY <1>1, <1>2, <3>1 DEF Laid
      <3>7. QED
        BY <1>6, <3>2, <3>5, <3>6 DEF Wrote
    <2>3. QED
      BY <2>1, <2>2
  <1>17. Laid(m, p, at2)
    BY <1>9, <1>10, <1>13, <1>14, <1>15, <1>16 DEF Laid
  <1>18. QED
    BY <1>2, <1>4, <1>10, <1>17 DEF Stored

\* The oldest message is taken out.
LEMMA GetStores ==
  ASSUME NEW m \in MbfId, NEW b, Stored(m, b), b.w # b.r, NEW x \in Msg, IsOldest(m, b, x)
  PROVE  /\ b.flow \in Seq(Msg) /\ b.flow # <<>> /\ x = Head(b.flow)
         /\ Stored(m, mbf_get(m, b, x))
         /\ Fill(m, b) \in Nat /\ Fill(m, b) >= Size(x)
         /\ Fill(m, mbf_get(m, b, x)) = Fill(m, b) - Size(x)
  <1>1. PICK at : Laid(m, b, at)
    BY DEF Stored
  <1>2. PICK e, fl, z, n : /\ e = mbf_end(m) /\ fl = Fill(m, b) /\ z = Size(x) /\ n = Len(b.flow)
    OBVIOUS
  <1>3. /\ e \in Nat /\ z \in Nat /\ z > 4 /\ z = 4 + msgsz[x] /\ fl \in 0 .. e /\ fl # 0
        /\ n \in Nat /\ b \in Buffers(m) /\ b.r \in 0 .. e /\ b.w = Advance(m, b.r, fl)
        /\ RingSize(m) = e + 1 /\ b.cell \in [0 .. e -> Cell] /\ b.flow \in Seq(Msg)
    BY <1>1, <1>2, RingConstants, FillIs DEF Laid, Buffers
  <1>4. PICK y \in Nat : y = msgsz[x] /\ z = 4 + y /\ y > 0
    BY <1>3, RingConstants
  <1>5. /\ fl \in Nat /\ e \in Nat /\ z \in Nat /\ n \in Nat /\ fl <= e
    BY <1>3
  <1>6. /\ at \in [0 .. n -> Nat] /\ at[0] = 0 /\ at[n] = fl
        /\ \A i \in 1 .. n : at[i] = at[i - 1] + Size(b.flow[i])
    BY <1>1, <1>2 DEF Laid, Ending
  <1>7. n >= 1 /\ 1 \in 1 .. n
    BY <1>3, <1>5, <1>6
  <1>8. \A i \in 0 .. n, j \in 0 .. n : i <= j => at[i] <= at[j]
    <2>1. \A i \in 0 .. Len(b.flow), j \in 0 .. Len(b.flow) : i <= j => at[i] <= at[j]
      BY <1>1, <1>3, Ascends DEF Laid
    <2>2. QED
      BY <1>2, <2>1
  <1>9. x = b.flow[1] /\ at[1] = z /\ z <= fl
    <2>1. at[1] = 0 + Size(b.flow[1]) /\ b.flow[1] \in Msg
      <3>1. at[1] = at[1 - 1] + Size(b.flow[1]) /\ 1 - 1 = 0
        BY <1>6, <1>7
      <3>2. b.flow[1] \in Msg
        BY <1>2, <1>3, <1>7
      <3>3. QED
        BY <1>6, <3>1, <3>2
    <2>2. at[1] = Size(b.flow[1]) /\ Size(b.flow[1]) > 4 /\ Size(b.flow[1]) \in Nat
      BY <2>1, RingConstants
    <2>3. Wrote(m, b, at, 1)
      BY <1>1, <1>2, <1>7 DEF Laid
    <2>4. b.cell[Advance(m, b.r, 4)] = TextOf(b.flow[1])
      <3>1. at[1 - 1] = 0 /\ 0 <= 4 /\ 4 < at[1] /\ ~(4 < 0 + SizeBytes)
        BY <1>6, <2>2 DEF SizeBytes
      <3>2. QED
        BY <2>3, <3>1 DEF Wrote
    <2>5. b.cell[Advance(m, b.r, 4)] = TextOf(x)
      BY DEF IsOldest, SizeBytes
    <2>6. x = b.flow[1]
      BY <2>4, <2>5 DEF TextOf
    <2>7. at[1] <= at[n]
      BY <1>5, <1>7, <1>8
    <2>8. QED
      BY <1>2, <1>6, <2>2, <2>6, <2>7
  <1>10. PICK p : p = mbf_get(m, b, x)
    OBVIOUS
  <1>11. /\ p.w = b.w /\ p.flow = Tail(b.flow)
         /\ p.r = Advance(m, Advance(m, b.r, SizeBytes), msgsz[x])
         /\ p.cell = [i \in 0 .. e |->
                        IF i \in Cells(m, b.r, SizeBytes + msgsz[x]) THEN Blank ELSE b.cell[i]]
         /\ p = [cell |-> p.cell, r |-> p.r, w |-> p.w, flow |-> p.flow]
    BY <1>3, <1>10 DEF mbf_get
  <1>12. p.r = Advance(m, b.r, z) /\ p.r \in 0 .. e
    <2>1. z <= e /\ 4 \in Nat /\ 4 + y = z /\ SizeBytes = 4 /\ z \in 0 .. e
      BY <1>4, <1>5, <1>9 DEF SizeBytes
    <2>2. Advance(m, Advance(m, b.r, 4), y) = Advance(m, b.r, 4 + y)
      <3>1. PICK a \in Nat : a = 4 /\ a + y <= mbf_end(m)
        BY <1>2, <1>4, <1>5, <2>1
      <3>2. b.r \in 0 .. mbf_end(m)
        BY <1>2, <1>3
      <3>3. Advance(m, Advance(m, b.r, a), y) = Advance(m, b.r, a + y)
        BY <1>4, <3>1, <3>2, Turn
      <3>4. QED
        BY <3>1, <3>3
    <2>3. Advance(m, b.r, z) \in 0 .. e
      BY <1>2, <1>3, <2>1, Around
    <2>4. QED
      BY <1>4, <1>11, <2>1, <2>2, <2>3
  <1>13. \A k \in Nat : z + k <= e =>
           /\ Advance(m, p.r, k) = Advance(m, b.r, z + k)
           /\ p.cell[Advance(m, p.r, k)] = b.cell[Advance(m, b.r, z + k)]
    <2> SUFFICES ASSUME NEW k \in Nat, z + k <= e
                 PROVE  /\ Advance(m, p.r, k) = Advance(m, b.r, z + k)
                        /\ p.cell[Advance(m, p.r, k)] = b.cell[Advance(m, b.r, z + k)]
      OBVIOUS
    <2>1. Advance(m, p.r, k) = Advance(m, b.r, z + k)
      BY <1>2, <1>3, <1>12, Turn
    <2>2. PICK j \in 0 .. e : j = z + k /\ j >= z
      BY <1>5
    <2>3. Advance(m, b.r, j) \in 0 .. e
      BY <1>2, <1>3, Around
    <2>4. Advance(m, b.r, j) \notin Cells(m, b.r, z)
      <3>1. Advance(m, b.r, 0) = b.r
        BY <1>2, <1>3 DEF Advance
      <3>2. 0 \in Nat /\ 0 + z <= e + 1 /\ 0 <= e /\ ~(j < 0 + z)
        BY <1>5, <2>2
      <3>3. Advance(m, b.r, j) \in Cells(m, Advance(m, b.r, 0), z) <=> 0 <= j /\ j < 0 + z
        BY <1>2, <1>3, <3>2, CellsAre
      <3>4. QED
        BY <3>1, <3>2, <3>3
    <2>5. SizeBytes + msgsz[x] = z
      BY <1>4 DEF SizeBytes
    <2>6. QED
      BY <1>11, <2>1, <2>2, <2>3, <2>4, <2>5
  <1>14. p \in Buffers(m)
    <2>1. p.cell \in [0 .. e -> Cell]
      BY <1>3, <1>11 DEF Cell
    <2>2. Tail(b.flow) \in Seq(Msg)
      BY <1>2, <1>3, <1>7
    <2>3. b.w \in 0 .. e
      BY <1>2, <1>3 DEF Buffers
    <2>4. QED
      BY <1>2, <1>11, <1>12, <2>1, <2>2, <2>3 DEF Buffers
  <1>15. Fill(m, p) = fl - z
    <2>1. PICK d \in Nat : d = fl - z /\ z + d = fl /\ d \in 0 .. e
      BY <1>5, <1>9
    <2>2. Advance(m, p.r, d) = Advance(m, b.r, z + d)
      BY <1>5, <1>13, <2>1
    <2>3. p.w = Advance(m, p.r, d)
      BY <1>3, <1>11, <2>1, <2>2
    <2>4. QED
      BY <1>2, <1>14, <2>1, <2>3, FillIs
  <1>16. /\ Len(p.flow) = n - 1
         /\ \A i \in 1 .. n - 1 : p.flow[i] = b.flow[i + 1]
    BY <1>2, <1>3, <1>7, <1>11
  <1>17. PICK at2 : at2 = [i \in 0 .. n - 1 |-> at[i + 1] - z]
    OBVIOUS
  <1>18. \A i \in 0 .. n - 1 : /\ i + 1 \in 0 .. n /\ at[i + 1] \in Nat /\ z <= at[i + 1]
                               /\ at2[i] = at[i + 1] - z /\ at2[i] \in Nat
    <2> SUFFICES ASSUME NEW i \in 0 .. n - 1
                 PROVE  /\ i + 1 \in 0 .. n /\ at[i + 1] \in Nat /\ z <= at[i + 1]
                        /\ at2[i] = at[i + 1] - z /\ at2[i] \in Nat
      OBVIOUS
    <2>1. i + 1 \in 0 .. n /\ 1 \in 0 .. n /\ 1 <= i + 1
      BY <1>5, <1>7
    <2>2. at[1] <= at[i + 1] /\ at[i + 1] \in Nat
      BY <1>6, <1>8, <2>1
    <2>3. QED
      BY <1>5, <1>9, <1>17, <2>1, <2>2
  <1>19. Ending(p.flow, at2)
    <2>1. at2 \in [0 .. n - 1 -> Nat]
      BY <1>17, <1>18
    <2>2. at2[0] = 0
      <3>1. 0 \in 0 .. n - 1 /\ 0 + 1 = 1
        BY <1>5, <1>7
      <3>2. at2[0] = at[1] - z
        BY <1>17, <3>1
      <3>3. QED
        BY <1>5, <1>9, <3>2
    <2>3. ASSUME NEW i \in 1 .. n - 1
          PROVE  at2[i] = at2[i - 1] + Size(p.flow[i])
      <3>1. /\ i \in 0 .. n - 1 /\ i - 1 \in 0 .. n - 1 /\ i + 1 \in 1 .. n
            /\ (i - 1) + 1 = i /\ (i + 1) - 1 = i /\ i \in 0 .. n
        BY <1>5
      <3>2. at[i + 1] = at[i] + Size(b.flow[i + 1])
        BY <1>6, <3>1
      <3>3. b.flow[i + 1] \in Msg
        BY <1>2, <1>3, <3>1
      <3>4. Size(b.flow[i + 1]) \in Nat
        BY <3>3, RingConstants
      <3>5. at2[i] = at[i + 1] - z /\ at2[i - 1] = at[i] - z /\ at[i] \in Nat
        BY <1>6, <1>18, <3>1
      <3>6. QED
        BY <1>5, <1>16, <3>2, <3>4, <3>5
    <2>4. QED
      BY <1>16, <2>1, <2>2, <2>3 DEF Ending
  <1>20. ASSUME NEW i \in 1 .. n - 1
         PROVE  Wrote(m, p, at2, i)
    <2> SUFFICES ASSUME NEW k \in Nat, at2[i - 1] <= k, k < at2[i]
                 PROVE  p.cell[Advance(m, p.r, k)] =
                          IF k < at2[i - 1] + SizeBytes THEN SizeOf(p.flow[i]) ELSE TextOf(p.flow[i])
      BY DEF Wrote
    <2>1. /\ i \in 0 .. n - 1 /\ i - 1 \in 0 .. n - 1 /\ i + 1 \in 1 .. n
          /\ (i - 1) + 1 = i /\ (i + 1) - 1 = i /\ i + 1 \in 0 .. n /\ n \in 0 .. n
          /\ i + 1 <= n /\ i \in 0 .. n
      BY <1>5
    <2>2. at2[i] = at[i + 1] - z /\ at2[i - 1] = at[i] - z /\ at[i] \in Nat /\ at[i + 1] \in Nat
      BY <1>6, <1>18, <2>1
    <2>3. at[i + 1] <= fl
      BY <1>6, <1>8, <2>1
    <2>4. PICK j \in Nat : j = z + k /\ at[i] <= j /\ j < at[i + 1] /\ j <= e
      BY <1>5, <2>2, <2>3
    <2>5. p.cell[Advance(m, p.r, k)] = b.cell[Advance(m, b.r, j)]
      BY <1>13, <2>4
    <2>6. Wrote(m, b, at, i + 1)
      BY <1>1, <1>2, <2>1 DEF Laid
    <2>7. b.cell[Advance(m, b.r, j)] =
            IF j < at[i] + SizeBytes THEN SizeOf(b.flow[i + 1]) ELSE TextOf(b.flow[i + 1])
      BY <2>1, <2>4, <2>6 DEF Wrote
    <2>8. j < at[i] + SizeBytes <=> k < at2[i - 1] + SizeBytes
      BY <1>5, <2>2, <2>4 DEF SizeBytes
    <2>9. QED
      BY <1>16, <2>5, <2>7, <2>8
  <1>21. Laid(m, p, at2)
    <2>1. at2[n - 1] = fl - z
      <3>1. n - 1 \in 0 .. n - 1 /\ (n - 1) + 1 = n
        BY <1>5, <1>7
      <3>2. QED
        BY <1>6, <1>18, <3>1
    <2>2. QED
      BY <1>14, <1>15, <1>16, <1>19, <1>20, <2>1 DEF Laid
  <1>22. Head(b.flow) = b.flow[1] /\ b.flow # <<>>
    BY <1>2, <1>3, <1>7
  <1>23. QED
    BY <1>2, <1>3, <1>5, <1>9, <1>10, <1>15, <1>21, <1>22 DEF Stored

(***************************************************************************)
(* What is asked of sizes: no filling that whole messages can reach leaves *)
(* a part of a word, in which mbf_rest would wrap below zero.              *)
(***************************************************************************)
Reached(m, G) ==
  /\ 0 \in G
  /\ \A g \in G : g + SizeBytes <= mbf_end(m)
  /\ \A g \in G, x \in Msg : /\ g + Size(x) <= mbf_end(m) => g + Size(x) \in G
                             /\ g >= Size(x) => g - Size(x) \in G

Spacious == \A m \in MbfId : \E G \in SUBSET Nat : Reached(m, G)

Fills(m) == CHOOSE G \in SUBSET Nat : Reached(m, G)

LEMMA FillsReached ==
  ASSUME Spacious, NEW m \in MbfId
  PROVE  Fills(m) \subseteq Nat /\ Reached(m, Fills(m))
  BY DEF Spacious, Fills

\* The test of the code, by its value.
LEMMA RoomIs ==
  ASSUME Spacious, NEW m \in MbfId, NEW b \in Buffers(m), Fill(m, b) \in Fills(m), NEW x \in Msg
  PROVE  msgsz[x] < mbf_rest(m, b) <=> Fill(m, b) + Size(x) <= mbf_end(m)
  <1>1. PICK e, fl, z, y : e = mbf_end(m) /\ fl = Fill(m, b) /\ z = Size(x) /\ y = msgsz[x]
    OBVIOUS
  <1>2. /\ e \in Nat /\ fl \in Nat /\ y \in Nat /\ z = 4 + y /\ RingSize(m) = e + 1
        /\ UIntMod \in Nat /\ e < UIntMod
    BY <1>1, RingConstants, FillsReached
  <1>3. b.r \in 0 .. e /\ b.w \in 0 .. e
    BY <1>1 DEF Buffers
  <1>4. fl + 4 <= e /\ (fl + z <= e => fl + z + 4 <= e)
    <2>1. PICK G \in SUBSET Nat : G = Fills(m) /\ Reached(m, G)
      BY FillsReached
    <2>2. \A g \in G : g + 4 <= e
      BY <1>1, <2>1 DEF Reached, SizeBytes
    <2>3. fl \in G /\ (fl + z <= e => fl + z \in G)
      BY <1>1, <2>1 DEF Reached
    <2>4. QED
      BY <2>2, <2>3
  <1>5. PICK f \in Int : f = IF b.w < b.r THEN b.r - b.w ELSE e - b.w + b.r
    BY <1>2, <1>3
  <1>6. f = e - fl \/ f = e + 1 - fl
    BY <1>1, <1>2, <1>3, <1>5 DEF Fill
  <1>7. f - 4 \in Nat /\ f - 4 < UIntMod
    BY <1>2, <1>4, <1>6
  <1>8. (f - 4) % UIntMod = f - 4
    BY <1>2, <1>7
  <1>9. mbf_rest(m, b) = f - 4
    BY <1>1, <1>5, <1>8 DEF mbf_rest, SizeBytes
  <1>10. QED
    BY <1>1, <1>2, <1>4, <1>6, <1>9

(***************************************************************************)
(* The ring as RingIntact reads it.                                        *)
(***************************************************************************)
LEMMA EndsAre ==
  ASSUME NEW f \in Seq(Msg), NEW at, Ending(f, at)
  PROVE  Ends(f) = at
  <1> DEFINE IsEnds(g) == g = [i \in 0 .. Len(f) |->
                           IF i = 0 THEN 0 ELSE g[i - 1] + (SizeBytes + msgsz[f[i]])]
             e == CHOOSE g : IsEnds(g)
  <1>0. Len(f) \in Nat
    OBVIOUS
  <1>1. Ends(f) = e
    BY DEF Ends
  <1>2. IsEnds(at)
    <2>1. \A i \in 0 .. Len(f) : i # 0 => i \in 1 .. Len(f)
      BY <1>0
    <2>2. at = [i \in 0 .. Len(f) |-> at[i]]
      BY DEF Ending
    <2>3. \A i \in 0 .. Len(f) :
            at[i] = IF i = 0 THEN 0 ELSE at[i - 1] + (SizeBytes + msgsz[f[i]])
      BY <2>1 DEF Ending, Size
    <2>4. QED
      BY <2>2, <2>3
  <1>3. IsEnds(e)
    BY <1>2
  <1> DEFINE T == {i \in Nat : i <= Len(f) => e[i] = at[i]}
  <1>4. e = [i \in 0 .. Len(f) |-> e[i]]
    BY <1>3
  <1>5. \A i \in 0 .. Len(f) : e[i] = IF i = 0 THEN 0 ELSE e[i - 1] + Size(f[i])
    BY <1>3 DEF Size
  <1> HIDE DEF e, IsEnds
  <1>6. 0 \in T
    BY <1>0, <1>5 DEF Ending
  <1>7. ASSUME NEW i \in Nat, i \in T
        PROVE  i + 1 \in T
    <2> SUFFICES ASSUME i + 1 <= Len(f)
                 PROVE  e[i + 1] = at[i + 1]
      OBVIOUS
    <2>1. PICK j \in 1 .. Len(f) : j = i + 1 /\ j - 1 = i /\ j # 0 /\ j \in 0 .. Len(f)
      BY <1>0
    <2>2. e[i] = at[i]
      BY <1>0, <1>7
    <2>3. e[j] = e[j - 1] + Size(f[j]) /\ at[j] = at[j - 1] + Size(f[j])
      BY <1>5, <2>1 DEF Ending
    <2>4. QED
      BY <2>1, <2>2, <2>3
  <1> HIDE DEF T
  <1>8. Nat \subseteq T
    BY <1>6, <1>7, SetInduction
  <1>9. \A i \in 0 .. Len(f) : e[i] = at[i]
    <2>1. \A i \in 0 .. Len(f) : i \in Nat /\ i <= Len(f)
      BY <1>0
    <2>2. QED
      BY <1>8, <2>1 DEF T
  <1>10. at = [i \in 0 .. Len(f) |-> at[i]]
    BY DEF Ending
  <1>11. QED
    BY <1>1, <1>4, <1>9, <1>10

LEMMA StoredIntact ==
  ASSUME NEW m \in MbfId, Stored(m, Buffer0(m))
  PROVE  Layout(m)
  <1>1. PICK b : b = Buffer0(m)
    OBVIOUS
  <1>2. PICK at : Laid(m, b, at)
    BY <1>1 DEF Stored
  <1>3. b.cell = mbf[m] /\ b.r = mbf_r[m] /\ b.w = mbf_w[m] /\ b.flow = flow[m]
    BY <1>1 DEF Buffer0
  <1>4. PICK e, n, r : e = mbf_end(m) /\ n = Len(flow[m]) /\ r = mbf_r[m]
    OBVIOUS
  <1>5. /\ b \in Buffers(m) /\ flow[m] \in Seq(Msg) /\ r \in 0 .. e /\ n \in Nat
        /\ e \in Nat /\ RingSize(m) = e + 1
    BY <1>2, <1>3, <1>4, RingConstants DEF Laid, Buffers
  <1>6. Ends(flow[m]) = at
    BY <1>2, <1>3, <1>5, EndsAre DEF Laid
  <1>7. at[n] = Fill(m, b) /\ at[n] \in 0 .. e /\ mbf_w[m] = Advance(m, r, at[n])
    BY <1>2, <1>3, <1>4, <1>5, FillIs DEF Laid
  <1>8. \A k \in 0 .. e : (r + k) % RingSize(m) = Advance(m, r, k)
    BY <1>4, <1>5, Around
  <1>9. at[n] < RingSize(m) /\ mbf_w[m] = (r + at[n]) % RingSize(m)
    BY <1>5, <1>7, <1>8
  <1>10. ASSUME NEW i \in 1 .. n
         PROVE  LiesThere(m, at, i)
    <2>1. i - 1 \in 0 .. n /\ i \in 0 .. n /\ n \in 0 .. n /\ i - 1 <= i /\ i <= n /\ i - 1 < i
      BY <1>5
    <2>2. PICK a, z : a = at[i - 1] /\ z = at[i]
      OBVIOUS
    <2>3. a \in Nat /\ z \in Nat /\ a + 4 < z /\ z <= e
      <3>1. at[i - 1] \in Nat /\ at[i] \in Nat
        BY <1>2, <1>3, <1>4, <2>1 DEF Laid, Ending
      <3>2. Ending(flow[m], at)
        BY <1>2, <1>3 DEF Laid
      <3>3. at[i - 1] + 4 < at[i]
        BY <1>4, <1>5, <2>1, <3>2, Ascends
      <3>4. at[i] <= at[n]
        BY <1>4, <1>5, <2>1, <3>2, Ascends
      <3>5. QED
        BY <1>5, <1>7, <2>2, <3>1, <3>3, <3>4
    <2>4. Wrote(m, b, at, i)
      BY <1>2, <1>3, <1>4 DEF Laid
    <2>5. ASSUME NEW k \in Nat, a <= k, k < z
          PROVE  mbf[m][(r + k) % RingSize(m)] =
                   IF k < a + 4 THEN SizeOf(flow[m][i]) ELSE TextOf(flow[m][i])
      <3>1. k \in 0 .. e
        BY <1>5, <2>3, <2>5
      <3>2. (r + k) % RingSize(m) = Advance(m, b.r, k)
        BY <1>3, <1>4, <1>8, <3>1
      <3>3. QED
        BY <1>3, <2>2, <2>4, <2>5, <3>2 DEF Wrote, SizeBytes
    <2>6. \A k \in a .. a + 4 - 1 : k \in Nat /\ a <= k /\ k < z /\ k < a + 4
      BY <2>3
    <2>7. \A k \in a + 4 .. z - 1 : k \in Nat /\ a <= k /\ k < z /\ ~(k < a + 4)
      BY <2>3
    <2>8. QED
      BY <1>4, <2>2, <2>5, <2>6, <2>7 DEF SizeBytes, LiesThere, Byte
  <1>11. QED
    BY <1>4, <1>6, <1>9, <1>10 DEF Layout, LaidOut

-----------------------------------------------------------------------------
(***************************************************************************)
(* A task that is in no queue points to itself in both directions, so that *)
(* unlinking it once more, as the services here do before they link it,    *)
(* changes nothing.                                                        *)
(***************************************************************************)
Loose(r) == \A t \in Task : ~InQueue(r, t) => r.prev[t] = t

LEMMA UnlinkLoose ==
  ASSUME NEW r \in Ring(WNode), Loose(r), NEW t \in Task, ~InQueue(r, t)
  PROVE  UnlinkToSelf(r, t) = r
  <1>1. r.prev[t] = t /\ r.next[t] = t /\ t \in WNode
    BY WaitNodes DEF Loose, InQueue
  <1>2. r = [next |-> r.next, prev |-> r.prev]
        /\ r.next \in [WNode -> WNode] /\ r.prev \in [WNode -> WNode]
    BY DEF Ring
  <1>3. [r.next EXCEPT ![t] = t] = r.next /\ [r.prev EXCEPT ![t] = t] = r.prev
    BY <1>1, <1>2
  <1>4. Unlink(r, t) = [next |-> r.next, prev |-> r.prev]
    BY <1>1, <1>3 DEF Unlink
  <1>5. QED
    BY <1>2, <1>3, <1>4 DEF UnlinkToSelf

\* Who is in a list of a family is linked, before and after.
LEMMA ListMembers ==
  ASSUME NEW r, NEW H, NEW M, Lists(WNode, r, H, M), NEW h \in H
  PROVE  \A u \in M[h] : InQueue(r, u)
  <1>1. ListFacts(WNode, r, h, M[h])
    BY ListLinks DEF Lists
  <1>2. QED
    BY <1>1 DEF ListFacts, InQueue

LEMMA LooseLeave ==
  ASSUME NEW r \in Ring(WNode), NEW H, NEW M, Lists(WNode, r, H, M), H \cap Task = {},
         NEW h \in H, M[h] \subseteq Task, NEW t \in M[h], Loose(r)
  PROVE  Loose(UnlinkToSelf(r, t))
  <1>1. PICK q : q = UnlinkToSelf(r, t)
    OBVIOUS
  <1>2. PICK K : K = [g \in H |-> IF g = h THEN M[g] \ {t} ELSE M[g]]
    OBVIOUS
  <1>3. q \in Ring(WNode) /\ Lists(WNode, q, H, K) /\ K[h] = M[h] \ {t}
    BY <1>1, <1>2, LeaveLists DEF LeavesLists
  <1>4. \A u \in M[h] \ {t} : InQueue(q, u)
    BY <1>3, ListMembers
  <1>5. PICK O \in SUBSET WNode : O = Task \ M[h]
    BY WaitNodes
  <1>6. Untouched(r, q, O)
    <2>1. O \cap (M[h] \cup {h}) = {} /\ IsList(WNode, r, h, M[h]) /\ h \in WNode
      BY <1>5 DEF Lists
    <2>2. QED
      BY <1>1, <2>1, UnlinkElsewhere
  <1>7. q.prev[t] = t
    <2>1. t \in WNode
      BY WaitNodes
    <2>2. Unlink(r, t) \in Ring(WNode)
      BY <2>1, UnlinkRing
    <2>3. QED
      BY <1>1, <2>1, <2>2 DEF UnlinkToSelf, Ring
  <1>8. QED
    BY <1>1, <1>4, <1>5, <1>6, <1>7 DEF Loose, Untouched, InQueue

LEMMA LooseJoin ==
  ASSUME tskpri \in [Task -> Pri], NEW r \in Ring(WNode), NEW H, NEW M,
         Lists(WNode, r, H, M), H \cap Task = {}, NEW h \in H, M[h] \subseteq Task,
         NEW t \in Task, \A g \in H : t \notin M[g], NEW bypri \in BOOLEAN, Loose(r)
  PROVE  Loose(Joins(r, h, t, bypri))
  <1>1. PICK q : q = Joins(r, h, t, bypri)
    OBVIOUS
  <1>2. PICK K : K = [g \in H |-> IF g = h THEN M[g] \cup {t} ELSE M[g]]
    OBVIOUS
  <1>3. q \in Ring(WNode) /\ Lists(WNode, q, H, K) /\ K[h] = M[h] \cup {t}
    BY <1>1, <1>2, JoinLists DEF JoinsLists
  <1>4. \A u \in M[h] \cup {t} : InQueue(q, u)
    BY <1>3, ListMembers
  <1>5. PICK O \in SUBSET WNode : O = Task \ (M[h] \cup {t})
    BY WaitNodes
  <1>6. Untouched(r, q, O)
    <2>1. O \cap (M[h] \cup {h, t}) = {} /\ IsList(WNode, r, h, M[h]) /\ h \in WNode
      BY <1>5 DEF Lists
    <2>2. M[h] \in SUBSET Task /\ t \notin M[h] /\ t # h
      OBVIOUS
    <2>3. JoinsLine(r, h, M[h], t, bypri)
      BY <2>1, <2>2, JoinWalk
    <2>4. QED
      BY <1>1, <2>1, <2>3 DEF JoinsLine
  <1>7. QED
    BY <1>1, <1>4, <1>5, <1>6 DEF Loose, Untouched, InQueue

-----------------------------------------------------------------------------
(***************************************************************************)
(* What holds between the steps of the message buffers.                    *)
(***************************************************************************)
MbfHeads == {mbf_wlink_r(m) : m \in MbfId} \cup {mbf_wlink_s(m) : m \in MbfId}
MbfBlockers ==
  {t \in Task : \E m \in MbfId, call \in {"tsnd_mbf", "snd_mbf", "trcv_mbf", "rcv_mbf"} :
                  Issues(t, call, m)}

OneSize == \A x, y \in Msg : msgsz[x] = msgsz[y]

NoRoom(m, x) == Fill(m, Buffer0(m)) + Size(x) > mbf_end(m)

\* Readers wait at an empty ring only, senders (of messages of one size) at a
\* full one.
Settled(m, L) ==
  /\ ~mbf_act[m] => L[mbf_wlink_s(m)] = {} /\ L[mbf_wlink_r(m)] = {}
  /\ L[mbf_wlink_r(m)] # {} => mbf_w[m] = mbf_r[m]
  /\ \A t \in L[mbf_wlink_s(m)] : msg[t] \in Msg /\ (OneSize => NoRoom(m, msg[t]))

MbfWaits(L) ==
  /\ Queues(MbfHeads, MbfBlockers, L) /\ Asleep(MbfHeads, L)
  /\ \A m \in MbfId : Settled(m, L)

MbfTyped ==
  /\ MbfTypeOK
  /\ mbf = [m \in MbfId |-> mbf[m]]
  /\ mbf_r = [m \in MbfId |-> mbf_r[m]] /\ mbf_w = [m \in MbfId |-> mbf_w[m]]

Sound(m, b) == Stored(m, b) /\ Fill(m, b) \in Fills(m)
Rings == \A m \in MbfId : Sound(m, Buffer0(m))

MbfInv == Layer /\ Loose(wlink) /\ MbfTyped /\ Rings /\ \E L : MbfWaits(L)

MbfHypothesis == Spacious /\ Application(MbfBlockers)

LEMMA MbfNodes ==
  ASSUME Application(MbfBlockers)
  PROVE  /\ Undisturbed(MbfHeads, MbfBlockers)
         /\ \A m \in MbfId : /\ m \in Int
                             /\ mbf_wlink_r(m) \in MbfHeads /\ mbf_wlink_s(m) \in MbfHeads
         /\ \A m, n \in MbfId : /\ mbf_wlink_r(m) = mbf_wlink_r(n) => m = n
                                /\ mbf_wlink_s(m) = mbf_wlink_s(n) => m = n
                                /\ mbf_wlink_r(m) # mbf_wlink_s(n)
  <1>1. MbfHeads \subseteq WHead
    BY MbfAssumption DEF MbfHeads
  <1>2. \A m \in MbfId : m \in 1 .. 9
    BY MbfAssumption
  <1>3. \A m, n \in MbfId : /\ mbf_wlink_r(m) = mbf_wlink_r(n) => m = n
                            /\ mbf_wlink_s(m) = mbf_wlink_s(n) => m = n
                            /\ mbf_wlink_r(m) # mbf_wlink_s(n)
    BY <1>2 DEF mbf_wlink_r, mbf_wlink_s
  <1>4. QED
    BY <1>1, <1>2, <1>3 DEF Undisturbed, MbfHeads, MbfBlockers

\* A buffer of the state, and of the next one.
LEMMA BufferKept ==
  ASSUME NEW m, mbf'[m] = mbf[m], mbf_r'[m] = mbf_r[m], mbf_w'[m] = mbf_w[m],
         flow'[m] = flow[m]
  PROVE  Buffer0(m)' = Buffer0(m)
  BY DEF Buffer0

LEMMA Committed ==
  ASSUME MbfTyped, NEW m \in MbfId, NEW b \in Buffers(m), CommitBuffer(m, b)
  PROVE  /\ Buffer0(m)' = b /\ \A n \in MbfId : n # m => Buffer0(n)' = Buffer0(n)
         /\ mbf_r'[m] = b.r /\ mbf_w'[m] = b.w
         /\ mbf' = [n \in MbfId |-> mbf'[n]]
         /\ mbf_r' = [n \in MbfId |-> mbf_r'[n]] /\ mbf_w' = [n \in MbfId |-> mbf_w'[n]]
         /\ \A n \in MbfId : /\ mbf'[n] \in [0 .. mbf_end(n) -> Cell]
                             /\ mbf_r'[n] \in 0 .. mbf_end(n) /\ mbf_w'[n] \in 0 .. mbf_end(n)
         /\ flow' \in [MbfId -> Seq(Msg)]
  <1>1. /\ mbf = [n \in MbfId |-> mbf[n]] /\ flow \in [MbfId -> Seq(Msg)]
        /\ mbf_r = [n \in MbfId |-> mbf_r[n]] /\ mbf_w = [n \in MbfId |-> mbf_w[n]]
    BY DEF MbfTyped, MbfTypeOK
  <1>2. /\ mbf' = [mbf EXCEPT ![m] = b.cell] /\ flow' = [flow EXCEPT ![m] = b.flow]
        /\ mbf_r' = [mbf_r EXCEPT ![m] = b.r] /\ mbf_w' = [mbf_w EXCEPT ![m] = b.w]
    BY DEF CommitBuffer
  <1>3. /\ b = [cell |-> b.cell, r |-> b.r, w |-> b.w, flow |-> b.flow]
        /\ b.cell \in [0 .. mbf_end(m) -> Cell] /\ b.flow \in Seq(Msg)
        /\ b.r \in 0 .. mbf_end(m) /\ b.w \in 0 .. mbf_end(m)
    BY DEF Buffers
  <1>4. /\ mbf'[m] = b.cell /\ flow'[m] = b.flow /\ mbf_r'[m] = b.r /\ mbf_w'[m] = b.w
    BY <1>1, <1>2
  <1>5. \A n \in MbfId : n # m => /\ mbf'[n] = mbf[n] /\ flow'[n] = flow[n]
                                  /\ mbf_r'[n] = mbf_r[n] /\ mbf_w'[n] = mbf_w[n]
    BY <1>1, <1>2
  <1>6. Buffer0(m)' = b
    BY <1>3, <1>4 DEF Buffer0
  <1>7. \A n \in MbfId : n # m => Buffer0(n)' = Buffer0(n)
    BY <1>5, BufferKept
  <1>8. /\ mbf' = [n \in MbfId |-> mbf'[n]]
        /\ mbf_r' = [n \in MbfId |-> mbf_r'[n]] /\ mbf_w' = [n \in MbfId |-> mbf_w'[n]]
    BY <1>1, <1>2
  <1>9. flow' \in [MbfId -> Seq(Msg)]
    BY <1>1, <1>2, <1>3
  <1>10. \A n \in MbfId : /\ mbf[n] \in [0 .. mbf_end(n) -> Cell]
                          /\ mbf_r[n] \in 0 .. mbf_end(n) /\ mbf_w[n] \in 0 .. mbf_end(n)
    BY DEF MbfTyped, MbfTypeOK, Cell
  <1>11. \A n \in MbfId : /\ mbf'[n] \in [0 .. mbf_end(n) -> Cell]
                          /\ mbf_r'[n] \in 0 .. mbf_end(n) /\ mbf_w'[n] \in 0 .. mbf_end(n)
    BY <1>3, <1>4, <1>5, <1>10
  <1>12. QED
    BY <1>4, <1>6, <1>7, <1>8, <1>9, <1>11

\* The types after a step that commits a buffer.
LEMMA CommittedTypes ==
  ASSUME MbfTyped, NEW m \in MbfId, NEW b \in Buffers(m), CommitBuffer(m, b),
         mbf_act' \in [MbfId -> BOOLEAN], msg' \in [Task -> Msg \cup {NoBuffer}],
         text' \in [Task -> Msg \cup {NoBuffer, Unfilled}]
  PROVE  MbfTyped'
  BY Committed DEF MbfTyped, MbfTypeOK, Cell

\* The types after a step that moves no ring.
LEMMA UnmovedTypes ==
  ASSUME MbfTyped, UNCHANGED <<mbf, mbf_r, mbf_w, flow>>,
         mbf_act' \in [MbfId -> BOOLEAN], msg' \in [Task -> Msg \cup {NoBuffer}],
         text' \in [Task -> Msg \cup {NoBuffer, Unfilled}]
  PROVE  MbfTyped'
  BY DEF MbfTyped, MbfTypeOK

LEMMA UnmovedRings ==
  ASSUME Rings, UNCHANGED <<mbf, mbf_r, mbf_w, flow>>
  PROVE  Rings' /\ \A m \in MbfId : Buffer0(m)' = Buffer0(m)
  <1>1. \A m \in MbfId : Buffer0(m)' = Buffer0(m)
    BY DEF Buffer0
  <1>2. QED
    BY <1>1 DEF Rings

LEMMA CommittedRings ==
  ASSUME MbfTyped, Rings, NEW m \in MbfId, NEW b \in Buffers(m), Sound(m, b), CommitBuffer(m, b)
  PROVE  Rings'
  <1>1. Buffer0(m)' = b /\ \A n \in MbfId : n # m => Buffer0(n)' = Buffer0(n)
    BY Committed
  <1>2. ASSUME NEW n \in MbfId
        PROVE  Sound(n, Buffer0(n))'
    <2>1. Sound(n, Buffer0(n))' <=> Sound(n, Buffer0(n)')
      OBVIOUS
    <2>2. QED
      BY <1>1, <2>1 DEF Rings
  <1>3. QED
    BY <1>2 DEF Rings

LEMMA BufferIs ==
  ASSUME Rings, NEW m \in MbfId
  PROVE  /\ Buffer0(m) \in Buffers(m) /\ Sound(m, Buffer0(m))
         /\ Buffer0(m).r = mbf_r[m] /\ Buffer0(m).w = mbf_w[m]
  <1>1. Sound(m, Buffer0(m))
    BY DEF Rings
  <1>2. Buffer0(m) \in Buffers(m)
    BY <1>1 DEF Sound, Stored, Laid
  <1>3. QED
    BY <1>1, <1>2 DEF Buffer0

\* A buffer that is left alone stays settled when some of its waiters go.
LEMMA SettledStays ==
  ASSUME NEW m \in MbfId, NEW L, Settled(m, L), NEW K,
         K[mbf_wlink_s(m)] \subseteq L[mbf_wlink_s(m)],
         K[mbf_wlink_r(m)] \subseteq L[mbf_wlink_r(m)],
         mbf_act[m] => mbf_act'[m], Buffer0(m)' = Buffer0(m),
         \A t \in K[mbf_wlink_s(m)] : msg'[t] = msg[t]
  PROVE  Settled(m, K)'
  <1>1. mbf_w'[m] = mbf_w[m] /\ mbf_r'[m] = mbf_r[m]
    BY DEF Buffer0
  <1>2. \A x : NoRoom(m, x)' <=> NoRoom(m, x)
    BY DEF NoRoom
  <1>3. \A t \in K[mbf_wlink_s(m)] : msg'[t] \in Msg /\ (OneSize => NoRoom(m, msg[t])')
    <2> SUFFICES ASSUME NEW t \in K[mbf_wlink_s(m)]
                 PROVE  msg'[t] \in Msg /\ (OneSize => NoRoom(m, msg[t])')
      OBVIOUS
    <2>1. NoRoom(m, msg[t])' <=> NoRoom(m, msg'[t])
      BY DEF NoRoom
    <2>2. QED
      BY <2>1 DEF Settled
  <1>4. QED
    BY <1>1, <1>3 DEF Settled, mbf_wlink_s, mbf_wlink_r

(***************************************************************************)
(* The loop of mbf_snd_check at the queue h = L[h]: after some rounds, the *)
(* senders A are admitted.                                                 *)
(***************************************************************************)
Round0(m, b) == [at |-> wlink.next[mbf_wlink_s(m)], l |-> wlink, b |-> b, k |-> Kernel0]

Rounds(m) == [at : WNode, l : Ring(WNode), b : Buffers(m), k : Kernels]

\* Message x finds no room behind those of b.
Tight(m, b, x) == Fill(m, b) + Size(x) > mbf_end(m)

Admits(m, L, s, A) ==
  /\ s \in Rounds(m) /\ Sound(m, s.b)
  /\ A \subseteq L[mbf_wlink_s(m)]
  /\ Lists(WNode, s.l, MbfHeads, Rest(MbfHeads, L, mbf_wlink_s(m), A))
  /\ s.at \in (L[mbf_wlink_s(m)] \ A) \cup {mbf_wlink_s(m)}
  /\ Loose(s.l)
  /\ \A u \in Task \ A : InQueue(s.l, u) => InQueue(wlink, u) \/ u \in L[mbf_wlink_s(m)]
  /\ Tidy(s.k)
  /\ s.k.tskstat = [t \in Task |-> IF t \in A THEN "RDY" ELSE tskstat[t]]
  /\ s.k.eax = [t \in Task |-> IF t \in A THEN E_OK ELSE eax[t]]

\* A first round finds the first sender, later ones no room.
Fills1(m, L, s, b, i) ==
  OneSize => IF i = 0 THEN s = Round0(m, b)
             ELSE \A t \in L[mbf_wlink_s(m)] : Tight(m, s.b, msg[t])

\* One message of theirs, and one only, has room in b.
RoomForOne(m, L, b) ==
  OneSize => \A t \in L[mbf_wlink_s(m)] :
               /\ ~Tight(m, b, msg[t])
               /\ Fill(m, b) + Size(msg[t]) + Size(msg[t]) > mbf_end(m)

Line(m, L) ==
  /\ Lists(WNode, wlink, MbfHeads, L) /\ L[mbf_wlink_s(m)] \subseteq Task
  /\ \A t \in L[mbf_wlink_s(m)] : tskstat[t] = "WAI" /\ msg[t] \in Msg

LEMMA AdmitsNobody ==
  ASSUME MbfHypothesis, Layer, Loose(wlink), NEW m \in MbfId, NEW L, Line(m, L),
         NEW b \in Buffers(m), Sound(m, b)
  PROVE  Admits(m, L, Round0(m, b), {}) /\ Fills1(m, L, Round0(m, b), b, 0)
  <1>1. PICK h : h = mbf_wlink_s(m)
    OBVIOUS
  <1>2. h \in MbfHeads /\ h \in WNode
    BY <1>1, MbfNodes, HeadNodes DEF MbfHypothesis
  <1>3. TypeOK /\ ReadyLists /\ wlink \in Ring(WNode)
    BY DEF Layer, TypeOK
  <1>4. ListFacts(WNode, wlink, h, L[h])
    BY <1>2, ListLinks DEF Line, Lists
  <1>5. wlink.next[h] \in L[h] \cup {h} /\ wlink.next[h] \in WNode
    BY <1>2, <1>3, <1>4 DEF ListFacts, Ring
  <1>6. Tidy(Kernel0) /\ Kernel0.tskstat = tskstat /\ Kernel0.eax = eax /\ Kernel0 \in Kernels
    BY <1>3, TidyNow DEF Kernel0, Tidy
  <1>7. Round0(m, b) \in Rounds(m)
    BY <1>1, <1>3, <1>5, <1>6 DEF Rounds, Round0
  <1>8. tskstat \in [Task -> Stat] /\ eax \in [Task -> Int]
    BY DEF Layer, TypeOK
  <1>9. Lists(WNode, wlink, MbfHeads, Rest(MbfHeads, L, h, {}))
    <2>1. \A g \in MbfHeads : Rest(MbfHeads, L, h, {})[g] = L[g]
      BY DEF Rest
    <2>2. QED
      BY <2>1 DEF Line, Lists
  <1>10. /\ Round0(m, b).at = wlink.next[h] /\ Round0(m, b).l = wlink
         /\ Round0(m, b).b = b /\ Round0(m, b).k = Kernel0
    BY <1>1 DEF Round0
  <1>11. Admits(m, L, Round0(m, b), {})
    <2>1. PICK s : s = Round0(m, b)
      OBVIOUS
    <2>2. Admits(m, L, s, {})
      BY <1>1, <1>5, <1>6, <1>7, <1>8, <1>9, <1>10, <2>1 DEF Admits
    <2>3. QED
      BY <2>1, <2>2
  <1>12. QED
    BY <1>11 DEF Fills1

\* The test of a round.
LEMMA AdmissibleIs ==
  ASSUME MbfHypothesis, NEW m \in MbfId, NEW L, Line(m, L), NEW s, NEW A,
         Admits(m, L, s, A), s.at # mbf_wlink_s(m)
  PROVE  /\ s.at \in L[mbf_wlink_s(m)] \ A /\ msg[s.at] \in Msg
         /\ Admissible(m, s) <=> ~Tight(m, s.b, msg[s.at])
  <1>1. s.at \in L[mbf_wlink_s(m)] \ A /\ msg[s.at] \in Msg
    BY DEF Admits, Line
  <1>2. s.b \in Buffers(m) /\ Fill(m, s.b) \in Fills(m)
    BY DEF Admits, Rounds, Sound
  <1>3. PICK x \in Msg : x = msg[s.at]
    BY <1>1
  <1>4. PICK y, d, e, z : y = msgsz[x] /\ d = mbf_rest(m, s.b) /\ e = mbf_end(m)
                          /\ z = Fill(m, s.b) + Size(x)
    OBVIOUS
  <1>5. y < d <=> z <= e
    BY <1>2, <1>4, RoomIs DEF MbfHypothesis
  <1>6. e \in Int /\ z \in Int
    BY <1>2, <1>4, FillIs, RingConstants
  <1>7. Tight(m, s.b, x) <=> ~(z <= e)
    BY <1>4, <1>6 DEF Tight
  <1>8. Admissible(m, s) <=> y < d
    BY <1>3, <1>4 DEF Admissible
  <1>9. QED
    BY <1>1, <1>3, <1>5, <1>7, <1>8

LEMMA AdmitsOne ==
  ASSUME MbfHypothesis, Layer, NEW m \in MbfId, NEW L, Line(m, L), NEW s, NEW A,
         Admits(m, L, s, A), Admissible(m, s)
  PROVE  /\ Admits(m, L, Admit(m, s), A \cup {s.at})
         /\ Admit(m, s).b = mbf_put(m, s.b, msg[s.at])
         /\ Fill(m, Admit(m, s).b) = Fill(m, s.b) + Size(msg[s.at])
  <1>1. PICK h, H : h = mbf_wlink_s(m) /\ H = MbfHeads
    OBVIOUS
  <1>2. /\ h \in H /\ h \in WNode /\ H \cap Task = {} /\ L[h] \subseteq Task
        /\ Task \subseteq WNode /\ h \notin Task
    BY <1>1, MbfNodes, HeadNodes, WaitNodes DEF MbfHypothesis, Line
  <1>3. PICK t : t = s.at
    OBVIOUS
  <1>4. t \in L[h] \ A /\ t \in Task /\ tskstat[t] = "WAI" /\ msg[t] \in Msg /\ t # h
    <2>1. s.at # mbf_wlink_s(m)
      BY DEF Admissible
    <2>2. QED
      BY <1>1, <1>2, <1>3, <2>1, AdmissibleIs DEF Line
  <1>5. PICK r, M, C : r = s.l /\ M = Rest(H, L, h, A) /\ C = A \cup {t}
    OBVIOUS
  <1>6. /\ r \in Ring(WNode) /\ Lists(WNode, r, H, M) /\ Loose(r) /\ M[h] = L[h] \ A
        /\ M[h] \subseteq Task /\ t \in M[h] /\ A \subseteq L[h]
    BY <1>1, <1>2, <1>4, <1>5 DEF Admits, Rounds, Rest
  <1>7. PICK after : after = r.next[t]
    OBVIOUS
  <1>8. r.prev[after] = t /\ after \in (M[h] \ {t}) \cup {h}
    <2>1. ListFacts(WNode, r, h, M[h])
      BY <1>2, <1>6, ListLinks DEF Lists
    <2>2. QED
      BY <1>6, <1>7, <2>1 DEF ListFacts
  <1>9. PICK q : q = UnlinkToSelf(r, t)
    OBVIOUS
  <1>10. PICK N : N = [g \in H |-> IF g = h THEN M[g] \ {t} ELSE M[g]]
    OBVIOUS
  <1>11. /\ q \in Ring(WNode) /\ Lists(WNode, q, H, N) /\ Loose(q)
         /\ \A u \in Task \ {t} : InQueue(q, u) => InQueue(r, u) \/ u \in M[h]
    BY <1>2, <1>6, <1>9, <1>10, LeaveLists, LooseLeave DEF LeavesLists
  <1>12. N = Rest(H, L, h, C)
    <2>1. \A g \in H : N[g] = Rest(H, L, h, C)[g]
      BY <1>5, <1>10 DEF Rest
    <2>2. QED
      BY <1>10, <2>1 DEF Rest
  <1>13. q.next[after] \in (L[h] \ C) \cup {h} /\ q.next[after] \in WNode
    <2>1. N[h] = M[h] \ {t} /\ N[h] = L[h] \ C
      BY <1>2, <1>5, <1>6, <1>10
    <2>2. ListFacts(WNode, q, h, N[h])
      BY <1>2, <1>11, ListLinks DEF Lists
    <2>3. QED
      BY <1>2, <1>8, <2>1, <2>2 DEF ListFacts
  <1>14. PICK b, k, z : b = mbf_put(m, s.b, msg[t]) /\ k = Ready(s.k, t, E_OK) /\ z = Admit(m, s)
    OBVIOUS
  <1>15. z = [at |-> q.next[after], l |-> q, b |-> b, k |-> k]
    BY <1>3, <1>5, <1>7, <1>8, <1>9, <1>14 DEF Admit
  <1>16. z.at = q.next[after] /\ z.l = q /\ z.b = b /\ z.k = k
    BY <1>15
  <1>17. Sound(m, b) /\ b \in Buffers(m) /\ Fill(m, b) = Fill(m, s.b) + Size(msg[t])
    <2>1. PICK x \in Msg : x = msg[t]
      BY <1>4
    <2>2. Stored(m, s.b) /\ s.b \in Buffers(m) /\ Fill(m, s.b) \in Fills(m)
      BY DEF Admits, Sound, Rounds
    <2>3. Fill(m, s.b) + Size(x) <= mbf_end(m)
      <3>1. ~Tight(m, s.b, x)
        BY <1>1, <1>3, <1>4, <2>1, AdmissibleIs
      <3>2. PICK e, o : e = mbf_end(m) /\ o = Fill(m, s.b) + Size(x)
        OBVIOUS
      <3>3. e \in Int /\ o \in Int
        BY <2>2, <3>2, FillIs, RingConstants
      <3>4. QED
        BY <3>1, <3>2, <3>3 DEF Tight
    <2>4. Stored(m, b) /\ Fill(m, b) = Fill(m, s.b) + Size(x)
      BY <1>14, <2>1, <2>2, <2>3, PutStores
    <2>5. Fill(m, s.b) + Size(x) \in Fills(m)
      BY <2>2, <2>3, FillsReached DEF Reached, MbfHypothesis
    <2>6. QED
      BY <2>1, <2>4, <2>5 DEF Sound, Stored, Laid
  <1>18. /\ Tidy(k)
         /\ k.tskstat = [u \in Task |-> IF u \in C THEN "RDY" ELSE tskstat[u]]
         /\ k.eax = [u \in Task |-> IF u \in C THEN E_OK ELSE eax[u]]
    <2>1. PICK o : o = s.k
      OBVIOUS
    <2>2. /\ Tidy(o) /\ o.tskstat = [u \in Task |-> IF u \in A THEN "RDY" ELSE tskstat[u]]
          /\ o.eax = [u \in Task |-> IF u \in A THEN E_OK ELSE eax[u]]
      BY <2>1 DEF Admits
    <2>3. o.tskstat[t] \notin {"RDY", "RUN"} /\ tskpri \in [Task -> Pri] /\ t \in Task
          /\ Tidy(o)
      BY <1>4, <2>2 DEF Layer, TypeOK
    <2>4. /\ Tidy(Ready(o, t, E_OK))
          /\ Ready(o, t, E_OK).tskstat = [o.tskstat EXCEPT ![t] = "RDY"]
          /\ Ready(o, t, E_OK).eax = [o.eax EXCEPT ![t] = E_OK]
      BY <2>3, MadeReady, Codes
    <2>5. /\ Tidy(k) /\ k.tskstat = [o.tskstat EXCEPT ![t] = "RDY"]
          /\ k.eax = [o.eax EXCEPT ![t] = E_OK]
      BY <1>14, <2>1, <2>4
    <2>6. k.tskstat = [u \in Task |-> IF u \in C THEN "RDY" ELSE tskstat[u]]
      BY <1>4, <1>5, <2>2, <2>5
    <2>7. k.eax = [u \in Task |-> IF u \in C THEN E_OK ELSE eax[u]]
      BY <1>4, <1>5, <2>2, <2>5
    <2>8. QED
      BY <2>5, <2>6, <2>7
  <1>19. \A u \in Task \ C : InQueue(q, u) => InQueue(wlink, u) \/ u \in L[h]
    <2>1. \A u \in Task \ A : InQueue(r, u) => InQueue(wlink, u) \/ u \in L[h]
      BY <1>1, <1>5 DEF Admits
    <2>2. QED
      BY <1>5, <1>6, <1>11, <2>1
  <1>20. z \in Rounds(m)
    BY <1>11, <1>13, <1>15, <1>17, <1>18 DEF Rounds, Tidy
  <1>21. Admits(m, L, z, C)
    <2>1. C \subseteq L[h]
      BY <1>4, <1>5, <1>6
    <2>2. QED
      BY <1>1, <1>11, <1>12, <1>13, <1>16, <1>17, <1>18, <1>19, <1>20, <2>1 DEF Admits
  <1>22. QED
    BY <1>3, <1>5, <1>14, <1>16, <1>17, <1>21

LEMMA AdmitsNext ==
  ASSUME MbfHypothesis, Layer, NEW m \in MbfId, NEW L, Line(m, L), NEW b \in Buffers(m),
         RoomForOne(m, L, b), NEW i \in Nat, NEW s, NEW A,
         Admits(m, L, s, A), Fills1(m, L, s, b, i)
  PROVE  \E S : Admits(m, L, Admit(m, s), S) /\ Fills1(m, L, Admit(m, s), b, i + 1)
  <1>1. PICK h : h = mbf_wlink_s(m)
    OBVIOUS
  <1>2. i + 1 # 0 /\ \A t \in L[h] : msg[t] \in Msg
    BY <1>1 DEF Line
  <1>3. \A t, u \in L[h] : OneSize => Size(msg[t]) = Size(msg[u])
    BY <1>2 DEF OneSize, Size
  <1>4. i = 0 /\ OneSize => s = Round0(m, b) /\ s.b = b /\ s.at = wlink.next[h]
    BY <1>1 DEF Fills1, Round0
  <1>5. CASE ~Admissible(m, s)
    <2>1. Admit(m, s) = s
      BY <1>5 DEF Admit
    <2>2. Fills1(m, L, s, b, i + 1)
      <3> SUFFICES ASSUME OneSize, NEW t \in L[h]
                   PROVE  Tight(m, s.b, msg[t])
        BY <1>1, <1>2 DEF Fills1
      <3>1. CASE i # 0
        BY <1>1, <3>1 DEF Fills1
      <3>2. CASE i = 0
        <4>1. s.b = b /\ s.at = wlink.next[h]
          BY <1>4, <3>2
        <4>2. s.at # h
          <5>1. h \in MbfHeads
            BY <1>1, MbfNodes DEF MbfHypothesis
          <5>2. ListFacts(WNode, wlink, h, L[h])
            BY <5>1, ListLinks DEF Line, Lists
          <5>3. QED
            BY <4>1, <5>2 DEF ListFacts
        <4>3. s.at \in L[h] /\ Tight(m, s.b, msg[s.at])
          BY <1>1, <1>5, <4>2, AdmissibleIs
        <4>4. ~Tight(m, b, msg[s.at])
          BY <1>1, <4>3 DEF RoomForOne
        <4>5. QED
          BY <4>1, <4>3, <4>4
      <3>3. QED
        BY <3>1, <3>2
    <2>3. QED
      BY <2>1, <2>2
  <1>6. CASE Admissible(m, s)
    <2>1. /\ Admits(m, L, Admit(m, s), A \cup {s.at})
          /\ Fill(m, Admit(m, s).b) = Fill(m, s.b) + Size(msg[s.at])
      BY <1>6, AdmitsOne
    <2>2. s.at \in L[h] /\ ~Tight(m, s.b, msg[s.at])
      BY <1>1, <1>6, AdmissibleIs DEF Admissible
    <2>3. Fills1(m, L, Admit(m, s), b, i + 1)
      <3> SUFFICES ASSUME OneSize, NEW t \in L[h]
                   PROVE  Tight(m, Admit(m, s).b, msg[t])
        BY <1>1, <1>2 DEF Fills1
      <3>1. CASE i # 0
        BY <1>1, <2>2, <3>1 DEF Fills1
      <3>2. CASE i = 0
        <4>1. s.b = b /\ Size(msg[s.at]) = Size(msg[t])
          BY <1>3, <1>4, <2>2, <3>2
        <4>2. Fill(m, b) + Size(msg[t]) + Size(msg[t]) > mbf_end(m)
          BY <1>1 DEF RoomForOne
        <4>3. QED
          BY <2>1, <4>1, <4>2 DEF Tight
      <3>3. QED
        BY <3>1, <3>2
    <2>4. QED
      BY <2>1, <2>3
  <1>7. QED
    BY <1>5, <1>6

\* The recursion of mbf_snd_check.
Admitting(g, m, b) ==
  g = [i \in Nat |-> IF i = 0 THEN Round0(m, b) ELSE Admit(m, g[i - 1])]

\* Each round keeps it.
LEMMA LoopAdmits ==
  ASSUME MbfHypothesis, Layer, Loose(wlink), NEW m \in MbfId, NEW L, Line(m, L),
         NEW b \in Buffers(m), Sound(m, b), RoomForOne(m, L, b), NEW g, g[0] = Round0(m, b),
         \A i \in Nat \ {0} : g[i - 1] \in Rounds(m) => g[i] = Admit(m, g[i - 1])
  PROVE  \A i \in Nat : \E A : Admits(m, L, g[i], A) /\ Fills1(m, L, g[i], b, i)
  <1> DEFINE T == {i \in Nat : \E A : Admits(m, L, g[i], A) /\ Fills1(m, L, g[i], b, i)}
  <1>1. 0 \in T
    BY AdmitsNobody
  <1>2. ASSUME NEW i \in Nat, i \in T
        PROVE  i + 1 \in T
    <2>1. PICK A : Admits(m, L, g[i], A) /\ Fills1(m, L, g[i], b, i)
      BY <1>2
    <2>2. PICK j \in Nat \ {0} : j = i + 1 /\ j - 1 = i
      OBVIOUS
    <2>3. g[j] = Admit(m, g[i])
      BY <2>1, <2>2 DEF Admits
    <2>4. PICK s : s = g[i]
      OBVIOUS
    <2>5. \E S : Admits(m, L, Admit(m, s), S) /\ Fills1(m, L, Admit(m, s), b, i + 1)
      BY <2>1, <2>4, AdmitsNext
    <2>6. QED
      BY <2>2, <2>3, <2>4, <2>5
  <1> HIDE DEF T
  <1>3. Nat \subseteq T
    BY <1>1, <1>2, SetInduction
  <1>4. QED
    BY <1>3 DEF T

LEMMA SendersAdmitted ==
  ASSUME MbfHypothesis, Layer, Loose(wlink), NEW m \in MbfId, NEW L, Line(m, L),
         NEW b \in Buffers(m), Sound(m, b), RoomForOne(m, L, b)
  PROVE  \E A : /\ Admits(m, L, mbf_snd_check(m, b), A)
                /\ OneSize => \A t \in L[mbf_wlink_s(m)] : Tight(m, mbf_snd_check(m, b).b, msg[t])
  <1> DEFINE D == [i \in Nat |-> [x \in Rounds(m) |-> Admit(m, x)]]
  <1>1. PICK f : IsRecursive(f, Round0(m, b), D)
    <2> HIDE DEF D
    <2>1. QED
      BY Recursion
  <1>2. f[0] = Round0(m, b) /\ \A i \in Nat : i # 0 => f[i] = D[i][f[i - 1]]
    BY <1>1 DEF IsRecursive
  <1>3. \A i \in Nat \ {0} : f[i - 1] \in Rounds(m) => f[i] = Admit(m, f[i - 1])
    BY <1>2
  <1>4. \A i \in Nat : f[i] \in Rounds(m)
    <2>1. \A i \in Nat : \E A : Admits(m, L, f[i], A) /\ Fills1(m, L, f[i], b, i)
      BY <1>2, <1>3, LoopAdmits
    <2>2. QED
      BY <2>1 DEF Admits
  <1>5. \A i \in Nat : f[i] = IF i = 0 THEN Round0(m, b) ELSE Admit(m, f[i - 1])
    <2> SUFFICES ASSUME NEW i \in Nat, i # 0
                 PROVE  f[i] = Admit(m, f[i - 1])
      BY <1>2
    <2>1. i \in Nat \ {0} /\ i - 1 \in Nat
      OBVIOUS
    <2>2. QED
      BY <1>3, <1>4, <2>1
  <1>6. f = [i \in Nat |-> f[i]]
    BY <1>1 DEF IsRecursive
  <1>7. Admitting(f, m, b)
    BY <1>5, <1>6 DEF Admitting
  <1> DEFINE run == CHOOSE round : round = [i \in Nat |->
                IF i = 0 THEN [at |-> wlink.next[mbf_wlink_s(m)], l |-> wlink, b |-> b, k |-> Kernel0]
                ELSE Admit(m, round[i - 1])]
  <1>8. mbf_snd_check(m, b) = run[Cardinality(Task)]
    BY Zenon DEF mbf_snd_check
  <1>9. Admitting(run, m, b)
    <2>1. \A g : Admitting(g, m, b) <=>
            g = [i \in Nat |->
                   IF i = 0 THEN [at |-> wlink.next[mbf_wlink_s(m)], l |-> wlink, b |-> b, k |-> Kernel0]
                   ELSE Admit(m, g[i - 1])]
      BY DEF Admitting, Round0
    <2>2. QED
      BY <1>7, <2>1
  <1> HIDE DEF run
  <1>10. run[0] = Round0(m, b) /\ \A i \in Nat \ {0} : run[i] = Admit(m, run[i - 1])
    BY <1>9 DEF Admitting
  <1>11. \A i \in Nat : \E A : Admits(m, L, run[i], A) /\ Fills1(m, L, run[i], b, i)
    BY <1>10, LoopAdmits
  <1>12. Cardinality(Task) \in Nat /\ Cardinality(Task) # 0
    BY FiniteAssumption, TaskAssumption, CpuAssumption, FS_CardinalityType, FS_EmptySet
  <1>13. PICK n \in Nat : n = Cardinality(Task) /\ n # 0
    BY <1>12
  <1>14. PICK A : Admits(m, L, run[n], A) /\ Fills1(m, L, run[n], b, n)
    BY <1>11
  <1>15. OneSize => \A t \in L[mbf_wlink_s(m)] : Tight(m, run[n].b, msg[t])
    BY <1>13, <1>14 DEF Fills1
  <1>16. QED
    BY <1>8, <1>13, <1>14, <1>15

-----------------------------------------------------------------------------
(***************************************************************************)
(* The services of the message buffers keep the invariant.                 *)
(***************************************************************************)
MbfKept == MbfInv'

\* Nothing is put or got, and nobody new waits.
LEMMA MbfFewer ==
  ASSUME MbfHypothesis, MbfInv, NEW L, MbfWaits(L), NEW K,
         Queues(MbfHeads, MbfBlockers, K)', Asleep(MbfHeads, K)',
         \A h \in MbfHeads : K[h] \subseteq L[h], Layer', Loose(wlink'),
         UNCHANGED <<mbf, mbf_r, mbf_w, flow>>, mbf_act' \in [MbfId -> BOOLEAN],
         \A m \in MbfId : \/ mbf_act[m] => mbf_act'[m]
                          \/ K[mbf_wlink_s(m)] = {} /\ K[mbf_wlink_r(m)] = {},
         msg' \in [Task -> Msg \cup {NoBuffer}],
         text' \in [Task -> Msg \cup {NoBuffer, Unfilled}],
         \A m \in MbfId : \A t \in K[mbf_wlink_s(m)] : msg'[t] = msg[t]
  PROVE  MbfKept
  <1>1. MbfTyped /\ Rings
    BY DEF MbfInv
  <1>2. MbfTyped'
    BY <1>1, UnmovedTypes
  <1>3. Rings' /\ \A m \in MbfId : Buffer0(m)' = Buffer0(m)
    BY <1>1, UnmovedRings
  <1>4. ASSUME NEW m \in MbfId
        PROVE  Settled(m, K)'
    <2>1. CASE mbf_act[m] => mbf_act'[m]
      <3>1. /\ K[mbf_wlink_s(m)] \subseteq L[mbf_wlink_s(m)]
            /\ K[mbf_wlink_r(m)] \subseteq L[mbf_wlink_r(m)]
        BY MbfNodes DEF MbfHypothesis
      <3>2. Settled(m, L) /\ \A t \in K[mbf_wlink_s(m)] : msg'[t] = msg[t]
        BY DEF MbfWaits
      <3>3. Buffer0(m)' = Buffer0(m)
        BY <1>3
      <3>4. QED
        BY <2>1, <3>1, <3>2, <3>3, SettledStays
    <2>2. CASE K[mbf_wlink_s(m)] = {} /\ K[mbf_wlink_r(m)] = {}
      BY <2>2 DEF Settled, mbf_wlink_s, mbf_wlink_r
    <2>3. QED
      BY <2>1, <2>2
  <1>5. MbfWaits(K)'
    BY <1>4 DEF MbfWaits
  <1>6. QED
    BY <1>2, <1>3, <1>5 DEF MbfKept, MbfInv

\* The invariant, opened.
LEMMA MbfOpen ==
  ASSUME MbfHypothesis, MbfInv
  PROVE  /\ Layer /\ Loose(wlink) /\ MbfTyped /\ Rings
         /\ Undisturbed(MbfHeads, MbfBlockers)
         /\ \E L : MbfWaits(L)
         /\ msg \in [Task -> Msg \cup {NoBuffer}]
         /\ text \in [Task -> Msg \cup {NoBuffer, Unfilled}]
         /\ mbf_act \in [MbfId -> BOOLEAN]
         /\ \A c \in Cpu : c_tskid[c] \in Task
  BY MbfNodes DEF MbfInv, MbfHypothesis, MbfTyped, MbfTypeOK, Layer, TypeOK

LEMMA MbfReplied ==
  ASSUME MbfHypothesis, MbfInv, NEW c \in Cpu, pc[c] = "user", NEW r \in Int, Reply(c, r),
         UNCHANGED <<mbf_act, mbf, mbf_r, mbf_w, flow, msg>>,
         text' \in [Task -> Msg \cup {NoBuffer, Unfilled}]
  PROVE  MbfKept
  <1>1. PICK L : MbfWaits(L)
    BY DEF MbfInv
  <1>2. /\ Layer /\ Loose(wlink) /\ Undisturbed(MbfHeads, MbfBlockers)
        /\ msg \in [Task -> Msg \cup {NoBuffer}] /\ mbf_act \in [MbfId -> BOOLEAN]
    BY MbfOpen
  <1>3. Layer' /\ UNCHANGED <<wlink, wupcnt, tskstat>>
    BY <1>2, ReplyLayer DEF Reply, readyVars
  <1>4. Queues(MbfHeads, MbfBlockers, L)' /\ Asleep(MbfHeads, L)'
    BY <1>1, <1>2, <1>3, QueuesSame DEF MbfWaits
  <1>5. Loose(wlink')
    BY <1>2, <1>3
  <1>6. QED
    BY <1>1, <1>2, <1>3, <1>4, <1>5, MbfFewer

LEMMA MbfRefused ==
  ASSUME MbfHypothesis, MbfInv, NEW c \in Cpu, pc[c] = "user", NEW r \in Int, RefuseMbf(c, r)
  PROVE  MbfKept
  <1>1. Reply(c, r) /\ UNCHANGED <<mbf_act, mbf, mbf_r, mbf_w, flow, msg, text>>
    BY DEF RefuseMbf, mbfVars
  <1>2. text' \in [Task -> Msg \cup {NoBuffer, Unfilled}]
    BY <1>1, MbfOpen
  <1>3. QED
    BY <1>1, <1>2, MbfReplied

\* A ring changes, and those who wait at it still have reason to; nobody moves.
LEMMA MbfRefilled ==
  ASSUME MbfHypothesis, MbfInv, NEW L, MbfWaits(L), NEW c \in Cpu, pc[c] = "user",
         NEW r \in Int, Reply(c, r),
         NEW m \in MbfId, NEW b \in Buffers(m), CommitBuffer(m, b), Sound(m, b),
         UNCHANGED <<msg, text>>, mbf_act' = [mbf_act EXCEPT ![m] = TRUE],
         L[mbf_wlink_r(m)] = {}, L[mbf_wlink_s(m)] # {} => Fill(m, b) >= Fill(m, Buffer0(m))
  PROVE  MbfKept
  <1>1. /\ Layer /\ Loose(wlink) /\ Undisturbed(MbfHeads, MbfBlockers) /\ MbfTyped /\ Rings
        /\ msg \in [Task -> Msg \cup {NoBuffer}] /\ mbf_act \in [MbfId -> BOOLEAN]
        /\ text \in [Task -> Msg \cup {NoBuffer, Unfilled}]
    BY MbfOpen
  <1>2. Layer' /\ UNCHANGED <<wlink, wupcnt, tskstat>>
    BY <1>1, ReplyLayer DEF Reply, readyVars
  <1>3. Queues(MbfHeads, MbfBlockers, L)' /\ Asleep(MbfHeads, L)'
    BY <1>1, <1>2, QueuesSame DEF MbfWaits
  <1>4. Loose(wlink')
    BY <1>1, <1>2
  <1>5. Buffer0(m)' = b /\ \A n \in MbfId : n # m => Buffer0(n)' = Buffer0(n)
    BY <1>1, Committed
  <1>6. MbfTyped'
    <2>1. /\ mbf_act' \in [MbfId -> BOOLEAN] /\ msg' \in [Task -> Msg \cup {NoBuffer}]
          /\ text' \in [Task -> Msg \cup {NoBuffer, Unfilled}]
      BY <1>1
    <2>2. QED
      BY <1>1, <2>1, CommittedTypes
  <1>7. Rings'
    BY <1>1, CommittedRings
  <1>8. ASSUME NEW n \in MbfId, n # m
        PROVE  Settled(n, L)'
    <2>1. Settled(n, L) /\ Buffer0(n)' = Buffer0(n) /\ (mbf_act[n] => mbf_act'[n])
      BY <1>1, <1>5, <1>8 DEF MbfWaits
    <2>2. QED
      BY <2>1, SettledStays
  <1>9. Settled(m, L)'
    <2>1. mbf_act'[m]
      BY <1>1
    <2>2. PICK S : S = L[mbf_wlink_s(m)]
      OBVIOUS
    <2>3. Settled(m, L)
      BY DEF MbfWaits
    <2>4. ASSUME NEW t \in S
          PROVE  msg'[t] \in Msg /\ (OneSize => NoRoom(m, msg[t])')
      <3>1. PICK x \in Msg : x = msg[t]
        BY <2>2, <2>3 DEF Settled
      <3>2. ASSUME OneSize
            PROVE  NoRoom(m, msg[t])'
        <4>1. PICK d, e, f, z : d = Fill(m, Buffer0(m)) /\ e = Fill(m, b) /\ f = mbf_end(m)
                                /\ z = Size(x)
          OBVIOUS
        <4>2. d + z > f
          BY <2>2, <2>3, <3>1, <3>2, <4>1 DEF Settled, NoRoom
        <4>3. d \in Int /\ e \in Int /\ f \in Int /\ z \in Int
          BY <1>1, <4>1, FillIs, BufferIs, RingConstants
        <4>4. e >= d
          BY <2>2, <2>4, <4>1
        <4>5. e + z > f
          BY <4>2, <4>3, <4>4
        <4>6. NoRoom(m, msg[t])' <=> Fill(m, Buffer0(m)') + Size(msg'[t]) > mbf_end(m)
          BY DEF NoRoom
        <4>7. Buffer0(m)' = b /\ msg'[t] = x
          BY <1>5, <3>1
        <4>8. QED
          BY <4>1, <4>5, <4>6, <4>7
      <3>3. QED
        BY <3>1, <3>2
    <2>5. QED
      BY <2>1, <2>2, <2>4 DEF Settled, mbf_wlink_s, mbf_wlink_r
  <1>10. MbfWaits(L)'
    BY <1>3, <1>8, <1>9 DEF MbfWaits
  <1>11. QED
    BY <1>2, <1>4, <1>6, <1>7, <1>10 DEF MbfKept, MbfInv

LEMMA MbfCreated ==
  ASSUME MbfHypothesis, MbfInv, NEW c \in Cpu, pc[c] = "user", NEW m \in MbfId, sys_cre_mbf(m),
         NEW r \in Int, Reply(c, r)
  PROVE  MbfKept
  <1>1. PICK L : MbfWaits(L)
    BY DEF MbfInv
  <1>2. PICK b : b = [cell |-> [i \in DOMAIN mbf[m] |-> Blank], r |-> 0, w |-> 0, flow |-> <<>>]
    OBVIOUS
  <1>3. /\ CommitBuffer(m, b) /\ ~mbf_act[m] /\ UNCHANGED <<msg, text>>
        /\ mbf_act' = [mbf_act EXCEPT ![m] = TRUE]
    BY <1>2 DEF sys_cre_mbf
  <1>4. b \in Buffers(m) /\ b.flow = <<>> /\ b.w = b.r
    <2>1. DOMAIN mbf[m] = 0 .. mbf_end(m)
      BY DEF MbfInv, MbfTyped, MbfTypeOK
    <2>2. [i \in DOMAIN mbf[m] |-> Blank] \in [0 .. mbf_end(m) -> Cell]
      BY <2>1 DEF Cell
    <2>3. 0 \in 0 .. mbf_end(m) /\ <<>> \in Seq(Msg)
      BY RingConstants
    <2>4. QED
      BY <1>2, <2>2, <2>3 DEF Buffers
  <1>5. Sound(m, b)
    <2>1. Stored(m, b) /\ Fill(m, b) = 0
      BY <1>4, EmptyRing
    <2>2. 0 \in Fills(m)
      BY FillsReached DEF MbfHypothesis, Reached
    <2>3. QED
      BY <2>1, <2>2 DEF Sound
  <1>6. L[mbf_wlink_r(m)] = {} /\ L[mbf_wlink_s(m)] = {}
    BY <1>1, <1>3 DEF MbfWaits, Settled
  <1>7. QED
    BY <1>1, <1>3, <1>4, <1>5, <1>6, MbfRefilled

\* Who reads a message buffer: nobody, or its first reader.
LEMMA FirstReader ==
  ASSUME MbfHypothesis, NEW L, MbfWaits(L), NEW m \in MbfId
  PROVE  IF FirstMbfReader(m) = mbf_wlink_r(m) THEN L[mbf_wlink_r(m)] = {}
         ELSE FirstMbfReader(m) \in L[mbf_wlink_r(m)]
  <1>1. PICK h \in MbfHeads : h = mbf_wlink_r(m)
    BY MbfNodes DEF MbfHypothesis
  <1>2. IF wlink.next[h] = h THEN L[h] = {} ELSE wlink.next[h] \in L[h]
    BY QueueFirst DEF MbfWaits
  <1>3. QED
    BY <1>1, <1>2 DEF FirstMbfReader

\* A message is stored.
LEMMA MbfPut ==
  ASSUME MbfHypothesis, MbfInv, NEW c \in Cpu, pc[c] = "user", NEW m \in MbfId, NEW x \in Msg,
         mbf_act[m], FirstMbfReader(m) = mbf_wlink_r(m), HasRoom(m, x),
         CommitBuffer(m, mbf_put(m, Buffer0(m), x)), Reply(c, E_OK),
         UNCHANGED <<mbf_act, msg, text>>
  PROVE  MbfKept
  <1>1. PICK L : MbfWaits(L)
    BY DEF MbfInv
  <1>2. Buffer0(m) \in Buffers(m) /\ Sound(m, Buffer0(m)) /\ mbf_act \in [MbfId -> BOOLEAN]
    BY MbfOpen, BufferIs
  <1>3. PICK a, b : a = Buffer0(m) /\ b = mbf_put(m, a, x)
    OBVIOUS
  <1>4. a \in Buffers(m) /\ Stored(m, a) /\ Fill(m, a) \in Fills(m)
    BY <1>2, <1>3 DEF Sound
  <1>5. Fill(m, a) + Size(x) <= mbf_end(m)
    <2>1. msgsz[x] < mbf_rest(m, a)
      BY <1>3 DEF HasRoom
    <2>2. QED
      BY <1>4, <2>1, RoomIs DEF MbfHypothesis
  <1>6. Stored(m, b) /\ Fill(m, b) = Fill(m, a) + Size(x)
    BY <1>3, <1>4, <1>5, PutStores
  <1>7. b \in Buffers(m)
    BY <1>6 DEF Stored, Laid
  <1>8. Sound(m, b)
    <2>1. Reached(m, Fills(m))
      BY FillsReached DEF MbfHypothesis
    <2>2. Fill(m, a) + Size(x) \in Fills(m)
      BY <1>4, <1>5, <2>1 DEF Reached
    <2>3. QED
      BY <1>6, <2>2 DEF Sound
  <1>9. Fill(m, b) >= Fill(m, a)
    <2>1. Fill(m, a) \in Int /\ Size(x) \in Nat
      BY <1>4, FillIs, RingConstants
    <2>2. QED
      BY <1>6, <2>1
  <1>10. L[mbf_wlink_r(m)] = {}
    BY <1>1, FirstReader
  <1>11. mbf_act' = [mbf_act EXCEPT ![m] = TRUE] /\ CommitBuffer(m, b)
    BY <1>2, <1>3
  <1>12. E_OK \in Int
    BY Codes
  <1>13. QED
    BY <1>1, <1>3, <1>7, <1>8, <1>9, <1>10, <1>11, <1>12, MbfRefilled

\* A message goes to the reader that waits first.
LEMMA MbfDelivered ==
  ASSUME MbfHypothesis, MbfInv, NEW c \in Cpu, pc[c] = "user", NEW m \in MbfId, NEW x \in Msg,
         DeliverMsg(c, m, x)
  PROVE  MbfKept
  <1>1. PICK L : MbfWaits(L)
    BY DEF MbfInv
  <1>2. /\ Layer /\ Loose(wlink) /\ Undisturbed(MbfHeads, MbfBlockers)
        /\ msg \in [Task -> Msg \cup {NoBuffer}] /\ mbf_act \in [MbfId -> BOOLEAN]
        /\ text \in [Task -> Msg \cup {NoBuffer, Unfilled}]
        /\ wlink \in Ring(WNode)
    BY MbfOpen DEF Layer, TypeOK
  <1>3. PICK h \in MbfHeads : h = mbf_wlink_r(m)
    BY MbfNodes DEF MbfHypothesis
  <1>4. PICK t : t = FirstMbfReader(m)
    OBVIOUS
  <1>5. t \in L[h] /\ t # h
    BY <1>1, <1>3, <1>4, FirstReader DEF DeliverMsg
  <1>6. t \in Task /\ tskstat[t] = "WAI" /\ L[h] \subseteq Task
        /\ MbfHeads \cap Task = {} /\ Lists(WNode, wlink, MbfHeads, L)
    BY <1>1, <1>2, <1>3, <1>5, HeadNodes DEF MbfWaits, Asleep, Queues
  <1>7. PICK v \in Int : v = AnswerTo(x)
    <2>1. AnswerTo(x) \in Int
      BY RingConstants, MbfAssumption DEF AnswerTo
    <2>2. QED
      BY <2>1
  <1>8. /\ Dismiss(t, v) /\ text' = [text EXCEPT ![t] = x] /\ Return(c, E_OK)
        /\ UNCHANGED <<next_tsk_flag, mbf_act, mbf, mbf_r, mbf_w, msg, flow>>
    BY <1>4, <1>7 DEF DeliverMsg
  <1>9. wlink' = UnlinkToSelf(wlink, t) /\ next_tsk_flag' = next_tsk_flag
    BY <1>8 DEF Dismiss
  <1>10. PICK k : Wakes(k, {t}) /\ Hears(k, {t}, v)
    BY <1>2, <1>6, <1>8, <1>9, DismissWakes
  <1>11. Returned(c)
    BY <1>2, <1>8, ReturnReturns, Codes DEF Layer
  <1>12. Layer' /\ Leaves(MbfHeads, MbfBlockers, L, t, v)
    BY <1>1, <1>2, <1>5, <1>9, <1>10, <1>11, QueuesGive DEF MbfWaits
  <1>13. Loose(wlink')
    <2>1. PICK q : q = wlink
      OBVIOUS
    <2>2. Loose(UnlinkToSelf(q, t))
      BY <1>2, <1>5, <1>6, <2>1, LooseLeave
    <2>3. QED
      BY <1>9, <2>1, <2>2
  <1>14. PICK K : K = Without(MbfHeads, L, t)
    OBVIOUS
  <1>15. Queues(MbfHeads, MbfBlockers, K)' /\ Asleep(MbfHeads, K)'
         /\ \A g \in MbfHeads : K[g] \subseteq L[g]
    BY <1>1, <1>12, <1>14 DEF MbfWaits, Leaves, Without
  <1>16. text' \in [Task -> Msg \cup {NoBuffer, Unfilled}]
    BY <1>2, <1>6, <1>8
  <1>17. QED
    BY <1>1, <1>2, <1>8, <1>12, <1>13, <1>15, <1>16, MbfFewer

\* A task goes to sleep at a head where it has reason to wait.
Reason(m, h, t) ==
  /\ h = mbf_wlink_s(m) => mbf_act[m] /\ msg'[t] \in Msg /\ (OneSize => NoRoom(m, msg'[t]))
  /\ h = mbf_wlink_r(m) => mbf_act[m] /\ mbf_w[m] = mbf_r[m]

LEMMA MbfJoined ==
  ASSUME MbfHypothesis, MbfInv, NEW c \in Cpu, pc[c] = "user", CleanSleep(c),
         NEW t \in MbfBlockers, t = c_tskid[c], NEW h \in MbfHeads, NEW tmout,
         JoinAndSleep(c, UnlinkToSelf(wlink, t), h, TRUE, tmout), Return(c, E_OK),
         UNCHANGED <<mbf_act, mbf, mbf_r, mbf_w, flow>>,
         msg' \in [Task -> Msg \cup {NoBuffer}],
         text' \in [Task -> Msg \cup {NoBuffer, Unfilled}],
         \A u \in Task : u # t => msg'[u] = msg[u],
         \A m \in MbfId : Reason(m, h, t)
  PROVE  MbfKept
  <1>1. PICK L : MbfWaits(L)
    BY DEF MbfInv
  <1>2. /\ Layer /\ Loose(wlink) /\ Undisturbed(MbfHeads, MbfBlockers)
        /\ MbfTyped /\ Rings /\ mbf_act \in [MbfId -> BOOLEAN]
        /\ wlink \in Ring(WNode) /\ tskpri \in [Task -> Pri] /\ tskstat \in [Task -> Stat]
    BY MbfOpen DEF Layer, TypeOK
  <1>3. /\ t \in Task /\ wupcnt[t] = 0 /\ MbfHeads \cap Task = {} /\ L[h] \subseteq Task
        /\ Lists(WNode, wlink, MbfHeads, L) /\ Queues(MbfHeads, MbfBlockers, L)
    BY <1>1, <1>2, HeadNodes DEF MbfWaits, Queues
  <1>4. tskstat'[t] = "WAI"
    BY <1>2, <1>3 DEF JoinAndSleep, sys_slp_tsk, sys_tslp_tsk, TakeWakeup, Block
  <1>5. ~InQueue(wlink, t)
    BY <1>4 DEF CleanSleep
  <1>6. \A g \in MbfHeads : t \notin L[g]
    <2>1. PICK q : q = wlink
      OBVIOUS
    <2>2. \A g \in MbfHeads : \A u \in L[g] : InQueue(q, u)
      BY <1>3, <2>1, ListMembers
    <2>3. QED
      BY <1>5, <2>1, <2>2
  <1>7. UnlinkToSelf(wlink, t) = wlink
    <2>1. PICK q : q = wlink
      OBVIOUS
    <2>2. UnlinkToSelf(q, t) = q
      BY <1>2, <1>3, <1>5, <2>1, UnlinkLoose
    <2>3. QED
      BY <2>1, <2>2
  <1>8. JoinAndSleep(c, wlink, h, TRUE, tmout)
    BY <1>7
  <1>9. Returned(c)
    BY <1>2, ReturnReturns, Codes DEF Layer
  <1>10. Layer' /\ Falls(MbfHeads, MbfBlockers, L, h, t)
    <2>1. PICK bypri \in BOOLEAN : bypri = TRUE
      OBVIOUS
    <2>2. JoinAndSleep(c, wlink, h, bypri, tmout)
      BY <1>8, <2>1
    <2>3. QED
      BY <1>2, <1>3, <1>6, <1>9, <2>2, QueuesJoin
  <1>11. PICK K : K = Joined(MbfHeads, L, h, t)
    OBVIOUS
  <1>12. /\ Queues(MbfHeads, MbfBlockers, K)' /\ Asleep(MbfHeads, K)'
         /\ \A g \in MbfHeads : K[g] = IF g = h THEN L[g] \cup {t} ELSE L[g]
    BY <1>1, <1>10, <1>11 DEF Falls, MbfWaits, Joined
  <1>13. Loose(wlink')
    <2>1. PICK q : q = wlink
      OBVIOUS
    <2>2. Loose(Joins(q, h, t, TRUE))
      BY <1>2, <1>3, <1>6, <2>1, LooseJoin
    <2>3. wlink' = Joins(q, h, t, TRUE)
      BY <1>8, <2>1 DEF JoinAndSleep, Joins
    <2>4. QED
      BY <2>2, <2>3
  <1>14. MbfTyped'
    BY <1>2, UnmovedTypes
  <1>15. Rings' /\ \A m \in MbfId : Buffer0(m)' = Buffer0(m)
    BY <1>2, UnmovedRings
  <1>16. ASSUME NEW m \in MbfId
         PROVE  Settled(m, K)'
    <2>1. Settled(m, L) /\ Reason(m, h, t)
      BY <1>1 DEF MbfWaits
    <2>2. PICK s, r : s = mbf_wlink_s(m) /\ r = mbf_wlink_r(m)
      OBVIOUS
    <2>3. s \in MbfHeads /\ r \in MbfHeads /\ s # r
      BY <2>2, MbfNodes DEF MbfHypothesis
    <2>4. /\ K[s] = IF s = h THEN L[s] \cup {t} ELSE L[s]
          /\ K[r] = IF r = h THEN L[r] \cup {t} ELSE L[r]
      BY <1>12, <2>3
    <2>5. /\ ~mbf_act[m] => K[s] = {} /\ K[r] = {}
          /\ K[r] # {} => mbf_w[m] = mbf_r[m]
      BY <2>1, <2>2, <2>4 DEF Settled, Reason
    <2>6. \A u \in K[s] : msg'[u] \in Msg /\ (OneSize => NoRoom(m, msg'[u]))
      <3> SUFFICES ASSUME NEW u \in K[s]
                   PROVE  msg'[u] \in Msg /\ (OneSize => NoRoom(m, msg'[u]))
        OBVIOUS
      <3>1. CASE u = t
        <4>1. s = h
          BY <1>6, <2>3, <2>4, <3>1
        <4>2. QED
          BY <2>1, <2>2, <3>1, <4>1 DEF Reason
      <3>2. CASE u # t
        <4>1. u \in L[s] /\ u \in Task
          BY <1>2, <1>3, <2>3, <2>4, <3>2, HeadNodes DEF Queues
        <4>2. QED
          BY <2>1, <2>2, <3>2, <4>1 DEF Settled
      <3>3. QED
        BY <3>1, <3>2
    <2>7. \A u : NoRoom(m, msg[u])' <=> NoRoom(m, msg'[u])
      BY <1>15 DEF NoRoom
    <2>8. mbf_wlink_s(m)' = s /\ mbf_wlink_r(m)' = r
      BY <2>2 DEF mbf_wlink_s, mbf_wlink_r
    <2>9. UNCHANGED <<mbf_act, mbf_r, mbf_w>>
      OBVIOUS
    <2>10. QED
      BY <2>5, <2>6, <2>7, <2>8, <2>9 DEF Settled
  <1>17. MbfWaits(K)'
    BY <1>12, <1>16 DEF MbfWaits
  <1>18. QED
    BY <1>10, <1>13, <1>14, <1>15, <1>17 DEF MbfKept, MbfInv

LEMMA MbfSend ==
  ASSUME MbfHypothesis, MbfInv, NEW c \in Cpu, NEW m \in MbfId, NEW x \in Msg,
         tsnd_mbf(c, m, x), CleanSleep(c)
  PROVE  MbfKept
  <1>1. pc[c] = "user"
    BY DEF tsnd_mbf, Trap
  <1>2. CASE RefuseMbf(c, E_NOEXS)
    BY <1>1, <1>2, MbfRefused, Codes
  <1>3. CASE DeliverMsg(c, m, x)
    BY <1>1, <1>3, MbfDelivered
  <1>4. CASE /\ mbf_act[m] /\ FirstMbfReader(m) = mbf_wlink_r(m) /\ HasRoom(m, x)
             /\ CommitBuffer(m, mbf_put(m, Buffer0(m), x))
             /\ Reply(c, E_OK)
             /\ UNCHANGED <<mbf_act, msg, text>>
    BY <1>1, <1>4, MbfPut
  <1>5. CASE /\ mbf_act[m] /\ FirstMbfReader(m) = mbf_wlink_r(m) /\ ~HasRoom(m, x)
             /\ \E tmout \in TmoOf(c, m, "tsnd_mbf", "snd_mbf", "psnd_mbf") :
                  \/ tmout = 0 /\ RefuseMbf(c, E_TMOUT)
                  \/ /\ tmout # 0
                     /\ msg' = [msg EXCEPT ![c_tskid[c]] = x]
                     /\ JoinAndSleep(c, UnlinkToSelf(wlink, c_tskid[c]), mbf_wlink_s(m),
                                     TRUE, tmout)
                     /\ Return(c, E_OK)
                     /\ UNCHANGED <<mbf_act, mbf, mbf_r, mbf_w, text, flow>>
    <2>1. PICK tmout \in TmoOf(c, m, "tsnd_mbf", "snd_mbf", "psnd_mbf") :
            \/ tmout = 0 /\ RefuseMbf(c, E_TMOUT)
            \/ /\ tmout # 0
               /\ msg' = [msg EXCEPT ![c_tskid[c]] = x]
               /\ JoinAndSleep(c, UnlinkToSelf(wlink, c_tskid[c]), mbf_wlink_s(m),
                               TRUE, tmout)
               /\ Return(c, E_OK)
               /\ UNCHANGED <<mbf_act, mbf, mbf_r, mbf_w, text, flow>>
      BY <1>5
    <2>2. CASE RefuseMbf(c, E_TMOUT)
      BY <1>1, <2>2, MbfRefused, Codes
    <2>3. CASE /\ tmout # 0
               /\ msg' = [msg EXCEPT ![c_tskid[c]] = x]
               /\ JoinAndSleep(c, UnlinkToSelf(wlink, c_tskid[c]), mbf_wlink_s(m),
                               TRUE, tmout)
               /\ Return(c, E_OK)
               /\ UNCHANGED <<mbf_act, mbf, mbf_r, mbf_w, text, flow>>
      <3>1. /\ msg \in [Task -> Msg \cup {NoBuffer}]
            /\ text \in [Task -> Msg \cup {NoBuffer, Unfilled}]
            /\ c_tskid[c] \in Task /\ Rings
        BY MbfOpen
      <3>2. PICK t \in MbfBlockers : t = c_tskid[c]
        <4>1. Issues(c_tskid[c], "tsnd_mbf", m) \/ Issues(c_tskid[c], "snd_mbf", m)
          BY <2>3 DEF TmoOf
        <4>2. QED
          BY <3>1, <4>1 DEF MbfBlockers
      <3>3. PICK h \in MbfHeads : h = mbf_wlink_s(m)
        BY MbfNodes DEF MbfHypothesis
      <3>4. \A n \in MbfId : Reason(n, h, t)
        <4> SUFFICES ASSUME NEW n \in MbfId PROVE Reason(n, h, t)
          OBVIOUS
        <4>1. h # mbf_wlink_r(n) /\ (h = mbf_wlink_s(n) => n = m)
          BY <3>3, MbfNodes DEF MbfHypothesis
        <4>2. msg'[t] = x
          BY <2>3, <3>1, <3>2
        <4>3. NoRoom(m, x)
          <5>1. PICK d : d = Buffer0(m)
            OBVIOUS
          <5>2. d \in Buffers(m) /\ Fill(m, d) \in Fills(m)
            BY <3>1, <5>1, BufferIs DEF Sound
          <5>3. ~(Fill(m, d) + Size(x) <= mbf_end(m))
            BY <1>5, <5>1, <5>2, RoomIs DEF HasRoom, MbfHypothesis
          <5>4. Fill(m, d) \in Int /\ Size(x) \in Int /\ mbf_end(m) \in Int
            BY <5>2, FillIs, RingConstants
          <5>5. QED
            BY <5>1, <5>3, <5>4 DEF NoRoom
        <4>4. QED
          BY <1>5, <4>1, <4>2, <4>3 DEF Reason
      <3>5. /\ msg' \in [Task -> Msg \cup {NoBuffer}]
            /\ text' \in [Task -> Msg \cup {NoBuffer, Unfilled}]
            /\ \A u \in Task : u # t => msg'[u] = msg[u]
        BY <2>3, <3>1, <3>2
      <3>6. JoinAndSleep(c, UnlinkToSelf(wlink, t), h, TRUE, tmout) /\ Return(c, E_OK)
            /\ UNCHANGED <<mbf_act, mbf, mbf_r, mbf_w, flow>>
        BY <2>3, <3>2, <3>3
      <3>7. QED
        BY <1>1, <3>2, <3>3, <3>4, <3>5, <3>6, MbfJoined
    <2>4. QED
      BY <2>1, <2>2, <2>3
  <1>6. QED
    BY <1>2, <1>3, <1>4, <1>5 DEF tsnd_mbf

\* What is left of a ring when its oldest message is out.
LEMMA Gets ==
  ASSUME MbfHypothesis, NEW m \in MbfId, NEW L, Settled(m, L), NEW b, b = Buffer0(m),
         Sound(m, b), mbf_check(b), NEW x \in Msg, IsOldest(m, b, x)
  PROVE  /\ mbf_get(m, b, x) \in Buffers(m) /\ Sound(m, mbf_get(m, b, x))
         /\ RoomForOne(m, L, mbf_get(m, b, x)) /\ L[mbf_wlink_r(m)] = {}
  <1>1. Stored(m, b) /\ Fill(m, b) \in Fills(m) /\ b \in Buffers(m) /\ b.w # b.r
    BY DEF Sound, Stored, Laid, mbf_check
  <1>2. PICK g : g = mbf_get(m, b, x)
    OBVIOUS
  <1>3. /\ Stored(m, g) /\ Fill(m, b) \in Nat /\ Fill(m, b) >= Size(x)
        /\ Fill(m, g) = Fill(m, b) - Size(x)
    BY <1>1, <1>2, GetStores
  <1>4. g \in Buffers(m)
    BY <1>3 DEF Stored, Laid
  <1>5. Reached(m, Fills(m))
    BY FillsReached DEF MbfHypothesis
  <1>6. Sound(m, g)
    BY <1>1, <1>3, <1>5 DEF Reached, Sound
  <1>7. L[mbf_wlink_r(m)] = {}
    BY <1>1 DEF Settled, Buffer0
  <1>8. ASSUME OneSize, NEW t \in L[mbf_wlink_s(m)]
        PROVE  /\ ~Tight(m, g, msg[t])
               /\ Fill(m, g) + Size(msg[t]) + Size(msg[t]) > mbf_end(m)
    <2>1. PICK y \in Msg : y = msg[t] /\ NoRoom(m, y)
      BY <1>8 DEF Settled
    <2>2. Size(y) = Size(x)
      BY <1>8 DEF OneSize, Size
    <2>3. PICK d, e, f, z : d = Fill(m, b) /\ e = Fill(m, g) /\ f = mbf_end(m) /\ z = Size(x)
      OBVIOUS
    <2>4. e = d - z /\ d \in 0 .. f /\ f \in Nat /\ z \in Nat
      BY <1>1, <1>3, <2>3, FillIs, RingConstants
    <2>5. d + z > f
      BY <2>1, <2>2, <2>3 DEF NoRoom
    <2>6. ~(e + z > f) /\ e + z + z > f
      BY <2>4, <2>5
    <2>7. QED
      BY <2>1, <2>2, <2>3, <2>6 DEF Tight
  <1>9. RoomForOne(m, L, g)
    BY <1>8 DEF RoomForOne
  <1>10. QED
    BY <1>2, <1>4, <1>6, <1>7, <1>9

\* Some senders leave the queue of m, and m holds b.
LEMMA MbfTaken ==
  ASSUME MbfHypothesis, MbfInv, NEW L, MbfWaits(L), NEW c \in Cpu, NEW m \in MbfId, mbf_act[m],
         L[mbf_wlink_r(m)] = {}, NEW s, NEW A, Admits(m, L, s, A),
         OneSize => \A t \in L[mbf_wlink_s(m)] : Tight(m, s.b, msg[t]),
         CommitBuffer(m, s.b), Commit(s.k), wlink' = s.l, Returned(c),
         UNCHANGED <<next_tsk_flag, tcbVars, wupcnt, mbf_act, msg>>,
         text' \in [Task -> Msg \cup {NoBuffer, Unfilled}]
  PROVE  MbfKept
  <1>1. /\ Layer /\ Loose(wlink) /\ Undisturbed(MbfHeads, MbfBlockers)
        /\ MbfTyped /\ Rings /\ mbf_act \in [MbfId -> BOOLEAN]
        /\ msg \in [Task -> Msg \cup {NoBuffer}]
    BY MbfOpen
  <1>2. PICK h, r : h = mbf_wlink_s(m) /\ r = mbf_wlink_r(m)
    OBVIOUS
  <1>3. h \in MbfHeads /\ r \in MbfHeads /\ h # r
    BY <1>2, MbfNodes DEF MbfHypothesis
  <1>4. /\ Queues(MbfHeads, MbfBlockers, L) /\ Asleep(MbfHeads, L)
        /\ \A g \in MbfHeads : L[g] \subseteq Task
    BY <1>1, HeadNodes DEF MbfWaits, Queues
  <1>5. PICK K : K = Rest(MbfHeads, L, h, A)
    OBVIOUS
  <1>6. \A g \in MbfHeads : K[g] = IF g = h THEN L[g] \ A ELSE L[g]
    BY <1>5 DEF Rest
  <1>7. /\ A \subseteq L[h] /\ Lists(WNode, s.l, MbfHeads, K) /\ Loose(s.l)
        /\ s.l \in Ring(WNode) /\ s.b \in Buffers(m) /\ Sound(m, s.b)
        /\ \A u \in Task \ A : InQueue(s.l, u) => InQueue(wlink, u) \/ u \in L[h]
        /\ Tidy(s.k)
        /\ s.k.tskstat = [t \in Task |-> IF t \in A THEN "RDY" ELSE tskstat[t]]
    BY <1>2, <1>5 DEF Admits, Rounds
  <1>8. \A t \in A : t \in Task /\ tskstat[t] = "WAI"
    BY <1>3, <1>4, <1>7 DEF Asleep
  <1>9. PICK k : k = s.k
    OBVIOUS
  <1>10. Wakes(k, A)
    BY <1>7, <1>8, <1>9 DEF Wakes
  <1>11. tskstat' = [t \in Task |-> IF t \in A THEN "RDY" ELSE tskstat[t]]
    BY <1>10 DEF Wakes, Commit
  <1>12. Layer'
    <2>1. wlink' \in Ring(WNode)
      BY <1>7
    <2>2. QED
      BY <1>1, <1>10, <2>1, WakeLayer
  <1>13. \A u \in Task : tskstat'[u] = "WAI" /\ InQueue(wlink', u) => \E g \in MbfHeads : u \in K[g]
    <2> SUFFICES ASSUME NEW u \in Task, tskstat'[u] = "WAI", InQueue(wlink', u)
                 PROVE  \E g \in MbfHeads : u \in K[g]
      OBVIOUS
    <2>1. u \notin A /\ tskstat[u] = "WAI"
      BY <1>11
    <2>2. InQueue(wlink, u) \/ u \in L[h]
      BY <1>7, <2>1
    <2>3. PICK g \in MbfHeads : u \in L[g]
      BY <1>3, <1>4, <2>1, <2>2 DEF Queues
    <2>4. QED
      BY <1>6, <2>1, <2>3
  <1>14. Queues(MbfHeads, MbfBlockers, K)'
    <2>1. /\ \A g \in MbfHeads : K[g] \subseteq MbfBlockers
          /\ \A t \in MbfBlockers : wupcnt[t] = 0
      BY <1>4, <1>6 DEF Queues
    <2>2. Lists(WNode, wlink', MbfHeads, K)
      BY <1>7
    <2>3. QED
      BY <1>13, <2>1, <2>2 DEF Queues
  <1>15. Asleep(MbfHeads, K)'
    <2> SUFFICES ASSUME NEW g \in MbfHeads, NEW u \in K[g]
                 PROVE  tskstat'[u] = "WAI"
      BY DEF Asleep
    <2>1. u \in L[g] /\ u \in Task /\ tskstat[u] = "WAI"
      BY <1>4, <1>6 DEF Asleep
    <2>2. u \notin A
      <3>1. CASE g = h
        BY <1>6, <3>1
      <3>2. CASE g # h
        <4>1. L[g] \cap L[h] = {}
          BY <1>3, <1>4, <3>2 DEF Queues, Lists
        <4>2. QED
          BY <1>7, <2>1, <4>1
      <3>3. QED
        BY <3>1, <3>2
    <2>3. QED
      BY <1>11, <2>1, <2>2
  <1>16. Buffer0(m)' = s.b /\ \A n \in MbfId : n # m => Buffer0(n)' = Buffer0(n)
    BY <1>1, <1>7, Committed
  <1>17. MbfTyped'
    <2>1. mbf_act' \in [MbfId -> BOOLEAN] /\ msg' \in [Task -> Msg \cup {NoBuffer}]
      BY <1>1
    <2>2. QED
      BY <1>1, <1>7, <2>1, CommittedTypes
  <1>18. Rings'
    BY <1>1, <1>7, CommittedRings
  <1>19. ASSUME NEW n \in MbfId, n # m
         PROVE  Settled(n, K)'
    <2>1. Settled(n, L) /\ Buffer0(n)' = Buffer0(n)
      BY <1>16, <1>19 DEF MbfWaits
    <2>2. /\ K[mbf_wlink_s(n)] \subseteq L[mbf_wlink_s(n)]
          /\ K[mbf_wlink_r(n)] \subseteq L[mbf_wlink_r(n)]
      BY <1>6, MbfNodes DEF MbfHypothesis
    <2>3. QED
      BY <2>1, <2>2, SettledStays
  <1>20. Settled(m, K)'
    <2>1. K[r] = {} /\ K[h] \subseteq L[h] /\ mbf_act'[m]
      BY <1>2, <1>3, <1>6
    <2>2. \A t \in L[h] : msg[t] \in Msg /\ (OneSize => Tight(m, s.b, msg[t]))
      BY <1>2 DEF MbfWaits, Settled
    <2>3. \A t : NoRoom(m, msg[t])' <=> Tight(m, s.b, msg[t])
      BY <1>16 DEF NoRoom, Tight
    <2>4. mbf_wlink_s(m)' = h /\ mbf_wlink_r(m)' = r
      BY <1>2 DEF mbf_wlink_s, mbf_wlink_r
    <2>5. QED
      BY <2>1, <2>2, <2>3, <2>4 DEF Settled
  <1>21. MbfWaits(K)'
    BY <1>14, <1>15, <1>19, <1>20 DEF MbfWaits
  <1>22. Loose(wlink')
    BY <1>7
  <1>23. QED
    BY <1>12, <1>17, <1>18, <1>21, <1>22 DEF MbfKept, MbfInv

LEMMA MbfTake ==
  ASSUME MbfHypothesis, MbfInv, NEW c \in Cpu, pc[c] = "user", NEW m \in MbfId, mbf_act[m],
         NEW x \in Msg, TakeMsg(c, m, x)
  PROVE  MbfKept
  <1>1. PICK L : MbfWaits(L)
    BY DEF MbfInv
  <1>2. /\ Layer /\ Loose(wlink) /\ Undisturbed(MbfHeads, MbfBlockers)
        /\ Rings /\ text \in [Task -> Msg \cup {NoBuffer, Unfilled}] /\ c_tskid[c] \in Task
    BY MbfOpen
  <1>3. PICK b, g : b = Buffer0(m) /\ g = mbf_get(m, b, x)
    OBVIOUS
  <1>4. Settled(m, L) /\ Sound(m, b) /\ mbf_check(b) /\ IsOldest(m, b, x)
    BY <1>1, <1>2, <1>3, BufferIs DEF MbfWaits, TakeMsg
  <1>5. g \in Buffers(m) /\ Sound(m, g) /\ RoomForOne(m, L, g) /\ L[mbf_wlink_r(m)] = {}
    BY <1>3, <1>4, Gets
  <1>6. Line(m, L)
    <2>1. mbf_wlink_s(m) \in MbfHeads
      BY MbfNodes DEF MbfHypothesis
    <2>2. Lists(WNode, wlink, MbfHeads, L) /\ L[mbf_wlink_s(m)] \subseteq Task
          /\ \A t \in L[mbf_wlink_s(m)] : tskstat[t] = "WAI"
      BY <1>1, <1>2, <2>1, HeadNodes DEF MbfWaits, Queues, Asleep
    <2>3. QED
      BY <1>4, <2>2 DEF Line, Settled
  <1>7. PICK s : s = mbf_snd_check(m, g)
    OBVIOUS
  <1>8. PICK A : /\ Admits(m, L, s, A)
                 /\ OneSize => \A t \in L[mbf_wlink_s(m)] : Tight(m, s.b, msg[t])
    BY <1>2, <1>5, <1>6, <1>7, SendersAdmitted
  <1>9. /\ text' = [text EXCEPT ![c_tskid[c]] = x]
        /\ CommitBuffer(m, s.b) /\ Commit(s.k) /\ wlink' = s.l
        /\ Return(c, msgsz[x])
        /\ UNCHANGED <<next_tsk_flag, tcbVars, wupcnt, mbf_act, msg>>
    BY <1>3, <1>7 DEF TakeMsg
  <1>10. Returned(c)
    <2>1. PICK v \in Int : v = msgsz[x]
      <3>1. msgsz[x] \in Int
        BY MbfAssumption
      <3>2. QED
        BY <3>1
    <2>2. Return(c, v)
      BY <1>9, <2>1
    <2>3. QED
      BY <1>2, <2>2, ReturnReturns DEF Layer
  <1>11. text' \in [Task -> Msg \cup {NoBuffer, Unfilled}]
    BY <1>2, <1>9
  <1>12. QED
    BY <1>1, <1>5, <1>8, <1>9, <1>10, <1>11, MbfTaken

LEMMA MbfReceive ==
  ASSUME MbfHypothesis, MbfInv, NEW c \in Cpu, NEW m \in MbfId, trcv_mbf(c, m), CleanSleep(c)
  PROVE  MbfKept
  <1>1. pc[c] = "user"
    BY DEF trcv_mbf, Trap
  <1>2. CASE RefuseMbf(c, E_NOEXS)
    BY <1>1, <1>2, MbfRefused, Codes
  <1>3. CASE mbf_act[m] /\ \E x \in Msg : TakeMsg(c, m, x)
    BY <1>1, <1>3, MbfTake
  <1>4. CASE /\ mbf_act[m] /\ ~mbf_check(Buffer0(m))
             /\ text' = [text EXCEPT ![c_tskid[c]] = Unfilled]
             /\ \E tmout \in TmoOf(c, m, "trcv_mbf", "rcv_mbf", "prcv_mbf") :
                  \/ tmout = 0 /\ Reply(c, E_TMOUT)
                  \/ /\ tmout # 0
                     /\ JoinAndSleep(c, UnlinkToSelf(wlink, c_tskid[c]), mbf_wlink_r(m),
                                     TRUE, tmout)
                     /\ Return(c, E_OK)
             /\ UNCHANGED <<mbf_act, mbf, mbf_r, mbf_w, msg, flow>>
    <2>1. /\ msg \in [Task -> Msg \cup {NoBuffer}]
          /\ text \in [Task -> Msg \cup {NoBuffer, Unfilled}]
          /\ c_tskid[c] \in Task
      BY MbfOpen
    <2>2. /\ msg' \in [Task -> Msg \cup {NoBuffer}]
          /\ text' \in [Task -> Msg \cup {NoBuffer, Unfilled}]
      BY <1>4, <2>1
    <2>3. PICK tmout \in TmoOf(c, m, "trcv_mbf", "rcv_mbf", "prcv_mbf") :
            \/ tmout = 0 /\ Reply(c, E_TMOUT)
            \/ /\ tmout # 0
               /\ JoinAndSleep(c, UnlinkToSelf(wlink, c_tskid[c]), mbf_wlink_r(m),
                               TRUE, tmout)
               /\ Return(c, E_OK)
      BY <1>4
    <2>4. CASE Reply(c, E_TMOUT)
      BY <1>1, <1>4, <2>2, <2>4, MbfReplied, Codes
    <2>5. CASE /\ tmout # 0
               /\ JoinAndSleep(c, UnlinkToSelf(wlink, c_tskid[c]), mbf_wlink_r(m),
                               TRUE, tmout)
               /\ Return(c, E_OK)
      <3>1. PICK t \in MbfBlockers : t = c_tskid[c]
        <4>1. Issues(c_tskid[c], "trcv_mbf", m) \/ Issues(c_tskid[c], "rcv_mbf", m)
          BY <2>5 DEF TmoOf
        <4>2. QED
          BY <2>1, <4>1 DEF MbfBlockers
      <3>2. PICK h \in MbfHeads : h = mbf_wlink_r(m)
        BY MbfNodes DEF MbfHypothesis
      <3>3. \A n \in MbfId : Reason(n, h, t)
        <4> SUFFICES ASSUME NEW n \in MbfId PROVE Reason(n, h, t)
          OBVIOUS
        <4>1. h # mbf_wlink_s(n) /\ (h = mbf_wlink_r(n) => n = m)
          BY <3>2, MbfNodes DEF MbfHypothesis
        <4>2. mbf_w[m] = mbf_r[m]
          BY <1>4 DEF mbf_check, Buffer0
        <4>3. QED
          BY <1>4, <4>1, <4>2 DEF Reason
      <3>4. \A u \in Task : u # t => msg'[u] = msg[u]
        BY <1>4
      <3>5. JoinAndSleep(c, UnlinkToSelf(wlink, t), h, TRUE, tmout) /\ Return(c, E_OK)
            /\ UNCHANGED <<mbf_act, mbf, mbf_r, mbf_w, flow>>
        BY <1>4, <2>5, <3>1, <3>2
      <3>6. QED
        BY <1>1, <2>2, <3>1, <3>2, <3>3, <3>4, <3>5, MbfJoined
    <2>6. QED
      BY <2>3, <2>4, <2>5
  <1>5. QED
    BY <1>2, <1>3, <1>4 DEF trcv_mbf

\* A deletion releases both queues; the links of the released stay.
LEMMA MbfDeleted ==
  ASSUME MbfHypothesis, MbfInv, NEW c \in Cpu, NEW m \in MbfId, del_mbf(c, m)
  PROVE  MbfKept
  <1>1. PICK L : MbfWaits(L)
    BY DEF MbfInv
  <1>2. /\ Layer /\ Loose(wlink) /\ Undisturbed(MbfHeads, MbfBlockers)
        /\ msg \in [Task -> Msg \cup {NoBuffer}] /\ mbf_act \in [MbfId -> BOOLEAN]
        /\ text \in [Task -> Msg \cup {NoBuffer, Unfilled}]
        /\ wlink \in Ring(WNode)
    BY MbfOpen DEF Layer, TypeOK
  <1>3. pc[c] = "user"
    BY DEF del_mbf, Trap
  <1>4. CASE RefuseMbf(c, E_NOEXS)
    BY <1>3, <1>4, MbfRefused, Codes
  <1>5. PICK h, g : h = mbf_wlink_s(m) /\ g = mbf_wlink_r(m)
    OBVIOUS
  <1>6. CASE /\ mbf_act[m] /\ DismissAllUntimed(<<h, g>>)
             /\ mbf_act' = [mbf_act EXCEPT ![m] = FALSE]
             /\ Return(c, E_OK)
             /\ UNCHANGED <<mbf, mbf_r, mbf_w, msg, text, flow>>
    <2>1. /\ h \in MbfHeads /\ g \in MbfHeads /\ h # g /\ h \in WNode /\ g \in WNode
          /\ MbfHeads \cap Task = {} /\ MbfHeads \subseteq WNode
      BY <1>2, <1>5, MbfNodes, HeadNodes DEF MbfHypothesis
    <2>2. /\ Queues(MbfHeads, MbfBlockers, L) /\ Asleep(MbfHeads, L)
          /\ IsList(WNode, wlink, h, L[h]) /\ IsList(WNode, wlink, g, L[g])
          /\ L[h] \cap L[g] = {}
          /\ \A t \in L[h] \cup L[g] : t \in Task /\ tskstat[t] = "WAI"
      BY <1>1, <1>2, <2>1, HeadNodes DEF MbfWaits, Queues, Lists, Asleep
    <2>3. PICK G \in SUBSET MbfHeads : G = {h, g}
      BY <2>1
    <2>4. Emptying(UNION {L[f] : f \in G}, G)
      <3>1. PICK S, T : S = L[h] /\ T = L[g]
        OBVIOUS
      <3>2. Emptied(<<h, g>>)
        BY <1>6 DEF Emptied
      <3>3. Emptying(S \cup T, {h, g})
        BY <1>2, <2>1, <2>2, <3>1, <3>2, DismissBothWakes
      <3>4. UNION {L[f] : f \in G} = S \cup T
        BY <2>3, <3>1
      <3>5. QED
        BY <2>3, <3>3, <3>4
    <2>5. Returned(c)
      BY <1>2, <1>3, <1>6, ReturnReturns, Codes DEF Layer
    <2>6. Layer' /\ Empties(MbfHeads, MbfBlockers, L, G)
      BY <1>2, <2>2, <2>4, <2>5, QueuesEmptied
    <2>7. PICK K : K = Cleared(MbfHeads, L, G)
      OBVIOUS
    <2>8. Queues(MbfHeads, MbfBlockers, K)' /\ Asleep(MbfHeads, K)'
      BY <2>2, <2>6, <2>7 DEF Empties
    <2>9. /\ \A f \in MbfHeads : K[f] \subseteq L[f]
          /\ K[h] = {} /\ K[g] = {}
      BY <2>1, <2>3, <2>7 DEF Cleared
    <2>10. Loose(wlink')
      <3>1. PICK q : q = wlink'
        OBVIOUS
      <3>2. q = [f \in {"next", "prev"} |->
                   [n \in WNode |-> IF n \in G THEN n ELSE wlink[f][n]]]
        BY <2>4, <3>1 DEF Emptying
      <3>3. /\ q.next = [n \in WNode |-> IF n \in G THEN n ELSE wlink.next[n]]
            /\ q.prev = [n \in WNode |-> IF n \in G THEN n ELSE wlink.prev[n]]
        <4>1. "next" \in {"next", "prev"} /\ "prev" \in {"next", "prev"}
          OBVIOUS
        <4>2. QED
          BY <3>2, <4>1
      <3>4. \A t \in Task : t \in WNode /\ t \notin G
        BY <2>1, WaitNodes
      <3>5. \A t \in Task : q.next[t] = wlink.next[t] /\ q.prev[t] = wlink.prev[t]
        BY <3>3, <3>4
      <3>6. Loose(q)
        BY <1>2, <3>5 DEF Loose, InQueue
      <3>7. QED
        BY <3>1, <3>6
    <2>11. mbf_act' \in [MbfId -> BOOLEAN]
           /\ \A n \in MbfId : \/ mbf_act[n] => mbf_act'[n]
                               \/ K[mbf_wlink_s(n)] = {} /\ K[mbf_wlink_r(n)] = {}
      BY <1>2, <1>5, <1>6, <2>9
    <2>12. QED
      BY <1>1, <1>2, <1>6, <2>6, <2>8, <2>9, <2>10, <2>11, MbfFewer
  <1>7. QED
    BY <1>4, <1>5, <1>6 DEF del_mbf

LEMMA MbfCallKept ==
  ASSUME MbfHypothesis, MbfInv, NEW c \in Cpu, MbfCall(c), CleanSleep(c)
  PROVE  MbfKept
  <1>1. ASSUME NEW m \in MbfId, cre_mbf(c, m)
        PROVE  MbfKept
    <2>1. pc[c] = "user" /\ (RefuseMbf(c, E_OBJ) \/ (sys_cre_mbf(m) /\ Reply(c, E_OK)))
      BY <1>1 DEF cre_mbf, Trap
    <2>2. QED
      BY <2>1, MbfRefused, MbfCreated, Codes
  <1>2. ASSUME acre_mbf(c)
        PROVE  MbfKept
    <2>1. /\ pc[c] = "user"
          /\ RefuseMbf(c, E_NOID) \/ \E m \in MbfId : sys_cre_mbf(m) /\ Reply(c, m)
      BY <1>2 DEF acre_mbf, Trap
    <2>2. \A m \in MbfId : m \in Int
      BY MbfNodes DEF MbfHypothesis
    <2>3. QED
      BY <2>1, <2>2, MbfRefused, MbfCreated, Codes
  <1>3. QED
    BY <1>1, <1>2, MbfSend, MbfReceive, MbfDeleted DEF MbfCall

\* A step of the task layer; the task that resumes is done with its buffers.
LEMMA MbfKernel ==
  ASSUME MbfHypothesis, MbfInv, NEW c \in Cpu, KernelStep(c), MbfRead(c), CleanSleep(c)
  PROVE  MbfKept
  <1>1. PICK L : MbfWaits(L)
    BY DEF MbfInv
  <1>2. /\ Layer /\ Loose(wlink) /\ Undisturbed(MbfHeads, MbfBlockers)
        /\ msg \in [Task -> Msg \cup {NoBuffer}] /\ mbf_act \in [MbfId -> BOOLEAN]
        /\ text \in [Task -> Msg \cup {NoBuffer, Unfilled}]
        /\ wlink \in Ring(WNode) /\ c_tskid[c] \in Task /\ pc \in [Cpu -> PC]
        /\ tskstat \in [Task -> Stat]
    BY MbfOpen DEF Layer, TypeOK
  <1>3. /\ Queues(MbfHeads, MbfBlockers, L) /\ Asleep(MbfHeads, L)
        /\ Lists(WNode, wlink, MbfHeads, L) /\ MbfHeads \cap Task = {}
        /\ \A h \in MbfHeads : L[h] \subseteq Task
    BY <1>1, <1>2, HeadNodes DEF MbfWaits, Queues
  <1>4. /\ UNCHANGED <<mbf_act, mbf, mbf_r, mbf_w, flow>>
        /\ msg' \in [Task -> Msg \cup {NoBuffer}]
        /\ text' \in [Task -> Msg \cup {NoBuffer, Unfilled}]
        /\ \A t \in Task : t # c_tskid[c] => msg'[t] = msg[t]
        /\ ~Resumes(c) => msg' = msg
    BY <1>2 DEF MbfRead
  <1>5. ASSUME NEW K, Queues(MbfHeads, MbfBlockers, K)', Asleep(MbfHeads, K)',
               \A h \in MbfHeads : K[h] \subseteq L[h], Layer', Loose(wlink'),
               Resumes(c) => tskstat[c_tskid[c]] = "RUN"
        PROVE  MbfKept
    <2>1. \A m \in MbfId : \A t \in K[mbf_wlink_s(m)] : msg'[t] = msg[t]
      <3> SUFFICES ASSUME NEW m \in MbfId, NEW t \in K[mbf_wlink_s(m)]
                   PROVE  msg'[t] = msg[t]
        OBVIOUS
      <3>1. mbf_wlink_s(m) \in MbfHeads
        BY MbfNodes DEF MbfHypothesis
      <3>2. t \in Task /\ tskstat[t] = "WAI"
        BY <1>3, <1>5, <3>1 DEF Asleep
      <3>3. QED
        BY <1>4, <1>5, <3>2
    <2>2. QED
      BY <1>1, <1>2, <1>4, <1>5, <2>1, MbfFewer
  <1>6. CASE SystemCall(c)
    <2>1. pc[c] = "user" /\ pc' = [pc EXCEPT ![c] = "ret"] /\ wlink' = wlink
      BY <1>2, <1>6, CallSleepers DEF Layer
    <2>2. InQueue(wlink, c_tskid[c]) => tskstat'[c_tskid[c]] # "WAI"
      BY <2>1 DEF CleanSleep
    <2>3. Layer' /\ Queues(MbfHeads, MbfBlockers, L)' /\ Asleep(MbfHeads, L)'
      BY <1>2, <1>3, <1>6, <2>2, QueuesCall
    <2>4. ~Resumes(c) /\ Loose(wlink')
      BY <1>2, <2>1 DEF Resumes
    <2>5. QED
      BY <1>5, <2>3, <2>4
  <1>7. CASE sched_timeout(c)
    <2>1. /\ Layer' /\ pc' = pc
          /\ \/ UNCHANGED <<wlink, tskstat, eax>> /\ Queues(MbfHeads, MbfBlockers, L)'
             \/ \E t : TimedOut(MbfHeads, MbfBlockers, L, t)
      BY <1>2, <1>3, <1>7, QueuesTimeout
    <2>2. ~Resumes(c)
      BY <2>1 DEF Resumes
    <2>3. CASE UNCHANGED <<wlink, tskstat, eax>> /\ Queues(MbfHeads, MbfBlockers, L)'
      <3>1. Asleep(MbfHeads, L)' /\ Loose(wlink')
        BY <1>2, <1>3, <2>3 DEF Asleep
      <3>2. QED
        BY <1>5, <2>1, <2>2, <2>3, <3>1
    <2>4. ASSUME NEW t, TimedOut(MbfHeads, MbfBlockers, L, t)
          PROVE  MbfKept
      <3>1. PICK K : K = Without(MbfHeads, L, t)
        OBVIOUS
      <3>2. /\ Queues(MbfHeads, MbfBlockers, K)'
            /\ \A h \in MbfHeads : K[h] = L[h] \ {t}
            /\ tskstat' = [tskstat EXCEPT ![t] = "RDY"] /\ t \in Task /\ tskstat[t] = "WAI"
        BY <2>4, <3>1 DEF TimedOut, Without
      <3>3. Asleep(MbfHeads, K)'
        <4> SUFFICES ASSUME NEW h \in MbfHeads, NEW u \in K[h]
                     PROVE  tskstat'[u] = "WAI"
          BY DEF Asleep
        <4>1. u \in L[h] /\ u # t /\ u \in Task
          BY <1>3, <3>2
        <4>2. QED
          BY <1>2, <1>3, <3>2, <4>1 DEF Asleep
      <3>4. Loose(wlink')
        <4>1. wlink' = wlink \/ (wlink' = UnlinkToSelf(wlink, t) /\ InQueue(wlink, t))
          <5>1. CASE UNCHANGED <<wlink, eax, tskstat>>
            BY <5>1
          <5>2. CASE TimeOutTask(FirstTimeout)
            <6>1. PICK f \in Task : f = FirstTimeout
              BY <1>2, <1>7, TimeoutTask
            <6>2. /\ tskstat' = [tskstat EXCEPT ![f] = "RDY"] /\ tskstat[f] = "WAI"
                  /\ wlink' = IF InQueue(wlink, f) THEN UnlinkToSelf(wlink, f) ELSE wlink
              BY <5>2, <6>1 DEF TimeOutTask
            <6>3. f = t
              BY <1>2, <3>2, <6>2
            <6>4. QED
              BY <6>2, <6>3
          <5>3. QED
            BY <1>7, <5>1, <5>2 DEF sched_timeout
        <4>2. CASE wlink' = UnlinkToSelf(wlink, t) /\ InQueue(wlink, t)
          <5>1. PICK h \in MbfHeads : t \in L[h]
            BY <1>3, <3>2, <4>2 DEF Queues
          <5>2. PICK q : q = wlink
            OBVIOUS
          <5>3. Loose(UnlinkToSelf(q, t))
            BY <1>2, <1>3, <5>1, <5>2, LooseLeave
          <5>4. QED
            BY <4>2, <5>2, <5>3
        <4>3. QED
          BY <1>2, <4>1, <4>2
      <3>5. QED
        BY <1>5, <2>1, <2>2, <3>2, <3>3, <3>4
    <2>5. QED
      BY <2>1, <2>3, <2>4
  <1>8. CASE \/ Interrupt(c) \/ tick_done(c) \/ store_ret(c) \/ sched_do_next_tsk(c)
             \/ intr_leave(c) \/ clear_flag(c)
    <2>1. /\ UNCHANGED <<wlink, wupcnt>>
          /\ \A t \in Task : tskstat'[t] = "WAI" <=> tskstat[t] = "WAI"
          /\ pc'[c] = "user" => tskstat[c_tskid[c]] = "RUN"
      BY <1>2, <1>8, QuietKernel
    <2>2. Queues(MbfHeads, MbfBlockers, L)' /\ Asleep(MbfHeads, L)'
      BY <1>2, <1>3, <2>1, QueuesSame
    <2>3. Layer'
      BY <1>2, <1>8, LayerStep DEF Kernel, Undisturbed, Application
    <2>4. (Resumes(c) => tskstat[c_tskid[c]] = "RUN") /\ Loose(wlink')
      BY <1>2, <2>1 DEF Resumes
    <2>5. QED
      BY <1>5, <2>2, <2>3, <2>4
  <1>9. QED
    BY <1>6, <1>7, <1>8 DEF KernelStep, Kernel

LEMMA MbfStutter ==
  ASSUME MbfHypothesis, MbfInv, UNCHANGED <<vars, mbfVars>>
  PROVE  MbfKept
  <1>1. PICK L : MbfWaits(L)
    BY DEF MbfInv
  <1>2. /\ Layer /\ Loose(wlink) /\ Undisturbed(MbfHeads, MbfBlockers)
        /\ msg \in [Task -> Msg \cup {NoBuffer}] /\ mbf_act \in [MbfId -> BOOLEAN]
        /\ text \in [Task -> Msg \cup {NoBuffer, Unfilled}]
    BY MbfOpen
  <1>3. /\ UNCHANGED <<wlink, wupcnt, tskstat>>
        /\ UNCHANGED <<mbf_act, mbf, mbf_r, mbf_w, flow, msg, text>> /\ UNCHANGED vars
    BY DEF vars, readyVars, mbfVars
  <1>4. Queues(MbfHeads, MbfBlockers, L)' /\ Asleep(MbfHeads, L)'
    BY <1>1, <1>2, <1>3, QueuesSame DEF MbfWaits
  <1>5. Layer'
    BY <1>2, <1>3, LayerStutter
  <1>6. Loose(wlink')
    BY <1>2, <1>3
  <1>7. QED
    BY <1>1, <1>2, <1>3, <1>4, <1>5, <1>6, MbfFewer

LEMMA MbfInvInit ==
  ASSUME MbfHypothesis, TasksInit, MbfInit
  PROVE  MbfInv
  <1>1. PICK L : L = [h \in MbfHeads |-> {}]
    OBVIOUS
  <1>2. Undisturbed(MbfHeads, MbfBlockers) /\ \A h \in MbfHeads : L[h] = {}
    BY <1>1, MbfNodes DEF MbfHypothesis
  <1>3. Layer /\ Queues(MbfHeads, MbfBlockers, L) /\ Asleep(MbfHeads, L)
    BY <1>2, QueuesInit
  <1>4. Loose(wlink)
    <2>1. wlink = SelfLinked(WNode)
      BY DEF TasksInit
    <2>2. QED
      BY <2>1, WaitNodes DEF Loose, SelfLinked
  <1>5. MbfTyped
    <2>1. \A m \in MbfId : 0 \in 0 .. mbf_end(m)
      BY RingConstants
    <2>2. <<>> \in Seq(Msg)
      OBVIOUS
    <2>3. QED
      BY <2>1, <2>2 DEF MbfInit, MbfTyped, MbfTypeOK
  <1>6. ASSUME NEW m \in MbfId
        PROVE  Sound(m, Buffer0(m)) /\ Settled(m, L)
    <2>1. PICK b : b = Buffer0(m)
      OBVIOUS
    <2>2. b \in Buffers(m) /\ b.flow = <<>> /\ b.w = b.r
      <3>1. 0 \in 0 .. mbf_end(m) /\ <<>> \in Seq(Msg)
        BY RingConstants
      <3>2. [i \in 0 .. mbf_end(m) |-> Blank] \in [0 .. mbf_end(m) -> Cell]
        BY DEF Cell
      <3>3. b = [cell |-> [i \in 0 .. mbf_end(m) |-> Blank], r |-> 0, w |-> 0, flow |-> <<>>]
        BY <2>1 DEF Buffer0, MbfInit
      <3>4. QED
        BY <3>1, <3>2, <3>3 DEF Buffers
    <2>3. Stored(m, b) /\ Fill(m, b) = 0
      BY <2>2, EmptyRing
    <2>4. 0 \in Fills(m)
      BY FillsReached DEF MbfHypothesis, Reached
    <2>5. Settled(m, L)
      BY <1>2, MbfNodes DEF Settled, MbfHypothesis
    <2>6. QED
      BY <2>1, <2>3, <2>4, <2>5 DEF Sound
  <1>7. Rings /\ MbfWaits(L)
    BY <1>3, <1>6 DEF Rings, MbfWaits
  <1>8. QED
    BY <1>3, <1>4, <1>5, <1>7 DEF MbfInv

LEMMA MbfInvariance == MbfHypothesis /\ MbfSpec => []MbfInv
  <1> SUFFICES ASSUME MbfHypothesis PROVE MbfSpec => []MbfInv
    OBVIOUS
  <1>1. TasksInit /\ MbfInit => MbfInv
    BY MbfInvInit
  <1>2. MbfInv /\ [\E c \in Cpu : MbfStep(c) /\ CleanSleep(c)]_<<vars, mbfVars>> => MbfInv'
    BY MbfCallKept, MbfKernel, MbfStutter DEF MbfStep, MbfKept
  <1>3. QED
    BY <1>1, <1>2, PTL DEF MbfSpec

\* The bytes of every ring are the messages that were put and not yet got, each
\* behind its size, in their order: no put overwrites an unread message and no
\* get starts in the middle of one, whatever wraps where, and whoever of the
\* waiting senders mbf_snd_check lets in behind a receive
\* (kernel/sys_mbf.c:267-454); for any sizes that never leave a part of a word,
\* and any number of tasks, buffers and CPUs.
THEOREM RingsIntact == MbfHypothesis /\ MbfSpec => []RingIntact
  <1> SUFFICES ASSUME MbfHypothesis PROVE MbfSpec => []RingIntact
    OBVIOUS
  <1>1. MbfInv => RingIntact
    BY StoredIntact DEF MbfInv, Rings, Sound, RingIntact
  <1>2. QED
    BY <1>1, MbfInvariance, PTL

\* No receiver sleeps at a ring that holds a message, and, as long as all
\* messages are of one size, no sender at a ring that has room for his: a
\* receive wakes the sender it makes room for, a send the receiver that waits,
\* and nobody is left behind by a time-out or a deletion
\* (kernel/sys_mbf.c:130-454).
THEOREM NobodyInVain == OneSize /\ MbfHypothesis /\ MbfSpec => []NobodyWaitsInVain
  <1> SUFFICES ASSUME OneSize, MbfHypothesis PROVE MbfSpec => []NobodyWaitsInVain
    OBVIOUS
  <1>1. MbfInv => NobodyWaitsInVain
    <2> SUFFICES ASSUME MbfInv, NEW m \in MbfId, mbf_act[m]
                 PROVE  /\ FirstMbfReader(m) # mbf_wlink_r(m) => ~mbf_check(Buffer0(m))
                        /\ \A t \in Waiters(mbf_wlink_s(m)) : ~HasRoom(m, msg[t])
      BY DEF NobodyWaitsInVain
    <2>1. PICK L : MbfWaits(L)
      BY DEF MbfInv
    <2>2. /\ Layer /\ Undisturbed(MbfHeads, MbfBlockers) /\ Rings
          /\ Queues(MbfHeads, MbfBlockers, L) /\ Settled(m, L)
      BY <2>1, MbfOpen DEF MbfWaits
    <2>3. FirstMbfReader(m) # mbf_wlink_r(m) => ~mbf_check(Buffer0(m))
      <3>1. L[mbf_wlink_r(m)] # {} => mbf_w[m] = mbf_r[m]
        BY <2>2 DEF Settled
      <3>2. FirstMbfReader(m) # mbf_wlink_r(m) => L[mbf_wlink_r(m)] # {}
        BY <2>1, FirstReader
      <3>3. QED
        BY <3>1, <3>2 DEF mbf_check, Buffer0
    <2>4. Waiters(mbf_wlink_s(m)) = L[mbf_wlink_s(m)]
      <3>1. PICK h \in MbfHeads : h = mbf_wlink_s(m)
        BY MbfNodes DEF MbfHypothesis
      <3>2. Waiters(h) = L[h]
        BY <2>2, QueueWaiters
      <3>3. QED
        BY <3>1, <3>2
    <2>5. ASSUME NEW t \in L[mbf_wlink_s(m)]
          PROVE  ~HasRoom(m, msg[t])
      <3>1. PICK x \in Msg : x = msg[t] /\ NoRoom(m, x)
        BY <2>2 DEF Settled
      <3>2. PICK d : d = Buffer0(m)
        OBVIOUS
      <3>3. d \in Buffers(m) /\ Fill(m, d) \in Fills(m)
        BY <2>2, <3>2, BufferIs DEF Sound
      <3>4. msgsz[x] < mbf_rest(m, d) <=> Fill(m, d) + Size(x) <= mbf_end(m)
        BY <3>3, RoomIs DEF MbfHypothesis
      <3>5. Fill(m, d) \in Int /\ Size(x) \in Int /\ mbf_end(m) \in Int
        BY <3>3, FillIs, RingConstants
      <3>6. ~(Fill(m, d) + Size(x) <= mbf_end(m))
        BY <3>1, <3>2, <3>5 DEF NoRoom
      <3>7. QED
        BY <3>1, <3>2, <3>4, <3>6 DEF HasRoom
    <2>6. QED
      BY <2>3, <2>4, <2>5
  <1>2. QED
    BY <1>1, MbfInvariance, PTL
-----------------------------------------------------------------------------
(***************************************************************************)
(* How many mutexes a task holds.                                          *)
(***************************************************************************)
Held(lk, own, t) == {m \in MtxId : lk[m] = 1 /\ own[m] = t}

Counted(lk, own, cnt) ==
  /\ lk \in [MtxId -> {0, 1}] /\ own \in [MtxId -> Task \cup {None}] /\ cnt \in [Task -> Nat]
  /\ \A t \in Task : cnt[t] = Cardinality(Held(lk, own, t))

LEMMA HeldFinite ==
  ASSUME NEW lk, NEW own, NEW t
  PROVE  IsFiniteSet(Held(lk, own, t))
  <1>1. IsFiniteSet(1 .. 9)
    <2>1. PICK a \in Int, b \in Int : a = 1 /\ b = 9
      OBVIOUS
    <2>2. IsFiniteSet(a .. b)
      BY FS_Interval
    <2>3. QED
      BY <2>1, <2>2
  <1>2. Held(lk, own, t) \subseteq 1 .. 9
    BY MtxAssumption DEF Held
  <1>3. QED
    BY <1>1, <1>2, FS_Subset

\* Who owns a mutex is known to hold one.
LEMMA HolderCounts ==
  ASSUME NEW lk, NEW own, NEW cnt, Counted(lk, own, cnt), NEW t \in Task
  PROVE  cnt[t] = 0 <=> \A m \in MtxId : ~(lk[m] = 1 /\ own[m] = t)
  <1>1. cnt[t] = Cardinality(Held(lk, own, t)) /\ IsFiniteSet(Held(lk, own, t))
    BY HeldFinite DEF Counted
  <1>2. cnt[t] = 0 <=> Held(lk, own, t) = {}
    BY <1>1, FS_EmptySet
  <1>3. QED
    BY <1>2 DEF Held

LEMMA CountTaken ==
  ASSUME NEW lk, NEW own, NEW cnt, Counted(lk, own, cnt), NEW t \in Task, NEW m \in MtxId,
         lk[m] = 0
  PROVE  Counted([lk EXCEPT ![m] = 1], [own EXCEPT ![m] = t], [cnt EXCEPT ![t] = @ + 1])
  <1>1. PICK l, o, n : /\ l = [lk EXCEPT ![m] = 1] /\ o = [own EXCEPT ![m] = t]
                       /\ n = [cnt EXCEPT ![t] = @ + 1]
    OBVIOUS
  <1>2. /\ lk \in [MtxId -> {0, 1}] /\ own \in [MtxId -> Task \cup {None}]
        /\ cnt \in [Task -> Nat]
    BY DEF Counted
  <1>3. l \in [MtxId -> {0, 1}] /\ o \in [MtxId -> Task \cup {None}] /\ n \in [Task -> Nat]
    BY <1>1, <1>2
  <1>4. ASSUME NEW u \in Task
        PROVE  n[u] = Cardinality(Held(l, o, u))
    <2>1. PICK S : S = Held(lk, own, u)
      OBVIOUS
    <2>0. m \notin S
      BY <2>1 DEF Held
    <2>2. cnt[u] = Cardinality(S) /\ IsFiniteSet(S) /\ m \notin S
      BY <2>0, <2>1, HeldFinite DEF Counted
    <2>3. CASE u = t
      <3>1. Held(l, o, u) = S \cup {m}
        BY <1>1, <1>2, <2>1, <2>3 DEF Held
      <3>2. Cardinality(S \cup {m}) = Cardinality(S) + 1
        BY <2>2, FS_AddElement
      <3>3. n[u] = cnt[u] + 1
        BY <1>1, <1>2, <2>3
      <3>4. QED
        BY <2>2, <3>1, <3>2, <3>3
    <2>4. CASE u # t
      <3>1. Held(l, o, u) = S
        BY <1>1, <1>2, <2>1, <2>2, <2>4 DEF Held
      <3>2. QED
        BY <1>1, <1>2, <2>2, <2>4, <3>1
    <2>5. QED
      BY <2>3, <2>4
  <1>5. QED
    BY <1>1, <1>3, <1>4 DEF Counted

LEMMA CountFreed ==
  ASSUME NEW lk, NEW own, NEW cnt, Counted(lk, own, cnt), NEW t \in Task, NEW m \in MtxId,
         lk[m] = 1, own[m] = t
  PROVE  Counted([lk EXCEPT ![m] = 0], own, [cnt EXCEPT ![t] = @ - 1])
  <1>1. PICK l, n : l = [lk EXCEPT ![m] = 0] /\ n = [cnt EXCEPT ![t] = @ - 1]
    OBVIOUS
  <1>2. /\ lk \in [MtxId -> {0, 1}] /\ own \in [MtxId -> Task \cup {None}]
        /\ cnt \in [Task -> Nat]
    BY DEF Counted
  <1>3. cnt[t] # 0
    BY HolderCounts
  <1>4. l \in [MtxId -> {0, 1}] /\ n \in [Task -> Nat]
    BY <1>1, <1>2, <1>3
  <1>5. ASSUME NEW u \in Task
        PROVE  n[u] = Cardinality(Held(l, own, u))
    <2>1. PICK S : S = Held(lk, own, u)
      OBVIOUS
    <2>2. cnt[u] = Cardinality(S) /\ IsFiniteSet(S)
      BY <2>1, HeldFinite DEF Counted
    <2>3. CASE u = t
      <3>1. Held(l, own, u) = S \ {m} /\ m \in S
        BY <1>1, <1>2, <2>1, <2>3 DEF Held
      <3>2. Cardinality(S \ {m}) = Cardinality(S) - 1
        BY <2>2, <3>1, FS_RemoveElement
      <3>3. n[u] = cnt[u] - 1
        BY <1>1, <1>2, <2>3
      <3>4. QED
        BY <2>2, <3>1, <3>2, <3>3
    <2>4. CASE u # t
      <3>1. Held(l, own, u) = S
        BY <1>1, <1>2, <2>1, <2>4 DEF Held
      <3>2. QED
        BY <1>1, <1>2, <2>2, <2>4, <3>1
    <2>5. QED
      BY <2>3, <2>4
  <1>6. QED
    BY <1>1, <1>2, <1>4, <1>5 DEF Counted

LEMMA CountHanded ==
  ASSUME NEW lk, NEW own, NEW cnt, Counted(lk, own, cnt), NEW u \in Task, NEW t \in Task,
         t # u, NEW m \in MtxId, lk[m] = 1, own[m] = u
  PROVE  Counted([lk EXCEPT ![m] = 1], [own EXCEPT ![m] = t],
                 [cnt EXCEPT ![t] = @ + 1, ![u] = @ - 1])
  <1>1. PICK l, n : l = [lk EXCEPT ![m] = 0] /\ n = [cnt EXCEPT ![u] = @ - 1]
    OBVIOUS
  <1>2. Counted(l, own, n)
    BY <1>1, CountFreed
  <1>3. lk \in [MtxId -> {0, 1}] /\ cnt \in [Task -> Nat]
    BY DEF Counted
  <1>4. l[m] = 0
    BY <1>1, <1>3
  <1>5. Counted([l EXCEPT ![m] = 1], [own EXCEPT ![m] = t], [n EXCEPT ![t] = @ + 1])
    BY <1>2, <1>4, CountTaken
  <1>6. [l EXCEPT ![m] = 1] = [lk EXCEPT ![m] = 1]
    BY <1>1, <1>3
  <1>7. [n EXCEPT ![t] = @ + 1] = [cnt EXCEPT ![t] = @ + 1, ![u] = @ - 1]
    BY <1>1, <1>3
  <1>8. QED
    BY <1>5, <1>6, <1>7

-----------------------------------------------------------------------------
(***************************************************************************)
(* The invariant of the mutexes: who owns one is ready, and at least as    *)
(* urgent as everybody in its queue, which is in order.                    *)
(***************************************************************************)
MtxHeads == {mtx_wlink(m) : m \in MtxId}
MtxBlockers ==
  {t \in Task : \E m \in MtxId : Issues(t, "tloc_mtx", m) \/ Issues(t, "loc_mtx", m)}

OwnersReady == \A m \in MtxId : mtxlock[m] = 1 => owner[m] \in Task /\ IsReady(owner[m])
OwnPriority == \A t \in Task : mtxcnt[t] = 0 => tskpri[t] = itskpri[t]

Outranks(L, lk, own, pri) ==
  \A m \in MtxId : \A t \in L[mtx_wlink(m)] : lk[m] = 1 /\ pri[own[m]] <= pri[t]

\* Who is in the queue of a mutex has asked for it.
Wanted(L, wn) == \A m \in MtxId : \A t \in L[mtx_wlink(m)] : wn[t] = m

MtxWaits(L) ==
  /\ Queues(MtxHeads, MtxBlockers, L) /\ Asleep(MtxHeads, L)
  /\ AllSorted(tskpri, wlink, MtxHeads)
  /\ Outranks(L, mtxlock, owner, tskpri)
  /\ Wanted(L, wants)

WantsType == wants \in [Task -> MtxId \cup {None}]

MtxInv ==
  /\ Layer /\ Counted(mtxlock, owner, mtxcnt) /\ OwnersReady /\ OwnPriority /\ WantsType
  /\ \E L : MtxWaits(L)

LEMMA MtxNodes ==
  ASSUME Application(MtxBlockers)
  PROVE  /\ Undisturbed(MtxHeads, MtxBlockers)
         /\ MtxHeads \subseteq WNode /\ MtxHeads \cap Task = {}
         /\ \A m \in MtxId : m \in Int /\ mtx_wlink(m) \in MtxHeads
         /\ \A m, n \in MtxId : mtx_wlink(m) = mtx_wlink(n) => m = n
  <1>1. MtxHeads \subseteq WHead
    BY MtxAssumption DEF MtxHeads
  <1>2. \A m \in MtxId : m \in Int
    BY MtxAssumption
  <1>3. \A m, n \in MtxId : mtx_wlink(m) = mtx_wlink(n) => m = n
    BY <1>2 DEF mtx_wlink
  <1>4. Undisturbed(MtxHeads, MtxBlockers)
    BY <1>1 DEF Undisturbed, MtxBlockers
  <1>5. QED
    BY <1>2, <1>3, <1>4, HeadNodes DEF MtxHeads

\* What is known in a state of the queues L.
LEMMA MtxFacts ==
  ASSUME Application(MtxBlockers), MtxInv, NEW L, MtxWaits(L)
  PROVE  /\ Undisturbed(MtxHeads, MtxBlockers) /\ Queues(MtxHeads, MtxBlockers, L)
         /\ \A h \in MtxHeads : L[h] \subseteq Task
         /\ \A h \in MtxHeads : \A t \in L[h] : t \in Task /\ tskstat[t] = "WAI"
         /\ \A m \in MtxId : mtxlock[m] = 1 => \A h \in MtxHeads : owner[m] \notin L[h]
         /\ \A m \in MtxId : mtxlock[m] \in {0, 1}
         /\ mtxcnt \in [Task -> Nat] /\ tskpri \in [Task -> Pri]
         /\ tskstat \in [Task -> Stat] /\ wlink \in Ring(WNode)
  <1>1. Undisturbed(MtxHeads, MtxBlockers) /\ Queues(MtxHeads, MtxBlockers, L)
    BY MtxNodes DEF MtxWaits
  <1>2. \A h \in MtxHeads : L[h] \subseteq Task
    BY <1>1, HeadNodes DEF Queues
  <1>3. \A h \in MtxHeads : \A t \in L[h] : t \in Task /\ tskstat[t] = "WAI"
    BY <1>2 DEF MtxWaits, Asleep
  <1>4. \A m \in MtxId : mtxlock[m] = 1 => \A h \in MtxHeads : owner[m] \notin L[h]
    BY <1>3 DEF MtxInv, OwnersReady, IsReady
  <1>5. /\ \A m \in MtxId : mtxlock[m] \in {0, 1}
        /\ mtxcnt \in [Task -> Nat]
    BY DEF MtxInv, Counted
  <1>6. tskpri \in [Task -> Pri] /\ tskstat \in [Task -> Stat] /\ wlink \in Ring(WNode)
    BY DEF MtxInv, Layer, TypeOK
  <1>7. QED
    BY <1>1, <1>2, <1>3, <1>4, <1>5, <1>6

\* What a step does to what others have asked for.
KeepsWants == WantsType' /\ \A t \in Task : tskstat[t] = "WAI" => wants'[t] = wants[t]

LEMMA WantedKept ==
  ASSUME Application(MtxBlockers), MtxInv, NEW L, MtxWaits(L), KeepsWants, NEW K,
         \A h \in MtxHeads : K[h] \subseteq L[h]
  PROVE  Wanted(K, wants')
  <1> SUFFICES ASSUME NEW m \in MtxId, NEW t \in K[mtx_wlink(m)]
               PROVE  wants'[t] = m
    BY DEF Wanted
  <1>1. t \in L[mtx_wlink(m)] /\ mtx_wlink(m) \in MtxHeads
    BY MtxNodes
  <1>2. t \in Task /\ tskstat[t] = "WAI"
    BY <1>1, MtxFacts
  <1>3. QED
    BY <1>1, <1>2 DEF MtxWaits, Wanted, KeepsWants

\* Who holds a mutex is counted as a holder.
LEMMA OwnerHolds ==
  ASSUME MtxInv, NEW t \in Task
  PROVE  mtxcnt[t] = 0 <=> \A m \in MtxId : ~(mtxlock[m] = 1 /\ owner[m] = t)
  BY HolderCounts DEF MtxInv

\* A call that moves no task, and leaves every mutex with its owner.
LEMMA MtxQuiet ==
  ASSUME Application(MtxBlockers), MtxInv, Layer',
         UNCHANGED <<tskpri, tskstat, wlink, wupcnt>>, UNCHANGED <<mtxlock, owner, mtxcnt>>,
         KeepsWants
  PROVE  MtxInv'
  <1>1. PICK L : MtxWaits(L)
    BY DEF MtxInv
  <1>2. Queues(MtxHeads, MtxBlockers, L)' /\ Asleep(MtxHeads, L)'
    BY <1>1, MtxFacts, QueuesSame DEF MtxWaits
  <1>3. AllSorted(tskpri, wlink, MtxHeads)' /\ Outranks(L, mtxlock, owner, tskpri)'
    <2>1. MtxHeads' = MtxHeads
      BY DEF MtxHeads, mtx_wlink
    <2>2. QED
      BY <1>1, <2>1 DEF MtxWaits, AllSorted, Sorted, Outranks, mtx_wlink
  <1>4. MtxWaits(L)'
    <2>1. Wanted(L, wants')
      BY <1>1, WantedKept
    <2>2. Wanted(L, wants)'
      BY <2>1 DEF Wanted, mtx_wlink
    <2>3. QED
      BY <1>2, <1>3, <2>2 DEF MtxWaits
  <1>5. Counted(mtxlock, owner, mtxcnt)' /\ OwnersReady' /\ OwnPriority' /\ WantsType'
    BY DEF MtxInv, Counted, Held, OwnersReady, OwnPriority, IsReady, KeepsWants
  <1>6. QED
    BY <1>4, <1>5 DEF MtxInv

LEMMA MtxReplied ==
  ASSUME Application(MtxBlockers), MtxInv, NEW c \in Cpu, pc[c] = "user", NEW v \in Int,
         Reply(c, v), UNCHANGED <<mtxlock, owner, mtxcnt>>, KeepsWants
  PROVE  MtxInv'
  <1>1. UNCHANGED <<tskpri, tskstat, wlink, wupcnt>>
    BY DEF Reply, readyVars, tcbVars
  <1>2. Layer'
    BY ReplyLayer DEF MtxInv
  <1>3. QED
    BY <1>1, <1>2, MtxQuiet

\* A free mutex is taken; nobody waits for it.
LEMMA MtxTaken ==
  ASSUME Application(MtxBlockers), MtxInv, NEW c \in Cpu, pc[c] = "user", NEW m \in MtxId,
         LockFree(c, m), KeepsWants
  PROVE  MtxInv'
  <1>1. PICK L : MtxWaits(L)
    BY DEF MtxInv
  <1>2. PICK t \in Task : t = c_tskid[c] /\ tskstat[t] = "RUN"
    BY Running DEF MtxInv
  <1>3. /\ mtxlock[m] = 0 /\ Reply(c, E_OK)
        /\ mtxlock' = [mtxlock EXCEPT ![m] = 1] /\ owner' = [owner EXCEPT ![m] = t]
        /\ mtxcnt' = [mtxcnt EXCEPT ![t] = @ + 1]
    BY <1>2 DEF LockFree, GiveTo
  <1>4. UNCHANGED <<tskpri, tskstat, wlink, wupcnt>>
    BY <1>3 DEF Reply, readyVars, tcbVars
  <1>5. Layer'
    BY <1>3, Codes, ReplyLayer DEF MtxInv
  <1>6. Queues(MtxHeads, MtxBlockers, L)' /\ Asleep(MtxHeads, L)'
    BY <1>1, <1>4, MtxFacts, QueuesSame DEF MtxWaits
  <1>7. /\ mtxlock \in [MtxId -> {0, 1}] /\ owner \in [MtxId -> Task \cup {None}]
        /\ mtxcnt \in [Task -> Nat]
    BY DEF MtxInv, Counted
  <1>8. L[mtx_wlink(m)] = {}
    BY <1>1, <1>3 DEF MtxWaits, Outranks
  <1>9. Outranks(L, mtxlock', owner', tskpri)
    <2> SUFFICES ASSUME NEW n \in MtxId, NEW u \in L[mtx_wlink(n)]
                 PROVE  mtxlock'[n] = 1 /\ tskpri[owner'[n]] <= tskpri[u]
      BY DEF Outranks
    <2>1. n # m
      BY <1>8
    <2>2. QED
      BY <1>1, <1>3, <1>7, <2>1 DEF MtxWaits, Outranks
  <1>10. AllSorted(tskpri, wlink, MtxHeads)' /\ Outranks(L, mtxlock, owner, tskpri)'
    <2>1. MtxHeads' = MtxHeads
      BY DEF MtxHeads, mtx_wlink
    <2>2. AllSorted(tskpri, wlink, MtxHeads)'
      BY <1>1, <1>4, <2>1 DEF MtxWaits, AllSorted, Sorted
    <2>3. QED
      BY <1>4, <1>9, <2>2 DEF Outranks, mtx_wlink
  <1>11. MtxWaits(L)'
    <2>1. Wanted(L, wants')
      BY <1>1, WantedKept
    <2>2. Wanted(L, wants)'
      BY <2>1 DEF Wanted, mtx_wlink
    <2>3. QED
      BY <1>6, <1>10, <2>2 DEF MtxWaits
  <1>12. Counted(mtxlock', owner', mtxcnt')
    <2>1. Counted(mtxlock, owner, mtxcnt)
      BY DEF MtxInv
    <2>2. QED
      BY <1>3, <2>1, CountTaken
  <1>13. Counted(mtxlock, owner, mtxcnt)'
    BY <1>12 DEF Counted, Held
  <1>14. OwnersReady'
    BY <1>2, <1>3, <1>4, <1>7 DEF MtxInv, OwnersReady, IsReady
  <1>15. OwnPriority'
    BY <1>3, <1>4, <1>7 DEF MtxInv, OwnPriority
  <1>16. QED
    BY <1>5, <1>11, <1>13, <1>14, <1>15 DEF MtxInv, KeepsWants

\* The waiter lends its priority, joins the queue and sleeps.
LEMMA MtxWaited ==
  ASSUME Application(MtxBlockers), MtxInv, NEW c \in Cpu, pc[c] = "user", NEW m \in MtxId,
         NEW tmout, c_tskid[c] \in MtxBlockers, wupcnt[c_tskid[c]] = 0, mtxlock[m] # 0,
         owner[m] # c_tskid[c], mtxcnt[c_tskid[c]] = 0, WaitMutex(c, m, tmout)
  PROVE  MtxInv'
  <1>1. PICK L : MtxWaits(L)
    BY DEF MtxInv
  <1>2. PICK w \in MtxBlockers : w = c_tskid[c]
    OBVIOUS
  <1>3. PICK o : o = owner[m]
    OBVIOUS
  <1>4. PICK h \in MtxHeads : h = mtx_wlink(m)
    BY MtxNodes
  <1>5. /\ Undisturbed(MtxHeads, MtxBlockers) /\ Queues(MtxHeads, MtxBlockers, L)
        /\ \A g \in MtxHeads : L[g] \subseteq Task
        /\ \A g \in MtxHeads : \A t \in L[g] : t \in Task /\ tskstat[t] = "WAI"
        /\ tskpri \in [Task -> Pri] /\ tskstat \in [Task -> Stat] /\ wlink \in Ring(WNode)
    BY <1>1, MtxFacts
  <1>6. /\ w \in Task /\ w \notin Idle /\ tskstat[w] = "RUN" /\ Layer
        /\ \A g \in MtxHeads : w \notin L[g]
    BY <1>2, <1>5, Running DEF MtxInv, Undisturbed, Application
  <1>7. mtxlock[m] = 1 /\ o \in Task /\ o # w /\ tskstat[o] \in {"RDY", "RUN"}
    BY <1>1, <1>2, <1>3, MtxFacts DEF MtxInv, OwnersReady, IsReady
  <1>8. \A g \in MtxHeads : o \notin L[g]
    BY <1>5, <1>7
  <1>9. PICK l, p : /\ l = Inherit(plink, o, w).plink /\ p = Inherit(plink, o, w).tskpri
    OBVIOUS
  <1>10. IF tskpri[o] > tskpri[w]
         THEN /\ l = InsertBefore(Unlink(plink, o), tsk_pri(tskpri[w]), o)
              /\ p = [tskpri EXCEPT ![o] = tskpri[w]]
         ELSE l = plink /\ p = tskpri
    BY <1>9 DEF Inherit, MustLend
  <1>11. /\ wlink' = ins_pri(wlink, h, w) /\ tskpri' = p /\ plink' = Unlink(l, w)
         /\ tskstat' = [tskstat EXCEPT ![w] = "WAI"] /\ sched_next_tsk
         /\ sched_timeout_ins(w, tmout) \/ UNCHANGED timeVars
         /\ Return(c, E_OK)
         /\ UNCHANGED <<actcnt, proc_cpu, wupcnt, eax, mtxlock, owner, mtxcnt>>
         /\ wants' = [wants EXCEPT ![w] = m]
    BY <1>2, <1>3, <1>4, <1>9 DEF WaitMutex, mtxVars
  <1>12. Lined(l, p, tskstat)
    <2>1. Lined(plink, tskpri, tskstat)
      BY <1>6, LinedNow
    <2>2. CASE tskpri[o] > tskpri[w]
      <3>1. PICK q \in Pri : q = tskpri[w]
        BY <1>5, <1>6
      <3>2. Lined(InsertBefore(Unlink(plink, o), tsk_pri(q), o), [tskpri EXCEPT ![o] = q], tskstat)
        BY <1>7, <2>1, LinedMoved
      <3>3. QED
        BY <1>10, <2>2, <3>1, <3>2
    <2>3. CASE ~(tskpri[o] > tskpri[w])
      BY <1>10, <2>1, <2>3
    <2>4. QED
      BY <2>2, <2>3
  <1>13. Lined(plink', tskpri', tskstat')
    BY <1>6, <1>11, <1>12, LinedOff
  <1>14. wlink' = Joins(wlink, h, w, TRUE)
    BY <1>11 DEF Joins
  <1>15. PICK K : K = Joined(MtxHeads, L, h, w)
    OBVIOUS
  <1>16. wlink' \in Ring(WNode) /\ Queues(MtxHeads, MtxBlockers, K)' /\ Asleep(MtxHeads, K)'
    <2>0. PICK f \in BOOLEAN : f = TRUE
      OBVIOUS
    <2>1. PICK H, B : H = MtxHeads /\ B = MtxBlockers
      OBVIOUS
    <2>2. /\ Layer /\ Undisturbed(H, B) /\ Queues(H, B, L) /\ w \in B /\ h \in H
          /\ \A g \in H : w \notin L[g]
          /\ wlink' = Joins(wlink, h, w, f) /\ tskstat' = [tskstat EXCEPT ![w] = "WAI"]
          /\ wupcnt' = wupcnt
      BY <1>5, <1>6, <1>11, <1>14, <2>0, <2>1
    <2>3. /\ wlink' \in Ring(WNode) /\ Queues(H, B, Joined(H, L, h, w))'
          /\ Asleep(H, L) => Asleep(H, Joined(H, L, h, w))'
      BY <2>2, QueuesJoined
    <2>4. Joined(H, L, h, w)' = K
      BY <1>15, <2>1 DEF Joined
    <2>5. Asleep(H, L)
      BY <1>1, <2>1 DEF MtxWaits
    <2>6. QED
      BY <2>1, <2>3, <2>4, <2>5 DEF Queues, Asleep, MtxHeads, MtxBlockers, mtx_wlink
  <1>17. Layer'
    <2>1. Returned(c)
      BY <1>6, <1>11, Codes, ReturnReturns DEF Layer
    <2>2. tlink' \in Ring(TNode) /\ delta' \in [Task -> Int] /\ eax' \in [Task -> Int]
      <3>1. TypeOK /\ tlink \in Ring(TNode) /\ delta \in [Task -> Int] /\ eax \in [Task -> Int]
        BY <1>6 DEF Layer, TypeOK
      <3>2. QED
        BY <1>6, <1>11, <3>1, TimeoutInsType DEF timeVars
    <2>3. Lined(plink, tskpri, tskstat)'
      BY <1>13 DEF Lined, ReadyIn, PHead
    <2>4. QED
      BY <1>2, <1>6, <1>11, <1>16, <2>1, <2>2, <2>3, LayerFrom
  <1>18. /\ \A g \in MtxHeads : K[g] = IF g = h THEN L[g] \cup {w} ELSE L[g]
         /\ \A g \in MtxHeads : \A t \in K[g] : t \in Task /\ t # o
    BY <1>5, <1>6, <1>7, <1>8, <1>15 DEF Joined
  <1>19. \A t \in Task : t # o => p[t] = tskpri[t]
    BY <1>5, <1>10
  <1>20. p[o] <= tskpri[o] /\ p[o] <= tskpri[w]
    <2>1. tskpri[o] \in Int /\ tskpri[w] \in Int
      BY <1>5, <1>6, <1>7, TaskAssumption DEF Pri
    <2>2. CASE tskpri[o] > tskpri[w]
      <3>1. p[o] = tskpri[w]
        BY <1>5, <1>7, <1>10, <2>2
      <3>2. QED
        BY <2>1, <2>2, <3>1
    <2>3. CASE ~(tskpri[o] > tskpri[w])
      <3>1. p[o] = tskpri[o]
        BY <1>10, <2>3
      <3>2. QED
        BY <2>1, <2>3, <3>1
    <2>4. QED
      BY <2>2, <2>3
  <1>21. AllSorted(p, wlink', MtxHeads)
    <2>1. PICK r, q : r = wlink /\ q = wlink'
      OBVIOUS
    <2>2. Lists(WNode, r, MtxHeads, L) /\ AllSorted(tskpri, r, MtxHeads)
      BY <1>1, <1>5, <2>1 DEF Queues, MtxWaits
    <2>3. AllSorted(tskpri, q, MtxHeads)
      <3>1. r \in Ring(WNode) /\ q = Joins(r, h, w, TRUE)
        BY <1>5, <1>14, <2>1
      <3>2. AllSorted(tskpri, Joins(r, h, w, TRUE), MtxHeads)
        BY <1>5, <1>6, <2>2, <3>1, MtxNodes, AllSortedJoin
      <3>3. QED
        BY <3>1, <3>2
    <2>4. Lists(WNode, q, MtxHeads, K) /\ q \in Ring(WNode)
      BY <1>16, <2>1 DEF Queues, MtxHeads, mtx_wlink
    <2>5. \A g \in MtxHeads : \A t \in K[g] : p[t] = tskpri[t]
      BY <1>18, <1>19
    <2>6. AllSorted(p, q, MtxHeads)
      BY <2>3, <2>4, <2>5, MtxNodes, AllSortedSame
    <2>7. QED
      BY <2>1, <2>6
  <1>22. Outranks(K, mtxlock, owner, p)
    <2> SUFFICES ASSUME NEW n \in MtxId, NEW t \in K[mtx_wlink(n)]
                 PROVE  mtxlock[n] = 1 /\ p[owner[n]] <= p[t]
      BY DEF Outranks
    <2>1. mtx_wlink(n) \in MtxHeads /\ (mtx_wlink(n) = h => n = m)
      BY <1>4, MtxNodes
    <2>2. t \in Task /\ t # o /\ p[t] = tskpri[t] /\ tskpri[t] \in Int
      <3>1. t \in Task /\ t # o
        BY <1>18, <2>1
      <3>2. tskpri[t] \in Int
        BY <1>5, <3>1, TaskAssumption DEF Pri
      <3>3. QED
        BY <1>19, <3>1, <3>2
    <2>3. CASE t \in L[mtx_wlink(n)]
      <3>1. mtxlock[n] = 1 /\ tskpri[owner[n]] <= tskpri[t] /\ owner[n] \in Task
        BY <1>1, <2>3 DEF MtxWaits, Outranks, MtxInv, OwnersReady
      <3>2. p[owner[n]] <= tskpri[owner[n]] /\ p[owner[n]] \in Int /\ tskpri[owner[n]] \in Int
        <4>1. p \in [Task -> Pri]
          BY <1>12 DEF Lined
        <4>2. p[owner[n]] \in Int /\ tskpri[owner[n]] \in Int
          <5>1. Pri \subseteq Int /\ tskpri \in [Task -> Pri]
            BY <1>5, TaskAssumption DEF Pri
          <5>2. QED
            BY <3>1, <4>1, <5>1
        <4>3. QED
          BY <1>19, <1>20, <3>1, <4>2
      <3>3. QED
        BY <2>2, <3>1, <3>2
    <2>4. CASE t \notin L[mtx_wlink(n)]
      <3>1. t = w /\ n = m
        BY <1>18, <2>1, <2>4
      <3>2. QED
        BY <1>3, <1>7, <1>20, <2>2, <3>1
    <2>5. QED
      BY <2>3, <2>4
  <1>23. MtxWaits(K)'
    <2>1. MtxHeads' = MtxHeads
      BY DEF MtxHeads, mtx_wlink
    <2>2. AllSorted(tskpri, wlink, MtxHeads)'
      BY <1>11, <1>21, <2>1 DEF AllSorted, Sorted
    <2>3. Outranks(K, mtxlock, owner, tskpri)'
      BY <1>11, <1>22 DEF Outranks, mtx_wlink
    <2>4. Wanted(K, wants')
      <3> SUFFICES ASSUME NEW n \in MtxId, NEW t \in K[mtx_wlink(n)]
                   PROVE  wants'[t] = n
        BY DEF Wanted
      <3>1. mtx_wlink(n) \in MtxHeads /\ (mtx_wlink(n) = h => n = m)
        BY <1>4, MtxNodes
      <3>2. WantsType /\ t \in Task
        BY <1>18, <3>1 DEF MtxInv
      <3>3. CASE t \in L[mtx_wlink(n)]
        <4>1. wants[t] = n /\ t # w
          BY <1>1, <1>6, <3>1, <3>3 DEF MtxWaits, Wanted
        <4>2. QED
          BY <1>11, <3>2, <4>1 DEF WantsType
      <3>4. CASE t \notin L[mtx_wlink(n)]
        <4>1. t = w /\ n = m
          BY <1>18, <3>1, <3>4
        <4>2. QED
          BY <1>11, <3>2, <4>1 DEF WantsType
      <3>5. QED
        BY <3>3, <3>4
    <2>5. Wanted(K, wants)'
      BY <2>4 DEF Wanted, mtx_wlink
    <2>6. QED
      BY <1>16, <2>2, <2>3, <2>5 DEF MtxWaits
  <1>24. Counted(mtxlock, owner, mtxcnt)'
    BY <1>11 DEF MtxInv, Counted, Held
  <1>25. OwnersReady'
    <2> SUFFICES ASSUME NEW n \in MtxId, mtxlock[n] = 1
                 PROVE  owner[n] \in Task /\ tskstat'[owner[n]] \in {"RDY", "RUN"}
      BY <1>11 DEF OwnersReady, IsReady
    <2>1. owner[n] \in Task /\ tskstat[owner[n]] \in {"RDY", "RUN"}
      BY DEF MtxInv, OwnersReady, IsReady
    <2>2. owner[n] # w
      BY <1>2, <1>6, OwnerHolds
    <2>3. QED
      BY <1>5, <1>11, <2>1, <2>2
  <1>26. OwnPriority'
    <2>1. mtxcnt[o] # 0
      BY <1>3, <1>7, OwnerHolds
    <2>2. \A t \in Task : mtxcnt[t] = 0 => p[t] = tskpri[t]
      BY <1>19, <2>1
    <2>3. QED
      BY <1>11, <2>2 DEF MtxInv, OwnPriority
  <1>27. WantsType'
    BY <1>2, <1>6, <1>11 DEF MtxInv, WantsType
  <1>28. QED
    BY <1>17, <1>23, <1>24, <1>25, <1>26, <1>27 DEF MtxInv

\* A mutex without waiters is deleted: nobody is released.
LEMMA NobodyReleased ==
  ASSUME Application(MtxBlockers), MtxInv, NEW m \in MtxId,
         ~InQueue(wlink, mtx_wlink(m)), ReleaseInPlace(mtx_wlink(m))
  PROVE  \E k : Wakes(k, {}) /\ k.tskstat = tskstat /\ k.eax = eax
  <1>1. PICK L : MtxWaits(L)
    BY DEF MtxInv
  <1>2. PICK h \in MtxHeads : h = mtx_wlink(m)
    BY MtxNodes
  <1>3. /\ Layer /\ TypeOK /\ h \in WNode
        /\ tskstat \in [Task -> Stat] /\ eax \in [Task -> Int]
    BY MtxNodes DEF MtxInv, Layer, TypeOK
  <1>4. Queues(MtxHeads, MtxBlockers, L)
    BY <1>1 DEF MtxWaits
  <1>5. IsList(WNode, wlink, h, {})
    <2>1. L[h] = {}
      BY <1>2, <1>4, QueueFirst DEF InQueue
    <2>2. QED
      BY <1>4, <2>1 DEF Queues, Lists
  <1>6. PICK w : w = Walk(wlink, h)
    OBVIOUS
  <1>7. PICK n \in Nat : n = Len(w) /\ Sleepers(w, n) /\ {} = {w[i] : i \in 1 .. n}
    BY <1>3, <1>5, <1>6, QueueSleeps
  <1>8. PICK k : Wakes(k, {}) /\ Hears(k, {}, E_DLT)
    <2>1. Commit(ReleaseAll(DeletedUntimed, w)) /\ UNCHANGED <<next_tsk_flag, tcbVars, wupcnt>>
      BY <1>2, <1>6 DEF ReleaseInPlace
    <2>2. QED
      BY <1>3, <1>7, <2>1, SequenceWakes
  <1>9. k.tskstat = tskstat /\ k.eax = eax
    BY <1>3, <1>8 DEF Wakes, Hears
  <1>10. QED
    BY <1>8, <1>9

LEMMA MtxDeleted ==
  ASSUME Application(MtxBlockers), MtxInv, NEW c \in Cpu, pc[c] = "user", NEW m \in MtxId,
         ~InQueue(wlink, mtx_wlink(m)), ReleaseInPlace(mtx_wlink(m)), Return(c, E_OK),
         UNCHANGED <<mtxlock, owner, mtxcnt>>, KeepsWants
  PROVE  MtxInv'
  <1>1. Layer /\ TypeOK
    BY DEF MtxInv, Layer
  <1>2. PICK k : Wakes(k, {}) /\ k.tskstat = tskstat
    BY NobodyReleased
  <1>3. UNCHANGED <<tskpri, tskstat, wupcnt>>
    BY <1>2 DEF Wakes, Commit, tcbVars
  <1>4. wlink' = wlink
    BY DEF ReleaseInPlace
  <1>5. Layer'
    <2>1. Returned(c)
      BY <1>1, ReturnReturns, Codes
    <2>2. wlink' \in Ring(WNode)
      BY <1>1, <1>4 DEF TypeOK
    <2>3. QED
      BY <1>1, <1>2, <2>1, <2>2, WakeLayer
  <1>6. QED
    BY <1>3, <1>4, <1>5, MtxQuiet

\* The caller gets its own priority back with its last mutex.
LEMMA GivenBack ==
  ASSUME NEW t \in Task, NEW k, NEW st, Lined(k.plink, tskpri, st), st[t] \in {"RDY", "RUN"},
         Unlocked(t, k)
  PROVE  /\ Lined(plink', tskpri', st)
         /\ tskpri' = IF mtxcnt[t] = 1 THEN [tskpri EXCEPT ![t] = itskpri[t]] ELSE tskpri
  <1>1. tskpri \in [Task -> Pri]
    BY DEF Lined
  <1>2. CASE LastOfAll(t) /\ tskbpri(t) # tskpri[t]
    <2>1. PICK p \in Pri : p = itskpri[t]
      BY TaskAssumption
    <2>2. plink' = InsertBefore(Unlink(k.plink, t), tsk_pri(p), t) /\ tskpri' = [tskpri EXCEPT ![t] = p]
          /\ mtxcnt[t] = 1
      BY <1>2, <2>1 DEF Unlocked, tskbpri, LastOfAll
    <2>3. Lined(InsertBefore(Unlink(k.plink, t), tsk_pri(p), t), [tskpri EXCEPT ![t] = p], st)
      BY LinedMoved
    <2>4. QED
      BY <2>1, <2>2, <2>3
  <1>3. CASE ~(LastOfAll(t) /\ tskbpri(t) # tskpri[t])
    <2>1. plink' = k.plink /\ tskpri' = tskpri
      BY <1>3 DEF Unlocked
    <2>2. mtxcnt[t] = 1 => tskpri[t] = itskpri[t]
      BY <1>3 DEF LastOfAll, tskbpri
    <2>3. mtxcnt[t] = 1 => [tskpri EXCEPT ![t] = itskpri[t]] = tskpri
      BY <1>1, <2>2
    <2>4. QED
      BY <2>1, <2>3
  <1>4. QED
    BY <1>2, <1>3

\* An unlock when nobody waits.
LEMMA MtxFreed ==
  ASSUME Application(MtxBlockers), MtxInv, NEW c \in Cpu, pc[c] = "user", NEW m \in MtxId,
         mtxlock[m] # 0, owner[m] = c_tskid[c], wlink.next[mtx_wlink(m)] = mtx_wlink(m),
         mtxlock' = [mtxlock EXCEPT ![m] = 0], mtxcnt' = [mtxcnt EXCEPT ![c_tskid[c]] = @ - 1],
         Unlocked(c_tskid[c], Kernel0), UNCHANGED <<owner, wlink, tskstat, eax>>,
         Return(c, E_OK), UNCHANGED <<next_tsk_flag, actcnt, proc_cpu, wupcnt, timeVars>>,
         KeepsWants
  PROVE  MtxInv'
  <1>1. PICK L : MtxWaits(L)
    BY DEF MtxInv
  <1>2. PICK h \in MtxHeads : h = mtx_wlink(m)
    BY MtxNodes
  <1>3. PICK t \in Task : t = c_tskid[c] /\ tskstat[t] = "RUN"
    BY Running DEF MtxInv
  <1>4. /\ Undisturbed(MtxHeads, MtxBlockers) /\ Queues(MtxHeads, MtxBlockers, L)
        /\ \A g \in MtxHeads : \A u \in L[g] : u \in Task /\ tskstat[u] = "WAI"
        /\ tskpri \in [Task -> Pri] /\ wlink \in Ring(WNode)
    BY <1>1, MtxFacts
  <1>5. mtxlock[m] = 1 /\ Layer /\ TypeOK /\ Counted(mtxlock, owner, mtxcnt)
        /\ mtxlock \in [MtxId -> {0, 1}] /\ mtxcnt \in [Task -> Nat]
    BY DEF MtxInv, Counted, Layer
  <1>6. L[h] = {}
    BY <1>2, <1>4, QueueFirst
  <1>7. /\ Lined(plink', tskpri', tskstat)
        /\ tskpri' = IF mtxcnt[t] = 1 THEN [tskpri EXCEPT ![t] = itskpri[t]] ELSE tskpri
    <2>1. PICK k : k = Kernel0
      OBVIOUS
    <2>2. Lined(k.plink, tskpri, tskstat) /\ Unlocked(t, k)
      BY <1>3, <1>5, <2>1, LinedNow DEF Kernel0
    <2>3. QED
      BY <1>3, <2>2, GivenBack
  <1>8. Layer'
    <2>1. Returned(c)
      BY <1>5, ReturnReturns, Codes
    <2>2. /\ tlink' \in Ring(TNode) /\ delta' \in [Task -> Int] /\ eax' \in [Task -> Int]
          /\ wlink' \in Ring(WNode)
      BY <1>5 DEF TypeOK, timeVars
    <2>3. Lined(plink, tskpri, tskstat)'
      BY <1>7 DEF Lined, ReadyIn, PHead
    <2>4. Wakens
      BY DEF Wakens
    <2>5. QED
      BY <1>5, <2>1, <2>2, <2>3, <2>4, LayerFrom
  <1>9. \A g \in MtxHeads : \A u \in L[g] : tskpri'[u] = tskpri[u] /\ u # t
    BY <1>3, <1>4, <1>7
  <1>10. AllSorted(tskpri', wlink, MtxHeads)
    <2>1. PICK r, p : r = wlink /\ p = tskpri'
      OBVIOUS
    <2>2. /\ r \in Ring(WNode) /\ Lists(WNode, r, MtxHeads, L) /\ AllSorted(tskpri, r, MtxHeads)
          /\ \A g \in MtxHeads : \A u \in L[g] : p[u] = tskpri[u]
      BY <1>1, <1>4, <1>9, <2>1 DEF Queues, MtxWaits
    <2>3. AllSorted(p, r, MtxHeads)
      BY <2>2, MtxNodes, AllSortedSame
    <2>4. QED
      BY <2>1, <2>3
  <1>11. Counted(mtxlock', owner, mtxcnt')
    BY <1>3, <1>5, CountFreed
  <1>12. ASSUME NEW n \in MtxId, mtxlock'[n] = 1
         PROVE  /\ mtxlock[n] = 1 /\ owner[n] \in Task /\ IsReady(owner[n])
                /\ tskpri'[owner[n]] = tskpri[owner[n]]
    <2>1. mtxlock[n] = 1
      BY <1>5, <1>12
    <2>2. owner[n] \in Task /\ IsReady(owner[n])
      BY <2>1 DEF MtxInv, OwnersReady
    <2>3. CASE owner[n] = t
      <3>1. mtxcnt'[t] # 0
        <4>1. PICK lk, own, cnt : lk = mtxlock' /\ own = owner /\ cnt = mtxcnt'
          OBVIOUS
        <4>2. Counted(lk, own, cnt) /\ lk[n] = 1 /\ own[n] = t
          BY <1>11, <1>12, <2>3, <4>1
        <4>3. cnt[t] # 0
          BY <4>2, HolderCounts
        <4>4. QED
          BY <4>1, <4>3
      <3>2. mtxcnt[t] # 1
        BY <1>3, <1>5, <3>1
      <3>3. QED
        BY <1>7, <2>1, <2>2, <3>2
    <2>4. CASE owner[n] # t
      BY <1>4, <1>7, <2>1, <2>2, <2>4
    <2>5. QED
      BY <2>3, <2>4
  <1>13. Outranks(L, mtxlock', owner, tskpri')
    <2> SUFFICES ASSUME NEW n \in MtxId, NEW u \in L[mtx_wlink(n)]
                 PROVE  mtxlock'[n] = 1 /\ tskpri'[owner[n]] <= tskpri'[u]
      BY DEF Outranks
    <2>1. n # m /\ mtx_wlink(n) \in MtxHeads
      BY <1>2, <1>6, MtxNodes
    <2>2. mtxlock'[n] = 1 /\ tskpri[owner[n]] <= tskpri[u]
      BY <1>1, <1>5, <2>1 DEF MtxWaits, Outranks
    <2>3. tskpri'[owner[n]] = tskpri[owner[n]] /\ tskpri'[u] = tskpri[u]
      BY <1>9, <1>12, <2>1, <2>2
    <2>4. QED
      BY <2>2, <2>3
  <1>14. MtxWaits(L)'
    <2>1. MtxHeads' = MtxHeads
      BY DEF MtxHeads, mtx_wlink
    <2>2. Queues(MtxHeads, MtxBlockers, L)' /\ Asleep(MtxHeads, L)'
      BY <1>1, <1>4, QueuesSame DEF MtxWaits
    <2>3. AllSorted(tskpri, wlink, MtxHeads)'
      BY <1>10, <2>1 DEF AllSorted, Sorted
    <2>4. Outranks(L, mtxlock, owner, tskpri)'
      BY <1>13 DEF Outranks, mtx_wlink
    <2>5. Wanted(L, wants')
      BY <1>1, WantedKept
    <2>6. Wanted(L, wants)'
      BY <2>5 DEF Wanted, mtx_wlink
    <2>7. QED
      BY <2>2, <2>3, <2>4, <2>6 DEF MtxWaits
  <1>15. Counted(mtxlock, owner, mtxcnt)'
    BY <1>11 DEF Counted, Held
  <1>16. OwnersReady'
    BY <1>12 DEF OwnersReady, IsReady
  <1>17. OwnPriority'
    <2> SUFFICES ASSUME NEW u \in Task, mtxcnt'[u] = 0
                 PROVE  tskpri'[u] = itskpri[u]
      BY DEF OwnPriority
    <2>1. CASE u = t
      <3>1. mtxcnt[t] = 1
        BY <1>3, <1>5, <2>1
      <3>2. QED
        BY <1>4, <1>7, <2>1, <3>1
    <2>2. CASE u # t
      <3>1. mtxcnt[u] = 0
        BY <1>3, <1>5, <2>2
      <3>2. QED
        BY <1>4, <1>7, <2>2, <3>1 DEF MtxInv, OwnPriority
    <2>3. QED
      BY <2>1, <2>2
  <1>18. QED
    BY <1>8, <1>14, <1>15, <1>16, <1>17 DEF MtxInv, KeepsWants

\* An unlock hands the mutex to the first waiter, the most urgent one.
LEMMA MtxHanded ==
  ASSUME Application(MtxBlockers), MtxInv, NEW c \in Cpu, pc[c] = "user", NEW m \in MtxId,
         NEW t, mtxlock[m] # 0, owner[m] = c_tskid[c], t = wlink.next[mtx_wlink(m)],
         t # mtx_wlink(m), HandMutex(c, m, t), Return(c, E_OK),
         UNCHANGED <<next_tsk_flag, actcnt, proc_cpu, wupcnt, timeVars>>, KeepsWants
  PROVE  MtxInv'
  <1>1. PICK L : MtxWaits(L)
    BY DEF MtxInv
  <1>2. PICK h \in MtxHeads : h = mtx_wlink(m)
    BY MtxNodes
  <1>3. PICK u \in Task : u = c_tskid[c] /\ tskstat[u] = "RUN"
    BY Running DEF MtxInv
  <1>4. /\ Undisturbed(MtxHeads, MtxBlockers) /\ Queues(MtxHeads, MtxBlockers, L)
        /\ \A g \in MtxHeads : L[g] \subseteq Task
        /\ \A g \in MtxHeads : \A x \in L[g] : x \in Task /\ tskstat[x] = "WAI"
        /\ tskpri \in [Task -> Pri] /\ tskstat \in [Task -> Stat] /\ wlink \in Ring(WNode)
    BY <1>1, MtxFacts
  <1>5. /\ mtxlock[m] = 1 /\ Layer /\ TypeOK /\ Counted(mtxlock, owner, mtxcnt)
        /\ mtxlock \in [MtxId -> {0, 1}] /\ mtxcnt \in [Task -> Nat]
        /\ owner \in [MtxId -> Task \cup {None}] /\ eax \in [Task -> Int]
    BY DEF MtxInv, Counted, Layer, TypeOK
  <1>6. t \in L[h]
    BY <1>2, <1>4, QueueFirst
  <1>7. t \in Task /\ tskstat[t] = "WAI" /\ t # u /\ mtxcnt[t] = 0
    <2>1. t \in Task /\ tskstat[t] = "WAI"
      BY <1>4, <1>6
    <2>2. \A n \in MtxId : ~(mtxlock[n] = 1 /\ owner[n] = t)
      BY <2>1 DEF MtxInv, OwnersReady, IsReady
    <2>3. QED
      BY <1>3, <2>1, <2>2, OwnerHolds
  <1>8. /\ mtxlock' = [mtxlock EXCEPT ![m] = 1] /\ owner' = [owner EXCEPT ![m] = t]
        /\ mtxcnt' = [mtxcnt EXCEPT ![t] = @ + 1, ![u] = @ - 1]
        /\ wlink' = UnlinkToSelf(wlink, t)
        /\ tskstat' = [tskstat EXCEPT ![t] = "RDY"] /\ eax' = [eax EXCEPT ![t] = E_OK]
    BY <1>3 DEF HandMutex, GiveTo, Ready, Kernel0
  <1>9. /\ Lined(plink', tskpri', tskstat')
        /\ tskpri' = IF mtxcnt[u] = 1 THEN [tskpri EXCEPT ![u] = itskpri[u]] ELSE tskpri
    <2>1. PICK k : k = Ready(Kernel0, t, E_OK)
      OBVIOUS
    <2>2. k.plink = InsertBefore(plink, tsk_pri(tskpri[t]), t)
      BY <2>1 DEF Ready, Kernel0
    <2>3. Lined(InsertBefore(plink, tsk_pri(tskpri[t]), t), tskpri, [tskstat EXCEPT ![t] = "RDY"])
      BY <1>5, <1>7, LinedNow, LinedOn
    <2>4. PICK st : st = [tskstat EXCEPT ![t] = "RDY"]
      OBVIOUS
    <2>5. Lined(k.plink, tskpri, st) /\ st[u] \in {"RDY", "RUN"} /\ Unlocked(u, k)
      BY <1>3, <1>4, <1>7, <2>1, <2>2, <2>3, <2>4 DEF HandMutex
    <2>6. QED
      BY <1>8, <2>4, <2>5, GivenBack
  <1>10. PICK K : K = Without(MtxHeads, L, t)
    OBVIOUS
  <1>11. wlink' \in Ring(WNode) /\ Queues(MtxHeads, MtxBlockers, K)' /\ Asleep(MtxHeads, K)'
    <2>1. PICK H, B : H = MtxHeads /\ B = MtxBlockers
      OBVIOUS
    <2>2. /\ Undisturbed(H, B) /\ Queues(H, B, L) /\ h \in H
          /\ wlink' = UnlinkToSelf(wlink, t) /\ tskstat' = [tskstat EXCEPT ![t] = "RDY"]
          /\ wupcnt' = wupcnt
      BY <1>4, <1>8, <2>1
    <2>3. /\ wlink' \in Ring(WNode) /\ Queues(H, B, Without(H, L, t))'
          /\ Asleep(H, L) => Asleep(H, Without(H, L, t))'
      BY <1>5, <1>6, <2>2, QueuesLeft
    <2>4. Without(H, L, t)' = K
      BY <1>10, <2>1 DEF Without
    <2>5. Asleep(H, L)
      BY <1>1, <2>1 DEF MtxWaits
    <2>6. QED
      BY <2>1, <2>3, <2>4, <2>5 DEF Queues, Asleep, MtxHeads, MtxBlockers, mtx_wlink
  <1>12. Layer'
    <2>1. Returned(c)
      BY <1>5, ReturnReturns, Codes
    <2>2. tlink' \in Ring(TNode) /\ delta' \in [Task -> Int]
      BY <1>5 DEF TypeOK, timeVars
    <2>3. Lined(plink, tskpri, tskstat)'
      BY <1>9 DEF Lined, ReadyIn, PHead
    <2>4. Wakens
      BY <1>4, <1>7, <1>8 DEF Wakens
    <2>5. eax' \in [Task -> Int]
      BY <1>5, <1>8, Codes
    <2>6. QED
      BY <1>5, <1>11, <2>1, <2>2, <2>3, <2>4, <2>5, LayerFrom
  <1>13. /\ \A g \in MtxHeads : K[g] = L[g] \ {t}
         /\ \A g \in MtxHeads : \A x \in K[g] : x \in L[g] /\ x \in Task /\ x # u /\ x # t
    BY <1>3, <1>4, <1>10 DEF Without
  <1>14. \A x \in Task : x # u => tskpri'[x] = tskpri[x]
    BY <1>4, <1>9
  <1>15. AllSorted(tskpri', wlink', MtxHeads)
    <2>1. PICK r, q, p : r = wlink /\ q = wlink' /\ p = tskpri'
      OBVIOUS
    <2>2. Lists(WNode, r, MtxHeads, L) /\ AllSorted(tskpri, r, MtxHeads) /\ r \in Ring(WNode)
      BY <1>1, <1>4, <2>1 DEF Queues, MtxWaits
    <2>3. AllSorted(tskpri, q, MtxHeads)
      <3>1. AllSorted(tskpri, UnlinkToSelf(r, t), MtxHeads)
        BY <1>4, <1>6, <2>2, MtxNodes, AllSortedLeave
      <3>2. QED
        BY <1>8, <2>1, <3>1
    <2>4. Lists(WNode, q, MtxHeads, K) /\ q \in Ring(WNode)
      BY <1>11, <2>1 DEF Queues, MtxHeads, mtx_wlink
    <2>5. \A g \in MtxHeads : \A x \in K[g] : p[x] = tskpri[x]
      BY <1>13, <1>14, <2>1
    <2>6. AllSorted(p, q, MtxHeads)
      BY <2>3, <2>4, <2>5, MtxNodes, AllSortedSame
    <2>7. QED
      BY <2>1, <2>6
  <1>16. Counted(mtxlock', owner', mtxcnt')
    <2>1. owner[m] = u
      BY <1>3
    <2>2. QED
      BY <1>5, <1>7, <1>8, <2>1, CountHanded
  <1>17. ASSUME NEW n \in MtxId, mtxlock[n] = 1, n # m
         PROVE  /\ owner'[n] = owner[n] /\ owner[n] \in Task /\ IsReady(owner[n])
                /\ owner[n] # t /\ tskpri'[owner[n]] = tskpri[owner[n]]
    <2>1. owner[n] \in Task /\ IsReady(owner[n]) /\ owner'[n] = owner[n]
      BY <1>5, <1>8, <1>17 DEF MtxInv, OwnersReady
    <2>2. owner[n] # t
      BY <1>7, <2>1 DEF IsReady
    <2>3. CASE owner[n] = u
      <3>1. mtxcnt'[u] # 0
        <4>1. PICK lk, own, cnt : lk = mtxlock' /\ own = owner' /\ cnt = mtxcnt'
          OBVIOUS
        <4>2. Counted(lk, own, cnt) /\ lk[n] = 1 /\ own[n] = u
          BY <1>5, <1>8, <1>16, <1>17, <2>1, <2>3, <4>1
        <4>3. cnt[u] # 0
          BY <4>2, HolderCounts
        <4>4. QED
          BY <4>1, <4>3
      <3>2. mtxcnt'[u] = mtxcnt[u] - 1
        BY <1>5, <1>7, <1>8
      <3>3. mtxcnt[u] # 1
        BY <1>5, <3>1, <3>2
      <3>4. QED
        BY <1>9, <2>1, <2>2, <3>3
    <2>4. CASE owner[n] # u
      BY <1>14, <2>1, <2>2, <2>4
    <2>5. QED
      BY <2>3, <2>4
  <1>18. Outranks(K, mtxlock', owner', tskpri')
    <2> SUFFICES ASSUME NEW n \in MtxId, NEW x \in K[mtx_wlink(n)]
                 PROVE  mtxlock'[n] = 1 /\ tskpri'[owner'[n]] <= tskpri'[x]
      BY DEF Outranks
    <2>1. mtx_wlink(n) \in MtxHeads
      BY MtxNodes
    <2>2. x \in L[mtx_wlink(n)] /\ x \in Task /\ x # t /\ tskpri'[x] = tskpri[x]
      BY <1>13, <1>14, <2>1
    <2>3. mtxlock[n] = 1 /\ tskpri[owner[n]] <= tskpri[x]
      BY <1>1, <2>2 DEF MtxWaits, Outranks
    <2>4. CASE n = m
      <3>1. PICK r : r = wlink
        OBVIOUS
      <3>2. IsList(WNode, r, h, L[h]) /\ Sorted(tskpri, r, h) /\ r \in Ring(WNode) /\ h \in WNode
        BY <1>1, <1>4, <3>1, MtxNodes DEF Queues, Lists, MtxWaits, AllSorted
      <3>3. x \in L[h]
        BY <1>2, <2>2, <2>4
      <3>4. tskpri[r.next[h]] <= tskpri[x]
        BY <3>2, <3>3, FirstIsUrgent
      <3>5. tskpri[t] <= tskpri[x] /\ tskpri'[t] = tskpri[t]
        BY <1>2, <1>7, <1>14, <3>1, <3>4
      <3>6. owner'[n] = t /\ mtxlock'[n] = 1
        BY <1>5, <1>8, <2>4
      <3>7. QED
        BY <2>2, <3>5, <3>6
    <2>5. CASE n # m
      <3>1. mtxlock'[n] = 1
        BY <1>5, <1>8, <2>3, <2>5
      <3>2. QED
        BY <1>17, <2>2, <2>3, <2>5, <3>1
    <2>6. QED
      BY <2>4, <2>5
  <1>19. MtxWaits(K)'
    <2>1. MtxHeads' = MtxHeads
      BY DEF MtxHeads, mtx_wlink
    <2>2. AllSorted(tskpri, wlink, MtxHeads)'
      BY <1>15, <2>1 DEF AllSorted, Sorted
    <2>3. Outranks(K, mtxlock, owner, tskpri)'
      BY <1>18 DEF Outranks, mtx_wlink
    <2>4. Wanted(K, wants')
      BY <1>1, <1>13, WantedKept
    <2>5. Wanted(K, wants)'
      BY <2>4 DEF Wanted, mtx_wlink
    <2>6. QED
      BY <1>11, <2>2, <2>3, <2>5 DEF MtxWaits
  <1>20. Counted(mtxlock, owner, mtxcnt)'
    BY <1>16 DEF Counted, Held
  <1>21. OwnersReady'
    <2> SUFFICES ASSUME NEW n \in MtxId, mtxlock'[n] = 1
                 PROVE  owner'[n] \in Task /\ tskstat'[owner'[n]] \in {"RDY", "RUN"}
      BY DEF OwnersReady, IsReady
    <2>1. CASE n = m
      <3>1. owner'[n] = t
        BY <1>5, <1>8, <2>1
      <3>2. QED
        BY <1>4, <1>7, <1>8, <3>1
    <2>2. CASE n # m
      <3>1. mtxlock[n] = 1
        BY <1>5, <1>8, <2>2
      <3>2. /\ owner'[n] = owner[n] /\ owner[n] \in Task /\ owner[n] # t
            /\ tskstat[owner[n]] \in {"RDY", "RUN"}
        BY <1>17, <2>2, <3>1 DEF IsReady
      <3>3. QED
        BY <1>4, <1>8, <3>2
    <2>3. QED
      BY <2>1, <2>2
  <1>22. OwnPriority'
    <2> SUFFICES ASSUME NEW x \in Task, mtxcnt'[x] = 0
                 PROVE  tskpri'[x] = itskpri[x]
      BY DEF OwnPriority
    <2>1. CASE x = u
      <3>1. mtxcnt'[u] = mtxcnt[u] - 1
        BY <1>5, <1>7, <1>8
      <3>2. mtxcnt[u] = 1
        BY <1>5, <2>1, <3>1
      <3>3. QED
        BY <1>4, <1>9, <2>1, <3>2
    <2>2. CASE x = t
      <3>1. mtxcnt'[t] = mtxcnt[t] + 1
        BY <1>5, <1>7, <1>8
      <3>2. QED
        BY <1>5, <1>7, <2>2, <3>1
    <2>3. CASE x # u /\ x # t
      <3>1. mtxcnt[x] = 0
        BY <1>5, <1>7, <1>8, <2>3
      <3>2. QED
        BY <1>14, <2>3, <3>1 DEF MtxInv, OwnPriority
    <2>4. QED
      BY <2>1, <2>2, <2>3
  <1>23. QED
    BY <1>12, <1>19, <1>20, <1>21, <1>22 DEF MtxInv, KeepsWants

LEMMA MtxCallInv ==
  ASSUME Application(MtxBlockers), MtxInv, NEW c \in Cpu, MtxCall(c)
  PROVE  MtxInv'
  <1>0. E_ILUSE \in Int
    BY DEF E_ILUSE
  <1>9. wants' = wants => KeepsWants
    BY DEF MtxInv, WantsType, KeepsWants
  <1>1. ASSUME NEW v \in Int, pc[c] = "user", RefuseMtx(c, v), wants' = wants
        PROVE  MtxInv'
    BY <1>1, <1>9, MtxReplied DEF RefuseMtx, mtxVars
  <1>2. ASSUME NEW m \in MtxId, NEW v \in Int, pc[c] = "user", sys_cre_mtx(m), Reply(c, v),
               wants' = wants
        PROVE  MtxInv'
    BY <1>2, <1>9, MtxReplied DEF sys_cre_mtx
  <1>3. ASSUME acre_mtx(c)
        PROVE  MtxInv'
    <2>1. /\ pc[c] = "user" /\ wants' = wants
          /\ RefuseMtx(c, E_NOID) \/ \E m \in MtxId : sys_cre_mtx(m) /\ Reply(c, m)
      BY <1>3 DEF acre_mtx, Trap, lockHistory
    <2>2. QED
      BY <1>1, <1>2, <2>1, MtxNodes, Codes
  <1>4. ASSUME NEW m \in MtxId, cre_mtx(c, m)
        PROVE  MtxInv'
    <2>1. /\ pc[c] = "user" /\ wants' = wants
          /\ RefuseMtx(c, E_OBJ) \/ (sys_cre_mtx(m) /\ Reply(c, E_OK))
      BY <1>4 DEF cre_mtx, Trap, lockHistory
    <2>2. QED
      BY <1>1, <1>2, <2>1, Codes
  <1>5. ASSUME NEW m \in MtxId, del_mtx(c, m)
        PROVE  MtxInv'
    <2>1. /\ pc[c] = "user" /\ ~InQueue(wlink, mtx_wlink(m)) /\ wants' = wants
          /\ \/ RefuseMtx(c, E_NOEXS)
             \/ /\ ReleaseInPlace(mtx_wlink(m)) /\ Return(c, E_OK)
                /\ UNCHANGED <<mtxlock, owner, mtxcnt>>
      BY <1>5 DEF del_mtx, Trap, lockHistory
    <2>2. QED
      BY <1>1, <1>9, <2>1, MtxDeleted, Codes
  <1>6. ASSUME NEW m \in MtxId, tloc_mtx(c, m)
        PROVE  MtxInv'
    <2>1. PICK tmout \in TmoOf(c, m, "tloc_mtx", "loc_mtx", "ploc_mtx") :
            /\ Trap(c, "tloc_mtx", m) \/ Trap(c, "loc_mtx", m) \/ Trap(c, "ploc_mtx", m)
            /\ mtxcnt[c_tskid[c]] > 0 => tmout = 0
            /\ \/ /\ RefuseMtx(c, E_NOEXS) \/ RefuseMtx(c, E_ILUSE) \/ RefuseMtx(c, E_TMOUT)
                  /\ wants' = wants
               \/ LockFree(c, m)
               \/ /\ mtxlock[m] # 0 /\ owner[m] # c_tskid[c] /\ tmout # 0
                  /\ wupcnt[c_tskid[c]] = 0 /\ WaitMutex(c, m, tmout)
      BY <1>6 DEF tloc_mtx, lockHistory
    <2>2. pc[c] = "user"
      BY <2>1 DEF Trap
    <2>3. CASE /\ mtxlock[m] # 0 /\ owner[m] # c_tskid[c] /\ tmout # 0
               /\ wupcnt[c_tskid[c]] = 0 /\ WaitMutex(c, m, tmout)
      <3>1. c_tskid[c] \in Task /\ mtxcnt \in [Task -> Nat]
        BY <2>2, Running DEF MtxInv, Counted
      <3>2. c_tskid[c] \in MtxBlockers
        BY <2>1, <2>3, <3>1 DEF TmoOf, MtxBlockers
      <3>3. mtxcnt[c_tskid[c]] = 0
        BY <2>1, <2>3, <3>1
      <3>4. QED
        BY <2>2, <2>3, <3>2, <3>3, MtxWaited
    <2>4. CASE LockFree(c, m)
      <3>1. c_tskid[c] \in Task /\ tskstat[c_tskid[c]] = "RUN" /\ WantsType
        BY <2>2, Running DEF MtxInv
      <3>2. wants' = [wants EXCEPT ![c_tskid[c]] = m]
        BY <2>4 DEF LockFree
      <3>3. KeepsWants
        BY <3>1, <3>2 DEF KeepsWants, WantsType
      <3>4. QED
        BY <1>6, <2>2, <2>4, <3>3, MtxTaken
    <2>5. CASE /\ RefuseMtx(c, E_NOEXS) \/ RefuseMtx(c, E_ILUSE) \/ RefuseMtx(c, E_TMOUT)
               /\ wants' = wants
      <3>1. E_NOEXS \in Int /\ E_ILUSE \in Int /\ E_TMOUT \in Int
        BY <1>0, Codes
      <3>2. QED
        BY <1>1, <2>2, <2>5, <3>1
    <2>6. QED
      BY <2>1, <2>3, <2>4, <2>5
  <1>7. ASSUME NEW m \in MtxId, unl_mtx(c, m)
        PROVE  MtxInv'
    <2>1. PICK t : t = wlink.next[mtx_wlink(m)]
      OBVIOUS
    <2>2. pc[c] = "user" /\ wants' = wants
      BY <1>7 DEF unl_mtx, Trap
    <2>3. \/ RefuseMtx(c, E_NOEXS) \/ RefuseMtx(c, E_ILUSE)
          \/ /\ mtxlock[m] # 0 /\ owner[m] = c_tskid[c]
             /\ \/ t # mtx_wlink(m) /\ HandMutex(c, m, t)
                \/ /\ t = mtx_wlink(m)
                   /\ mtxlock' = [mtxlock EXCEPT ![m] = 0]
                   /\ mtxcnt' = [mtxcnt EXCEPT ![c_tskid[c]] = @ - 1]
                   /\ Unlocked(c_tskid[c], Kernel0)
                   /\ UNCHANGED <<owner, wlink, tskstat, eax>>
             /\ Return(c, E_OK)
             /\ UNCHANGED <<next_tsk_flag, actcnt, proc_cpu, wupcnt, timeVars>>
      BY <1>7, <2>1 DEF unl_mtx
    <2>4. QED
      BY <1>0, <1>1, <1>9, <2>1, <2>2, <2>3, MtxHanded, MtxFreed, Codes
  <1>8. QED
    BY <1>3, <1>4, <1>5, <1>6, <1>7 DEF MtxCall

\* The task layer changes no priority, and only its own call stops a task.
LEMMA ReadyStays ==
  ASSUME Layer, NEW c \in Cpu, FitStep(c), NEW t \in Task, IsReady(t)
  PROVE  /\ tskpri' = tskpri
         /\ \/ IsReady(t)'
            \/ pc[c] = "user" /\ t = c_tskid[c] /\ tskstat'[t] = "WAI"
  <1>0. tskstat \in [Task -> Stat] /\ tskstat[t] \in {"RDY", "RUN"}
    BY DEF Layer, TypeOK, IsReady
  <1>1. CASE slp_tsk(c) \/ tslp_tsk(c) \/ dly_tsk(c)
    <2>1. pc[c] = "user" /\ tskpri' = tskpri
      BY <1>1 DEF slp_tsk, tslp_tsk, dly_tsk, Trap, tcbVars
    <2>2. tskstat' = tskstat \/ tskstat' = [tskstat EXCEPT ![c_tskid[c]] = "WAI"]
      BY <1>1 DEF slp_tsk, tslp_tsk, dly_tsk, sys_slp_tsk, sys_tslp_tsk, TakeWakeup, Block,
                  readyVars
    <2>3. QED
      BY <1>0, <2>1, <2>2 DEF IsReady
  <1>2. ASSUME NEW u \in Task, wup_tsk(c, u) \/ can_wup(c, u)
        PROVE  tskpri' = tskpri /\ IsReady(t)'
    <2>1. /\ tskpri' = tskpri
          /\ \/ UNCHANGED tskstat
             \/ tskstat' = [tskstat EXCEPT ![u] = "RDY", ![c_tskid[c]] = "RDY"]
      BY <1>2 DEF wup_tsk, can_wup, QueueWakeup, WakeUp, RefuseWakeup, readyVars, tcbVars
    <2>2. QED
      BY <1>0, <2>1 DEF IsReady
  <1>3. ASSUME NEW u \in Task, act_tsk(c, u)
        PROVE  tskpri' = tskpri /\ IsReady(t)'
    <2>1. tskpri' = tskpri /\ (UNCHANGED tskstat \/ tskstat' = [tskstat EXCEPT ![u] = "RDY"])
      BY <1>3 DEF act_tsk, readyVars
    <2>2. QED
      BY <1>0, <2>1 DEF IsReady
  <1>4. CASE sched_timeout(c)
    <2>1. tskpri' = tskpri /\ (UNCHANGED tskstat \/ tskstat' = [tskstat EXCEPT ![FirstTimeout] = "RDY"])
      BY <1>4 DEF sched_timeout, TimeOutTask, tcbVars
    <2>2. QED
      BY <1>0, <2>1 DEF IsReady
  <1>5. CASE sched_do_next_tsk(c)
    <2>1. tskpri' = tskpri
      BY <1>5 DEF sched_do_next_tsk, tcbVars
    <2>2. QED
      BY <1>5, <2>1, DispatcherReady DEF Layer
  <1>6. CASE Interrupt(c) \/ tick_done(c) \/ store_ret(c) \/ intr_leave(c) \/ clear_flag(c)
    <2>1. UNCHANGED <<tskpri, tskstat>>
      BY <1>6 DEF Interrupt, irq0, apic_timer, tick_done, store_ret, intr_leave, clear_flag,
                  readyVars, tcbVars
    <2>2. QED
      BY <2>1 DEF IsReady
  <1>7. QED
    BY <1>1, <1>2, <1>3, <1>4, <1>5, <1>6 DEF FitStep, SystemCall, Kernel

LEMMA MtxFitStep ==
  ASSUME Application(MtxBlockers), MtxInv, NEW c \in Cpu, FitStep(c), HolderStays(c),
         UNCHANGED <<mtxlock, owner, mtxcnt>>, KeepsWants
  PROVE  MtxInv'
  <1>1. PICK L : MtxWaits(L)
    BY DEF MtxInv
  <1>2. /\ Undisturbed(MtxHeads, MtxBlockers) /\ Queues(MtxHeads, MtxBlockers, L)
        /\ \A h \in MtxHeads : L[h] \subseteq Task
        /\ \A h \in MtxHeads : \A t \in L[h] : t \in Task /\ tskstat[t] = "WAI"
        /\ tskstat \in [Task -> Stat] /\ wlink \in Ring(WNode)
    BY <1>1, MtxFacts
  <1>3. Layer /\ c_tskid[c] \in Task /\ mtxcnt \in [Task -> Nat]
    BY DEF MtxInv, Layer, TypeOK, Counted
  <1>4. tskpri' = tskpri
    <2>1. PICK t \in Idle : TRUE
      BY <1>2 DEF Undisturbed, Application
    <2>2. t \in Task /\ IsReady(t)
      BY <1>3, TaskAssumption DEF Layer, IdleKept
    <2>3. QED
      BY <1>3, <2>2, ReadyStays
  <1>5. OwnersReady'
    <2> SUFFICES ASSUME NEW m \in MtxId, mtxlock[m] = 1
                 PROVE  owner[m] \in Task /\ IsReady(owner[m])'
      BY DEF OwnersReady, IsReady
    <2>1. PICK t \in Task : t = owner[m] /\ IsReady(t)
      BY DEF MtxInv, OwnersReady
    <2>2. mtxcnt[t] # 0
      BY <2>1, OwnerHolds
    <2>3. IsReady(t)'
      <3>1. IsReady(t)' \/ (pc[c] = "user" /\ t = c_tskid[c] /\ tskstat'[t] = "WAI")
        BY <1>3, <2>1, ReadyStays
      <3>2. ~(pc[c] = "user" /\ t = c_tskid[c] /\ tskstat'[t] = "WAI")
        BY <1>3, <2>2 DEF HolderStays
      <3>3. QED
        BY <3>1, <3>2
    <2>4. QED
      BY <2>1, <2>3 DEF IsReady
  <1>6. Counted(mtxlock, owner, mtxcnt)' /\ OwnPriority'
    BY <1>4 DEF MtxInv, Counted, Held, OwnPriority
  <1>7. ASSUME NEW K, Queues(MtxHeads, MtxBlockers, K)', Asleep(MtxHeads, K)', Layer',
               \A h \in MtxHeads : K[h] \subseteq L[h], AllSorted(tskpri, wlink', MtxHeads)
        PROVE  MtxInv'
    <2>1. MtxHeads' = MtxHeads
      BY DEF MtxHeads, mtx_wlink
    <2>2. Outranks(K, mtxlock, owner, tskpri)'
      <3>1. \A m \in MtxId : K[mtx_wlink(m)] \subseteq L[mtx_wlink(m)]
        BY <1>7, MtxNodes
      <3>2. QED
        BY <1>1, <1>4, <3>1 DEF MtxWaits, Outranks, mtx_wlink
    <2>3. AllSorted(tskpri, wlink, MtxHeads)'
      BY <1>4, <1>7, <2>1 DEF AllSorted, Sorted
    <2>4. Wanted(K, wants)'
      <3>1. Wanted(K, wants')
        BY <1>1, <1>7, WantedKept
      <3>2. QED
        BY <3>1 DEF Wanted, mtx_wlink
    <2>5. MtxWaits(K)'
      BY <1>7, <2>2, <2>3, <2>4 DEF MtxWaits
    <2>6. QED
      BY <1>5, <1>6, <1>7, <2>5 DEF MtxInv, KeepsWants
  <1>8. AllSorted(tskpri, wlink, MtxHeads)
    BY <1>1 DEF MtxWaits
  <1>9. CASE SystemCall(c) /\ ~InQueue(wlink, c_tskid[c])
    <2>1. Layer' /\ Queues(MtxHeads, MtxBlockers, L)' /\ Asleep(MtxHeads, L)'
      BY <1>1, <1>2, <1>3, <1>9, QueuesCall DEF MtxWaits
    <2>2. wlink' = wlink
      BY <1>3, <1>9, CallSleepers DEF Layer
    <2>3. QED
      BY <1>7, <1>8, <2>1, <2>2
  <1>10. CASE sched_timeout(c)
    <2>1. /\ Layer'
          /\ \/ UNCHANGED <<wlink, tskstat>> /\ Queues(MtxHeads, MtxBlockers, L)'
             \/ \E t : TimedOut(MtxHeads, MtxBlockers, L, t)
      BY <1>2, <1>3, <1>10, QueuesTimeout
    <2>2. CASE UNCHANGED <<wlink, tskstat>> /\ Queues(MtxHeads, MtxBlockers, L)'
      <3>1. Asleep(MtxHeads, L)'
        BY <1>1, <2>2 DEF MtxWaits, Asleep
      <3>2. QED
        BY <1>7, <1>8, <2>1, <2>2, <3>1
    <2>3. ASSUME NEW t, TimedOut(MtxHeads, MtxBlockers, L, t)
          PROVE  MtxInv'
      <3>1. PICK K : K = Without(MtxHeads, L, t)
        OBVIOUS
      <3>2. Queues(MtxHeads, MtxBlockers, K)' /\ \A h \in MtxHeads : K[h] = L[h] \ {t}
        BY <2>3, <3>1 DEF TimedOut, Without
      <3>3. Asleep(MtxHeads, K)'
        BY <1>2, <2>3, <3>2 DEF Asleep, TimedOut
      <3>4. AllSorted(tskpri, wlink', MtxHeads)
        <4>1. PICK r, q : r = wlink /\ q = wlink'
          OBVIOUS
        <4>2. /\ t \in Task /\ tskstat[t] = "WAI"
              /\ q = IF InQueue(wlink, t) THEN UnlinkToSelf(r, t) ELSE r
          BY <2>3, <4>1 DEF TimedOut
        <4>3. CASE InQueue(wlink, t)
          <5>1. PICK h \in MtxHeads : t \in L[h]
            BY <1>2, <4>2, <4>3 DEF Queues
          <5>2. /\ r \in Ring(WNode) /\ Lists(WNode, r, MtxHeads, L)
                /\ AllSorted(tskpri, r, MtxHeads)
            BY <1>2, <1>8, <4>1 DEF Queues
          <5>3. AllSorted(tskpri, UnlinkToSelf(r, t), MtxHeads)
            BY <1>2, <5>1, <5>2, MtxNodes, AllSortedLeave
          <5>4. QED
            BY <4>1, <4>2, <4>3, <5>3
        <4>4. CASE ~InQueue(wlink, t)
          BY <1>8, <4>1, <4>2, <4>4
        <4>5. QED
          BY <4>3, <4>4
      <3>5. QED
        BY <1>7, <2>1, <3>2, <3>3, <3>4
    <2>4. QED
      BY <2>1, <2>2, <2>3
  <1>11. CASE \/ Interrupt(c) \/ tick_done(c) \/ store_ret(c) \/ sched_do_next_tsk(c)
              \/ intr_leave(c) \/ clear_flag(c)
    <2>1. UNCHANGED <<wlink, wupcnt>> /\ \A t \in Task : tskstat'[t] = "WAI" <=> tskstat[t] = "WAI"
      BY <1>3, <1>11, QuietKernel
    <2>2. Queues(MtxHeads, MtxBlockers, L)' /\ Asleep(MtxHeads, L)'
      BY <1>1, <1>2, <2>1, QueuesSame DEF MtxWaits
    <2>3. Layer'
      BY <1>2, <1>3, <1>11, LayerStep DEF Kernel, Undisturbed, Application
    <2>4. QED
      BY <1>7, <1>8, <2>1, <2>2, <2>3
  <1>12. QED
    BY <1>9, <1>10, <1>11 DEF FitStep, Kernel

\* Who reads an answer is awake.
LEMMA ReadersAwake ==
  ASSUME MtxInv, NEW c \in Cpu, FitStep(c), MtxRead(c)
  PROVE  KeepsWants
  <1>1. Layer /\ TypeOK /\ pc \in [Cpu -> PC] /\ c_tskid[c] \in Task /\ WantsType
    BY DEF MtxInv, Layer, TypeOK
  <1>2. CASE wants' = wants
    BY <1>1, <1>2 DEF KeepsWants, WantsType
  <1>3. CASE wants' # wants
    <2>1. /\ pc[c] # "user" /\ pc'[c] = "user"
          /\ wants' = [wants EXCEPT ![c_tskid[c]] = None]
      BY <1>3 DEF MtxRead, Resumes, lockHistory
    <2>2. \/ Interrupt(c) \/ tick_done(c) \/ store_ret(c) \/ sched_do_next_tsk(c)
          \/ intr_leave(c) \/ clear_flag(c)
      <3>1. ~SystemCall(c)
        BY <1>1, <2>1, CallSleepers
      <3>2. ~sched_timeout(c)
        BY <2>1 DEF sched_timeout
      <3>3. QED
        BY <3>1, <3>2 DEF FitStep, Kernel
    <2>3. tskstat[c_tskid[c]] = "RUN"
      BY <1>1, <2>1, <2>2, QuietKernel
    <2>4. QED
      BY <1>1, <2>1, <2>3 DEF KeepsWants, WantsType
  <1>4. QED
    BY <1>2, <1>3

LEMMA MtxStutter ==
  ASSUME Application(MtxBlockers), MtxInv, UNCHANGED <<vars, mtxVars, lockHistory>>
  PROVE  MtxInv'
  <1>1. UNCHANGED <<tskpri, tskstat, wlink, wupcnt, mtxlock, owner, mtxcnt>>
        /\ KeepsWants
    BY DEF vars, readyVars, tcbVars, mtxVars, lockHistory, KeepsWants, MtxInv, WantsType
  <1>2. Layer'
    BY LayerStutter DEF MtxInv
  <1>3. QED
    BY <1>1, <1>2, MtxQuiet

LEMMA MtxInvInit ==
  ASSUME Application(MtxBlockers), TasksInit, MtxInit
  PROVE  MtxInv
  <1>1. PICK L : L = [h \in MtxHeads |-> {}]
    OBVIOUS
  <1>2. Undisturbed(MtxHeads, MtxBlockers) /\ \A h \in MtxHeads : L[h] = {}
    BY <1>1, MtxNodes
  <1>3. Layer /\ Queues(MtxHeads, MtxBlockers, L) /\ Asleep(MtxHeads, L)
    BY <1>2, QueuesInit
  <1>4. AllSorted(tskpri, wlink, MtxHeads)
    <2>1. wlink \in Ring(WNode) /\ Lists(WNode, wlink, MtxHeads, L)
      BY <1>3 DEF Layer, TypeOK, Queues
    <2>2. QED
      BY <1>2, <2>1, MtxNodes, AllSortedEmpty
  <1>5. Outranks(L, mtxlock, owner, tskpri)
    BY <1>2, MtxNodes DEF Outranks
  <1>6. /\ \A m \in MtxId : mtxlock[m] = 0
        /\ mtxlock \in [MtxId -> {0, 1}] /\ owner \in [MtxId -> Task \cup {None}]
        /\ mtxcnt \in [Task -> Nat] /\ \A t \in Task : mtxcnt[t] = 0
    BY DEF MtxInit
  <1>7. Counted(mtxlock, owner, mtxcnt)
    <2>1. \A t \in Task : Held(mtxlock, owner, t) = {}
      BY <1>6 DEF Held
    <2>2. \A t \in Task : Cardinality(Held(mtxlock, owner, t)) = 0
      BY <2>1, FS_EmptySet
    <2>3. QED
      BY <1>6, <2>2 DEF Counted
  <1>8. OwnersReady /\ OwnPriority /\ WantsType
    BY <1>6 DEF OwnersReady, OwnPriority, TasksInit, MtxInit, WantsType
  <1>9. Wanted(L, wants)
    BY <1>2, MtxNodes DEF Wanted
  <1>10. QED
    BY <1>3, <1>4, <1>5, <1>7, <1>8, <1>9 DEF MtxInv, MtxWaits

LEMMA MtxInvariance == Application(MtxBlockers) /\ MtxSpec => []MtxInv
  <1> SUFFICES ASSUME Application(MtxBlockers) PROVE MtxSpec => []MtxInv
    OBVIOUS
  <1>1. TasksInit /\ MtxInit => MtxInv
    BY MtxInvInit
  <1>2. ASSUME MtxInv, NEW c \in Cpu, MtxStep(c)
        PROVE  MtxInv'
    <2>1. CASE MtxCall(c)
      BY <1>2, <2>1, MtxCallInv
    <2>2. CASE FitStep(c) /\ MtxRead(c) /\ HolderStays(c)
      <3>1. UNCHANGED <<mtxlock, owner, mtxcnt>>
        BY <2>2 DEF MtxRead, mtxVars
      <3>2. KeepsWants
        BY <1>2, <2>2, ReadersAwake
      <3>3. QED
        BY <1>2, <2>2, <3>1, <3>2, MtxFitStep
    <2>3. QED
      BY <1>2, <2>1, <2>2 DEF MtxStep
  <1>3. ASSUME MtxInv, UNCHANGED <<vars, mtxVars, lockHistory>>
        PROVE  MtxInv'
    BY <1>3, MtxStutter
  <1>4. MtxInv /\ [\E c \in Cpu : MtxStep(c)]_<<vars, mtxVars, lockHistory>> => MtxInv'
    BY <1>2, <1>3
  <1>5. QED
    BY <1>1, <1>4, PTL DEF MtxSpec

LEMMA MtxInvOrder ==
  ASSUME Application(MtxBlockers), MtxInv
  PROVE  NoInversion
  <1>1. PICK L : MtxWaits(L)
    BY DEF MtxInv
  <1>2. ASSUME NEW m \in MtxId, mtxlock[m] = 1
        PROVE  /\ \A w \in Waiters(mtx_wlink(m)) : tskpri[owner[m]] <= tskpri[w]
               /\ \E i \in DOMAIN Walk(plink, tsk_pri(tskpri[owner[m]])) :
                    Walk(plink, tsk_pri(tskpri[owner[m]]))[i] = owner[m]
    <2>1. PICK h \in MtxHeads : h = mtx_wlink(m)
      BY MtxNodes
    <2>2. h \in WNode /\ IsList(WNode, wlink, h, L[h]) /\ wlink \in Ring(WNode)
      BY <1>1, MtxNodes DEF MtxWaits, Queues, Lists, MtxInv, Layer, TypeOK
    <2>3. Waiters(h) = L[h]
      BY <2>2, WaitNodes, ListWalk DEF Waiters
    <2>4. \A w \in Waiters(mtx_wlink(m)) : tskpri[owner[m]] <= tskpri[w]
      BY <1>1, <2>1, <2>3 DEF MtxWaits, Outranks
    <2>5. PICK t \in Task, p \in Pri : t = owner[m] /\ IsReady(t) /\ p = tskpri[t]
      BY <1>2 DEF MtxInv, OwnersReady, Layer, TypeOK
    <2>6. PICK g, r, S : g = tsk_pri(p) /\ r = plink /\ S = ReadyIn(tskpri, tskstat)[g]
      OBVIOUS
    <2>7. /\ g \in PHead /\ g \in PNode /\ r \in Ring(PNode)
          /\ IsList(PNode, r, g, S) /\ t \in S
      <3>1. Lined(r, tskpri, tskstat) /\ g \in PHead /\ g \in PNode
        BY <2>6, LinedNow, ReadyNodes DEF MtxInv
      <3>2. IsList(PNode, r, g, S) /\ r \in Ring(PNode)
        BY <2>6, <3>1 DEF Lined, Lists
      <3>3. t \in S
        BY <2>5, <2>6, <3>1 DEF ReadyIn, IsReady
      <3>4. QED
        BY <3>1, <3>2, <3>3
    <2>8. PICK n, s : Thread(PNode, r, g, n, s) /\ S = Threaded(n, s)
      BY <2>7 DEF IsList
    <2>9. Walk(r, g) = [j \in 1 .. n |-> s[j]]
      BY <2>7, <2>8, ReadyNodes, ThreadWalk
    <2>10. PICK i \in 1 .. n : s[i] = t
      BY <2>7, <2>8 DEF Threaded
    <2>11. i \in DOMAIN Walk(r, g) /\ Walk(r, g)[i] = t
      BY <2>9, <2>10
    <2>12. QED
      BY <2>4, <2>5, <2>6, <2>11
  <1>3. \A t \in Task : mtxcnt[t] = 0 => tskpri[t] = itskpri[t]
    BY DEF MtxInv, OwnPriority
  <1>4. QED
    BY <1>2, <1>3 DEF NoInversion

\* The holder of a mutex is at least as urgent as everybody who waits for it,
\* over any chain of loans, hand-overs and time-outs, and is linked as ready at
\* that priority; a task that holds none has the priority it was created with
\* (kernel/sys_mtx.c:120-330).  For any number of tasks, CPUs, mutexes and
\* priorities, of an application in which no holder of a mutex sleeps.
THEOREM NobodyInverted == Application(MtxBlockers) /\ MtxSpec => []NoInversion
  <1> SUFFICES ASSUME Application(MtxBlockers) PROVE MtxSpec => []NoInversion
    OBVIOUS
  <1>1. MtxInv => NoInversion
    BY MtxInvOrder
  <1>2. QED
    BY <1>1, MtxInvariance, PTL

-----------------------------------------------------------------------------
(***************************************************************************)
(* Who believes to have locked a mutex.  On one CPU: with two, the answer  *)
(* with which tloc_mtx returns is stored over that of a time-out, which    *)
(* comes in between on the other.                                          *)
(***************************************************************************)
Owns(t, m) == mtxlock[m] = 1 /\ owner[m] = t

Believers == locked \in [Task -> SUBSET MtxId] /\ MutexOwned

\* A task in user mode has heard of all it asked for, and who sleeps for a
\* mutex is not woken by wup_tsk.
Asks ==
  /\ \A c \in Cpu : pc[c] = "user" => wants[c_tskid[c]] = None
  /\ \A t \in Task : tskstat[t] = "WAI" /\ wants[t] # None => t \in MtxBlockers

\* The answer v is E_OK only if t owns what it asked for.  It is in ret until
\* it is stored, and in eax afterwards.
Told(t, v) == v = E_OK => Owns(t, wants[t])
Storing(t) == \E c \in Cpu : pc[c] = "ret" /\ c_tskid[c] = t

Hearing(t) == wants[t] # None /\ tskstat[t] # "WAI"

Truthful ==
  /\ \A c \in Cpu : pc[c] = "ret" /\ Hearing(c_tskid[c]) => Told(c_tskid[c], ret[c])
  /\ \A t \in Task : Hearing(t) /\ ~Storing(t) => Told(t, eax[t])

MtxAnswers == Believers /\ Asks /\ Truthful

\* What a call may do to a task that does not make it.
Unmoved(u) ==
  /\ wants'[u] = wants[u] /\ eax'[u] = eax[u]
  /\ tskstat'[u] = "WAI" <=> tskstat[u] = "WAI"
Granted(u) == wants'[u] # None => tskstat'[u] # "WAI" /\ Owns(u, wants[u])'

LEMMA MtxCallTells ==
  ASSUME MtxInv, MtxAnswers, Cpu = {TickCpu}, NEW c \in Cpu, pc[c] = "user",
         NEW r \in Int, Return(c, r), NEW x \in Task, x = c_tskid[c],
         \A u \in Task : u # x => Unmoved(u) \/ Granted(u),
         \A u \in Task, m \in MtxId : u # x /\ Owns(u, m) => Owns(u, m)',
         wants'[x] # None => IF tskstat'[x] = "WAI" THEN x \in MtxBlockers
                             ELSE Told(x, r)',
         locked' \in [Task -> SUBSET MtxId],
         \A u \in Task : u # x => locked'[u] = locked[u],
         \A m \in locked'[x] : Owns(x, m)'
  PROVE  MtxAnswers'
  <1>1. /\ pc' = [pc EXCEPT ![c] = "ret"] /\ ret' = [ret EXCEPT ![c] = r]
        /\ c_tskid' = c_tskid
    BY DEF Return
  <1>2. pc'[c] = "ret" /\ ret'[c] = r /\ \A b \in Cpu : b = c
    BY <1>1 DEF MtxInv, Layer, TypeOK
  <1>3. \A u \in Task : ~Storing(u) /\ (Storing(u)' <=> u = x)
    BY <1>1, <1>2 DEF Storing
  <1>4. wants \in [Task -> MtxId \cup {None}]
    BY DEF MtxInv, WantsType
  <1>5. Believers'
    <2> SUFFICES ASSUME NEW u \in Task, NEW m \in locked'[u]
                 PROVE  mtxlock'[m] = 1 /\ owner'[m] = u
      BY DEF Believers, MutexOwned
    <2>1. CASE u = x
      BY <2>1 DEF Owns
    <2>2. CASE u # x
      <3>1. m \in MtxId /\ Owns(u, m)
        BY <2>2 DEF MtxAnswers, Believers, MutexOwned, Owns
      <3>2. QED
        BY <2>2, <3>1 DEF Owns
    <2>3. QED
      BY <2>1, <2>2
  <1>6. Asks'
    <2>1. \A b \in Cpu : pc'[b] # "user"
      BY <1>2
    <2>2. ASSUME NEW u \in Task, tskstat'[u] = "WAI", wants'[u] # None
          PROVE  u \in MtxBlockers
      <3>1. CASE u = x
        BY <2>2, <3>1
      <3>2. CASE u # x
        <4>1. Unmoved(u)
          BY <2>2, <3>2 DEF Granted
        <4>2. QED
          BY <2>2, <4>1 DEF Unmoved, MtxAnswers, Asks
      <3>3. QED
        BY <3>1, <3>2
    <2>3. QED
      BY <2>1, <2>2 DEF Asks, MtxBlockers
  <1>7. ASSUME NEW u \in Task, wants'[u] # None, tskstat'[u] # "WAI", u # x
        PROVE  Told(u, eax[u])'
    <2>1. CASE Unmoved(u)
      <3>1. Told(u, eax[u]) /\ wants[u] \in MtxId
        BY <1>3, <1>4, <1>7, <2>1 DEF Unmoved, MtxAnswers, Truthful, Hearing
      <3>2. QED
        BY <1>7, <2>1, <3>1 DEF Unmoved, Told, Owns
    <2>2. CASE Granted(u)
      BY <1>7, <2>2 DEF Granted, Told
    <2>3. QED
      BY <1>7, <2>1, <2>2
  <1>8. Truthful'
    <2>1. ASSUME NEW b \in Cpu, Hearing(c_tskid[b])'
          PROVE  Told(c_tskid[b], ret[b])'
      <3>1. ret'[b] = r /\ c_tskid'[b] = x
        BY <1>1, <1>2
      <3>2. Hearing(x)' => (r = E_OK => Owns(x, wants[x])')
        BY <3>1 DEF Told, Hearing
      <3>3. QED
        BY <2>1, <3>1, <3>2 DEF Told, Owns, Hearing
    <2>2. QED
      BY <1>3, <1>7, <2>1 DEF Truthful, Hearing
  <1>9. QED
    BY <1>5, <1>6, <1>8 DEF MtxAnswers

\* A call that changes no mutex and no other task.
LEMMA MtxPlainTells ==
  ASSUME MtxInv, MtxAnswers, Cpu = {TickCpu}, NEW c \in Cpu, pc[c] = "user",
         NEW r \in Int, Return(c, r), UNCHANGED <<tskstat, eax, mtxlock, owner, wants>>,
         \/ locked' = locked
         \/ \E m \in MtxId : locked' = [locked EXCEPT ![c_tskid[c]] = @ \ {m}]
  PROVE  MtxAnswers'
  <1>1. PICK x \in Task : x = c_tskid[c] /\ wants[x] = None
    BY Running DEF MtxInv, MtxAnswers, Asks
  <1>2. locked \in [Task -> SUBSET MtxId] /\ \A u \in Task : \A m \in locked[u] : Owns(u, m)
    BY DEF MtxAnswers, Believers, MutexOwned, Owns
  <1>3. /\ locked' \in [Task -> SUBSET MtxId]
        /\ \A u \in Task : locked'[u] \subseteq locked[u] /\ (u # x => locked'[u] = locked[u])
    BY <1>1, <1>2
  <1>4. \A u \in Task, m \in MtxId : Owns(u, m) => Owns(u, m)'
    BY DEF Owns
  <1>5. \A m \in locked'[x] : Owns(x, m)'
    BY <1>1, <1>2, <1>3, <1>4
  <1>6. \A u \in Task : Unmoved(u)
    BY DEF Unmoved
  <1>7. wants'[x] = None
    BY <1>1
  <1>8. QED
    BY <1>1, <1>3, <1>4, <1>5, <1>6, <1>7, MtxCallTells

LEMMA MtxTakenTells ==
  ASSUME MtxInv, MtxAnswers, Cpu = {TickCpu}, NEW c \in Cpu, pc[c] = "user",
         NEW m \in MtxId, LockFree(c, m)
  PROVE  MtxAnswers'
  <1>1. PICK x \in Task : x = c_tskid[c] /\ tskstat[x] = "RUN"
    BY Running DEF MtxInv
  <1>2. /\ mtxlock \in [MtxId -> {0, 1}] /\ owner \in [MtxId -> Task \cup {None}]
        /\ wants \in [Task -> MtxId \cup {None}]
    BY DEF MtxInv, Counted, WantsType
  <1>3. /\ mtxlock[m] = 0 /\ mtxlock' = [mtxlock EXCEPT ![m] = 1]
        /\ owner' = [owner EXCEPT ![m] = x] /\ wants' = [wants EXCEPT ![x] = m]
        /\ locked' = locked /\ tskstat' = tskstat /\ eax' = eax
    BY <1>1 DEF LockFree, GiveTo, Reply, readyVars
  <1>4. PICK r \in Int : r = E_OK /\ Return(c, r)
    BY Codes DEF LockFree, Reply
  <1>5. \A u \in Task, n \in MtxId : Owns(u, n) => Owns(u, n)'
    BY <1>2, <1>3 DEF Owns
  <1>6. Owns(x, m)' /\ wants'[x] = m
    BY <1>2, <1>3 DEF Owns
  <1>7. \A u \in Task : u # x => Unmoved(u)
    BY <1>2, <1>3 DEF Unmoved
  <1>8. /\ locked' \in [Task -> SUBSET MtxId] /\ \A n \in locked'[x] : Owns(x, n)'
    <2>1. /\ locked \in [Task -> SUBSET MtxId] /\ \A n \in locked[x] : Owns(x, n)
      BY DEF MtxAnswers, Believers, MutexOwned, Owns
    <2>2. QED
      BY <1>3, <1>5, <2>1
  <1>9. Told(x, r)' /\ tskstat'[x] # "WAI"
    BY <1>1, <1>3, <1>6 DEF Told, Owns
  <1>10. QED
    BY <1>1, <1>3, <1>4, <1>5, <1>7, <1>8, <1>9, MtxCallTells

LEMMA MtxWaitedTells ==
  ASSUME MtxInv, MtxAnswers, Cpu = {TickCpu}, NEW c \in Cpu, pc[c] = "user",
         NEW m \in MtxId, NEW tmout, c_tskid[c] \in MtxBlockers, WaitMutex(c, m, tmout)
  PROVE  MtxAnswers'
  <1>1. PICK x \in Task : x = c_tskid[c] /\ tskstat[x] = "RUN"
    BY Running DEF MtxInv
  <1>2. tskstat \in [Task -> Stat] /\ wants \in [Task -> MtxId \cup {None}]
    BY DEF MtxInv, Layer, TypeOK, WantsType
  <1>3. /\ tskstat' = [tskstat EXCEPT ![x] = "WAI"] /\ wants' = [wants EXCEPT ![x] = m]
        /\ UNCHANGED <<eax, mtxlock, owner, locked>>
    BY <1>1 DEF WaitMutex, mtxVars
  <1>4. PICK r \in Int : Return(c, r)
    BY Codes DEF WaitMutex
  <1>5. \A u \in Task, n \in MtxId : Owns(u, n) => Owns(u, n)'
    BY <1>3 DEF Owns
  <1>6. \A u \in Task : u # x => Unmoved(u)
    BY <1>2, <1>3 DEF Unmoved
  <1>7. /\ locked' \in [Task -> SUBSET MtxId] /\ \A n \in locked'[x] : Owns(x, n)'
    <2>1. /\ locked \in [Task -> SUBSET MtxId] /\ \A n \in locked[x] : Owns(x, n)
      BY DEF MtxAnswers, Believers, MutexOwned, Owns
    <2>2. QED
      BY <1>3, <1>5, <2>1
  <1>8. tskstat'[x] = "WAI" /\ x \in MtxBlockers
    BY <1>1, <1>2, <1>3
  <1>9. QED
    BY <1>1, <1>3, <1>4, <1>5, <1>6, <1>7, <1>8, MtxCallTells

LEMMA MtxFreedTells ==
  ASSUME MtxInv, MtxAnswers, Cpu = {TickCpu}, NEW c \in Cpu, pc[c] = "user",
         NEW m \in MtxId, mtxlock[m] # 0, owner[m] = c_tskid[c],
         mtxlock' = [mtxlock EXCEPT ![m] = 0], UNCHANGED <<owner, tskstat, eax, wants>>,
         Return(c, E_OK), locked' = [locked EXCEPT ![c_tskid[c]] = @ \ {m}]
  PROVE  MtxAnswers'
  <1>1. PICK x \in Task : x = c_tskid[c] /\ wants[x] = None
    BY Running DEF MtxInv, MtxAnswers, Asks
  <1>2. /\ mtxlock \in [MtxId -> {0, 1}] /\ locked \in [Task -> SUBSET MtxId]
        /\ \A n \in locked[x] : Owns(x, n)
    BY DEF MtxInv, Counted, MtxAnswers, Believers, MutexOwned, Owns
  <1>3. /\ locked' \in [Task -> SUBSET MtxId] /\ locked'[x] = locked[x] \ {m}
        /\ \A u \in Task : u # x => locked'[u] = locked[u]
    BY <1>1, <1>2
  <1>4. \A u \in Task, n \in MtxId : u # x /\ Owns(u, n) => Owns(u, n)'
    BY <1>1, <1>2 DEF Owns
  <1>5. \A n \in locked'[x] : Owns(x, n)'
    <2> SUFFICES ASSUME NEW n \in locked'[x] PROVE Owns(x, n)'
      OBVIOUS
    <2>1. n \in MtxId /\ n # m /\ Owns(x, n)
      BY <1>2, <1>3
    <2>2. QED
      BY <1>2, <2>1 DEF Owns
  <1>6. \A u \in Task : Unmoved(u)
    BY DEF Unmoved
  <1>7. wants'[x] = None
    BY <1>1
  <1>8. PICK r \in Int : Return(c, r)
    BY Codes
  <1>9. QED
    BY <1>1, <1>3, <1>4, <1>5, <1>6, <1>7, <1>8, MtxCallTells

\* The first waiter is told that it owns the mutex that it asked for.
LEMMA MtxHandedTells ==
  ASSUME Application(MtxBlockers), MtxInv, MtxAnswers, Cpu = {TickCpu}, NEW c \in Cpu,
         pc[c] = "user", NEW m \in MtxId, NEW t, mtxlock[m] # 0, owner[m] = c_tskid[c],
         t = wlink.next[mtx_wlink(m)], t # mtx_wlink(m), HandMutex(c, m, t), Return(c, E_OK),
         wants' = wants, locked' = [locked EXCEPT ![c_tskid[c]] = @ \ {m}]
  PROVE  MtxAnswers'
  <1>1. PICK x \in Task : x = c_tskid[c] /\ wants[x] = None /\ tskstat[x] = "RUN"
    BY Running DEF MtxInv, MtxAnswers, Asks
  <1>2. PICK L : MtxWaits(L)
    BY DEF MtxInv
  <1>3. PICK h \in MtxHeads : h = mtx_wlink(m)
    BY MtxNodes
  <1>4. t \in L[h] /\ t \in Task /\ tskstat[t] = "WAI" /\ wants[t] = m
    <2>1. Queues(MtxHeads, MtxBlockers, L) /\ Undisturbed(MtxHeads, MtxBlockers)
      BY <1>2, MtxFacts
    <2>2. t \in L[h]
      BY <1>3, <2>1, QueueFirst DEF MtxInv
    <2>3. t \in Task /\ tskstat[t] = "WAI"
      BY <1>2, <2>2, MtxFacts
    <2>4. QED
      BY <1>2, <1>3, <2>2, <2>3 DEF MtxWaits, Wanted
  <1>5. /\ mtxlock \in [MtxId -> {0, 1}] /\ owner \in [MtxId -> Task \cup {None}]
        /\ tskstat \in [Task -> Stat] /\ eax \in [Task -> Int]
        /\ locked \in [Task -> SUBSET MtxId] /\ \A n \in locked[x] : Owns(x, n)
    BY DEF MtxInv, Counted, Layer, TypeOK, MtxAnswers, Believers, MutexOwned, Owns
  <1>6. /\ mtxlock' = [mtxlock EXCEPT ![m] = 1] /\ owner' = [owner EXCEPT ![m] = t]
        /\ tskstat' = [tskstat EXCEPT ![t] = "RDY"] /\ eax' = [eax EXCEPT ![t] = E_OK]
    BY DEF HandMutex, GiveTo, Ready, Kernel0
  <1>7. /\ locked' \in [Task -> SUBSET MtxId] /\ locked'[x] = locked[x] \ {m}
        /\ \A u \in Task : u # x => locked'[u] = locked[u]
    BY <1>1, <1>5
  <1>8. \A u \in Task, n \in MtxId : u # x /\ Owns(u, n) => Owns(u, n)'
    BY <1>1, <1>5, <1>6 DEF Owns
  <1>9. \A n \in locked'[x] : Owns(x, n)'
    <2> SUFFICES ASSUME NEW n \in locked'[x] PROVE Owns(x, n)'
      OBVIOUS
    <2>1. n \in MtxId /\ n # m /\ Owns(x, n)
      BY <1>5, <1>7
    <2>2. QED
      BY <1>5, <1>6, <2>1 DEF Owns
  <1>10. \A u \in Task : u # t => Unmoved(u)
    BY <1>5, <1>6 DEF Unmoved
  <1>11. Granted(t)
    BY <1>4, <1>5, <1>6 DEF Granted, Owns
  <1>12. wants'[x] = None
    BY <1>1
  <1>13. PICK r \in Int : Return(c, r)
    BY Codes
  <1>14. QED
    BY <1>1, <1>7, <1>8, <1>9, <1>10, <1>11, <1>12, <1>13, MtxCallTells

LEMMA MtxCallAnswers ==
  ASSUME Application(MtxBlockers), MtxInv, MtxAnswers, Cpu = {TickCpu}, NEW c \in Cpu,
         MtxCall(c)
  PROVE  MtxAnswers'
  <1>1. /\ E_OK \in Int /\ E_NOEXS \in Int /\ E_ILUSE \in Int /\ E_TMOUT \in Int
        /\ E_OBJ \in Int /\ E_NOID \in Int /\ \A m \in MtxId : m \in Int
    BY Codes, MtxNodes DEF E_ILUSE
  <1>2. ASSUME NEW v \in Int, pc[c] = "user", Reply(c, v), UNCHANGED <<mtxlock, owner, wants>>,
               \/ locked' = locked
               \/ \E m \in MtxId : locked' = [locked EXCEPT ![c_tskid[c]] = @ \ {m}]
        PROVE  MtxAnswers'
    <2>1. Return(c, v) /\ UNCHANGED <<tskstat, eax>>
      BY <1>2 DEF Reply, readyVars
    <2>2. QED
      BY <1>2, <2>1, MtxPlainTells
  <1>3. ASSUME acre_mtx(c)
        PROVE  MtxAnswers'
    <2>1. /\ pc[c] = "user" /\ UNCHANGED <<mtxlock, owner, wants, locked>>
          /\ Reply(c, E_NOID) \/ \E m \in MtxId : Reply(c, m)
      BY <1>3 DEF acre_mtx, Trap, lockHistory, RefuseMtx, mtxVars, sys_cre_mtx
    <2>2. QED
      BY <1>1, <1>2, <2>1
  <1>4. ASSUME NEW m \in MtxId, cre_mtx(c, m)
        PROVE  MtxAnswers'
    <2>1. /\ pc[c] = "user" /\ UNCHANGED <<mtxlock, owner, wants, locked>>
          /\ Reply(c, E_OBJ) \/ Reply(c, E_OK)
      BY <1>4 DEF cre_mtx, Trap, lockHistory, RefuseMtx, mtxVars, sys_cre_mtx
    <2>2. QED
      BY <1>1, <1>2, <2>1
  <1>5. ASSUME NEW m \in MtxId, del_mtx(c, m)
        PROVE  MtxAnswers'
    <2>1. /\ pc[c] = "user" /\ UNCHANGED <<mtxlock, owner, wants, locked>>
          /\ ~InQueue(wlink, mtx_wlink(m))
          /\ Reply(c, E_NOEXS) \/ (ReleaseInPlace(mtx_wlink(m)) /\ Return(c, E_OK))
      BY <1>5 DEF del_mtx, Trap, lockHistory, RefuseMtx, mtxVars
    <2>2. CASE ReleaseInPlace(mtx_wlink(m)) /\ Return(c, E_OK)
      <3>1. PICK k : Wakes(k, {}) /\ k.tskstat = tskstat /\ k.eax = eax
        BY <2>1, <2>2, NobodyReleased
      <3>2. UNCHANGED <<tskstat, eax>>
        BY <3>1 DEF Wakes, Commit
      <3>3. PICK r \in Int : Return(c, r)
        BY <1>1, <2>2
      <3>4. QED
        BY <2>1, <3>2, <3>3, MtxPlainTells
    <2>3. QED
      BY <1>1, <1>2, <2>1, <2>2
  <1>6. ASSUME NEW m \in MtxId, tloc_mtx(c, m)
        PROVE  MtxAnswers'
    <2>1. PICK tmout \in TmoOf(c, m, "tloc_mtx", "loc_mtx", "ploc_mtx") :
            /\ Trap(c, "tloc_mtx", m) \/ Trap(c, "loc_mtx", m) \/ Trap(c, "ploc_mtx", m)
            /\ \/ /\ RefuseMtx(c, E_NOEXS) \/ RefuseMtx(c, E_ILUSE) \/ RefuseMtx(c, E_TMOUT)
                  /\ UNCHANGED lockHistory
               \/ LockFree(c, m)
               \/ tmout # 0 /\ WaitMutex(c, m, tmout)
      BY <1>6 DEF tloc_mtx
    <2>2. pc[c] = "user"
      BY <2>1 DEF Trap
    <2>3. CASE /\ RefuseMtx(c, E_NOEXS) \/ RefuseMtx(c, E_ILUSE) \/ RefuseMtx(c, E_TMOUT)
               /\ UNCHANGED lockHistory
      <3>1. /\ UNCHANGED <<mtxlock, owner, wants, locked>>
            /\ Reply(c, E_NOEXS) \/ Reply(c, E_ILUSE) \/ Reply(c, E_TMOUT)
        BY <2>3 DEF RefuseMtx, mtxVars, lockHistory
      <3>2. QED
        BY <1>1, <1>2, <2>2, <3>1
    <2>4. CASE LockFree(c, m)
      BY <1>6, <2>2, <2>4, MtxTakenTells
    <2>5. CASE tmout # 0 /\ WaitMutex(c, m, tmout)
      <3>1. c_tskid[c] \in Task
        BY <2>2, Running DEF MtxInv
      <3>2. c_tskid[c] \in MtxBlockers
        BY <2>1, <2>5, <3>1 DEF TmoOf, MtxBlockers
      <3>3. QED
        BY <1>6, <2>2, <2>5, <3>2, MtxWaitedTells
    <2>6. QED
      BY <2>1, <2>3, <2>4, <2>5
  <1>7. ASSUME NEW m \in MtxId, unl_mtx(c, m)
        PROVE  MtxAnswers'
    <2>1. PICK t : t = wlink.next[mtx_wlink(m)]
      OBVIOUS
    <2>2. pc[c] = "user" /\ wants' = wants /\ locked' = [locked EXCEPT ![c_tskid[c]] = @ \ {m}]
      BY <1>7 DEF unl_mtx, Trap
    <2>3. \/ RefuseMtx(c, E_NOEXS) \/ RefuseMtx(c, E_ILUSE)
          \/ /\ mtxlock[m] # 0 /\ owner[m] = c_tskid[c]
             /\ \/ t # mtx_wlink(m) /\ HandMutex(c, m, t)
                \/ /\ t = mtx_wlink(m)
                   /\ mtxlock' = [mtxlock EXCEPT ![m] = 0]
                   /\ UNCHANGED <<owner, tskstat, eax>>
             /\ Return(c, E_OK)
      BY <1>7, <2>1 DEF unl_mtx
    <2>4. CASE RefuseMtx(c, E_NOEXS) \/ RefuseMtx(c, E_ILUSE)
      <3>1. /\ UNCHANGED <<mtxlock, owner>>
            /\ Reply(c, E_NOEXS) \/ Reply(c, E_ILUSE)
        BY <2>4 DEF RefuseMtx, mtxVars
      <3>2. \E n \in MtxId : locked' = [locked EXCEPT ![c_tskid[c]] = @ \ {n}]
        BY <1>7, <2>2
      <3>3. QED
        BY <1>1, <1>2, <2>2, <3>1, <3>2
    <2>5. CASE /\ mtxlock[m] # 0 /\ owner[m] = c_tskid[c] /\ Return(c, E_OK)
               /\ t # mtx_wlink(m) /\ HandMutex(c, m, t)
      BY <1>7, <2>1, <2>2, <2>5, MtxHandedTells
    <2>6. CASE /\ mtxlock[m] # 0 /\ owner[m] = c_tskid[c] /\ Return(c, E_OK)
               /\ mtxlock' = [mtxlock EXCEPT ![m] = 0] /\ UNCHANGED <<owner, tskstat, eax>>
      BY <1>7, <2>2, <2>6, MtxFreedTells
    <2>7. QED
      BY <2>3, <2>4, <2>5, <2>6
  <1>8. QED
    BY <1>3, <1>4, <1>5, <1>6, <1>7 DEF MtxCall

\* A call of the task layer answers with some number and gives nobody else one.
LEMMA CallReplies ==
  ASSUME Layer, NEW c \in Cpu, SystemCall(c)
  PROVE  eax' = eax /\ \E r \in Int : Return(c, r)
  <1>1. \A u \in Task : wupcnt[u] \in Int
    BY CountAssumption DEF Layer, TypeOK
  <1>2. CASE slp_tsk(c) \/ tslp_tsk(c) \/ dly_tsk(c)
    BY <1>2, Codes DEF slp_tsk, tslp_tsk, dly_tsk
  <1>3. ASSUME NEW u \in Task, wup_tsk(c, u) \/ can_wup(c, u) \/ act_tsk(c, u)
        PROVE  eax' = eax /\ \E r \in Int : Return(c, r)
    <2>1. eax' = eax
      BY <1>3 DEF wup_tsk, can_wup, act_tsk
    <2>2. \/ Return(c, E_QOVR) \/ Return(c, E_OK) \/ Return(c, E_NOEXS) \/ Return(c, E_OBJ)
          \/ Return(c, wupcnt[u])
      BY <1>3 DEF wup_tsk, can_wup, act_tsk, QueueWakeup, WakeUp, RefuseWakeup
    <2>3. QED
      BY <1>1, <2>1, <2>2, Codes
  <1>4. QED
    BY <1>2, <1>3 DEF SystemCall

LEMMA MtxSystemTells ==
  ASSUME Application(MtxBlockers), MtxInv, MtxAnswers, Cpu = {TickCpu}, NEW c \in Cpu,
         SystemCall(c), MtxRead(c)
  PROVE  MtxAnswers'
  <1>1. /\ pc[c] = "user" /\ pc' = [pc EXCEPT ![c] = "ret"]
        /\ \A t \in Task : tskstat'[t] = "WAI" => tskstat[t] = "WAI" \/ t = c_tskid[c]
        /\ \A t \in Task : tskstat[t] = "WAI" =>
             \/ tskstat'[t] = "WAI" \/ t = c_tskid[c]
             \/ Issues(c_tskid[c], "wup_tsk", t)
    BY CallSleepers DEF MtxInv, Layer
  <1>2. PICK x \in Task : x = c_tskid[c] /\ wants[x] = None
    BY <1>1, Running DEF MtxInv, MtxAnswers, Asks
  <1>3. UNCHANGED <<mtxlock, owner, wants, locked>>
    BY <1>1 DEF MtxRead, Resumes, mtxVars, lockHistory
  <1>4. eax' = eax /\ \E r \in Int : Return(c, r)
    BY CallReplies DEF MtxInv
  <1>5. ASSUME NEW u \in Task, u # x
        PROVE  Unmoved(u) \/ Granted(u)
    <2>1. CASE wants[u] = None
      BY <1>3, <2>1 DEF Granted
    <2>2. CASE wants[u] # None
      <3>1. tskstat[u] = "WAI" => ~Issues(x, "wup_tsk", u)
        BY <2>2 DEF MtxAnswers, Asks, Application
      <3>2. QED
        BY <1>1, <1>2, <1>3, <1>4, <1>5, <3>1 DEF Unmoved
    <2>3. QED
      BY <2>1, <2>2
  <1>6. /\ locked' \in [Task -> SUBSET MtxId] /\ \A m \in locked'[x] : Owns(x, m)'
    BY <1>3 DEF MtxAnswers, Believers, MutexOwned, Owns
  <1>7. \A u \in Task, m \in MtxId : Owns(u, m) => Owns(u, m)'
    BY <1>3 DEF Owns
  <1>8. PICK r \in Int : Return(c, r)
    BY <1>4
  <1>9. wants'[x] = None
    BY <1>2, <1>3
  <1>10. QED
    BY <1>1, <1>2, <1>3, <1>5, <1>6, <1>7, <1>8, <1>9, MtxCallTells

\* Steps in which nobody asks, and no mutex changes its owner.
LEMMA MtxQuietTells ==
  ASSUME MtxInv, MtxAnswers, NEW c \in Cpu, UNCHANGED <<mtxlock, owner, wants, locked>>,
         \A b \in Cpu : pc'[b] # "user",
         \A t \in Task : tskstat'[t] = "WAI" => tskstat[t] = "WAI",
         Truthful'
  PROVE  MtxAnswers'
  <1>1. Believers'
    BY DEF MtxAnswers, Believers, MutexOwned
  <1>2. Asks'
    BY DEF MtxAnswers, Asks, MtxBlockers
  <1>3. QED
    BY <1>1, <1>2 DEF MtxAnswers

LEMMA MtxTimeoutTells ==
  ASSUME MtxInv, MtxAnswers, Cpu = {TickCpu}, NEW c \in Cpu, sched_timeout(c), MtxRead(c)
  PROVE  MtxAnswers'
  <1>1. pc[c] = "tick" /\ UNCHANGED <<pc, c_tskid, ret>> /\ \A b \in Cpu : b = c
    BY DEF sched_timeout
  <1>2. UNCHANGED <<mtxlock, owner, wants, locked>>
    BY <1>1 DEF MtxRead, Resumes, mtxVars, lockHistory
  <1>3. PICK t \in Task : t = FirstTimeout
    BY TimeoutTask DEF MtxInv
  <1>4. \/ UNCHANGED <<tskstat, eax>>
        \/ /\ tskstat[t] = "WAI" /\ tskstat' = [tskstat EXCEPT ![t] = "RDY"]
           /\ eax' = [eax EXCEPT ![t] = E_TMOUT]
    BY <1>3 DEF sched_timeout, TimeOutTask
  <1>5. tskstat \in [Task -> Stat] /\ eax \in [Task -> Int] /\ E_TMOUT # E_OK
    BY DEF MtxInv, Layer, TypeOK, E_TMOUT, E_OK
  <1>6. ASSUME NEW u \in Task, wants[u] # None, tskstat'[u] # "WAI"
        PROVE  Told(u, eax[u])'
    <2>1. CASE tskstat[u] # "WAI"
      <3>1. Told(u, eax[u]) /\ eax'[u] = eax[u]
        BY <1>1, <1>4, <1>5, <1>6, <2>1 DEF MtxAnswers, Truthful, Hearing, Storing
      <3>2. QED
        BY <1>2, <3>1 DEF Told, Owns
    <2>2. CASE tskstat[u] = "WAI"
      <3>1. eax'[u] = E_TMOUT
        BY <1>4, <1>5, <1>6, <2>2
      <3>2. QED
        BY <1>5, <3>1 DEF Told
    <2>3. QED
      BY <2>1, <2>2
  <1>7. Truthful'
    BY <1>1, <1>2, <1>6 DEF Truthful, Hearing
  <1>8. \A u \in Task : tskstat'[u] = "WAI" => tskstat[u] = "WAI"
    BY <1>4, <1>5
  <1>9. QED
    BY <1>1, <1>2, <1>7, <1>8, MtxQuietTells

LEMMA MtxStoreTells ==
  ASSUME MtxInv, MtxAnswers, Cpu = {TickCpu}, NEW c \in Cpu, store_ret(c), MtxRead(c)
  PROVE  MtxAnswers'
  <1>1. /\ pc[c] = "ret" /\ pc' = [pc EXCEPT ![c] = "leave"]
        /\ eax' = [eax EXCEPT ![c_tskid[c]] = ret[c]]
        /\ UNCHANGED <<c_tskid, tskstat>>
    BY DEF store_ret, readyVars
  <1>2. PICK x \in Task : x = c_tskid[c]
    BY DEF MtxInv, Layer, TypeOK
  <1>3. eax \in [Task -> Int] /\ pc'[c] = "leave" /\ \A b \in Cpu : b = c
    BY <1>1 DEF MtxInv, Layer, TypeOK
  <1>4. UNCHANGED <<mtxlock, owner, wants, locked>>
    BY <1>3 DEF MtxRead, Resumes, mtxVars, lockHistory
  <1>5. ASSUME NEW u \in Task, wants[u] # None, tskstat[u] # "WAI"
        PROVE  Told(u, eax[u])'
    <2>1. CASE u = x
      <3>1. Told(x, ret[c])
        BY <1>1, <1>2, <1>5, <2>1 DEF MtxAnswers, Truthful, Hearing
      <3>2. eax'[u] = ret[c]
        BY <1>1, <1>2, <1>3, <2>1
      <3>3. QED
        BY <1>4, <2>1, <3>1, <3>2 DEF Told, Owns
    <2>2. CASE u # x
      <3>1. ~Storing(u) /\ eax'[u] = eax[u]
        BY <1>1, <1>2, <1>3, <2>2 DEF Storing
      <3>2. Told(u, eax[u])
        BY <1>5, <3>1 DEF MtxAnswers, Truthful, Hearing
      <3>3. QED
        BY <1>4, <3>1, <3>2 DEF Told, Owns
    <2>3. QED
      BY <2>1, <2>2
  <1>6. Truthful'
    BY <1>1, <1>3, <1>4, <1>5 DEF Truthful, Hearing
  <1>7. (\A b \in Cpu : pc'[b] # "user") /\ \A u \in Task : tskstat'[u] = tskstat[u]
    BY <1>1, <1>3
  <1>8. QED
    BY <1>4, <1>6, <1>7, MtxQuietTells

\* The task that resumes believes what it is told, and asks for nothing now.
LEMMA MtxResumeTells ==
  ASSUME MtxInv, MtxAnswers, Cpu = {TickCpu}, NEW c \in Cpu,
         intr_leave(c) \/ clear_flag(c), MtxRead(c)
  PROVE  MtxAnswers'
  <1>1. /\ pc[c] \in {"leave", "clear"} /\ pc' = [pc EXCEPT ![c] = "user"]
        /\ eax' = [eax EXCEPT ![c_tskid[c]] = Popped]
        /\ UNCHANGED <<c_tskid, tskstat>>
    BY DEF intr_leave, clear_flag, Resume, readyVars
  <1>2. PICK x \in Task : x = c_tskid[c]
    BY DEF MtxInv, Layer, TypeOK
  <1>3. /\ eax \in [Task -> Int] /\ pc'[c] = "user" /\ \A b \in Cpu : b = c
        /\ wants \in [Task -> MtxId \cup {None}] /\ locked \in [Task -> SUBSET MtxId]
        /\ MutexOwned
    BY <1>1 DEF MtxInv, Layer, TypeOK, WantsType, MtxAnswers, Believers
  <1>4. tskstat[x] = "RUN" /\ ~Storing(x)
    <2>1. tskstat[x] = "RUN"
      BY <1>1, <1>2, <1>3, QuietKernel DEF MtxInv
    <2>2. QED
      BY <1>1, <1>2, <1>3, <2>1 DEF Storing
  <1>5. UNCHANGED <<mtxlock, owner>>
    BY DEF MtxRead, mtxVars
  <1>6. /\ wants'[x] = None /\ \A u \in Task : u # x => wants'[u] = wants[u]
        /\ \/ locked' = locked
           \/ /\ wants[x] \in MtxId /\ eax[x] = E_OK
              /\ locked' = [locked EXCEPT ![x] = @ \cup {wants[x]}]
    <2>1. CASE wants[x] = None
      BY <1>1, <1>2, <1>3, <2>1 DEF MtxRead, Resumes, lockHistory
    <2>2. CASE wants[x] # None
      <3>1. /\ locked' = [locked EXCEPT ![x] = IF eax[x] = E_OK THEN @ \cup {wants[x]} ELSE @]
            /\ wants' = [wants EXCEPT ![x] = None]
        BY <1>1, <1>2, <1>3, <2>2 DEF MtxRead, Resumes
      <3>2. wants[x] \in MtxId
        BY <1>3, <2>2
      <3>3. QED
        BY <1>3, <3>1, <3>2
    <2>3. QED
      BY <2>1, <2>2
  <1>7. Believers'
    <2>1. CASE locked' = locked
      BY <1>3, <1>5, <2>1 DEF Believers, MutexOwned
    <2>2. CASE /\ wants[x] \in MtxId /\ eax[x] = E_OK
               /\ locked' = [locked EXCEPT ![x] = @ \cup {wants[x]}]
      <3>1. Owns(x, wants[x])
        <4>1. wants[x] # None
          BY <2>2, MtxAssumption DEF None
        <4>2. QED
          BY <1>4, <2>2, <4>1 DEF MtxAnswers, Truthful, Hearing, Told
      <3>2. locked' \in [Task -> SUBSET MtxId]
        BY <1>3, <2>2
      <3>3. \A u \in Task : \A m \in locked'[u] :
              m \in locked[u] \/ (u = x /\ m = wants[x])
        BY <1>3, <2>2
      <3>4. QED
        BY <1>3, <1>5, <3>1, <3>2, <3>3 DEF Believers, MutexOwned, Owns
    <2>3. QED
      BY <1>6, <2>1, <2>2
  <1>8. Asks'
    <2>1. \A b \in Cpu : wants'[c_tskid'[b]] = None
      BY <1>1, <1>2, <1>3, <1>6
    <2>2. \A u \in Task : tskstat'[u] = "WAI" /\ wants'[u] # None => u \in MtxBlockers
      BY <1>1, <1>6 DEF MtxAnswers, Asks
    <2>3. QED
      BY <2>1, <2>2 DEF Asks, MtxBlockers
  <1>9. ASSUME NEW u \in Task, wants'[u] # None, tskstat[u] # "WAI"
        PROVE  Told(u, eax[u])'
    <2>1. u # x /\ ~Storing(u)
      BY <1>1, <1>3, <1>6, <1>9 DEF Storing
    <2>2. Told(u, eax[u]) /\ eax'[u] = eax[u] /\ wants'[u] = wants[u]
      BY <1>1, <1>2, <1>3, <1>6, <1>9, <2>1 DEF MtxAnswers, Truthful, Hearing
    <2>3. QED
      BY <1>5, <2>2 DEF Told, Owns
  <1>10. Truthful'
    BY <1>1, <1>3, <1>9 DEF Truthful, Hearing
  <1>11. QED
    BY <1>7, <1>8, <1>10 DEF MtxAnswers

LEMMA MtxTickTells ==
  ASSUME MtxInv, MtxAnswers, Cpu = {TickCpu}, NEW c \in Cpu,
         Interrupt(c) \/ tick_done(c) \/ sched_do_next_tsk(c), MtxRead(c)
  PROVE  MtxAnswers'
  <1>1. /\ pc[c] # "ret" /\ eax' = eax
        /\ \E p \in {"leave", "tick", "clear"} : pc' = [pc EXCEPT ![c] = p]
    BY DEF Interrupt, irq0, apic_timer, tick_done, sched_do_next_tsk
  <1>2. pc'[c] # "ret" /\ pc'[c] # "user" /\ \A b \in Cpu : b = c
    BY <1>1 DEF MtxInv, Layer, TypeOK
  <1>3. UNCHANGED <<mtxlock, owner, wants, locked>>
    BY <1>2 DEF MtxRead, Resumes, mtxVars, lockHistory
  <1>4. \A t \in Task : tskstat'[t] = "WAI" <=> tskstat[t] = "WAI"
    BY QuietKernel DEF MtxInv
  <1>5. \A u \in Task : wants[u] # None /\ tskstat'[u] # "WAI" => Told(u, eax[u])'
    <2> SUFFICES ASSUME NEW u \in Task, wants[u] # None, tskstat'[u] # "WAI"
                 PROVE  Told(u, eax[u])'
      OBVIOUS
    <2>1. Told(u, eax[u])
      BY <1>1, <1>2, <1>4 DEF MtxAnswers, Truthful, Hearing, Storing
    <2>2. QED
      BY <1>1, <1>3, <2>1 DEF Told, Owns
  <1>6. Truthful'
    BY <1>2, <1>3, <1>5 DEF Truthful, Hearing
  <1>7. QED
    BY <1>2, <1>3, <1>4, <1>6, MtxQuietTells

\* No two tasks believe to hold a mutex, and who believes so is its owner: no
\* answer of a time-out or a refusal is taken for a lock, and none overwrites
\* that of a hand-over (kernel/sys_mtx.c:85-170).  On one CPU, for any number
\* of tasks and mutexes, of an application in which no holder sleeps.
THEOREM LocksAreOwned ==
  Application(MtxBlockers) /\ Cpu = {TickCpu} /\ MtxSpec => []MutexOwned
  <1> SUFFICES ASSUME Application(MtxBlockers), Cpu = {TickCpu}
               PROVE  MtxSpec => []MutexOwned
    OBVIOUS
  <1>1. TasksInit /\ MtxInit => MtxAnswers
    <2> SUFFICES ASSUME TasksInit, MtxInit PROVE MtxAnswers
      OBVIOUS
    <2>1. /\ \A t \in Task : locked[t] = {} /\ wants[t] = None
          /\ locked \in [Task -> SUBSET MtxId]
      BY DEF MtxInit
    <2>2. \A c \in Cpu : c_tskid[c] \in Task
      BY MtxInvInit DEF MtxInv, Layer, TypeOK
    <2>3. QED
      BY <2>1, <2>2 DEF MtxAnswers, Believers, MutexOwned, Asks, Truthful, Hearing
  <1>2. ASSUME MtxInv, MtxAnswers, NEW c \in Cpu, MtxStep(c)
        PROVE  MtxAnswers'
    <2>1. CASE MtxCall(c)
      BY <1>2, <2>1, MtxCallAnswers
    <2>2. CASE SystemCall(c) /\ MtxRead(c)
      BY <1>2, <2>2, MtxSystemTells
    <2>3. CASE sched_timeout(c) /\ MtxRead(c)
      BY <1>2, <2>3, MtxTimeoutTells
    <2>4. CASE store_ret(c) /\ MtxRead(c)
      BY <1>2, <2>4, MtxStoreTells
    <2>5. CASE (intr_leave(c) \/ clear_flag(c)) /\ MtxRead(c)
      BY <1>2, <2>5, MtxResumeTells
    <2>6. CASE (Interrupt(c) \/ tick_done(c) \/ sched_do_next_tsk(c)) /\ MtxRead(c)
      BY <1>2, <2>6, MtxTickTells
    <2>7. QED
      BY <1>2, <2>1, <2>2, <2>3, <2>4, <2>5, <2>6 DEF MtxStep, FitStep, Kernel
  <1>3. ASSUME MtxAnswers, UNCHANGED <<vars, mtxVars, lockHistory>>
        PROVE  MtxAnswers'
    BY <1>3 DEF vars, readyVars, lockVars, mtxVars, lockHistory, MtxAnswers, Believers,
                MutexOwned, Asks, Truthful, Hearing, Told, Owns, Storing, MtxBlockers
  <1>4. MtxInv /\ MtxAnswers /\ [\E c \in Cpu : MtxStep(c)]_<<vars, mtxVars, lockHistory>>
          => MtxAnswers'
    BY <1>2, <1>3
  <1>5. MtxAnswers => MutexOwned
    BY DEF MtxAnswers, Believers
  <1>6. QED
    BY <1>1, <1>4, <1>5, MtxInvariance, PTL DEF MtxSpec
=============================================================================
