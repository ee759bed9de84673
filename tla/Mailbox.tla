------------------------------ MODULE Mailbox ------------------------------
(***************************************************************************)
(* Mailboxes (kernel/sys_mbx.c).  A message stays where its sender has it, *)
(* and is known by its address, four bytes, the lowest first.              *)
(*                                                                         *)
(* mprihd, the array of list heads, has the type VP, which is char *       *)
(* (include/itron.h:24, kernel/types.h:125).  So the head of a message     *)
(* priority is one byte: mbx_ins stores a whole address from this byte on, *)
(* over the heads of the next three priorities, and whatever reads a head  *)
(* gets one byte, with its sign extended to an address.                    *)
(*                                                                         *)
(* mbxout[t] is the variable that ppk_msg of task t points to: NULL from   *)
(* the call on, until an address is stored, and Unread when no receive is  *)
(* under way.                                                              *)
(***************************************************************************)
EXTENDS Waits

CONSTANTS
  MbxId,
  Mail,        \* the addresses of the messages
  msgpri,      \* priority of each message
  maxmpri,     \* T_CMBX of each mailbox
  MbxPlain,    \* the mailboxes with no attribute: TA_TFIFO, TA_MFIFO
  LowByte      \* bytes that a word in the first 131 bytes of memory may begin with

Octet == 0 .. 255
Address == [1 .. 4 -> Octet]
NULL == <<0, 0, 0, 0>>
Unread == <<>>

\* A byte where an address is wanted (char is signed).
Extended(x) == IF x < 128 THEN <<x, 0, 0, 0>> ELSE <<x, 255, 255, 255>>
\* page_init maps the first megabytes, and nothing up there.
Mapped(x) == x < 128

VARIABLES mbx_act, mprihd, mbxout

mbxVars == <<mbx_act, mprihd, mbxout>>

mbx_wlink(b) == -60 - b                               \* &mbx[b].wlink

ASSUME MbxAssumption ==
  /\ MbxId \subseteq 1 .. 9 /\ {mbx_wlink(b) : b \in MbxId} \subseteq WHead
  /\ Mail \subseteq Address \ {NULL}
  /\ maxmpri \in [MbxId -> Nat \ {0}] /\ msgpri \in [Mail -> Nat \ {0}]
  /\ \A b \in MbxId, m \in Mail : msgpri[m] <= maxmpri[b]
  /\ MbxPlain \subseteq MbxId
  /\ LowByte \subseteq Octet /\ \A m \in Mail, i \in 1 .. 4 : m[i] \in LowByte

\* Bytes behind the last level are written, but never read.
Level(b) == 1 .. maxmpri[b]
NoMail(b) == [p \in Level(b) |-> 0]

\* mbx_init
MbxInit ==
  /\ mbx_act = [b \in MbxId |-> FALSE]
  /\ mprihd = [b \in MbxId |-> NoMail(b)]
  /\ mbxout = [t \in Task |-> Unread]
-----------------------------------------------------------------------------
RefuseMbx(c, v) == Reply(c, v) /\ UNCHANGED mbxVars

sys_cre_mbx(b) ==
  /\ ~mbx_act[b]
  /\ mbx_act' = [mbx_act EXCEPT ![b] = TRUE]
  /\ mprihd' = [mprihd EXCEPT ![b] = NoMail(b)]
  /\ UNCHANGED mbxout

cre_mbx(c, b) ==
  /\ Trap(c, "cre_mbx", b)
  /\ \/ mbx_act[b] /\ RefuseMbx(c, E_OBJ)
     \/ sys_cre_mbx(b) /\ Reply(c, E_OK)

acre_mbx(c) ==
  /\ Trap(c, "acre_mbx", Cur(c))
  /\ \/ \E b \in MbxId : /\ \A a \in MbxId : a < b => mbx_act[a]
                         /\ sys_cre_mbx(b) /\ Reply(c, b)
     \/ (\A b \in MbxId : mbx_act[b]) /\ RefuseMbx(c, E_NOID)

\* (The freed array is dead; it is 0 here.)
del_mbx(c, b) ==
  /\ Trap(c, "del_mbx", b)
  /\ \/ ~mbx_act[b] /\ RefuseMbx(c, E_NOEXS)
     \/ /\ mbx_act[b]
        /\ DismissAllUntimed(<<mbx_wlink(b)>>)
        /\ mbx_act' = [mbx_act EXCEPT ![b] = FALSE]
        /\ mprihd' = [mprihd EXCEPT ![b] = NoMail(b)]
        /\ Return(c, E_OK)
        /\ UNCHANGED mbxout

\* A page fault in the kernel: c_intr_page prints, and loops with the lock held.
PageFault(c) ==
  /\ pc' = [pc EXCEPT ![c] = "spin"]
  /\ kernel_lk' = 1
  /\ UNCHANGED <<ret, woken, c_tskid, readyVars, tcbVars, wupcnt, eax, wlink,
                 timeVars, mbxVars>>

c_intr_page(c) == pc[c] = "spin" /\ UNCHANGED <<vars, mbxVars>>

(***************************************************************************)
(* mbx_ins stores the address in an empty head.  Any other head is walked  *)
(* as a list, from the address it is extended to.  There may be a zero     *)
(* word at the end of it, which links m where no head leads to it; or the  *)
(* walk leaves the memory there is; or it goes round in circles, with the  *)
(* lock held, which looks the same.                                        *)
(***************************************************************************)
MsgLevel(b, m) == IF b \in MbxPlain THEN 1 ELSE msgpri[m]

HeadsWith(b, p, m) ==
  [q \in Level(b) |-> IF q \in p .. p + 3 THEN m[q - p + 1] ELSE mprihd[b][q]]

mbx_ins(c, b, p, m) ==
  \/ /\ mprihd[b][p] = 0
     /\ mprihd' = [mprihd EXCEPT ![b] = HeadsWith(b, p, m)]
     /\ Reply(c, E_OK)
     /\ UNCHANGED <<mbx_act, mbxout>>
  \/ mprihd[b][p] # 0 /\ Mapped(mprihd[b][p]) /\ RefuseMbx(c, E_OK)
  \/ mprihd[b][p] # 0 /\ PageFault(c)

\* The first waiter is handed the message; its time-out stays armed.
snd_mbx(c, b, m) ==
  /\ Trap(c, "snd_mbx", b)
  /\ LET t == wlink.next[mbx_wlink(b)]
     IN  \/ ~mbx_act[b] /\ RefuseMbx(c, E_NOEXS)
         \/ /\ mbx_act[b] /\ t # mbx_wlink(b)
            /\ mbxout' = [mbxout EXCEPT ![t] = m]
            /\ Commit(Ready(Kernel0, t, eax[t]))
            /\ wlink' = UnlinkToSelf(wlink, t)
            /\ Return(c, E_OK)
            /\ UNCHANGED <<next_tsk_flag, tcbVars, wupcnt, mbx_act, mprihd>>
         \/ mbx_act[b] /\ t = mbx_wlink(b) /\ mbx_ins(c, b, MsgLevel(b, m), m)

\* The priorities at which a receiver finds a message.
first_only(b) == {p \in {1} : mprihd[b][p] # 0}                  \* mutant
Found(b) == {p \in Level(b) : p < maxmpri[b] /\ mprihd[b][p] # 0}

\* mbx_rem reads the next address through the one it has extended, and stores
\* its lowest byte.
mbx_rem(c, b, p) ==
  \/ /\ Mapped(mprihd[b][p])
     /\ \E x \in LowByte : mprihd' = [mprihd EXCEPT ![b][p] = x]
     /\ mbxout' = [mbxout EXCEPT ![Cur(c)] = Extended(mprihd[b][p])]
     /\ Reply(c, E_OK)
     /\ UNCHANGED mbx_act
  \/ ~Mapped(mprihd[b][p]) /\ PageFault(c)

TakeMail(c, b) == Found(b) # {} /\ mbx_rem(c, b, Min(Found(b)))

\* A receive that stores nothing.
NothingRead(c) ==
  mbxout' = [mbxout EXCEPT ![Cur(c)] = NULL] /\ UNCHANGED <<mbx_act, mprihd>>

prcv_mbx(c, b) ==
  /\ Trap(c, "prcv_mbx", b)
  /\ \/ ~mbx_act[b] /\ Reply(c, E_NOEXS) /\ NothingRead(c)
     \/ mbx_act[b] /\ TakeMail(c, b)
     \/ mbx_act[b] /\ Found(b) = {} /\ Reply(c, E_TMOUT) /\ NothingRead(c)

\* rcv_mbx is trcv_mbx with TMO_FEVR.
trcv_mbx(c, b) ==
  /\ \E call \in {"trcv_mbx", "rcv_mbx"} : Trap(c, call, b)
  /\ \/ ~mbx_act[b] /\ Reply(c, E_NOEXS) /\ NothingRead(c)
     \/ mbx_act[b] /\ TakeMail(c, b)
     \/ /\ mbx_act[b] /\ Found(b) = {}
        /\ NothingRead(c)
        /\ \E tmout \in TmoOf(c, b, "trcv_mbx", "rcv_mbx", "") :
             \/ tmout = 0 /\ Reply(c, E_TMOUT)
             \/ /\ tmout # 0
                /\ JoinAndSleep(c, wlink, mbx_wlink(b), b \notin MbxPlain, tmout)
                /\ Return(c, E_OK)

\* ref_mbx tells which message would be received next.
ref_mbx(c, b) ==
  /\ Trap(c, "ref_mbx", b)
  /\ RefuseMbx(c, IF mbx_act[b] THEN E_OK ELSE E_NOEXS)

\* The calls of the library (lib/lib_sem.c), each of which only traps.
MbxCall(c) ==
  \/ acre_mbx(c)
  \/ \E b \in MbxId :
       \/ cre_mbx(c, b) \/ del_mbx(c, b) \/ prcv_mbx(c, b) \/ trcv_mbx(c, b)
       \/ ref_mbx(c, b) \/ \E m \in Mail : snd_mbx(c, b, m)

\* The task that resumes uses what it has received.
MbxRead(c) ==
  /\ mbxout' = IF Resumes(c) THEN [mbxout EXCEPT ![Cur(c)] = Unread] ELSE mbxout
  /\ UNCHANGED <<mbx_act, mprihd>>

MbxStep(c) ==
  (MbxCall(c) /\ Fit(c)) \/ (FitStep(c) /\ MbxRead(c)) \/ c_intr_page(c)
MbxSpec == TasksInit /\ MbxInit /\ [][\E c \in Cpu : MbxStep(c)]_<<vars, mbxVars>>
-----------------------------------------------------------------------------
MbxTypeOK ==
  /\ mbx_act \in [MbxId -> BOOLEAN]
  /\ \A b \in MbxId : mprihd[b] \in [Level(b) -> Octet]
  /\ \A t \in Task : mbxout[t] \in Address \cup {Unread}

\* The receivers that sleep are exactly the tasks in the queues, through
\* hand-over, time-out, deletion and the next life of a mailbox; and nobody
\* sleeps at a mailbox in which a receive would find something (the lowest
\* level, at which none looks, apart).
Receives(t) == tskstat[t] = "WAI" /\ mbxout[t] = NULL
ReceiversExact ==
  /\ \A b \in MbxId :
       /\ HoldsExactly(wlink, mbx_wlink(b), {t \in Waiters(mbx_wlink(b)) : Receives(t)})
       /\ InQueue(wlink, mbx_wlink(b)) =>
            mbx_act[b] /\ \A p \in Level(b) : mprihd[b][p] # 0 => p = maxmpri[b]
  /\ \A t \in Task : Receives(t) => \E b \in MbxId : t \in Waiters(mbx_wlink(b))

\* A task reads E_OK from a receive exactly when something was stored through
\* its ppk_msg: by itself, or by the sender that ended its wait.
MailAnswered ==
  [][\A c \in Cpu : Resumes(c) /\ mbxout[Cur(c)] # Unread =>
       (eax[Cur(c)] = E_OK <=> mbxout[Cur(c)] # NULL)]_<<vars, mbxVars>>
=============================================================================
