----------------------------- MODULE MCObjects -----------------------------
(***************************************************************************)
(* Small instances of the data queues with their keyboard, of the message  *)
(* buffers, event flags, mailboxes, mutexes and memory pools: one CPU, the *)
(* boot task and two workers of different priorities.  An application uses *)
(* one kind of object (app, chosen once), so one run covers all of them.   *)
(***************************************************************************)
EXTENDS Keyboard, MessageBuffer, EventFlag, Mailbox, Mutex, Pools

CONSTANT Applications

VARIABLE app

OCpu == {0}
OTask == {1, 3, 4, 8}
Ofirst == [c \in OCpu |-> 1]
Opri == [t \in OTask |-> CASE t = 1 -> 2 [] t = 3 -> 1 [] t = 4 -> 3 [] OTHER -> 4]
Ohome == [t \in OTask |-> 0]
Oboot == FoldLeft(LAMBDA l, t : InsertBefore(l, -Opri[t], t),
                  SelfLinked(OTask \cup {-p : p \in 1 .. 4}), <<1, 8>>)
OHeads == {-11, -21, -31, -41, -51, -52, -53, -61, -71, -72, -81, -82}

Letters == {"a", "A"}
ThreeSlots == [q \in {1} |-> 3]
Plain == [k \in {"ka"} |-> "a"]
Shifted == [k \in {"ka"} |-> "A"]
Six == [x \in Letters |-> 6]       \* two messages of 6 + 4 bytes in 25 bytes
Wide == [m \in {1} |-> 28]
Four == [x \in Letters |-> 4]      \* two messages of 4 + 4 bytes in 17 bytes
Tight == [m \in {1} |-> 20]

Letter == <<64, 0, 1, 0>>          \* at 0x10040
Card == <<132, 0, 1, 0>>           \* at 0x10084
Note == <<0, 132, 1, 0>>           \* at 0x18400
Post == {Letter, Card, Note}
PostPri == [m \in Post |-> IF m = Card THEN 2 ELSE 1]
ThreeLevels == [b \in {1} |-> 3]
Ceilings == [m \in {1, 2} |-> 1]
TwoBlocks == [m \in {1} |-> 2]
BlockSize == [m \in {1} |-> 4]
Twelve == [m \in {2} |-> 12]
Sixteen == [m \in {2} |-> 16]

\* The boot task (1) creates, deletes and takes part; 3 writes, 4 reads.
WritersAndReaders(t, call, u) ==
  \/ t = 1 /\ call \in {"cre_dtq", "del_dtq", "cre_mbf", "del_mbf", "acre_dtq",
                        "acre_mbf", "prcv_dtq", "set_key_task", "fsnd_dtq",
                        "prcv_mbf"} /\ u = 1
  \/ t = 3 /\ call \in {"snd_dtq", "tsnd_dtq", "psnd_dtq", "snd_mbf", "psnd_mbf"} /\ u = 1
  \/ t = 4 /\ call \in {"rcv_dtq", "trcv_dtq", "rcv_mbf", "trcv_mbf", "psnd_mbf"} /\ u = 1

\* ... the urgent worker 3 waits with a time-out, the other one (4) without.
Users(t, call, u) ==
  \/ WritersAndReaders(t, call, u)
  \/ t = 1 /\ u = 1 /\ call \in {"dly_tsk", "acre_flg", "cre_mbx", "del_mbx", "acre_mbx", "snd_mbx",
       "prcv_mbx", "ref_mbx", "cre_mtx", "del_mtx", "acre_mtx", "tloc_mtx",
       "unl_mtx", "cre_mpf", "del_mpf", "acre_mpf", "rel_mpf", "pget_mpf", "acre_mpl"}
  \/ t = 1 /\ u = 2 /\ call \in {"cre_mtx", "cre_mpl", "del_mpl", "ploc_mtx", "unl_mtx"}
  \/ t = 1 /\ call = "act_tsk" /\ u \in {3, 4}
  \/ t = 1 /\ u \in FlgId /\ call \in {"cre_flg", "set_flg"}
  \/ t = 1 /\ u = 1 /\ call \in {"del_flg", "clr_flg"}
  \/ t = 3 /\ u \in {2, 3} /\ call = "twai_flg"
  \/ t = 3 /\ u = 1 /\ call = "wai_flg"
  \/ t = 4 /\ u \in FlgId /\ call = "wai_flg"
  \/ t = 4 /\ u = 3 /\ call = "pol_flg"
  \/ t = 3 /\ u = 3 /\ call = "dly_tsk"
  \/ t = 3 /\ u = 1 /\ call \in {"trcv_mbx", "tloc_mtx", "unl_mtx",
                                 "tget_mpf", "rel_mpf"}
  \/ t = 4 /\ u = 1 /\ call \in {"rcv_mbx", "snd_mbx", "loc_mtx",
                                 "unl_mtx", "get_mpf", "rel_mpf"}
  \/ t = 3 /\ u = 2 /\ call \in {"tget_mpl", "rel_mpl", "tloc_mtx", "unl_mtx"}
  \/ t = 4 /\ u = 2 /\ call \in {"get_mpl", "pget_mpl", "rel_mpl", "ploc_mtx", "unl_mtx"}

\* The boot task alone gets blocks of one pool, and releases them.
Borrower(t, call, u) ==
  t = 1 /\ call \in {"cre_mpl", "pget_mpl", "rel_mpl"} /\ u = 2

OInit ==
  /\ TasksInit /\ DtqInit /\ key_init /\ MbfInit /\ FlgInit /\ MbxInit /\ MtxInit /\ PoolInit
  /\ app \in Applications

NoQueues == UNCHANGED <<dtqVars, keyVars, mbfVars>>
NoObjects == UNCHANGED <<flgVars, mbxVars, mtxVars, lockHistory, poolVars>>

QueueStep(c) == DataQueueStep(c) /\ UNCHANGED mbfVars /\ NoObjects

MessageBufferStep(c) ==
  /\ MbfStep(c)
  /\ UNCHANGED <<dtqVars, keyVars>> /\ NoObjects

FlagStep(c, f) ==
  /\ FlgStep(c)
  /\ \A g \in FlgId \ {f} : ~flg_act'[g]
  /\ UNCHANGED <<mbxVars, mtxVars, lockHistory, poolVars>> /\ NoQueues
MailboxStep(c) ==
  /\ MbxStep(c)
  /\ UNCHANGED <<flgVars, mtxVars, lockHistory, poolVars>> /\ NoQueues
MutexStep(c) ==
  /\ MtxStep(c)
  /\ UNCHANGED <<flgVars, mbxVars, poolVars>> /\ NoQueues
MemoryStep(c, m) ==
  /\ PoolStep(c)
  /\ \A n \in PoolId \ {m} : ~pool_act'[n]
  /\ UNCHANGED <<flgVars, mbxVars, mtxVars, lockHistory>> /\ NoQueues

ONext ==
  /\ \E c \in Cpu : \/ app = "dtq" /\ QueueStep(c)
                    \/ app = "mbf" /\ MessageBufferStep(c)
                    \/ app = "flg" /\ FlagStep(c, 1)
                    \/ app = "clr" /\ FlagStep(c, 2)
                    \/ app = "one" /\ FlagStep(c, 3)
                    \/ app = "mbx" /\ MailboxStep(c)
                    \/ app = "mtx" /\ MutexStep(c)
                    \/ app = "mpf" /\ MemoryStep(c, 1)
                    \/ app = "mpl" /\ MemoryStep(c, 2)
  /\ UNCHANGED app

OSpec ==
  OInit /\ [][ONext]_<<vars, dtqVars, keyVars, mbfVars, flgVars, mbxVars, mtxVars,
                      lockHistory, poolVars, app>>
-----------------------------------------------------------------------------
\* Types of the objects and of the keyboard.
ObjectsTypeOK ==
  /\ TypeOK /\ DtqTypeOK /\ MbfTypeOK
  /\ FlgTypeOK /\ MbxTypeOK /\ MtxTypeOK /\ PoolTypeOK
  /\ mode \subseteq Modifier /\ key_dtq_id \in DtqId \cup {0}
=============================================================================
