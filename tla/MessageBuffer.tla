--------------------------- MODULE MessageBuffer ---------------------------
(***************************************************************************)
(* Message buffers (kernel/sys_mbf.c): a ring of bytes in which every      *)
(* message follows its size, between two wait queues.                      *)
(*                                                                         *)
(* A message stands for all of its bytes: a cell of the ring is Blank, or  *)
(* part of the size of a message, or part of its text.                     *)
(* msg[t] is the message that the sender t waits to store, text[t] the     *)
(* buffer of the receiver t, Unfilled until it is written.                 *)
(***************************************************************************)
EXTENDS Waits

CONSTANTS
  MbfId, Msg,
  msgsz,                 \* the size of each message
  mbfsz,                 \* T_CMBF of each message buffer, aligned memory
  UIntMod                \* UINT and SIZE are unsigned: 2^32 in the code

VARIABLES mbf_act, mbf, mbf_r, mbf_w, msg, text,
          flow           \* history: the messages put and not yet got

mbfVars == <<mbf_act, mbf, mbf_r, mbf_w, msg, text, flow>>

mbf_wlink_r(m) == -30 - m                             \* &mbf[m].wlink_r
mbf_wlink_s(m) == -40 - m                             \* &mbf[m].wlink_s

ASSUME MbfAssumption ==
  /\ MbfId \subseteq 1 .. 9
  /\ {mbf_wlink_r(m) : m \in MbfId} \cup {mbf_wlink_s(m) : m \in MbfId} \subseteq WHead
  /\ msgsz \in [Msg -> Nat \ {0}] /\ mbfsz \in [MbfId -> Nat \ (0 .. 4)]
  /\ UIntMod \in Nat /\ \A m \in MbfId : mbfsz[m] < UIntMod

Blank == <<>>
SizeOf(x) == <<"size", msgsz[x]>>
TextOf(x) == <<"text", x>>
NoBuffer == "none"
Unfilled == "unfilled"

\* mbf_end: the last address of the ring is rounded down to a word.
mbf_end(m) == ((mbfsz[m] - 1) \div 4) * 4
RingSize(m) == mbf_end(m) + 1

MbfInit ==
  /\ mbf_act = [m \in MbfId |-> FALSE]
  /\ mbf = [m \in MbfId |-> [i \in 0 .. mbf_end(m) |-> Blank]]
  /\ mbf_r = [m \in MbfId |-> 0]
  /\ mbf_w = [m \in MbfId |-> 0]
  /\ msg = [t \in Task |-> NoBuffer]
  /\ text = [t \in Task |-> NoBuffer]
  /\ flow = [m \in MbfId |-> <<>>]
-----------------------------------------------------------------------------
(***************************************************************************)
(* The ring.  A buffer b is a record of the cells, the two positions and   *)
(* the history; the services work on copies of it.                         *)
(***************************************************************************)
Buffer0(m) == [cell |-> mbf[m], r |-> mbf_r[m], w |-> mbf_w[m], flow |-> flow[m]]

CommitBuffer(m, b) ==
  /\ mbf' = [mbf EXCEPT ![m] = b.cell]
  /\ mbf_r' = [mbf_r EXCEPT ![m] = b.r]
  /\ mbf_w' = [mbf_w EXCEPT ![m] = b.w]
  /\ flow' = [flow EXCEPT ![m] = b.flow]

SizeBytes == 4           \* sizeof(unsigned long)

\* Room for one more message, header deducted, in unsigned arithmetic.
mbf_rest(m, b) ==
  ((IF b.w < b.r THEN b.r - b.w ELSE mbf_end(m) - b.w + b.r) - SizeBytes) % UIntMod

mbf_check(b) == b.w # b.r

\* n bytes from position i on, around the end of the ring.
Cells(m, i, n) == {(i + k) % RingSize(m) : k \in 0 .. n - 1}

Advance(m, i, n) ==      \* mbf_do_put, mbf_do_get: `if (mbf_w > mbf_end)'
  IF i + n > mbf_end(m) THEN i + n - RingSize(m) ELSE i + n

mbf_put(m, b, x) ==
  LET body == Advance(m, b.w, SizeBytes)
  IN  [cell |-> [i \in DOMAIN b.cell |->
                   IF i \in Cells(m, body, msgsz[x]) THEN TextOf(x)
                   ELSE IF i \in Cells(m, b.w, SizeBytes) THEN SizeOf(x)
                   ELSE b.cell[i]],
       r |-> b.r,
       w |-> Advance(m, body, msgsz[x]),
       flow |-> Append(b.flow, x)]

\* The message at the read position, if the ring is not damaged.
IsOldest(m, b, x) ==
  /\ b.cell[b.r] = SizeOf(x)
  /\ b.cell[Advance(m, b.r, SizeBytes)] = TextOf(x)

mbf_get(m, b, x) ==
  [cell |-> [i \in DOMAIN b.cell |->
               IF i \in Cells(m, b.r, SizeBytes + msgsz[x]) THEN Blank ELSE b.cell[i]],
   r |-> Advance(m, Advance(m, b.r, SizeBytes), msgsz[x]),
   w |-> b.w,
   flow |-> Tail(b.flow)]

(***************************************************************************)
(* mbf_snd_check: store the messages of the waiting senders as long as     *)
(* they fit.  After a sender is released the loop steps over the next node *)
(* of the queue, which may be the head; the release cancels no time-out.   *)
(***************************************************************************)
nobody_admitted(m, b) == [l |-> wlink, b |-> b, k |-> Kernel0]   \* mutant

Admissible(m, s) == s.at # mbf_wlink_s(m) /\ mbf_rest(m, s.b) > msgsz[msg[s.at]]

Admit(m, s) ==
  IF Admissible(m, s)
  THEN LET after == s.l.next[s.at]
           l == UnlinkToSelf(s.l, s.l.prev[after])
       IN  [at |-> l.next[after], l |-> l, b |-> mbf_put(m, s.b, msg[s.at]),
            k |-> Ready(s.k, s.at, E_OK)]
  ELSE s

mbf_snd_check(m, b) ==
  LET round[i \in Nat] ==
        IF i = 0 THEN [at |-> wlink.next[mbf_wlink_s(m)], l |-> wlink, b |-> b, k |-> Kernel0]
        ELSE Admit(m, round[i - 1])
  IN  round[Cardinality(Task)]
-----------------------------------------------------------------------------
RefuseMbf(c, v) == Reply(c, v) /\ UNCHANGED mbfVars

sys_cre_mbf(m) ==
  /\ ~mbf_act[m]
  /\ mbf_act' = [mbf_act EXCEPT ![m] = TRUE]
  /\ CommitBuffer(m, [cell |-> [i \in DOMAIN mbf[m] |-> Blank],
                      r |-> 0, w |-> 0, flow |-> <<>>])
  /\ UNCHANGED <<msg, text>>

cre_mbf(c, m) ==
  /\ Trap(c, "cre_mbf", m)
  /\ \/ mbf_act[m] /\ RefuseMbf(c, E_OBJ)
     \/ sys_cre_mbf(m) /\ Reply(c, E_OK)

acre_mbf(c) ==
  /\ Trap(c, "acre_mbf", Cur(c))
  /\ \/ \E m \in MbfId : /\ \A n \in MbfId : n < m => mbf_act[n]
                         /\ sys_cre_mbf(m) /\ Reply(c, m)
     \/ (\A m \in MbfId : mbf_act[m]) /\ RefuseMbf(c, E_NOID)

\* Time-outs of the released tasks stay armed.
del_mbf(c, m) ==
  /\ Trap(c, "del_mbf", m)
  /\ \/ ~mbf_act[m] /\ RefuseMbf(c, E_NOEXS)
     \/ /\ mbf_act[m]
        /\ DismissAllUntimed(<<mbf_wlink_s(m), mbf_wlink_r(m)>>)
        /\ mbf_act' = [mbf_act EXCEPT ![m] = FALSE]
        /\ Return(c, E_OK)
        /\ UNCHANGED <<mbf, mbf_r, mbf_w, msg, text, flow>>

FirstMbfReader(m) == wlink.next[mbf_wlink_r(m)]

no_size(x) == E_OK                                               \* mutant
AnswerTo(x) == msgsz[x]

\* A waiting receiver gets the message and its size.
DeliverMsg(c, m, x) ==
  LET t == FirstMbfReader(m)
  IN  /\ t # mbf_wlink_r(m)
      /\ Dismiss(t, AnswerTo(x))
      /\ text' = [text EXCEPT ![t] = x]
      /\ Return(c, E_OK)
      /\ UNCHANGED <<next_tsk_flag, mbf_act, mbf, mbf_r, mbf_w, msg, flow>>

unguarded_room(m, x) == mbf_rest(m, Buffer0(m)) > 0              \* mutant
HasRoom(m, x) == msgsz[x] < mbf_rest(m, Buffer0(m))

\* Attribute TA_TFIFO is 0, so `mbfatr & TA_TFIFO' never holds: the queues are
\* always by priority.
tsnd_mbf(c, m, x) ==
  /\ \E call \in {"tsnd_mbf", "snd_mbf", "psnd_mbf"} : Trap(c, call, m)
  /\ \/ ~mbf_act[m] /\ RefuseMbf(c, E_NOEXS)
     \/ mbf_act[m] /\ DeliverMsg(c, m, x)
     \/ /\ mbf_act[m] /\ FirstMbfReader(m) = mbf_wlink_r(m) /\ HasRoom(m, x)
        /\ CommitBuffer(m, mbf_put(m, Buffer0(m), x))
        /\ Reply(c, E_OK)
        /\ UNCHANGED <<mbf_act, msg, text>>
     \/ /\ mbf_act[m] /\ FirstMbfReader(m) = mbf_wlink_r(m) /\ ~HasRoom(m, x)
        /\ \E tmout \in TmoOf(c, m, "tsnd_mbf", "snd_mbf", "psnd_mbf") :
             \/ tmout = 0 /\ RefuseMbf(c, E_TMOUT)
             \/ /\ tmout # 0
                /\ msg' = [msg EXCEPT ![Cur(c)] = x]
                /\ JoinAndSleep(c, UnlinkToSelf(wlink, Cur(c)), mbf_wlink_s(m),
                                TRUE, tmout)
                /\ Return(c, E_OK)
                /\ UNCHANGED <<mbf_act, mbf, mbf_r, mbf_w, text, flow>>

\* Taking a message makes room for the senders that wait.
TakeMsg(c, m, x) ==
  LET s == mbf_snd_check(m, mbf_get(m, Buffer0(m), x))
  IN  /\ mbf_check(Buffer0(m)) /\ IsOldest(m, Buffer0(m), x)
      /\ text' = [text EXCEPT ![Cur(c)] = x]
      /\ CommitBuffer(m, s.b)
      /\ Commit(s.k)
      /\ wlink' = s.l
      /\ Return(c, msgsz[x])
      /\ UNCHANGED <<next_tsk_flag, tcbVars, wupcnt, mbf_act, msg>>

trcv_mbf(c, m) ==
  /\ \E call \in {"trcv_mbf", "rcv_mbf", "prcv_mbf"} : Trap(c, call, m)
  /\ \/ ~mbf_act[m] /\ RefuseMbf(c, E_NOEXS)
     \/ mbf_act[m] /\ \E x \in Msg : TakeMsg(c, m, x)
     \/ /\ mbf_act[m] /\ ~mbf_check(Buffer0(m))
        /\ text' = [text EXCEPT ![Cur(c)] = Unfilled]
        /\ \E tmout \in TmoOf(c, m, "trcv_mbf", "rcv_mbf", "prcv_mbf") :
             \/ tmout = 0 /\ Reply(c, E_TMOUT)
             \/ /\ tmout # 0
                /\ JoinAndSleep(c, UnlinkToSelf(wlink, Cur(c)), mbf_wlink_r(m),
                                TRUE, tmout)
                /\ Return(c, E_OK)
        /\ UNCHANGED <<mbf_act, mbf, mbf_r, mbf_w, msg, flow>>

\* The calls of the library (lib/lib_mbf.c), each of which only traps.
MbfCall(c) ==
  \/ acre_mbf(c)
  \/ \E m \in MbfId : \/ cre_mbf(c, m) \/ del_mbf(c, m) \/ trcv_mbf(c, m)
                      \/ \E x \in Msg : tsnd_mbf(c, m, x)

\* The task that resumes is done with its buffers.
MbfRead(c) ==
  /\ msg' = IF Resumes(c) THEN [msg EXCEPT ![Cur(c)] = NoBuffer] ELSE msg
  /\ text' = IF Resumes(c) THEN [text EXCEPT ![Cur(c)] = NoBuffer] ELSE text
  /\ UNCHANGED <<mbf_act, mbf, mbf_r, mbf_w, flow>>

MbfStep(c) == MbfCall(c) \/ (KernelStep(c) /\ MbfRead(c))

\* The application: a task whose wlink a deletion has left behind does not sleep
\* on it, here or elsewhere.
CleanSleep(c) ==
  pc[c] = "user" /\ InQueue(wlink, Cur(c)) => tskstat'[Cur(c)] # "WAI"

MbfSpec ==
  TasksInit /\ MbfInit /\ [][\E c \in Cpu : MbfStep(c) /\ CleanSleep(c)]_<<vars, mbfVars>>
-----------------------------------------------------------------------------
MbfTypeOK ==
  /\ mbf_act \in [MbfId -> BOOLEAN]
  /\ \A m \in MbfId :
       /\ mbf[m] \in [0 .. mbf_end(m) -> ({"size"} \X Nat) \cup ({"text"} \X Msg) \cup {Blank}]
       /\ mbf_r[m] \in 0 .. mbf_end(m) /\ mbf_w[m] \in 0 .. mbf_end(m)
  /\ msg \in [Task -> Msg \cup {NoBuffer}]
  /\ text \in [Task -> Msg \cup {NoBuffer, Unfilled}]
  /\ flow \in [MbfId -> Seq(Msg)]

\* Where the messages of f end when the first one starts at 0.
Ends(f) ==
  LET at[i \in 0 .. Len(f)] ==
        IF i = 0 THEN 0 ELSE at[i - 1] + (SizeBytes + msgsz[f[i]])
  IN  at

\* Byte k of the unread ones; message i of them lies between at[i - 1] and at[i].
Byte(m, k) == mbf[m][(mbf_r[m] + k) % RingSize(m)]
LiesThere(m, at, i) ==
  /\ \A k \in at[i - 1] .. at[i - 1] + SizeBytes - 1 : Byte(m, k) = SizeOf(flow[m][i])
  /\ \A k \in at[i - 1] + SizeBytes .. at[i] - 1 : Byte(m, k) = TextOf(flow[m][i])
LaidOut(m, at, n) ==
  /\ at[n] < RingSize(m)
  /\ mbf_w[m] = (mbf_r[m] + at[n]) % RingSize(m)
  /\ \A i \in 1 .. n : LiesThere(m, at, i)

\* The bytes of the ring are exactly the messages that were put and not yet
\* got, each behind its size, in this order, from the read to the write
\* position: no put overwrites an unread message, whatever wraps where.
Layout(m) == LaidOut(m, Ends(flow[m]), Len(flow[m]))
RingIntact == \A m \in MbfId : Layout(m)

\* A receive answers the size of a message exactly when the buffer of the task
\* holds that message.
SizeAnswered ==
  [][\A c \in Cpu : Resumes(c) /\ text[Cur(c)] # NoBuffer =>
       IF text[Cur(c)] \in Msg THEN eax[Cur(c)] = msgsz[text[Cur(c)]]
       ELSE eax[Cur(c)] < 0]_<<vars, mbfVars>>

\* Nobody waits for what is there: no receiver sleeps while the ring holds a
\* message, no sender whose message would fit (all messages of one size).
NobodyWaitsInVain ==
  \A m \in MbfId : mbf_act[m] =>
    /\ FirstMbfReader(m) # mbf_wlink_r(m) => ~mbf_check(Buffer0(m))
    /\ \A t \in Waiters(mbf_wlink_s(m)) : ~HasRoom(m, msg[t])
=============================================================================
