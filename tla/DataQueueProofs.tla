-------------------------- MODULE DataQueueProofs --------------------------
(***************************************************************************)
(* A data queue implements its channel, and its reading end holds exactly  *)
(* the sleeping receivers, for every number of slots, any tasks and CPUs   *)
(* and every program that meets DtqApplication.                            *)
(***************************************************************************)
EXTENDS Keyboard, WaitsProofs, SequenceTheorems, TLAPS

-----------------------------------------------------------------------------
(***************************************************************************)
(* The ring as a sequence.  The slots are f, its ends a (read) and b       *)
(* (write), of n slots.                                                    *)
(***************************************************************************)
Turn(i, n) == IF i + 1 >= n THEN 0 ELSE i + 1
SlotAt(a, i, n) == IF a + i - 1 >= n THEN a + i - 1 - n ELSE a + i - 1

\* The place of a datum is a slot.
LEMMA Places ==
  ASSUME NEW n \in Nat \ {0}, NEW a \in 0 .. n - 1, NEW b \in 0 .. n - 1
  PROVE  /\ sdtqcnt(a, b, n) \in 0 .. n - 1
         /\ \A i \in 1 .. sdtqcnt(a, b, n) : SlotAt(a, i, n) \in 0 .. n - 1
         /\ Turn(a, n) \in 0 .. n - 1
  BY DEF sdtqcnt, SlotAt, Turn

\* What the ring holds is a sequence of as many data as ref_dtq counts.
Held(f, a, b, n, S) ==
  /\ Items(f, a, b, n) \in Seq(S)
  /\ Len(Items(f, a, b, n)) = sdtqcnt(a, b, n)

LEMMA ItemsSeq ==
  ASSUME NEW S, NEW n \in Nat \ {0}, NEW f \in [0 .. n - 1 -> S],
         NEW a \in 0 .. n - 1, NEW b \in 0 .. n - 1
  PROVE  Held(f, a, b, n, S)
  <1> DEFINE k == sdtqcnt(a, b, n)
             s == [i \in 1 .. k |-> f[SlotAt(a, i, n)]]
  <1>1. k \in Nat
    BY Places
  <1>2. \A i \in 1 .. k : f[SlotAt(a, i, n)] \in S
    BY Places
  <1>3. s \in [1 .. k -> S]
    BY <1>2
  <1>4. s \in Seq(S) /\ Len(s) = k
    <2> HIDE DEF k, s
    <2>1. s \in Seq(S)
      BY <1>1, <1>3, SeqDef
    <2>2. DOMAIN s = 1 .. Len(s) /\ DOMAIN s = 1 .. k /\ Len(s) \in Nat
      BY <1>3, <2>1, LenProperties
    <2>3. Len(s) = k
      <3>1. ASSUME NEW m \in Nat, NEW l \in Nat, 1 .. m = 1 .. l
            PROVE  m = l
        <4>1. (m > 0 => m \in 1 .. m) /\ (l > 0 => l \in 1 .. l)
          OBVIOUS
        <4>2. (m > 0 => m \in 1 .. l) /\ (l > 0 => l \in 1 .. m)
          BY <3>1, <4>1
        <4>3. QED
          BY <4>2
      <3>2. 1 .. Len(s) = 1 .. k
        BY <2>2
      <3>3. QED
        BY <1>1, <2>2, <3>1, <3>2
    <2>4. QED
      BY <2>1, <2>3
  <1>5. Items(f, a, b, n) = s
    BY DEF Items, SlotAt
  <1>6. QED
    BY <1>4, <1>5 DEF Held

\* Two ends at the same place hold nothing between them.
EmptyIffMet(f, a, b, n) == Items(f, a, b, n) = <<>> <=> a = b

LEMMA ItemsEmpty ==
  ASSUME NEW S, NEW n \in Nat \ {0}, NEW f \in [0 .. n - 1 -> S], NEW a \in 0 .. n - 1,
         NEW b \in 0 .. n - 1
  PROVE  EmptyIffMet(f, a, b, n)
  <1>1. sdtqcnt(a, b, n) = 0 <=> a = b
    BY DEF sdtqcnt
  <1>2. Held(f, a, b, n, S)
    BY ItemsSeq
  <1>3. QED
    BY <1>1, <1>2, EmptySeq DEF Held, EmptyIffMet

\* A store at the writing end appends, if the end does not meet the other one.
Appended(f, a, b, n, d) ==
  /\ Items([f EXCEPT ![b] = d], a, Turn(b, n), n) = Append(Items(f, a, b, n), d)
  /\ Len(Items(f, a, b, n)) < n - 1

LEMMA ItemsAppend ==
  ASSUME NEW S, NEW n \in Nat \ {0}, NEW f \in [0 .. n - 1 -> S], NEW d \in S,
         NEW a \in 0 .. n - 1, NEW b \in 0 .. n - 1, Turn(b, n) # a
  PROVE  Appended(f, a, b, n, d)
  <1> DEFINE g == [f EXCEPT ![b] = d]
             k == sdtqcnt(a, b, n)
             s == Items(f, a, b, n)
             t == Items(g, a, Turn(b, n), n)
  <1>1. g \in [0 .. n - 1 -> S] /\ Turn(b, n) \in 0 .. n - 1
    BY Places
  <1>2. k \in Nat /\ sdtqcnt(a, Turn(b, n), n) = k + 1 /\ k < n - 1
    BY DEF sdtqcnt, Turn
  <1>3. /\ s \in Seq(S) /\ Len(s) = k
        /\ \A i \in 1 .. k : s[i] = f[SlotAt(a, i, n)]
    <2>1. Held(f, a, b, n, S)
      BY ItemsSeq
    <2>2. s \in Seq(S) /\ Len(s) = k
      BY <2>1 DEF Held
    <2>3. s = [i \in 1 .. k |-> f[SlotAt(a, i, n)]]
      BY DEF Items, SlotAt
    <2>4. \A i \in 1 .. k : s[i] = f[SlotAt(a, i, n)]
      <3> HIDE DEF s, k
      <3>1. QED
        BY <2>3
    <2>5. QED
      BY <2>2, <2>4
  <1>4. /\ t \in Seq(S) /\ Len(t) = k + 1
        /\ \A i \in 1 .. k + 1 : t[i] = g[SlotAt(a, i, n)]
    <2>1. Held(g, a, Turn(b, n), n, S)
      <3> HIDE DEF g
      <3>1. QED
        BY <1>1, ItemsSeq
    <2>2. t \in Seq(S) /\ Len(t) = sdtqcnt(a, Turn(b, n), n)
      BY <2>1 DEF Held
    <2>3. t = [i \in 1 .. sdtqcnt(a, Turn(b, n), n) |-> g[SlotAt(a, i, n)]]
      <3> HIDE DEF g
      <3>1. QED
        BY DEF Items, SlotAt
    <2>4. \A i \in 1 .. k + 1 : t[i] = g[SlotAt(a, i, n)]
      <3> HIDE DEF t, g, k
      <3>1. QED
        BY <1>2, <2>3
    <2>5. QED
      BY <1>2, <2>2, <2>4
  <1>5. \A i \in 1 .. k : g[SlotAt(a, i, n)] = f[SlotAt(a, i, n)]
    <2>1. \A i \in 1 .. k : SlotAt(a, i, n) \in 0 .. n - 1 /\ SlotAt(a, i, n) # b
      BY <1>2 DEF sdtqcnt, SlotAt
    <2>2. QED
      BY <2>1
  <1>6. g[SlotAt(a, k + 1, n)] = d
    <2>1. SlotAt(a, k + 1, n) = b
      BY DEF sdtqcnt, SlotAt
    <2>2. QED
      BY <2>1
  <1>7. /\ Append(s, d) \in Seq(S) /\ Len(Append(s, d)) = k + 1
        /\ \A i \in 1 .. k : Append(s, d)[i] = s[i]
        /\ Append(s, d)[k + 1] = d
    <2> HIDE DEF s, k
    <2>1. QED
      BY <1>2, <1>3, AppendProperties
  <1>8. \A i \in 1 .. k + 1 : t[i] = Append(s, d)[i]
    <2> HIDE DEF s, t, g, k
    <2>1. \A i \in 1 .. k + 1 : i \in 1 .. k \/ i = k + 1
      BY <1>2
    <2>2. QED
      BY <1>2, <1>3, <1>4, <1>5, <1>6, <1>7, <2>1
  <1>9. t = Append(s, d)
    <2> HIDE DEF s, t, g, k
    <2>1. QED
      BY <1>4, <1>7, <1>8, SeqEqual
  <1>10. QED
    BY <1>2, <1>3, <1>9 DEF Appended

\* Taking the datum at the reading end leaves the tail.
Taken(f, a, b, n, e) ==
  /\ Items([f EXCEPT ![a] = e], Turn(a, n), b, n) = Tail(Items(f, a, b, n))
  /\ Head(Items(f, a, b, n)) = f[a]
  /\ Items(f, a, b, n) # <<>>

LEMMA ItemsTail ==
  ASSUME NEW S, NEW n \in Nat \ {0}, NEW f \in [0 .. n - 1 -> S], NEW e \in S,
         NEW a \in 0 .. n - 1, NEW b \in 0 .. n - 1, a # b
  PROVE  Taken(f, a, b, n, e)
  <1> DEFINE g == [f EXCEPT ![a] = e]
             k == sdtqcnt(a, b, n)
             s == Items(f, a, b, n)
             t == Items(g, Turn(a, n), b, n)
  <1>1. g \in [0 .. n - 1 -> S] /\ Turn(a, n) \in 0 .. n - 1
    BY Places
  <1>2. k \in Nat /\ sdtqcnt(Turn(a, n), b, n) = k - 1 /\ k > 0
    BY DEF sdtqcnt, Turn
  <1>3. /\ s \in Seq(S) /\ Len(s) = k
        /\ \A i \in 1 .. k : s[i] = f[SlotAt(a, i, n)]
    <2>1. Held(f, a, b, n, S)
      BY ItemsSeq
    <2>2. s \in Seq(S) /\ Len(s) = k
      BY <2>1 DEF Held
    <2>3. s = [i \in 1 .. k |-> f[SlotAt(a, i, n)]]
      BY DEF Items, SlotAt
    <2>4. \A i \in 1 .. k : s[i] = f[SlotAt(a, i, n)]
      <3> HIDE DEF s, k
      <3>1. QED
        BY <2>3
    <2>5. QED
      BY <2>2, <2>4
  <1>4. /\ t \in Seq(S) /\ Len(t) = k - 1
        /\ \A i \in 1 .. k - 1 : t[i] = g[SlotAt(Turn(a, n), i, n)]
    <2>1. Held(g, Turn(a, n), b, n, S)
      <3> HIDE DEF g
      <3>1. QED
        BY <1>1, ItemsSeq
    <2>2. t \in Seq(S) /\ Len(t) = sdtqcnt(Turn(a, n), b, n)
      BY <2>1 DEF Held
    <2>3. t = [i \in 1 .. sdtqcnt(Turn(a, n), b, n) |-> g[SlotAt(Turn(a, n), i, n)]]
      <3> HIDE DEF g
      <3>1. QED
        BY DEF Items, SlotAt
    <2>4. \A i \in 1 .. k - 1 : t[i] = g[SlotAt(Turn(a, n), i, n)]
      <3> HIDE DEF t, g, k
      <3>1. QED
        BY <1>2, <2>3
    <2>5. QED
      BY <1>2, <2>2, <2>4
  <1>5. \A i \in 1 .. k - 1 : g[SlotAt(Turn(a, n), i, n)] = f[SlotAt(a, i + 1, n)]
    <2>1. \A i \in 1 .. k - 1 : /\ SlotAt(Turn(a, n), i, n) = SlotAt(a, i + 1, n)
                                /\ SlotAt(a, i + 1, n) \in 0 .. n - 1
                                /\ SlotAt(a, i + 1, n) # a
      BY <1>2 DEF sdtqcnt, SlotAt, Turn
    <2>2. QED
      BY <2>1
  <1>6. s # <<>>
    <2> HIDE DEF s, k
    <2>1. QED
      BY <1>2, <1>3, EmptySeq
  <1>7. Head(s) = s[1] /\ f[SlotAt(a, 1, n)] = f[a]
    BY <1>3, <1>6 DEF SlotAt
  <1>8. QED
    <2> HIDE DEF s, t, g, k
    <2>1. /\ Tail(s) \in Seq(S) /\ Len(Tail(s)) = k - 1
          /\ \A i \in 1 .. Len(Tail(s)) : Tail(s)[i] = s[i + 1]
      BY <1>3, <1>6, HeadTailProperties
    <2>2. \A i \in 1 .. k - 1 : t[i] = Tail(s)[i]
      <3>1. \A i \in 1 .. k - 1 : i + 1 \in 1 .. k
        BY <1>2
      <3>2. QED
        BY <1>3, <1>4, <1>5, <2>1, <3>1, SMTT(30)
    <2>3. t = Tail(s)
      BY <1>4, <2>1, <2>2, SeqEqual
    <2>4. s[1] = f[a]
      BY <1>2, <1>3, <1>7
    <2>5. QED
      BY <1>6, <1>7, <2>3, <2>4 DEF s, t, g, Taken

\* A forced send into a full ring drops the oldest datum; a ring of one slot
\* holds none and stays empty.
Forced(f, a, b, n, d, e) ==
  /\ Items([f EXCEPT ![b] = d, ![a] = e], Turn(a, n), Turn(b, n), n)
       = IF Items(f, a, b, n) = <<>> THEN <<>>
         ELSE Append(Tail(Items(f, a, b, n)), d)
  /\ Len(Items(f, a, b, n)) = n - 1

LEMMA ItemsForced ==
  ASSUME NEW S, NEW n \in Nat \ {0}, NEW f \in [0 .. n - 1 -> S], NEW d \in S,
         NEW e \in S, NEW a \in 0 .. n - 1, NEW b \in 0 .. n - 1, Turn(b, n) = a
  PROVE  Forced(f, a, b, n, d, e)
  <1> DEFINE g == [f EXCEPT ![a] = e]
             h == [f EXCEPT ![b] = d, ![a] = e]
  <1>1. Held(f, a, b, n, S)
    BY ItemsSeq
  <1>2. sdtqcnt(a, b, n) = n - 1
    BY DEF sdtqcnt, Turn
  <1>3. Len(Items(f, a, b, n)) = n - 1
    BY <1>1, <1>2 DEF Held
  <1>4. CASE a = b
    <2>1. n = 1
      BY <1>4 DEF Turn
    <2>2. Turn(a, n) = Turn(b, n) /\ Turn(a, n) \in 0 .. n - 1
      BY <1>4, Places
    <2>3. h \in [0 .. n - 1 -> S]
      OBVIOUS
    <2>4. Items(f, a, b, n) = <<>>
      BY <1>4, ItemsEmpty DEF EmptyIffMet
    <2>5. Items(h, Turn(a, n), Turn(b, n), n) = <<>>
      <3> HIDE DEF h
      <3>1. QED
        BY <2>2, <2>3, ItemsEmpty, ZenonT(60) DEF EmptyIffMet
    <2>6. QED
      BY <1>3, <2>4, <2>5 DEF Forced
  <1>5. CASE a # b
    <2>1. g \in [0 .. n - 1 -> S] /\ Turn(a, n) \in 0 .. n - 1 /\ Turn(b, n) \in 0 .. n - 1
      BY Places
    <2>2. Turn(b, n) # Turn(a, n)
      BY <1>5 DEF Turn
    <2>3. h = [g EXCEPT ![b] = d]
      BY <1>5
    <2>4. Taken(f, a, b, n, e)
      BY <1>5, ItemsTail
    <2>5. Appended(g, Turn(a, n), b, n, d)
      <3> HIDE DEF g
      <3>1. QED
        BY <2>1, <2>2, ItemsAppend
    <2>6. QED
      BY <1>3, <2>3, <2>4, <2>5 DEF Taken, Appended, Forced
  <1>6. QED
    BY <1>4, <1>5

-----------------------------------------------------------------------------
(***************************************************************************)
(* The data queue: one of them, Q.                                         *)
(***************************************************************************)
Q == Watched
Size == dtqcnt[Q]
Data == Datum \cup {Empty}

\* What the channel is told: the datum each task was given.
Given == [t \in Task |-> IF var[t] \in Datum THEN <<var[t]>> ELSE <<>>]

\* The ring keeps its slots and ends, and holds data between the ends.
RingTyped ==
  /\ DOMAIN dtq_act = {Q} /\ DOMAIN dtq = {Q} /\ DOMAIN r = {Q} /\ DOMAIN w = {Q}
  /\ dtq_act[Q] \in BOOLEAN
  /\ dtq[Q] \in [0 .. Size - 1 -> Data]
  /\ r[Q] \in 0 .. Size - 1 /\ w[Q] \in 0 .. Size - 1

RingHolds == Items(dtq[Q], r[Q], w[Q], Size) \in Seq(Datum)

VarTyped == var \in [Task -> Datum \cup {Unset, Unused}]

QueueInv ==
  /\ RingTyped /\ RingHolds /\ VarTyped
  /\ c_tskid \in [Cpu -> Task]
  /\ key_dtq_id \in {Q, 0}

RingSame == UNCHANGED <<dtq_act, dtq, r, w>>

\* What a step makes of the queue.
Stays == RingSame /\ var' = var
Uses == RingSame /\ \E t \in Task, x \in {Unset, Unused} : var' = [var EXCEPT ![t] = x]
Accepts(d) ==
  /\ dtq_act[Q] /\ ~Full(Q) /\ Store(Q, d)
  /\ UNCHANGED <<dtq_act, r, var>>
HandsOver(d) ==
  /\ dtq_act[Q] /\ ReaderWaits(Q) /\ RingSame
  /\ var' = [var EXCEPT ![FirstReader(Q)] = d]
Delivers(t) ==
  /\ dtq_act[Q] /\ Holds(Q)
  /\ var' = [var EXCEPT ![t] = dtq[Q][r[Q]]]
  /\ dtq' = [dtq EXCEPT ![Q][r[Q]] = Empty]
  /\ r' = [r EXCEPT ![Q] = After(Q, @)]
  /\ UNCHANGED <<dtq_act, w>>
Forces(d) ==
  /\ dtq_act[Q] /\ Full(Q)
  /\ dtq' = [dtq EXCEPT ![Q][w[Q]] = d, ![Q][r[Q]] = Empty]
  /\ w' = [w EXCEPT ![Q] = After(Q, @)]
  /\ r' = [r EXCEPT ![Q] = After(Q, @)]
  /\ UNCHANGED <<dtq_act, var>>
Closes ==
  /\ dtq_act[Q] /\ dtq_act' = [dtq_act EXCEPT ![Q] = FALSE]
  /\ UNCHANGED <<dtq, r, w, var>>

Effect ==
  \/ Stays \/ Uses \/ sys_cre_dtq(Q) \/ Closes
  \/ \E d \in Datum : Accepts(d) \/ HandsOver(d) \/ Forces(d)
  \/ \E t \in Task : Delivers(t)

\* The kernel steps leave the queues to DtqRead, and the current tasks are tasks.
LEMMA KernelEffect ==
  ASSUME QueueInv, NEW c \in Cpu, KernelStep(c), DtqRead(c)
  PROVE  Effect
  <1>1. c_tskid[c] \in Task
    BY DEF QueueInv
  <1>2. CASE Resumes(c)
    BY <1>1, <1>2 DEF DtqRead, Effect, Uses, RingSame, Cur
  <1>3. CASE ~Resumes(c)
    BY <1>3 DEF DtqRead, Effect, Stays, RingSame
  <1>4. QED
    BY <1>2, <1>3

\* Each service does one of these to its queue.
LEMMA CallEffect ==
  ASSUME QueueInv, DtqId = {Q}, NEW c \in Cpu, DtqCall(c)
  PROVE  Effect
  <1> Cur(c) \in Task
    BY DEF QueueInv, Cur
  <1> USE DEF dtqVars, RingSame, RefuseDtq
  <1>1. CASE acre_dtq(c)
    BY <1>1 DEF acre_dtq, Effect, Stays
  <1>2. CASE cre_dtq(c, Q)
    BY <1>2 DEF cre_dtq, Effect, Stays
  <1>3. CASE del_dtq(c, Q)
    BY <1>3 DEF del_dtq, Effect, Stays, Closes
  <1>4. ASSUME NEW d \in Datum, Send(c, Q, d), dtq_act[Q]
        PROVE  Effect
    <2>1. Accepts(d) \/ HandsOver(d)
      BY <1>4 DEF Send, HandToReader, Accepts, HandsOver
    <2>2. QED
      BY <2>1 DEF Effect
  <1>5. CASE psnd_dtq(c, Q)
    BY <1>4, <1>5 DEF psnd_dtq, Effect, Stays
  <1>6. CASE tsnd_dtq(c, Q)
    BY <1>4, <1>6 DEF tsnd_dtq, Effect, Stays
  <1>7. CASE fsnd_dtq(c, Q)
    <2>1. CASE \E d \in Datum : Forces(d)
      BY <2>1 DEF Effect
    <2>2. QED
      BY <1>4, <1>7, <2>1 DEF fsnd_dtq, Effect, Stays, Forces
  <1>8. CASE dtq_act[Q] /\ Take(c, Q)
    <2>1. Delivers(Cur(c))
      BY <1>8 DEF Take, Delivers
    <2>2. QED
      BY <2>1 DEF Effect
  <1>9. CASE FoundEmpty(c)
    BY <1>9 DEF FoundEmpty, Effect, Uses
  <1>10. CASE prcv_dtq(c, Q)
    BY <1>8, <1>9, <1>10 DEF prcv_dtq, Effect, Stays
  <1>11. CASE trcv_dtq(c, Q)
    BY <1>8, <1>9, <1>11 DEF trcv_dtq, Effect, Stays
  <1>12. QED
    BY <1>1, <1>2, <1>3, <1>5, <1>6, <1>7, <1>10, <1>11 DEF DtqCall

\* The keyboard interrupt sends a datum, or nothing.
LEMMA KeyEffect ==
  ASSUME QueueInv, NEW c \in Cpu, irq1(c)
  PROVE  Effect
  <1>1. CASE UNCHANGED dtqVars
    BY <1>1 DEF dtqVars, Effect, Stays, RingSame
  <1>2. ASSUME NEW k \in CharKey, key_dtq_id > 0, ipsnd_dtq(key_dtq_id, ch(k))
        PROVE  Effect
    <2>1. key_dtq_id = Q
      BY <1>2 DEF QueueInv
    <2>2. ch(k) \in Datum
      BY KeyAssumption DEF ch
    <2>3. Accepts(ch(k)) \/ HandsOver(ch(k)) \/ UNCHANGED dtqVars
      BY <1>2, <2>1 DEF ipsnd_dtq, HandToReader, Accepts, HandsOver, RingSame, dtqVars
    <2>4. QED
      BY <1>1, <2>2, <2>3 DEF Effect
  <1>3. QED
    BY <1>1, <1>2 DEF irq1

-----------------------------------------------------------------------------
(***************************************************************************)
(* Each effect is a step of the channel, and keeps the ring in order.      *)
(***************************************************************************)
ChanVars == <<dtq_act[Q], Contents(Q), Given>>

\* What an effect preserves and shows.
Simulates ==
  /\ RingTyped' /\ RingHolds' /\ VarTyped'
  /\ Chan!Next \/ UNCHANGED ChanVars

\* The size of the queue is a positive number, and its name is one.
LEMMA QueueFacts ==
  ASSUME DtqId = {Q}
  PROVE  Size \in Nat \ {0} /\ Empty \notin Datum /\ Unset \notin Datum /\ Unused \notin Datum
  BY DtqAssumption DEF Size

\* The end of a ring of this queue turns as Turn does.
LEMMA Turns ==
  ASSUME NEW i
  PROVE  After(Q, i) = Turn(i, Size)
  BY DEF After, Turn, Size

\* Data that are not given change no datum that is.
LEMMA StaysSimulates ==
  ASSUME QueueInv, Stays
  PROVE  Simulates
  BY DEF QueueInv, Stays, RingSame, Simulates, RingTyped, RingHolds, VarTyped,
         ChanVars, Contents, Given

\* Using a datum, and having none.
LEMMA UsesSimulates ==
  ASSUME QueueInv, DtqId = {Q}, Uses
  PROVE  Simulates
  <1>1. PICK t \in Task, x \in {Unset, Unused} : var' = [var EXCEPT ![t] = x]
    BY DEF Uses
  <1>2. VarTyped'
    BY <1>1 DEF QueueInv, VarTyped
  <1>3. RingTyped' /\ RingHolds' /\ dtq_act'[Q] = dtq_act[Q] /\ Contents(Q)' = Contents(Q)
    BY DEF QueueInv, Uses, RingSame, RingTyped, RingHolds, Contents
  <1>4. Given' = [Given EXCEPT ![t] = <<>>]
    BY <1>1, QueueFacts DEF Given, QueueInv, VarTyped
  <1>5. Chan!Use(t)
    BY <1>3, <1>4 DEF Chan!Use, Given, Q
  <1>6. QED
    BY <1>2, <1>3, <1>5 DEF Simulates, Chan!Next

\* A send into the ring is accepted.
LEMMA AcceptsSimulates ==
  ASSUME QueueInv, DtqId = {Q}, NEW d \in Datum, Accepts(d)
  PROVE  Simulates
  <1> DEFINE f == dtq[Q]
             a == r[Q]
             b == w[Q]
  <1>1. /\ Size \in Nat \ {0} /\ f \in [0 .. Size - 1 -> Data]
        /\ a \in 0 .. Size - 1 /\ b \in 0 .. Size - 1 /\ d \in Data
    BY QueueFacts DEF QueueInv, RingTyped, Data
  <1>2. /\ dtq'[Q] = [f EXCEPT ![b] = d] /\ w'[Q] = Turn(b, Size) /\ r'[Q] = a
        /\ Turn(b, Size) # a
    BY Turns DEF Accepts, Store, Full, QueueInv, RingTyped
  <1>3. /\ Items([f EXCEPT ![b] = d], a, Turn(b, Size), Size) = Append(Items(f, a, b, Size), d)
        /\ Len(Items(f, a, b, Size)) < Size - 1
    <2> HIDE DEF f, a, b
    <2>1. Appended(f, a, b, Size, d)
      BY <1>1, <1>2, ItemsAppend
    <2>2. QED
      BY <2>1 DEF Appended
  <1>4. RingTyped'
    <2>1. [f EXCEPT ![b] = d] \in [0 .. Size - 1 -> Data]
      BY <1>1
    <2>2. Turn(b, Size) \in 0 .. Size - 1
      BY <1>1, Places
    <2>3. /\ DOMAIN dtq_act' = {Q} /\ DOMAIN dtq' = {Q} /\ DOMAIN r' = {Q} /\ DOMAIN w' = {Q}
          /\ dtq_act'[Q] \in BOOLEAN
      BY DEF Accepts, Store, QueueInv, RingTyped
    <2>4. QED
      BY <1>1, <1>2, <2>1, <2>2, <2>3 DEF RingTyped, Size, Q
  <1>5. Items(f, a, b, Size) \in Seq(Datum)
    BY DEF QueueInv, RingHolds
  <1>6. Append(Items(f, a, b, Size), d) \in Seq(Datum)
    BY <1>5, AppendProperties
  <1>7. Items(dtq'[Q], r'[Q], w'[Q], Size) = Append(Items(f, a, b, Size), d)
    BY <1>2, <1>3
  <1>8. dtq_act[Q] /\ dtq_act'[Q] = dtq_act[Q] /\ var' = var
    BY DEF Accepts
  <1>9. Chan!Accept(d)
    <2>1. Contents(Q) = Items(f, a, b, Size)
      BY <1>8 DEF Contents, Size
    <2>2. Contents(Q)' = Items(dtq'[Q], r'[Q], w'[Q], Size)
      BY <1>8 DEF Contents, Size, Q
    <2>3. Given' = Given
      BY <1>8 DEF Given
    <2>4. QED
      BY <1>3, <1>7, <1>8, <2>1, <2>2, <2>3 DEF Chan!Accept, Given, Q, Size
  <1>10. QED
    BY <1>4, <1>6, <1>7, <1>8, <1>9 DEF Simulates, Chan!Next, RingHolds, VarTyped, QueueInv, Size, Q


\* A datum handed over goes to a reader of an empty channel.
LEMMA HandsOverSimulates ==
  ASSUME QueueInv, DtqId = {Q}, FirstReaderSleeps(Q), NEW d \in Datum, HandsOver(d)
  PROVE  Simulates
  <1>1. PICK t \in Task : t = FirstReader(Q)
    BY DEF HandsOver, FirstReaderSleeps
  <1>2. var[t] = Unset /\ r[Q] = w[Q] /\ dtq_act[Q] /\ var' = [var EXCEPT ![t] = d]
    BY <1>1 DEF HandsOver, FirstReaderSleeps, Holds
  <1>3. VarTyped'
    BY <1>2 DEF QueueInv, VarTyped
  <1>4. /\ RingTyped' /\ RingHolds' /\ dtq_act'[Q] = dtq_act[Q]
        /\ Contents(Q)' = Contents(Q)
    BY DEF QueueInv, HandsOver, RingSame, RingTyped, RingHolds, Contents
  <1>5. Contents(Q) = <<>>
    <2>1. /\ Size \in Nat \ {0} /\ dtq[Q] \in [0 .. Size - 1 -> Data]
          /\ r[Q] \in 0 .. Size - 1 /\ w[Q] \in 0 .. Size - 1
      BY QueueFacts DEF QueueInv, RingTyped
    <2>2. EmptyIffMet(dtq[Q], r[Q], w[Q], Size)
      BY <2>1, ItemsEmpty
    <2>3. QED
      BY <1>2, <2>2 DEF EmptyIffMet, Contents, Size
  <1>6. Given[t] = <<>>
    BY <1>2, QueueFacts DEF Given
  <1>7. Given' = [Given EXCEPT ![t] = <<d>>]
    BY <1>2 DEF Given, QueueInv, VarTyped
  <1>8. Chan!HandOver(d, t)
    BY <1>2, <1>4, <1>5, <1>6, <1>7 DEF Chan!HandOver, Given, Q
  <1>9. QED
    BY <1>3, <1>4, <1>8 DEF Simulates, Chan!Next

\* A receive that finds a datum delivers the oldest.
LEMMA DeliversSimulates ==
  ASSUME QueueInv, DtqId = {Q}, NEW t \in Task, Delivers(t)
  PROVE  Simulates
  <1> DEFINE f == dtq[Q]
             a == r[Q]
             b == w[Q]
             g == [f EXCEPT ![a] = Empty]
             s == Items(f, a, b, Size)
  <1>1. /\ Size \in Nat \ {0} /\ f \in [0 .. Size - 1 -> Data]
        /\ a \in 0 .. Size - 1 /\ b \in 0 .. Size - 1 /\ Empty \in Data
    BY QueueFacts DEF QueueInv, RingTyped, Data
  <1>2. /\ dtq'[Q] = g /\ r'[Q] = Turn(a, Size) /\ w'[Q] = b /\ a # b
        /\ var' = [var EXCEPT ![t] = f[a]]
        /\ dtq_act[Q] /\ dtq_act' = dtq_act
    BY Turns DEF Delivers, Holds, QueueInv, RingTyped
  <1>3. /\ Items(g, Turn(a, Size), b, Size) = Tail(s) /\ Head(s) = f[a] /\ s # <<>>
    <2> HIDE DEF f, a, b
    <2>1. Taken(f, a, b, Size, Empty)
      BY <1>1, <1>2, ItemsTail
    <2>2. QED
      BY <2>1 DEF Taken
  <1>4. s \in Seq(Datum)
    BY DEF QueueInv, RingHolds
  <1>5. f[a] \in Datum /\ Tail(s) \in Seq(Datum)
    <2> HIDE DEF f, a, s
    <2>1. QED
      BY <1>3, <1>4, HeadTailProperties
  <1>6. RingTyped'
    <2>1. g \in [0 .. Size - 1 -> Data]
      BY <1>1
    <2>2. Turn(a, Size) \in 0 .. Size - 1
      BY <1>1, Places
    <2>3. /\ DOMAIN dtq_act' = {Q} /\ DOMAIN dtq' = {Q} /\ DOMAIN r' = {Q} /\ DOMAIN w' = {Q}
          /\ dtq_act'[Q] \in BOOLEAN
      BY DEF Delivers, QueueInv, RingTyped
    <2>4. QED
      BY <1>1, <1>2, <2>1, <2>2, <2>3 DEF RingTyped, Size, Q
  <1>7. Items(dtq'[Q], r'[Q], w'[Q], Size) = Tail(s)
    BY <1>2, <1>3
  <1>8. RingHolds'
    BY <1>5, <1>7 DEF RingHolds, Size, Q
  <1>9. VarTyped'
    BY <1>2, <1>5 DEF QueueInv, VarTyped
  <1>10. Given' = [Given EXCEPT ![t] = <<Head(s)>>]
    <2> HIDE DEF f, a, s
    <2>1. var' = [var EXCEPT ![t] = Head(s)] /\ Head(s) \in Datum
      BY <1>2, <1>3, <1>5
    <2>2. QED
      BY <2>1 DEF Given, QueueInv, VarTyped
  <1>11. Chan!Deliver(t)
    <2>1. Contents(Q) = s
      BY <1>2 DEF Contents, Size
    <2>2. Contents(Q)' = Items(dtq'[Q], r'[Q], w'[Q], Size)
      BY <1>2 DEF Contents, Size, Q
    <2>3. QED
      <3> HIDE DEF f, a, s
      <3>1. QED
        BY <1>2, <1>3, <1>7, <1>10, <2>1, <2>2 DEF Chan!Deliver, Given, Q
  <1>12. QED
    BY <1>6, <1>8, <1>9, <1>11 DEF Simulates, Chan!Next

\* A forced send into a full ring drops the oldest datum.
LEMMA ForcesSimulates ==
  ASSUME QueueInv, DtqId = {Q}, NEW d \in Datum, Forces(d)
  PROVE  Simulates
  <1> DEFINE f == dtq[Q]
             a == r[Q]
             b == w[Q]
             g == [f EXCEPT ![b] = d, ![a] = Empty]
             s == Items(f, a, b, Size)
             s2 == IF s = <<>> THEN <<>> ELSE Append(Tail(s), d)
  <1>1. /\ Size \in Nat \ {0} /\ f \in [0 .. Size - 1 -> Data]
        /\ a \in 0 .. Size - 1 /\ b \in 0 .. Size - 1 /\ Empty \in Data /\ d \in Data
    BY QueueFacts DEF QueueInv, RingTyped, Data
  <1>2. /\ dtq'[Q] = g /\ r'[Q] = Turn(a, Size) /\ w'[Q] = Turn(b, Size)
        /\ Turn(b, Size) = a
        /\ dtq_act[Q] /\ dtq_act' = dtq_act /\ var' = var
    BY Turns DEF Forces, Full, QueueInv, RingTyped
  <1>3. /\ Items(g, Turn(a, Size), Turn(b, Size), Size) = s2
        /\ Len(s) = Size - 1
    <2> HIDE DEF f, a, b
    <2>1. Forced(f, a, b, Size, d, Empty)
      BY <1>1, <1>2, ItemsForced
    <2>2. QED
      BY <2>1 DEF Forced
  <1>4. s \in Seq(Datum)
    BY DEF QueueInv, RingHolds
  <1>5. s2 \in Seq(Datum)
    <2> HIDE DEF s
    <2>1. CASE s = <<>>
      BY <2>1
    <2>2. CASE s # <<>>
      <3>1. Tail(s) \in Seq(Datum)
        BY <1>4, <2>2, HeadTailProperties
      <3>2. Append(Tail(s), d) \in Seq(Datum)
        BY <3>1, AppendProperties
      <3>3. QED
        BY <2>2, <3>2
    <2>3. QED
      BY <2>1, <2>2
  <1>6. RingTyped'
    <2>1. g \in [0 .. Size - 1 -> Data]
      BY <1>1
    <2>2. Turn(a, Size) \in 0 .. Size - 1 /\ Turn(b, Size) \in 0 .. Size - 1
      BY <1>1, Places
    <2>3. /\ DOMAIN dtq_act' = {Q} /\ DOMAIN dtq' = {Q} /\ DOMAIN r' = {Q} /\ DOMAIN w' = {Q}
          /\ dtq_act'[Q] \in BOOLEAN
      BY DEF Forces, QueueInv, RingTyped
    <2>4. QED
      BY <1>1, <1>2, <2>1, <2>2, <2>3 DEF RingTyped, Size, Q
  <1>7. Items(dtq'[Q], r'[Q], w'[Q], Size) = s2
    BY <1>2, <1>3
  <1>8. RingHolds' /\ VarTyped'
    <2> HIDE DEF s2
    <2>1. QED
      BY <1>2, <1>5, <1>7 DEF RingHolds, Size, Q, QueueInv, VarTyped
  <1>9. Chan!Force(d)
    <2>1. Contents(Q) = s
      BY <1>2 DEF Contents, Size
    <2>2. Contents(Q)' = Items(dtq'[Q], r'[Q], w'[Q], Size)
      BY <1>2 DEF Contents, Size, Q
    <2>3. Given' = Given
      BY <1>2 DEF Given
    <2>4. QED
      <3> HIDE DEF f, a, b, s
      <3>1. QED
        BY <1>2, <1>3, <1>7, <2>1, <2>2, <2>3 DEF Chan!Force, Given, Q, Size
  <1>10. QED
    BY <1>6, <1>8, <1>9 DEF Simulates, Chan!Next

\* Creation makes an empty channel, deletion loses what it held.
LEMMA CreateSimulates ==
  ASSUME QueueInv, DtqId = {Q}, sys_cre_dtq(Q)
  PROVE  Simulates
  <1> DEFINE g == [i \in DOMAIN dtq[Q] |-> Empty]
  <1>1. /\ ~dtq_act[Q] /\ dtq_act'[Q] = TRUE /\ dtq'[Q] = g /\ r'[Q] = 0 /\ w'[Q] = 0
        /\ var' = var
    BY DEF sys_cre_dtq, QueueInv, RingTyped
  <1>2. /\ DOMAIN dtq_act' = {Q} /\ DOMAIN dtq' = {Q} /\ DOMAIN r' = {Q} /\ DOMAIN w' = {Q}
    BY DEF sys_cre_dtq, QueueInv, RingTyped
  <1>3. Size \in Nat \ {0} /\ 0 \in 0 .. Size - 1
    BY QueueFacts
  <1>4. g \in [0 .. Size - 1 -> Data]
    BY DEF QueueInv, RingTyped, Data
  <1>5. Items(g, 0, 0, Size) = <<>>
    <2> HIDE DEF g
    <2>1. EmptyIffMet(g, 0, 0, Size)
      BY <1>3, <1>4, ItemsEmpty
    <2>2. QED
      BY <2>1 DEF EmptyIffMet
  <1>6. RingTyped'
    <2> HIDE DEF g
    <2>1. QED
      BY <1>1, <1>2, <1>3, <1>4 DEF RingTyped, Size, Q
  <1>7. Items(dtq'[Q], r'[Q], w'[Q], Size) = <<>>
    BY <1>1, <1>5
  <1>8. RingHolds'
    BY <1>7 DEF RingHolds, Size, Q
  <1>9. VarTyped'
    BY <1>1 DEF QueueInv, VarTyped
  <1>10. Contents(Q)' = <<>>
    BY <1>1, <1>7 DEF Contents, Size, Q
  <1>11. Given' = Given
    BY <1>1 DEF Given
  <1>12. Chan!Toggle
    BY <1>1, <1>10, <1>11 DEF Chan!Toggle, Given, Q
  <1>13. QED
    BY <1>6, <1>8, <1>9, <1>12 DEF Simulates, Chan!Next

LEMMA ClosesSimulates ==
  ASSUME QueueInv, DtqId = {Q}, Closes
  PROVE  Simulates
  <1>1. dtq_act[Q] = TRUE /\ dtq_act'[Q] = FALSE
    BY DEF Closes, QueueInv, RingTyped
  <1>2. RingTyped' /\ RingHolds' /\ VarTyped'
    BY <1>1 DEF Closes, QueueInv, RingTyped, RingHolds, VarTyped, Q, Size
  <1>3. Contents(Q)' = <<>>
    BY <1>1 DEF Contents, Q
  <1>4. Given' = Given
    BY DEF Given, Closes
  <1>5. Chan!Toggle
    BY <1>1, <1>3, <1>4 DEF Chan!Toggle, Given, Q
  <1>6. QED
    BY <1>2, <1>5 DEF Simulates, Chan!Next

LEMMA EffectSimulates ==
  ASSUME QueueInv, DtqId = {Q}, FirstReaderSleeps(Q), Effect
  PROVE  Simulates
  BY StaysSimulates, UsesSimulates, CreateSimulates, ClosesSimulates, AcceptsSimulates,
     HandsOverSimulates, ForcesSimulates, DeliversSimulates DEF Effect

-----------------------------------------------------------------------------
(***************************************************************************)
(* The steps of the module Keyboard.                                       *)
(***************************************************************************)
\* The kernel only makes tasks current.
LEMMA KernelKeepsTasks ==
  ASSUME c_tskid \in [Cpu -> Task], NEW c \in Cpu, KernelStep(c)
  PROVE  c_tskid' \in [Cpu -> Task]
  <1> USE DEF Return
  <1>1. CASE SystemCall(c)
    <2>1. CASE slp_tsk(c) \/ tslp_tsk(c) \/ dly_tsk(c)
      BY <2>1 DEF slp_tsk, tslp_tsk, dly_tsk
    <2>2. ASSUME NEW u \in Task, wup_tsk(c, u) \/ can_wup(c, u) \/ act_tsk(c, u)
          PROVE  c_tskid' = c_tskid
      BY <2>2 DEF wup_tsk, can_wup, act_tsk, QueueWakeup, WakeUp, RefuseWakeup
    <2>3. QED
      BY <1>1, <2>1, <2>2 DEF SystemCall
  <1>2. CASE Interrupt(c)
    BY <1>2 DEF Interrupt, irq0, apic_timer
  <1>3. CASE sched_do_next_tsk(c)
    BY <1>3 DEF sched_do_next_tsk, Switch
  <1>4. CASE sched_timeout(c) \/ tick_done(c) \/ store_ret(c) \/ intr_leave(c) \/ clear_flag(c)
    BY <1>4 DEF sched_timeout, tick_done, store_ret, intr_leave, clear_flag
  <1>5. QED
    BY <1>1, <1>2, <1>3, <1>4 DEF KernelStep, Kernel

\* So do the services of the data queues: each one returns to its caller.
LEMMA CallKeepsTasks ==
  ASSUME NEW c \in Cpu, DtqCall(c)
  PROVE  c_tskid' = c_tskid
  <1> USE DEF Return, Reply, RefuseDtq
  <1>1. CASE acre_dtq(c)
    BY <1>1 DEF acre_dtq
  <1>2. ASSUME NEW q \in DtqId, cre_dtq(c, q) \/ del_dtq(c, q)
        PROVE  c_tskid' = c_tskid
    BY <1>2 DEF cre_dtq, del_dtq
  <1>3. ASSUME NEW q \in DtqId, psnd_dtq(c, q) \/ tsnd_dtq(c, q) \/ fsnd_dtq(c, q)
        PROVE  c_tskid' = c_tskid
    BY <1>3 DEF psnd_dtq, tsnd_dtq, fsnd_dtq, Send
  <1>4. ASSUME NEW q \in DtqId, prcv_dtq(c, q) \/ trcv_dtq(c, q)
        PROVE  c_tskid' = c_tskid
    BY <1>4 DEF prcv_dtq, trcv_dtq, Take
  <1>5. QED
    BY <1>1, <1>2, <1>3, <1>4 DEF DtqCall

\* Every step of the specification has an effect, and keeps what QueueInv says
\* of the CPUs and of the keyboard.
LEMMA StepEffect ==
  ASSUME QueueInv, DtqId = {Q},
         [\E c \in Cpu : DataQueueStep(c)]_<<vars, dtqVars, keyVars>>
  PROVE  Effect /\ c_tskid' \in [Cpu -> Task] /\ key_dtq_id' \in {Q, 0}
  <1>1. CASE UNCHANGED <<vars, dtqVars, keyVars>>
    BY <1>1 DEF QueueInv, vars, dtqVars, keyVars, Effect, Stays, RingSame
  <1>2. ASSUME NEW c \in Cpu, DtqCall(c), UNCHANGED keyVars
        PROVE  Effect /\ c_tskid' \in [Cpu -> Task] /\ key_dtq_id' \in {Q, 0}
    BY <1>2, CallEffect, CallKeepsTasks DEF QueueInv, keyVars
  <1>3. ASSUME NEW c \in Cpu, irq1(c)
        PROVE  Effect /\ c_tskid' \in [Cpu -> Task] /\ key_dtq_id' \in {Q, 0}
    <2>1. Effect
      BY <1>3, KeyEffect
    <2>2. UNCHANGED <<c_tskid, key_dtq_id>>
      BY <1>3 DEF irq1
    <2>3. QED
      BY <2>1, <2>2 DEF QueueInv
  <1>4. ASSUME NEW c \in Cpu, NEW q \in DtqId, set_key_task(c, q)
        PROVE  Effect /\ c_tskid' \in [Cpu -> Task] /\ key_dtq_id' \in {Q, 0}
    BY <1>4 DEF QueueInv, set_key_task, Reply, Return, dtqVars, Effect, Stays, RingSame
  <1>5. ASSUME NEW c \in Cpu, KernelStep(c), DtqRead(c), UNCHANGED keyVars
        PROVE  Effect /\ c_tskid' \in [Cpu -> Task] /\ key_dtq_id' \in {Q, 0}
    BY <1>5, KernelEffect, KernelKeepsTasks DEF QueueInv, keyVars
  <1>6. QED
    BY <1>1, <1>2, <1>3, <1>4, <1>5 DEF DataQueueStep

LEMMA InitQueueInv ==
  ASSUME DtqId = {Q}, TasksInit, DtqInit, key_init
  PROVE  QueueInv /\ Chan!Init
  <1>1. Size \in Nat \ {0} /\ 0 \in 0 .. Size - 1 /\ dtqcnt[Q] = Size
    BY QueueFacts DEF Size
  <1>2. /\ dtq[Q] = [i \in 0 .. Size - 1 |-> Empty] /\ r[Q] = 0 /\ w[Q] = 0
        /\ dtq_act[Q] = FALSE /\ var = [t \in Task |-> Unused]
    BY <1>1 DEF DtqInit
  <1>3. RingTyped
    BY <1>1, <1>2 DEF RingTyped, DtqInit, Data
  <1>4. RingHolds
    <2>1. dtq[Q] \in [0 .. Size - 1 -> Data]
      BY <1>3 DEF RingTyped
    <2>2. EmptyIffMet(dtq[Q], 0, 0, Size)
      BY <1>1, <2>1, ItemsEmpty
    <2>3. Items(dtq[Q], r[Q], w[Q], Size) = <<>>
      BY <1>2, <2>2 DEF EmptyIffMet
    <2>4. QED
      BY <2>3 DEF RingHolds
  <1>5. c_tskid \in [Cpu -> Task]
    BY CpuAssumption DEF TasksInit
  <1>6. QueueInv
    BY <1>2, <1>3, <1>4, <1>5 DEF QueueInv, VarTyped, key_init
  <1>7. Chan!Init
    <2>1. Given = [t \in Task |-> <<>>]
      BY <1>2, QueueFacts DEF Given
    <2>2. Contents(Q) = <<>>
      BY <1>2 DEF Contents
    <2>3. QED
      BY <1>2, <2>1, <2>2 DEF Chan!Init, Given, Q
  <1>8. QED
    BY <1>6, <1>7

-----------------------------------------------------------------------------
(***************************************************************************)
(* Who waits at the two ends of the queue.                                 *)
(*                                                                         *)
(* What is asked of the application, as of one with semaphores: a task     *)
(* that may block on the queue is no idle task and is not woken by wup_tsk,*)
(* which would leave it in a wait queue; and a task that may be in a wait  *)
(* queue when another one deletes the data queue keeps pointers into it,   *)
(* and must not sleep on its own.                                          *)
(***************************************************************************)
USE DEF Cur, PC, Stat

Receives(t) == Issues(t, "trcv_dtq", Q) \/ Issues(t, "rcv_dtq", Q)
Sends(t) == Issues(t, "tsnd_dtq", Q) \/ Issues(t, "snd_dtq", Q)
Blocks(t) == Receives(t) \/ Sends(t)
Stray(t) == Blocks(t) /\ \E u \in Task \ {t} : Issues(u, "del_dtq", Q)

DtqApplication ==
  /\ Idle # {}
  /\ \A t \in Task : Blocks(t) =>
       t \notin Idle /\ \A u \in Task : ~Issues(u, "wup_tsk", t)
  /\ \A t \in Task : Stray(t) => ~SleepsAlone(t)

(***************************************************************************)
(* The inductive invariant.  A task that is back in user mode has used     *)
(* what it received; every sleeper is a reader, one of the blocked senders *)
(* S, or sleeps on its own; the two ends hold the readers and S; only they *)
(* and those a deletion left behind are linked; and while there is a       *)
(* reader the ring is empty.                                               *)
(***************************************************************************)
Ends == {wlink_r(Q), wlink_w(Q)}

Readers == {t \in Task : tskstat[t] = "WAI" /\ var[t] = Unset}

AtEnd(S) == [h \in Ends |-> IF h = wlink_r(Q) THEN Readers ELSE S]

Heard == \A c \in Cpu : pc[c] = "user" => var[c_tskid[c]] = Unused

Senders(S) ==
  /\ S \subseteq Task
  /\ \A t \in S : tskstat[t] = "WAI" /\ var[t] = Unused /\ Sends(t)

Sleeping(S) ==
  \A t \in Task : tskstat[t] = "WAI" =>
    \/ t \in Readers /\ Receives(t)
    \/ t \in S
    \/ var[t] = Unused /\ SleepsAlone(t)

Hooked(S) == \A t \in Task : InQueue(wlink, t) => t \in Readers \cup S \/ Stray(t)

NoWakeups == \A t \in Task : Blocks(t) => wupcnt[t] = 0

EmptyToReaders == Readers # {} => r[Q] = w[Q]

WaitsWith(S) ==
  /\ Lists(WNode, wlink, Ends, AtEnd(S))
  /\ Senders(S) /\ Sleeping(S) /\ Hooked(S) /\ NoWakeups /\ EmptyToReaders

DtqInv == Layer /\ QueueInv /\ Heard /\ \E S : WaitsWith(S)

\* What each step keeps of it (the ring is kept by every effect, above).
Keeps == Layer' /\ Heard' /\ \E S : WaitsWith(S)'

-----------------------------------------------------------------------------
\* The two heads are nodes, but no tasks.
LEMMA EndNodes ==
  ASSUME DtqId = {Q}
  PROVE  /\ wlink_r(Q) # wlink_w(Q) /\ Ends \subseteq WNode /\ Ends \cap Task = {}
         /\ wlink_r(Q) \in Ends /\ wlink_w(Q) \in Ends
         /\ Unset # Unused /\ Unset \notin Datum /\ Unused \notin Datum
  <1>1. {wlink_r(q) : q \in DtqId} \cup {wlink_w(q) : q \in DtqId} \subseteq WHead
        /\ DtqId \subseteq 1 .. 9
    BY DtqAssumption
  <1>2. Ends \subseteq WHead /\ Q \in 1 .. 9
    BY <1>1 DEF Ends
  <1>3. wlink_r(Q) # wlink_w(Q)
    BY <1>2 DEF wlink_r, wlink_w
  <1>4. Unset # Unused
    BY DEF Unset, Unused
  <1>5. Ends \subseteq WNode /\ Ends \cap Task = {}
    BY <1>2, WaitNodes, LinkAssumption
  <1>6. QED
    BY <1>3, <1>4, <1>5, QueueFacts DEF Ends

\* What the ends hold, spelt out.
LEMMA EndLists ==
  ASSUME DtqId = {Q}, NEW S, WaitsWith(S)
  PROVE  /\ IsList(WNode, wlink, wlink_r(Q), Readers)
         /\ IsList(WNode, wlink, wlink_w(Q), S)
         /\ AtEnd(S)[wlink_r(Q)] = Readers /\ AtEnd(S)[wlink_w(Q)] = S
         /\ Readers \subseteq Task /\ S \subseteq Task /\ Readers \cap S = {}
         /\ \A h \in Ends : AtEnd(S)[h] \subseteq Task
  <1>1. AtEnd(S)[wlink_r(Q)] = Readers /\ AtEnd(S)[wlink_w(Q)] = S
    BY EndNodes DEF AtEnd
  <1>2. IsList(WNode, wlink, wlink_r(Q), Readers) /\ IsList(WNode, wlink, wlink_w(Q), S)
    BY <1>1, EndNodes DEF WaitsWith, Lists
  <1>3. Readers \subseteq Task /\ S \subseteq Task /\ Readers \cap S = {}
    BY EndNodes DEF Readers, WaitsWith, Senders
  <1>4. \A h \in Ends : AtEnd(S)[h] \subseteq Task
    BY <1>3 DEF AtEnd
  <1>5. QED
    BY <1>1, <1>2, <1>3, <1>4

\* The task a send finds first is a reader.
LEMMA FirstReads ==
  ASSUME DtqId = {Q}, DtqInv
  PROVE  /\ ReaderWaits(Q) <=> Readers # {}
         /\ ReaderWaits(Q) => FirstReader(Q) \in Readers
         /\ FirstReaderSleeps(Q)
  <1>1. PICK S : WaitsWith(S)
    BY DEF DtqInv
  <1>2. ListFacts(WNode, wlink, wlink_r(Q), Readers)
    BY <1>1, EndLists, ListLinks
  <1>3. /\ ReaderWaits(Q) <=> Readers # {}
        /\ ReaderWaits(Q) => FirstReader(Q) \in Readers
    BY <1>2 DEF ListFacts, ReaderWaits, FirstReader
  <1>4. ReaderWaits(Q) => ~Holds(Q)
    BY <1>1, <1>3 DEF WaitsWith, EmptyToReaders, Holds
  <1>5. FirstReaderSleeps(Q)
    BY <1>3, <1>4 DEF FirstReaderSleeps, Readers
  <1>6. QED
    BY <1>3, <1>5

\* The running task of a CPU in user mode is no reader and no sender.
LEMMA UserTask ==
  ASSUME DtqInv, NEW c \in Cpu, pc[c] = "user"
  PROVE  /\ c_tskid[c] \in Task /\ tskstat[c_tskid[c]] = "RUN"
         /\ var[c_tskid[c]] = Unused
  BY Running DEF DtqInv, Heard

\* What the other CPUs have heard stays.
LEMMA OthersHeard ==
  ASSUME DtqInv, NEW c \in Cpu, NEW to \in {"ret", "leave"}, LeftTo(c, to),
         \A t \in Task : t # c_tskid[c] /\ var[t] = Unused => var'[t] = Unused
  PROVE  Heard'
  <1> SUFFICES ASSUME NEW b \in Cpu, pc'[b] = "user" PROVE var'[c_tskid'[b]] = Unused
    BY DEF Heard
  <1>1. pc' = [pc EXCEPT ![c] = to] /\ c_tskid' = c_tskid
    BY DEF LeftTo
  <1>2. pc \in [Cpu -> PC] /\ c_tskid[b] \in Task
    BY DEF DtqInv, Layer, TypeOK
  <1>3. b # c /\ pc[b] = "user"
    BY <1>1, <1>2
  <1>4. c_tskid[b] # c_tskid[c]
    BY <1>3 DEF DtqInv, Layer, Placed
  <1>5. QED
    BY <1>1, <1>2, <1>3, <1>4 DEF DtqInv, Heard

\* A step that moves no sleeper.
LEMMA SameWaits ==
  ASSUME NEW S, WaitsWith(S), UNCHANGED <<wlink, wupcnt>>,
         \A t \in Task : tskstat'[t] = "WAI" <=> tskstat[t] = "WAI",
         \A t \in Task : tskstat[t] = "WAI" => var'[t] = var[t],
         Readers # {} => r'[Q] = w'[Q]
  PROVE  WaitsWith(S)'
  <1>1. Readers' = Readers
    BY DEF Readers
  <1>2. AtEnd(S)' = AtEnd(S)
    BY <1>1 DEF AtEnd, Ends, wlink_r, wlink_w, Q
  <1>3. Lists(WNode, wlink, Ends, AtEnd(S))'
    BY <1>2 DEF WaitsWith, Ends, wlink_r, wlink_w, Q
  <1>4. Senders(S)' /\ Sleeping(S)' /\ Hooked(S)'
    BY <1>1 DEF WaitsWith, Senders, Sleeping, Hooked
  <1>5. NoWakeups' /\ EmptyToReaders'
    BY <1>1 DEF WaitsWith, NoWakeups, EmptyToReaders, Q
  <1>6. QED
    BY <1>3, <1>4, <1>5 DEF WaitsWith

-----------------------------------------------------------------------------
(***************************************************************************)
(* The services.                                                           *)
(***************************************************************************)
\* One that only answers, and changes no more than the ring and the variable of
\* its caller.
LEMMA PlainWaits ==
  ASSUME DtqInv, NEW c \in Cpu, pc[c] = "user", NEW e \in Int, Reply(c, e),
         \A t \in Task : t # c_tskid[c] => var'[t] = var[t],
         Readers # {} => r'[Q] = w'[Q]
  PROVE  Keeps
  <1>1. c_tskid[c] \in Task /\ tskstat[c_tskid[c]] = "RUN"
    BY UserTask
  <1>2. Layer'
    BY ReplyLayer DEF DtqInv
  <1>3. LeftTo(c, "ret")
    <2>1. Returned(c)
      BY ReturnReturns DEF Reply, DtqInv, Layer
    <2>2. QED
      BY <2>1 DEF Returned, LeftTo
  <1>4. Heard'
    BY <1>3, OthersHeard
  <1>5. UNCHANGED <<wlink, wupcnt, tskstat>>
    BY DEF Reply, readyVars
  <1>6. PICK S : WaitsWith(S)
    BY DEF DtqInv
  <1>7. WaitsWith(S)'
    BY <1>1, <1>5, <1>6, SameWaits
  <1>8. QED
    BY <1>2, <1>4, <1>7 DEF Keeps

LEMMA RefusedWaits ==
  ASSUME DtqInv, NEW c \in Cpu, pc[c] = "user", NEW e \in Int, RefuseDtq(c, e)
  PROVE  Keeps
  <1>1. Reply(c, e) /\ var' = var /\ r' = r /\ w' = w
    BY DEF RefuseDtq, dtqVars
  <1>2. Readers # {} => r'[Q] = w'[Q]
    BY <1>1 DEF DtqInv, WaitsWith, EmptyToReaders
  <1>3. QED
    BY <1>1, <1>2, PlainWaits

\* Creation empties the ring.
LEMMA CreateWaits ==
  ASSUME DtqId = {Q}, DtqInv, NEW c \in Cpu, pc[c] = "user", NEW e \in Int,
         Reply(c, e), sys_cre_dtq(Q)
  PROVE  Keeps
  <1>1. var' = var /\ r'[Q] = 0 /\ w'[Q] = 0
    BY DEF sys_cre_dtq, DtqInv, QueueInv, RingTyped
  <1>2. QED
    BY <1>1, PlainWaits

\* A datum in the ring means that nobody reads.
LEMMA StoreWaits ==
  ASSUME DtqId = {Q}, DtqInv, NEW c \in Cpu, pc[c] = "user", Reply(c, E_OK),
         ~ReaderWaits(Q) \/ Holds(Q),
         \A t \in Task : t # c_tskid[c] => var'[t] = var[t]
  PROVE  Keeps
  <1>1. Readers = {}
    BY FirstReads DEF FirstReaderSleeps
  <1>2. QED
    BY <1>1, Codes, PlainWaits

\* The running task joins the queue at h, and sleeps.
Slept(c, S, h) ==
  /\ Layer' /\ LeftTo(c, "ret")
  /\ tskstat' = [tskstat EXCEPT ![c_tskid[c]] = "WAI"] /\ wupcnt' = wupcnt
  /\ Lists(WNode, wlink', Ends, [g \in Ends |-> IF g = h THEN AtEnd(S)[g] \cup {c_tskid[c]}
                                                ELSE AtEnd(S)[g]])
  /\ \A u \in Task \ {c_tskid[c]} : InQueue(wlink, u)' => InQueue(wlink, u) \/ u \in AtEnd(S)[h]

LEMMA JoinSleeps ==
  ASSUME DtqId = {Q}, DtqApplication, DtqInv, NEW S, WaitsWith(S), NEW c \in Cpu,
         pc[c] = "user", Blocks(c_tskid[c]), NEW h \in Ends, NEW tmout,
         JoinAndSleep(c, wlink, h, Q \in DtqByPri, tmout), Return(c, E_OK)
  PROVE  Slept(c, S, h)
  <1>1. PICK t \in Task : t = c_tskid[c] /\ tskstat[t] = "RUN"
    BY UserTask
  <1>2. wupcnt[t] = 0 /\ t \notin Idle
    BY <1>1 DEF WaitsWith, NoWakeups, DtqApplication
  <1>3. Block(t) /\ wupcnt' = wupcnt /\ UNCHANGED <<tcbVars, eax>>
    BY <1>1, <1>2 DEF JoinAndSleep, sys_slp_tsk, sys_tslp_tsk, TakeWakeup
  <1>4. tskstat' = [tskstat EXCEPT ![t] = "WAI"]
    BY <1>3 DEF Block
  <1>5. PICK b \in BOOLEAN : b <=> Q \in DtqByPri
    <2>1. CASE Q \in DtqByPri
      BY <2>1
    <2>2. CASE Q \notin DtqByPri
      BY <2>2
    <2>3. QED
      BY <2>1, <2>2
  <1>6. wlink' = Joins(wlink, h, t, b)
    BY <1>1, <1>5 DEF JoinAndSleep, Joins
  <1>7. JoinsLists(wlink, Ends, AtEnd(S), h, t, b)
    <2>1. tskpri \in [Task -> Pri] /\ wlink \in Ring(WNode)
      BY DEF DtqInv, Layer, TypeOK
    <2>2. Lists(WNode, wlink, Ends, AtEnd(S)) /\ Ends \cap Task = {}
          /\ AtEnd(S)[h] \subseteq Task
      BY EndNodes, EndLists DEF WaitsWith
    <2>3. \A g \in Ends : t \notin AtEnd(S)[g]
      BY <1>1 DEF AtEnd, Readers, WaitsWith, Senders
    <2>4. PICK q, M : q = wlink /\ M = AtEnd(S)
      OBVIOUS
    <2>5. JoinsLists(q, Ends, M, h, t, b)
      BY <2>1, <2>2, <2>3, <2>4, JoinLists
    <2>6. QED
      BY <2>4, <2>5
  <1>8. /\ wlink' \in Ring(WNode)
        /\ Lists(WNode, wlink', Ends, [g \in Ends |-> IF g = h THEN AtEnd(S)[g] \cup {t}
                                                      ELSE AtEnd(S)[g]])
        /\ \A u \in Task \ {t} : InQueue(wlink', u) => InQueue(wlink, u) \/ u \in AtEnd(S)[h]
    BY <1>6, <1>7 DEF JoinsLists
  <1>9. Returned(c)
    BY Codes, ReturnReturns DEF DtqInv, Layer
  <1>10. Layer'
    <2>1. sys_slp_tsk(c_tskid[c]) \/ \E d : sys_tslp_tsk(c_tskid[c], d)
      BY DEF JoinAndSleep
    <2>2. QED
      BY <1>1, <1>2, <1>3, <1>8, <1>9, <2>1, SleepLayer DEF DtqInv
  <1>11. LeftTo(c, "ret")
    BY <1>9 DEF Returned, LeftTo
  <1>12. \A u \in Task \ {t} : InQueue(wlink, u)' => InQueue(wlink, u) \/ u \in AtEnd(S)[h]
    BY <1>8 DEF InQueue
  <1>13. QED
    BY <1>1, <1>3, <1>4, <1>8, <1>10, <1>11, <1>12 DEF Slept

\* A receiver joins the reading end of an empty ring.
LEMMA ReaderJoins ==
  ASSUME DtqId = {Q}, DtqApplication, DtqInv, NEW c \in Cpu, pc[c] = "user",
         Receives(c_tskid[c]), ~Holds(Q), FoundEmpty(c), NEW tmout,
         JoinAndSleep(c, wlink, wlink_r(Q), Q \in DtqByPri, tmout), Return(c, E_OK)
  PROVE  Keeps
  <1>1. PICK t \in Task : t = c_tskid[c] /\ tskstat[t] = "RUN" /\ var[t] = Unused
    BY UserTask
  <1>2. PICK S : WaitsWith(S)
    BY DEF DtqInv
  <1>3. Slept(c, S, wlink_r(Q))
    BY <1>2, EndNodes, JoinSleeps DEF Blocks
  <1>4. /\ var \in [Task -> Datum \cup {Unset, Unused}] /\ tskstat \in [Task -> Stat]
        /\ var' = [var EXCEPT ![t] = Unset] /\ UNCHANGED <<r, w>>
        /\ tskstat' = [tskstat EXCEPT ![t] = "WAI"] /\ wupcnt' = wupcnt
    BY <1>1, <1>3 DEF DtqInv, QueueInv, VarTyped, Layer, TypeOK, FoundEmpty, Slept
  <1>5. Readers' = Readers \cup {t}
    BY <1>1, <1>4 DEF Readers
  <1>6. Lists(WNode, wlink', Ends, AtEnd(S)')
    <2>1. AtEnd(S)' = [g \in Ends |-> IF g = wlink_r(Q) THEN AtEnd(S)[g] \cup {t}
                                      ELSE AtEnd(S)[g]]
      BY <1>5 DEF AtEnd, Ends, wlink_r, wlink_w, Q
    <2>2. QED
      BY <1>1, <1>3, <2>1 DEF Slept
  <1>7. Senders(S)'
    BY <1>1, <1>2, <1>4 DEF WaitsWith, Senders
  <1>8. Sleeping(S)'
    <2> SUFFICES ASSUME NEW u \in Task, tskstat'[u] = "WAI"
                 PROVE  \/ u \in Readers' /\ Receives(u)
                        \/ u \in S
                        \/ var'[u] = Unused /\ SleepsAlone(u)
      BY DEF Sleeping
    <2>1. CASE u = t
      BY <1>1, <1>5, <2>1
    <2>2. CASE u # t
      BY <1>2, <1>4, <1>5, <2>2 DEF WaitsWith, Sleeping
    <2>3. QED
      BY <2>1, <2>2
  <1>9. Hooked(S)'
    <2> SUFFICES ASSUME NEW u \in Task, InQueue(wlink, u)'
                 PROVE  u \in Readers' \cup S \/ Stray(u)
      BY DEF Hooked
    <2>1. CASE u = t
      BY <1>5, <2>1
    <2>2. CASE u # t
      <3>1. InQueue(wlink, u) \/ u \in Readers
        BY <1>1, <1>2, <1>3, <2>2, EndLists DEF Slept
      <3>2. QED
        BY <1>2, <1>5, <3>1 DEF WaitsWith, Hooked
    <2>3. QED
      BY <2>1, <2>2
  <1>10. NoWakeups' /\ EmptyToReaders'
    BY <1>2, <1>4 DEF WaitsWith, NoWakeups, EmptyToReaders, Holds, Q
  <1>11. Heard'
    BY <1>1, <1>3, <1>4, OthersHeard DEF Slept
  <1>12. WaitsWith(S)'
    BY <1>6, <1>7, <1>8, <1>9, <1>10 DEF WaitsWith, Ends, wlink_r, wlink_w, Q
  <1>13. QED
    BY <1>3, <1>11, <1>12 DEF Keeps, Slept

\* A sender that finds no room joins the writing end.
LEMMA SenderJoins ==
  ASSUME DtqId = {Q}, DtqApplication, DtqInv, NEW c \in Cpu, pc[c] = "user",
         Sends(c_tskid[c]), UNCHANGED dtqVars, NEW tmout,
         JoinAndSleep(c, wlink, wlink_w(Q), Q \in DtqByPri, tmout), Return(c, E_OK)
  PROVE  Keeps
  <1>1. PICK t \in Task : t = c_tskid[c] /\ tskstat[t] = "RUN" /\ var[t] = Unused
    BY UserTask
  <1>2. PICK S : WaitsWith(S)
    BY DEF DtqInv
  <1>3. Slept(c, S, wlink_w(Q))
    BY <1>2, EndNodes, JoinSleeps DEF Blocks
  <1>4. /\ var \in [Task -> Datum \cup {Unset, Unused}] /\ tskstat \in [Task -> Stat]
        /\ UNCHANGED <<var, r, w>>
        /\ tskstat' = [tskstat EXCEPT ![t] = "WAI"] /\ wupcnt' = wupcnt
    BY <1>1, <1>3 DEF DtqInv, QueueInv, VarTyped, Layer, TypeOK, dtqVars, Slept
  <1>5. Readers' = Readers
    BY <1>1, <1>4, EndNodes DEF Readers
  <1>6. PICK T : T = S \cup {t}
    OBVIOUS
  <1>7. Lists(WNode, wlink', Ends, AtEnd(T)')
    <2>1. AtEnd(T)' = [g \in Ends |-> IF g = wlink_w(Q) THEN AtEnd(S)[g] \cup {t}
                                      ELSE AtEnd(S)[g]]
      BY <1>5, <1>6, EndNodes DEF AtEnd, Ends, wlink_r, wlink_w, Q
    <2>2. QED
      BY <1>1, <1>3, <2>1 DEF Slept
  <1>8. Senders(T)'
    BY <1>1, <1>2, <1>4, <1>6 DEF WaitsWith, Senders
  <1>9. Sleeping(T)'
    <2> SUFFICES ASSUME NEW u \in Task, tskstat'[u] = "WAI"
                 PROVE  \/ u \in Readers' /\ Receives(u)
                        \/ u \in T
                        \/ var'[u] = Unused /\ SleepsAlone(u)
      BY DEF Sleeping
    <2>1. CASE u = t
      BY <1>6, <2>1
    <2>2. CASE u # t
      BY <1>2, <1>4, <1>5, <1>6, <2>2 DEF WaitsWith, Sleeping
    <2>3. QED
      BY <2>1, <2>2
  <1>10. Hooked(T)'
    <2> SUFFICES ASSUME NEW u \in Task, InQueue(wlink, u)'
                 PROVE  u \in Readers' \cup T \/ Stray(u)
      BY DEF Hooked
    <2>1. CASE u = t
      BY <1>6, <2>1
    <2>2. CASE u # t
      <3>1. InQueue(wlink, u) \/ u \in S
        BY <1>1, <1>2, <1>3, <2>2, EndLists DEF Slept
      <3>2. QED
        BY <1>2, <1>5, <1>6, <3>1 DEF WaitsWith, Hooked
    <2>3. QED
      BY <2>1, <2>2
  <1>11. NoWakeups' /\ EmptyToReaders'
    BY <1>2, <1>4, <1>5 DEF WaitsWith, NoWakeups, EmptyToReaders, Q
  <1>12. Heard'
    BY <1>1, <1>3, <1>4, OthersHeard DEF Slept
  <1>13. WaitsWith(T)'
    BY <1>7, <1>8, <1>9, <1>10, <1>11 DEF WaitsWith, Ends, wlink_r, wlink_w, Q
  <1>14. QED
    BY <1>3, <1>12, <1>13 DEF Keeps, Slept

\* A datum is handed to the first reader: by a send, or by the keyboard.
LEMMA HandWaits ==
  ASSUME DtqId = {Q}, DtqInv, NEW c \in Cpu, NEW to \in {"ret", "leave"}, LeftTo(c, to),
         NEW d, HandToReader(Q, d), next_tsk_flag' = next_tsk_flag \/ sched_next_tsk
  PROVE  Keeps
  <1>1. PICK t \in Task : t = FirstReader(Q) /\ t \in Readers
    BY FirstReads DEF HandToReader, Readers
  <1>2. PICK S : WaitsWith(S)
    BY DEF DtqInv
  <1>3. tskstat[t] = "WAI" /\ var[t] = Unset
    BY <1>1 DEF Readers
  <1>4. PICK v \in Int : v = eax[t]
    BY DEF DtqInv, Layer, TypeOK
  <1>5. /\ Dismiss(t, v) /\ wlink' = UnlinkToSelf(wlink, t) /\ wupcnt' = wupcnt
        /\ var' = [var EXCEPT ![t] = d] /\ UNCHANGED <<r, w>>
    BY <1>1, <1>4 DEF HandToReader, Dismiss
  <1>6. PICK k : Wakes(k, {t})
    BY <1>3, <1>4, <1>5, DismissWakes DEF DtqInv
  <1>7. /\ var \in [Task -> Datum \cup {Unset, Unused}] /\ tskstat \in [Task -> Stat]
        /\ wlink \in Ring(WNode)
    BY DEF DtqInv, QueueInv, VarTyped, Layer, TypeOK
  <1>8. tskstat' = [tskstat EXCEPT ![t] = "RDY"]
    <2>1. tskstat' = [u \in Task |-> IF u \in {t} THEN "RDY" ELSE tskstat[u]]
      BY <1>6 DEF Wakes, Commit
    <2>2. QED
      BY <1>7, <2>1
  <1>9. LeavesLists(wlink, Ends, AtEnd(S), wlink_r(Q), t)
    <2>1. PICK q, M : q = wlink /\ M = AtEnd(S)
      OBVIOUS
    <2>2. /\ Lists(WNode, q, Ends, M) /\ Ends \cap Task = {} /\ wlink_r(Q) \in Ends
          /\ M[wlink_r(Q)] \subseteq Task /\ t \in M[wlink_r(Q)] /\ q \in Ring(WNode)
      BY <1>1, <1>2, <1>7, <2>1, EndNodes, EndLists DEF WaitsWith
    <2>3. LeavesLists(q, Ends, M, wlink_r(Q), t)
      BY <2>2, LeaveLists
    <2>4. QED
      BY <2>1, <2>3
  <1>10. /\ wlink' \in Ring(WNode)
         /\ Lists(WNode, wlink', Ends, [g \in Ends |-> IF g = wlink_r(Q) THEN AtEnd(S)[g] \ {t}
                                                       ELSE AtEnd(S)[g]])
         /\ ~InQueue(wlink', t)
         /\ \A u \in Task \ {t} : InQueue(wlink', u)
                                    => InQueue(wlink, u) \/ u \in AtEnd(S)[wlink_r(Q)]
    BY <1>5, <1>9 DEF LeavesLists
  <1>11. Layer'
    BY <1>6, <1>10, WakeLayerTo DEF DtqInv
  <1>12. Readers' = Readers \ {t}
    BY <1>5, <1>7, <1>8 DEF Readers
  <1>13. Lists(WNode, wlink', Ends, AtEnd(S)')
    <2>1. AtEnd(S)' = [g \in Ends |-> IF g = wlink_r(Q) THEN AtEnd(S)[g] \ {t}
                                      ELSE AtEnd(S)[g]]
      BY <1>12 DEF AtEnd, Ends, wlink_r, wlink_w, Q
    <2>2. QED
      BY <1>10, <2>1
  <1>14. \A u \in Task : u # t => tskstat'[u] = tskstat[u] /\ var'[u] = var[u]
    BY <1>5, <1>7, <1>8
  <1>15. t \notin S
    BY <1>1, <1>2, EndLists
  <1>16. Senders(S)'
    BY <1>2, <1>14, <1>15 DEF WaitsWith, Senders
  <1>17. Sleeping(S)'
    <2> SUFFICES ASSUME NEW u \in Task, tskstat'[u] = "WAI"
                 PROVE  \/ u \in Readers' /\ Receives(u)
                        \/ u \in S
                        \/ var'[u] = Unused /\ SleepsAlone(u)
      BY DEF Sleeping
    <2>1. u # t
      BY <1>7, <1>8
    <2>2. QED
      BY <1>2, <1>12, <1>14, <2>1 DEF WaitsWith, Sleeping
  <1>18. Hooked(S)'
    <2> SUFFICES ASSUME NEW u \in Task, InQueue(wlink, u)'
                 PROVE  u \in Readers' \cup S \/ Stray(u)
      BY DEF Hooked
    <2>1. InQueue(wlink', u)
      BY DEF InQueue
    <2>2. u # t
      BY <1>10, <2>1
    <2>3. InQueue(wlink, u) \/ u \in Readers
      BY <1>2, <1>10, <2>1, <2>2, EndLists
    <2>4. QED
      BY <1>2, <1>12, <2>2, <2>3 DEF WaitsWith, Hooked
  <1>19. NoWakeups' /\ EmptyToReaders'
    BY <1>2, <1>5, <1>12 DEF WaitsWith, NoWakeups, EmptyToReaders, Q
  <1>20. Heard'
    BY <1>3, <1>14, EndNodes, OthersHeard
  <1>21. WaitsWith(S)'
    BY <1>13, <1>16, <1>17, <1>18, <1>19 DEF WaitsWith, Ends, wlink_r, wlink_w, Q
  <1>22. QED
    BY <1>11, <1>20, <1>21 DEF Keeps

\* A deletion releases both ends.
LEMMA DeleteWaits ==
  ASSUME DtqId = {Q}, DtqInv, NEW c \in Cpu, pc[c] = "user",
         Issues(c_tskid[c], "del_dtq", Q), DismissAll(<<wlink_r(Q), wlink_w(Q)>>),
         Return(c, E_OK), UNCHANGED <<dtq, r, w, var>>
  PROVE  Keeps
  <1>1. PICK S : WaitsWith(S)
    BY DEF DtqInv
  <1>2. PICK A : A = Readers \cup S
    OBVIOUS
  <1>3. \A t \in A : t \in Task /\ tskstat[t] = "WAI"
    BY <1>1, <1>2 DEF Readers, WaitsWith, Senders
  <1>4. /\ \E k : Wakes(k, A)
        /\ wlink' = [f \in {"next", "prev"} |->
                       [n \in WNode |-> IF n \in Ends THEN n ELSE wlink[f][n]]]
    <2>1. PICK h, g, T : h = wlink_r(Q) /\ g = wlink_w(Q) /\ T = Readers
      OBVIOUS
    <2>2. /\ h \in WNode /\ g \in WNode /\ IsList(WNode, wlink, h, T)
          /\ IsList(WNode, wlink, g, S) /\ T \cap S = {} /\ A = T \cup S
          /\ DismissAll(<<h, g>>) /\ Layer
      BY <1>1, <1>2, <2>1, EndNodes, EndLists DEF DtqInv
    <2>3. /\ \E k : Wakes(k, T \cup S) /\ Hears(k, T \cup S, E_DLT)
          /\ wlink' = [f \in {"next", "prev"} |->
                         [n \in WNode |-> IF n \in {h, g} THEN n ELSE wlink[f][n]]]
      <3>1. \A u \in T \cup S : u \in Task /\ tskstat[u] = "WAI"
        BY <1>3, <2>2
      <3>2. Emptied(<<h, g>>)
        BY <2>2 DEF Emptied
      <3>3. Emptying(T \cup S, {h, g})
        BY <2>2, <3>1, <3>2, DismissBothWakes
      <3>4. QED
        BY <3>3 DEF Emptying
    <2>4. {h, g} = Ends
      BY <2>1 DEF Ends
    <2>5. QED
      BY <2>2, <2>3, <2>4
  <1>5. /\ tskstat' = [u \in Task |-> IF u \in A THEN "RDY" ELSE tskstat[u]]
        /\ wupcnt' = wupcnt
    BY <1>4 DEF Wakes, Commit
  <1>6. wlink \in Ring(WNode)
    BY DEF DtqInv, Layer, TypeOK
  <1>7. /\ wlink'.next = [n \in WNode |-> IF n \in Ends THEN n ELSE wlink.next[n]]
        /\ wlink'.prev = [n \in WNode |-> IF n \in Ends THEN n ELSE wlink.prev[n]]
    <2>1. "next" \in {"next", "prev"} /\ "prev" \in {"next", "prev"}
      OBVIOUS
    <2>2. QED
      BY <1>4, <2>1
  <1>8. wlink' \in Ring(WNode)
    <2>1. wlink' = [next |-> [n \in WNode |-> IF n \in Ends THEN n ELSE wlink.next[n]],
                    prev |-> [n \in WNode |-> IF n \in Ends THEN n ELSE wlink.prev[n]]]
      <3>1. \A f \in {"next", "prev"} : f = "next" \/ f = "prev"
        OBVIOUS
      <3>2. QED
        BY <1>4, <3>1
    <2>2. \A n \in WNode : wlink.next[n] \in WNode /\ wlink.prev[n] \in WNode
      BY <1>6 DEF Ring
    <2>3. QED
      BY <2>1, <2>2 DEF Ring
  <1>9. Returned(c) /\ Layer'
    <2>1. Returned(c)
      BY Codes, ReturnReturns DEF DtqInv, Layer
    <2>2. QED
      BY <1>4, <1>8, <2>1, WakeLayer DEF DtqInv
  <1>10. Readers' = {}
    BY <1>2, <1>5 DEF Readers
  <1>11. Lists(WNode, wlink', Ends, AtEnd({})')
    <2>1. PICK q, L : q = wlink' /\ L = AtEnd({})'
      OBVIOUS
    <2>2. \A h \in Ends : L[h] = {}
      BY <1>10, <2>1 DEF AtEnd, Ends, wlink_r, wlink_w, Q
    <2>3. ASSUME NEW h \in Ends
          PROVE  IsList(WNode, q, h, {})
      <3>1. h \in WNode /\ q.next[h] = h /\ q.prev[h] = h
        BY <1>7, <2>1, EndNodes
      <3>2. QED
        BY <3>1, EmptyList
    <2>4. Lists(WNode, q, Ends, L)
      BY <2>2, <2>3, EndNodes DEF Lists
    <2>5. QED
      BY <2>1, <2>4
  <1>12. Senders({})'
    BY DEF Senders
  <1>13. Sleeping({})'
    <2> SUFFICES ASSUME NEW u \in Task, tskstat'[u] = "WAI"
                 PROVE  var'[u] = Unused /\ SleepsAlone(u)
      BY DEF Sleeping
    <2>1. tskstat[u] = "WAI" /\ u \notin A
      BY <1>5
    <2>2. QED
      BY <1>1, <1>2, <2>1 DEF WaitsWith, Sleeping
  <1>14. Hooked({})'
    <2> SUFFICES ASSUME NEW u \in Task, InQueue(wlink, u)'
                 PROVE  Stray(u)
      BY DEF Hooked
    <2>1. u \notin Ends /\ u \in WNode
      BY EndNodes, WaitNodes
    <2>2. InQueue(wlink, u)
      BY <1>7, <2>1 DEF InQueue
    <2>3. CASE u \in A
      <3>1. Blocks(u)
        <4>1. CASE u \in S
          BY <1>1, <4>1 DEF WaitsWith, Senders, Blocks
        <4>2. CASE u \in Readers
          BY <1>1, <4>2, EndNodes, EndLists DEF WaitsWith, Sleeping, Readers, Blocks
        <4>3. QED
          BY <1>2, <2>3, <4>1, <4>2
      <3>2. c_tskid[c] \in Task \ {u}
        BY <1>3, <2>3, UserTask
      <3>3. QED
        BY <3>1, <3>2 DEF Stray
    <2>4. CASE u \notin A
      BY <1>1, <1>2, <2>2, <2>4 DEF WaitsWith, Hooked
    <2>5. QED
      BY <2>3, <2>4
  <1>15. NoWakeups' /\ EmptyToReaders'
    BY <1>1, <1>5, <1>10 DEF WaitsWith, NoWakeups, EmptyToReaders
  <1>16. Heard'
    <2>1. LeftTo(c, "ret")
      BY <1>9 DEF Returned, LeftTo
    <2>2. QED
      BY <2>1, OthersHeard
  <1>17. WaitsWith({})'
    BY <1>11, <1>12, <1>13, <1>14, <1>15 DEF WaitsWith, Ends, wlink_r, wlink_w, Q
  <1>18. QED
    BY <1>9, <1>16, <1>17 DEF Keeps

LEMMA SendWaits ==
  ASSUME DtqId = {Q}, DtqInv, NEW c \in Cpu, pc[c] = "user", NEW d, Send(c, Q, d)
  PROVE  Keeps
  <1>1. CASE HandToReader(Q, d) /\ Return(c, E_OK) /\ UNCHANGED next_tsk_flag
    <2>1. Returned(c)
      BY <1>1, Codes, ReturnReturns DEF DtqInv, Layer
    <2>2. LeftTo(c, "ret")
      BY <2>1 DEF Returned, LeftTo
    <2>3. QED
      BY <1>1, <2>2, HandWaits
  <1>2. CASE ~ReaderWaits(Q) /\ Reply(c, E_OK) /\ var' = var
    BY <1>2, StoreWaits
  <1>3. QED
    BY <1>1, <1>2 DEF Send

\* The services of the data queue.
LEMMA DtqCallWaits ==
  ASSUME DtqId = {Q}, DtqApplication, DtqInv, NEW c \in Cpu, DtqCall(c)
  PROVE  Keeps
  <1>1. pc[c] = "user"
    BY DEF DtqCall, acre_dtq, cre_dtq, del_dtq, psnd_dtq, tsnd_dtq, fsnd_dtq, prcv_dtq,
           trcv_dtq, Trap
  <1>2. ASSUME NEW e \in {E_OBJ, E_NOID, E_NOEXS, E_TMOUT}, RefuseDtq(c, e)
        PROVE  Keeps
    BY <1>1, <1>2, Codes, RefusedWaits
  <1>3. CASE cre_dtq(c, Q)
    BY <1>1, <1>2, <1>3, Codes, CreateWaits DEF cre_dtq
  <1>4. CASE acre_dtq(c)
    <2>1. Q \in Int
      BY DtqAssumption
    <2>2. QED
      BY <1>1, <1>2, <1>4, <2>1, CreateWaits DEF acre_dtq
  <1>5. CASE del_dtq(c, Q)
    BY <1>1, <1>2, <1>5, DeleteWaits DEF del_dtq, Trap
  <1>6. CASE psnd_dtq(c, Q)
    BY <1>1, <1>2, <1>6, SendWaits DEF psnd_dtq
  <1>7. CASE tsnd_dtq(c, Q)
    <2>1. Sends(c_tskid[c])
      BY <1>7 DEF tsnd_dtq, Trap, Sends
    <2>2. ASSUME NEW tmout, JoinAndSleep(c, wlink, wlink_w(Q), Q \in DtqByPri, tmout),
                 Return(c, E_OK), UNCHANGED dtqVars
          PROVE  Keeps
      BY <1>1, <2>1, <2>2, SenderJoins
    <2>3. QED
      BY <1>1, <1>2, <1>7, <2>2, SendWaits DEF tsnd_dtq
  <1>8. CASE fsnd_dtq(c, Q)
    BY <1>1, <1>2, <1>8, SendWaits, StoreWaits DEF fsnd_dtq
  <1>9. CASE Take(c, Q)
    <2>1. Holds(Q) /\ Reply(c, E_OK) /\ \A t \in Task : t # c_tskid[c] => var'[t] = var[t]
      BY <1>9 DEF Take, DtqInv, QueueInv, VarTyped
    <2>2. QED
      BY <1>1, <2>1, StoreWaits
  <1>10. CASE ~Holds(Q) /\ Reply(c, E_TMOUT) /\ FoundEmpty(c)
    <2>1. \A t \in Task : t # c_tskid[c] => var'[t] = var[t]
      BY <1>10 DEF FoundEmpty, DtqInv, QueueInv, VarTyped
    <2>2. r'[Q] = w'[Q]
      BY <1>10 DEF FoundEmpty, Holds
    <2>3. QED
      BY <1>1, <1>10, <2>1, <2>2, Codes, PlainWaits
  <1>11. CASE prcv_dtq(c, Q)
    BY <1>2, <1>9, <1>10, <1>11 DEF prcv_dtq
  <1>12. CASE trcv_dtq(c, Q)
    <2>1. Receives(c_tskid[c])
      BY <1>12 DEF trcv_dtq, Trap, Receives
    <2>2. ASSUME NEW tmout, JoinAndSleep(c, wlink, wlink_r(Q), Q \in DtqByPri, tmout),
                 Return(c, E_OK), ~Holds(Q), FoundEmpty(c)
          PROVE  Keeps
      BY <1>1, <2>1, <2>2, ReaderJoins
    <2>3. QED
      BY <1>2, <1>9, <1>10, <1>12, <2>2 DEF trcv_dtq
  <1>13. QED
    BY <1>3, <1>4, <1>5, <1>6, <1>7, <1>8, <1>11, <1>12 DEF DtqCall

-----------------------------------------------------------------------------
(***************************************************************************)
(* The steps of the task layer, and the keyboard.                          *)
(***************************************************************************)
\* A system call of the task layer wakes nobody who is in a queue.
LEMMA CallWaits ==
  ASSUME DtqId = {Q}, DtqApplication, DtqInv, NEW c \in Cpu, SystemCall(c), DtqRead(c)
  PROVE  Keeps
  <1>1. Layer'
    BY LayerStep DEF DtqInv, DtqApplication
  <1>2. /\ pc[c] = "user" /\ pc' = [pc EXCEPT ![c] = "ret"]
        /\ UNCHANGED <<wlink, c_tskid>>
        /\ \A t \in Task : tskstat'[t] = "WAI" =>
             tskstat[t] = "WAI" \/ (t = c_tskid[c] /\ SleepsAlone(t))
        /\ \A t \in Task : tskstat[t] = "WAI" =>
             \/ tskstat'[t] = "WAI" \/ t = c_tskid[c]
             \/ Issues(c_tskid[c], "wup_tsk", t)
        /\ \A t \in Task : wupcnt[t] = 0 =>
             wupcnt'[t] = 0 \/ Issues(c_tskid[c], "wup_tsk", t)
    BY CallSleepers DEF DtqInv, Layer
  <1>3. pc \in [Cpu -> PC] /\ pc'[c] = "ret"
    BY <1>2 DEF DtqInv, Layer, TypeOK
  <1>4. UNCHANGED <<var, r, w>>
    BY <1>3 DEF DtqRead, Resumes
  <1>5. Heard'
    BY <1>2, <1>3, <1>4 DEF DtqInv, Heard
  <1>6. PICK t \in Task : t = c_tskid[c] /\ tskstat[t] = "RUN" /\ var[t] = Unused
    BY <1>2, UserTask
  <1>7. PICK S : WaitsWith(S)
    BY DEF DtqInv
  <1>8. ASSUME NEW u \in Task, Blocks(u)
        PROVE  /\ tskstat[u] = "WAI" => tskstat'[u] = "WAI"
               /\ wupcnt'[u] = 0
    <2>1. wupcnt[u] = 0 /\ ~Issues(t, "wup_tsk", u)
      BY <1>7, <1>8 DEF WaitsWith, NoWakeups, DtqApplication
    <2>2. QED
      BY <1>2, <1>6, <2>1
  <1>9. ASSUME NEW u \in Readers
        PROVE  u \in Task /\ Blocks(u) /\ tskstat[u] = "WAI" /\ var[u] = Unset
    <2>1. u \in Task /\ tskstat[u] = "WAI" /\ var[u] = Unset
      BY <1>9 DEF Readers
    <2>2. Receives(u)
      BY <1>7, <2>1, EndNodes DEF WaitsWith, Sleeping, Senders
    <2>3. QED
      BY <2>1, <2>2 DEF Blocks
  <1>10. Readers' = Readers
    <2>1. \A u \in Readers : u \in Readers'
      BY <1>4, <1>8, <1>9 DEF Readers
    <2>2. \A u \in Readers' : u \in Readers
      BY <1>2, <1>4, <1>6, EndNodes DEF Readers
    <2>3. QED
      BY <2>1, <2>2
  <1>11. Lists(WNode, wlink', Ends, AtEnd(S)')
    <2>1. AtEnd(S)' = AtEnd(S)
      BY <1>10 DEF AtEnd, Ends, wlink_r, wlink_w, Q
    <2>2. QED
      BY <1>2, <1>7, <2>1 DEF WaitsWith
  <1>12. Senders(S)'
    BY <1>4, <1>7, <1>8 DEF WaitsWith, Senders, Blocks
  <1>13. Sleeping(S)'
    <2> SUFFICES ASSUME NEW u \in Task, tskstat'[u] = "WAI"
                 PROVE  \/ u \in Readers' /\ Receives(u)
                        \/ u \in S
                        \/ var'[u] = Unused /\ SleepsAlone(u)
      BY DEF Sleeping
    <2>1. CASE tskstat[u] = "WAI"
      BY <1>4, <1>7, <1>10, <2>1 DEF WaitsWith, Sleeping
    <2>2. CASE tskstat[u] # "WAI"
      BY <1>2, <1>4, <1>6, <2>2
    <2>3. QED
      BY <2>1, <2>2
  <1>14. Hooked(S)'
    <2>1. \A u \in Task : InQueue(wlink, u)' => InQueue(wlink, u)
      BY <1>2
    <2>2. QED
      BY <1>7, <1>10, <2>1 DEF WaitsWith, Hooked
  <1>15. NoWakeups'
    BY <1>8 DEF NoWakeups
  <1>16. EmptyToReaders'
    BY <1>4, <1>7, <1>10 DEF WaitsWith, EmptyToReaders, Q
  <1>17. WaitsWith(S)'
    BY <1>11, <1>12, <1>13, <1>14, <1>15, <1>16 DEF WaitsWith, Ends, wlink_r, wlink_w, Q
  <1>18. QED
    BY <1>1, <1>5, <1>17 DEF Keeps

\* The steps of a CPU that leave everybody where they sleep.
QuietStep(c) ==
  \/ Interrupt(c) \/ tick_done(c) \/ store_ret(c) \/ sched_do_next_tsk(c)
  \/ intr_leave(c) \/ clear_flag(c)

LEMMA QuietWaits ==
  ASSUME DtqId = {Q}, DtqApplication, DtqInv, NEW c \in Cpu, QuietStep(c),
         \A t \in Task : tskstat[t] = "WAI" => var'[t] = var[t],
         \A t \in Task : var[t] = Unused => var'[t] = Unused,
         pc'[c] = "user" => var'[c_tskid[c]] = Unused,
         Readers # {} => r'[Q] = w'[Q]
  PROVE  Keeps
  <1>1. Layer'
    BY LayerStep DEF DtqInv, DtqApplication, Kernel, QuietStep
  <1>2. /\ UNCHANGED <<wlink, wupcnt>>
        /\ \A t \in Task : tskstat'[t] = "WAI" <=> tskstat[t] = "WAI"
        /\ \A b \in Cpu : b # c => pc'[b] = pc[b] /\ c_tskid'[b] = c_tskid[b]
        /\ pc'[c] = "user" =>
             pc[c] # "user" /\ c_tskid' = c_tskid /\ tskstat[c_tskid[c]] = "RUN"
    BY QuietKernel DEF DtqInv, QuietStep
  <1>3. Heard'
    <2> SUFFICES ASSUME NEW b \in Cpu, pc'[b] = "user" PROVE var'[c_tskid'[b]] = Unused
      BY DEF Heard
    <2>1. CASE b = c
      BY <1>2, <2>1
    <2>2. CASE b # c
      BY <1>2, <2>2, UserTask DEF DtqInv, Heard
    <2>3. QED
      BY <2>1, <2>2
  <1>4. PICK S : WaitsWith(S)
    BY DEF DtqInv
  <1>5. WaitsWith(S)'
    BY <1>2, <1>4, SameWaits
  <1>6. QED
    BY <1>1, <1>3, <1>5 DEF Keeps

LEMMA KernelWaits ==
  ASSUME DtqId = {Q}, DtqApplication, DtqInv, NEW c \in Cpu, QuietStep(c), DtqRead(c)
  PROVE  Keeps
  <1>1. c_tskid[c] \in Task /\ var \in [Task -> Datum \cup {Unset, Unused}]
    BY DEF DtqInv, QueueInv, VarTyped
  <1>2. /\ pc'[c] = "user" => Resumes(c)
        /\ Resumes(c) => tskstat[c_tskid[c]] = "RUN"
    BY QuietKernel DEF DtqInv, QuietStep, Resumes
  <1>3. /\ var' = IF Resumes(c) THEN [var EXCEPT ![c_tskid[c]] = Unused] ELSE var
        /\ UNCHANGED <<r, w>>
    BY DEF DtqRead
  <1>4. Readers # {} => r'[Q] = w'[Q]
    BY <1>3 DEF DtqInv, WaitsWith, EmptyToReaders
  <1>5. /\ \A t \in Task : tskstat[t] = "WAI" => var'[t] = var[t]
        /\ \A t \in Task : var[t] = Unused => var'[t] = Unused
        /\ pc'[c] = "user" => var'[c_tskid[c]] = Unused
    BY <1>1, <1>2, <1>3
  <1>6. QED
    BY <1>4, <1>5, QuietWaits

\* The keyboard interrupt: an interrupt without effect on the queues, or a
\* datum handed over.
LEMMA KeyWaits ==
  ASSUME DtqId = {Q}, DtqApplication, DtqInv, NEW c \in Cpu, irq1(c)
  PROVE  Keeps
  <1>1. /\ pc[c] = "user" /\ pc' = [pc EXCEPT ![c] = "leave"]
        /\ UNCHANGED <<ret, lockVars, c_tskid>>
    BY DEF irq1
  <1>2. LeftTo(c, "leave")
    BY <1>1 DEF LeftTo, DtqInv, Layer, TypeOK
  <1>3. ASSUME UNCHANGED <<readyVars, timeVars, wlink, eax, tcbVars, wupcnt, var>>,
               Readers # {} => r'[Q] = w'[Q]
        PROVE  Keeps
    <2>1. QuietStep(c)
      BY <1>1, <1>3 DEF apic_timer, Interrupt, QuietStep
    <2>2. pc'[c] # "user"
      BY <1>1 DEF DtqInv, Layer, TypeOK
    <2>3. QED
      BY <1>3, <2>1, <2>2, QuietWaits
  <1>4. ASSUME UNCHANGED <<dtqVars, readyVars, timeVars, wlink, eax, tcbVars, wupcnt>>
        PROVE  Keeps
    <2>1. UNCHANGED <<r, w, var>>
      BY <1>4 DEF dtqVars
    <2>2. Readers # {} => r'[Q] = w'[Q]
      BY <2>1 DEF DtqInv, WaitsWith, EmptyToReaders
    <2>3. QED
      BY <1>3, <1>4, <2>1, <2>2
  <1>5. ASSUME NEW d, ipsnd_dtq(Q, d)
        PROVE  Keeps
    <2>1. CASE HandToReader(Q, d) /\ sched_next_tsk
      BY <1>2, <2>1, HandWaits
    <2>2. CASE /\ ~ReaderWaits(Q)
               /\ UNCHANGED <<var, readyVars, timeVars, wlink, eax, tcbVars, wupcnt>>
      BY <1>3, <2>2, FirstReads
    <2>3. QED
      BY <1>4, <1>5, <2>1, <2>2 DEF ipsnd_dtq
  <1>6. key_dtq_id \in {Q, 0}
    BY DEF DtqInv, QueueInv
  <1>7. Q > 0
    BY DtqAssumption
  <1>8. QED
    BY <1>4, <1>5, <1>6, <1>7 DEF irq1

\* The time-out of a task takes it off the end it waits at, if it does.
LEMMA TimeoutKeeps ==
  ASSUME DtqId = {Q}, DtqApplication, DtqInv, NEW c \in Cpu, sched_timeout(c), DtqRead(c)
  PROVE  Keeps
  <1>1. Layer'
    BY LayerStep DEF DtqInv, DtqApplication, Kernel
  <1>2. pc[c] = "tick" /\ UNCHANGED <<pc, c_tskid, wupcnt>>
    BY DEF sched_timeout
  <1>3. /\ tskstat \in [Task -> Stat] /\ wlink \in Ring(WNode)
    BY DEF DtqInv, Layer, TypeOK
  <1>4. UNCHANGED <<var, r, w>>
    BY <1>2 DEF DtqRead, Resumes
  <1>5. Heard'
    BY <1>2, <1>4 DEF DtqInv, Heard
  <1>6. PICK S : WaitsWith(S)
    BY DEF DtqInv
  <1>7. CASE UNCHANGED <<wlink, tskstat>>
    <2>1. Readers # {} => r'[Q] = w'[Q]
      BY <1>4, <1>6 DEF WaitsWith, EmptyToReaders
    <2>2. WaitsWith(S)'
      BY <1>2, <1>4, <1>6, <1>7, <2>1, SameWaits
    <2>3. QED
      BY <1>1, <1>5, <2>2 DEF Keeps
  <1>8. CASE TimeOutTask(FirstTimeout)
    <2>1. PICK t \in Task : t = FirstTimeout
      BY TimeoutTask DEF DtqInv
    <2>2. /\ tskstat[t] = "WAI" /\ tskstat' = [tskstat EXCEPT ![t] = "RDY"]
          /\ wlink' = IF InQueue(wlink, t) THEN UnlinkToSelf(wlink, t) ELSE wlink
      BY <1>8, <2>1 DEF TimeOutTask
    <2>3. \A u \in Task : tskstat'[u] = "WAI" <=> tskstat[u] = "WAI" /\ u # t
      BY <1>3, <2>2
    <2>4. PICK T : T = S \ {t}
      OBVIOUS
    <2>5. Readers' = Readers \ {t}
      BY <1>4, <2>3 DEF Readers
    <2>6. \E h \in Ends : t \in AtEnd(S)[h] \/ t \notin Readers \cup S
      BY <1>6, EndNodes, EndLists
    <2>7. /\ Lists(WNode, wlink', Ends, AtEnd(T)')
          /\ \A u \in Task : InQueue(wlink', u) =>
               u # t /\ (InQueue(wlink, u) \/ u \in Readers \cup S)
      <3>1. ASSUME NEW h \in Ends, t \in AtEnd(S)[h]
            PROVE  /\ Lists(WNode, wlink', Ends, AtEnd(T)')
                   /\ \A u \in Task : InQueue(wlink', u) =>
                        u # t /\ (InQueue(wlink, u) \/ u \in Readers \cup S)
        <4>1. LeavesLists(wlink, Ends, AtEnd(S), h, t)
          <5>1. PICK q, M : q = wlink /\ M = AtEnd(S)
            OBVIOUS
          <5>2. /\ Lists(WNode, q, Ends, M) /\ Ends \cap Task = {}
                /\ M[h] \subseteq Task /\ t \in M[h] /\ q \in Ring(WNode)
            BY <1>3, <1>6, <3>1, <5>1, EndNodes, EndLists DEF WaitsWith
          <5>3. LeavesLists(q, Ends, M, h, t)
            BY <5>2, LeaveLists
          <5>4. QED
            BY <5>1, <5>3
        <4>2. wlink' = UnlinkToSelf(wlink, t)
          BY <2>2, <4>1 DEF LeavesLists
        <4>3. /\ Lists(WNode, wlink', Ends,
                       [g \in Ends |-> IF g = h THEN AtEnd(S)[g] \ {t} ELSE AtEnd(S)[g]])
              /\ ~InQueue(wlink', t)
              /\ \A u \in Task \ {t} : InQueue(wlink', u) => InQueue(wlink, u) \/ u \in AtEnd(S)[h]
          BY <4>1, <4>2 DEF LeavesLists
        <4>4. AtEnd(T)' = [g \in Ends |-> IF g = h THEN AtEnd(S)[g] \ {t} ELSE AtEnd(S)[g]]
          <5>1. AtEnd(T)' = [g \in Ends |-> AtEnd(S)[g] \ {t}]
            BY <2>4, <2>5 DEF AtEnd, Ends, wlink_r, wlink_w, Q
          <5>2. \A g \in Ends : g # h => t \notin AtEnd(S)[g]
            BY <1>6, <3>1 DEF WaitsWith, Lists
          <5>3. PICK M : M = AtEnd(S)
            OBVIOUS
          <5>4. [g \in Ends |-> M[g] \ {t}]
                  = [g \in Ends |-> IF g = h THEN M[g] \ {t} ELSE M[g]]
            BY <5>2, <5>3
          <5>5. QED
            BY <5>1, <5>3, <5>4
        <4>5. AtEnd(S)[h] \subseteq Readers \cup S
          BY DEF AtEnd
        <4>6. QED
          BY <4>3, <4>4, <4>5
      <3>2. CASE t \notin Readers \cup S
        <4>1. SleepsAlone(t)
          BY <1>6, <2>2, <3>2 DEF WaitsWith, Sleeping
        <4>2. ~InQueue(wlink, t)
          BY <1>6, <3>2, <4>1 DEF WaitsWith, Hooked, DtqApplication
        <4>3. wlink' = wlink /\ T = S /\ Readers' = Readers
          BY <2>2, <2>4, <2>5, <3>2, <4>2
        <4>4. AtEnd(T)' = AtEnd(S)
          BY <4>3 DEF AtEnd, Ends, wlink_r, wlink_w, Q
        <4>5. QED
          BY <1>6, <4>2, <4>3, <4>4 DEF WaitsWith
      <3>3. QED
        BY <2>6, <3>1, <3>2
    <2>8. Senders(T)'
      BY <1>4, <1>6, <2>3, <2>4 DEF WaitsWith, Senders
    <2>9. Sleeping(T)'
      BY <1>4, <1>6, <2>3, <2>4, <2>5 DEF WaitsWith, Sleeping
    <2>10. Hooked(T)'
      <3> SUFFICES ASSUME NEW u \in Task, InQueue(wlink, u)'
                   PROVE  u \in Readers' \cup T \/ Stray(u)
        BY DEF Hooked
      <3>1. InQueue(wlink', u)
        BY DEF InQueue
      <3>2. u # t /\ (u \in Readers \cup S \/ Stray(u))
        BY <1>6, <2>7, <3>1 DEF WaitsWith, Hooked
      <3>3. QED
        BY <2>4, <2>5, <3>2
    <2>11. NoWakeups' /\ EmptyToReaders'
      BY <1>2, <1>4, <1>6, <2>5 DEF WaitsWith, NoWakeups, EmptyToReaders, Q
    <2>12. WaitsWith(T)'
      BY <2>7, <2>8, <2>9, <2>10, <2>11 DEF WaitsWith, Ends, wlink_r, wlink_w, Q
    <2>13. QED
      BY <1>1, <1>5, <2>12 DEF Keeps
  <1>9. QED
    BY <1>7, <1>8 DEF sched_timeout

-----------------------------------------------------------------------------
\* Every step keeps it.
LEMMA StepKeeps ==
  ASSUME DtqId = {Q}, DtqApplication, DtqInv,
         [\E c \in Cpu : DataQueueStep(c)]_<<vars, dtqVars, keyVars>>
  PROVE  Keeps
  <1>1. CASE UNCHANGED <<vars, dtqVars, keyVars>>
    <2>1. Layer'
      BY <1>1, LayerStutter DEF DtqInv
    <2>2. UNCHANGED <<wlink, wupcnt, tskstat, var, r, w, pc, c_tskid>>
      BY <1>1 DEF vars, readyVars, dtqVars
    <2>3. Heard'
      BY <2>2 DEF DtqInv, Heard
    <2>4. PICK S : WaitsWith(S)
      BY DEF DtqInv
    <2>5. Readers # {} => r'[Q] = w'[Q]
      BY <2>2, <2>4 DEF WaitsWith, EmptyToReaders
    <2>6. WaitsWith(S)'
      BY <2>2, <2>4, <2>5, SameWaits
    <2>7. QED
      BY <2>1, <2>3, <2>6 DEF Keeps
  <1>2. ASSUME NEW c \in Cpu, DtqCall(c)
        PROVE  Keeps
    BY <1>2, DtqCallWaits
  <1>3. ASSUME NEW c \in Cpu, irq1(c)
        PROVE  Keeps
    BY <1>3, KeyWaits
  <1>4. ASSUME NEW c \in Cpu, NEW q \in DtqId, set_key_task(c, q)
        PROVE  Keeps
    <2>1. pc[c] = "user" /\ RefuseDtq(c, E_OK)
      BY <1>4 DEF set_key_task, Trap, RefuseDtq
    <2>2. QED
      BY <2>1, Codes, RefusedWaits
  <1>5. ASSUME NEW c \in Cpu, KernelStep(c), DtqRead(c)
        PROVE  Keeps
    <2>1. CASE SystemCall(c)
      BY <1>5, <2>1, CallWaits
    <2>2. CASE sched_timeout(c)
      BY <1>5, <2>2, TimeoutKeeps
    <2>3. CASE QuietStep(c)
      BY <1>5, <2>3, KernelWaits
    <2>4. QED
      BY <1>5, <2>1, <2>2, <2>3 DEF KernelStep, Kernel, QuietStep
  <1>6. QED
    BY <1>1, <1>2, <1>3, <1>4, <1>5 DEF DataQueueStep

LEMMA DtqInvInit ==
  ASSUME DtqId = {Q}, TasksInit, DtqInit, key_init
  PROVE  DtqInv
  <1>1. Layer /\ QueueInv
    BY LayerInit, InitQueueInv
  <1>2. /\ var = [t \in Task |-> Unused] /\ wlink = SelfLinked(WNode)
        /\ \A t \in Task : tskstat[t] # "WAI"
        /\ wupcnt = [t \in Task |-> 0] /\ \A c \in Cpu : c_tskid[c] \in Task
    BY <1>1 DEF TasksInit, DtqInit, Layer, TypeOK
  <1>3. Heard
    BY <1>2 DEF Heard
  <1>4. Readers = {}
    BY <1>2 DEF Readers
  <1>5. Lists(WNode, wlink, Ends, AtEnd({}))
    <2>1. \A h \in Ends : AtEnd({})[h] = {}
      BY <1>4 DEF AtEnd
    <2>2. ASSUME NEW h \in Ends
          PROVE  IsList(WNode, wlink, h, {})
      <3>1. h \in WNode /\ wlink.next[h] = h /\ wlink.prev[h] = h
        BY <1>2, EndNodes DEF SelfLinked
      <3>2. QED
        BY <3>1, EmptyList
    <2>3. QED
      BY <2>1, <2>2, EndNodes DEF Lists
  <1>6. Senders({}) /\ Sleeping({}) /\ NoWakeups /\ EmptyToReaders
    BY <1>2, <1>4 DEF Senders, Sleeping, NoWakeups, EmptyToReaders
  <1>7. Hooked({})
    BY <1>2, WaitNodes DEF Hooked, InQueue, SelfLinked
  <1>8. WaitsWith({})
    BY <1>5, <1>6, <1>7 DEF WaitsWith
  <1>9. QED
    BY <1>1, <1>3, <1>8 DEF DtqInv

\* The step of the invariant, with what it makes of the channel.
LEMMA DtqInvStep ==
  ASSUME DtqId = {Q}, DtqApplication, DtqInv,
         [\E c \in Cpu : DataQueueStep(c)]_<<vars, dtqVars, keyVars>>
  PROVE  DtqInv' /\ [Chan!Next]_ChanVars
  <1>1. QueueInv /\ FirstReaderSleeps(Q)
    BY FirstReads DEF DtqInv
  <1>2. Effect /\ c_tskid' \in [Cpu -> Task] /\ key_dtq_id' \in {Q, 0}
    BY <1>1, StepEffect
  <1>3. Simulates
    BY <1>1, <1>2, EffectSimulates
  <1>4. QueueInv' /\ [Chan!Next]_ChanVars
    BY <1>2, <1>3 DEF Simulates, QueueInv, Q
  <1>5. Keeps
    BY StepKeeps
  <1>6. QED
    BY <1>4, <1>5 DEF DtqInv, Keeps

LEMMA DtqInvariance ==
  DtqId = {Watched} /\ DtqApplication /\ DtqSpec => []DtqInv
  <1> SUFFICES ASSUME DtqId = {Q}, DtqApplication PROVE DtqSpec => []DtqInv
    BY DEF Q
  <1>1. TasksInit /\ DtqInit /\ key_init => DtqInv
    BY DtqInvInit
  <1>2. DtqInv /\ [\E c \in Cpu : DataQueueStep(c)]_<<vars, dtqVars, keyVars>> => DtqInv'
    BY DtqInvStep
  <1>3. QED
    BY <1>1, <1>2, PTL DEF DtqSpec

\* The reading end holds exactly the tasks that sleep in a receive, in a list
\* that links both ways, and none of them sleeps while the ring has a datum:
\* through sends and forced sends, time-outs, deletions, creations and
\* keyboard interrupts (kernel/sys_dtq.c:52-340, i386/keyboard.c).
THEOREM ReadersCorrect ==
  DtqId = {Watched} /\ DtqApplication /\ DtqSpec => []ReadersExact
  <1> SUFFICES ASSUME DtqId = {Q}, DtqApplication PROVE DtqSpec => []ReadersExact
    BY DEF Q
  <1>1. DtqInv => ReadersExact
    <2> SUFFICES ASSUME DtqInv
                 PROVE  /\ HoldsExactly(wlink, wlink_r(Q), Readers)
                        /\ FirstReaderSleeps(Q)
      BY DEF ReadersExact, Readers
    <2>1. PICK S : WaitsWith(S)
      BY DEF DtqInv
    <2>2. /\ IsList(WNode, wlink, wlink_r(Q), Readers) /\ wlink_r(Q) \in WNode
          /\ wlink \in Ring(WNode)
      BY <2>1, EndNodes, EndLists DEF DtqInv, Layer, TypeOK
    <2>3. HoldsExactly(wlink, wlink_r(Q), Readers)
      BY <2>2, WaitNodes, ListHolds
    <2>4. QED
      BY <2>3, FirstReads
  <1>2. DtqId = {Watched} /\ DtqApplication
    BY DEF Q
  <1>3. QED
    BY <1>1, <1>2, DtqInvariance, PTL

\* A data queue is a channel: no service, no time-out, no deletion and no
\* interrupt loses, duplicates or reorders a datum (kernel/sys_dtq.c:52-340,
\* i386/keyboard.c).
THEOREM QueueIsChannel ==
  DtqId = {Watched} /\ DtqApplication /\ DtqSpec => IsChannel
  <1> SUFFICES ASSUME DtqId = {Q}, DtqApplication PROVE DtqSpec => IsChannel
    BY DEF Q
  <1>1. TasksInit /\ DtqInit /\ key_init => DtqInv /\ Chan!Init
    BY DtqInvInit, InitQueueInv
  <1>2. DtqInv /\ [\E c \in Cpu : DataQueueStep(c)]_<<vars, dtqVars, keyVars>>
        => DtqInv' /\ [Chan!Next]_ChanVars
    BY DtqInvStep
  <1>3. [Chan!Next]_ChanVars
        => [Chan!Next]_<<dtq_act[Watched], Contents(Watched),
                         [t \in Task |-> IF var[t] \in Datum THEN <<var[t]>> ELSE <<>>]>>
    BY DEF ChanVars, Given, Q
  <1>4. QED
    BY <1>1, <1>2, <1>3, PTL DEF DtqSpec, IsChannel, Chan!Spec
=============================================================================
