------------------------------- MODULE Pools -------------------------------
(***************************************************************************)
(* The allocator of kernel/pool.c and the memory pools over it: fixed      *)
(* blocks (kernel/sys_mpf.c) and blocks of any size (kernel/sys_mpl.c).    *)
(*                                                                         *)
(* The table of a pool is the array of its regions up to the first of size *)
(* 0.  lent is history: the blocks the tasks have been given and have not  *)
(* released, the pool may be deleted or not.  The memory of a pool and its *)
(* table are always the same, and the table is zero at first; the kernel   *)
(* pools they come from do not run out.                                    *)
(***************************************************************************)
EXTENDS Waits

CONSTANTS
  MpfId, MplId,      \* the pools of both kinds, under different numbers
  blkcnt, blksz,     \* T_CMPF of each fixed pool
  mplsz,             \* T_CMPL of each variable pool
  Request,           \* the sizes the tasks ask a variable pool for
  Base,              \* address of the memory of every pool
  Align,             \* ~MEM_ALIGN + 1
  SizeMod,           \* UW: 2^32 in the code
  MAX_MPL_POOL,
  Orderly            \* the application keeps the rules AllBack and FreesInOrder

VARIABLES pool_act, pool, p_blk, asks, lent

poolVars == <<pool_act, pool, p_blk, asks, lent>>

PoolId == MpfId \cup MplId
pool_wlink(m) == -80 - m                      \* &mpf[m].wlink, &mpl[m].wlink

ASSUME PoolAssumption ==
  /\ MpfId \cap MplId = {} /\ PoolId \subseteq 1 .. 9
  /\ {pool_wlink(m) : m \in PoolId} \subseteq WHead
  /\ blkcnt \in [MpfId -> Nat \ {0, 1}] /\ blksz \in [MpfId -> Nat \ {0}]
  /\ mplsz \in [MplId -> Nat \ {0}] /\ Request \subseteq Nat \ {0}
  /\ Align \in Nat \ {0} /\ Base \in Nat \ {0} /\ Base % Align = 0
  /\ SizeMod \in Nat \ {0} /\ MAX_MPL_POOL \in Nat \ {0} /\ Orderly \in BOOLEAN

Region(base, size, free) == [base |-> base, size |-> size, free |-> free]

\* Entries of the table of a pool that the instance keeps: no allocation ever
\* makes more regions than this.
Slots(m) == IF m \in MpfId THEN blkcnt[m] + 2 ELSE mplsz[m] \div Align + 2
-----------------------------------------------------------------------------
\* kernel/pool.c

\* The first entry of size 0 from place k on.
EndOf(a, k) == Min({i \in k .. Len(a) : a[i].size = 0})

Rounded(x) == ((x + Align - 1) \div Align) * Align

\* The entries after the second keep what the memory of the table held.
pool_init(a, start, end) ==
  [a EXCEPT ![1] = Region(Rounded(start),
                          ((end \div Align) * Align - Rounded(start)) % SizeMod, TRUE),
            ![2].size = 0]

\* The entries from k on move up by one, over the one that ends the table.
pool_ins(a, k, r) ==
  [i \in DOMAIN a |-> IF i = k THEN r
                      ELSE IF i > k /\ i <= EndOf(a, k) THEN a[i - 1] ELSE a[i]]

pool_rem(a, k) ==
  [i \in DOMAIN a |-> IF i >= k /\ i < EndOf(a, k) THEN a[i + 1] ELSE a[i]]

\* First fit among the first max_a regions; what is left of a larger region
\* follows it.  The answer NULL is None.
any_region(a, size, max_a) ==                                    \* mutant
  {i \in DOMAIN a : i <= max_a /\ i < EndOf(a, 1) /\ a[i].size >= size}
one_more(a, size, max_a) ==                                      \* mutant
  {i \in DOMAIN a : /\ i <= max_a + 1 /\ i < EndOf(a, 1)
                    /\ a[i].free /\ a[i].size >= size}
Fits(a, size, max_a) ==
  {i \in DOMAIN a : /\ i <= max_a /\ i < EndOf(a, 1)
                    /\ a[i].free /\ a[i].size >= size}

pool_alloc(a, stksz, max_a) ==
  LET size == Rounded(stksz)
      fit == Fits(a, size, max_a)
      i == Min(fit)
      taken == [a EXCEPT ![i] = Region(@.base, size, FALSE)]
  IN  IF fit = {} THEN [a |-> a, base |-> None]
      ELSE [base |-> a[i].base,
            a |-> IF a[i].size = size THEN taken
                  ELSE pool_ins(taken, i + 1,
                                Region(a[i].base + size, a[i].size - size, TRUE))]

\* The region is joined with the free one before it, then with the free one
\* after it.  In the first case the entry removed is always the second one,
\* not the one that was joined.
MergesUp(a, i) == i > 1 /\ a[i - 1].free
FreeAt(a, i) ==
  LET marked == [a EXCEPT ![i].free = TRUE]
      up == MergesUp(a, i)
      b == IF up THEN pool_rem([marked EXCEPT ![i - 1].size = @ + a[i].size], 2)
           ELSE marked
      p == IF up THEN i - 1 ELSE i
  IN  IF b[p + 1].free
      THEN pool_rem([b EXCEPT ![p].size = @ + b[p + 1].size], p + 1)
      ELSE b

Places(a, stack) == {i \in DOMAIN a : i < EndOf(a, 1) /\ a[i].base = stack}
pool_free(a, stack) ==
  IF Places(a, stack) = {} THEN a ELSE FreeAt(a, Min(Places(a, stack)))
-----------------------------------------------------------------------------
PoolInit ==                                           \* mpf_init, mpl_init
  /\ pool_act = [m \in PoolId |-> FALSE]
  /\ pool = [m \in PoolId |-> [i \in 1 .. Slots(m) |-> Region(0, 0, FALSE)]]
  /\ p_blk = [t \in Task |-> None]
  /\ asks = [t \in Task |-> 0]
  /\ lent = [m \in PoolId |-> {}]

RefusePool(c, v) == Reply(c, v) /\ UNCHANGED poolVars

\* The first rule: a pool is created again only when all of its blocks had been
\* released (pool_init clears only the first two entries).
AllBack(m) == lent[m] = {}

Fresh(m, end) ==
  /\ ~pool_act[m]
  /\ Orderly => AllBack(m)
  /\ pool_act' = [pool_act EXCEPT ![m] = TRUE]
  /\ pool' = [pool EXCEPT ![m] = pool_init(@, Base, end)]
  /\ lent' = [lent EXCEPT ![m] = {}]
  /\ UNCHANGED <<p_blk, asks>>

\* The end that cre_mpf gives to pool_init is the size, not an address: the
\* region is as large as the difference, modulo the width of UW.
sys_cre_mpf(m) == Fresh(m, blkcnt[m] * blksz[m])

sys_cre_mpl(m) == Fresh(m, Base + mplsz[m])

Created(m) ==
  \/ m \in MpfId /\ sys_cre_mpf(m)
  \/ m \in MplId /\ sys_cre_mpl(m)

cre_pool(c, m, call) ==
  /\ Trap(c, call, m)
  /\ \/ pool_act[m] /\ RefusePool(c, E_OBJ)
     \/ Created(m) /\ Reply(c, E_OK)
cre_mpf(c, m) == m \in MpfId /\ cre_pool(c, m, "cre_mpf")
cre_mpl(c, m) == m \in MplId /\ cre_pool(c, m, "cre_mpl")

acre_pool(c, ids, call) ==
  /\ Trap(c, call, Cur(c))
  /\ \/ \E m \in ids : /\ \A n \in ids : n < m => pool_act[n]
                       /\ Created(m) /\ Reply(c, m)
     \/ (\A m \in ids : pool_act[m]) /\ RefusePool(c, E_NOID)
acre_mpf(c) == acre_pool(c, MpfId, "acre_mpf")
acre_mpl(c) == acre_pool(c, MplId, "acre_mpl")

\* A pool is deleted although its blocks are lent.
del_pool(c, m) ==
  \/ ~pool_act[m] /\ RefusePool(c, E_NOEXS)
  \/ /\ pool_act[m]
     /\ DismissAllUntimed(<<pool_wlink(m)>>)
     /\ pool_act' = [pool_act EXCEPT ![m] = FALSE]
     /\ Return(c, E_OK)
     /\ UNCHANGED <<pool, p_blk, asks, lent>>
del_mpf(c, m) == m \in MpfId /\ Trap(c, "del_mpf", m) /\ del_pool(c, m)
del_mpl(c, m) == m \in MplId /\ Trap(c, "del_mpl", m) /\ del_pool(c, m)

\* The current task gets a block of size bytes, or waits for one.  (The same
\* block lent again is another one in lent.)
Lend(K, base, size, t) ==
  K \cup {[base |-> base, size |-> size, by |-> t,
           again |-> \E b \in K : b.base = base /\ b.size = size /\ b.by = t]}

GetNow(c, m, size, max_a) ==
  LET r == pool_alloc(pool[m], size, max_a)
  IN  /\ r.base # None
      /\ pool' = [pool EXCEPT ![m] = r.a]
      /\ p_blk' = [p_blk EXCEPT ![Cur(c)] = r.base]
      /\ lent' = [lent EXCEPT ![m] = Lend(@, r.base, size, Cur(c))]
      /\ Reply(c, E_OK)
      /\ UNCHANGED <<pool_act, asks>>

WaitBlock(c, m, size, max_a, tmout) ==
  /\ pool_alloc(pool[m], size, max_a).base = None
  /\ p_blk' = [p_blk EXCEPT ![Cur(c)] = None]
  /\ \/ tmout = 0 /\ Reply(c, E_TMOUT) /\ UNCHANGED asks
     \/ /\ tmout # 0
        /\ asks' = [asks EXCEPT ![Cur(c)] = size]
        /\ JoinAndSleep(c, wlink, pool_wlink(m), TRUE, tmout)
        /\ Return(c, E_OK)
  /\ UNCHANGED <<pool_act, pool, lent>>

\* The queues are by priority, TA_TFIFO being 0.
tget_mpf(c, m) ==
  /\ m \in MpfId
  /\ \E tmout \in TmoOf(c, m, "tget_mpf", "get_mpf", "pget_mpf") :
       /\ \E call \in {"tget_mpf", "get_mpf", "pget_mpf"} : Trap(c, call, m)
       /\ \/ ~pool_act[m] /\ RefusePool(c, E_NOEXS)
          \/ pool_act[m] /\ GetNow(c, m, blksz[m], blkcnt[m])
          \/ pool_act[m] /\ WaitBlock(c, m, blksz[m], blkcnt[m], tmout)

tget_mpl(c, m) ==
  /\ m \in MplId
  /\ \E tmout \in TmoOf(c, m, "tget_mpl", "get_mpl", "pget_mpl"), size \in Request :
       /\ \E call \in {"tget_mpl", "get_mpl", "pget_mpl"} : Trap(c, call, m)
       /\ \/ ~pool_act[m] /\ RefusePool(c, E_NOEXS)
          \/ pool_act[m] /\ GetNow(c, m, size, MAX_MPL_POOL)
          \/ pool_act[m] /\ WaitBlock(c, m, size, MAX_MPL_POOL, tmout)

\* The second rule: a block is released only while the one right below it is
\* lent, or nothing below it is.
FreesInOrder(m, b) ==
  \/ \E d \in lent[m] : d.base + Rounded(d.size) = b.base
  \/ \A d \in lent[m] : d.base >= b.base

\* A task releases a block it was given.
Frees(c, m, b) ==
  /\ b.by = Cur(c)
  /\ Orderly => FreesInOrder(m, b)

\* The block goes to the first waiter, or back to the table.
rel_mpf(c, m) ==
  /\ m \in MpfId /\ Trap(c, "rel_mpf", m)
  /\ \/ ~pool_act[m] /\ RefusePool(c, E_NOEXS)
     \/ /\ pool_act[m]
        /\ \E b \in lent[m] :
             /\ Frees(c, m, b)
             /\ LET t == wlink.next[pool_wlink(m)]
                IN  \/ /\ t # pool_wlink(m)
                       /\ p_blk' = [p_blk EXCEPT ![t] = b.base]
                       /\ lent' = [lent EXCEPT ![m] = (@ \ {b}) \cup {[b EXCEPT !.by = t]}]
                       /\ Commit(Ready(Kernel0, t, eax[t]))
                       /\ wlink' = UnlinkToSelf(wlink, t)
                       /\ UNCHANGED <<next_tsk_flag, tcbVars, wupcnt, pool>>
                    \/ /\ t = pool_wlink(m)
                       /\ pool' = [pool EXCEPT ![m] = pool_free(@, b.base)]
                       /\ lent' = [lent EXCEPT ![m] = @ \ {b}]
                       /\ UNCHANGED <<p_blk, readyVars, tcbVars, wupcnt, eax, wlink,
                                      timeVars>>
        /\ Return(c, E_OK)
        /\ UNCHANGED <<pool_act, asks>>

\* The waiters get blocks in their order, up to the first that finds none and
\* whose variable is overwritten with NULL.
Serve(m, s, t) ==
  LET r == pool_alloc(s.a, asks[t], MAX_MPL_POOL)
  IN  IF s.over THEN s
      ELSE IF r.base = None THEN [s EXCEPT !.over = TRUE, !.blk[t] = None]
      ELSE [a |-> r.a, over |-> FALSE,
            k |-> Ready(s.k, t, s.k.eax[t]),
            w |-> UnlinkToSelf(s.w, t),
            blk |-> [s.blk EXCEPT ![t] = r.base],
            lent |-> Lend(s.lent, r.base, asks[t], t)]

\* served[i] is the state after the first i of the waiters w.
ServeAll(m, s0, w) ==
  LET served[i \in 0 .. Len(w)] == IF i = 0 THEN s0 ELSE Serve(m, served[i - 1], w[i])
  IN  served[Len(w)]

rel_mpl(c, m) ==
  /\ m \in MplId /\ Trap(c, "rel_mpl", m)
  /\ \/ ~pool_act[m] /\ RefusePool(c, E_NOEXS)
     \/ /\ pool_act[m] /\ ~Endless(wlink, pool_wlink(m))
        /\ \E b \in lent[m] :
             /\ Frees(c, m, b)
             /\ LET s == ServeAll(m, [a |-> pool_free(pool[m], b.base), over |-> FALSE,
                                      k |-> Kernel0, w |-> wlink, blk |-> p_blk,
                                      lent |-> lent[m] \ {b}],
                                  Walk(wlink, pool_wlink(m)))
                IN  /\ pool' = [pool EXCEPT ![m] = s.a]
                    /\ Commit(s.k)
                    /\ wlink' = s.w
                    /\ p_blk' = s.blk
                    /\ lent' = [lent EXCEPT ![m] = s.lent]
        /\ Return(c, E_OK)
        /\ UNCHANGED <<next_tsk_flag, tcbVars, wupcnt, pool_act, asks>>

\* The calls of the library (lib/lib_mbf.c), each of which only traps.
PoolCall(c) ==
  \/ acre_mpf(c) \/ acre_mpl(c)
  \/ \E m \in PoolId :
       \/ cre_mpf(c, m) \/ del_mpf(c, m) \/ tget_mpf(c, m) \/ rel_mpf(c, m)
       \/ cre_mpl(c, m) \/ del_mpl(c, m) \/ tget_mpl(c, m) \/ rel_mpl(c, m)

\* The task that resumes has read its variable.
PoolRead(c) ==
  /\ IF Resumes(c) THEN /\ p_blk' = [p_blk EXCEPT ![Cur(c)] = None]
                        /\ asks' = [asks EXCEPT ![Cur(c)] = 0]
     ELSE UNCHANGED <<p_blk, asks>>
  /\ UNCHANGED <<pool_act, pool, lent>>

PoolStep(c) == (PoolCall(c) /\ Fit(c)) \/ (FitStep(c) /\ PoolRead(c))
PoolSpec == TasksInit /\ PoolInit /\ [][\E c \in Cpu : PoolStep(c)]_<<vars, poolVars>>
-----------------------------------------------------------------------------
PoolTypeOK ==
  /\ pool_act \in [PoolId -> BOOLEAN] /\ DOMAIN pool = PoolId
  /\ \A m \in PoolId : \A i \in DOMAIN pool[m] :
       pool[m][i] \in [base : Nat, size : 0 .. SizeMod - 1, free : BOOLEAN]
  /\ p_blk \in [Task -> Nat] /\ asks \in [Task -> Nat]

Extent(m) == IF m \in MpfId THEN blkcnt[m] * blksz[m] ELSE mplsz[m]

\* The blocks that tasks hold do not overlap, through allocations, releases,
\* hand-overs, deletions and creations, of an application that keeps the two
\* rules (Orderly).  Without either of them they do (pool.c:90, pool.c:14),
\* although pool_free is to merge with the free neighbours
\* (docs/jp/refs/kernel/pool.md:185).
BlocksDisjoint ==
  \A m \in PoolId : \A b, d \in lent[m] :
    b = d \/ b.base + b.size <= d.base \/ d.base + d.size <= b.base

\* They lie in the memory of their pool, of which a fixed pool asks for no more
\* than blkcnt * blksz bytes (docs/en/memory-map.md:449 "block area").
BlocksInArea ==
  \A m \in PoolId : \A b \in lent[m] :
    b.base >= Base /\ b.base + b.size <= Base + Extent(m)
=============================================================================
