# tiny-itron in TLA+

tiny-itron is a µITRON 4.0 kernel for two i386 CPUs. Tasks run in ring 3; every
system call and interrupt enters the kernel through an interrupt gate, takes the
big kernel lock `kernel_lk`, changes the task control blocks and the queues that
thread through them, releases the lock, and leaves through `intr_leave`, where
a task switch may happen. This directory holds the TLA+ model of that
machinery, the TLC runs that check it on small instances, and theorems about
it that TLAPS has proved.

## The system

| Component | State | Operations | Interacts with |
|---|---|---|---|
| intrusive lists (`kernel/types.h`, `sched.c`, `sys_sem.c:193`) | `next`/`prev` pointers inside the TCBs and heads | insert, remove, self-reference test | every queue below |
| scheduler (`kernel/sched.c:24-134`) | 16 ready queues, `tskstat`, `c_tskid[2]`, `next_tsk_flag[2]` | `sched_ins`, `sched_rem`, `sched_next_tsk`, `sched_do_next_tsk` | all services set the flags; each CPU looks at its own on the way out |
| timeout queue (`kernel/sched.c:136-243`) | `timeout`, `tlink.delta` (unsigned) | insert, remove, tick | PIT interrupt on CPU 0; wakes tasks of both CPUs |
| trap path (`i386/intr.s`, `syscall.c`, `interrupt.c`) | register frame on the kernel stack, `k_nest`, `kern_esp` | `int $0x99`, IRQ0, APIC timer, `intr_leave` | writes the answer into the frame after the lock is released |
| big lock (`i386/smp.c`) | `kernel_lk` | `xchg` spin lock | both CPUs |
| sleep, wakeup, activation (`kernel/sys_tsk.c`) | `wupcnt`, `actcnt` | slp, tslp, dly, wup, can_wup, act | scheduler, timeout queue |
| task management (`kernel/sys_tsk.c`, `i386/proc.c`) | `suscnt`, priorities, `proc.cpu` | cre, acre, del, can_act, sta, ext, exd, ter, chg_pri, rel_wai, sus, rsm, frsm | re-creates frames, moves tasks between queues |
| semaphores (`kernel/sys_sem.c`) | `semcnt`, wait queue | cre, acre, del, sig, wai, pol, twai | sleeping services, timeout queue |
| data queues (`kernel/sys_dtq.c`) | ring `dtq`, `r`, `w`; queues of readers and writers | cre, acre, del, snd, psnd, tsnd, fsnd, ipsnd, rcv, prcv, trcv | the keyboard interrupt sends; a sender writes through the receiver's pointer |
| message buffers (`kernel/sys_mbf.c`) | ring of bytes, two wait queues | cre, acre, del, snd, psnd, tsnd, rcv, prcv, trcv | a reader admits waiting senders (`mbf_snd_check`) |
| event flags (`kernel/sys_flg.c`) | `flgptn`; per waiter the pattern and mode | cre, acre, del, set, clr, wai, pol, twai | one set may release many waiters |
| mailboxes (`kernel/sys_mbx.c`) | `mprihd`: one list head, of one byte, per message priority | cre, acre, del, snd, rcv, prcv, trcv, ref | messages stay with their sender; a page fault stops the CPU with the lock held |
| mutexes (`kernel/sys_mtx.c`) | lock word, owner, `mtxcnt` of each task | cre, acre, del, loc, ploc, tloc, unl | lends priorities, so it moves tasks between ready queues |
| memory pools (`kernel/pool.c`, `sys_mpf.c`, `sys_mpl.c`) | table of regions | cre, acre, del, get, pget, tget, rel | fixed and variable pools share the allocator |
| keyboard driver (`i386/keyboard.c`) | `mode`, `key_dtq_id` | IRQ1 on CPU 0, `set_key_task` | feeds a data queue |
| start-up (`i386/run.s`, `main.c`, `smp.c`) | `cpu_num`, `cpu_second` | set-up calls, start-up interrupts | both CPUs run the same code, and each turns on its own paging |
| demonstration (`kernel/user.c`) | four tasks, two idle tasks | see `Demo` | semaphore 1 and message buffer 1 between the CPUs |
| ports; cyclic, alarm, overrun, exception and ISR tables; console, floppy, ELF loader | - | - | see "Not modelled" |

What is hard in it: two CPUs that interleave between the release of the lock and
the return to user mode; a tick that runs on one CPU and wakes tasks of the
other; tasks that are in up to three lists at once; services that trust their
caller about which lists those are; time-outs that race wakeups; an unsigned
delta encoding. `PROJECT.json` lists these hazards line by line with the
properties that cover them.

## Modules

| Module | Models | Notes |
|---|---|---|
| `Links` | the circular lists | a family of lists is a record of two pointer functions; the operators assign the same pointers as the C code, so stale and doubled links behave as in the kernel |
| `Tasks` | scheduler, timeout queue, tick, trap and return path, sleep/wakeup/activation | the core; parameters are the CPUs, tasks, limits, boot state and the program `Issues(t, call, u)` |
| `TaskMgmt` | the management services over `Tasks` | adds `suscnt`; `Careful` restricts the application (below) |
| `Waits` | wait queues, joining them, release, deletion; shared by all objects | works on a copy of the state, so that a loop over waiters is one recursive function (`ReleaseAll`) |
| `Semaphore` | semaphores | history `asked`, `unit`, `holds`: what tasks learn |
| `DataQueue` | data queues | `var[t]` is the variable behind the pointer of a receiver |
| `Channel` | abstract specification: a bounded FIFO with direct hand-over | `DataQueue` implements it |
| `Keyboard` | IRQ1 and `set_key_task` over `DataQueue` | modifiers and keys are abstract |
| `MessageBuffer` | message buffers down to the bytes of the ring | history `flow`: the messages put and not yet got |
| `EventFlag`, `Mailbox`, `Mutex`, `Pools` | one kind of object each | `Mailbox` has the bytes of the list heads; `Pools` has the allocator of `pool.c` with its table, fixed and variable pools |
| `Boot` | how both CPUs start | no tasks yet |
| `Demo` | the whole demonstration | composes `Semaphore`, `Keyboard`, `MessageBuffer` and `Boot` over one task layer |
| `TasksProofs`, `TaskMgmtProofs`, `WaitsProofs`, `SemaphoreProofs`, `DataQueueProofs`, `ObjectsProofs`, `PoolsProofs`, `BootProofs` | theorems | TLAPS; each extends the proofs of the layer below it |
| `MCTasks`, `MCTaskMgmt`, `MCSemaphore`, `MCObjects`, `MCDemo` | instances for TLC | programs, boot lists, and in `MCObjects` the composition of the objects |

Every object module extends `Waits`, which extends `Tasks`: an object adds its
variables and its calls, and the task layer takes the steps in between. The
demonstration and `MCObjects` extend several of them, which then share one
scheduler, one timeout queue and one `wlink` per task, as in the kernel.

Operators marked `mutant` are never used by a specification. Each is a plausible
mistake in the operator below it; `PROJECT.json` pairs it with the property
that finds it when it takes that operator's place.

### Correspondence

*Steps.* Everything a handler does while it holds `kernel_lk` is one step,
because no other CPU can read or write kernel state meanwhile; the one
exception is the loop of the tick, which is one step per expired entry with
`kernel_lk = 1` in between (the other CPU's steps that do not take the lock
interleave). What follows the release is separate: `store_ret`
(`regs->eax = ret`, `i386/syscall.c:59`), then at `intr_leave` either return or
`sched_do_next_tsk` (lock again) and then `clear_flag`
(`i386/interrupt.c:450`). `pc[c]` says where CPU `c` is. Interrupts are off in
the kernel, so a CPU has no other program counter.

*State.* `plink`, `wlink`, `tlink` are the three list fields. Node `-p` of
`plink` is `tsk_pri[p]`, node 0 of `tlink` is `timeout`, and the heads in `wlink`
are negative numbers: `-s` semaphore `s`; `-10-q` and `-20-q` the readers and writers
of data queue `q`; `-30-m` and `-40-m` the receivers and senders of message buffer
`m`; `-50-f` flag, `-60-b` mailbox, `-70-m` mutex, `-80-m` pool. `eax[t]` is the EAX
slot of the frame of task `t`, `Popped` when the task has taken it.
`current_proc` always moves with `c_tskid` and is not modelled apart. `delta` is
a residue modulo `TmoMod` (2^32 in the code).

*Pointers of the callers.* A service that puts its caller to sleep keeps a
pointer to the caller's variable, and another task writes through it later.
These variables are state: `var` (data queues), `text` (message buffers), `flgout`
(flags), `mbxout` (mailboxes, an address or `NULL`), `p_blk` (pools). Each has a value for "nothing
stored yet", is set to it when the call starts, and is used up when the task
resumes (`DtqRead` and its like), where properties compare it with the answer
in `eax`.

*Bytes.* The ring of a message buffer is an array of cells, one per byte; a cell
belongs to the size field or to the text of a message. So wrap-around, a torn
message or an overwritten one show, without the characters themselves.

*Bytes of addresses.* `VP` is `char *` (`include/itron.h:24`), so the heads `mprihd[i]`
of a mailbox are bytes (`kernel/types.h:125`), while `mbx_ins` stores a whole address at
one (`kernel/sys_mbx.c:231`), over the heads of the next three priorities, and
every test and read of a head takes one byte and extends its sign. `Mailbox` models
this: an address is four bytes, `mprihd` a function from levels to bytes. A byte
of 128 or more extends to an address that is not mapped, and the page fault
handler loops with the lock held (`PageFault`). What a smaller byte points to is the
start of memory, which the model does not have: a removal reads any byte of
`LowByte` there, and a walk ends at a zero word, faults, or goes round for ever. The
words written there hit nothing that is modelled.

*Data left out.* Names, stacks, start addresses and attribute bits without
effect on control. Identifiers are always in range, so the `E_ID` returns are
not there. Attribute tests are modelled by what they do with `TA_TFIFO` = 0: where the
code compares (`flgatr == TA_TFIFO`: semaphores, flags, data queues, mailboxes), a queue is
by arrival if no attribute bit is set at all; where it masks (`mtxatr & TA_TFIFO`:
mutexes, message buffers, pools) the test never holds and every queue is by
priority.

*Memory of the tables.* The tables of pools are zero at first, and a pool that is created
again gets the memory its table had before. The kernel gives such memory out without
clearing it, so it can hold anything that was there; this is the case in which
it holds the former table.

*Application.* `Issues(t, call, u)` says whether the program of task `t`
contains `call` on `u`. Programs are finite sets of calls that tasks issue in
any order and number, so a run covers every program built from them. In `Demo`
the order is that of `kernel/user.c`: `at[t]` is the next call of task `t`.

*History.* `asked`, `unit`, `holds`, `flow`, `locked`, `wants`, `lent`, `stack`, `initialised`
record what happened and influence nothing.

### What is asked of applications

The services trust their callers in ways no document states. Where a call breaks
the task layer whatever else happens, the model has the call and the runs keep
to applications that avoid it. These rules are guards that are named or marked
"the application":

- `Careful` (`TaskMgmt`): no task is suspended or terminated by another one, or by
  itself, while a CPU runs it (`Manages`: `~OnCpu`). In particular `sus_tsk` never meets a
  RUN task, whose branch (`kernel/sys_tsk.c:456-470`) breaks `SuspensionExact`. A task is taken off a queue only if it is in it or if a
  second removal changes no pointer (`Removable`), a priority is changed only to
  a different one and of ready tasks, no task is created that another CPU has not
  left yet (`Elsewhere`), and nobody makes a call while a time-out that was
  left behind is pending for it. The tasks that are managed may be of any CPU.
- `Signals` (`Semaphore`): a task signals a semaphore to give back a unit it
  holds, or where the code refuses the signal: the semaphore is at its maximum
  or not created.
- `Sets` (`EventFlag`): a pattern does not meet the wait of a task that an earlier
  `set_flg` has released and left in the queue (`LeftBehind`); a flag with such
  tasks is not deleted, and such a task does not wait again before it is out.
- `Mutex` (`HolderStays`): the holder of a mutex does not sleep or wait (a loan would link
  it as ready), and a mutex is deleted free and without waiters.
- `Orderly` (`Pools`): two rules about the blocks that are lent, which an application
  can see. A block is released only while the block right below it is lent, or
  no block below it is (`FreesInOrder`; releasing the highest block first is not
  enough, see `blocks_overlap`). A pool that was deleted is created again only
  when all of its blocks had been released (`AllBack`).
- `Fit` (`Waits`, for flags, mailboxes, mutexes and pools, which do not
  cancel time-outs): a task makes no call while a time-out that was left
  behind is pending. `FitStep` adds that a task with stale links does not delay
  itself.

Data queues, message buffers and the demonstration run without any such rule. The
theorems about message buffers ask one, `CleanSleep` (`MessageBuffer`): a task
does not delay itself while its links or its time-out are left behind.

The theorems state what they ask of an application as hypotheses on `Issues` and
the other constants (`SemApplication`, `UnitApplication`, `TidyApplication`,
`OneCpuApplication`, `DtqApplication`, `Application`, `MbfHypothesis`,
`PoolHypothesis`); see "Proofs". The instances of `sem`, `mgmt`, `tasks_safe` and `tasks_uni` meet those of the theorems whose properties they check, except that
the program of `tasks_uni`, without an idle task, is outside `OneCpuPreempts`.

## Runs

Passing:

| Run | Instance | Shows |
|---|---|---|
| `tasks_safe` | 2 CPUs, boot tasks 1 and 2, worker 3 on CPU 0, idle 8 and 9; time-outs 1, 2 | queues hold exactly what they should, deadlines survive every insertion and removal, dispatch by priority, no ghost, E_TMOUT on the tick's CPU |
| `tasks_uni` | 1 CPU without an idle task, two workers, activation limit 1 | no missed preemption, although a scan may find nobody |
| `tasks_live` | 2 CPUs, worker on CPU 1, fairness | timed sleeps end, handlers return |
| `mgmt` | 2 CPUs, one worker that the boot task of CPU 0 manages with every service while no CPU runs it (`Careful`), woken and activated from CPU 1; suspension limit 2 | queues, suspension counts and restarts consistent; deadlock off because `acre_tsk` stops the system (below) |
| `sem` | 1 CPU, 3 tasks, a priority-queued and a FIFO binary semaphore, created and deleted at will; time-outs 0, 1 | units conserved, queues exact, order of service, answers match units, deletion releases everybody |
| `objects` | 1 CPU, a boot task that creates and deletes, an urgent and a less urgent worker; time-outs 0, 1; nine applications, one per kind of object and of flag | below |
| `demo` | the demonstration on 2 CPUs from power-on | orderly start, exclusive use of the shared counter, the alternation of tasks 1 and 3 |

What `objects` shows, by object. Data queue: it implements `Channel` (`IsChannel`), its
readers' queue is exact, and E_OK is read exactly when a datum was stored.
Message buffer: the ring always holds whole messages in the order in which they
were put, a receiver reads the size of what it got, and nobody sleeps whom a
message or the room would satisfy (with at most one sender admitted per
message). Flag: a pattern given to a sleeper meets its wait, and nobody sleeps
on a pattern that meets it. Mailbox, with the bytes of its heads as they are:
exactly the sleeping receivers are queued, none while a receive would find something, and E_OK is
read exactly when something was stored. What is stored is another matter (below).
Mutex: whoever believes to hold a mutex owns it; no waiter is more
urgent than the holder. Pools, under the two rules of `Orderly`: blocks lent do
not overlap and lie in the pool.

Violations, each a disagreement of the code with a document or comment (quoted in
`PROJECT.json`):

| Run | Disagreement |
|---|---|
| `lost_resched` | `clear_flag` wipes a request of the tick, and the woken task waits behind a less urgent one |
| `stale_links` | `del_sem` leaves the `wlink` of the tasks it releases; a later time-out writes through it into the semaphore created anew |
| `blocks_overlap` | `pool_free` merges a region and removes the second entry of the table instead of it; memory that is lent is lent again |
| `mbf_overrun` | with fewer than four bytes left the room in a message buffer wraps below zero and the next message overwrites unread ones |
| `lost_line` | in the demonstration itself, the size of a line is overwritten by the late store of E_OK, and task 1 drops the line |

### Further disagreements

Met while modelling; the models contain them and the passing runs stay clear of
them, or contain them and hold nevertheless:

- E_TMOUT of the tick is overwritten like the size in `lost_line` when the waiter is
  on the other CPU (`i386/syscall.c:59`). `VerdictKeptOnTickCpu` says where it is safe.
- `acre_tsk` calls the library's `cre_tsk` when an identifier is free (`kernel/sys_tsk.c:85`): it
  traps inside the kernel and waits for the lock of its own CPU for ever, against
  `docs/en/context-switch.md:578` (no nested interrupts).
- `ter_tsk` of a task of the other CPU creates it again on the caller's
  (`kernel/sys_tsk.c:221`, `i386/proc.c:135`), against `docs/en/smp-basics.md:638`, "Once
  set, the affinity is never changed". `mgmt` has these calls, and its properties
  hold in spite of them.
- `sus_tsk` of a task that a CPU runs (`kernel/sys_tsk.c:456-470`): it polls in vain with the
  lock held, counts the suspension and unlinks the task, which stays RUN; `rsm_tsk`
  does not link it again. `docs/jp/refs/kernel/sys_tsk.md:695` describes a
  suspension. With such calls `SuspensionExact` is false.
- `tslp_tsk(0)` enters the timeout queue with delta 0, and the next tick makes it
  2^32 - 1 (`kernel/sched.c:215`).
- `rel_wai` leaves the time-out of the released task armed (`kernel/sys_tsk.c:418`).
- `TA_ACT` (`kernel/sys_tsk.c:47`): `cre_tsk` sets READY and links the task nowhere,
  while `docs/en/syscall.md:614` promises that it can be scheduled at once.
- A pending wakeup (`kernel/sys_sem.c:164`): a waiting service queues the caller and
  then returns at once, with the task still queued.
- A data queue of `dtqcnt` slots holds `dtqcnt - 1` data; `docs/en/itron-guide.md:313`
  and `:339` describe `dtqcnt`. `docs/en/keyboard.md:184` describes the interrupt as a
  forced send; it polls (`ipsnd_dtq`).
- A blocked sender of a data queue is not resumed by a receiver that makes room
  (`kernel/sys_dtq.c:326`), and its datum is never delivered.
- `mbf_snd_check` skips every other waiting sender (`kernel/sys_mbf.c:300`).
- `set_flg` leaves the tasks it releases in the wait queue (`kernel/sys_flg.c:105`).
- The receiving services of mailboxes stop below `maxmpri`
  (`kernel/sys_mbx.c:145`): messages of the lowest priority stay for ever.
- A message that is queued in a mailbox is received as one byte of its address
  (`kernel/sys_mbx.c:147`, `:169`), where `docs/en/itron-guide.md:579` has message pointers; only a
  message that is handed to a waiting receiver arrives.
  A message whose address has a zero byte where a receive looks is missed, and the
  other bytes appear as messages of the neighbouring levels. A head that is followed where
  no memory is mapped ends in the page fault handler, whose loop holds the lock
  (`i386/interrupt.c:196`). Where the application supplies the array of heads, of
  bytes by its type, the addresses of the last levels are stored behind its end.
- The ceiling of a mutex is looked at only when the mutex is taken, by a task
  that then waits or is refused, not by one that finds it free.
- The end of a fixed pool is computed as its size, not as an address
  (`kernel/sys_mpf.c:43`), so its last region reaches beyond its memory, and only the
  limit of the table keeps blocks from it. With sizes that are multiples of the
  alignment this is enough (`BlocksInArea`); with others the memory is too small, since
  `pool_alloc` rounds the sizes up (`kernel/pool.c:52`) and `cre_mpf` does not.
- `pool_init` writes the first two entries of the table only (`kernel/pool.c:14`), although a table
  ends at an entry of size 0 (`docs/jp/refs/kernel/pool.md:45`): what a former table held behind
  them becomes part of the pool at the next insertion, and blocks overlap
  unless all of them had been released.
- The table of a fixed pool is provided with `blkcnt` entries (`kernel/sys_mpf.c:42`), and with
  every block lent it takes two more. The room is there because `kmem_alloc` rounds up to
  4 KB, unless the table nearly fills its pages; the model's tables have it (`Slots`).
- `itron_init` calls no `flg_init`, `mbx_init`, `mtx_init`, `mpf_init` or `mpl_init`. The
  models of these objects start as if it had.

### Bounds

Three priorities in use besides the idle one: above, equal to and below a running
task. Two time-outs in `tasks_safe`: one entry before, equal to and after another;
`tslp_tsk(0)` is outside that
instance; 0 and 1 for objects, a poll and a wait. `TmoMod` is 8 (2 in `tasks_live`, where
every time-out is 1), larger than any sum of time-outs, so a wrap is visible
and does not happen by itself. Count limits of 0 to 2 make the overflow returns
reachable (`TMAX_WUPCNT = 0` still queues one wakeup because of the `>` in
`sys_tsk.c:348`). Two CPUs is the machine. One or two workers besides the boot
tasks give every pair of actors (waker, sleeper, tick) on the same and on
different CPUs. `MaxHolds` caps the history count `holds` in `Semaphore`.

The objects have one CPU: a second one adds the late store of the answer, which
`lost_line` shows to break what their answers mean. The data queue has 3 slots
(empty, one, full; both ends wrap). The message buffer has a ring of 25 bytes
for messages of 6 + 4 bytes, so that two fit, a third does not, and messages
and size fields wrap at every place; `UIntMod` = 256 is far above every size and
stands for 2^32; `mbf_overrun` has 17 bytes and messages of 4 + 4, which leaves
the ring with the 1 byte too few that it needs. The mailbox has three levels and
three addresses, whose lowest bytes are below 128, 128 or more, and 0. Two bits per flag give AND and
OR waits that differ; two mutexes give a holder of two; the variable pool has
12 bytes for requests of 3 and 5 (rounded to 4 and 8), the fixed pool has two blocks of
4 bytes, the alignment; tables are kept for as many regions
as there can be (`Slots`). `blocks_overlap` has a pool of four blocks.

The demonstration has its own programs, semaphore, queues and CPUs; lines have one
letter and the keyboard one (`LineWrap` = 1), the semaphore is held for two rounds
(`SEM_HOLD` = 2) and polled again at once (`SEM_REST` = 0), the ring has 24 bytes
(two lines), and the calls that only write on the screen are left out. Every line has
a letter: an empty line sent with Enter, a message of size 0, is outside the
instance. Tasks 3 and 4, which tasks 1 and 2 create, are dormant from the start.

### Fairness

(`tasks_live`.) Weak fairness of the kernel steps of a CPU: interrupts
are off and no handler waits for anything but the lock. Strong fairness of the
dispatcher, because `xchg` spinning promises the lock only if it is free again
and again, and of IRQ0, whose line stays raised until CPU 0 takes it. Nothing
is assumed of the tasks. A CPU starved by the other one's use of the lock is
excluded by the strong fairness: the spin lock itself has no queue. All other
runs check safety, and assume none.

## Proofs

All theorems hold for every value of the constants: any finite number of tasks and wait
queues, any CPUs (0 among them), priorities, limits, boot lists and programs.
What they assume of the constants is named in the modules and evaluated by TLC
in every run: tasks and heads are finitely many (`FiniteAssumption`), the lists with
which the kernel starts hold the tasks of the table at their priorities
(`BootAssumption`), and idle tasks, if there are any, exist on every CPU, do not sleep
(`IdleAssumption`) and are not ended or suspended (`IdleStaysAssumption`). What some
theorems ask beyond that is a hypothesis in their statement. The main one is
`Idle # {}`: without idle tasks a scan can find nobody, and a sleeping task goes on
executing and is linked a second time by its wakeup (the ghosts of
`kernel/user.c:19`); the theorems about queues are false then.

### Lists (`TasksProofs`)

`Links` models lists as pointers, and the properties look at them through `Walk`,
a recursive function over `next`. The lemmas connect the two for lists of any
length:

- *Induction.* No installed prover can use the induction and recursion theorems of
  the library, which take an operator. The module proves them again from the
  well-ordering of `Nat` with a set in place of the operator: `Least`, `SetInduction`
  (a set with 0 and the successor of each member contains `Nat`) and `Recursion` (a
  function defined by recursion on `Nat` exists and meets its equation). Hence the
  recursive functions of the model (`Hop` under `Walk`, `DueIn` under `TimeLeft`, `ReleaseAll`)
  can be reasoned about; `RECURSIVE` operators are not used.
- *Threads.* `Thread(N, r, h, n, s)`: from head `h` the links lead through the `n`
  different nodes `s[1] .. s[n]` and back, both ways. `IsList` hides the numbering and
  keeps the set of nodes; `Lists` says it of all heads of a family, with disjoint
  sets. `ThreadWalk` computes `Walk` from a thread, `ListHolds` and `HoldsList` turn
  `IsList` into the `HoldsExactly` of the invariants and back.
- *Changes.* What insertion, removal and the reset of a head do to a thread: the
  walk gains or loses one place (`Inserted`, `Removed`) and the other lists stay.
- *Sums.* The total of a function over a finite set exists, is unique, and changes by
  what one term changes (`TotalExists`, `TotalsAgree`, `TotalChange`).

### Scheduler and time (`TasksProofs`)

- `TypeCorrect`: `TypeOK`. Needs `Unlink` and the insertions to map rings to rings, and
  the counts to stay under their limits.
- `OneCpuPerTask`: `RunIsCurrent`. Inductive with `Placed` (the current task of a
  CPU is pinned to it), which the dispatcher's affinity test maintains.
- `VerdictReachesTask`: `VerdictKeptOnTickCpu`. Strengthened by `TickPlaced`
  (only CPU 0 is at "tick") and `FrameFresh` (the slot of a task whose return
  value is still to be stored holds no verdict).
- `ReadyQueuesCorrect`, `IdleAlwaysReady`, `NoGhosts`: `ReadyQueuesExact`, `IdleReady` and `NoGhost`
  from one invariant, `QInv`, because each needs the others
  (`IdleReady` is proved only; no run checks it on its own). `ReadyLists` (a task is
  linked at its priority exactly if it is RDY or RUN) is kept by a task that goes to
  sleep only if it was linked, that is, RUN; that it is RUN is `Replaceable`: a CPU
  with any other current task has its flag set and is on its way to the
  dispatcher, which then replaces it, because `IdleKept` and `ReadyLists` let the scan
  find somebody. No assumption about the steps of other CPUs is made.
- `TimeoutQueueCorrect`: `TimeoutQueueExact`, from `TimeoutList` (the queue is a list of
  exactly the tasks marked as timed, all of them waiting). The part that a unit
  test would hardly reach is the tick, which takes entries one by one while the
  other CPU runs between them.
- `NothingOverdue`, `DeadlinesAreKept`: `NoEntryOverdue` and `DeadlinesKept`, for queues of any
  length. The time left of an entry is the sum of the deltas up to it
  (`TimeLeft`); an insertion splits one delta into two, a removal adds one to
  its successor, and the sum at every other entry is the same. `DueInv` adds that
  nothing is due outside of a tick, and that no entry has more left than
  was ever asked for, so the residues modulo `TmoMod` never wrap. The hypothesis
  `0 \notin Tmo` is necessary: `tslp_tsk(0)` makes them wrap (see above).
- `DispatcherChoosesUrgent`: `MostUrgentChosen`; the scan is over the queues, the property
  over all tasks, and `QInv` makes them the same.
- `OneCpuPreempts`: `NoMissedPreemption` under `OneCpuApplication`: one CPU, no activation of a
  more urgent task (`act_tsk` asks nobody to reschedule), idle tasks of the lowest
  priority. With two CPUs it is false (`lost_resched`). The invariant `Urgent` says
  at each place of the way out who may be more urgent than the current task.

### Task management (`TaskMgmtProofs`)

- `ManagedQueuesCorrect`, `SuspensionsAgree`, `LiveTasksRun`, `DormantTasksFresh`: `ReadyQueuesExact`,
  `SuspensionExact`, `LiveTaskRuns` and `DormantIsFresh` under `TidyApplication`: `Careful`, with
  idle tasks, and no `TA_ACT`, which makes a READY task that is in no queue. So all
  four are about applications in which no task is suspended or terminated that a
  CPU runs; `SuspensionExact` is false without this (`kernel/sys_tsk.c:456-470`). The
  tasks may manage each other across CPUs. `MgmtInv` has the
  last three, which need each other: that a task which ends or sleeps is not
  suspended follows from its being the live task of its CPU (`Lively`), which in turn
  needs that nobody suspends or terminates a task that another CPU runs
  (`RunIsCurrent`, `Settled`). `QueueInv` adds the ready lists; a change of priority or a
  termination moves a task between them (`Requeued`). The lemmas sort the steps
  by their effect on status (`Harmless`), on the counts (`Facts`) and on the queues.

### Wait queues and semaphores (`WaitsProofs`, `SemaphoreProofs`)

`WaitsProofs` serves every object: what `Release`, a dismissal and a deletion with any
number of waiters do to the ready queues, the timeout queue, status and answers
(`Ready`, `Release` and `Chain...` lemmas; the loop of a deletion by induction on its
recursive function), under `Layer`, the part of the invariant that belongs to the task
layer. Its second half is about the queues of any set of heads (`Queues`), for the
objects of `ObjectsProofs` and `PoolsProofs`, and about tasks that change their ready queue (`Lined`).

The theorems about semaphores are for applications that meet `SemApplication`: there
are idle tasks; a task that waits for a semaphore is not an idle task and nobody
calls `wup_tsk` for it (a pending wakeup leaves it queued and running,
`kernel/sys_sem.c:164`); and a task that may be waiting when another one deletes
the semaphore does not sleep on its own (`Stray`: its stale links are written
through at the end of that sleep, which is what `stale_links` shows). Waiting,
polling, time-outs and deletion are free otherwise.

- `SemTypeCorrect`, `SemQueuesCorrect`: `SemTypeOK` and `WaitQueueExact`, for any number of
  CPUs. `SemInv` says that the queue of every semaphore is a list of the tasks
  that sleep on it (`WaitLists`), that each of them asked for a semaphore that
  exists and has no unit (`Waiting`), and which tasks may have stale links
  (`Unlinked`). Without the last part a time-out could unlink a task twice.
- `UrgentFirst`, `ServedInOrder`: `MostUrgentServed` and `NoOvertaking`. `Relinked` sorts all
  steps by what they do to the links, `LineStep` translates that into the
  sequence of waiters (one gone, one come at its place, all gone, none), and the
  invariant `LinesSorted` and the property follow on sequences; `Served` says that a unit goes to
  the head of the line only.
- `AnswersTrue`: `UnitAnswered`, on one CPU. `AnswerInv` follows the answer from the
  return value (`ret`) or the tick's verdict to the frame (`eax`) and says that it tells at
  each stage whether a unit was given (`Truthful`). With a second CPU the late store
  can overwrite the answer, so the hypothesis `Cpu = {TickCpu}` cannot be dropped.
- `UnitsNeverLost`: `UnitsConserved` under `UnitApplication`: in addition the initial count
  is at most the maximum and the maximum above 0, which `sys_cre_sem` does not check.
  `UnitInv` is `AnswerInv` and the sum. Each step moves one unit at most, between the count, the
  way to a task, and what a task holds (`Moved`, `Unmoved`); that the unit arrives
  is `AnswersTrue`. A refused signal (`E_QOVR`) needs that its caller held nothing,
  which the sum itself gives: the count is at its maximum.

### Data queues (`DataQueueProofs`)

`DataQueueProofs`: `QueueIsChannel`, the refinement, and `ReadersCorrect`, the invariant
`ReadersExact`, for one data queue with any number of slots, any tasks, CPUs and
keyboards: `DtqId = {Watched} /\ DtqApplication /\ DtqSpec => IsChannel`. First the ring as a
sequence: a store at `w` appends (`ItemsAppend`), taking from `r` leaves the tail
(`ItemsTail`), the forced send does both (`ItemsForced`), each with its wrap-around
cases. Then each service has one of eight effects on the queue (`Effect`:
`CallEffect`, `KeyEffect`, `KernelEffect`), and each effect is a step of the channel or
a stutter (`EffectSimulates`). The invariant `QueueInv` types the ring and says that
the slots between the ends hold data. A hand-over is a step of the channel only
if the task at the reading end sleeps in a receive and the ring is empty.

That is the second part. `DtqInv` adds to `QueueInv` the two wait lists of the queue:
`WaitsWith(S)` says that the reading end holds the sleepers whose variable is unset and
the writing end a set `S` of blocked senders, that each sleeper is one of these or
sleeps on its own (`Sleeping`), that nobody else but a stray task is linked
(`Hooked`), and that the ring is empty while somebody reads. `Heard` says that a task
back in user mode has used what it received, so that the variable tells a reader
from a sender. A time-out does not say in which of the two lists it unlinks;
`JoinLists`, `LeaveLists` and `DismissBothWakes` in `WaitsProofs` are stated for a family
of heads and serve the other objects with two queues as well.

`DtqApplication` asks what `SemApplication` asks: there are idle tasks, a task that blocks on
the queue is neither idle nor woken by `wup_tsk`, and one that may be left behind by
another task's `del_dtq` does not sleep on its own. The demonstration meets it (task
4 receives, nobody deletes, `kernel/user.c:453`). The program of `objects` goes beyond
it in one point, a sender that may delay itself with stale links; TLC finds that
harmless there, where it is the only sender.

### Mailboxes, flags, message buffers, mutexes and memory pools (`ObjectsProofs`, `PoolsProofs`)

The theorems name the behaviour they are about in the object's own module, `MbxSpec`,
`FlgSpec`, `MbfSpec`, `MtxSpec` and `PoolSpec`: the calls of the object, by any tasks on any number of CPUs, and
all steps of the task layer, under the rules of "What is asked of applications".
`objects` takes its steps from the same definitions (`MbxStep`, `FlgStep`, `MbfStep`,
`MtxStep`, `PoolStep`).
All ask `Application(B)` of the tasks `B` that may block on the object: there are idle
tasks, a task in `B` is not one of them, and nobody calls `wup_tsk` for it.

*Queues* (`WaitsProofs`). `Queues(H, B, L)` says that each head `h` in `H` leads a list of exactly the
tasks `L[h]`, all in `B` and in no other queue; `Asleep`, that they sleep. One lemma per
thing a kernel step does with such a family: a task joins (`QueuesJoin`), is
given something (`QueuesGive`), times out (`QueuesTimeout`), a deletion empties some of
the queues (`QueuesEmptied`), and a call that does none of that (`QueuesCall`). The
invariant of each object is the `Layer` of `WaitsProofs`, its types, and that some `L`
satisfies `Queues` and what the object promises to its sleepers.

- `ReceiversCorrect`: `ReceiversExact`, for the byte heads, and for any addresses and levels. `MbxWaits`
  says that the queue of a mailbox holds its receivers, and that the
  heads below its lowest level, which the receiving services do not search, are 0 while
  there are any: a head changes by a send, which serves a sleeper if
  there is one, or by a receive that finds something. A page fault stops its
  CPU in the middle of a call; nothing has changed by then, and the others find the
  lock taken.
- `FlagsNeverMissed`, `WaitsAreMet`: `NoFlagMissed` and `WaitIsMet`. Tasks that `set_flg` releases
  stay linked, so the queue of a flag holds sleepers and tasks left behind, and
  `FlgWaits` speaks of those that sleep. The walk of a set is a recursive function over
  the queue; `Serves` is its loop invariant: the tasks passed so far are released with
  the pattern, which meets their wait, or wait for something else. A walk that ends
  early, at a waiter of a clearing flag, leaves an empty pattern, which meets nobody.
- `RingsIntact`: `RingIntact` under `MbfHypothesis`. `Laid` places the messages of the history
  `flow` end to end from the read position; `Stored` adds that the cells are these
  messages and the write position is where they end. That a put extends this and
  a get shortens it (`PutStores`, `GetStores`) is arithmetic on a ring, with each of the two
  parts of a message around its end or not. The hypothesis `Spacious` says that
  whatever whole messages can fill leaves the four bytes of a size field free, so that
  the unsigned room does not wrap. It is exactly what the instance of `mbf_overrun` does
  not meet, where the property fails; `objects` meets it.
- `NobodyInVain`: `NobodyWaitsInVain`. A receive admits waiting senders in a loop that steps
  over every other one (`kernel/sys_mbf.c:300`). `Admits` is its invariant: some of the
  waiters were released and their messages are in the ring, the others are as before. With
  messages of one size (`OneSize`) one admission fills what one receipt has freed,
  so it does not matter who is skipped. With different sizes a small message may
  be skipped although there is room, so this hypothesis cannot be dropped. `Loose`, that a
  task in no queue has a `prev` of its own, is needed because the loop unlinks the node
  in front of the one that it has reached.
- `NobodyInverted`: `NoInversion`. `MtxInv` says that `mtxcnt` counts the mutexes a task owns
  (`Counted`, on cardinalities: a hand-over moves one from set to set), that an owner is
  ready (`OwnersReady`), that each queue is in order of priority (`AllSorted`) and outranked by
  the owner of its mutex (`Outranks`), and that only owners have a priority not their own
  (`OwnPriority`). Order is needed because the next owner is the head of the queue, which
  then has to outrank the rest. A loan takes the owner, which may be running, out of
  one ready queue and into another; `Lined` states the ready queues of given links,
  priorities and status, and `LinedMoved`, `LinedOn` and `LinedOff` are its three steps. Nobody
  who waits is ever lent anything, since an owner does not sleep, so the queues
  stay in order.
- `LocksAreOwned`: `MutexOwned` on one CPU. As with semaphores, `Truthful` follows the answer
  from `ret` to `eax`: it is `E_OK` only if the task owns what it asked for (`Told`).
  `Wanted` says that the waiters of a mutex asked for this one. `tloc_mtx` returns `E_OK` also
  when it goes to sleep; with a second CPU this value can be stored after a
  time-out has answered `E_TMOUT`, so `Cpu = {TickCpu}` cannot be dropped.
- `BlocksNeverOverlap`: `BlocksDisjoint` under `PoolHypothesis`, which asks the two rules of
  `Orderly` and `Application`, for blocks and requests of any size. `Lease` relates the table of a pool
  to the blocks the tasks hold. `Table`: its regions follow each other without a gap,
  all but the last a multiple of a unit (the rounded block of a fixed pool, the
  alignment of a variable one), up to the first entry of size 0.
  `Given`: each block is in a region of its own, not free and at least as large.
  `Apart`: no two neighbours in the table are both free. That is what makes the rule
  visible: a block that is released while its lower neighbour is free has
  either nothing lent below it, so that the free region is the first one and
  the second entry is the right one, or a lent block right below it, and
  nothing is merged (`InOrder`). And when all blocks are back, one region is left, with no
  entry behind the second (`Empty`), over which `pool_init` is sound.
  An allocation splits a region and a release merges it with its neighbours
  (`TakenWhole`, `TakenPart`, `BlockFreed`). `rel_mpl` serves its waiters in a loop, of which `HandsOut` is
  the invariant: some of them hold a new block, the others wait as before, and the table
  is a lease of all of these. `Asking` says that a waiter of a variable pool wants
  something: a request of 0 would put the end mark in the middle of the table.
  Without either rule blocks overlap; `blocks_overlap` shows it for the first.
- `BlocksKeptInArea`: `BlocksInArea`, if the blocks of fixed pools are also multiples of the alignment
  (`WholeBlocks`: `cre_mpf` provides memory for the sizes as they are). `Room` is how far the table may give blocks out: for
  a fixed pool whose last region reaches beyond its memory, the limit of the table.

### Start-up

`BootProofs`: `StartIsOrderly`, `OrderlyStart` for the whole demonstration. The invariant
`Started` says where each CPU may be for the values of `cpu_num` and `cpu_second`
(`Numbered`), on which stack (`OwnStacks`), which set-up calls are done (`InOrder`), that the
second one has nothing to do but turn on its paging,
and that the answer comes from a second CPU that has read its number
(`Answered`). Steps of the tasks leave its variables alone.

### Only model-checked

The answers of the objects other than semaphores and mutexes (`ReceiveAnswered`,
`SizeAnswered`, `MailAnswered`), and the types of the composition of the objects (`ObjectsTypeOK`;
the invariant of each object contains its own). The properties of `Demo` beyond its start, which depend on the order of calls in four programs. Liveness
(`tasks_live`), which TLAPS does not prove under fairness.

## Not modelled

- *Rendezvous ports* (`kernel/sys_por.c`, `sys_rdq.c`): a caller that blocks is linked by
  `plink` into the queue of the port, which destroys its ready queue; `tcal_por`
  stores a status in `tskid`; `rdvno` is never set. There is no use of these
  services after which the task layer is defined.
- *Cyclic, alarm and overrun handlers* (`sys_cyc.c`, `sys_alm.c`, `sys_ovr.c`): nothing
  calls their interrupt parts and their tables are not initialised, so nothing
  they arm ever fires.
- *Task exceptions and interrupt service routines* (`sys_tex.c`, `sys_isr.c`):
  registration tables, and a rewrite of the user frame, of which the model has
  the EAX slot only.
- `sta_tsk` (pushes an argument on the user stack of its target before the
  activation that `act_tsk` models), `iwup_tsk` and `iact_tsk` (no handler calls them).
- *System time* (`sys_tim.c`, `i386/timer.c`): a counter beside the tick.
- *The spin loops* of `smp_lock` and `video_lk`: `kernel_lk` bounds the steps and is
  a variable for the tick; the loop itself has no state.
- *The kernel pools* behind `stack_alloc`, `mem_alloc` and `kmem_alloc` are taken not to run
  out; the allocator they use is in `Pools`.
- *Drivers, boot code, console, floppy, ELF loader, library stubs*: one-time
  set-up, input and output, or a single trap.

## What is left to do

1. The other objects with two CPUs, with answers compared only where the late
   store cannot interfere.
2. An abstract specification of task states (`docs/en/itron-guide.md:77`) that
   `Tasks` and `TaskMgmt` implement.
