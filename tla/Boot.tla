-------------------------------- MODULE Boot --------------------------------
(***************************************************************************)
(* How the two processors start (i386/run.s, i386/main.c, i386/smp.c).     *)
(* Both execute the same code; the word cpu_num tells them who they are.   *)
(* The first one sets the kernel up, starts the second one with two        *)
(* start-up interrupts, and waits for its answer, cpu_second.  The second  *)
(* one only turns its own paging on, over the tables of the first.         *)
(*                                                                         *)
(* stack and initialised are history: the boot stack each processor is on, *)
(* and how often it has set up each part of the kernel.                    *)
(***************************************************************************)
EXTENDS Naturals, Sequences

VARIABLES boot, cpu_num, cpu_second, stack, initialised

bootVars == <<boot, cpu_num, cpu_second, stack, initialised>>

CPU0_SP == "CPU0_SP"
CPU1_SP == "CPU1_SP"

\* The set-up calls of main on the first processor, in their order.
SetUp == <<"all_init", "page_init", "page_enable", "itron_init", "proc_init",
           "tss_init">>

Part == {SetUp[i] : i \in DOMAIN SetUp}

\* The first processor is at `run'; the other one waits for an interrupt.
BootInit ==
  /\ boot = [c \in {0, 1} |-> IF c = 0 THEN "run" ELSE "parked"]
  /\ cpu_num = 0
  /\ cpu_second = 0
  /\ stack = [c \in {0, 1} |-> "none"]
  /\ initialised = [c \in {0, 1} |-> [p \in Part |-> 0]]

Goes(c, from, to) == boot[c] = from /\ boot' = [boot EXCEPT ![c] = to]

Initialises(c, p) == initialised' = [initialised EXCEPT ![c][p] = @ + 1]

run(c) ==
  /\ Goes(c, "run", "main")
  /\ stack' = [stack EXCEPT ![c] = IF cpu_num = 0 THEN CPU0_SP ELSE CPU1_SP]
  /\ UNCHANGED <<cpu_num, cpu_second, initialised>>

main(c) ==
  /\ \/ cpu_num = 0 /\ Goes(c, "main", SetUp[1])
     \/ cpu_num # 0 /\ Goes(c, "main", "ap_main")
  /\ UNCHANGED <<cpu_num, cpu_second, stack, initialised>>

set_up(c) ==
  /\ \E i \in DOMAIN SetUp :
       /\ Goes(c, SetUp[i], IF i < Len(SetUp) THEN SetUp[i + 1] ELSE "cpu_num")
       /\ Initialises(c, SetUp[i])
  /\ UNCHANGED <<cpu_num, cpu_second, stack>>

\* The second processor loads the same page tables.
ap_page_enable(c) ==
  /\ Goes(c, "ap_main", "smp_ap_init")
  /\ Initialises(c, "page_enable")
  /\ UNCHANGED <<cpu_num, cpu_second, stack>>

unnumbered == UNCHANGED cpu_num                                  \* mutant
NumberNext == cpu_num' = 1

number(c) ==
  /\ Goes(c, "cpu_num", "sipi")
  /\ NumberNext
  /\ UNCHANGED <<cpu_second, stack, initialised>>

\* The start-up interrupt goes to all but the sender; a processor that is not
\* parked ignores it.
smp_init(c) ==
  /\ \E n \in {"sipi", "sipi again"} :
       /\ boot[c] = n
       /\ boot' = [d \in {0, 1} |->
                     IF d = c THEN IF n = "sipi" THEN "sipi again" ELSE "wait"
                     ELSE IF boot[d] = "parked" THEN "run" ELSE boot[d]]
  /\ UNCHANGED <<cpu_num, cpu_second, stack, initialised>>

\* The timer and the keyboard are started, then the first task.
start_first_task(c) ==
  /\ Goes(c, "wait", "up")
  /\ cpu_second # 0
  /\ UNCHANGED <<cpu_num, cpu_second, stack, initialised>>

smp_ap_init(c) ==
  /\ Goes(c, "smp_ap_init", "start_second_task")
  /\ cpu_second' = 1
  /\ UNCHANGED <<cpu_num, stack, initialised>>

start_second_task(c) ==
  /\ Goes(c, "start_second_task", "up")
  /\ UNCHANGED <<cpu_num, cpu_second, stack, initialised>>

BootStep(c) ==
  \/ run(c) \/ main(c) \/ set_up(c) \/ number(c) \/ smp_init(c)
  \/ start_first_task(c) \/ ap_page_enable(c) \/ smp_ap_init(c)
  \/ start_second_task(c)
-----------------------------------------------------------------------------
\* The processors never share a boot stack.  What they share is set up once, by
\* the first of them; paging, which each has to turn on for itself, once by each
\* and not before the page tables are built.  Whoever runs a task finds all
\* of it done, and the first one does not start its timer before the second one
\* has answered (main.c:30-48, smp.c:137).
OrderlyStart ==
  /\ stack[0] = stack[1] => stack[0] = "none"
  /\ \A p \in Part : initialised[0][p] <= 1
  /\ \A p \in Part \ {"page_enable"} : initialised[1][p] = 0
  /\ initialised[1]["page_enable"] <= 1
  /\ \A c \in {0, 1} :
       initialised[c]["page_enable"] > 0 => initialised[0]["page_init"] = 1
  /\ \A c \in {0, 1} : boot[c] = "up" =>
       /\ \A p \in Part : initialised[0][p] = 1
       /\ initialised[c]["page_enable"] = 1
  /\ boot[0] = "up" => cpu_second = 1
=============================================================================
