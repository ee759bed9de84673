------------------------------ MODULE Keyboard ------------------------------
(***************************************************************************)
(* The keyboard interrupt (i386/keyboard.c): scancodes become characters   *)
(* for the data queue that a task has chosen with set_key_task.            *)
(*                                                                         *)
(* Keys are abstract: two modifiers and a set of character keys, each with *)
(* a plain and a shifted character.  Control-C resets the machine and ends *)
(* the behaviour.                                                          *)
(***************************************************************************)
EXTENDS DataQueue

CONSTANTS
  Modifier,              \* the modifier keys that exist: SHIFT, CTRL
  CharKey,               \* keys with a character
  scode, scode_sh        \* their characters

VARIABLES mode, key_dtq_id

keyVars == <<mode, key_dtq_id>>

ASSUME KeyAssumption ==
  /\ Modifier \subseteq {"SHIFT", "CTRL"}
  /\ scode \in [CharKey -> Datum] /\ scode_sh \in [CharKey -> Datum]

key_init == mode = {} /\ key_dtq_id = 0

\* sys_key_set_task of kernel/sys_exd.c.
set_key_task(c, q) ==
  /\ Trap(c, "set_key_task", q)
  /\ key_dtq_id' = q
  /\ Reply(c, E_OK)
  /\ UNCHANGED <<mode, dtqVars>>

Released(k) == mode \ {k}

press_modifier(k) == mode' = mode \cup {k}
release_modifier(k) == mode' = Released(k)

ch(k) == IF "SHIFT" \in mode THEN scode_sh[k] ELSE scode[k]

\* IRQ1 goes to CPU 0, like the tick; its handler is one step under the lock.
irq1(c) ==
  /\ c = TickCpu /\ pc[c] = "user" /\ kernel_lk = 0
  /\ \/ \E k \in Modifier :
          /\ press_modifier(k) \/ release_modifier(k)
          /\ UNCHANGED <<dtqVars, readyVars, timeVars, wlink, eax, tcbVars, wupcnt>>
     \/ \E k \in CharKey :
          /\ \/ key_dtq_id > 0 /\ ipsnd_dtq(key_dtq_id, ch(k))
             \/ /\ key_dtq_id = 0
                /\ UNCHANGED <<dtqVars, readyVars, timeVars, wlink, eax, tcbVars, wupcnt>>
          /\ UNCHANGED mode
  /\ pc' = [pc EXCEPT ![c] = "leave"]
  /\ UNCHANGED <<ret, lockVars, c_tskid, key_dtq_id>>
-----------------------------------------------------------------------------
\* The task layer with the data queues and the keyboard.
DataQueueStep(c) ==
  \/ DtqCall(c) /\ UNCHANGED keyVars
  \/ irq1(c)
  \/ \E q \in DtqId : set_key_task(c, q)
  \/ KernelStep(c) /\ DtqRead(c) /\ UNCHANGED keyVars

DtqSpec ==
  /\ TasksInit /\ DtqInit /\ key_init
  /\ [][\E c \in Cpu : DataQueueStep(c)]_<<vars, dtqVars, keyVars>>
=============================================================================
