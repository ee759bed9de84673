------------------------------- MODULE Links -------------------------------
(***************************************************************************)
(* The circular doubly linked lists of the kernel.  Every queue of         *)
(* tiny-itron (the 16 ready queues, the wait queue of each object, the     *)
(* timeout queue) threads T_LINK fields that live inside the task control  *)
(* blocks through a head that lives in the object.  A family of such lists *)
(* that share the link field of the tasks is one record r of two pointer   *)
(* functions r.next and r.prev over nodes; a node is a task or a head.     *)
(*                                                                         *)
(* The operations do what the C assignments do to the pointers, in their   *)
(* order, whether or not the node is where the caller believes it is: the  *)
(* lists a stale or doubled link produces are the ones the kernel gets.    *)
(***************************************************************************)
EXTENDS Integers, Sequences, FiniteSetsExt

\* Rings over the nodes N: two pointers per node.
Ring(N) == [next : [N -> N], prev : [N -> N]]

\* Every node points to itself: tsk_init, sem_init, sched_init.
SelfLinked(N) == [next |-> [n \in N |-> n], prev |-> [n \in N |-> n]]

\* sched_ins: link x in front of y (y is a head, so x becomes the last).
InsertBefore(r, y, x) ==
  [next |-> [r.next EXCEPT ![x] = y, ![r.prev[y]] = x],
   prev |-> [r.prev EXCEPT ![x] = r.prev[y], ![y] = x]]

\* ins_fifo, ins_pri, wlink_ins, sched_timeout_ins: link x after p.
InsertAfter(r, p, x) ==
  [next |-> [r.next EXCEPT ![x] = r.next[p], ![p] = x],
   prev |-> [r.prev EXCEPT ![x] = p, ![r.next[p]] = x]]

\* sched_rem: the neighbours of x forget it, x keeps its own pointers.
Unlink(r, x) ==
  [next |-> [r.next EXCEPT ![r.prev[x]] = r.next[x]],
   prev |-> [r.prev EXCEPT ![r.next[x]] = r.prev[x]]]

\* wlink_rem, sched_timeout_rem: unlink x and mark it "in no queue".
UnlinkToSelf(r, x) ==
  LET u == Unlink(r, x)
  IN  [next |-> [u.next EXCEPT ![x] = x], prev |-> [u.prev EXCEPT ![x] = x]]

\* The test `link.next != &link' of the kernel.
InQueue(r, x) == r.next[x] # x

(***************************************************************************)
(* Reading a list.  Hop(r, h)[i] is the node that i steps from h reach.    *)
(* The loops of the kernel follow next from a head until they are back at  *)
(* it: Walk is what they visit, and Endless says that they never return    *)
(* (a walk that returns does so within one step per node).                 *)
(***************************************************************************)
Hop(r, h) ==
  LET at[i \in Nat] == IF i = 0 THEN h ELSE r.next[at[i - 1]]
  IN  at

Steps(r) == 1 .. Cardinality(DOMAIN r.next)

Endless(r, h) == LET at == Hop(r, h) IN \A i \in Steps(r) : at[i] # h

Walk(r, h) ==
  LET at == Hop(r, h)
      back == CHOOSE i \in Steps(r) : at[i] = h /\ \A j \in 1 .. i - 1 : at[j] # h
  IN  [i \in IF Endless(r, h) THEN Steps(r) ELSE 1 .. back - 1 |-> at[i]]

\* The nodes of S are exactly what the list at h holds, once each, and the
\* prev pointers mirror the next pointers.
HoldsExactly(r, h, S) ==
  LET w == Walk(r, h)
  IN  /\ ~Endless(r, h)
      /\ {w[i] : i \in 1 .. Len(w)} = S
      /\ \A n \in S \cup {h} : r.prev[r.next[n]] = n
=============================================================================
