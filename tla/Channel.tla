------------------------------ MODULE Channel ------------------------------
(***************************************************************************)
(* What a data queue promises: a channel that holds at most `capacity'     *)
(* data and delivers them in the order in which they were accepted, each   *)
(* to one reader.  A reader that waits while the channel is empty is given *)
(* the next datum directly; a forced send drops the oldest one.            *)
(***************************************************************************)
EXTENDS Integers, Sequences

CONSTANTS Reader, Data, capacity

VARIABLES
  open,       \* whether it exists
  items,      \* what the channel holds, oldest first
  given       \* the datum each reader was given and has not used: <<>> or <<d>>

Init == open = FALSE /\ items = <<>> /\ given = [t \in Reader |-> <<>>]

Accept(d) ==
  /\ open /\ Len(items) < capacity
  /\ items' = Append(items, d)
  /\ UNCHANGED <<open, given>>

Deliver(t) ==
  /\ items # <<>>
  /\ items' = Tail(items)
  /\ given' = [given EXCEPT ![t] = <<Head(items)>>]
  /\ UNCHANGED open

HandOver(d, t) ==
  /\ open /\ items = <<>> /\ given[t] = <<>>
  /\ given' = [given EXCEPT ![t] = <<d>>]
  /\ UNCHANGED <<open, items>>

\* (A channel of no places loses the datum.)
Force(d) ==
  /\ open /\ Len(items) = capacity
  /\ items' = IF items = <<>> THEN <<>> ELSE Append(Tail(items), d)
  /\ UNCHANGED <<open, given>>

Use(t) ==
  /\ given' = [given EXCEPT ![t] = <<>>]
  /\ UNCHANGED <<open, items>>

\* Creation and deletion; a channel that is closed has lost what it held.
Toggle == open' = ~open /\ items' = <<>> /\ UNCHANGED given

Next ==
  \/ \E d \in Data : Accept(d) \/ Force(d)
  \/ \E t \in Reader : Deliver(t) \/ Use(t) \/ \E d \in Data : HandOver(d, t)
  \/ Toggle

Spec == Init /\ [][Next]_<<open, items, given>>
=============================================================================
