------------------------------- MODULE MCDemo -------------------------------
(***************************************************************************)
(* The demonstration with its own tasks, priorities and CPUs (three of the *)
(* sixteen priorities are in use), short counters, a keyboard with one     *)
(* letter, and lines of one letter.                                        *)
(***************************************************************************)
EXTENDS Demo

DCpu == {0, 1}
DTask == {1, 2, 3, 4, 5, 6}
Dfirst == [c \in DCpu |-> c + 1]
DIdle == {5, 6}
Dpri == [t \in DTask |-> CASE t = 4 -> 1 [] t \in {5, 6} -> 3 [] OTHER -> 2]
Dhome == [t \in DTask |-> IF t \in {1, 3, 5} THEN 0 ELSE 1]
Dboot == FoldLeft(LAMBDA l, t : InsertBefore(l, -Dpri[t], t),
                  SelfLinked(DTask \cup {-p : p \in 1 .. 3}), <<1, 2, 5, 6>>)
DHeads == {-1, -12, -22, -31, -41}
One == [s \in {1} |-> 1]
Chars == {"a"}
TwoSlots == [q \in {2} |-> 2]
Keys == {"ka"}
Typed == [k \in Keys |-> "a"]
OneLine == {"line"}
TenBytes == [x \in OneLine |-> 10]
TwentyFour == [m \in {1} |-> 24]
AnyLine == [n \in 0 .. 1 |-> "line"]
=============================================================================
