---------------------------- MODULE MCTerminator ----------------------------
EXTENDS Terminator

CONSTANTS k1, k2

TwoKeys == {k1, k2}

Plain == [opens |-> TRUE, bytes |-> 0, replies |-> 1, lengths |-> {1, 2}, windows |-> {0, 2},
          closes |-> FALSE, lossy |-> FALSE, reads |-> FALSE]
Absent == [Plain EXCEPT !.opens = FALSE]
Both(c, d) == [k \in TwoKeys |-> IF k = k1 THEN c ELSE d]

(* One flow on a path that keeps order, one on a path that does not, and   *)
(* two side by side.                                                       *)
InOrder == [Plain EXCEPT !.bytes = 2, !.replies = 3, !.closes = TRUE, !.reads = TRUE]
OutOfOrder == [Plain EXCEPT !.bytes = 2, !.replies = 2, !.lengths = {1}, !.lossy = TRUE]
OneOpen == [Plain EXCEPT !.windows = {2}]
Passing == {Both(InOrder, Absent), Both(OutOfOrder, Absent),
            Both(OneOpen, [OneOpen EXCEPT !.replies = 0])}

(* What the theorems on the clients' streams ask of them.                  *)
ASSUME PassingAssumption == Clients = Passing => Proper /\ Apart

(* Segments longer than the holes between them.                            *)
ShortHole == {Both([OutOfOrder EXCEPT !.bytes = 3, !.lengths = {1, 2}, !.windows = {0, 3}], Absent)}

(* Two clients that close their side.                                      *)
OtherFlow == {LET c == [OneOpen EXCEPT !.closes = TRUE] IN Both(c, c)}
=============================================================================
