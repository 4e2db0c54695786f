------------------------------- MODULE Tables -------------------------------
(***************************************************************************)
(* The tables of the data plane are vectors that are filtered in place:    *)
(* the flows of flow.rs, the connections of terminator.rs.                 *)
(***************************************************************************)
EXTENDS Naturals, Sequences, FiniteSets

(* The entries at the indices to keep, in their order.                     *)
Retained(t, keep) ==
    LET n == Cardinality(keep)
        at == CHOOSE f \in [1 .. n -> keep] :
                 \A i, j \in 1 .. n : i < j => f[i] < f[j]
    IN  [i \in 1 .. n |-> t[at[i]]]
=============================================================================
