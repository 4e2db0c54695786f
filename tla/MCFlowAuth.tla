----------------------------- MODULE MCFlowAuth -----------------------------
EXTENDS FlowAuth, TLC

CONSTANTS k1, k2, k3, l1, l2

ThreeKeys == {k1, k2, k3}
TwoLinks == {l1, l2}

(* One connection is as good as the other.                                 *)
EitherLink == Permutations(TwoLinks)

(* Two five-tuples between the same hosts, one between others.             *)
TwoAlike == [k \in ThreeKeys |-> IF k = k3 THEN "other" ELSE "same"]

(* What is left to send on each five-tuple.                                *)
Left(a, b, c) ==
    [k \in ThreeKeys |-> MaxPackets - (CASE k = k1 -> a [] k = k2 -> b [] k = k3 -> c)]

(* One five-tuple with all the time there is, two with less of it, and     *)
(* three for a table of two with none: only answers settle their flows.    *)
OneTwoThree ==
    {[now |-> 1, offered |-> Left(3, 0, 0)],
     [now |-> 3, offered |-> Left(2, 1, 0)],
     [now |-> 4, offered |-> Left(2, 1, 1)]}
=============================================================================
