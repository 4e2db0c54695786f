----------------------------- MODULE MCHostLoop -----------------------------
EXTENDS HostLoop

(* Many packets without a channel, and a channel with few packets.         *)
EitherHalf == {[packets |-> 4, connects |-> 0], [packets |-> 1, connects |-> 1]}
=============================================================================
