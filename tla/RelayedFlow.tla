---------------------------- MODULE RelayedFlow -----------------------------
(***************************************************************************)
(* What a terminated flow promises the relay that carries it, whatever the *)
(* segments, windows, timers and losses on the local path: the relay is    *)
(* given a growing prefix of what the client offered, is half-closed only  *)
(* behind the last byte, and hears nothing more once it is released.       *)
(***************************************************************************)
EXTENDS Naturals

CONSTANTS Flows,    \* the flows, one per dial
          MaxBytes  \* bound: bytes offered on one flow

VARIABLE flow

FlowState == [phase : {"none", "open", "released"}, offered : 0 .. MaxBytes,
              given : 0 .. MaxBytes, eof : BOOLEAN]

FlowInit == flow = [f \in Flows |-> [phase |-> "none", offered |-> 0,
                                     given |-> 0, eof |-> FALSE]]

Opens(f, g) ==
    flow[f].phase = "none" /\ g.phase = "open" /\ g.given = 0 /\ ~g.eof

(* Bytes are offered and given; a half-close comes with the last of them.  *)
Carries(f, g) ==
    /\ flow[f].phase = "open" /\ g.phase = "open"
    /\ flow[f].offered <= g.offered
    /\ flow[f].given <= g.given /\ g.given <= g.offered
    /\ flow[f].eof => g = flow[f]
    /\ g.eof => g.given = g.offered

(* Releasing a flow gives nothing; a client may offer in vain afterwards.  *)
Releases(f, g) ==
    /\ flow[f].phase # "none" /\ g.phase = "released"
    /\ g.given = flow[f].given /\ g.eof = flow[f].eof
    /\ flow[f].offered <= g.offered

(* One tick or the end of the terminator may move several flows at once.   *)
FlowNext ==
    /\ flow' \in [Flows -> FlowState]
    /\ \A f \in Flows :
          LET g == flow'[f]
          IN  g = flow[f] \/ Opens(f, g) \/ Carries(f, g) \/ Releases(f, g)

FlowSpec == FlowInit /\ [][FlowNext]_flow
=============================================================================
