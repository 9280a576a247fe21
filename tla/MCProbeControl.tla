--------------------------- MODULE MCProbeControl ---------------------------
(* Instances of ProbeControl for TLC. *)
EXTENDS ProbeControl, TLC

CONSTANTS x1, x2, c1, c2

OneStream == {1}

TwoStreams == {1, 2}

CallSymmetry == Permutations(Calls)

(* Once the Manager is wedged only the probe moves on; nothing is asked of that. *)
NotWedged == ~wedged
=============================================================================
