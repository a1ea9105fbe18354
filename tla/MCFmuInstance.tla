--------------------------- MODULE MCFmuInstance ---------------------------
(* Instances of FmuInstance for TLC.                                       *)
EXTENDS FmuInstance

CONSTANTS r1, r2, t1, t2, s1, s2, s3

(* Bus topology: both inputs are indexed to signal s1.                     *)
BusRxSig == [v \in {r1, r2} |-> s1]

(* One signal per output, as the default FMU indexes them.                 *)
OwnTxSig == [v \in {t1, t2} |-> IF v = t1 THEN s2 ELSE s3]

(* The scalars and the frames meet in DoStep only: while there is more     *)
(* than one frame the scalars rest, which keeps their product out of the   *)
(* state space; so does the bound on what the two outputs hold together.   *)
OneAtATime ==
  LET frames(s) == Len(stream[s].data)
  IN  /\ frames(s2) + frames(s3) <= MaxFrames
      /\ \/ reg = {} /\ \A v \in Scalar : last[v] = 0
         \/ frames(s1) + frames(s2) + frames(s3) <= 1
=============================================================================
