---------------------------- MODULE MCCaptureRelay ----------------------------
(* Instances of CaptureRelay.                                              *)
EXTENDS CaptureRelay

\* No secret; one that overlaps itself; one that begins with, ends with or
\* overlaps another.
MCSecrets ==
  {{}, {<<1, 1, 2>>}, {<<1, 2>>, <<1, 2, 1>>}, {<<1, 2>>, <<2, 1>>}, {<<1>>, <<1, 2, 2>>}, {<<2, 1>>, <<1, 2, 2>>}}

\* A long output beside an empty one, and one byte on each.
MCOutputs ==
  {[stdout |-> o, stderr |-> <<>>] :
     o \in {<<1, 1, 1, 2>>, <<1, 2, 1, 2>>, <<1, 1, 2, 1>>, <<2, 1, 2, 2>>, <<1, 2, 1, 1>>, <<1, 2>>}}
    \cup {[stdout |-> <<1>>, stderr |-> <<2>>]}

=============================================================================
