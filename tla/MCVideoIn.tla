----------------------------- MODULE MCVideoIn -----------------------------
(* The video inputs under TLC: sources of two sizes and of all polarities, *)
(* and none.                                                               *)
EXTENDS VideoInProperties
Source(signal, width, height, hpositive, vpositive) ==
  [scdt |-> signal, hpos |-> hpositive, vpos |-> vpositive,
   w |-> width, hfront |-> 1, hpulse |-> 1, hback |-> 1,
   h |-> height, vfront |-> 1, vpulse |-> 1, vback |-> 1]
MCSources ==
  {Source(TRUE, 3, 2, TRUE, TRUE), Source(TRUE, 3, 2, FALSE, FALSE),
   Source(TRUE, 2, 1, FALSE, TRUE), Source(FALSE, 1, 1, FALSE, TRUE)}
=============================================================================
