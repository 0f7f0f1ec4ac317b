------------------------- MODULE VideoInProperties -------------------------
(***************************************************************************)
(* What the video inputs promise the program and the overlay.              *)
(***************************************************************************)
EXTENDS VideoIn

\* Whatever the video was before and at whatever pixel it changed, three pictures later
\* the resolution register holds the size of the new one, and zero without a signal: the
\* partial sizes measured meanwhile do not stay.
SettledInTime ==
  age = Settled(src) =>
    <<screenX, screenY>> = IF src.scdt THEN <<src.w, src.h>> ELSE <<0, 0>>

\* Two pictures after a change the counters name the pixel at the inputs, in every line
\* that is shown.
PositionTrue ==
  age >= 2 * Clocks(src) /\ DeIn => nowX = vx /\ nowY = vy /\ nowPxl = vy * src.w + vx
=============================================================================
