------------------------------ MODULE VideoIn ------------------------------
(***************************************************************************)
(* pxlCount.v and syncCorrector.v: the FPGA logic that learns the polarity *)
(* of the syncs of the video at its inputs, counts where in the picture    *)
(* the video is and measures its size.  The size is what the resolution    *)
(* register holds (Pipeline!res); the position is what the overlay starts  *)
(* its lines by (Overlay!NowX).                                            *)
(*                                                                         *)
(* One step is one edge of the pixel clock.  The video is external: it may *)
(* be replaced by another at any clock, in the middle of its picture.      *)
(***************************************************************************)
EXTENDS Integers

CONSTANTS
  Sources,     \* the videos that can be at the inputs
  CountRange,  \* the polarity counters count modulo this
  MaxChanges   \* bound on changes of the video

\* scdt: there is a signal.  A line is w pixels, a front porch, the sync pulse and a
\* back porch; a picture is h such lines and the same in lines.  hpos, vpos: the pulse
\* is high.
SourceFields ==
  {"w", "hfront", "hpulse", "hback", "h", "vfront", "vpulse", "vback"}

LineLen(s) == s.w + s.hfront + s.hpulse + s.hback
PictureLen(s) == s.h + s.vfront + s.vpulse + s.vback
Clocks(s) == LineLen(s) * PictureLen(s)

ASSUME VideoAssumption ==
  /\ \A s \in Sources :
       /\ s.scdt \in BOOLEAN /\ s.hpos \in BOOLEAN /\ s.vpos \in BOOLEAN
       /\ \A f \in SourceFields : s[f] \in Nat \ {0}
       /\ 2 * s.hpulse < LineLen(s) /\ 2 * s.vpulse < PictureLen(s)
       /\ Clocks(s) < CountRange
  /\ CountRange \in Nat /\ MaxChanges \in Nat

VARIABLES
  src, vx, vy,           \* the video, and the pixel of it at the inputs
  hdet, vdet,            \* the two syncPolDecter
  nowX, nowY, nowPxl,
  screenX, screenY,
  lastDe, lastVsync,
  changes,               \* changes of the video so far
  age                    \* history: clocks since the last one, up to Settled

vars == <<src, vx, vy, hdet, vdet, nowX, nowY, nowPxl, screenX, screenY, lastDe,
          lastVsync, changes, age>>

-----------------------------------------------------------------------------
(* The pins.  Without a signal they are still. *)

DeIn == src.scdt /\ vx < src.w /\ vy < src.h
HPulse == src.scdt /\ vx - src.w - src.hfront \in 0 .. src.hpulse - 1
VPulse == src.scdt /\ vy - src.h - src.vfront \in 0 .. src.vpulse - 1
HsyncIn == HPulse = src.hpos
VsyncIn == VPulse = src.vpos

\* When the counters have settled: the polarity may be learnt wrong from what was left
\* of another video, it is right a picture later, and one more picture is measured.
Settled(s) == 3 * Clocks(s) + 1
Age == IF age = Settled(src) THEN age ELSE age + 1

Continue ==
  /\ vx' = IF vx = LineLen(src) - 1 THEN 0 ELSE vx + 1
  /\ vy' = IF vx # LineLen(src) - 1 THEN vy ELSE (vy + 1) % PictureLen(src)
  /\ age' = Age
  /\ UNCHANGED <<src, changes>>

Change ==
  /\ changes < MaxChanges /\ changes' = changes + 1
  /\ src' \in Sources \ {src}
  /\ vx' \in 0 .. LineLen(src') - 1 /\ vy' \in 0 .. PictureLen(src') - 1
  /\ age' = 0

-----------------------------------------------------------------------------
(* syncPolDecter: at a rising edge the sync has been high or low for longer. *)

Inc(n) == (n + 1) % CountRange

Learn(det) == det.high > det.low

Detect(det, sync) ==
  LET edge == sync # det.d1 IN
  [d1 |-> sync,
   normal |-> IF sync /\ edge THEN Learn(det) ELSE det.normal,
   high |-> IF ~sync THEN det.high ELSE IF edge THEN 0 ELSE Inc(det.high),
   low |-> IF edge THEN 0 ELSE IF sync THEN det.low ELSE Inc(det.low)]

\* syncCorrector: syncs that are low in the pulse; no pixel is active in one.
Hsync == hdet.normal = HsyncIn
Vsync == vdet.normal = VsyncIn
De == DeIn /\ Hsync /\ Vsync

-----------------------------------------------------------------------------
(* pxlCounter. *)

\* Mutant of CountLines: the count is taken whenever the pulse is on.
MutCountLines ==
  /\ nowY' = IF De THEN nowY ELSE IF lastDe THEN nowY + 1 ELSE IF ~Vsync THEN 0 ELSE nowY
  /\ screenY' = IF ~De /\ ~lastDe /\ ~Vsync THEN nowY ELSE screenY

CountPixels ==
  /\ nowX' = IF De THEN nowX + 1 ELSE 0
  /\ screenX' = IF ~De /\ lastDe THEN nowX ELSE screenX

CountLines ==
  /\ nowY' = IF De THEN nowY ELSE IF lastDe THEN nowY + 1 ELSE IF ~Vsync THEN 0 ELSE nowY
  /\ screenY' = IF ~De /\ ~lastDe /\ ~Vsync /\ lastVsync THEN nowY ELSE screenY

\* Mutant of CountPicture: the count of the picture goes on.
MutCountPicture == nowPxl' = IF De THEN nowPxl + 1 ELSE nowPxl

CountPicture == nowPxl' = IF De THEN nowPxl + 1 ELSE IF ~Vsync THEN 0 ELSE nowPxl

Count ==
  /\ src.scdt
  /\ CountPixels /\ CountLines /\ CountPicture
  /\ lastDe' = De /\ lastVsync' = Vsync

NoSignal ==
  /\ ~src.scdt
  /\ nowX' = 0 /\ nowY' = 0 /\ nowPxl' = 0 /\ screenX' = 0 /\ screenY' = 0
  /\ lastDe' = FALSE /\ UNCHANGED lastVsync

Clock ==
  /\ hdet' = Detect(hdet, HsyncIn) /\ vdet' = Detect(vdet, VsyncIn)
  /\ Count \/ NoSignal
  /\ Continue \/ Change

\* After reset.
Init ==
  /\ src \in Sources
  /\ vx \in 0 .. LineLen(src) - 1 /\ vy \in 0 .. PictureLen(src) - 1
  /\ hdet = [low |-> 0, high |-> 0, normal |-> TRUE, d1 |-> FALSE] /\ vdet = hdet
  /\ nowX = 0 /\ nowY = 0 /\ nowPxl = 0 /\ screenX = 0 /\ screenY = 0
  /\ lastDe = FALSE /\ lastVsync \in BOOLEAN
  /\ changes = 0 /\ age = 0

Spec == Init /\ [][Clock]_vars
=============================================================================
