------------------------- MODULE OverlayProperties -------------------------
(***************************************************************************)
(* Where the pixels of the overlay appear in the video.                    *)
(***************************************************************************)
EXTENDS Overlay

\* The type invariant.
TypeOK ==
  /\ vx \in 0 .. W + HBlank - 1 /\ vy \in 0 .. H + VBlank - 1
  /\ fifoRdreq \in BOOLEAN /\ clean \in BOOLEAN /\ lag \in Nat
  /\ pixel_sink \in [code : {"pixel"}, x : Int, y : Int] \cup {HSync, VSync}
  /\ frame \in Geometries /\ fx \in 0 .. frame[1] + 1 /\ fy \in 0 .. frame[2] - 1

\* Pixel k of line y of a frame is laid over pixel k+1 of line y of the video, and over
\* no other; pixel 0 of the video shows through.  A FIFO that is empty for a while
\* moves the rest of that line to the right, and nothing else: two HSYNC bytes and two
\* clocks of requests bring the next line back in step.
Aligned ==
  clean /\ vy < H =>
    /\ ShownX = 0 => SyncWaitH \/ SyncWaitV
    /\ ShownX \in 1 .. W-1 =>
         /\ pixel_sink \in {Pixel(ShownX - 1 - lag, vy), Pixel(-1, -1)}
         /\ lag = 0 => pixel_sink = Pixel(ShownX - 1, vy)

\* A picture that was in step is followed by another, as long as the frames fit the video.
StaysInStep ==
  clean /\ vx = 0 /\ vy = 0 /\ frame = <<W, H>> => Ready

\* Whatever came before, frames of another size or an empty FIFO at the worst moment:
\* once the frames fit and the FIFO keeps up, the overlay gets in step with the video.
Resync ==
  <>[][~Underflow /\ frame' = <<W, H>>]_vars => <>[](vx = 1 /\ vy = 0 => clean)

-----------------------------------------------------------------------------
(* The inductive invariant behind Aligned and StaysInStep: where the stream stands *)
(* at each clock of a picture that is in step.                                     *)

\* Between the sync bytes before line y and its first pixel.
Wait(y) ==
  /\ ~fifoRdreq /\ fx = 0 /\ fy = y /\ frame = <<W, H>>
  /\ pixel_sink = IF y = 0 THEN VSync ELSE HSync

\* After the last line, before any frame.
WaitEnd == ~fifoRdreq /\ fx = 0 /\ fy = 0 /\ pixel_sink = VSync

\* After line y.
WaitAfter(y) == IF y < H-1 THEN Wait(y+1) ELSE WaitEnd

\* The second sync byte of line y is about to be read.
SecondSync(y) ==
  /\ fifoRdreq /\ fx = W + 1 /\ fy = y /\ frame = <<W, H>>
  /\ pixel_sink = IF y < H-1 THEN HSync ELSE VSync

\* n pixels of line y have been read.
Reading(n, y) ==
  /\ fifoRdreq /\ fx = n /\ fy = y /\ frame = <<W, H>>
  /\ IF vx = 2 THEN pixel_sink = IF y = 0 THEN VSync ELSE HSync
     ELSE /\ pixel_sink \in {Pixel(n-1, y), Pixel(-1, -1)}
          /\ lag = 0 => pixel_sink = Pixel(n-1, y)

\* Inside a line, by the number of bytes read of it.
InLine(n) ==
  /\ lag <= HBlank - 3 /\ n >= 0
  /\ n <= W => Reading(n, vy)
  /\ n = W + 1 => SecondSync(vy)
  /\ n >= W + 2 => WaitAfter(vy)

InStep ==
  clean =>
    /\ vx <= 1 => lag = 0
    /\ vx = 0 /\ vy \in 1 .. H => SecondSync(vy-1) \/ WaitAfter(vy-1)
    /\ vx = 1 /\ vy < H => Wait(vy)
    /\ vx >= 2 /\ vy < H => InLine(vx - 2 - lag)
    /\ (vx = 0 /\ (vy = 0 \/ vy > H)) \/ (vx > 0 /\ vy >= H) => WaitEnd

OverlayInvariant == TypeOK /\ (vx = 0 => lag = 0) /\ InStep
=============================================================================
