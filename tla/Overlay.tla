------------------------------ MODULE Overlay ------------------------------
(***************************************************************************)
(* danmaku_overlay.v and pixel_data_adapter.v: the FPGA logic that lays    *)
(* the pixels the overlay DMA sends over the video, as they arrive.  A     *)
(* frame in memory is a line of pixels and two HSYNC bytes, again and      *)
(* again, with two VSYNC bytes at the end; these bytes stop the stream     *)
(* until the video has come to the next line or the next frame.            *)
(*                                                                         *)
(* One step is one edge of the pixel clock.  An unprimed variable is a     *)
(* register before the edge, a primed one after it.                        *)
(***************************************************************************)
EXTENDS Integers

CONSTANTS
  W, H,        \* pixels of a line of the video, lines of a picture
  HBlank,      \* pixel clocks between two lines
  VBlank,      \* lines between two pictures
  Geometries   \* sizes <<w, h>> of the frames the DMA can be sending

ASSUME OverlayAssumption ==
  /\ W \in Nat /\ W >= 3 /\ H \in Nat \ {0}
  /\ HBlank \in Nat /\ HBlank >= 5 /\ VBlank \in Nat \ {0}
  /\ Geometries \subseteq (Nat \ {0}) \X (Nat \ {0})
  /\ <<W, H>> \in Geometries

VARIABLES
  vx, vy,      \* the pixel of the video at the inputs; from W, H on: blanking
  fifoRdreq,
  pixel_sink,  \* what the adapter presents to the overlay
  frame,       \* size of the frame whose bytes leave the FIFO
  fx, fy,      \* the byte at the head of the FIFO: its place in that frame
  clean,       \* history: the current picture was in step with its frame so far
  lag          \* history: reads of an empty FIFO in this line of the picture

vars == <<vx, vy, fifoRdreq, pixel_sink, frame, fx, fy, clean, lag>>

-----------------------------------------------------------------------------
(* The video and pxlCounter's view of it. *)

DeIn == vx < W /\ vy < H
LineEnds == vx = W + HBlank - 1

NextPixel ==
  /\ vx' = IF LineEnds THEN 0 ELSE vx + 1
  /\ vy' = IF ~LineEnds THEN vy ELSE IF vy = H + VBlank - 1 THEN 0 ELSE vy + 1

\* While a line is active the counters hold the place of the pixel at the inputs
\* (VideoIn!PositionTrue).
NowX == vx
NowPxl == vy * W + vx

\* The pixel of the video at the outputs is the one of two clocks ago.
ShownX == vx - 2

-----------------------------------------------------------------------------
(* The stream of bytes. *)

Pixel(x, y) == [code |-> "pixel", x |-> x, y |-> y]
HSync == [code |-> "hsync", x |-> 0, y |-> 0]
VSync == [code |-> "vsync", x |-> 0, y |-> 0]
\* What the output of an empty FIFO may look like.
Garbage == {Pixel(-1, -1), HSync, VSync}

\* The byte at the head of the FIFO.
Head ==
  IF fx < frame[1] THEN Pixel(fx, fy) ELSE IF fy < frame[2] - 1 THEN HSync ELSE VSync

\* It is read; the DMA sends the frame it was told to send next.
ReadFifo ==
  IF fx < frame[1] + 1 THEN fx' = fx + 1 /\ UNCHANGED <<fy, frame>>
  ELSE IF fy < frame[2] - 1 THEN fx' = 0 /\ fy' = fy + 1 /\ UNCHANGED frame
  ELSE fx' = 0 /\ fy' = 0 /\ frame' \in Geometries

-----------------------------------------------------------------------------
(* The overlay. *)

SyncWaitH == pixel_sink.code = "hsync"
SyncWaitV == pixel_sink.code = "vsync"

\* Mutant of Rdreq: a line is started by one request.
MutRdreqOnce ==
  /\ ~SyncWaitH \/ (DeIn /\ NowX = 1)
  /\ ~SyncWaitV \/ (DeIn /\ NowPxl = 1)

\* Mutant of Rdreq: a VSYNC waits for a line only.
MutRdreqLine ==
  ~(SyncWaitH \/ SyncWaitV) \/ (DeIn /\ NowX \in {1, 2})

\* Mutant of Rdreq: the vertical wait is not there.
MutRdreqNoV == ~SyncWaitH \/ (DeIn /\ NowX \in {1, 2})

\* A read is requested unless the overlay waits for the next line or frame; two
\* requests start it again, as it takes two bytes to get past the second sync byte.
Rdreq ==
  /\ ~SyncWaitH \/ (DeIn /\ NowX \in {1, 2})
  /\ ~SyncWaitV \/ (DeIn /\ NowPxl \in {1, 2})

\* Where a picture begins: the stream stands at the first byte of a frame of its size.
Ready ==
  /\ SyncWaitV /\ ~fifoRdreq
  /\ fx = 0 /\ fy = 0 /\ frame = <<W, H>>

\* An empty FIFO does more harm than the rest of a line: what it shows passes for a
\* sync byte, or it comes between two sync bytes, or it lasts into the next line.
Harm == pixel_sink'.code # "pixel" \/ fx > frame[1] \/ lag >= HBlank - 3

History(underflow) ==
  /\ clean' = IF vx = 0 /\ vy = 0 THEN Ready ELSE clean /\ ~(underflow /\ Harm)
  /\ lag' = IF LineEnds THEN 0 ELSE IF underflow THEN lag + 1 ELSE lag

Step ==
  NextPixel /\ fifoRdreq' = Rdreq

Idle ==
  /\ ~fifoRdreq /\ Step
  /\ UNCHANGED <<pixel_sink, frame, fx, fy>>
  /\ History(FALSE)

Read ==
  /\ fifoRdreq /\ Step
  /\ pixel_sink' = Head /\ ReadFifo
  /\ History(FALSE)

Underflow ==
  /\ fifoRdreq /\ Step
  /\ pixel_sink' \in Garbage
  /\ UNCHANGED <<frame, fx, fy>>
  /\ History(TRUE)

Init ==
  /\ vx \in 0 .. W + HBlank - 1 /\ vy \in 0 .. H + VBlank - 1
  /\ fifoRdreq = FALSE
  /\ pixel_sink \in Garbage
  /\ frame \in Geometries /\ fx = 0 /\ fy = 0
  /\ clean = FALSE /\ lag = 0

Next == Idle \/ Read \/ Underflow

Spec == Init /\ [][Next]_vars

\* The pixel clock runs.
FairSpec == Spec /\ WF_vars(Next)
=============================================================================
