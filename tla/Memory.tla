------------------------------- MODULE Memory -------------------------------
(***************************************************************************)
(* danmaku_driver.c's memory: the frame buffers in udmabuf0 and the        *)
(* allocator of udmabuf1, from which a process takes the maps of its       *)
(* layers and, in every session, a blank screen; and the frames that       *)
(* FrameBufferTxmit hands to the overlay DMA.                              *)
(***************************************************************************)
EXTENDS Geometry

CONSTANTS
  MAX_WIDTH, MAX_SCREEN_HEIGHT, MAX_HEIGHT, NUM_FRAME_BUFFER,
  Layers,          \* layers that have a map
  sz_udmabuf0, sz_dyn_area,
  WordRange,       \* a size_t counts modulo this
  Uninitialized,   \* what malloc may leave in sz_allocated
  Resolutions      \* sizes <<w, h>> of the videos that get connected

FRAME_BUFFER_SIZE == UpToWord((MAX_WIDTH + 2) * MAX_SCREEN_HEIGHT)

\* The map of a layer has MAX_HEIGHT rows of twice MAX_WIDTH bytes.
MapSize == MAX_HEIGHT * MAX_WIDTH * 2

ASSUME MemoryAssumption ==
  /\ MAX_WIDTH \in Nat \ {0} /\ MAX_SCREEN_HEIGHT \in Nat \ {0} /\ MAX_HEIGHT \in Nat \ {0}
  /\ NUM_FRAME_BUFFER \in Nat \ {0} /\ Layers \in Nat
  /\ sz_udmabuf0 \in Nat /\ sz_dyn_area \in Nat /\ WordRange \in Nat
  /\ sz_udmabuf0 < WordRange
  /\ MapSize + sz_dyn_area < WordRange
  /\ Resolutions \subseteq Nat \X Nat
  /\ \A r \in Resolutions : ImgSize(r[1], r[2]) + sz_dyn_area < WordRange
  /\ Uninitialized \subseteq 0 .. WordRange - 1

VARIABLES
  phase,         \* "open" before DanmakuHW_Open, "running" after it, "exited"
  sz_allocated,
  areas,         \* what has been allocated: offsets and lengths
  maps,          \* maps allocated
  screen,        \* screen_width and screen_height of the session; 0 before the first
  txmit,         \* arguments of the session's last FrameBufferTxmit
  start          \* history: what sz_allocated was at first

vars == <<phase, sz_allocated, areas, maps, screen, txmit, start>>

img_size == ImgSize(screen[1], screen[2])

Area(base, length) == [base |-> base, length |-> length]

\* Mutant of AllocRenderBuf: the length is not counted in the check.
MutAllocRenderBuf(length) ==
  IF sz_allocated > sz_dyn_area THEN phase' = "exited" /\ UNCHANGED <<sz_allocated, areas>>
  ELSE /\ areas' = areas \cup {Area(sz_allocated, length)}
       /\ sz_allocated' = (sz_allocated + length) % WordRange
       /\ UNCHANGED phase

\* The process exits when there is no room.
AllocRenderBuf(length) ==
  IF (sz_allocated + length) % WordRange > sz_dyn_area
  THEN phase' = "exited" /\ UNCHANGED <<sz_allocated, areas>>
  ELSE /\ areas' = areas \cup {Area(sz_allocated, length)}
       /\ sz_allocated' = (sz_allocated + length) % WordRange
       /\ UNCHANGED phase

\* DanmakuHW_Open: the context comes from malloc and sz_allocated is not set.
Open ==
  /\ phase = "open"
  /\ phase' = IF FRAME_BUFFER_SIZE * NUM_FRAME_BUFFER > sz_udmabuf0 THEN "exited" ELSE "running"
  /\ UNCHANGED <<sz_allocated, areas, maps, screen, txmit, start>>

\* InitSliding or InitStatic.
InitLayer ==
  /\ phase = "running" /\ maps < Layers
  /\ AllocRenderBuf(MapSize)
  /\ maps' = maps + 1
  /\ UNCHANGED <<screen, txmit, start>>

\* SubMain and InitBlankScreen of the next session.  Nothing is ever freed.
Session ==
  /\ phase = "running" /\ maps = Layers
  /\ \E r \in Resolutions :
       /\ Accepts(r[1], r[2])
       /\ screen' = r
       /\ AllocRenderBuf(ImgSize(r[1], r[2]))
  /\ txmit' = {}
  /\ UNCHANGED <<maps, start>>

\* DanmakuHW_GetFrameBuffer.
GetFrameBuffer(buf_index) == buf_index * FRAME_BUFFER_SIZE

\* What FrameBufferTxmit asserts of the length.
TxmitAsserts(length) == length <= FRAME_BUFFER_SIZE /\ length % 8 = 0

\* Thread4Overlay hands a buffer to the DMA; the process aborts if an assertion fails.
FrameBufferTxmit ==
  /\ phase = "running" /\ screen # <<0, 0>>
  /\ \E buf_index \in 0 .. NUM_FRAME_BUFFER-1 :
       txmit' = {Area(GetFrameBuffer(buf_index), img_size)}
  /\ phase' = IF TxmitAsserts(img_size) THEN phase ELSE "exited"
  /\ UNCHANGED <<sz_allocated, areas, maps, screen, start>>

\* systemd starts a process that has exited again.
Restart ==
  /\ phase = "exited" /\ phase' = "open"
  /\ sz_allocated' \in Uninitialized /\ start' = sz_allocated'
  /\ areas' = {} /\ maps' = 0 /\ screen' = <<0, 0>> /\ txmit' = {}

Init ==
  /\ phase = "open"
  /\ sz_allocated \in Uninitialized /\ start = sz_allocated
  /\ areas = {} /\ maps = 0 /\ screen = <<0, 0>> /\ txmit = {}

Next == Open \/ InitLayer \/ Session \/ FrameBufferTxmit \/ Restart

Spec == Init /\ [][Next]_vars
=============================================================================
