-------------------------- MODULE MemoryProperties --------------------------
(***************************************************************************)
(* What keeps the users of the two udmabuf areas apart.                    *)
(***************************************************************************)
EXTENDS Memory

TypeOK ==
  /\ phase \in {"open", "running", "exited"}
  /\ sz_allocated \in 0 .. WordRange-1 /\ start \in 0 .. WordRange-1
  /\ areas \subseteq [base : Nat, length : Nat] /\ maps \in 0 .. Layers
  /\ screen \in Resolutions \cup {<<0, 0>>}
  /\ txmit \subseteq [base : Nat, length : Nat]

Inside(area, size) == area.base + area.length <= size
Apart(a, b) == a.base + a.length <= b.base \/ b.base + b.length <= a.base

\* Whatever malloc left in sz_allocated, short of a value beyond the area itself: the
\* maps and the blank screens lie in udmabuf1 and do not overlap.  Such a start only
\* makes room for fewer sessions; one near the end of the address space would wrap the
\* check of AllocRenderBuf around and put the first map below the area.
AreasApart ==
  start <= sz_dyn_area =>
    \A a, b \in areas : Inside(a, sz_dyn_area) /\ (a # b => Apart(a, b))

\* A frame no larger than MAX_WIDTH by MAX_SCREEN_HEIGHT passes the assertions of
\* FrameBufferTxmit and stays inside its buffer, and the buffer inside udmabuf0.
FramesFit ==
  \A t \in txmit :
    screen[1] <= MAX_WIDTH /\ screen[2] <= MAX_SCREEN_HEIGHT =>
      /\ TxmitAsserts(t.length)
      /\ Inside(t, sz_udmabuf0)
      /\ \A i \in 0 .. NUM_FRAME_BUFFER-1 :
           GetFrameBuffer(i) # t.base => Apart(Area(GetFrameBuffer(i), FRAME_BUFFER_SIZE), t)

\* What FrameBufferTxmit asserts: danmaku_driver.c:286.
LengthAsserted == \A t \in txmit : t.length <= FRAME_BUFFER_SIZE
=============================================================================
