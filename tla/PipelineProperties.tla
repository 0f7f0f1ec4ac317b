------------------------ MODULE PipelineProperties ------------------------
(***************************************************************************)
(* What the frame pipeline guarantees, and two things its source says that *)
(* it does not do.                                                         *)
(***************************************************************************)
EXTENDS Pipeline

\* The main thread holds buffer midx: RenderOnce draws into it.
Drawing == mpc \in {"render", "drain", "commit"}

Pending == {txq[i] : i \in DOMAIN txq} \cup {txcur[i] : i \in DOMAIN txcur}
\* The buffers named by this session's descriptors in a FIFO, in the overlay DMA.
OwnIn(descs) == {descs[i].slot : i \in {j \in DOMAIN descs : descs[j].own}}
OwnSlots == OwnIn(txq) \cup OwnIn(txcur)

\* Thread4Overlay holds the slot number oidx between GetFilledBuffer and
\* ReleaseBuffer.
Holding == opc \in {"loop", "txmit", "pending", "size", "release"} /\ oidx # -1

-----------------------------------------------------------------------------
(* Safety. *)

\* No torn picture: a buffer the overlay DMA was told to read in this session
\* is neither the one Render is drawing into nor one the render DMA still writes,
\* although Thread4Overlay releases a buffer while the DMA is reading it.
NoTear ==
  \A f \in OwnSlots : left[f] = 0 /\ ~(Drawing /\ f = midx)

\* No half-drawn picture: what is transmitted of this session's pictures had all
\* its strips submitted, although a SIGINT cuts RenderOnce short and the cut
\* picture is committed to the ring.
ShownWhole ==
  \A f \in OwnSlots : pic[f].own => pic[f].whole

\* While render_running is 1 no filled buffer is still being written, although
\* Render commits without waiting for the render DMA when a session stops.
FilledStable ==
  running => \A f \in FilledSlots : left[f] = 0

\* The asserts of ring.c and danmaku_driver.c hold where they are evaluated, and the
\* slot to transmit is still the oldest filled one.
AssertsHold ==
  /\ mpc = "commit" => CommitAllowed /\ midx = wrptr
  /\ opc = "release" => ReleaseAllowed
  /\ Holding => oidx = GetFilledBuffer
  /\ opc = "txmit" => oidx \in Slots

\* The ring is not emptied between sessions; what an earlier session (another
\* resolution) left in it comes out before any picture of this session.
StaleFirst ==
  \A i, j \in 1 .. RingSize :
    i < j /\ pic[FilledSlot(i)].own => pic[FilledSlot(j)].own

\* Once Thread4Overlay's wait for PendingTxmit ended in a running session, no
\* descriptor an earlier session left in the overlay DMA is there any more; if those
\* filled its FIFO, so that it dropped the buffer waited for, all but the one it is
\* still reading.
FirstWaitFlushes ==
  running /\ opc \in {"size", "release", "next"} =>
    \A d \in Pending : d.own \/ (handed = "dropped" /\ ~PendingTxmit)

\* A picture is released only after the overlay DMA accepted it: none is skipped, at
\* the end of a session either, but the first that a session hands over, which
\* meets a FIFO that earlier sessions may have filled.
NoPictureSkipped ==
  [][/\ rdptr' # rdptr /\ opc' # "none" => shown = pic[rdptr].serial \/ handed = "dropped"
     /\ opc = "txmit" /\ opc' = "pending" /\ handed' = "dropped" => handed = "none"]_vars

\* The pipeline implements the bounded FIFO of pictures.
Queue == [i \in 1 .. RingSize |-> pic[FilledSlot(i)].serial]
Fifo == INSTANCE FrameFifo WITH queue <- Queue, Capacity <- N-1, Keep <- 2
IsFifo == Fifo!FifoSpec

-----------------------------------------------------------------------------
(* Liveness. *)

\* While rendering runs and there is video, the overlay thread releases a buffer
\* again and again: neither thread waits for the other for ever.
FramesMove ==
  opc = "txmit" ~> opc = "release" \/ ~running \/ opc = "none" \/ res = NoVideo

\* A session that stops returns from pthread_join, unless the overlay thread
\* never noticed that it had begun.
StopReturns ==
  mpc = "join" /\ opc \notin {"await", "awaitsig"} ~> mpc # "join"

\* A SIGINT in a running session ends the program (its handler on the main thread).
SigintEndsSession ==
  hpc = "half" /\ mpc \in {"ringwait", "getempty", "render", "drain", "commit", "check"}
    ~> mpc \in {"exited", "dead"}

\* When the source settles on a supported mode and there is no SIGINT, the program
\* ends up rendering for that mode for good, or has ended, or waits in pthread_join
\* for an overlay thread that missed the whole last session.
VideoFollowed ==
  \A m \in Modes :
    <>[](res = m) /\ []~sigint =>
      <>[](\/ running /\ geom = m
           \/ mpc \in {"exited", "dead"}
           \/ mpc = "join" /\ opc \in {"await", "awaitsig"})

-----------------------------------------------------------------------------
(* What the source says and the program does not do. *)

\* main: "Clean up and exit" follows the loop that a SIGINT ends.
SigintExits == sigint ~> mpc \in {"exited", "dead"}
=============================================================================
