----------------------------- MODULE FrameFifo -----------------------------
(***************************************************************************)
(* What the ring, Render and Thread4Overlay promise together: a bounded    *)
(* FIFO of numbered pictures.  The renderer puts consecutive pictures at   *)
(* the end, the display is only ever handed the oldest one, and the oldest *)
(* one is dropped only while more than Keep pictures are queued.           *)
(***************************************************************************)
EXTENDS Integers, Sequences

CONSTANTS Capacity, Keep, SerialCount

VARIABLES queue, made, shown

fifoVars == <<queue, made, shown>>

FifoInit == queue = <<>> /\ made = 0 /\ shown = -1

Put ==
  /\ Len(queue) < Capacity
  /\ made' = (made + 1) % SerialCount
  /\ queue' = Append(queue, made')
  /\ UNCHANGED shown

Show ==
  /\ queue # <<>>
  /\ shown' = Head(queue)
  /\ UNCHANGED <<queue, made>>

Drop ==
  /\ Len(queue) > Keep
  /\ queue' = Tail(queue)
  /\ UNCHANGED <<made, shown>>

\* The program is restarted.
Reset == queue' = <<>> /\ made' = 0 /\ shown' = -1

FifoNext == Put \/ Show \/ Drop \/ Reset

FifoSpec == FifoInit /\ [][FifoNext]_fifoVars
=============================================================================
