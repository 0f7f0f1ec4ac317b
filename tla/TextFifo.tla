------------------------------ MODULE TextFifo ------------------------------
(***************************************************************************)
(* What one of the two queues and its layers promise to the sender of the  *)
(* texts: an unbounded FIFO.  In a frame new texts join the end and the    *)
(* oldest text may be put on the screen; no text is lost, doubled or       *)
(* overtaken.                                                              *)
(***************************************************************************)
EXTENDS Sequences, SequencesExt

CONSTANT None

VARIABLES waiting, latest \* the texts not yet shown, and the one shown last

FifoInit == waiting = <<>> /\ latest = None

\* Texts only join the end...
Join == IsPrefix(waiting, waiting') /\ UNCHANGED latest

\* ...and the oldest one, which may have joined in the same frame, is shown.
Show == IsPrefix(waiting, <<latest'>> \o waiting')

FifoNext == Join \/ Show

FifoSpec == FifoInit /\ [][FifoNext]_<<waiting, latest>>
=============================================================================
