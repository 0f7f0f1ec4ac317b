-------------------------------- MODULE Ring --------------------------------
(***************************************************************************)
(* ring.c: the ring of frame buffers shared by the render thread, which    *)
(* fills slots, and the overlay thread, which sends them to the display.   *)
(* Every function of ring.c runs under ring_mutex, so each one is a single *)
(* step or a single read.  The slots hold no data here: ring.c only hands  *)
(* out their numbers.                                                      *)
(***************************************************************************)
EXTENDS Integers

CONSTANT N \* NUM_FRAME_BUFFER

\* With fewer than 4 slots Thread4Overlay, which releases only when more than
\* two slots are filled, would never release one (constants.h has 7).
ASSUME NAssumption == N \in Nat /\ N >= 4

VARIABLES rdptr, wrptr

Slots == 0 .. N-1

RingTypeOK == rdptr \in Slots /\ wrptr \in Slots

RingInit == rdptr = 0 /\ wrptr = 0
RingReset == rdptr' = 0 /\ wrptr' = 0

\* The slots in ring order, and the filled ones between pointers r and w.
After(slot) == (slot + 1) % N
SlotAt(r, i) == (r + i - 1) % N
Size(r, w) == (w - r + N) % N
Filled(r, w) == {SlotAt(r, i) : i \in 1 .. Size(r, w)}

RingSize == Size(rdptr, wrptr)
\* The i-th filled slot, counted from the oldest (1).
FilledSlot(i) == SlotAt(rdptr, i)
FilledSlots == Filled(rdptr, wrptr)

\* The slot to fill next; there is none, and the C function returns -1, when
\* one more slot would make wrptr meet rdptr.
EmptyBufferExists == After(wrptr) # rdptr
GetEmptyBuffer == wrptr

\* The oldest filled slot, or -1.
GetFilledBuffer == IF wrptr = rdptr THEN -1 ELSE rdptr

\* assert(rdptr!=wrptr) and assert(t!=rdptr): the conditions under which the
\* two updates may be called.
ReleaseAllowed == rdptr # wrptr
CommitAllowed == After(wrptr) # rdptr

\* Mutant of ReleaseBuffer: the pointer does not wrap.
MutReleaseBuffer == rdptr' = rdptr + 1 /\ wrptr' = wrptr

ReleaseBuffer == rdptr' = After(rdptr) /\ wrptr' = wrptr

\* Mutant of CommitBuffer: it advances by two slots.
MutCommitBuffer == wrptr' = After(After(wrptr)) /\ rdptr' = rdptr

CommitBuffer == wrptr' = After(wrptr) /\ rdptr' = rdptr
=============================================================================
